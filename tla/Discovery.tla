----------------------------- MODULE Discovery -----------------------------
(***************************************************************************)
(* Where the identity of an instance comes from.  A discovery job asks     *)
(* Aurora for the names and roles of the instances and takes their         *)
(* identities from a cache of RDS metadata (internal/discovery), which a   *)
(* worker refreshes on its own clock (controller/rds_metadata_worker.go).  *)
(* Neither waits for the other; the job never calls RDS itself, as the     *)
(* manager sets CachedOnly.                                                *)
(*                                                                         *)
(* There is one resource with one cluster, and its clusterName and         *)
(* domainName are set.  The identity of an instance is the number of times *)
(* its name has been given to a new physical instance.  Zones and ports    *)
(* take the same way as identities and are left out.                       *)
(***************************************************************************)
EXTENDS Integers, FiniteSets, SequencesExt

CONSTANTS
    Name,            \* names of Aurora DB instances
    FirstWriter,     \* the writer at the start
    Blank,           \* an empty server_id
    Interval,        \* rds-metadata-refresh-interval
    ClusterTimeout,  \* how long one refresh may take
    MinTTL,          \* minRDSMetadataCacheTTL
    Disturbances,    \* bound on changes of the cluster, errors and restarts
    Faults           \* bound on errors and restarts alone

\* The timeout is 10 s, the interval is at least 10 s and the TTL at least 300 s:
\* an interval is twice the timeout, or two refreshes fit into the TTL anyway.
ASSUME DiscoveryAssumption ==
    /\ IsFiniteSet(Name) /\ FirstWriter \in Name /\ Blank \notin Name
    /\ Interval \in Nat \ {0} /\ ClusterTimeout \in 1..Interval
    /\ MinTTL \in Nat /\ Disturbances \in Nat /\ Faults \in Nat
    /\ 2 * ClusterTimeout <= Interval \/ 2 * (Interval + ClusterTimeout) <= MinTTL

VARIABLES
    cluster,   \* Aurora: the instances that are there, the writer, identities
    topo,      \* status.lastKnownTopology: name -> role and identity
    missing,   \* status.missingInstances: names
    job,       \* the discovery job
    held,      \* the reconcile in progress, as far as it concerns missing
    cache,     \* the cluster's entry in the metadata cache
    worker,    \* the metadata worker
    misses,    \* history: refreshes in a row that failed (two: or more, or all)
    changes, faults

vars == <<cluster, topo, missing, job, held, cache, worker, misses, changes, faults>>

-----------------------------------------------------------------------------
(* Data *)

NoIdentity == 0
Empty == [n \in {} |-> {}]

\* Mutant: the cache lives for two intervals.
rdsMetadataCacheTTL_TwoIntervals ==
    IF 2 * Interval < MinTTL THEN MinTTL ELSE 2 * Interval

rdsMetadataCacheTTL == IF 3 * Interval < MinTTL THEN MinTTL ELSE 3 * Interval

\* The age of an entry is measured from when its refresh looked at the clock,
\* and stops counting when it is too old.
TooOld == rdsMetadataCacheTTL + 1
NoCache == [age |-> TooOld, metadata |-> Empty]

JobIdle == [pc |-> "idle", topo |-> Empty, missing |-> {}, rows |-> <<>>,
            result |-> Empty, trusted |-> FALSE]
NotHeld == [busy |-> FALSE, missing |-> {}, due |-> {}]
WorkerStarts == [pc |-> "wait", ticking |-> FALSE, tick |-> Interval,
                 age |-> 0, metadata |-> Empty]

Fault ==
    /\ faults < Faults /\ changes + faults < Disturbances
    /\ faults' = faults + 1

\* Names are interchangeable: the first writer may be any one of them.
Init ==
    /\ \E here \in SUBSET Name :
          /\ FirstWriter \in here
          /\ cluster = [here |-> here, writer |-> FirstWriter,
                        born |-> [n \in Name |-> 1]]
    /\ topo = Empty /\ missing = {}
    /\ job = JobIdle /\ held = NotHeld
    /\ cache = NoCache /\ worker = WorkerStarts /\ misses = 2
    /\ changes = 0 /\ faults = 0

-----------------------------------------------------------------------------
(* The metadata worker *)

\* The first refresh comes at once, the others when the ticker fires; a tick
\* that comes during a refresh waits for its end.  RefreshCluster looks at the
\* clock, and drops what has expired, before it calls RDS.
RefreshStarts ==
    /\ worker.pc = "wait" /\ worker.tick = Interval
    /\ worker' = [worker EXCEPT !.pc = "call", !.tick = 0, !.age = 0]
    /\ cache' = IF cache.age > rdsMetadataCacheTTL
                THEN NoCache ELSE cache
    /\ UNCHANGED <<cluster, topo, missing, job, held, misses, changes, faults>>

\* DescribeDBInstances is answered.  An instance that is being created may not
\* have an identity yet, or may not be listed.
RefreshReads ==
    /\ worker.pc = "call"
    /\ \E listed \in SUBSET cluster.here :
          /\ IF listed = cluster.here THEN UNCHANGED faults ELSE Fault
          /\ worker' = [worker EXCEPT !.pc = "store",
                          !.metadata = [n \in listed |-> cluster.born[n]]]
    /\ UNCHANGED <<cluster, topo, missing, job, held, cache, misses, changes>>

\* The ticker is made after the first refresh.
RefreshEnds ==
    worker' = [WorkerStarts EXCEPT !.ticking = TRUE,
                 !.tick = IF worker.ticking THEN worker.tick ELSE 0]

RefreshStores ==
    /\ worker.pc = "store"
    /\ cache' = [age |-> worker.age, metadata |-> worker.metadata]
    /\ misses' = 0
    /\ RefreshEnds
    /\ UNCHANGED <<cluster, topo, missing, job, held, changes, faults>>

\* The list of resources, the rate limiter or RDS fails, or the timeout passes.
\* What is cached stays.
RefreshFails ==
    /\ worker.pc \in {"call", "store"}
    /\ misses' = IF misses < 2 THEN misses + 1 ELSE 2
    /\ RefreshEnds
    /\ UNCHANGED <<cluster, topo, missing, job, held, cache, changes, faults>>

-----------------------------------------------------------------------------
(* The discovery job *)

Row == [name : Name \cup {Blank}, writer : BOOLEAN]

\* What aurora_replica_status says when all is well.
TrueRows ==
    SetToSeq({[name |-> n, writer |-> n = cluster.writer] : n \in cluster.here})

\* While the cluster changes it may say anything else.
OddRows == UNION {[1..k -> Row] : k \in 0..2}

\* runDiscoveryJob: the snapshot, and the rows from the first endpoint that
\* answers.
DiscoveryStarts ==
    /\ job.pc = "idle"
    /\ \E rows \in {TrueRows} \cup OddRows :
          /\ IF rows = TrueRows THEN UNCHANGED faults ELSE Fault
          /\ job' = [JobIdle EXCEPT !.pc = "resolve", !.topo = topo,
                                    !.missing = missing, !.rows = rows]
    /\ UNCHANGED <<cluster, topo, missing, held, cache, worker, misses, changes>>

\* No endpoint answers.
DiscoveryGetsNoRows ==
    /\ job.pc = "idle"
    /\ Fault
    /\ job' = [JobIdle EXCEPT !.pc = "record", !.topo = topo, !.missing = missing]
    /\ UNCHANGED <<cluster, topo, missing, held, cache, worker, misses, changes>>

Names(rows) == {rows[k].name : k \in DOMAIN rows} \ {Blank}

reappearedInstanceNames(rows) == job.missing \cap Names(rows)

\* Resolve: the cached metadata, but nothing for a name that was missing, as it
\* may be another physical instance now.
Resolve(rows) ==
    IF cache.age > rdsMetadataCacheTTL THEN Empty
    ELSE [n \in DOMAIN cache.metadata \ reappearedInstanceNames(rows) |->
             cache.metadata[n]]

\* Mutant: a recorded identity is not replaced.
dbiResourceIdForInstance_Sticky(n, metadata) ==
    IF n \in DOMAIN job.topo /\ job.topo[n].dbi # NoIdentity THEN job.topo[n].dbi
    ELSE IF n \in DOMAIN metadata THEN metadata[n] ELSE NoIdentity

\* Mutant: without metadata the identity is unknown.
dbiResourceIdForInstance_CacheOnly(n, metadata) ==
    IF n \in DOMAIN metadata THEN metadata[n] ELSE NoIdentity

dbiResourceIdForInstance(n, metadata) ==
    IF n \in DOMAIN metadata THEN metadata[n]
    ELSE IF n \in DOMAIN job.topo THEN job.topo[n].dbi ELSE NoIdentity

WriterRows(rows) == {k \in DOMAIN rows : rows[k].writer}

\* Mutant: only a missing writer is noticed.
Usable_AnyWriter(rows) ==
    /\ rows # <<>>
    /\ \A k \in DOMAIN rows : rows[k].name # Blank
    /\ \A j, k \in DOMAIN rows : rows[j].name = rows[k].name => j = k
    /\ WriterRows(rows) # {}

Usable(rows) ==
    /\ rows # <<>>
    /\ \A k \in DOMAIN rows : rows[k].name # Blank
    /\ \A j, k \in DOMAIN rows : rows[j].name = rows[k].name => j = k
    /\ Cardinality(WriterRows(rows)) = 1

\* BuildResult for rows that are usable.
Topology(rows, metadata) ==
    [n \in Names(rows) |->
        [role |-> IF \E k \in WriterRows(rows) : rows[k].name = n
                  THEN "writer" ELSE "reader",
         dbi |-> dbiResourceIdForInstance(n, metadata)]]

\* Discover, after the rows are there.
DiscoveryResolves ==
    /\ job.pc = "resolve"
    /\ job' = [job EXCEPT !.pc = "record", !.trusted = Usable(job.rows), !.rows = <<>>,
                 !.result = IF Usable(job.rows)
                            THEN Topology(job.rows, Resolve(job.rows)) ELSE Empty]
    /\ cache' = IF cache.age > rdsMetadataCacheTTL
                THEN NoCache ELSE cache
    /\ UNCHANGED <<cluster, topo, missing, held, worker, misses, changes, faults>>

missingInstancesFor(result) == (job.missing \cup DOMAIN job.topo) \ DOMAIN result

\* updateDiscoveryStatus.  A failed discovery either leaves the record as it is
\* or, below the failure threshold, records the cached topology once more.
DiscoveryRecords ==
    /\ job.pc = "record"
    /\ IF job.trusted
       THEN topo' = job.result /\ missing' = missingInstancesFor(job.result)
       ELSE /\ topo' = topo
            /\ missing' \in {missing} \cup
                  (IF job.topo # Empty THEN {missingInstancesFor(job.topo)} ELSE {})
    /\ job' = JobIdle
    /\ UNCHANGED <<cluster, held, cache, worker, misses, changes, faults>>

\* The status update fails.
DiscoveryIsLost ==
    /\ job.pc = "record"
    /\ Fault
    /\ job' = JobIdle
    /\ UNCHANGED <<cluster, topo, missing, held, cache, worker, misses, changes>>

-----------------------------------------------------------------------------
(* The reconciler, as far as it writes the list of missing instances *)

ReconcileStarts ==
    /\ ~ held.busy /\ missing # {}
    /\ held' = [busy |-> TRUE, missing |-> missing, due |-> missing \ DOMAIN topo]
    /\ UNCHANGED <<cluster, topo, missing, job, cache, worker, misses, changes, faults>>

\* updateStatus writes the list of its snapshot, less the instances whose
\* resources it has deleted after their retention; when its discovery is not
\* trusted, or it fails, it writes no list.
ReconcileEnds ==
    /\ held.busy
    /\ \/ \E gone \in SUBSET held.due : missing' = held.missing \ gone
       \/ missing' = missing
    /\ held' = NotHeld
    /\ UNCHANGED <<cluster, topo, job, cache, worker, misses, changes, faults>>

-----------------------------------------------------------------------------
(* The environment *)

Change == changes + faults < Disturbances /\ changes' = changes + 1

AuroraChanges ==
    /\ Change
    /\ \/ \E n \in Name :     \* a physical instance takes the name
             cluster' = [cluster EXCEPT !.here = @ \cup {n}, !.born[n] = @ + 1]
       \/ \E n \in cluster.here \ {cluster.writer} :
             cluster' = [cluster EXCEPT !.here = @ \ {n}]
       \/ \E n \in cluster.here \ {cluster.writer} :
             cluster' = [cluster EXCEPT !.writer = n]
    /\ UNCHANGED <<topo, missing, job, held, cache, worker, misses, faults>>

ManagerRestarts ==
    /\ Fault
    /\ job' = JobIdle /\ held' = NotHeld
    /\ cache' = NoCache /\ worker' = WorkerStarts /\ misses' = 2
    /\ UNCHANGED <<cluster, topo, missing, changes>>

\* The worker does not sleep through a tick, and a refresh is ended by its
\* timeout.
TimePasses ==
    /\ worker.pc = "wait" => worker.tick < Interval
    /\ worker.pc # "wait" => worker.age < ClusterTimeout
    /\ worker' = [worker EXCEPT
          !.tick = IF worker.ticking /\ @ < Interval THEN @ + 1 ELSE @,
          !.age = IF worker.pc = "wait" THEN @ ELSE @ + 1]
    /\ cache' = [cache EXCEPT !.age = IF @ < TooOld THEN @ + 1 ELSE @]
    /\ UNCHANGED <<cluster, topo, missing, job, held, misses, changes, faults>>

-----------------------------------------------------------------------------
Worker == RefreshStarts \/ RefreshReads \/ RefreshStores \/ RefreshFails
Job == DiscoveryStarts \/ DiscoveryResolves \/ DiscoveryRecords

Next ==
    \/ Worker
    \/ Job \/ DiscoveryGetsNoRows \/ DiscoveryIsLost
    \/ ReconcileStarts \/ ReconcileEnds
    \/ AuroraChanges \/ ManagerRestarts \/ TimePasses

Spec == Init /\ [][Next]_vars

\* The worker's loop and the scheduled jobs go on, reconciles end, and time
\* passes.
FairSpec ==
    /\ Spec
    /\ WF_vars(Worker) /\ WF_vars(Job) /\ WF_vars(ReconcileEnds) /\ WF_vars(TimePasses)

-----------------------------------------------------------------------------
(* Properties *)

\* A discovery that is trusted records a topology with exactly one writer,
\* whatever rows Aurora returns: the planner and the fast path for a new writer
\* rely on it (BuildResult).
RecordedTopologyIsSound ==
    topo # Empty =>
        Cardinality({n \in DOMAIN topo : topo[n].role = "writer"}) = 1

\* One failed refresh is not noticed: once the cache is filled it stays usable
\* until two refreshes in a row have failed, however long each of them takes
\* (rdsMetadataCacheTTL against the worker's interval and timeout).
CacheOutlivesAFailure ==
    misses < 2 => cache.age <= rdsMetadataCacheTTL

\* The recorded identity of an instance never goes back to that of a physical
\* instance before it, nor to unknown, as long as the instance is in the topology:
\* not by a snapshot that is older than the cache, a refresh that is slow, a cache
\* that expires or a restart.  Going back would reset the health of the instance
\* (physicalIdentityChanged) and later do it once more.
IdentityNeverGoesBack ==
    [][\A n \in DOMAIN topo \cap DOMAIN topo' : topo'[n].dbi >= topo[n].dbi]_vars

\* No discovery job records its result while a reconcile is in progress.
NoOverlap == job.pc = "record" /\ job'.pc = "idle" => ~ held.busy

\* When the cluster has stopped changing, the recorded topology comes to name
\* the true instances with their true roles and identities, and stays so: a name
\* that was reused does not keep the identity of the old instance, from the
\* cache or from the previous topology, for ever.  Assumed is that from some
\* time on no two refreshes in a row fail, and that discovery results do not
\* arrive in the middle of a reconcile: its stale list of missing instances
\* could make Resolve ignore a name for ever.
IdentityConverges ==
    <>[](misses < 2) /\ <>[][NoOverlap]_vars =>
        <>[](topo = [n \in cluster.here |->
                        [role |-> IF n = cluster.writer THEN "writer" ELSE "reader",
                         dbi |-> cluster.born[n]]])
=============================================================================
