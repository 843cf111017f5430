--------------------------- MODULE DiscoveryProofs ---------------------------
(***************************************************************************)
(* The safety properties of discovery and of the metadata cache, for every *)
(* finite set of names, all rows that Aurora may return, all intervals and *)
(* any number of changes and faults.                                       *)
(***************************************************************************)
EXTENDS Discovery, FiniteSetTheorems, TLAPS

-----------------------------------------------------------------------------
(* Types *)

TopoRecord == [role : {"writer", "reader"}, dbi : Nat]
Topos == UNION {[S -> TopoRecord] : S \in SUBSET Name}
Metadata == UNION {[S -> Nat] : S \in SUBSET Name}
Rows == UNION {[1..k -> Row] : k \in Nat}

ClusterType == [here : SUBSET Name, writer : Name, born : [Name -> Nat]]
JobType ==
    [pc : {"idle", "resolve", "record"}, topo : Topos, missing : SUBSET Name,
     rows : Rows, result : Topos, trusted : BOOLEAN]
HeldType == [busy : BOOLEAN, missing : SUBSET Name, due : SUBSET Name]
CacheType == [age : 0..TooOld, metadata : Metadata]
WorkerType ==
    [pc : {"wait", "call", "store"}, ticking : BOOLEAN, tick : 0..Interval,
     age : 0..ClusterTimeout, metadata : Metadata]

DType ==
    /\ cluster \in ClusterType
    /\ topo \in Topos /\ missing \in SUBSET Name
    /\ job \in JobType /\ held \in HeldType
    /\ cache \in CacheType /\ worker \in WorkerType
    /\ misses \in 0..2

LEMMA ToposElement ==
    ASSUME NEW S \in SUBSET Name, NEW t \in [S -> TopoRecord]
    PROVE  t \in Topos
  BY DEF Topos

LEMMA ToposProperties ==
    ASSUME NEW t \in Topos
    PROVE  /\ DOMAIN t \subseteq Name
           /\ \A n \in DOMAIN t : t[n] \in TopoRecord /\ t[n].dbi \in Nat
  BY DEF Topos, TopoRecord

LEMMA MetadataElement ==
    ASSUME NEW S \in SUBSET Name, NEW m \in [S -> Nat]
    PROVE  m \in Metadata
  BY DEF Metadata

LEMMA MetadataProperties ==
    ASSUME NEW m \in Metadata
    PROVE  DOMAIN m \subseteq Name /\ \A n \in DOMAIN m : m[n] \in Nat
  BY DEF Metadata

LEMMA EmptyTypes == Empty \in Topos /\ Empty \in Metadata
<1>1. Empty \in [{} -> TopoRecord] /\ Empty \in [{} -> Nat]
  BY DEF Empty
<1> QED
  BY <1>1, ToposElement, MetadataElement

LEMMA TTL == rdsMetadataCacheTTL \in Nat /\ TooOld \in Nat /\ TooOld > rdsMetadataCacheTTL
  BY DiscoveryAssumption DEF rdsMetadataCacheTTL, TooOld

LEMMA NoRows == <<>> \in Rows
<1>1. <<>> \in [1..0 -> Row]
  OBVIOUS
<1> QED
  BY <1>1 DEF Rows

\* The constants that activities start from.
LEMMA StartTypes ==
    JobIdle \in JobType /\ NotHeld \in HeldType /\ NoCache \in CacheType
    /\ WorkerStarts \in WorkerType
<1>1. JobIdle \in JobType
  BY EmptyTypes, NoRows DEF JobIdle, JobType
<1>2. NotHeld \in HeldType
  BY DEF NotHeld, HeldType
<1>3. NoCache \in CacheType
  BY EmptyTypes, TTL DEF NoCache, CacheType
<1>4. WorkerStarts \in WorkerType
  BY EmptyTypes, DiscoveryAssumption DEF WorkerStarts, WorkerType
<1> QED
  BY <1>1, <1>2, <1>3, <1>4

-----------------------------------------------------------------------------
(* Rows *)

\* SetToSeq lists a finite set.
LEMMA ListOfSet ==
    ASSUME NEW S, IsFiniteSet(S)
    PROVE  /\ Cardinality(S) \in Nat
           /\ SetToSeq(S) \in [1..Cardinality(S) -> S]
<1>1. Cardinality(S) \in Nat /\ ExistsBijection(1..Cardinality(S), S)
  BY FS_CardinalityType
<1>2. \E f \in [1..Cardinality(S) -> S] : IsInjective(f)
  BY <1>1, Zenon DEF ExistsBijection, Bijection, Injection
<1> QED
  BY <1>1, <1>2, Zenon DEF SetToSeq

LEMMA RowsAreRows ==
    ASSUME cluster \in ClusterType, NEW rows \in {TrueRows} \cup OddRows
    PROVE  rows \in Rows
<1> DEFINE Line(n) == [name |-> n, writer |-> n = cluster.writer]
           S == {Line(n) : n \in cluster.here}
<1>1. IsFiniteSet(S)
  <2>1. IsFiniteSet(cluster.here)
    BY FS_Subset, DiscoveryAssumption DEF ClusterType
  <2>2. [n \in cluster.here |-> Line(n)] \in Surjection(cluster.here, S)
    BY DEF Surjection
  <2> QED
    BY <2>1, <2>2, FS_Surjection
<1>2. S \subseteq Row
  <2>1. ASSUME NEW n \in cluster.here
        PROVE  Line(n) \in Row
    <3>1. n \in Name \cup {Blank} /\ (n = cluster.writer) \in BOOLEAN
      BY DEF ClusterType
    <3> QED
      BY <3>1, Zenon DEF Row
  <2> QED
    BY <2>1
<1>3. CASE rows = TrueRows
  <2>1. rows \in [1..Cardinality(S) -> S] /\ Cardinality(S) \in Nat
    BY <1>1, <1>3, ListOfSet DEF TrueRows
  <2>2. rows \in [1..Cardinality(S) -> Row]
    BY <1>2, <2>1
  <2> QED
    BY <2>1, <2>2 DEF Rows
<1>4. CASE rows \in OddRows
  <2>1. PICK k \in 0..2 : rows \in [1..k -> Row]
    BY <1>4 DEF OddRows
  <2>2. k \in Nat
    BY <2>1
  <2> QED
    BY <2>1, <2>2 DEF Rows
<1> QED
  BY <1>3, <1>4

LEMMA RowsProperties ==
    ASSUME NEW rows \in Rows
    PROVE  IsFiniteSet(DOMAIN rows) /\ \A k \in DOMAIN rows : rows[k] \in Row
<1>1. PICK k \in Nat : rows \in [1..k -> Row]
  BY DEF Rows
<1>2. IsFiniteSet(1..k)
  <2>1. 1 \in Int /\ k \in Int
    OBVIOUS
  <2> QED
    BY <2>1, FS_Interval, Zenon
<1> QED
  BY <1>1, <1>2

LEMMA NamesType ==
    ASSUME NEW rows \in Rows
    PROVE  Names(rows) \subseteq Name
  BY RowsProperties DEF Names, Row

-----------------------------------------------------------------------------
(* The types are kept *)

LEMMA ResolveType ==
    ASSUME DType, NEW rows
    PROVE  /\ Resolve(rows) \in Metadata
           /\ \A n \in DOMAIN Resolve(rows) :
                 /\ n \in DOMAIN cache.metadata
                 /\ Resolve(rows)[n] = cache.metadata[n]
<1>1. cache.metadata \in Metadata
  BY DEF DType, CacheType
<1>2. CASE cache.age > rdsMetadataCacheTTL
  BY <1>2, EmptyTypes DEF Resolve, Empty
<1>3. CASE ~ (cache.age > rdsMetadataCacheTTL)
  <2> DEFINE D == DOMAIN cache.metadata \ reappearedInstanceNames(rows)
  <2>1. D \in SUBSET Name /\ \A n \in D : cache.metadata[n] \in Nat
    BY <1>1, MetadataProperties
  <2>2. Resolve(rows) = [n \in D |-> cache.metadata[n]]
    BY <1>3 DEF Resolve
  <2>3. Resolve(rows) \in [D -> Nat]
    BY <2>1, <2>2
  <2>4. Resolve(rows) \in Metadata
    BY <2>1, <2>3, MetadataElement
  <2> QED
    BY <2>2, <2>4
<1> QED
  BY <1>2, <1>3

LEMMA DbiType ==
    ASSUME DType, NEW n \in Name, NEW m \in Metadata
    PROVE  dbiResourceIdForInstance(n, m) \in Nat
<1>1. n \in DOMAIN m => m[n] \in Nat
  BY MetadataProperties
<1>2. n \in DOMAIN job.topo => job.topo[n].dbi \in Nat
  BY ToposProperties DEF DType, JobType
<1> QED
  BY <1>1, <1>2 DEF dbiResourceIdForInstance, NoIdentity

LEMMA TopologyType ==
    ASSUME DType, NEW rows \in Rows, NEW m \in Metadata
    PROVE  Topology(rows, m) \in Topos
<1>1. ASSUME NEW n \in Names(rows)
      PROVE  Topology(rows, m)[n] \in TopoRecord
  <2>1. dbiResourceIdForInstance(n, m) \in Nat
    BY DbiType, NamesType
  <2> QED
    BY <2>1 DEF Topology, TopoRecord
<1>2. Topology(rows, m) \in [Names(rows) -> TopoRecord]
  BY <1>1 DEF Topology
<1> QED
  BY <1>2, NamesType, ToposElement

LEMMA RefreshEndsType ==
    ASSUME DType, RefreshEnds
    PROVE  /\ worker' \in WorkerType
           /\ worker'.pc = "wait" /\ worker'.ticking = TRUE /\ worker'.metadata = Empty
           /\ worker'.tick = IF worker.ticking THEN worker.tick ELSE 0
<1>1. worker.tick \in 0..Interval /\ 0 \in 0..Interval
  BY DiscoveryAssumption DEF DType, WorkerType
<1> QED
  BY <1>1, StartTypes DEF RefreshEnds, WorkerStarts, WorkerType

LEMMA Clocks == 0 \in 0..Interval /\ 0 \in 0..ClusterTimeout
  BY DiscoveryAssumption

LEMMA WorkerUpdate ==
    ASSUME worker \in WorkerType, NEW t \in 0..Interval, NEW a \in 0..ClusterTimeout
    PROVE  /\ [worker EXCEPT !.pc = "call", !.tick = t, !.age = a] \in WorkerType
           /\ [worker EXCEPT !.tick = t, !.age = a] \in WorkerType
<1>1. [worker EXCEPT !.pc = "call", !.tick = t, !.age = a] \in WorkerType
  BY Zenon DEF WorkerType
<1>2. [worker EXCEPT !.tick = t, !.age = a] \in WorkerType
  BY Zenon DEF WorkerType
<1> QED
  BY <1>1, <1>2

\* Of the cluster, the cache and the worker.
LEMMA WorkerSideType ==
    ASSUME DType, [Next]_vars
    PROVE  cluster' \in ClusterType /\ cache' \in CacheType
           /\ worker' \in WorkerType /\ misses' \in 0..2
<1> USE DEF DType
<1>1. CASE UNCHANGED <<cluster, cache, worker, misses>>
  BY <1>1
<1>2. CASE RefreshStarts
  <2>1. worker' \in WorkerType
    BY <1>2, WorkerUpdate, Clocks DEF RefreshStarts
  <2> QED
    BY <1>2, <2>1, StartTypes DEF RefreshStarts
<1>3. CASE RefreshReads
  <2>1. PICK listed \in SUBSET cluster.here :
           worker' = [worker EXCEPT !.pc = "store",
                        !.metadata = [n \in listed |-> cluster.born[n]]]
    BY <1>3 DEF RefreshReads
  <2>2. listed \in SUBSET Name /\ [n \in listed |-> cluster.born[n]] \in [listed -> Nat]
    BY DEF ClusterType
  <2>3. [n \in listed |-> cluster.born[n]] \in Metadata
    BY <2>2, MetadataElement
  <2>4. worker' \in WorkerType
    BY <2>1, <2>3 DEF WorkerType
  <2> QED
    BY <1>3, <2>4 DEF RefreshReads
<1>4. CASE RefreshStores
  <2>1. cache' \in CacheType
    <3>1. worker.age \in 0..TooOld /\ worker.metadata \in Metadata
      BY DiscoveryAssumption DEF WorkerType, TooOld, rdsMetadataCacheTTL
    <3> QED
      BY <1>4, <3>1 DEF RefreshStores, CacheType
  <2>2. worker' \in WorkerType
    BY <1>4, RefreshEndsType DEF RefreshStores
  <2> QED
    BY <1>4, <2>1, <2>2 DEF RefreshStores
<1>5. CASE RefreshFails
  <2>1. worker' \in WorkerType
    BY <1>5, RefreshEndsType DEF RefreshFails
  <2> QED
    BY <1>5, <2>1 DEF RefreshFails
<1>6. CASE DiscoveryResolves
  BY <1>6, StartTypes DEF DiscoveryResolves
<1>7. CASE AuroraChanges
  <2>1. cluster' \in ClusterType
    <3>1. CASE \E n \in Name :
             cluster' = [cluster EXCEPT !.here = @ \cup {n}, !.born[n] = @ + 1]
      <4>1. PICK n \in Name :
               cluster' = [cluster EXCEPT !.here = @ \cup {n}, !.born[n] = @ + 1]
        BY <3>1
      <4>2. /\ cluster.here \cup {n} \in SUBSET Name
            /\ [cluster.born EXCEPT ![n] = @ + 1] \in [Name -> Nat]
        BY DEF ClusterType
      <4>3. cluster' = [cluster EXCEPT !.here = cluster.here \cup {n},
                                       !.born = [cluster.born EXCEPT ![n] = @ + 1]]
        BY <4>1 DEF ClusterType
      <4> QED
        BY <4>2, <4>3 DEF ClusterType
    <3>2. CASE \/ \E n \in cluster.here \ {cluster.writer} :
                     cluster' = [cluster EXCEPT !.here = @ \ {n}]
               \/ \E n \in cluster.here \ {cluster.writer} :
                     cluster' = [cluster EXCEPT !.writer = n]
      BY <3>2 DEF ClusterType
    <3> QED
      BY <1>7, <3>1, <3>2 DEF AuroraChanges
  <2> QED
    BY <1>7, <2>1 DEF AuroraChanges
<1>8. CASE ManagerRestarts
  BY <1>8, StartTypes DEF ManagerRestarts
<1>9. CASE TimePasses
  <2>1. worker' \in WorkerType
    <3> DEFINE t == IF worker.ticking /\ worker.tick < Interval
                    THEN worker.tick + 1 ELSE worker.tick
               a == IF worker.pc = "wait" THEN worker.age ELSE worker.age + 1
    <3>1. t \in 0..Interval /\ a \in 0..ClusterTimeout
      BY <1>9, DiscoveryAssumption DEF TimePasses, WorkerType
    <3>2. worker' = [worker EXCEPT !.tick = t, !.age = a]
      BY <1>9 DEF TimePasses
    <3> HIDE DEF t, a
    <3> QED
      BY <3>1, <3>2, WorkerUpdate
  <2>2. cache' \in CacheType
    BY <1>9, TTL DEF TimePasses, CacheType
  <2> QED
    BY <1>9, <2>1, <2>2 DEF TimePasses
<1>10. CASE \/ DiscoveryStarts \/ DiscoveryRecords \/ DiscoveryGetsNoRows
            \/ DiscoveryIsLost \/ ReconcileStarts \/ ReconcileEnds \/ UNCHANGED vars
  BY <1>1, <1>10 DEF DiscoveryStarts, DiscoveryRecords, DiscoveryGetsNoRows,
     DiscoveryIsLost, ReconcileStarts, ReconcileEnds, vars
<1> QED
  BY <1>2, <1>3, <1>4, <1>5, <1>6, <1>7, <1>8, <1>9, <1>10 DEF Next, Worker, Job

LEMMA JobStartsType ==
    ASSUME DType, NEW rows \in Rows,
           job' = [JobIdle EXCEPT !.pc = "resolve", !.topo = topo,
                                  !.missing = missing, !.rows = rows]
    PROVE  /\ job' \in JobType
           /\ job'.pc = "resolve" /\ job'.topo = topo /\ job'.result = Empty
           /\ job'.trusted = FALSE
<1>1. JobIdle \in JobType /\ JobIdle.result = Empty /\ JobIdle.trusted = FALSE
  BY StartTypes DEF JobIdle
<1>2. topo \in Topos /\ missing \in SUBSET Name
  BY DEF DType
<1> QED
  BY <1>1, <1>2, Zenon DEF JobType

LEMMA JobGetsNoRowsType ==
    ASSUME DType,
           job' = [JobIdle EXCEPT !.pc = "record", !.topo = topo, !.missing = missing]
    PROVE  /\ job' \in JobType
           /\ job'.pc = "record" /\ job'.topo = topo /\ job'.result = Empty
           /\ job'.trusted = FALSE
<1>1. JobIdle \in JobType /\ JobIdle.result = Empty /\ JobIdle.trusted = FALSE
  BY StartTypes DEF JobIdle
<1>2. topo \in Topos /\ missing \in SUBSET Name
  BY DEF DType
<1> QED
  BY <1>1, <1>2, Zenon DEF JobType

LEMMA JobRecord ==
    ASSUME NEW t \in Topos, NEW m \in SUBSET Name, NEW r \in Topos, NEW u \in BOOLEAN
    PROVE  [pc |-> "record", topo |-> t, missing |-> m, rows |-> <<>>,
            result |-> r, trusted |-> u] \in JobType
<1>1. <<>> \in Rows
  BY NoRows
<1> QED
  BY <1>1, Zenon DEF JobType

LEMMA UsableType ==
    ASSUME NEW rows
    PROVE  Usable(rows) \in BOOLEAN
  BY Zenon DEF Usable

\* What a job has found when it is about to record.
LEMMA ResolvedJob ==
    ASSUME DType, DiscoveryResolves
    PROVE  /\ job' = [pc |-> "record", topo |-> job.topo, missing |-> job.missing,
                      rows |-> <<>>,
                      result |-> IF Usable(job.rows)
                                 THEN Topology(job.rows, Resolve(job.rows)) ELSE Empty,
                      trusted |-> Usable(job.rows)]
           /\ job'.result \in Topos
           /\ job'.trusted = Usable(job.rows)
<1>1. job' = [pc |-> "record", topo |-> job.topo, missing |-> job.missing,
              rows |-> <<>>,
              result |-> IF Usable(job.rows)
                         THEN Topology(job.rows, Resolve(job.rows)) ELSE Empty,
              trusted |-> Usable(job.rows)]
  BY Zenon DEF DiscoveryResolves, DType, JobType
<1>2. job.rows \in Rows /\ Resolve(job.rows) \in Metadata
  BY ResolveType DEF DType, JobType
<1>3. Topology(job.rows, Resolve(job.rows)) \in Topos
  BY <1>2, TopologyType
<1>4. job'.result = IF Usable(job.rows)
                    THEN Topology(job.rows, Resolve(job.rows)) ELSE Empty
  BY <1>1
<1>5. job'.trusted = Usable(job.rows)
  BY <1>1, Zenon
<1> QED
  BY <1>1, <1>3, <1>4, <1>5, EmptyTypes, Zenon

LEMMA ResolvesType ==
    ASSUME DType, DiscoveryResolves
    PROVE  job' \in JobType
<1>1. /\ job.topo \in Topos /\ job.missing \in SUBSET Name /\ job'.result \in Topos
      /\ Usable(job.rows) \in BOOLEAN /\ <<>> \in Rows
  BY ResolvedJob, UsableType, NoRows DEF DType, JobType
<1>2. job'.result = IF Usable(job.rows)
                    THEN Topology(job.rows, Resolve(job.rows)) ELSE Empty
  BY ResolvedJob
<1>3. job' = [pc |-> "record", topo |-> job.topo, missing |-> job.missing,
              rows |-> <<>>, result |-> job'.result, trusted |-> Usable(job.rows)]
  BY <1>2, ResolvedJob, Zenon
<1> QED
  BY <1>1, <1>3, JobRecord

LEMMA MissingType ==
    ASSUME DType, NEW t \in Topos
    PROVE  missingInstancesFor(t) \in SUBSET Name
  BY ToposProperties DEF DType, JobType, missingInstancesFor

\* Of what is recorded, the jobs and the reconciler.
LEMMA JobSideType ==
    ASSUME DType, [Next]_vars
    PROVE  topo' \in Topos /\ missing' \in SUBSET Name
           /\ job' \in JobType /\ held' \in HeldType
<1> USE DEF DType
<1>1. CASE DiscoveryStarts
  <2>1. PICK rows \in {TrueRows} \cup OddRows :
           job' = [JobIdle EXCEPT !.pc = "resolve", !.topo = topo,
                                  !.missing = missing, !.rows = rows]
    BY <1>1 DEF DiscoveryStarts
  <2>2. rows \in Rows
    BY RowsAreRows
  <2>3. job' \in JobType
    BY <2>1, <2>2, JobStartsType
  <2> QED
    BY <1>1, <2>3 DEF DiscoveryStarts
<1>2. CASE DiscoveryGetsNoRows
  <2>1. job' = [JobIdle EXCEPT !.pc = "record", !.topo = topo, !.missing = missing]
    BY <1>2 DEF DiscoveryGetsNoRows
  <2>2. job' \in JobType
    BY <2>1, JobGetsNoRowsType
  <2> QED
    BY <1>2, <2>2 DEF DiscoveryGetsNoRows
<1>3. CASE DiscoveryResolves
  BY <1>3, ResolvesType DEF DiscoveryResolves
<1>4. CASE DiscoveryRecords
  <2>1. job.result \in Topos /\ job.topo \in Topos
    BY DEF JobType
  <2>2. topo' \in Topos /\ missing' \in SUBSET Name
    BY <1>4, <2>1, MissingType DEF DiscoveryRecords
  <2> QED
    BY <1>4, <2>2, StartTypes DEF DiscoveryRecords
<1>5. CASE DiscoveryIsLost \/ ManagerRestarts
  BY <1>5, StartTypes DEF DiscoveryIsLost, ManagerRestarts
<1>6. CASE ReconcileStarts
  <2>1. held' \in HeldType
    BY <1>6 DEF ReconcileStarts, HeldType
  <2> QED
    BY <1>6, <2>1 DEF ReconcileStarts
<1>7. CASE ReconcileEnds
  <2>1. missing' \in SUBSET Name
    BY <1>7 DEF ReconcileEnds, HeldType
  <2> QED
    BY <1>7, <2>1, StartTypes DEF ReconcileEnds
<1>8. CASE Worker \/ AuroraChanges \/ TimePasses \/ UNCHANGED vars
  BY <1>8 DEF Worker, RefreshStarts, RefreshReads, RefreshStores, RefreshFails,
     AuroraChanges, TimePasses, vars
<1> QED
  BY <1>1, <1>2, <1>3, <1>4, <1>5, <1>6, <1>7, <1>8 DEF Next, Job

LEMMA InitType == Init => DType
<1> SUFFICES ASSUME Init PROVE DType
  OBVIOUS
<1>1. cluster \in ClusterType
  BY DiscoveryAssumption DEF Init, ClusterType
<1> QED
  BY <1>1, StartTypes, EmptyTypes DEF Init, DType

LEMMA StepType == DType /\ [Next]_vars => DType'
  BY WorkerSideType, JobSideType DEF DType

-----------------------------------------------------------------------------
(* The writer of a recorded topology *)

Writers(t) == {n \in DOMAIN t : t[n].role = "writer"}

LEMMA UsableHasOneWriter ==
    ASSUME NEW rows \in Rows, Usable(rows), NEW m
    PROVE  Cardinality(Writers(Topology(rows, m))) = 1
<1>1. IsFiniteSet(WriterRows(rows)) /\ Cardinality(WriterRows(rows)) = 1
  <2>1. WriterRows(rows) \subseteq DOMAIN rows
    BY DEF WriterRows
  <2> QED
    BY <2>1, RowsProperties, FS_Subset DEF Usable
<1>2. PICK k : WriterRows(rows) = {k}
  BY <1>1, FS_Singleton
<1>3. k \in DOMAIN rows /\ rows[k].name # Blank
  BY <1>2 DEF WriterRows, Usable
<1>4. rows[k].name \in Names(rows)
  BY <1>3 DEF Names
<1>5. Writers(Topology(rows, m)) = {rows[k].name}
  <2> DEFINE t == Topology(rows, m)
  <2>1. DOMAIN t = Names(rows)
    BY DEF Topology
  <2>2. ASSUME NEW n \in Names(rows)
        PROVE  t[n].role = "writer" <=> n = rows[k].name
    BY <1>2 DEF Topology
  <2> QED
    BY <1>4, <2>1, <2>2 DEF Writers
<1> QED
  BY <1>5, FS_Singleton

\* A result that is trusted has one writer, from when it is found.
TrustedResultIsSound ==
    job.trusted => Cardinality(Writers(job.result)) = 1

SoundInv == DType /\ TrustedResultIsSound /\ RecordedTopologyIsSound

LEMMA TrustedResultStep ==
    ASSUME DType, TrustedResultIsSound, [Next]_vars
    PROVE  TrustedResultIsSound'
<1> USE DEF TrustedResultIsSound
<1>1. CASE DiscoveryStarts
  <2>1. PICK rows \in {TrueRows} \cup OddRows :
           job' = [JobIdle EXCEPT !.pc = "resolve", !.topo = topo,
                                  !.missing = missing, !.rows = rows]
    BY <1>1 DEF DiscoveryStarts
  <2>2. rows \in Rows
    BY RowsAreRows DEF DType
  <2> QED
    BY <2>1, <2>2, JobStartsType
<1>2. CASE DiscoveryGetsNoRows
  BY <1>2, JobGetsNoRowsType DEF DiscoveryGetsNoRows
<1>3. CASE DiscoveryResolves
  <2>1. CASE Usable(job.rows)
    <3>1. job'.result = Topology(job.rows, Resolve(job.rows))
      BY <1>3, <2>1, ResolvedJob
    <3>2. Cardinality(Writers(job'.result)) = 1
      BY <2>1, <3>1, UsableHasOneWriter DEF DType, JobType
    <3> QED
      BY <3>2
  <2>2. CASE ~ Usable(job.rows)
    <3>1. job'.trusted = Usable(job.rows)
      BY <1>3, ResolvedJob, Zenon
    <3> QED
      BY <2>2, <3>1
  <2> QED
    BY <2>1, <2>2
<1>4. CASE job' = JobIdle
  BY <1>4 DEF JobIdle
<1>5. CASE UNCHANGED job
  BY <1>5
<1> QED
  BY <1>1, <1>2, <1>3, <1>4, <1>5 DEF Next, Job, Worker, DiscoveryRecords, DiscoveryIsLost,
     ManagerRestarts, ReconcileStarts, ReconcileEnds, RefreshStarts, RefreshReads,
     RefreshStores, RefreshFails, AuroraChanges, TimePasses, vars

LEMMA TopoStep ==
    ASSUME [Next]_vars
    PROVE  \/ topo' = topo
           \/ DiscoveryRecords /\ job.pc = "record" /\ job.trusted /\ topo' = job.result
  BY DEF Next, Job, Worker, DiscoveryStarts, DiscoveryGetsNoRows, DiscoveryResolves,
     DiscoveryRecords, DiscoveryIsLost, ManagerRestarts, ReconcileStarts, ReconcileEnds,
     RefreshStarts, RefreshReads, RefreshStores, RefreshFails, AuroraChanges, TimePasses,
     vars

\* RecordedTopologyIsSound for any number of names and any rows: BuildResult refuses
\* blank and repeated names and any number of writers but one, and the single row
\* of a writer gives a single writer among the names.
THEOREM RecordsAreSound == Spec => []RecordedTopologyIsSound
<1>1. Init => SoundInv
  BY InitType DEF Init, SoundInv, TrustedResultIsSound, RecordedTopologyIsSound, JobIdle
<1>2. SoundInv /\ [Next]_vars => SoundInv'
  <2> SUFFICES ASSUME SoundInv, [Next]_vars
               PROVE  SoundInv'
    OBVIOUS
  <2>1. DType' /\ TrustedResultIsSound'
    BY StepType, TrustedResultStep DEF SoundInv
  <2>2. RecordedTopologyIsSound'
    BY TopoStep DEF SoundInv, TrustedResultIsSound, RecordedTopologyIsSound, Writers
  <2> QED
    BY <2>1, <2>2 DEF SoundInv
<1>3. SoundInv => RecordedTopologyIsSound
  BY DEF SoundInv
<1> QED
  BY <1>1, <1>2, <1>3, PTL DEF Spec

-----------------------------------------------------------------------------
(* The age of the cache *)

\* During a refresh the ticker shows how long the refresh takes, and a cache that is
\* not given up is as old as the ticks since the refresh that filled it, and the
\* time which that refresh took at most.
Behind == (IF misses = 0 THEN 0 ELSE Interval) + (IF worker.pc = "wait" THEN 0 ELSE Interval)

Timely ==
    /\ worker.ticking /\ worker.pc # "wait" => worker.tick = worker.age
    /\ misses < 2 => worker.ticking
    /\ misses < 2 => cache.age <= ClusterTimeout + Behind + worker.tick

LEMMA Nats ==
    /\ Interval \in Nat /\ ClusterTimeout \in Nat /\ ClusterTimeout <= Interval
    /\ 2 * (Interval + ClusterTimeout) <= rdsMetadataCacheTTL
  BY DiscoveryAssumption DEF rdsMetadataCacheTTL

LEMMA ClockTypes ==
    ASSUME DType
    PROVE  /\ worker.tick \in Nat /\ worker.tick <= Interval
           /\ worker.age \in Nat /\ worker.age <= ClusterTimeout
           /\ cache.age \in Nat /\ misses \in {0, 1, 2}
           /\ worker.pc \in {"wait", "call", "store"}
  BY TTL, Nats DEF DType, WorkerType, CacheType

LEMMA TimelyIsEnough ==
    ASSUME DType, Timely
    PROVE  CacheOutlivesAFailure
  BY Nats, ClockTypes, TTL DEF Timely, Behind, CacheOutlivesAFailure

LEMMA TimelyStep ==
    ASSUME DType, Timely, [Next]_vars
    PROVE  Timely'
<1> USE DEF Timely, Behind
<1>1. misses < 2 => ~ (cache.age > rdsMetadataCacheTTL)
  BY TimelyIsEnough, ClockTypes, TTL DEF CacheOutlivesAFailure
<1>2. CASE RefreshStarts
  <2>1. /\ worker'.pc = "call" /\ worker'.tick = 0 /\ worker'.age = 0
        /\ worker'.ticking = worker.ticking
    BY <1>2, Zenon DEF RefreshStarts, DType, WorkerType
  <2>2. misses' = misses /\ (misses < 2 => cache' = cache)
    BY <1>1, <1>2 DEF RefreshStarts
  <2> QED
    BY <1>2, <2>1, <2>2, Nats, ClockTypes DEF RefreshStarts
<1>3. CASE RefreshReads
  <2>1. /\ worker'.pc = "store" /\ worker'.tick = worker.tick /\ worker'.age = worker.age
        /\ worker'.ticking = worker.ticking
    BY <1>3, Zenon DEF RefreshReads, DType, WorkerType
  <2> QED
    BY <1>3, <2>1 DEF RefreshReads
<1>4. CASE RefreshStores
  <2>1. /\ worker'.pc = "wait" /\ worker'.ticking = TRUE
        /\ worker'.tick = IF worker.ticking THEN worker.tick ELSE 0
    BY <1>4, RefreshEndsType DEF RefreshStores
  <2>2. cache'.age = worker.age /\ misses' = 0
    BY <1>4 DEF RefreshStores
  <2>3. worker.ticking => worker.tick = worker.age
    BY <1>4 DEF RefreshStores
  <2> QED
    BY <2>1, <2>2, <2>3, Nats, ClockTypes
<1>5. CASE RefreshFails
  <2>1. /\ worker'.pc = "wait" /\ worker'.ticking = TRUE
        /\ worker'.tick = IF worker.ticking THEN worker.tick ELSE 0
    BY <1>5, RefreshEndsType DEF RefreshFails
  <2>2. cache' = cache /\ misses' = IF misses < 2 THEN misses + 1 ELSE 2
    BY <1>5 DEF RefreshFails
  <2>3. worker.pc # "wait"
    BY <1>5 DEF RefreshFails
  <2> QED
    BY <2>1, <2>2, <2>3, Nats, ClockTypes
<1>6. CASE DiscoveryResolves
  <2>1. worker' = worker /\ misses' = misses /\ (misses < 2 => cache' = cache)
    BY <1>1, <1>6 DEF DiscoveryResolves
  <2> QED
    BY <2>1
<1>7. CASE ManagerRestarts
  BY <1>7 DEF ManagerRestarts, WorkerStarts
<1>8. CASE TimePasses
  <2>1. /\ worker'.pc = worker.pc /\ worker'.ticking = worker.ticking
        /\ worker'.tick = IF worker.ticking /\ worker.tick < Interval
                          THEN worker.tick + 1 ELSE worker.tick
        /\ worker'.age = IF worker.pc = "wait" THEN worker.age ELSE worker.age + 1
    BY <1>8, Zenon DEF TimePasses, DType, WorkerType
  <2>2. cache'.age <= cache.age + 1 /\ cache'.age \in Nat
    <3>1. cache'.age = IF cache.age < TooOld THEN cache.age + 1 ELSE cache.age
      BY <1>8, Zenon DEF TimePasses, DType, CacheType
    <3> QED
      BY <3>1, ClockTypes
  <2>3. misses' = misses
    BY <1>8 DEF TimePasses
  <2>4. worker.ticking => worker.tick < Interval
    BY <1>8, Nats, ClockTypes DEF TimePasses
  <2>5. (worker'.ticking /\ worker'.pc # "wait" => worker'.tick = worker'.age)
    BY <2>1, <2>4
  <2>6. misses' < 2 => worker'.ticking
    BY <2>1, <2>3
  <2>7. misses' < 2 => cache'.age <= ClusterTimeout + Behind' + worker'.tick
    BY <2>1, <2>2, <2>3, <2>4, Nats, ClockTypes
  <2> QED
    BY <2>5, <2>6, <2>7
<1>9. CASE UNCHANGED <<cache, worker, misses>>
  BY <1>9
<1> QED
  BY <1>2, <1>3, <1>4, <1>5, <1>6, <1>7, <1>8, <1>9 DEF Next, Job, Worker, DiscoveryStarts,
     DiscoveryGetsNoRows, DiscoveryRecords, DiscoveryIsLost, ReconcileStarts,
     ReconcileEnds, AuroraChanges, vars

\* CacheOutlivesAFailure for every interval, timeout and minimum that satisfy
\* DiscoveryAssumption: between the first and the third of three refreshes, of
\* which one fails, the cache gets as old as two intervals and two timeouts, and
\* three intervals or the minimum of the TTL are at least that.
THEOREM CacheLastsLongEnough == Spec => []CacheOutlivesAFailure
<1>1. Init => DType /\ Timely
  BY InitType DEF Init, Timely, WorkerStarts
<1>2. DType /\ Timely /\ [Next]_vars => (DType /\ Timely)'
  BY StepType, TimelyStep
<1>3. DType /\ Timely => CacheOutlivesAFailure
  BY TimelyIsEnough
<1> QED
  BY <1>1, <1>2, <1>3, PTL DEF Spec

-----------------------------------------------------------------------------
(* Identities *)

\* The identities that f and g both give are in f no later than in g.
NoLater(f, g) == \A n \in DOMAIN f \cap DOMAIN g : f[n] <= g[n]
Identities(t) == [n \in DOMAIN t |-> t[n].dbi]

\* An identity goes from Aurora to the worker, from there to the cache, then to the
\* result of a job and to the record: each of them has what the next one has, or
\* something later.  A job works on the topology that is recorded.
Upstream ==
    /\ job.pc # "idle" => job.topo = topo
    /\ NoLater(worker.metadata, cluster.born)
    /\ NoLater(cache.metadata, cluster.born) /\ NoLater(cache.metadata, worker.metadata)
    /\ NoLater(Identities(job.result), cluster.born)
    /\ NoLater(Identities(job.result), worker.metadata)
    /\ NoLater(Identities(job.result), cache.metadata)
    /\ NoLater(Identities(topo), cluster.born)
    /\ NoLater(Identities(topo), worker.metadata)
    /\ NoLater(Identities(topo), cache.metadata)
    /\ NoLater(Identities(topo), Identities(job.result))

LEMMA NoLaterEmpty ==
    ASSUME NEW f
    PROVE  NoLater(f, Empty) /\ NoLater(Empty, f) /\ Identities(Empty) = Empty
<1>1. DOMAIN Empty = {}
  BY DEF Empty
<1>2. Identities(Empty) = Empty
  BY DEF Identities, Empty
<1> QED
  BY <1>1, <1>2 DEF NoLater

\* What the job finds is taken from the cache or from the record.
LEMMA FoundIdentities ==
    ASSUME DType, Upstream, DiscoveryResolves
    PROVE  \A n \in DOMAIN job'.result :
              /\ n \in Name
              /\ \/ n \in DOMAIN cache.metadata /\ job'.result[n].dbi = cache.metadata[n]
                 \/ n \in DOMAIN topo /\ job'.result[n].dbi = topo[n].dbi
                 \/ n \notin DOMAIN topo /\ job'.result[n].dbi = 0
<1>1. job'.result = IF Usable(job.rows)
                    THEN Topology(job.rows, Resolve(job.rows)) ELSE Empty
  BY ResolvedJob
<1>2. job.topo = topo
  BY DEF Upstream, DiscoveryResolves
<1>3. CASE Usable(job.rows)
  <2> DEFINE m == Resolve(job.rows)
  <2>1. \A n \in DOMAIN m : n \in DOMAIN cache.metadata /\ m[n] = cache.metadata[n]
    BY ResolveType
  <2>2. job'.result \in Topos
    BY ResolvedJob
  <2>3. ASSUME NEW n \in DOMAIN job'.result
        PROVE  n \in Name /\ job'.result[n].dbi = dbiResourceIdForInstance(n, m)
    BY <1>1, <1>3, <2>2, ToposProperties DEF Topology
  <2> HIDE DEF m
  <2> QED
    BY <1>2, <2>1, <2>3 DEF dbiResourceIdForInstance, NoIdentity
<1>4. CASE ~ Usable(job.rows)
  BY <1>1, <1>4 DEF Empty
<1> QED
  BY <1>3, <1>4

\* Nothing is later than Aurora, whose identities only grow.
LEMMA BornGrows ==
    ASSUME DType, [Next]_vars
    PROVE  /\ DOMAIN cluster.born = Name /\ DOMAIN cluster'.born = Name
           /\ \A n \in Name : /\ cluster.born[n] \in Nat /\ cluster'.born[n] \in Nat
                              /\ cluster.born[n] <= cluster'.born[n]
<1>1. cluster \in ClusterType /\ cluster' \in ClusterType
  BY StepType DEF DType
<1>2. ASSUME NEW n \in Name
      PROVE  cluster.born[n] <= cluster'.born[n]
  <2>1. CASE cluster' = cluster
    BY <1>1, <2>1 DEF ClusterType
  <2>2. CASE AuroraChanges
    <3>1. CASE \E x \in Name :
             cluster' = [cluster EXCEPT !.here = @ \cup {x}, !.born[x] = @ + 1]
      <4>1. PICK x \in Name :
               cluster' = [cluster EXCEPT !.here = @ \cup {x}, !.born[x] = @ + 1]
        BY <3>1
      <4>2. cluster'.born = [cluster.born EXCEPT ![x] = @ + 1]
        BY <1>1, <4>1 DEF ClusterType
      <4> QED
        BY <1>1, <4>2 DEF ClusterType
    <3>2. CASE \/ \E x \in cluster.here \ {cluster.writer} :
                     cluster' = [cluster EXCEPT !.here = @ \ {x}]
               \/ \E x \in cluster.here \ {cluster.writer} :
                     cluster' = [cluster EXCEPT !.writer = x]
      BY <1>1, <3>2 DEF ClusterType
    <3> QED
      BY <2>2, <3>1, <3>2 DEF AuroraChanges
  <2> QED
    BY <2>1, <2>2 DEF Next, Job, Worker, DiscoveryStarts, DiscoveryGetsNoRows,
       DiscoveryResolves, DiscoveryRecords, DiscoveryIsLost, ManagerRestarts,
       ReconcileStarts, ReconcileEnds, RefreshStarts, RefreshReads, RefreshStores,
       RefreshFails, TimePasses, vars
<1> QED
  BY <1>1, <1>2 DEF ClusterType

LEMMA StillNoLater ==
    ASSUME DType, [Next]_vars, NEW f, \A n \in DOMAIN f : f[n] \in Nat,
           NoLater(f, cluster.born)
    PROVE  NoLater(f, cluster'.born)
  BY BornGrows DEF NoLater

\* The numbers that the steps below compare.
LEMMA IdentityTypes ==
    ASSUME DType
    PROVE  /\ \A n \in DOMAIN Identities(topo) : n \in DOMAIN topo /\ topo[n].dbi \in Nat
                                                /\ Identities(topo)[n] = topo[n].dbi
           /\ \A n \in DOMAIN Identities(job.result) :
                 /\ n \in DOMAIN job.result /\ job.result[n].dbi \in Nat
                 /\ Identities(job.result)[n] = job.result[n].dbi
           /\ \A n \in DOMAIN cache.metadata : cache.metadata[n] \in Nat
           /\ \A n \in DOMAIN worker.metadata : worker.metadata[n] \in Nat
<1>1. topo \in Topos /\ job.result \in Topos
  BY DEF DType, JobType
<1>2. cache.metadata \in Metadata /\ worker.metadata \in Metadata
  BY DEF DType, CacheType, WorkerType
<1> QED
  BY <1>1, <1>2, ToposProperties, MetadataProperties DEF Identities

LEMMA UpstreamResolves ==
    ASSUME DType, Upstream, DiscoveryResolves, [Next]_vars
    PROVE  Upstream'
<1> USE DEF Upstream
<1>1. /\ topo' = topo /\ worker' = worker /\ cluster' = cluster
      /\ cache'.metadata = cache.metadata \/ cache'.metadata = Empty
  BY DEF DiscoveryResolves, NoCache
<1>2. job'.topo = job.topo /\ job.pc = "resolve"
  BY ResolvedJob DEF DiscoveryResolves
<1> DEFINE f == Identities(job'.result)
<1>3. DOMAIN f = DOMAIN job'.result /\ \A n \in DOMAIN f : f[n] = job'.result[n].dbi
  BY DEF Identities
<1>4. /\ NoLater(f, cluster.born) /\ NoLater(f, worker.metadata)
      /\ NoLater(f, cache.metadata) /\ NoLater(Identities(topo), f)
  <2>1. ASSUME NEW n \in DOMAIN f
        PROVE  /\ n \in Name
               /\ \/ n \in DOMAIN cache.metadata /\ f[n] = cache.metadata[n]
                  \/ n \in DOMAIN Identities(topo) /\ f[n] = Identities(topo)[n]
                  \/ n \notin DOMAIN Identities(topo) /\ f[n] = 0
    BY <1>3, FoundIdentities DEF Identities
  <2>2. \A n \in Name : cluster.born[n] \in Nat
    BY BornGrows
  <2>3. \A n \in DOMAIN Identities(topo) : Identities(topo)[n] \in Nat
    BY IdentityTypes
  <2> HIDE DEF f
  <2>4. NoLater(f, cluster.born)
    BY <2>1, <2>2, BornGrows DEF NoLater
  <2>5. NoLater(f, worker.metadata)
    BY <2>1, IdentityTypes DEF NoLater
  <2>6. NoLater(f, cache.metadata)
    BY <2>1, IdentityTypes DEF NoLater
  <2>7. NoLater(Identities(topo), f)
    BY <2>1, <2>3, IdentityTypes DEF NoLater
  <2> QED
    BY <2>4, <2>5, <2>6, <2>7
<1> HIDE DEF f
<1>5. /\ NoLater(f, cache'.metadata) /\ NoLater(Identities(topo), cache'.metadata)
      /\ NoLater(cache'.metadata, cluster.born)
      /\ NoLater(cache'.metadata, worker.metadata)
  BY <1>1, <1>4, NoLaterEmpty
<1> QED
  BY <1>1, <1>2, <1>4, <1>5 DEF f

\* A step that only clears some of the places, or passes on what is upstream.
LEMMA UpstreamStep ==
    ASSUME DType, Upstream, [Next]_vars
    PROVE  Upstream'
<1> USE DEF Upstream
<1>1. CASE RefreshStarts
  <2>1. worker'.metadata = worker.metadata
    BY <1>1, Zenon DEF RefreshStarts, DType, WorkerType
  <2>2. cache'.metadata = cache.metadata \/ cache'.metadata = Empty
    BY <1>1 DEF RefreshStarts, NoCache
  <2>3. UNCHANGED <<cluster, topo, job>>
    BY <1>1 DEF RefreshStarts
  <2> QED
    BY <2>1, <2>2, <2>3, NoLaterEmpty
<1>2. CASE RefreshReads
  <2>1. PICK listed \in SUBSET cluster.here :
           worker' = [worker EXCEPT !.pc = "store",
                        !.metadata = [n \in listed |-> cluster.born[n]]]
    BY <1>2 DEF RefreshReads
  <2>2. worker'.metadata = [n \in listed |-> cluster.born[n]]
    BY <2>1, Zenon DEF DType, WorkerType
  <2>3. UNCHANGED <<cluster, topo, job, cache>>
    BY <1>2 DEF RefreshReads
  <2>4. \A n \in listed : n \in DOMAIN cluster.born /\ cluster.born[n] \in Nat
    BY DEF DType, ClusterType
  <2>5. NoLater(worker'.metadata, cluster.born)
    BY <2>2, <2>4 DEF NoLater
  <2>6. ASSUME NEW f, NoLater(f, cluster.born)
        PROVE  NoLater(f, worker'.metadata)
    BY <2>2, <2>4, <2>6 DEF NoLater
  <2> QED
    BY <2>3, <2>5, <2>6
<1>3. CASE RefreshStores
  <2>1. cache'.metadata = worker.metadata /\ worker'.metadata = Empty
    BY <1>3, RefreshEndsType DEF RefreshStores
  <2>2. UNCHANGED <<cluster, topo, job>>
    BY <1>3 DEF RefreshStores
  <2> QED
    BY <2>1, <2>2, NoLaterEmpty
<1>4. CASE RefreshFails
  <2>1. worker'.metadata = Empty /\ UNCHANGED <<cluster, topo, job, cache>>
    BY <1>4, RefreshEndsType DEF RefreshFails
  <2> QED
    BY <2>1, NoLaterEmpty
<1>5. CASE DiscoveryStarts
  <2>1. PICK rows \in {TrueRows} \cup OddRows :
           job' = [JobIdle EXCEPT !.pc = "resolve", !.topo = topo,
                                  !.missing = missing, !.rows = rows]
    BY <1>5 DEF DiscoveryStarts
  <2>2. rows \in Rows
    BY RowsAreRows DEF DType
  <2>3. job'.topo = topo /\ job'.result = Empty
    BY <2>1, <2>2, JobStartsType
  <2>4. UNCHANGED <<cluster, topo, cache, worker>>
    BY <1>5 DEF DiscoveryStarts
  <2> QED
    BY <2>3, <2>4, NoLaterEmpty
<1>6. CASE DiscoveryGetsNoRows
  <2>1. job'.topo = topo /\ job'.result = Empty /\ UNCHANGED <<cluster, topo, cache, worker>>
    BY <1>6, JobGetsNoRowsType DEF DiscoveryGetsNoRows
  <2> QED
    BY <2>1, NoLaterEmpty
<1>7. CASE DiscoveryResolves
  BY <1>7, UpstreamResolves
<1>8. CASE DiscoveryRecords \/ DiscoveryIsLost
  <2>1. job'.pc = "idle" /\ job'.result = Empty
    BY <1>8 DEF DiscoveryRecords, DiscoveryIsLost, JobIdle
  <2>2. UNCHANGED <<cluster, cache, worker>>
    BY <1>8 DEF DiscoveryRecords, DiscoveryIsLost
  <2>3. topo' = topo \/ topo' = job.result
    BY TopoStep
  <2> QED
    BY <2>1, <2>2, <2>3, NoLaterEmpty
<1>9. CASE ManagerRestarts
  <2>1. /\ job'.pc = "idle" /\ job'.result = Empty
        /\ cache'.metadata = Empty /\ worker'.metadata = Empty
    BY <1>9 DEF ManagerRestarts, JobIdle, NoCache, WorkerStarts
  <2>2. UNCHANGED <<cluster, topo>>
    BY <1>9 DEF ManagerRestarts
  <2> QED
    BY <2>1, <2>2, NoLaterEmpty
<1>10. CASE AuroraChanges
  <2>1. UNCHANGED <<topo, job, cache, worker>>
    BY <1>10 DEF AuroraChanges
  <2> QED
    BY <2>1, StillNoLater, IdentityTypes
<1>11. CASE TimePasses
  <2>1. worker'.metadata = worker.metadata
    BY <1>11, Zenon DEF TimePasses, DType, WorkerType
  <2>2. cache'.metadata = cache.metadata
    BY <1>11, Zenon DEF TimePasses, DType, CacheType
  <2>3. UNCHANGED <<cluster, topo, job>>
    BY <1>11 DEF TimePasses
  <2> QED
    BY <2>1, <2>2, <2>3
<1>12. CASE ReconcileStarts \/ ReconcileEnds \/ UNCHANGED vars
  <2>1. UNCHANGED <<cluster, topo, job, cache, worker>>
    BY <1>12 DEF ReconcileStarts, ReconcileEnds, vars
  <2> QED
    BY <2>1
<1> QED
  BY <1>1, <1>2, <1>3, <1>4, <1>5, <1>6, <1>7, <1>8, <1>9, <1>10, <1>11, <1>12
     DEF Next, Job, Worker

\* IdentityNeverGoesBack: what is recorded is the result of the one job, which had
\* the recorded topology to start from, and no place on the way of an identity is
\* behind a place further down.
THEOREM IdentitiesNeverGoBack == Spec => IdentityNeverGoesBack
<1> DEFINE A == \A n \in DOMAIN topo \cap DOMAIN topo' : topo'[n].dbi >= topo[n].dbi
<1>1. Init => DType /\ Upstream
  <2> SUFFICES ASSUME Init
               PROVE  Upstream
    BY InitType
  <2>1. /\ topo = Empty /\ job.pc = "idle" /\ job.result = Empty
        /\ cache.metadata = Empty /\ worker.metadata = Empty
    BY DEF Init, JobIdle, NoCache, WorkerStarts
  <2> QED
    BY <2>1, NoLaterEmpty DEF Upstream
<1>2. DType /\ Upstream /\ [Next]_vars => (DType /\ Upstream)'
  BY StepType, UpstreamStep
<1>3. DType /\ Upstream /\ [Next]_vars => [A]_vars
  <2> SUFFICES ASSUME DType, Upstream, [Next]_vars, NEW n \in DOMAIN topo \cap DOMAIN topo'
               PROVE  topo'[n].dbi >= topo[n].dbi
    BY DEF vars
  <2>1. topo[n].dbi \in Nat
    BY ToposProperties DEF DType
  <2>2. CASE topo' = topo
    BY <2>1, <2>2
  <2>3. CASE topo' = job.result
    BY <2>1, <2>3, IdentityTypes DEF Upstream, NoLater, Identities
  <2> QED
    BY <2>2, <2>3, TopoStep
<1> QED
  BY <1>1, <1>2, <1>3, PTL DEF Spec, IdentityNeverGoesBack
=============================================================================
