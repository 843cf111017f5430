------------------------------ MODULE Operator ------------------------------
(***************************************************************************)
(* The operator at work on one PgBouncerAurora resource.  Three activities *)
(* run concurrently and meet only in the status of the resource:           *)
(*   - the discovery job reads the Aurora topology     (scheduler.go);     *)
(*   - the monitor job probes the backends             (scheduler.go);     *)
(*   - the reconciler plans and applies                (reconciler.go).    *)
(* Each takes a snapshot of the status, works on it for a while, and then  *)
(* writes part of the status back into a freshly read copy.  The write is  *)
(* one step: it is retried on a conflict from a new read.  Each activity   *)
(* is single-flight: a job by the scheduler's in-flight map, the           *)
(* reconciler by the work queue.                                           *)
(*                                                                         *)
(* The reconciler runs as it does in the manager, where the scheduler      *)
(* drives it (ScheduleEvents is set): it never discovers or probes itself. *)
(* The resource itself is read from the API server, but pods are read from *)
(* the informer cache of the manager, which may lag behind the cluster,    *)
(* also behind the operator's own patches.                                 *)
(*                                                                         *)
(* The passing of the discovery and monitor intervals is left open: a job  *)
(* may start at any time.  Of time, only the age of a missing instance     *)
(* (now - FirstMissingTime) is kept, in fractions of the retention period. *)
(***************************************************************************)
EXTENDS Planner, FiniteSets

CONSTANTS
    DiscoveryFailureThreshold,  \* spec.discovery.failureThreshold
    Retention,                  \* spec.topologyPolicy.removedInstanceRetention
    WriterChangePolicy,         \* spec.topologyPolicy.writerChangeConnectionHandling
    Bound                       \* how often each disturbance may happen

\* What the environment may do to the operator, and errors of its API calls.
Disturbance == {"aurora", "spec", "pod", "resource", "discovery", "probe",
                "fault", "watch"}

ASSUME OperatorAssumption ==
    /\ DiscoveryFailureThreshold \in Nat \ {0}
    /\ Retention \in Nat \ {0}
    /\ WriterChangePolicy \in {"KeepExisting", "RestartWriters", "RestartAll"}
    /\ Bound \in [Disturbance -> Nat]

VARIABLES
    aurora,       \* the Aurora cluster: its instances, their role and identity
    spec,         \* the parts of the resource's spec that change: see SpecType
    status,       \* the resource's status: see StatusType
    deployments,  \* per-instance resources: instance -> restart token
    pods,         \* the PgBouncer pod of each instance
    behind,       \* what the cache still shows of the pods it lags behind on
    disc,         \* the discovery job
    mon,          \* the monitor job
    rec,          \* the reconcile in progress
    used          \* how often each disturbance has happened

vars == <<aurora, spec, status, deployments, pods, behind, disc, mon, rec, used>>

-----------------------------------------------------------------------------
(* Data *)

Empty == [i \in {} |-> {}]
PartialFcn(R) == UNION {[S -> R] : S \in SUBSET Instance}
Only(f, S) == [i \in DOMAIN f \cap S |-> f[i]]

\* A topology that discovery trusts has exactly one writer.
OneWriter(topo) ==
    \E w \in DOMAIN topo : {i \in DOMAIN topo : topo[i].role = "writer"} = {w}

NoMembers == [writer |-> {}, reader |-> {}]
NoPlan == [frozen |-> TRUE, instances |-> Empty, members |-> NoMembers]

NoPod == [up |-> FALSE, ready |-> FALSE, writer |-> FALSE, reader |-> FALSE,
          role |-> "none"]

\* A restart token is a hash of what it is computed from; the roles and the
\* identities stand for the shapes of the planned instances.
NoToken == [prev |-> {}, next |-> {}, targets |-> {}, shape |-> Empty]

DiscIdle == [pc |-> "idle", trusted |-> FALSE, failed |-> FALSE,
             topo |-> Empty, missing |-> Empty]
MonIdle == [pc |-> "idle", topo |-> Empty, instances |-> Empty]
RecIdle == [pc |-> "idle", gen |-> 0, disabled |-> {}, trusted |-> FALSE,
            prev |-> NoMembers, missing |-> Empty, expired |-> {},
            plan |-> NoPlan, list |-> {}, blind |-> {}]

Labelled(label) == {i \in Instance : pods[i].up /\ pods[i][label]}

Spend(kind) ==
    /\ used[kind] < Bound[kind]
    /\ used' = [used EXCEPT ![kind] = @ + 1]

\* The resource has just been created.
Created ==
    /\ aurora \in {t \in PartialFcn(Observation) : OneWriter(t)}
    /\ spec = [gen |-> 1, disabled |-> {}, zoneConflict |-> {}]
    /\ status = [topo |-> Empty, missing |-> Empty, instances |-> Empty,
                 applied |-> NoMembers, everApplied |-> FALSE,
                 trusted |-> FALSE, failures |-> 0, obsGen |-> 0]
    /\ deployments = Empty
    /\ pods = [i \in Instance |-> NoPod]
    /\ behind = Empty
    /\ disc = DiscIdle
    /\ mon = MonIdle
    /\ rec = RecIdle

Init == Created /\ used = [k \in Disturbance |-> 0]

-----------------------------------------------------------------------------
(* The informer cache *)

\* What the cache shows of the pod of i.
Seen(i) == IF i \in DOMAIN behind THEN behind[i].pod ELSE pods[i]

\* The pod that the cache shows is gone, another one may have taken its place.
SeenIsGone(i) == i \in DOMAIN behind /\ behind[i].gone

\* The pods whose Service labels are not those that the cache shows.
Blind ==
    {i \in DOMAIN behind : /\ ~ behind[i].gone
                           /\ \E label \in {"writer", "reader"} :
                                  behind[i].pod[label] # pods[i][label]}

-----------------------------------------------------------------------------
(* The discovery job *)

\* The topology recorded by an earlier discovery, if that is still trusted.
CachedTrusted(st) == st.trusted /\ st.topo # Empty

\* The observed topology: identities come from the RDS metadata where those
\* are known, and from the recorded topology where they are not.
Observed(known, previous) ==
    [i \in DOMAIN aurora |->
        [role |-> aurora[i].role,
         dbi |-> IF i \in known /\ aurora[i].dbi # NoDbi THEN aurora[i].dbi
                 ELSE IF i \in DOMAIN previous THEN previous[i].dbi ELSE NoDbi]]

\* What a failed discovery is replaced by: the recorded topology, trusted,
\* until there are too many failures in a row.
discoveryAfterFailureThreshold ==
    IF status.failures + 1 >= DiscoveryFailureThreshold \/ ~ CachedTrusted(status)
    THEN [trusted |-> FALSE, topo |-> Empty]
    ELSE [trusted |-> TRUE, topo |-> status.topo]

\* Mutant: the count of a newly missing instance starts at zero.
missingInstancesFor_FromZero(topo) ==
    [i \in (DOMAIN status.missing \cup DOMAIN status.topo) \ DOMAIN topo |->
        IF i \in DOMAIN status.missing
        THEN [status.missing[i] EXCEPT
                !.count = CountTo(RemoveAfterMissingCount, @)]
        ELSE [count |-> 0, age |-> 0]]

\* Every instance that is recorded, as present or as missing, and is not in
\* the topology has been missing once more.
missingInstancesFor(topo) ==
    [i \in (DOMAIN status.missing \cup DOMAIN status.topo) \ DOMAIN topo |->
        IF i \in DOMAIN status.missing
        THEN [status.missing[i] EXCEPT
                !.count = CountTo(RemoveAfterMissingCount, @)]
        ELSE [count |-> 1, age |-> 0]]

DiscoveryResult(failed, result) ==
    disc' = [pc |-> "write", trusted |-> result.trusted, failed |-> failed,
             topo |-> result.topo,
             missing |-> IF result.trusted THEN missingInstancesFor(result.topo)
                                           ELSE status.missing]

\* runDiscoveryJob up to the status update: snapshot, query, result.
DiscoverySucceeds ==
    /\ disc.pc = "idle"
    /\ \E known \in SUBSET DOMAIN aurora :
          DiscoveryResult(FALSE,
              [trusted |-> TRUE, topo |-> Observed(known, status.topo)])
    /\ UNCHANGED <<aurora, spec, status, deployments, pods, behind, mon, rec, used>>

DiscoveryFails ==
    /\ disc.pc = "idle"
    /\ Spend("discovery")
    /\ DiscoveryResult(TRUE, discoveryAfterFailureThreshold)
    /\ UNCHANGED <<aurora, spec, status, deployments, pods, behind, mon, rec>>

\* Mutant: a success does not restore the trust that failures have taken away.
updateDiscoveryStatus_StaysUntrusted ==
    /\ disc.pc = "write"
    /\ status' = [status EXCEPT
          !.failures = IF disc.failed
                       THEN CountTo(DiscoveryFailureThreshold, @) ELSE 0,
          !.topo = IF disc.trusted THEN disc.topo ELSE @,
          !.missing = IF disc.trusted THEN disc.missing ELSE @,
          !.trusted = @ /\ disc.trusted]
    /\ disc' = DiscIdle
    /\ UNCHANGED <<aurora, spec, deployments, pods, behind, mon, rec, used>>

updateDiscoveryStatus ==
    /\ disc.pc = "write"
    /\ status' = [status EXCEPT
          !.failures = IF disc.failed
                       THEN CountTo(DiscoveryFailureThreshold, @) ELSE 0,
          !.topo = IF disc.trusted THEN disc.topo ELSE @,
          !.missing = IF disc.trusted THEN disc.missing ELSE @,
          !.trusted = disc.trusted]
    /\ disc' = DiscIdle
    /\ UNCHANGED <<aurora, spec, deployments, pods, behind, mon, rec, used>>

-----------------------------------------------------------------------------
(* The monitor job *)

\* Instances whose probe succeeds when nothing disturbs it: enabled, with a pod
\* that the cache shows as ready, and in the role that discovery recorded.
Probeable ==
    {i \in DOMAIN status.topo \ spec.disabled :
        /\ Seen(i).ready
        /\ i \in DOMAIN aurora
        /\ aurora[i].role = status.topo[i].role}

MonitorPlan(cached, health) ==
    Plan(TRUE, status.topo, spec.disabled, status.instances, status.applied,
         status.missing, cached, health)

\* runMonitorJob up to the status update: snapshot, probes, plan.
MonitorRuns(cached, health) ==
    /\ mon.pc = "idle"
    /\ CachedTrusted(status)
    /\ mon' = [pc |-> "write", topo |-> status.topo,
               instances |-> MonitorPlan(cached, health).instances]
    /\ UNCHANGED <<aurora, spec, status, deployments, pods, behind, disc, rec>>

MonitorChecks == MonitorRuns(FALSE, Probeable) /\ UNCHANGED used

\* Some probes fail, or the check as a whole does and recorded health is reused.
MonitorDisturbed ==
    /\ Spend("probe")
    /\ \/ \E health \in SUBSET Probeable \ {Probeable} : MonitorRuns(FALSE, health)
       \/ MonitorRuns(TRUE, {})

\* A result for another topology than the recorded one is discarded.
updateMonitorStatus ==
    /\ mon.pc = "write"
    /\ status' = IF status.topo = mon.topo
                 THEN [status EXCEPT !.instances = mon.instances, !.trusted = TRUE]
                 ELSE status
    /\ mon' = MonIdle
    /\ UNCHANGED <<aurora, spec, deployments, pods, behind, disc, rec, used>>

-----------------------------------------------------------------------------
(* The reconciler: from the snapshot to the plan *)

Active(plan) == {i \in DOMAIN plan.instances : ~ plan.instances[i].disabled}
DesiredRole(plan, i) == IF i \in Active(plan) THEN plan.instances[i].role ELSE "none"

\* A newly discovered writer with a pod seen as ready takes over at once, whatever the
\* monitor has recorded about it.  The Reader members stay as planned.
applyWriterFailoverFastPath(plan) ==
    LET newWriter == {i \in DOMAIN status.topo : status.topo[i].role = "writer"}
    IN  IF /\ ~ plan.frozen
           /\ IsSingleton(newWriter)
           /\ status.applied.writer \notin {newWriter, {}}
           /\ newWriter \cap spec.disabled = {}
           /\ plan.members.writer # newWriter
           /\ \A i \in newWriter : Seen(i).ready
        THEN [plan EXCEPT !.members.writer = newWriter]
        ELSE plan

\* zoneConflict, under conflictPolicy Fail: the instances whose zone the scheduling
\* constraints of the spec exclude, and "spread" if topology spread contradicts the
\* zones whatever the instances.
applyZoneAwareConflictPolicy(plan) ==
    [plan EXCEPT !.frozen = @ \/ spec.zoneConflict \cap (Active(plan) \cup {"spread"}) # {}]

ReconcilePlan ==
    applyZoneAwareConflictPolicy(applyWriterFailoverFastPath(
        Plan(CachedTrusted(status), status.topo, spec.disabled, status.instances,
             status.applied, status.missing, TRUE, {})))

\* Mutant: the retention alone decides.
removedInstanceReadyForDelete_AgeOnly(missing) ==
    {i \in DOMAIN missing : missing[i].age >= Retention}

removedInstanceReadyForDelete(missing) ==
    {i \in DOMAIN missing : /\ missing[i].count >= RemoveAfterMissingCount
                            /\ missing[i].age >= Retention}

\* Mutant: a label too many is not noticed.
membershipLabelsExact_AtLeast(i, plan) ==
    /\ i \in plan.members.writer => Seen(i).writer
    /\ i \in plan.members.reader => Seen(i).reader
    /\ Seen(i).role = DesiredRole(plan, i)

membershipLabelsExact(i, plan) ==
    /\ Seen(i).writer = (i \in plan.members.writer)
    /\ Seen(i).reader = (i \in plan.members.reader)
    /\ Seen(i).role = DesiredRole(plan, i)

podMembershipLabelDrifted(plan) ==
    \E i \in Instance : Seen(i).up /\ ~ membershipLabelsExact(i, plan)

missingExpectedNames(plan) == Active(plan) \ DOMAIN deployments

\* Resources that are there with another content than planned count as missing.
cachedPlanNeedsApply(plan) ==
    \/ missingExpectedNames(plan) # {}
    \/ podMembershipLabelDrifted(plan)

\* Mutant: a frozen plan is applied.
shouldApplyPlan_Frozen(plan) ==
    \/ spec.gen # status.obsGen
    \/ ~ status.everApplied
    \/ removedInstanceReadyForDelete(status.missing) # {}
    \/ cachedPlanNeedsApply(plan)

shouldApplyPlan(plan) ==
    /\ ~ plan.frozen
    /\ \/ spec.gen # status.obsGen
       \/ ~ status.everApplied
       \/ removedInstanceReadyForDelete(status.missing) # {}
       \/ cachedPlanNeedsApply(plan)

\* Reconcile up to the first change it makes.  (blind is a history variable: it
\* says what the reconcile could not see when it started, and no code reads it.)
ReconcileStarts ==
    /\ rec.pc = "idle"
    /\ rec' = [pc |-> IF shouldApplyPlan(ReconcilePlan) THEN "apply" ELSE "write",
               gen |-> spec.gen, disabled |-> spec.disabled,
               trusted |-> CachedTrusted(status), prev |-> status.applied,
               missing |-> status.missing,
               expired |-> removedInstanceReadyForDelete(status.missing),
               plan |-> ReconcilePlan, list |-> {}, blind |-> Blind]
    /\ UNCHANGED <<aurora, spec, status, deployments, pods, behind, disc, mon, used>>

-----------------------------------------------------------------------------
(* The reconciler: applying the plan *)

\* applyDesired and cleanupRemovedInstanceResources, as far as they get: the
\* resources in made are created, then those in gone are deleted.
WithResources(made, gone) ==
    [i \in (DOMAIN deployments \cup made) \ gone |->
        IF i \in DOMAIN deployments THEN deployments[i] ELSE NoToken]

\* Removed instances whose resources are due: they are missing for long enough
\* and not in the topology of the snapshot.
Expired == rec.expired \ DOMAIN rec.plan.instances

Doomed == {i \in DOMAIN rec.plan.instances : rec.plan.instances[i].disabled}
              \cup Expired

applyDesired ==
    /\ rec.pc = "apply"
    /\ deployments' = WithResources(Active(rec.plan), Doomed)
    /\ rec' = [rec EXCEPT !.pc = "add",
                          !.missing = Only(@, Instance \ Expired)]
    /\ UNCHANGED <<aurora, spec, status, pods, behind, disc, mon, used>>

\* A merge patch is computed from the copy in the cache: a label that the copy
\* shows as wanted is not sent, and stays as it is.
Patched(shown, wanted, label) == IF shown = wanted THEN label ELSE wanted

WithExact(i) ==
    [pods[i] EXCEPT
        !.writer = Patched(Seen(i).writer, i \in rec.plan.members.writer, @),
        !.reader = Patched(Seen(i).reader, i \in rec.plan.members.reader, @),
        !.role = Patched(Seen(i).role, DesiredRole(rec.plan, i), @)]

\* Mutant: the first pass already removes labels.
WithAdditions_Exact(i) == WithExact(i)

\* patchPodMembership: the labels that pod i is to have are added first, and
\* only when every pod has them are the other labels removed.
WithAdditions(i) ==
    [pods[i] EXCEPT
        !.writer = IF i \in rec.plan.members.writer
                   THEN Patched(Seen(i).writer, TRUE, @) ELSE @,
        !.reader = IF i \in rec.plan.members.reader
                   THEN Patched(Seen(i).reader, TRUE, @) ELSE @,
        !.role = IF i \in Active(rec.plan)
                 THEN Patched(Seen(i).role, DesiredRole(rec.plan, i), @) ELSE @]

patchPodMembershipAdditions(S) ==
    pods' = [i \in Instance |-> IF i \in S THEN WithAdditions(i) ELSE pods[i]]

patchPodMembershipExact(S) ==
    pods' = [i \in Instance |-> IF i \in S THEN WithExact(i) ELSE pods[i]]

\* The pods in the cache that are there to be patched: a patch of one that is gone
\* is NotFound, which is ignored.
Listed == {i \in Instance : Seen(i).up /\ ~ SeenIsGone(i)}

AddLabels ==
    /\ rec.pc = "add"
    /\ patchPodMembershipAdditions(Listed)
    /\ rec' = [rec EXCEPT !.pc = "exact", !.list = Listed]
    /\ UNCHANGED <<aurora, spec, status, deployments, behind, disc, mon, used>>

ExactLabels ==
    /\ rec.pc = "exact"
    /\ patchPodMembershipExact(rec.list)
    /\ rec' = [rec EXCEPT !.pc = "restart"]
    /\ UNCHANGED <<aurora, spec, status, deployments, behind, disc, mon, used>>

RestartTargets ==
    IF WriterChangePolicy = "KeepExisting" \/ rec.prev.writer = {}
          \/ rec.prev.writer = rec.plan.members.writer
    THEN {}
    ELSE rec.prev.writer \cup (IF WriterChangePolicy = "RestartAll"
                               THEN Active(rec.plan) ELSE rec.plan.members.writer)

writerRestartToken ==
    [prev |-> rec.prev.writer, next |-> rec.plan.members.writer,
     targets |-> RestartTargets,
     shape |-> [i \in DOMAIN rec.plan.instances |->
                   <<rec.plan.instances[i].role, rec.plan.instances[i].dbi,
                     rec.plan.instances[i].disabled>>]]

\* Writing the token into the pod template makes the Deployment roll.
restartInstanceDeployments(S) ==
    deployments' = [i \in DOMAIN deployments |->
                       IF i \in S THEN writerRestartToken ELSE deployments[i]]

handleWriterChangeConnection ==
    /\ rec.pc = "restart"
    /\ restartInstanceDeployments(RestartTargets)
    /\ rec' = [rec EXCEPT !.pc = "write"]
    /\ UNCHANGED <<aurora, spec, status, pods, behind, disc, mon, used>>

updateStatus ==
    /\ rec.pc = "write"
    /\ LET plan == rec.plan
       IN status' = [status EXCEPT
          !.obsGen = rec.gen,
          !.missing = IF rec.trusted THEN rec.missing ELSE @,
          !.instances = IF ~ plan.frozen /\ @ = Empty THEN plan.instances ELSE @,
          !.applied = IF plan.frozen THEN @ ELSE plan.members,
          !.everApplied = @ \/ ~ plan.frozen,
          !.trusted = rec.trusted]
    /\ rec' = RecIdle
    /\ UNCHANGED <<aurora, spec, deployments, pods, behind, disc, mon, used>>

-----------------------------------------------------------------------------
(* Errors and crashes *)

\* An API call of the reconciler fails part of the way through a step.  What
\* was done stays done, the reconcile returns the error and is tried again.
ReconcileFails ==
    /\ Spend("fault")
    /\ \/ /\ rec.pc = "apply"
          /\ \/ \E made \in SUBSET Active(rec.plan) :
                   deployments' = WithResources(made, {})
             \/ \E gone \in SUBSET Doomed :
                   deployments' = WithResources(Active(rec.plan), gone)
          /\ UNCHANGED pods
       \/ /\ rec.pc = "add"
          /\ \E S \in SUBSET Listed : patchPodMembershipAdditions(S)
          /\ UNCHANGED deployments
       \/ /\ rec.pc = "exact"
          /\ \E S \in SUBSET rec.list : patchPodMembershipExact(S)
          /\ UNCHANGED deployments
       \/ /\ rec.pc = "restart"
          /\ \E S \in SUBSET RestartTargets : restartInstanceDeployments(S)
          /\ UNCHANGED pods
       \/ /\ rec.pc = "write"
          /\ UNCHANGED <<deployments, pods>>
    /\ rec' = RecIdle
    /\ UNCHANGED <<aurora, spec, status, behind, disc, mon>>

\* The status update of a job fails: its result is lost.
JobFails ==
    /\ Spend("fault")
    /\ \/ disc.pc = "write" /\ disc' = DiscIdle /\ UNCHANGED mon
       \/ mon.pc = "write" /\ mon' = MonIdle /\ UNCHANGED disc
    /\ UNCHANGED <<aurora, spec, status, deployments, pods, behind, rec>>

\* The manager stops and another one takes over: only the cluster's state stays.
\* The new one fills its cache before it starts to work.
ManagerRestarts ==
    /\ Spend("fault")
    /\ <<disc.pc, mon.pc, rec.pc>> # <<"idle", "idle", "idle">>
    /\ disc' = DiscIdle /\ mon' = MonIdle /\ rec' = RecIdle
    /\ behind' = Empty
    /\ UNCHANGED <<aurora, spec, status, deployments, pods>>

-----------------------------------------------------------------------------
(* The environment *)

\* A failover, or instances that leave, join or are replaced.
AuroraChanges ==
    /\ Spend("aurora")
    /\ aurora' \in {t \in PartialFcn(Observation) : OneWriter(t)} \ {aurora}
    /\ UNCHANGED <<spec, status, deployments, pods, behind, disc, mon, rec>>

SpecChanges ==
    /\ Spend("spec")
    /\ \E disabled \in SUBSET Instance, zoneConflict \in SUBSET (Instance \cup {"spread"}) :
          spec' = [gen |-> spec.gen + 1, disabled |-> disabled,
                   zoneConflict |-> zoneConflict]
    /\ UNCHANGED <<aurora, status, deployments, pods, behind, disc, mon, rec>>

\* The Deployment controller brings up a pod, which carries no membership label.
PodStarts(i) ==
    /\ i \in DOMAIN deployments /\ ~ pods[i].up
    /\ pods' = [pods EXCEPT ![i] = [NoPod EXCEPT !.up = TRUE]]
    /\ UNCHANGED <<aurora, spec, status, deployments, behind, disc, mon, rec, used>>

PodBecomesReady(i) ==
    /\ pods[i].up /\ ~ pods[i].ready
    /\ pods' = [pods EXCEPT ![i].ready = TRUE]
    /\ UNCHANGED <<aurora, spec, status, deployments, behind, disc, mon, rec, used>>

PodBecomesUnready(i) ==
    /\ Spend("pod")
    /\ pods[i].ready
    /\ pods' = [pods EXCEPT ![i].ready = FALSE]
    /\ UNCHANGED <<aurora, spec, status, deployments, behind, disc, mon, rec>>

\* The pod goes away: with its Deployment, or evicted or rolled.  Patching it
\* from a list made before is NotFound, which the reconciler ignores.
PodGoes(i) ==
    /\ pods[i].up
    /\ IF i \in DOMAIN deployments THEN Spend("pod") ELSE UNCHANGED used
    /\ pods' = [pods EXCEPT ![i] = NoPod]
    /\ behind' = [j \in DOMAIN behind |->
                     [behind[j] EXCEPT !.gone = @ \/ j = i]]
    /\ rec' = [rec EXCEPT !.list = @ \ {i}]
    /\ UNCHANGED <<aurora, spec, status, deployments, disc, mon>>

\* Somebody else deletes resources of an instance.
ResourceLost(i) ==
    /\ Spend("resource")
    /\ i \in DOMAIN deployments
    /\ deployments' = Only(deployments, Instance \ {i})
    /\ UNCHANGED <<aurora, spec, status, pods, behind, disc, mon, rec>>

\* The watch of the cache falls behind on pod i, and delivers later what it missed.
WatchLags(i) ==
    /\ Spend("watch")
    /\ i \notin DOMAIN behind
    /\ behind' = [j \in DOMAIN behind \cup {i} |->
                     IF j = i THEN [pod |-> pods[i], gone |-> FALSE] ELSE behind[j]]
    /\ UNCHANGED <<aurora, spec, status, deployments, pods, disc, mon, rec>>

WatchCatchesUp(i) ==
    /\ i \in DOMAIN behind
    /\ behind' = Only(behind, Instance \ {i})
    /\ UNCHANGED <<aurora, spec, status, deployments, pods, disc, mon, rec, used>>

\* Time passes for every recorded FirstMissingTime, in the status and in the
\* copies that a job and the reconciler hold.
Aged(missing) ==
    [i \in DOMAIN missing |-> [missing[i] EXCEPT !.age = CountTo(Retention, @)]]

TimePasses ==
    /\ \E m \in {status.missing, disc.missing, rec.missing} : Aged(m) # m
    /\ status' = [status EXCEPT !.missing = Aged(@)]
    /\ disc' = [disc EXCEPT !.missing = Aged(@)]
    /\ rec' = [rec EXCEPT !.missing = Aged(@)]
    /\ UNCHANGED <<aurora, spec, deployments, pods, behind, mon, used>>

-----------------------------------------------------------------------------
Discovery == DiscoverySucceeds \/ updateDiscoveryStatus
Monitor == MonitorChecks \/ updateMonitorStatus
Reconcile == \/ ReconcileStarts \/ applyDesired \/ AddLabels \/ ExactLabels
             \/ handleWriterChangeConnection \/ updateStatus
Kubelet(i) == PodStarts(i) \/ PodBecomesReady(i) \/ (i \notin DOMAIN deployments /\ PodGoes(i))

Next ==
    \/ Discovery \/ DiscoveryFails
    \/ Monitor \/ MonitorDisturbed
    \/ Reconcile \/ ReconcileFails \/ JobFails \/ ManagerRestarts
    \/ AuroraChanges \/ SpecChanges \/ TimePasses
    \/ \E i \in Instance : \/ PodStarts(i) \/ PodBecomesReady(i)
                           \/ PodBecomesUnready(i) \/ PodGoes(i)
                           \/ ResourceLost(i) \/ WatchLags(i) \/ WatchCatchesUp(i)

Spec == Init /\ [][Next]_vars

\* Jobs are started again and again by the scheduler's ticker, a finished job
\* enqueues a reconcile, Kubernetes runs what is deployed, and watches deliver.
Fairness ==
    /\ WF_vars(Discovery) /\ WF_vars(Monitor) /\ WF_vars(Reconcile)
    /\ WF_vars(TimePasses)
    /\ \A i \in Instance : WF_vars(Kubelet(i)) /\ WF_vars(WatchCatchesUp(i))

FairSpec == Spec /\ Fairness

-----------------------------------------------------------------------------
(* Types *)

Topology == PartialFcn(Observation)
Missing == PartialFcn([count : 1..RemoveAfterMissingCount, age : 0..Retention])
Records == PartialFcn(InstanceRecord)
Shape == PartialFcn(Role \X Dbi \X BOOLEAN)
Token == [prev : SUBSET Instance, next : SUBSET Instance,
          targets : SUBSET Instance, shape : Shape]
Pod == [up : BOOLEAN, ready : BOOLEAN, writer : BOOLEAN, reader : BOOLEAN,
        role : Role \cup {"none"}]
Lagging == PartialFcn([pod : Pod, gone : BOOLEAN])
PlanType == [frozen : BOOLEAN, instances : Records, members : Membership]
SpecType == [gen : Nat, disabled : SUBSET Instance,
             zoneConflict : SUBSET (Instance \cup {"spread"})]
StatusType == [topo : Topology, missing : Missing, instances : Records,
               applied : Membership, everApplied : BOOLEAN, trusted : BOOLEAN,
               failures : 0..DiscoveryFailureThreshold, obsGen : Nat]
DiscType == [pc : {"idle", "write"}, trusted : BOOLEAN, failed : BOOLEAN,
             topo : Topology, missing : Missing]
MonType == [pc : {"idle", "write"}, topo : Topology, instances : Records]
RecType == [pc : {"idle", "apply", "add", "exact", "restart", "write"},
            gen : Nat, disabled : SUBSET Instance, trusted : BOOLEAN,
            prev : Membership, missing : Missing, expired : SUBSET Instance,
            plan : PlanType, list : SUBSET Instance, blind : SUBSET Instance]

\* Every variable holds a value of its type: the recorded counters stay within
\* their thresholds and every name that is stored is the name of an instance.
TypeOK ==
    /\ aurora \in Topology
    /\ spec \in SpecType
    /\ status \in StatusType
    /\ DOMAIN deployments \subseteq Instance
    /\ deployments \in [DOMAIN deployments -> Token]
    /\ pods \in [Instance -> Pod]
    /\ behind \in Lagging
    /\ disc \in DiscType
    /\ mon \in MonType
    /\ rec \in RecType
    /\ used \in [Disturbance -> Nat]

-----------------------------------------------------------------------------
(* Safety *)

\* The Writer Service never has two members: neither the membership that the
\* status records as applied nor the one the reconciler is about to apply names
\* more than one writer, through failovers, stale snapshots and the retention
\* of missing members (stabilizeWriterMembership, applyWriterFailoverFastPath).
AtMostOneWriter ==
    \A m \in {status.applied, rec.plan.members} : \A i, j \in m.writer : i = j

\* When updateStatus is about to record a membership as applied, no pod outside
\* it still carries the Service label, whether this reconcile has patched the
\* pods or has found nothing to do: a crashed or failed reconcile before it has
\* left no label behind that stays unnoticed.  The one exception is a pod whose
\* labels the cache did not show as they were when the reconcile started; events
\* that come late during the reconcile, its own patches included, do no harm.
RecordedMembershipIsReal ==
    rec.pc = "write" /\ ~ rec.plan.frozen =>
        \A label \in {"writer", "reader"} :
            Labelled(label) \subseteq rec.plan.members[label] \cup rec.blind

\* A plan never deletes the resources of an instance that it keeps in a Service:
\* what is due for deletion as removed or disabled is neither retained as a missing
\* member nor chosen by the fast path or as the fallback, also if the list of
\* missing instances is stale and names instances of the topology
\* (cleanupRemovedInstanceResources against PlanMembership).
MembersKeepResources ==
    rec.pc = "apply" =>
        Doomed \cap (rec.plan.members.writer \cup rec.plan.members.reader) = {}

\* Make before break: a Service label is taken from a running pod only when
\* every running pod of the new membership carries it, so the reconciler does not
\* empty a Service on the way from one membership to the next.  The exceptions are
\* a pod that patchPodMembership did not find in the cache when it listed the pods,
\* and one whose labels the cache showed wrongly when the reconcile started.
MakeBeforeBreak ==
    [][\A label \in {"writer", "reader"}, i \in Instance :
          pods[i].up /\ pods'[i].up /\ pods[i][label] /\ ~ pods'[i][label]
          => \A j \in rec.plan.members[label] \ rec.blind :
                pods[j].up /\ (rec.pc = "exact" => j \in rec.list)
                => pods[j][label]]_vars

\* A reconcile that started from an untrusted discovery, or that the zone
\* policy froze, changes no traffic: it neither adds nor takes a label, creates
\* or deletes no resource, sets no restart token and records no membership.
\* (Only a reconcile changes both resources and rec in a step.)
FrozenChangesNothing ==
    [][(\/ \E i \in Instance : /\ pods[i].up /\ pods'[i].up
                               /\ \E l \in {"writer", "reader", "role"} :
                                      pods'[i][l] # pods[i][l]
        \/ deployments' # deployments /\ rec' # rec
        \/ status'.applied # status.applied)
       => rec.trusted /\ ~ rec.plan.frozen]_vars

\* A healthy backend is declared unhealthy only by FailureThreshold bad rounds
\* in a row, whatever results are lost or discarded between them, unless it is
\* disabled or replaced by another physical instance.
HealthySurvivesFewFailures ==
    [][\A i \in DOMAIN status.instances \cap DOMAIN status'.instances :
          LET old == status.instances[i]
              new == status'.instances[i]
          IN  old.healthy /\ ~ new.healthy =>
                 \/ new.fail = FailureThreshold
                 \/ new.disabled
                 \/ physicalIdentityChanged(new.dbi, old.dbi)]_vars

=============================================================================
