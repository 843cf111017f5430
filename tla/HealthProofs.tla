---------------------------- MODULE HealthProofs ----------------------------
(***************************************************************************)
(* The health record of a backend.  A monitor result is computed from one  *)
(* reading of status.instances and written over a later one; between the   *)
(* two only the reconciler can have written, and only a first record.      *)
(***************************************************************************)
EXTENDS OperatorProofs

\* The new record declares unhealthy what the old one did not only for a reason.
Justified(old, new) ==
    old.healthy /\ ~ new.healthy =>
        \/ new.fail = FailureThreshold
        \/ new.disabled
        \/ physicalIdentityChanged(new.dbi, old.dbi)

\* A pending monitor result is justified against the record it will replace.
PendingIsJustified ==
    mon.pc = "write" =>
        /\ DOMAIN mon.instances # {}
        /\ \A i \in DOMAIN status.instances \cap DOMAIN mon.instances :
              Justified(status.instances[i], mon.instances[i])

\* As long as there is no record, a plan takes no backend to be healthy.
NoRecordNoHealth ==
    rec.pc # "idle" /\ DOMAIN status.instances = {} =>
        \A i \in DOMAIN rec.plan.instances : ~ rec.plan.instances[i].healthy

HInv == TypeOK /\ PendingIsJustified /\ NoRecordNoHealth

-----------------------------------------------------------------------------
(* One round of checks, or none *)

LEMMA RoundIsJustified ==
    ASSUME NEW i \in Instance, NEW obs \in Observation, NEW previous \in Records,
           NEW disabled, NEW cached \in BOOLEAN, NEW health, i \in DOMAIN previous
    PROVE  Justified(previous[i], InstancePlan(i, obs, previous, disabled, cached, health))
<1> DEFINE old == previous[i]
           new == InstancePlan(i, obs, previous, disabled, cached, health)
           u == Unknown(obs)
<1>0. old \in InstanceRecord /\ u \in InstanceRecord /\ u.dbi = obs.dbi
  BY PartialFcnValue, UnknownType DEF Records, Unknown
<1>1. CASE i \in disabled
  <2>1. new = [u EXCEPT !.disabled = TRUE]
    BY <1>1 DEF InstancePlan
  <2>2. new.disabled
    <3> HIDE DEF u, new
    <3> QED
      BY <1>0, <2>1 DEF InstanceRecord
  <2> QED
    BY <2>2 DEF Justified
<1>2. CASE i \notin disabled /\ physicalIdentityChanged(obs.dbi, old.dbi)
  <2> DEFINE p == PreviousStatus(i, obs, previous)
             had == HadPrevious(i, obs, previous)
  <2>2. new \in {applyCachedHealth(u, p), applyMonitorThresholds(u, i \in health, p, had)}
    BY <1>2, Zenon DEF InstancePlan
  <2>3. /\ applyCachedHealth(u, p).dbi = u.dbi
        /\ applyMonitorThresholds(u, i \in health, p, had).dbi = u.dbi
    <3> HIDE DEF u, p, had
    <3> QED
      BY <1>0, Zenon DEF applyCachedHealth, applyMonitorThresholds, InstanceRecord
  <2>1. new.dbi = obs.dbi
    BY <1>0, <2>2, <2>3, Zenon
  <2> QED
    BY <1>2, <2>1 DEF Justified
<1>3. CASE i \notin disabled /\ ~ physicalIdentityChanged(obs.dbi, old.dbi)
  <2>1. HadPrevious(i, obs, previous) /\ PreviousStatus(i, obs, previous) = old
    BY <1>3 DEF HadPrevious, PreviousStatus
  <2>2. CASE cached
    <3>1. new = applyCachedHealth(u, old)
      BY <1>3, <2>1, <2>2 DEF InstancePlan
    <3>2. new.healthy = old.healthy
      <4> HIDE DEF u, old, new
      <4> QED
        BY <1>0, <3>1, Zenon DEF applyCachedHealth, InstanceRecord
    <3> QED
      BY <3>2 DEF Justified
  <2>3. CASE ~ cached
    <3>1. new = applyMonitorThresholds(u, i \in health, old, TRUE)
      BY <1>3, <2>1, <2>3 DEF InstancePlan
    <3> DEFINE succ == CountTo(RecoveryThreshold, old.succ)
               fail == CountTo(FailureThreshold, old.fail)
    <3>2. CASE i \in health
      <4>1. new.healthy = ~ (~ old.healthy /\ succ < RecoveryThreshold)
        <5> HIDE DEF u, old, new
        <5> QED
          BY <1>0, <3>1, <3>2, Zenon DEF applyMonitorThresholds, InstanceRecord
      <4> QED
        BY <4>1 DEF Justified
    <3>3. CASE i \notin health
      <4>1. new.healthy = (old.healthy /\ fail < FailureThreshold) /\ new.fail = fail
        <5> HIDE DEF u, old, new
        <5> QED
          BY <1>0, <3>1, <3>3, Zenon DEF applyMonitorThresholds, InstanceRecord
      <4>2. fail < FailureThreshold \/ fail = FailureThreshold
        BY <1>0, PlannerAssumption DEF CountTo, InstanceRecord
      <4> QED
        BY <4>1, <4>2, Zenon DEF Justified
    <3> QED
      BY <3>2, <3>3
  <2> QED
    BY <2>2, <2>3
<1> QED
  BY <1>1, <1>2, <1>3

\* Without a record, and without a round of checks, nothing is healthy.
LEMMA UnknownIsUnhealthy ==
    ASSUME NEW i \in Instance, NEW obs \in Observation, NEW previous,
           DOMAIN previous = {}, NEW disabled
    PROVE  ~ InstancePlan(i, obs, previous, disabled, TRUE, {}).healthy
<1> DEFINE u == Unknown(obs)
<1>0. u \in InstanceRecord /\ ~ u.healthy
  BY UnknownType DEF Unknown
<1>1. PreviousStatus(i, obs, previous) = u
  BY DEF PreviousStatus, HadPrevious
<1>2. InstancePlan(i, obs, previous, disabled, TRUE, {})
          = IF i \in disabled THEN [u EXCEPT !.disabled = TRUE] ELSE applyCachedHealth(u, u)
  BY <1>1 DEF InstancePlan
<1>3. ~ [u EXCEPT !.disabled = TRUE].healthy /\ ~ applyCachedHealth(u, u).healthy
  <2> HIDE DEF u
  <2> QED
    BY <1>0, Zenon DEF applyCachedHealth, InstanceRecord
<1> QED
  BY <1>2, <1>3

-----------------------------------------------------------------------------
(* The steps *)

LEMMA MonitorRunsJustified ==
    ASSUME TypeOK, NEW cached \in BOOLEAN, NEW health, MonitorRuns(cached, health)
    PROVE  PendingIsJustified'
<1>0. /\ status \in StatusType /\ status.topo \in Topology
      /\ status.instances \in Records
  BY DEF TypeOK, StatusType
<1>1. /\ DOMAIN status.topo \subseteq Instance
      /\ \A i \in DOMAIN status.topo : status.topo[i] \in Observation
  BY <1>0, PartialFcnDef, PartialFcnValue DEF Topology
<1>2. mon'.instances = [i \in DOMAIN status.topo |->
          InstancePlan(i, status.topo[i], status.instances, spec.disabled, cached, health)]
  BY DEF MonitorRuns, MonitorPlan, Plan
<1>3. DOMAIN status.topo # {}
  <2>1. status.topo # Empty
    BY DEF MonitorRuns, CachedTrusted
  <2>2. status.topo = [i \in DOMAIN status.topo |-> status.topo[i]]
    BY <1>0, PartialFcnDef DEF Topology
  <2> QED
    BY <2>1, <2>2 DEF Empty
<1>4. status' = status
  BY DEF MonitorRuns
<1>5. ASSUME NEW i \in DOMAIN status.instances \cap DOMAIN status.topo
      PROVE  Justified(status.instances[i], mon'.instances[i])
  BY <1>0, <1>1, <1>2, RoundIsJustified
<1> QED
  BY <1>2, <1>3, <1>4, <1>5 DEF PendingIsJustified

LEMMA StartNoHealth ==
    ASSUME TypeOK, ReconcileStarts
    PROVE  NoRecordNoHealth'
<1> SUFFICES ASSUME DOMAIN status.instances = {}, NEW i \in DOMAIN ReconcilePlan.instances
             PROVE  ~ ReconcilePlan.instances[i].healthy
  BY DEF ReconcileStarts, NoRecordNoHealth
<1> DEFINE p == Plan(CachedTrusted(status), status.topo, spec.disabled,
                     status.instances, status.applied, status.missing, TRUE, {})
           q == applyWriterFailoverFastPath(p)
           conflict == spec.zoneConflict \cap (Active(q) \cup {"spread"}) # {}
<1>0. status.topo \in Topology /\ status \in StatusType
  BY DEF TypeOK, StatusType
<1>1. p \in PlanType
  BY PlanTyped DEF TypeOK, StatusType, CachedTrusted
<1>2. q.instances = p.instances /\ (q = p \/ \E w : q = [p EXCEPT !.members.writer = w])
  <2> HIDE DEF p
  <2> QED
    BY <1>1 DEF applyWriterFailoverFastPath, PlanType
<1>3. ReconcilePlan.instances = q.instances
  <2>1. ReconcilePlan = [q EXCEPT !.frozen = @ \/ conflict]
    BY DEF ReconcilePlan, applyZoneAwareConflictPolicy
  <2> HIDE DEF p, q, conflict
  <2> QED
    BY <1>1, <1>2, <2>1 DEF PlanType
<1>4. CASE ~ CachedTrusted(status)
  BY <1>2, <1>3, <1>4 DEF Plan
<1>5. CASE CachedTrusted(status)
  <2>1. p.instances = [j \in DOMAIN status.topo |->
            InstancePlan(j, status.topo[j], status.instances, spec.disabled, TRUE, {})]
    BY <1>5 DEF Plan
  <2>2. i \in DOMAIN status.topo /\ i \in Instance /\ status.topo[i] \in Observation
    BY <1>0, <1>2, <1>3, <2>1, PartialFcnDef, PartialFcnValue DEF Topology
  <2>3. ~ InstancePlan(i, status.topo[i], status.instances, spec.disabled, TRUE, {}).healthy
    BY <2>2, UnknownIsUnhealthy
  <2> QED
    BY <1>2, <1>3, <2>1, <2>2, <2>3, Zenon
<1> QED
  BY <1>4, <1>5

LEMMA HealthStep ==
    ASSUME HInv, [Next]_vars
    PROVE  PendingIsJustified' /\ NoRecordNoHealth'
<1>0. TypeOK /\ status \in StatusType /\ rec \in RecType /\ mon \in MonType
  BY DEF HInv, TypeOK
<1>1. CASE UNCHANGED <<status, mon, rec>>
  BY <1>1 DEF HInv, PendingIsJustified, NoRecordNoHealth
<1>2. CASE Discovery \/ DiscoveryFails
  <2>1. status'.instances = status.instances /\ UNCHANGED <<mon, rec>>
    BY <1>0, <1>2 DEF Discovery, DiscoverySucceeds, updateDiscoveryStatus, DiscoveryFails,
                      StatusType
  <2> QED
    BY <2>1 DEF HInv, PendingIsJustified, NoRecordNoHealth
<1>3. CASE MonitorChecks \/ MonitorDisturbed
  <2>1. PICK cached \in BOOLEAN, health \in SUBSET Probeable : MonitorRuns(cached, health)
    BY <1>3 DEF MonitorChecks, MonitorDisturbed
  <2>2. PendingIsJustified'
    BY <1>0, <2>1, MonitorRunsJustified
  <2> QED
    BY <2>1, <2>2 DEF MonitorRuns, HInv, NoRecordNoHealth
<1>4. CASE updateMonitorStatus
  <2>1. mon'.pc = "idle" /\ rec' = rec
    BY <1>4 DEF updateMonitorStatus, MonIdle
  <2>2. status'.instances = status.instances \/ DOMAIN status'.instances # {}
    BY <1>0, <1>4 DEF updateMonitorStatus, HInv, PendingIsJustified, StatusType
  <2> QED
    BY <2>1, <2>2 DEF HInv, PendingIsJustified, NoRecordNoHealth
<1>5. CASE ReconcileStarts
  <2>1. UNCHANGED <<status, mon>>
    BY <1>5 DEF ReconcileStarts
  <2> QED
    BY <1>0, <1>5, <2>1, StartNoHealth DEF HInv, PendingIsJustified
<1>6. CASE applyDesired \/ AddLabels \/ ExactLabels \/ handleWriterChangeConnection
  <2>1. UNCHANGED <<status, mon>> /\ rec'.plan = rec.plan /\ rec.pc # "idle"
    BY <1>0, <1>6 DEF applyDesired, AddLabels, ExactLabels, handleWriterChangeConnection,
                      RecType
  <2> QED
    BY <2>1 DEF HInv, PendingIsJustified, NoRecordNoHealth
<1>7. CASE updateStatus
  <2>1. mon' = mon /\ rec'.pc = "idle" /\ rec.pc = "write"
    BY <1>7 DEF updateStatus, RecIdle
  <2>2. \/ status'.instances = status.instances
        \/ DOMAIN status.instances = {} /\ status'.instances = rec.plan.instances
    BY <1>0, <1>7 DEF updateStatus, StatusType, Empty
  <2>3. PendingIsJustified'
    BY <2>1, <2>2 DEF HInv, PendingIsJustified, NoRecordNoHealth, Justified
  <2> QED
    BY <2>1, <2>3 DEF NoRecordNoHealth
<1>8. CASE ReconcileFails \/ ManagerRestarts \/ JobFails
  <2>1. /\ status' = status
        /\ mon' = mon \/ mon'.pc = "idle"
        /\ rec' = rec \/ rec'.pc = "idle"
    BY <1>8 DEF ReconcileFails, ManagerRestarts, JobFails, MonIdle, RecIdle
  <2> QED
    BY <2>1 DEF HInv, PendingIsJustified, NoRecordNoHealth
<1>9. CASE TimePasses
  <2>1. /\ status'.instances = status.instances /\ mon' = mon
        /\ rec'.plan = rec.plan /\ rec'.pc = rec.pc
    BY <1>0, <1>9 DEF TimePasses, StatusType, RecType
  <2> QED
    BY <2>1 DEF HInv, PendingIsJustified, NoRecordNoHealth
<1>10. CASE AuroraChanges \/ SpecChanges
  BY <1>1, <1>10 DEF AuroraChanges, SpecChanges
<1>11. CASE \E i \in Instance : \/ PodStarts(i) \/ PodBecomesReady(i)
                                 \/ PodBecomesUnready(i) \/ PodGoes(i) \/ ResourceLost(i)
                                 \/ WatchLags(i) \/ WatchCatchesUp(i)
  <2>1. /\ UNCHANGED <<status, mon>>
        /\ rec'.plan = rec.plan /\ rec'.pc = rec.pc
    BY <1>0, <1>11 DEF PodStarts, PodBecomesReady, PodBecomesUnready, PodGoes,
                       ResourceLost, WatchLags, WatchCatchesUp, RecType
  <2> QED
    BY <2>1 DEF HInv, PendingIsJustified, NoRecordNoHealth
<1>12. CASE UNCHANGED vars
  BY <1>1, <1>12 DEF vars
<1> QED
  BY <1>2, <1>3, <1>4, <1>5, <1>6, <1>7, <1>8, <1>9, <1>10, <1>11, <1>12
     DEF Next, Monitor, Reconcile

-----------------------------------------------------------------------------
\* Along every behaviour, a backend that is recorded as healthy is recorded as
\* unhealthy only after FailureThreshold bad rounds in a row, when it is disabled
\* or when another physical instance took its name: no lost, late or discarded
\* monitor result and no write of the reconciler can do it.
THEOREM HealthyIsNotLost == Spec => HealthySurvivesFewFailures
<1> DEFINE A == \A i \in DOMAIN status.instances \cap DOMAIN status'.instances :
          LET old == status.instances[i]
              new == status'.instances[i]
          IN  old.healthy /\ ~ new.healthy =>
                 \/ new.fail = FailureThreshold
                 \/ new.disabled
                 \/ physicalIdentityChanged(new.dbi, old.dbi)
<1>1. Init => HInv
  BY TypeInit DEF Init, Created, HInv, PendingIsJustified, NoRecordNoHealth, MonIdle, RecIdle
<1>2. HInv /\ [Next]_vars => HInv'
  BY TypeStep, HealthStep DEF HInv
<1>3. ASSUME HInv, [Next]_vars PROVE A
  <2>0. status \in StatusType
    BY <1>3 DEF HInv, TypeOK
  <2>1. \/ status'.instances = status.instances
        \/ DOMAIN status.instances = {}
        \/ mon.pc = "write" /\ status'.instances = mon.instances
    <3>1. CASE updateMonitorStatus
      BY <2>0, <3>1 DEF updateMonitorStatus, StatusType
    <3>2. CASE updateStatus
      BY <2>0, <3>2 DEF updateStatus, StatusType, Empty
    <3>3. CASE ~ updateMonitorStatus /\ ~ updateStatus
      BY <1>3, <2>0, <3>3
         DEF Next, vars, Discovery, DiscoverySucceeds, updateDiscoveryStatus,
             DiscoveryFails, Monitor, MonitorChecks, MonitorDisturbed, MonitorRuns,
             Reconcile, ReconcileStarts, applyDesired, AddLabels, ExactLabels,
             handleWriterChangeConnection, ReconcileFails, JobFails, ManagerRestarts,
             AuroraChanges, SpecChanges, TimePasses, PodStarts, PodBecomesReady,
             PodBecomesUnready, PodGoes, ResourceLost, WatchLags, WatchCatchesUp,
             StatusType
    <3> QED
      BY <3>1, <3>2, <3>3
  <2>2. CASE status'.instances = status.instances
    BY <2>2, Zenon
  <2>3. CASE mon.pc = "write" /\ status'.instances = mon.instances
    BY <1>3, <2>3, Zenon DEF HInv, PendingIsJustified, Justified
  <2> QED
    BY <2>1, <2>2, <2>3
<1>4. HInv /\ [Next]_vars => [A]_vars
  BY <1>3
<1> QED
  BY <1>1, <1>2, <1>4, PTL DEF Spec, HealthySurvivesFewFailures
=============================================================================
