------------------------------ MODULE Planner ------------------------------
(***************************************************************************)
(* The membership planner (internal/planner/planner.go).  Plan is a pure   *)
(* function: from the recorded status of a PgBouncerAurora resource, the   *)
(* discovered topology and a round of health checks it computes the record *)
(* of every instance and the desired members of the Writer and the Reader  *)
(* Service.                                                                *)
(*                                                                         *)
(* Lists of names are sets and lists of records with a name field are      *)
(* functions from names: the code sorts them and looks them up by name.    *)
(* Reasons, endpoints, zones and replica counts are left out.              *)
(***************************************************************************)
EXTENDS Naturals

CONSTANTS
    Instance,                 \* names of Aurora DB instances
    Dbi,                      \* physical identities (DbiResourceId)
    NoDbi,                    \* the empty DbiResourceId
    FailureThreshold,         \* spec.monitor.failureThreshold
    RecoveryThreshold,        \* spec.monitor.recoveryThreshold
    RemoveAfterMissingCount,  \* spec.topologyPolicy.removeAfterMissingCount
    ReaderEmptyFallback       \* spec.topologyPolicy.readerEmptyFallback.enabled

ASSUME PlannerAssumption ==
    /\ NoDbi \in Dbi
    /\ FailureThreshold \in Nat \ {0}
    /\ RecoveryThreshold \in Nat \ {0}
    /\ RemoveAfterMissingCount \in Nat \ {0}
    /\ ReaderEmptyFallback \in BOOLEAN

Role == {"writer", "reader"}
Observation == [role : Role, dbi : Dbi]

\* The record of an instance, both in a plan and in status.instances.
InstanceRecord ==
    [role : Role, dbi : Dbi, disabled : BOOLEAN, healthy : BOOLEAN,
     fail : 0..FailureThreshold, succ : 0..RecoveryThreshold]

Membership == [writer : SUBSET Instance, reader : SUBSET Instance]

IsSingleton(S) == \E x \in S : S = {x}

\* Counters only ever meet their threshold, so they stop counting there.
CountTo(bound, n) == IF n < bound THEN n + 1 ELSE bound

-----------------------------------------------------------------------------
(* The record of one instance *)

Unknown(obs) ==
    [role |-> obs.role, dbi |-> obs.dbi, disabled |-> FALSE,
     healthy |-> FALSE, fail |-> 0, succ |-> 0]

physicalIdentityChanged(current, previous) ==
    current # NoDbi /\ previous # NoDbi /\ current # previous

\* Mutant: an identity that becomes known counts as another instance.
HadPrevious_UnknownDiffers(i, obs, previous) ==
    i \in DOMAIN previous /\ obs.dbi = previous[i].dbi

\* The recorded history of i counts only for the same physical instance.
HadPrevious(i, obs, previous) ==
    /\ i \in DOMAIN previous
    /\ ~ physicalIdentityChanged(obs.dbi, previous[i].dbi)

PreviousStatus(i, obs, previous) ==
    IF HadPrevious(i, obs, previous) THEN previous[i] ELSE Unknown(obs)

applyCachedHealth(plan, prev) ==
    [plan EXCEPT !.healthy = prev.healthy, !.fail = prev.fail, !.succ = prev.succ]

\* Mutant: the failure threshold is off by one.
applyMonitorThresholds_OffByOne(plan, rawHealthy, prev, hadPrevious) ==
    LET succ == CountTo(RecoveryThreshold, prev.succ)
        fail == CountTo(FailureThreshold, prev.fail)
    IN  IF rawHealthy
        THEN [plan EXCEPT !.healthy = ~ hadPrevious \/ prev.healthy
                                          \/ succ = RecoveryThreshold,
                          !.succ = succ]
        ELSE [plan EXCEPT !.healthy = prev.healthy /\ fail + 1 < FailureThreshold,
                          !.fail = fail]

applyMonitorThresholds(plan, rawHealthy, prev, hadPrevious) ==
    LET succ == CountTo(RecoveryThreshold, prev.succ)
        fail == CountTo(FailureThreshold, prev.fail)
        recovering == hadPrevious /\ ~ prev.healthy /\ succ < RecoveryThreshold
        preserved == prev.healthy /\ fail < FailureThreshold
    IN  IF rawHealthy
        THEN [plan EXCEPT !.healthy = ~ recovering, !.fail = 0, !.succ = succ]
        ELSE [plan EXCEPT !.healthy = preserved, !.fail = fail, !.succ = 0]

\* health is the set of instances that passed this round of checks; cached says
\* that there was no round and the recorded health is reused.
InstancePlan(i, obs, previous, disabled, cached, health) ==
    LET prev == PreviousStatus(i, obs, previous)
    IN  IF i \in disabled THEN [Unknown(obs) EXCEPT !.disabled = TRUE]
        ELSE IF cached THEN applyCachedHealth(Unknown(obs), prev)
        ELSE applyMonitorThresholds(Unknown(obs), i \in health, prev,
                                    HadPrevious(i, obs, previous))

-----------------------------------------------------------------------------
(* Desired membership *)

HealthyOf(role, plans) ==
    {i \in DOMAIN plans : plans[i].role = role /\ plans[i].healthy}

\* Readers were discovered and every one of them is disabled by the user.
ReaderFallbackSuppressed(plans) ==
    LET readers == {i \in DOMAIN plans : plans[i].role = "reader"}
    IN  readers # {} /\ \A i \in readers : plans[i].disabled

\* Members that are missing, but not for long enough to be let go.
previousMissingMembershipBeforeRemoveThreshold(previous, missing, disabled) ==
    {i \in (previous \cap DOMAIN missing) \ disabled :
        missing[i].count < RemoveAfterMissingCount}

\* Mutant: a missing writer is retained beside the new one.
stabilizeWriterMembership_KeepsMissing(writer, applied, missing, disabled) ==
    writer \cup previousMissingMembershipBeforeRemoveThreshold(
                    applied.writer, missing, disabled)

stabilizeWriterMembership(writer, applied, missing, disabled) ==
    IF IsSingleton(writer) THEN writer
    ELSE IF writer # {}
         THEN IF IsSingleton(applied.writer \cap writer)
              THEN applied.writer \cap writer ELSE {}
         ELSE previousMissingMembershipBeforeRemoveThreshold(
                  applied.writer, missing, disabled)

preserveMissingReaderMembership(reader, applied, missing, disabled) ==
    reader \cup previousMissingMembershipBeforeRemoveThreshold(
                    applied.reader, missing, disabled)

\* Mutant: the fallback is taken only when the Reader Service has no member.
stabilizeReaderMembership_FallbackOnce(reader, writer, suppressed, applied, missing, disabled) ==
    IF reader # {} THEN reader
    ELSE IF suppressed THEN {}
    ELSE IF ReaderEmptyFallback /\ writer # {} /\ applied.reader = {} THEN writer
    ELSE previousMissingMembershipBeforeRemoveThreshold(
             applied.reader, missing, disabled)

stabilizeReaderMembership(reader, writer, suppressed, applied, missing, disabled) ==
    IF reader # {} THEN reader
    ELSE IF suppressed THEN {}
    ELSE IF ReaderEmptyFallback /\ writer # {} THEN writer
    ELSE previousMissingMembershipBeforeRemoveThreshold(
             applied.reader, missing, disabled)

PlanMembership(plans, applied, missing, disabled) ==
    LET writer == stabilizeWriterMembership(
                      HealthyOf("writer", plans), applied, missing, disabled)
        present == preserveMissingReaderMembership(
                      HealthyOf("reader", plans), applied, missing, disabled)
    IN  [writer |-> writer,
         reader |-> stabilizeReaderMembership(present, writer,
                        ReaderFallbackSuppressed(plans), applied, missing, disabled)]

\* An untrusted discovery freezes the plan at what was last applied.
Plan(trusted, topo, disabled, previous, applied, missing, cached, health) ==
    LET plans == [i \in DOMAIN topo |->
                    InstancePlan(i, topo[i], previous, disabled, cached, health)]
    IN  IF trusted
        THEN [frozen |-> FALSE, instances |-> plans,
              members |-> PlanMembership(plans, applied, missing, disabled)]
        ELSE [frozen |-> TRUE, instances |-> previous, members |-> applied]
=============================================================================
