---------------------------- MODULE PlannerProofs ----------------------------
(***************************************************************************)
(* Facts about the operators of the planner, for every set of instances    *)
(* and every threshold: the types of what they return, that the membership *)
(* rules are idempotent, and that they do not make two writers out of one. *)
(***************************************************************************)
EXTENDS Planner, TLAPS

-----------------------------------------------------------------------------
(* Types *)

LEMMA CountToType ==
    ASSUME NEW bound \in Nat \ {0}, NEW n \in 0..bound
    PROVE  CountTo(bound, n) \in 1..bound
  BY DEF CountTo

LEMMA UnknownType ==
    ASSUME NEW obs \in Observation
    PROVE  Unknown(obs) \in InstanceRecord
  BY PlannerAssumption DEF Observation, Unknown, InstanceRecord

\* Setting the health of a record.
LEMMA HealthType ==
    ASSUME NEW plan \in InstanceRecord, NEW h \in BOOLEAN,
           NEW f \in 0..FailureThreshold, NEW s \in 0..RecoveryThreshold
    PROVE  [plan EXCEPT !.healthy = h, !.fail = f, !.succ = s] \in InstanceRecord
  BY DEF InstanceRecord

LEMMA MonitorThresholdsType ==
    ASSUME NEW plan \in InstanceRecord, NEW prev \in InstanceRecord,
           NEW raw \in BOOLEAN, NEW had \in BOOLEAN
    PROVE  applyMonitorThresholds(plan, raw, prev, had) \in InstanceRecord
<1> DEFINE succ == CountTo(RecoveryThreshold, prev.succ)
           fail == CountTo(FailureThreshold, prev.fail)
           up == ~ (had /\ ~ prev.healthy /\ succ < RecoveryThreshold)
           kept == prev.healthy /\ fail < FailureThreshold
<1>1. prev.succ \in 0..RecoveryThreshold /\ prev.fail \in 0..FailureThreshold
  BY DEF InstanceRecord
<1>2. succ \in 1..RecoveryThreshold /\ fail \in 1..FailureThreshold
  BY <1>1, CountToType, PlannerAssumption
<1>3. /\ succ \in 0..RecoveryThreshold /\ fail \in 0..FailureThreshold
      /\ 0 \in 0..RecoveryThreshold /\ 0 \in 0..FailureThreshold
  BY <1>2, PlannerAssumption
<1>4. kept \in BOOLEAN /\ up \in BOOLEAN
  BY DEF InstanceRecord
<1>5. applyMonitorThresholds(plan, raw, prev, had) =
        IF raw THEN [plan EXCEPT !.healthy = up, !.fail = 0, !.succ = succ]
               ELSE [plan EXCEPT !.healthy = kept, !.fail = fail, !.succ = 0]
  BY DEF applyMonitorThresholds
<1> HIDE DEF succ, fail, up, kept
<1>6. [plan EXCEPT !.healthy = up, !.fail = 0, !.succ = succ] \in InstanceRecord
  BY <1>3, <1>4, HealthType
<1>7. [plan EXCEPT !.healthy = kept, !.fail = fail, !.succ = 0] \in InstanceRecord
  BY <1>3, <1>4, HealthType
<1> QED
  BY <1>5, <1>6, <1>7

\* The record that Plan makes for an instance.
LEMMA InstancePlanType ==
    ASSUME NEW i, NEW obs \in Observation, NEW previous, NEW disabled,
           NEW cached \in BOOLEAN, NEW health,
           i \in DOMAIN previous => previous[i] \in InstanceRecord
    PROVE  InstancePlan(i, obs, previous, disabled, cached, health) \in InstanceRecord
<1> DEFINE prev == PreviousStatus(i, obs, previous)
           had == HadPrevious(i, obs, previous)
<1>1. Unknown(obs) \in InstanceRecord
  BY UnknownType
<1>2. prev \in InstanceRecord
  BY <1>1 DEF PreviousStatus, HadPrevious
<1>3. had \in BOOLEAN /\ (i \in health) \in BOOLEAN
  BY DEF HadPrevious
<1>4. [Unknown(obs) EXCEPT !.disabled = TRUE] \in InstanceRecord
  BY <1>1 DEF InstanceRecord
<1>5. applyCachedHealth(Unknown(obs), prev) \in InstanceRecord
  <2> HIDE DEF prev
  <2>1. /\ prev.healthy \in BOOLEAN
        /\ prev.fail \in 0..FailureThreshold /\ prev.succ \in 0..RecoveryThreshold
    BY <1>2 DEF InstanceRecord
  <2> QED
    BY <1>1, <2>1, HealthType DEF applyCachedHealth
<1>6. applyMonitorThresholds(Unknown(obs), i \in health, prev, had) \in InstanceRecord
  <2> HIDE DEF prev, had
  <2> QED
    BY <1>1, <1>2, <1>3, MonitorThresholdsType
<1> QED
  BY <1>4, <1>5, <1>6 DEF InstancePlan

-----------------------------------------------------------------------------
(* The membership rules *)

\* Members are retained from the last applied ones.
LEMMA RetainedAreApplied ==
    ASSUME NEW P, NEW M, NEW D
    PROVE  previousMissingMembershipBeforeRemoveThreshold(P, M, D) \subseteq P
  BY DEF previousMissingMembershipBeforeRemoveThreshold

\* Retaining twice is retaining once.
LEMMA RetainingIsIdempotent ==
    ASSUME NEW P, NEW M, NEW D, NEW R,
           R = previousMissingMembershipBeforeRemoveThreshold(P, M, D)
    PROVE  previousMissingMembershipBeforeRemoveThreshold(R, M, D) = R
  BY DEF previousMissingMembershipBeforeRemoveThreshold

\* The writers that stabilizeWriterMembership settles on are its own fixed
\* point: whatever it has picked or retained, it picks or retains again.
LEMMA WriterIsStable ==
    ASSUME NEW W, NEW A, NEW B, NEW M, NEW D,
           B.writer = stabilizeWriterMembership(W, A, M, D)
    PROVE  stabilizeWriterMembership(W, B, M, D) = B.writer
<1>1. CASE IsSingleton(W)
  BY <1>1 DEF stabilizeWriterMembership
<1>2. CASE ~ IsSingleton(W) /\ W # {}
  <2>1. CASE IsSingleton(A.writer \cap W)
    <3>1. B.writer = A.writer \cap W
      BY <1>2, <2>1 DEF stabilizeWriterMembership
    <3>2. B.writer \cap W = A.writer \cap W
      BY <3>1
    <3> QED
      BY <1>2, <2>1, <3>1, <3>2 DEF stabilizeWriterMembership
  <2>2. CASE ~ IsSingleton(A.writer \cap W)
    <3>1. B.writer = {}
      BY <1>2, <2>2 DEF stabilizeWriterMembership
    <3>2. ~ IsSingleton(B.writer \cap W)
      BY <3>1 DEF IsSingleton
    <3> QED
      BY <1>2, <3>1, <3>2 DEF stabilizeWriterMembership
  <2> QED
    BY <2>1, <2>2
<1>3. CASE W = {}
  <2>1. ~ IsSingleton(W)
    BY <1>3 DEF IsSingleton
  <2>2. B.writer = previousMissingMembershipBeforeRemoveThreshold(A.writer, M, D)
    BY <1>3, <2>1 DEF stabilizeWriterMembership
  <2> QED
    BY <1>3, <2>1, <2>2, RetainingIsIdempotent DEF stabilizeWriterMembership
<1> QED
  BY <1>1, <1>2, <1>3

\* A planned Writer membership is empty, a single instance, or retained.
LEMMA WriterShape ==
    ASSUME NEW W, NEW A, NEW M, NEW D, NEW V,
           V = stabilizeWriterMembership(W, A, M, D)
    PROVE  \/ V = {} \/ IsSingleton(V)
           \/ previousMissingMembershipBeforeRemoveThreshold(V, M, D) = V
<1>1. CASE W = {}
  <2>1. ~ IsSingleton(W)
    BY <1>1 DEF IsSingleton
  <2>2. V = previousMissingMembershipBeforeRemoveThreshold(A.writer, M, D)
    BY <1>1, <2>1 DEF stabilizeWriterMembership
  <2> QED
    BY <2>2, RetainingIsIdempotent
<1>2. CASE W # {}
  BY <1>2 DEF stabilizeWriterMembership
<1> QED
  BY <1>1, <1>2

\* The readers are a fixed point too.  The delicate case is the fallback: what
\* it has put into the Reader membership is itself retained when it is missing,
\* and then the shape of the Writer membership matters.
LEMMA ReaderIsStable ==
    ASSUME NEW R, NEW W, NEW s \in BOOLEAN, NEW A, NEW B, NEW M, NEW D,
           \/ W = {} \/ IsSingleton(W)
           \/ previousMissingMembershipBeforeRemoveThreshold(W, M, D) = W,
           B.reader = stabilizeReaderMembership(
                          preserveMissingReaderMembership(R, A, M, D), W, s, A, M, D)
    PROVE  stabilizeReaderMembership(
               preserveMissingReaderMembership(R, B, M, D), W, s, B, M, D) = B.reader
<1> DEFINE Kept(P) == previousMissingMembershipBeforeRemoveThreshold(P, M, D)
           Present(P) == R \cup Kept(P)
<1>0. /\ preserveMissingReaderMembership(R, A, M, D) = Present(A.reader)
      /\ preserveMissingReaderMembership(R, B, M, D) = Present(B.reader)
  BY DEF preserveMissingReaderMembership
<1>1. CASE Present(A.reader) # {}
  <2>1. B.reader = Present(A.reader)
    BY <1>0, <1>1 DEF stabilizeReaderMembership
  <2>2. Present(B.reader) = B.reader
    BY <2>1 DEF previousMissingMembershipBeforeRemoveThreshold
  <2> QED
    BY <1>0, <1>1, <2>1, <2>2 DEF stabilizeReaderMembership
<1>2. CASE Present(A.reader) = {} /\ s
  <2>1. B.reader = {}
    BY <1>0, <1>2 DEF stabilizeReaderMembership
  <2>2. Present(B.reader) = {}
    BY <1>2, <2>1 DEF previousMissingMembershipBeforeRemoveThreshold
  <2> QED
    BY <1>0, <1>2, <2>1, <2>2 DEF stabilizeReaderMembership
<1>3. CASE Present(A.reader) = {} /\ ~ s /\ ReaderEmptyFallback /\ W # {}
  <2>1. B.reader = W /\ R = {}
    BY <1>0, <1>3 DEF stabilizeReaderMembership
  <2>2. CASE Present(B.reader) = {}
    BY <1>0, <1>3, <2>1, <2>2 DEF stabilizeReaderMembership
  <2>3. CASE Present(B.reader) # {}
    <3>1. Kept(W) # {} /\ Kept(W) \subseteq W
      BY <2>1, <2>3, RetainedAreApplied
    <3>2. Kept(W) = W
      BY <1>3, <3>1 DEF IsSingleton
    <3> QED
      BY <1>0, <2>1, <2>3, <3>2 DEF stabilizeReaderMembership
  <2> QED
    BY <2>2, <2>3
<1>4. CASE Present(A.reader) = {} /\ ~ s /\ ~ (ReaderEmptyFallback /\ W # {})
  <2>1. B.reader = {} /\ R = {}
    BY <1>0, <1>4 DEF stabilizeReaderMembership
  <2>2. Kept(B.reader) = {}
    BY <2>1, RetainedAreApplied
  <2> QED
    BY <1>0, <1>4, <2>1, <2>2 DEF stabilizeReaderMembership
<1> QED
  BY <1>1, <1>2, <1>3, <1>4

\* One last applied writer does not become two.
LEMMA OneWriterPlanned ==
    ASSUME NEW P, NEW A, NEW M, NEW D,
           \A i, j \in A.writer : i = j
    PROVE  \A i, j \in PlanMembership(P, A, M, D).writer : i = j
<1> DEFINE W == HealthyOf("writer", P)
           V == PlanMembership(P, A, M, D).writer
<1>1. V = stabilizeWriterMembership(W, A, M, D)
  BY DEF PlanMembership
<1>2. CASE IsSingleton(W)
  BY <1>1, <1>2 DEF stabilizeWriterMembership, IsSingleton
<1>3. CASE ~ IsSingleton(W)
  <2>1. V \subseteq A.writer
    BY <1>1, <1>3, RetainedAreApplied DEF stabilizeWriterMembership
  <2> QED
    BY <2>1
<1> QED
  BY <1>2, <1>3

\* Members are planned instances or members of before.
LEMMA PlanMembershipType ==
    ASSUME NEW P, DOMAIN P \subseteq Instance, NEW A \in Membership, NEW M, NEW D
    PROVE  PlanMembership(P, A, M, D) \in Membership
<1> DEFINE W == HealthyOf("writer", P)
           R == HealthyOf("reader", P)
           V == stabilizeWriterMembership(W, A, M, D)
           Q == preserveMissingReaderMembership(R, A, M, D)
           X == stabilizeReaderMembership(Q, V, ReaderFallbackSuppressed(P), A, M, D)
<1>1. W \subseteq Instance /\ R \subseteq Instance
  BY DEF HealthyOf
<1>2. A.writer \subseteq Instance /\ A.reader \subseteq Instance
  BY DEF Membership
<1>3. V \subseteq Instance
  BY <1>1, <1>2, RetainedAreApplied DEF stabilizeWriterMembership
<1>4. Q \subseteq Instance
  BY <1>1, <1>2, RetainedAreApplied DEF preserveMissingReaderMembership
<1>5. X \subseteq Instance
  BY <1>2, <1>3, <1>4, RetainedAreApplied DEF stabilizeReaderMembership
<1> QED
  BY <1>3, <1>5 DEF PlanMembership, Membership
-----------------------------------------------------------------------------
(* Who is a member *)

\* What Plan makes for an instance is disabled exactly if the user has disabled
\* the instance, and a disabled one is not healthy.
LEMMA DisabledAsAsked ==
    ASSUME NEW i, NEW obs \in Observation, NEW previous, NEW disabled,
           NEW cached \in BOOLEAN, NEW health,
           NEW r, r = InstancePlan(i, obs, previous, disabled, cached, health)
    PROVE  /\ r.disabled <=> i \in disabled
           /\ r.disabled => ~ r.healthy
<1>1. CASE i \in disabled
  BY <1>1 DEF InstancePlan, Unknown
<1>2. CASE i \notin disabled /\ cached
  BY <1>2 DEF InstancePlan, applyCachedHealth, Unknown
<1>3. CASE i \notin disabled /\ ~ cached
  BY <1>3 DEF InstancePlan, applyMonitorThresholds, Unknown
<1> QED
  BY <1>1, <1>2, <1>3

\* A planned member is not disabled, and it is planned for or missing for too
\* short a time to be removed.
LEMMA MembersAreWanted ==
    ASSUME NEW plans, NEW applied, NEW missing, NEW disabled,
           \A i \in DOMAIN plans : plans[i].healthy => i \notin disabled,
           NEW members, members = PlanMembership(plans, applied, missing, disabled),
           NEW i \in members.writer \cup members.reader
    PROVE  /\ i \notin disabled
           /\ \/ i \in DOMAIN plans
              \/ i \in DOMAIN missing /\ missing[i].count < RemoveAfterMissingCount
<1> DEFINE Kept(P) == previousMissingMembershipBeforeRemoveThreshold(P, missing, disabled)
           Wanted == {j \in DOMAIN plans : j \notin disabled}
                        \cup Kept(applied.writer) \cup Kept(applied.reader)
<1>1. HealthyOf("writer", plans) \subseteq Wanted /\ HealthyOf("reader", plans) \subseteq Wanted
  BY DEF HealthyOf
<1>2. members.writer \subseteq Wanted
  BY <1>1 DEF PlanMembership, stabilizeWriterMembership
<1>3. preserveMissingReaderMembership(HealthyOf("reader", plans), applied, missing, disabled)
          \subseteq Wanted
  BY <1>1 DEF preserveMissingReaderMembership
<1>4. members.reader \subseteq Wanted
  BY <1>2, <1>3 DEF PlanMembership, stabilizeReaderMembership
<1>5. i \in Wanted
  BY <1>2, <1>4
<1> QED
  BY <1>5 DEF previousMissingMembershipBeforeRemoveThreshold
=============================================================================
