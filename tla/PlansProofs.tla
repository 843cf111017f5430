----------------------------- MODULE PlansProofs -----------------------------
(***************************************************************************)
(* Plans, for every set of instances and every threshold: membership is    *)
(* stable and keeps a single writer; health follows the                    *)
(* history of an instance; conditions and summaries describe a plan alike. *)
(***************************************************************************)
EXTENDS Replanning, Hysteresis, Reporting, PlannerProofs, FiniteSetTheorems

-----------------------------------------------------------------------------
(* The properties of a plan, in every state of the specification *)

LEMMA StableState == PlanIsStable
<1> DEFINE W == HealthyOf("writer", plans)
           R == HealthyOf("reader", plans)
           s == ReaderFallbackSuppressed(plans)
           V == Planned.writer
<1>1. V = stabilizeWriterMembership(W, applied, missing, disabled)
  BY DEF Planned, PlanMembership
<1>2. Planned.reader = stabilizeReaderMembership(
          preserveMissingReaderMembership(R, applied, missing, disabled),
          V, s, applied, missing, disabled)
  BY DEF Planned, PlanMembership
<1>3. stabilizeWriterMembership(W, Planned, missing, disabled) = V
  BY <1>1, WriterIsStable
<1>4. s \in BOOLEAN
  BY DEF ReaderFallbackSuppressed
<1>5. \/ V = {} \/ IsSingleton(V)
      \/ previousMissingMembershipBeforeRemoveThreshold(V, missing, disabled) = V
  BY <1>1, WriterShape
<1>6. stabilizeReaderMembership(
          preserveMissingReaderMembership(R, Planned, missing, disabled),
          V, s, Planned, missing, disabled) = Planned.reader
  BY <1>2, <1>4, <1>5, ReaderIsStable
<1>7. Planned = [writer |-> Planned.writer, reader |-> Planned.reader]
  BY DEF Planned, PlanMembership
<1> QED
  BY <1>3, <1>6, <1>7 DEF PlanIsStable, PlanMembership

LEMMA OneWriterState == PlanKeepsOneWriter
  BY OneWriterPlanned DEF PlanKeepsOneWriter, Planned

-----------------------------------------------------------------------------
\* Plans do not flap, whatever the instances, thresholds and last applied
\* membership: Plan is idempotent on its own membership.
THEOREM PlansAreStable == Spec => []PlanIsStable
  BY StableState, PTL

\* The planner never turns one last applied writer into two.
THEOREM PlansKeepOneWriter == Spec => []PlanKeepsOneWriter
  BY OneWriterState, PTL

-----------------------------------------------------------------------------
(* Health and history *)

\* A counter of checks of one kind counts the last rounds of that kind: it stops
\* at its bound, and starts again with a new instance.
Counts(count, bound, h, check) ==
    /\ count \in 0..Len(h)
    /\ \A j \in Len(h) - count + 1..Len(h) : h[j].check = check
    /\ count < bound => \/ count = Len(h)
                        \/ h[Len(h) - count].check # check
                        \/ count > 0 /\ h[Len(h) - count + 1].new

Round == [check : Check, new : BOOLEAN]

HInv ==
    /\ history \in Seq(Round) /\ last \in Dbi
    /\ history = <<>> => record = [i \in {} |-> {}]
    /\ history # <<>> =>
          /\ record \in [{instance} -> InstanceRecord]
          /\ record[instance].dbi = last
          /\ Counts(record[instance].succ, RecoveryThreshold, history, "good")
          /\ Counts(record[instance].fail, FailureThreshold, history, "bad")
    /\ HealthFollowsHistory

\* One more round.
LEMMA OneMore ==
    ASSUME NEW h \in Seq(Round), NEW e \in Round
    PROVE  /\ Len(h) \in Nat /\ Append(h, e) \in Seq(Round)
           /\ Len(Append(h, e)) = Len(h) + 1
           /\ \A j \in 1..Len(h) : Append(h, e)[j] = h[j]
           /\ Append(h, e)[Len(h) + 1] = e
           /\ Append(h, e) # <<>>
  OBVIOUS

\* The rounds up to k alone say what happens in k.
LEMMA PastIsPast ==
    ASSUME NEW h, NEW g, NEW n \in Nat, \A j \in 1..n : g[j] = h[j], NEW k \in 1..n
    PROVE  (GoesUp(g, k) <=> GoesUp(h, k)) /\ (GoesDown(g, k) <=> GoesDown(h, k))
<1>1. ASSUME NEW T \in Nat \ {0}, k >= T, NEW c
      PROVE  All(g, k - T + 1, k, c) <=> All(h, k - T + 1, k, c)
  <2>1. \A j \in k - T + 1..k : j \in 1..n
    BY <1>1
  <2> QED
    BY <2>1 DEF All
<1>2. g[k] = h[k] /\ RecoveryThreshold \in Nat \ {0} /\ FailureThreshold \in Nat \ {0}
  BY PlannerAssumption
<1>3. GoesUp(g, k) <=> GoesUp(h, k)
  BY <1>1, <1>2 DEF GoesUp
<1>4. GoesDown(g, k) <=> GoesDown(h, k)
  BY <1>1, <1>2 DEF GoesDown
<1> QED
  BY <1>3, <1>4

LEMMA UpAfterOneMore ==
    ASSUME NEW h \in Seq(Round), NEW e \in Round, NEW g, g = Append(h, e)
    PROVE  Up(g) <=> \/ GoesUp(g, Len(h) + 1)
                     \/ Up(h) /\ ~ GoesDown(g, Len(h) + 1)
<1> DEFINE n == Len(h)
<1>1. n \in Nat /\ Len(g) = n + 1 /\ \A j \in 1..n : g[j] = h[j]
  BY OneMore
<1>2. \A k \in 1..n : (GoesUp(g, k) <=> GoesUp(h, k)) /\ (GoesDown(g, k) <=> GoesDown(h, k))
  BY <1>1, PastIsPast
<1> HIDE DEF n
<1>3. ASSUME Up(g)
      PROVE  GoesUp(g, n + 1) \/ (Up(h) /\ ~ GoesDown(g, n + 1))
  <2>1. PICK k \in 1..n + 1 : GoesUp(g, k) /\ \A j \in k+1..n+1 : ~ GoesDown(g, j)
    BY <1>1, <1>3 DEF Up
  <2>2. CASE k = n + 1
    BY <2>1, <2>2
  <2>3. CASE k \in 1..n
    <3>1. n + 1 \in k+1..n+1 /\ \A j \in k+1..n : j \in k+1..n+1 /\ j \in 1..n
      BY <1>1, <2>3
    <3>2. GoesUp(h, k) /\ \A j \in k+1..n : ~ GoesDown(h, j)
      BY <1>2, <2>1, <2>3, <3>1
    <3> QED
      BY <2>1, <2>3, <3>1, <3>2 DEF Up, n
  <2> QED
    BY <1>1, <2>1, <2>2, <2>3
<1>4. ASSUME GoesUp(g, n + 1)
      PROVE  Up(g)
  BY <1>1, <1>4 DEF Up
<1>5. ASSUME Up(h), ~ GoesDown(g, n + 1)
      PROVE  Up(g)
  <2>1. PICK k \in 1..n : GoesUp(h, k) /\ \A j \in k+1..n : ~ GoesDown(h, j)
    BY <1>5 DEF Up, n
  <2>2. k \in 1..n+1 /\ \A j \in k+1..n+1 : j = n + 1 \/ (j \in k+1..n /\ j \in 1..n)
    BY <1>1, <2>1
  <2>3. GoesUp(g, k) /\ \A j \in k+1..n+1 : ~ GoesDown(g, j)
    BY <1>2, <1>5, <2>1, <2>2
  <2> QED
    BY <1>1, <2>2, <2>3 DEF Up
<1> QED
  BY <1>3, <1>4, <1>5 DEF n

\* The counters after one more round.
LEMMA CountsMore ==
    ASSUME NEW h \in Seq(Round), NEW e \in Round, NEW g, g = Append(h, e),
           NEW bound \in Nat \ {0}, NEW count \in 0..bound, NEW check,
           Counts(count, bound, h, check), e.check = check
    PROVE  Counts(CountTo(bound, count), bound, g, check)
<1>1. /\ Len(h) \in Nat /\ Len(g) = Len(h) + 1
      /\ \A j \in 1..Len(h) : g[j] = h[j]
      /\ g[Len(h) + 1] = e
  BY OneMore
<1>2. count \in 0..Len(h)
  BY DEF Counts
<1>3. CASE count < bound
  <2>1. CountTo(bound, count) = count + 1
    BY <1>3 DEF CountTo
  <2>2. \A j \in Len(g) - (count + 1) + 1..Len(g) : g[j].check = check
    BY <1>1, <1>2 DEF Counts
  <2>3. \/ count + 1 = Len(g)
        \/ g[Len(g) - (count + 1)].check # check
        \/ g[Len(g) - (count + 1) + 1].new
    <3>1. CASE count = Len(h)
      BY <1>1, <3>1
    <3>2. CASE count < Len(h) /\ h[Len(h) - count].check # check
      <4>1. Len(h) - count \in 1..Len(h) /\ Len(g) - (count + 1) = Len(h) - count
        BY <1>1, <1>2, <3>2
      <4> QED
        BY <1>1, <3>2, <4>1
    <3>3. CASE count > 0 /\ h[Len(h) - count + 1].new
      <4>1. /\ Len(h) - count + 1 \in 1..Len(h)
            /\ Len(g) - (count + 1) + 1 = Len(h) - count + 1
        BY <1>1, <1>2, <3>3
      <4> QED
        BY <1>1, <3>3, <4>1
    <3> QED
      BY <1>1, <1>2, <1>3, <3>1, <3>2, <3>3 DEF Counts
  <2>4. count + 1 \in 0..Len(g) /\ count + 1 > 0
    BY <1>1, <1>2
  <2>5. Counts(count + 1, bound, g, check)
    BY <2>2, <2>3, <2>4 DEF Counts
  <2> QED
    BY <2>1, <2>5
<1>4. CASE count = bound
  <2>1. CountTo(bound, count) = bound
    BY <1>4 DEF CountTo
  <2>2. \A j \in Len(g) - bound + 1..Len(g) : g[j].check = check
    <3>1. \A j \in Len(g) - bound + 1..Len(g) :
             j = Len(h) + 1 \/ (j \in 1..Len(h) /\ j \in Len(h) - count + 1..Len(h))
      BY <1>1, <1>2, <1>4
    <3>2. \A j \in Len(h) - count + 1..Len(h) : h[j].check = check
      BY DEF Counts
    <3> QED
      BY <1>1, <3>1, <3>2
  <2>3. bound \in 0..Len(g) /\ ~ (bound < bound)
    BY <1>1, <1>2, <1>4
  <2>4. Counts(bound, bound, g, check)
    BY <2>2, <2>3 DEF Counts
  <2> QED
    BY <2>1, <2>4
<1> QED
  BY <1>3, <1>4

LEMMA CountsFirst ==
    ASSUME NEW h \in Seq(Round), NEW e \in Round, NEW g, g = Append(h, e),
           NEW bound \in Nat \ {0}, NEW check, e.check = check, e.new
    PROVE  Counts(CountTo(bound, 0), bound, g, check)
<1>1. Len(h) \in Nat /\ Len(g) = Len(h) + 1 /\ g[Len(h) + 1] = e
  BY OneMore
<1>2. CountTo(bound, 0) = 1
  BY DEF CountTo
<1>3. Len(g) - 1 + 1 = Len(h) + 1 /\ 1 \in 0..Len(g)
  BY <1>1
<1> QED
  BY <1>1, <1>2, <1>3 DEF Counts

LEMMA CountsNone ==
    ASSUME NEW h \in Seq(Round), NEW e \in Round, NEW g, g = Append(h, e),
           NEW bound, NEW check, e.check # check
    PROVE  Counts(0, bound, g, check)
<1>1. Len(h) \in Nat /\ Len(g) = Len(h) + 1 /\ g[Len(h) + 1] = e
  BY OneMore
<1>2. Len(g) - 0 = Len(h) + 1 /\ 0 \in 0..Len(g) /\ Len(g) - 0 + 1..Len(g) = {}
  BY <1>1
<1> QED
  BY <1>1, <1>2 DEF Counts

\* A good check of the same instance: RecoveryThreshold good rounds in a row are
\* counted, unless they go back to a new instance, which was up with the first.
LEMMA GoodRound ==
    ASSUME NEW h \in Seq(Round), NEW e \in Round, NEW g, g = Append(h, e),
           e.check = "good", ~ e.new,
           NEW count \in 0..RecoveryThreshold, Counts(count, RecoveryThreshold, h, "good")
    PROVE  Up(g) <=> Up(h) \/ CountTo(RecoveryThreshold, count) = RecoveryThreshold
<1> DEFINE n == Len(h)
           T == RecoveryThreshold
<1>1. /\ n \in Nat /\ Len(g) = n + 1 /\ g[n + 1] = e
      /\ \A j \in 1..n : g[j] = h[j] /\ h[j] \in Round
  BY OneMore
<1>2. T \in Nat \ {0} /\ count \in 0..n /\ count \in 0..T
  BY PlannerAssumption DEF Counts
<1>3. ~ GoesDown(g, n + 1)
  BY <1>1 DEF GoesDown
<1>4. GoesUp(g, n + 1) <=> n + 1 >= T /\ All(g, n + 1 - T + 1, n + 1, "good")
  <2>1. g[n + 1].check = "good" /\ ~ g[n + 1].new
    BY <1>1
  <2> QED
    BY <1>1, <1>2, <2>1 DEF GoesUp, All
<1>5. Up(g) <=> GoesUp(g, n + 1) \/ Up(h)
  BY <1>3, UpAfterOneMore
<1>6. CountTo(T, count) = T <=> count >= T - 1
  BY <1>2 DEF CountTo
<1>7. ASSUME count >= T - 1
      PROVE  GoesUp(g, n + 1)
  <2>1. \A j \in n + 1 - T + 1..n + 1 :
           j = n + 1 \/ (j \in 1..n /\ j \in n - count + 1..n)
    BY <1>1, <1>2, <1>7
  <2>2. All(g, n + 1 - T + 1, n + 1, "good")
    BY <1>1, <2>1 DEF All, Counts
  <2> QED
    BY <1>1, <1>2, <1>4, <1>7, <2>2
<1>8. ASSUME count < T - 1, GoesUp(g, n + 1)
      PROVE  Up(h)
  <2>1. n + 1 >= T /\ \A j \in n + 1 - T + 1..n + 1 : g[j].check = "good"
    BY <1>4, <1>8 DEF All
  <2>2. count < n /\ n - count \in 1..n /\ n - count \in n + 1 - T + 1..n + 1
    BY <1>1, <1>2, <1>8, <2>1
  <2>3. h[n - count].check = "good"
    BY <1>1, <2>1, <2>2
  <2>4. count > 0 /\ h[n - count + 1].new
    BY <1>2, <1>8, <2>2, <2>3 DEF Counts
  <2>5. n - count + 1 \in 1..n /\ \A j \in n - count + 1..n : h[j].check = "good"
    BY <1>1, <1>2, <2>4 DEF Counts
  <2>6. GoesUp(h, n - count + 1)
    BY <2>4, <2>5, <1>1 DEF GoesUp
  <2>7. \A j \in n - count + 1 + 1..n : ~ GoesDown(h, j)
    <3>1. \A j \in n - count + 1 + 1..n : j \in n - count + 1..n
      BY <1>1, <1>2
    <3> QED
      BY <2>5, <3>1 DEF GoesDown
  <2> QED
    BY <2>5, <2>6, <2>7 DEF Up
<1> QED
  BY <1>2, <1>5, <1>6, <1>7, <1>8

\* A bad check of the same instance, likewise.
LEMMA BadRound ==
    ASSUME NEW h \in Seq(Round), NEW e \in Round, NEW g, g = Append(h, e),
           e.check = "bad", ~ e.new,
           NEW count \in 0..FailureThreshold, Counts(count, FailureThreshold, h, "bad")
    PROVE  Up(g) <=> Up(h) /\ CountTo(FailureThreshold, count) < FailureThreshold
<1> DEFINE n == Len(h)
           T == FailureThreshold
<1>1. /\ n \in Nat /\ Len(g) = n + 1 /\ g[n + 1] = e
      /\ \A j \in 1..n : g[j] = h[j] /\ h[j] \in Round
  BY OneMore
<1>2. T \in Nat \ {0} /\ count \in 0..n /\ count \in 0..T
  BY PlannerAssumption DEF Counts
<1>3. ~ GoesUp(g, n + 1)
  BY <1>1 DEF GoesUp
<1>4. GoesDown(g, n + 1) <=> n + 1 >= T /\ All(g, n + 1 - T + 1, n + 1, "bad")
  <2>1. g[n + 1].check = "bad" /\ ~ g[n + 1].new
    BY <1>1
  <2> QED
    BY <1>1, <1>2, <2>1 DEF GoesDown, All
<1>5. Up(g) <=> Up(h) /\ ~ GoesDown(g, n + 1)
  BY <1>3, UpAfterOneMore
<1>6. CountTo(T, count) < T <=> count < T - 1
  BY <1>2 DEF CountTo
<1>7. ASSUME count >= T - 1
      PROVE  GoesDown(g, n + 1)
  <2>1. \A j \in n + 1 - T + 1..n + 1 :
           j = n + 1 \/ (j \in 1..n /\ j \in n - count + 1..n)
    BY <1>1, <1>2, <1>7
  <2>2. All(g, n + 1 - T + 1, n + 1, "bad")
    BY <1>1, <2>1 DEF All, Counts
  <2> QED
    BY <1>1, <1>2, <1>4, <1>7, <2>2
<1>8. ASSUME count < T - 1, GoesDown(g, n + 1), Up(h)
      PROVE  FALSE
  <2>1. n + 1 >= T /\ \A j \in n + 1 - T + 1..n + 1 : g[j].check = "bad"
    BY <1>4, <1>8 DEF All
  <2>2. count < n /\ n - count \in 1..n /\ n - count \in n + 1 - T + 1..n + 1
    BY <1>1, <1>2, <1>8, <2>1
  <2>3. h[n - count].check = "bad"
    BY <1>1, <2>1, <2>2
  <2>4. count > 0 /\ h[n - count + 1].new
    BY <1>2, <1>8, <2>2, <2>3 DEF Counts
  <2>5. n - count + 1 \in 1..n /\ \A j \in n - count + 1..n : h[j].check = "bad"
    BY <1>1, <1>2, <2>4 DEF Counts
  <2>6. GoesDown(h, n - count + 1)
    BY <2>4, <2>5, <1>1 DEF GoesDown
  <2>7. PICK k \in 1..n : GoesUp(h, k) /\ \A j \in k+1..n : ~ GoesDown(h, j)
    BY <1>8 DEF Up
  <2>8. k \notin n - count + 1..n
    BY <2>5, <2>7 DEF GoesUp
  <2>9. n - count + 1 \in k+1..n
    BY <1>1, <1>2, <2>5, <2>7, <2>8
  <2> QED
    BY <2>6, <2>7, <2>9
<1> QED
  BY <1>2, <1>5, <1>6, <1>7, <1>8

\* The record that a round leaves: Obs is what the round has of the instance.
Obs(dbi) == [role |-> "writer", dbi |-> dbi]
Before(dbi) == PreviousStatus(instance, Obs(dbi), record)
After == record'[instance]

LEMMA BeforeRound ==
    ASSUME HInv, NEW dbi \in Dbi
    PROVE  /\ Obs(dbi) \in Observation /\ Unknown(Obs(dbi)) \in InstanceRecord
           /\ HadPrevious(instance, Obs(dbi), record) <=> ~ New(dbi)
           /\ New(dbi) => Before(dbi) = Unknown(Obs(dbi))
           /\ ~ New(dbi) => /\ history # <<>> /\ Before(dbi) = record[instance]
                            /\ record[instance] \in InstanceRecord
           /\ Before(dbi) \in InstanceRecord
<1>1. Obs(dbi) \in Observation
  BY DEF Obs, Observation, Role
<1>2. Unknown(Obs(dbi)) \in InstanceRecord
  BY <1>1, UnknownType
<1>3. HadPrevious(instance, Obs(dbi), record) <=> ~ New(dbi)
  <2>1. Obs(dbi).dbi = dbi
    BY DEF Obs
  <2>2. CASE history = <<>>
    <3>1. instance \notin DOMAIN record
      BY <2>2 DEF HInv
    <3> QED
      BY <2>2, <3>1 DEF HadPrevious, New
  <2>3. CASE history # <<>>
    <3>1. instance \in DOMAIN record /\ record[instance].dbi = last
      BY <2>3 DEF HInv
    <3> QED
      BY <2>1, <2>3, <3>1 DEF HadPrevious, New, physicalIdentityChanged
  <2> QED
    BY <2>2, <2>3
<1>4. New(dbi) => Before(dbi) = Unknown(Obs(dbi))
  BY <1>3 DEF Before, PreviousStatus
<1>5. ~ New(dbi) => /\ history # <<>> /\ Before(dbi) = record[instance]
                    /\ record[instance] \in InstanceRecord
  BY <1>3 DEF Before, PreviousStatus, New, HInv
<1> QED
  BY <1>1, <1>2, <1>3, <1>4, <1>5

LEMMA RoundRecord ==
    ASSUME HInv, NEW check \in Check, NEW dbi \in Dbi, Monitor(check, dbi)
    PROVE  /\ record' \in [{instance} -> InstanceRecord] /\ After.dbi = dbi
           /\ check = "disabled" => ~ After.healthy /\ After.fail = 0 /\ After.succ = 0
           /\ check = "cached" => /\ After.healthy = Before(dbi).healthy
                                  /\ After.fail = Before(dbi).fail
                                  /\ After.succ = Before(dbi).succ
           /\ check = "good" =>
                 /\ After.healthy <=>
                       \/ New(dbi) \/ Before(dbi).healthy
                       \/ CountTo(RecoveryThreshold, Before(dbi).succ) = RecoveryThreshold
                 /\ After.fail = 0
                 /\ After.succ = CountTo(RecoveryThreshold, Before(dbi).succ)
           /\ check = "bad" =>
                 /\ After.healthy <=>
                       /\ Before(dbi).healthy
                       /\ CountTo(FailureThreshold, Before(dbi).fail) < FailureThreshold
                 /\ After.fail = CountTo(FailureThreshold, Before(dbi).fail)
                 /\ After.succ = 0
<1> DEFINE o == Obs(dbi)
           b == Before(dbi)
           D == IF check = "disabled" THEN {instance} ELSE {}
           G == IF check = "good" THEN {instance} ELSE {}
           had == HadPrevious(instance, o, record)
           succ == CountTo(RecoveryThreshold, b.succ)
           fail == CountTo(FailureThreshold, b.fail)
<1>1. /\ record' = [i \in {instance} |->
              InstancePlan(i, Obs(dbi), record, IF check = "disabled" THEN {i} ELSE {},
                           check = "cached", IF check = "good" THEN {i} ELSE {})]
  BY DEF Monitor, Obs
<1>2. DOMAIN record' = {instance}
      /\ After = InstancePlan(instance, o, record, D, check = "cached", G)
  BY <1>1 DEF After
<1>3. o \in Observation /\ Unknown(o) \in InstanceRecord /\ b \in InstanceRecord
  BY BeforeRound
<1>4. instance \in DOMAIN record => record[instance] \in InstanceRecord
  BY DEF HInv
<1>5. After \in InstanceRecord
  <2>1. (check = "cached") \in BOOLEAN
    OBVIOUS
  <2> QED
    BY <1>2, <1>3, <1>4, <2>1, InstancePlanType
<1>6. record' \in [{instance} -> InstanceRecord]
  BY <1>1, <1>5 DEF After
<1>7. Unknown(o).dbi = dbi
  BY DEF Unknown, Obs
<1>8. had <=> ~ New(dbi)
  BY BeforeRound
<1>9. b.succ \in 0..RecoveryThreshold /\ succ \in 1..RecoveryThreshold
  BY <1>3, CountToType, PlannerAssumption DEF InstanceRecord
<1>10. CASE check = "disabled"
  <2>1. After = [Unknown(o) EXCEPT !.disabled = TRUE]
    BY <1>2, <1>10 DEF InstancePlan
  <2>2. After.dbi = dbi /\ After.healthy = Unknown(o).healthy
        /\ After.fail = Unknown(o).fail /\ After.succ = Unknown(o).succ
    BY <1>3, <1>7, <2>1, Zenon DEF InstanceRecord
  <2>3. Unknown(o).healthy = FALSE /\ Unknown(o).fail = 0 /\ Unknown(o).succ = 0
    BY DEF Unknown
  <2> QED
    BY <1>6, <1>10, <2>2, <2>3
<1>11. CASE check = "cached"
  <2>1. After = [Unknown(o) EXCEPT !.healthy = b.healthy, !.fail = b.fail, !.succ = b.succ]
    BY <1>2, <1>11 DEF InstancePlan, applyCachedHealth, Before
  <2>2. /\ After.healthy = b.healthy /\ After.fail = b.fail /\ After.succ = b.succ
        /\ After.dbi = dbi
    BY <1>3, <1>7, <2>1, Zenon DEF InstanceRecord
  <2> QED
    BY <1>6, <1>11, <2>2
<1>12. CASE check = "good"
  <2>1. After = [Unknown(o) EXCEPT
                    !.healthy = ~ (had /\ ~ b.healthy /\ succ < RecoveryThreshold),
                    !.fail = 0, !.succ = succ]
    BY <1>2, <1>12 DEF InstancePlan, applyMonitorThresholds, Before
  <2>2. /\ After.healthy = ~ (had /\ ~ b.healthy /\ succ < RecoveryThreshold)
        /\ After.fail = 0 /\ After.succ = succ /\ After.dbi = dbi
    BY <1>3, <1>7, <2>1, Zenon DEF InstanceRecord
  <2>3. succ < RecoveryThreshold <=> ~ (succ = RecoveryThreshold)
    BY <1>9, PlannerAssumption
  <2>4. After.healthy <=> New(dbi) \/ b.healthy \/ succ = RecoveryThreshold
    BY <1>8, <2>2, <2>3, Zenon
  <2> QED
    BY <1>6, <1>12, <2>2, <2>4
<1>13. CASE check = "bad"
  <2>1. After = [Unknown(o) EXCEPT
                    !.healthy = b.healthy /\ fail < FailureThreshold,
                    !.fail = fail, !.succ = 0]
    BY <1>2, <1>13 DEF InstancePlan, applyMonitorThresholds, Before
  <2>2. /\ After.healthy = (b.healthy /\ fail < FailureThreshold)
        /\ After.fail = fail /\ After.succ = 0 /\ After.dbi = dbi
    BY <1>3, <1>7, <2>1, Zenon DEF InstanceRecord
  <2> QED
    BY <1>6, <1>13, <2>2
<1> QED
  BY <1>10, <1>11, <1>12, <1>13 DEF Check

\* A round that goes into the history.
LEMMA TellingRound ==
    ASSUME HInv, NEW check \in Check, NEW dbi \in Dbi, Monitor(check, dbi),
           New(dbi) \/ check # "cached"
    PROVE  HInv'
<1> DEFINE e == [check |-> check, new |-> New(dbi)]
           r == record[instance]
<1>1. history \in Seq(Round) /\ e \in Round
  <2>1. New(dbi) \in BOOLEAN
    BY Zenon DEF New
  <2> QED
    BY <2>1, Zenon DEF HInv, Round
<1>2. e.check = check /\ (e.new <=> New(dbi))
  BY Zenon
<1>3. history' = Append(history, e) /\ last' = dbi
  BY DEF Monitor
<1> HIDE DEF e
<1>4. /\ history' \in Seq(Round) /\ history' # <<>> /\ Len(history) \in Nat
      /\ history'[Len(history) + 1] = e
  BY <1>1, <1>3, OneMore
<1>5. record' \in [{instance} -> InstanceRecord] /\ After.dbi = dbi
  BY RoundRecord
<1>6. FailureThreshold \in Nat \ {0} /\ RecoveryThreshold \in Nat \ {0}
  BY PlannerAssumption
<1>7. Unknown(Obs(dbi)).succ = 0 /\ Unknown(Obs(dbi)).fail = 0
      /\ Unknown(Obs(dbi)).healthy = FALSE
  BY DEF Unknown
<1>8. ~ New(dbi) => /\ r.succ \in 0..RecoveryThreshold /\ r.fail \in 0..FailureThreshold
                    /\ Counts(r.succ, RecoveryThreshold, history, "good")
                    /\ Counts(r.fail, FailureThreshold, history, "bad")
                    /\ r.healthy <=> Up(history)
  <2> SUFFICES ASSUME ~ New(dbi)
               PROVE  /\ r.succ \in 0..RecoveryThreshold /\ r.fail \in 0..FailureThreshold
                      /\ Counts(r.succ, RecoveryThreshold, history, "good")
                      /\ Counts(r.fail, FailureThreshold, history, "bad")
                      /\ r.healthy <=> Up(history)
    OBVIOUS
  <2>1. history # <<>> /\ r \in InstanceRecord
    BY BeforeRound
  <2>2. r.succ \in 0..RecoveryThreshold /\ r.fail \in 0..FailureThreshold
    BY <2>1 DEF InstanceRecord
  <2>3. instance \in DOMAIN record
    BY <2>1 DEF HInv
  <2>4. r.healthy <=> Up(history)
    BY <2>3, Zenon DEF HInv, HealthFollowsHistory
  <2> QED
    BY <2>1, <2>2, <2>4, Zenon DEF HInv
<1>9. /\ Counts(After.succ, RecoveryThreshold, history', "good")
      /\ Counts(After.fail, FailureThreshold, history', "bad")
      /\ After.healthy <=> Up(history')
  <2>1. Up(history') <=> \/ GoesUp(history', Len(history) + 1)
                         \/ Up(history) /\ ~ GoesDown(history', Len(history) + 1)
    BY <1>1, <1>3, UpAfterOneMore
  <2>2. CASE check = "disabled" \/ (check = "cached" /\ New(dbi))
    <3>1. After.succ = 0 /\ After.fail = 0 /\ ~ After.healthy
      BY <1>7, <2>2, BeforeRound, RoundRecord
    <3>2. e.check # "good" /\ e.check # "bad"
      BY <1>2, <2>2
    <3>3. ~ GoesUp(history', Len(history) + 1) /\ GoesDown(history', Len(history) + 1)
      BY <1>2, <1>4, <2>2 DEF GoesUp, GoesDown
    <3>4. /\ Counts(0, RecoveryThreshold, history', "good")
          /\ Counts(0, FailureThreshold, history', "bad")
      BY <1>1, <1>3, <3>2, CountsNone
    <3> QED
      BY <2>1, <3>1, <3>3, <3>4
  <2>3. CASE check = "good" /\ New(dbi)
    <3>1. /\ After.succ = CountTo(RecoveryThreshold, 0) /\ After.fail = 0 /\ After.healthy
      <4>1. Before(dbi).succ = 0
        BY <1>7, <2>3, BeforeRound
      <4>2. After.succ = CountTo(RecoveryThreshold, Before(dbi).succ) /\ After.fail = 0
        BY <2>3, RoundRecord
      <4>3. After.healthy
        BY <2>3, RoundRecord
      <4> QED
        BY <4>1, <4>2, <4>3
    <3>2. GoesUp(history', Len(history) + 1)
      BY <1>2, <1>4, <2>3 DEF GoesUp
    <3>3. e.check = "good" /\ e.new
      BY <1>2, <2>3
    <3>4. /\ Counts(CountTo(RecoveryThreshold, 0), RecoveryThreshold, history', "good")
          /\ Counts(0, FailureThreshold, history', "bad")
      BY <1>1, <1>3, <1>6, <3>3, CountsNone, CountsFirst
    <3> QED
      BY <2>1, <3>1, <3>2, <3>4
  <2>4. CASE check = "bad" /\ New(dbi)
    <3>1. /\ After.fail = CountTo(FailureThreshold, 0) /\ After.succ = 0 /\ ~ After.healthy
      <4>1. Before(dbi).fail = 0 /\ Before(dbi).healthy = FALSE
        BY <1>7, <2>4, BeforeRound
      <4>2. After.fail = CountTo(FailureThreshold, Before(dbi).fail) /\ After.succ = 0
        BY <2>4, RoundRecord
      <4>3. ~ After.healthy
        BY <2>4, <4>1, RoundRecord
      <4> QED
        BY <4>1, <4>2, <4>3
    <3>2. ~ GoesUp(history', Len(history) + 1) /\ GoesDown(history', Len(history) + 1)
      BY <1>2, <1>4, <2>4 DEF GoesUp, GoesDown
    <3>3. e.check = "bad" /\ e.new
      BY <1>2, <2>4
    <3>4. /\ Counts(CountTo(FailureThreshold, 0), FailureThreshold, history', "bad")
          /\ Counts(0, RecoveryThreshold, history', "good")
      BY <1>1, <1>3, <1>6, <3>3, CountsNone, CountsFirst
    <3> QED
      BY <2>1, <3>1, <3>2, <3>4
  <2>5. CASE check = "good" /\ ~ New(dbi)
    <3>1. /\ After.succ = CountTo(RecoveryThreshold, r.succ) /\ After.fail = 0
          /\ After.healthy <=>
                r.healthy \/ CountTo(RecoveryThreshold, r.succ) = RecoveryThreshold
      <4>1. Before(dbi) = r
        BY <2>5, BeforeRound
      <4>2. After.succ = CountTo(RecoveryThreshold, r.succ) /\ After.fail = 0
        BY <2>5, <4>1, RoundRecord
      <4>3. After.healthy <=>
               r.healthy \/ CountTo(RecoveryThreshold, r.succ) = RecoveryThreshold
        BY <2>5, <4>1, RoundRecord
      <4> QED
        BY <4>2, <4>3
    <3>2. e.check = "good" /\ ~ e.new
      BY <1>2, <2>5
    <3>3. Up(history') <=>
             Up(history) \/ CountTo(RecoveryThreshold, r.succ) = RecoveryThreshold
      BY <1>1, <1>3, <1>8, <2>5, <3>2, GoodRound
    <3>4. /\ Counts(CountTo(RecoveryThreshold, r.succ), RecoveryThreshold, history', "good")
          /\ Counts(0, FailureThreshold, history', "bad")
      BY <1>1, <1>3, <1>6, <1>8, <2>5, <3>2, CountsNone, CountsMore
    <3> QED
      BY <1>8, <2>5, <3>1, <3>3, <3>4
  <2>6. CASE check = "bad" /\ ~ New(dbi)
    <3>1. /\ After.fail = CountTo(FailureThreshold, r.fail) /\ After.succ = 0
          /\ After.healthy <=>
                r.healthy /\ CountTo(FailureThreshold, r.fail) < FailureThreshold
      <4>1. Before(dbi) = r
        BY <2>6, BeforeRound
      <4>2. After.fail = CountTo(FailureThreshold, r.fail) /\ After.succ = 0
        BY <2>6, <4>1, RoundRecord
      <4>3. After.healthy <=>
               r.healthy /\ CountTo(FailureThreshold, r.fail) < FailureThreshold
        BY <2>6, <4>1, RoundRecord
      <4> QED
        BY <4>2, <4>3
    <3>2. e.check = "bad" /\ ~ e.new
      BY <1>2, <2>6
    <3>3. Up(history') <=>
             Up(history) /\ CountTo(FailureThreshold, r.fail) < FailureThreshold
      BY <1>1, <1>3, <1>8, <2>6, <3>2, BadRound
    <3>4. /\ Counts(CountTo(FailureThreshold, r.fail), FailureThreshold, history', "bad")
          /\ Counts(0, RecoveryThreshold, history', "good")
      BY <1>1, <1>3, <1>6, <1>8, <2>6, <3>2, CountsNone, CountsMore
    <3> QED
      BY <1>8, <2>6, <3>1, <3>3, <3>4
  <2> QED
    BY <2>2, <2>3, <2>4, <2>5, <2>6 DEF Check
<1> QED
  BY <1>3, <1>4, <1>5, <1>9 DEF HInv, HealthFollowsHistory, After

\* A round that the history leaves out.
LEMMA SilentRound ==
    ASSUME HInv, NEW dbi \in Dbi, Monitor("cached", dbi), ~ New(dbi)
    PROVE  HInv'
<1> DEFINE r == record[instance]
<1>1. history' = history /\ last' = dbi /\ history # <<>>
  BY BeforeRound DEF Monitor
<1>2. "cached" \in Check
  BY DEF Check
<1>3. record' \in [{instance} -> InstanceRecord] /\ After.dbi = dbi
  BY <1>2, RoundRecord
<1>4. After.healthy = r.healthy /\ After.fail = r.fail /\ After.succ = r.succ
  BY <1>2, BeforeRound, RoundRecord
<1>5. r.healthy <=> Up(history)
  <2>1. instance \in DOMAIN record
    BY <1>1 DEF HInv
  <2> QED
    BY <2>1, Zenon DEF HInv, HealthFollowsHistory
<1>6. After.healthy <=> Up(history')
  BY <1>1, <1>4, <1>5
<1>7. /\ Counts(After.succ, RecoveryThreshold, history', "good")
      /\ Counts(After.fail, FailureThreshold, history', "bad")
  BY <1>1, <1>4 DEF HInv
<1> QED
  BY <1>1, <1>3, <1>6, <1>7 DEF HInv, HealthFollowsHistory, After

\* HealthFollowsHistory for every pair of thresholds and histories of any length:
\* each counter of applyMonitorThresholds counts the last rounds of its kind back to
\* its threshold, to another kind of round or to a new instance.
THEOREM HealthIsHistory == HistorySpec => []HealthFollowsHistory
<1>1. HistoryInit => HInv
  <2> SUFFICES ASSUME HistoryInit
               PROVE  HInv
    OBVIOUS
  <2>1. history = <<>> /\ <<>> \in Seq(Round) /\ last \in Dbi
    BY PlannerAssumption DEF HistoryInit
  <2>2. record = [i \in {} |-> {}] /\ DOMAIN record = {}
    BY DEF HistoryInit
  <2> QED
    BY <2>1, <2>2 DEF HInv, HealthFollowsHistory
<1>2. HInv /\ [HistoryNext]_<<record, history, last>> => HInv'
  <2> SUFFICES ASSUME HInv, [HistoryNext]_<<record, history, last>>
               PROVE  HInv'
    OBVIOUS
  <2>1. ASSUME NEW check \in Check, NEW dbi \in Dbi, Monitor(check, dbi)
        PROVE  HInv'
    <3>1. CASE New(dbi) \/ check # "cached"
      BY <2>1, <3>1, TellingRound
    <3>2. CASE ~ New(dbi) /\ check = "cached"
      BY <2>1, <3>2, SilentRound
    <3> QED
      BY <3>1, <3>2
  <2>2. CASE UNCHANGED <<record, history, last>>
    BY <2>2 DEF HInv, HealthFollowsHistory
  <2> QED
    BY <2>1, <2>2 DEF HistoryNext
<1>3. HInv => HealthFollowsHistory
  BY DEF HInv
<1> QED
  BY <1>1, <1>2, <1>3, PTL DEF HistorySpec

-----------------------------------------------------------------------------
(* Reports *)

\* Counting tells whether there is any, and that a part is not more than the whole.
LEMMA CountOfMembers ==
    ASSUME NEW S \in SUBSET Instance, NEW T \in SUBSET S
    PROVE  /\ Cardinality(S) \in Nat /\ Cardinality(T) \in Nat
           /\ Cardinality(T) <= Cardinality(S)
           /\ Cardinality(T) > 0 <=> T # {}
<1>1. IsFiniteSet(S)
  BY ReportingAssumption, FS_Subset
<1>2. IsFiniteSet(T) /\ Cardinality(T) <= Cardinality(S)
  BY <1>1, FS_Subset
<1>3. Cardinality(T) \in Nat /\ Cardinality(S) \in Nat
  BY <1>1, <1>2, FS_CardinalityType
<1>4. Cardinality(T) = 0 <=> T = {}
  BY <1>2, FS_EmptySet
<1> QED
  BY <1>2, <1>3, <1>4

\* The conditions and the summary agree on whatever plan has members that exist.
LEMMA AnyPlanIsDescribedAlike ==
    ASSUME NEW plan, plan.members \in Membership
    PROVE  DescribedAlike(plan)
<1> DEFINE summary == serviceSummaryStatus(plan)
<1>1. ASSUME NEW role \in Role
      PROVE  /\ roleReadyCondition(plan, role) <=> summary[role].ready > 0
             /\ summary[role].ready <= summary[role].members
             /\ backendHealthyCondition(plan) => summary[role].unhealthy = 0
  <2> DEFINE S == plan.members[role]
             T == S \cap activePlanInstances(plan) \cap plan.ready
             U == {i \in Candidates(plan, role) : ~ plan.instances[i].healthy}
  <2>1. /\ summary[role].ready = Cardinality(T) /\ summary[role].members = Cardinality(S)
        /\ summary[role].unhealthy = Cardinality(U)
    <3>1. summary[role] = roleServiceSummary(plan, role)
      BY DEF serviceSummaryStatus, Role
    <3>2. /\ roleServiceSummary(plan, role).ready = Cardinality(T)
          /\ roleServiceSummary(plan, role).members = Cardinality(S)
          /\ roleServiceSummary(plan, role).unhealthy = Cardinality(U)
      BY Zenon DEF roleServiceSummary
    <3> QED
      BY <3>1, <3>2, Zenon
  <2>2. S \in SUBSET Instance /\ T \in SUBSET S
    BY DEF Membership, Role
  <2>3. roleReadyCondition(plan, role) <=> T # {}
    BY DEF roleReadyCondition
  <2>4. backendHealthyCondition(plan) => U = {}
    BY DEF backendHealthyCondition, Candidates
  <2> HIDE DEF S, T, U, summary
  <2>5. Cardinality(T) <= Cardinality(S) /\ (Cardinality(T) > 0 <=> T # {})
    BY <2>2, CountOfMembers
  <2>6. U = {} => Cardinality(U) = 0
    BY FS_EmptySet
  <2> QED
    BY <2>1, <2>3, <2>4, <2>5, <2>6
<1>2. readerFallbackFromWriter(plan) <=> summary.reader.fallback
  BY DEF serviceSummaryStatus, roleServiceSummary, readerFallbackFromWriter
<1> QED
  BY <1>1, <1>2 DEF DescribedAlike

LEMMA SnapshotFields ==
    ASSUME NEW snap, snap = Snapshot
    PROVE  snap.applied = status.applied /\ DOMAIN snap.topo \subseteq Instance
<1>1. snap.applied = status.applied /\ snap.topo = Topology(status.writer)
  BY DEF Snapshot
<1>2. DOMAIN Topology(status.writer) \subseteq Instance
  BY DEF Topology
<1> QED
  BY <1>1, <1>2

LEMMA MembersOfPlan ==
    ASSUME NEW topo, DOMAIN topo \subseteq Instance, NEW A \in Membership,
           NEW trusted, NEW D, NEW P, NEW M, NEW cached, NEW health
    PROVE  Plan(trusted, topo, D, P, A, M, cached, health).members \in Membership
<1> DEFINE plans1 == [i \in DOMAIN topo |->
                         InstancePlan(i, topo[i], P, D, cached, health)]
<1>1. PlanMembership(plans1, A, M, D) \in Membership
  <2>1. DOMAIN plans1 \subseteq Instance
    OBVIOUS
  <2> HIDE DEF plans1
  <2> QED
    BY <2>1, PlanMembershipType
<1>2. CASE trusted
  BY <1>1, <1>2, Zenon DEF Plan
<1>3. CASE ~ trusted
  BY <1>3, Zenon DEF Plan
<1> QED
  BY <1>2, <1>3

LEMMA MembersOfPlanWith ==
    ASSUME status.applied \in Membership, NEW snap, snap = Snapshot,
           NEW trusted, NEW cached, NEW health, NEW ready, NEW mismatch,
           NEW p, p = PlanWith(snap, trusted, cached, health, ready, mismatch)
    PROVE  p.members \in Membership /\ "members" \in DOMAIN p
<1>1. snap.applied \in Membership /\ DOMAIN snap.topo \subseteq Instance
  BY SnapshotFields
<1> DEFINE q == Plan(trusted, snap.topo, snap.disabled, snap.instances,
                     snap.applied, [i \in {} |-> 0], cached, health)
<1>2. q.members \in Membership
  BY <1>1, MembersOfPlan
<1>3. p.members = q.members
  BY Zenon DEF PlanWith
<1>4. "members" \in DOMAIN p
  BY DEF PlanWith
<1> QED
  BY <1>2, <1>3, <1>4

LEMMA MembersOfFastPath ==
    ASSUME NEW snap, snap = Snapshot, NEW p, p.members \in Membership, "members" \in DOMAIN p
    PROVE  applyWriterFailoverFastPath(p, snap).members \in Membership
<1> DEFINE new == {i \in DOMAIN snap.topo : snap.topo[i].role = "writer"}
           q == [p EXCEPT !.members.writer = new, !.ready = @ \cup new, !.fast = TRUE]
<1>1. new \in SUBSET Instance
  BY SnapshotFields
<1>2. q.members = [p.members EXCEPT !.writer = new]
  <2> HIDE DEF new
  <2> QED
    OBVIOUS
<1>3. [p.members EXCEPT !.writer = new] \in Membership
  <2> HIDE DEF new
  <2> QED
    BY <1>1 DEF Membership
<1>4. q.members \in Membership
  BY <1>2, <1>3, Zenon
<1>5. applyWriterFailoverFastPath(p, snap) \in {p, q}
  BY DEF applyWriterFailoverFastPath
<1> HIDE DEF q
<1> QED
  BY <1>4, <1>5

\* Every plan that is under way has members that exist.
Planning ==
    /\ "applied" \in DOMAIN status /\ status.applied \in Membership
    /\ {"busy", "late"} \subseteq DOMAIN mon /\ {"busy", "newer"} \subseteq DOMAIN rec
    /\ mon.busy => "plan" \in DOMAIN mon /\ mon.plan.members \in Membership
    /\ rec.busy => "plan" \in DOMAIN rec /\ rec.plan.members \in Membership

LEMMA PlanningStep ==
    ASSUME Planning, [ReportNext]_vars
    PROVE  Planning'
<1> USE DEF Planning
<1>1. CASE Discovers
  BY <1>1 DEF Discovers
<1>2. CASE MonitorChecks \/ MonitorFails
  <2>1. PICK p, failed : MonitorRuns(p, failed) /\ p.members \in Membership
    BY <1>2, MembersOfPlanWith DEF MonitorChecks, MonitorFails, CheckedPlan, CachedPlan
  <2> QED
    BY <2>1 DEF MonitorRuns
<1>3. CASE updateMonitorStatus
  BY <1>3 DEF updateMonitorStatus, MonIdle
<1>4. CASE ReconcileStarts
  <2>1. PICK snap \in {Snapshot} : \E plan \in {CachedPlan(snap, CachedTrusted(snap))} :
          rec' = [busy |-> TRUE, newer |-> FALSE, gen |-> spec.gen,
                  plan |-> applyZoneAwareConflictPolicy(
                               applyWriterFailoverFastPath(plan, snap)),
                  trusted |-> CachedTrusted(snap)]
    BY <1>4 DEF ReconcileStarts
  <2>2. PICK plan \in {CachedPlan(snap, CachedTrusted(snap))} :
          rec' = [busy |-> TRUE, newer |-> FALSE, gen |-> spec.gen,
                  plan |-> applyZoneAwareConflictPolicy(
                               applyWriterFailoverFastPath(plan, snap)),
                  trusted |-> CachedTrusted(snap)]
    BY <2>1
  <2>3. plan.members \in Membership /\ "members" \in DOMAIN plan
    BY MembersOfPlanWith DEF CachedPlan
  <2> DEFINE fast == applyWriterFailoverFastPath(plan, snap)
  <2>4. applyZoneAwareConflictPolicy(fast).members \in Membership
    <3>1. fast.members \in Membership
      BY <2>3, MembersOfFastPath
    <3> HIDE DEF fast
    <3> QED
      BY <3>1 DEF applyZoneAwareConflictPolicy
  <2>5. DOMAIN rec' = {"busy", "newer", "gen", "plan", "trusted"}
        /\ rec'.plan = applyZoneAwareConflictPolicy(fast)
    BY <2>2, Zenon
  <2> QED
    BY <1>4, <2>4, <2>5 DEF ReconcileStarts
<1>5. CASE updateStatus
  BY <1>5 DEF updateStatus, RecIdle
<1>6. CASE ReconcileFails
  BY <1>6 DEF ReconcileFails, RecIdle
<1>7. CASE ClusterChanges \/ SpecChanges \/ UNCHANGED vars
  BY <1>7 DEF ClusterChanges, SpecChanges, Change, vars
<1> QED
  BY <1>1, <1>2, <1>3, <1>4, <1>5, <1>6, <1>7 DEF ReportNext

\* ReportsAgree for every set of instances, and plans from any recorded health: the
\* members of a plan are instances, so they can be counted, and the conditions
\* count the same ones as the summary.
THEOREM ReportsAlwaysAgree == ReportSpec => []ReportsAgree
<1>1. ReportInit => Planning
  <2> SUFFICES ASSUME ReportInit
               PROVE  Planning
    OBVIOUS
  <2>1. "applied" \in DOMAIN status /\ status.applied = NoMembers
    BY DEF ReportInit
  <2>2. NoMembers \in Membership
    BY DEF NoMembers, Membership
  <2>3. {"busy", "late"} \subseteq DOMAIN mon /\ ~ mon.busy
    BY DEF ReportInit, MonIdle
  <2>4. {"busy", "newer"} \subseteq DOMAIN rec /\ ~ rec.busy
    BY DEF ReportInit, RecIdle
  <2> QED
    BY <2>1, <2>2, <2>3, <2>4 DEF Planning
<1>2. Planning /\ [ReportNext]_vars => Planning'
  BY PlanningStep
<1>3. Planning => ReportsAgree
  BY AnyPlanIsDescribedAlike DEF Planning, ReportsAgree
<1> QED
  BY <1>1, <1>2, <1>3, PTL DEF ReportSpec
=============================================================================
