--------------------------- MODULE OperatorProofs ---------------------------
(***************************************************************************)
(* Type correctness of Operator, for every set of instances, every         *)
(* threshold and any number of disturbances.                               *)
(***************************************************************************)
EXTENDS Operator, PlannerProofs

-----------------------------------------------------------------------------
(* Partial functions on instances *)

LEMMA PartialFcnDef ==
    ASSUME NEW R, NEW f
    PROVE  f \in PartialFcn(R) <=> DOMAIN f \subseteq Instance /\ f \in [DOMAIN f -> R]
  BY DEF PartialFcn

\* A function given by an expression.
LEMMA PartialFcnIntro ==
    ASSUME NEW R, NEW S, S \subseteq Instance, NEW f, f \in [S -> R]
    PROVE  f \in PartialFcn(R)
  BY DEF PartialFcn

LEMMA PartialFcnValue ==
    ASSUME NEW R, NEW f \in PartialFcn(R), NEW i \in DOMAIN f
    PROVE  f[i] \in R
  BY PartialFcnDef

LEMMA EmptyType ==
    ASSUME NEW R
    PROVE  Empty \in PartialFcn(R)
<1>1. Empty \in [{} -> R]
  BY DEF Empty
<1> QED
  BY <1>1, PartialFcnIntro

LEMMA OnlyType ==
    ASSUME NEW R, NEW f \in PartialFcn(R), NEW S
    PROVE  Only(f, S) \in PartialFcn(R)
<1>1. DOMAIN f \cap S \subseteq Instance
  BY PartialFcnDef
<1>2. Only(f, S) \in [DOMAIN f \cap S -> R]
  BY PartialFcnValue DEF Only
<1> QED
  BY <1>1, <1>2, PartialFcnIntro

-----------------------------------------------------------------------------
(* What the operators return *)

LEMMA PlanTyped ==
    ASSUME NEW trusted \in BOOLEAN, NEW topo \in Topology, NEW disabled,
           NEW previous \in Records, NEW applied \in Membership, NEW missing,
           NEW cached \in BOOLEAN, NEW health
    PROVE  Plan(trusted, topo, disabled, previous, applied, missing, cached, health)
               \in PlanType
<1> DEFINE plans == [i \in DOMAIN topo |->
                        InstancePlan(i, topo[i], previous, disabled, cached, health)]
<1>1. DOMAIN topo \subseteq Instance
  BY PartialFcnDef DEF Topology
<1>2. ASSUME NEW i \in DOMAIN topo
      PROVE  InstancePlan(i, topo[i], previous, disabled, cached, health) \in InstanceRecord
  <2>1. topo[i] \in Observation
    BY PartialFcnValue DEF Topology
  <2>2. i \in DOMAIN previous => previous[i] \in InstanceRecord
    BY PartialFcnValue DEF Records
  <2> QED
    BY <2>1, <2>2, InstancePlanType
<1>3. plans \in Records
  <2>1. plans \in [DOMAIN topo -> InstanceRecord]
    BY <1>2
  <2> QED
    BY <1>1, <2>1, PartialFcnIntro DEF Records
<1>4. PlanMembership(plans, applied, missing, disabled) \in Membership
  BY <1>1, PlanMembershipType
<1> QED
  BY <1>3, <1>4 DEF Plan, PlanType

LEMMA MissingFor ==
    ASSUME NEW topo, TypeOK
    PROVE  missingInstancesFor(topo) \in Missing
<1> DEFINE S == (DOMAIN status.missing \cup DOMAIN status.topo) \ DOMAIN topo
           Entry == [count : 1..RemoveAfterMissingCount, age : 0..Retention]
<1>1. status.missing \in PartialFcn(Entry) /\ status.topo \in PartialFcn(Observation)
  BY DEF TypeOK, StatusType, Missing, Topology
<1>2. S \subseteq Instance
  BY <1>1, PartialFcnDef
<1>3. [count |-> 1, age |-> 0] \in Entry
  BY PlannerAssumption, OperatorAssumption
<1>4. ASSUME NEW i \in DOMAIN status.missing
      PROVE  [status.missing[i] EXCEPT !.count = CountTo(RemoveAfterMissingCount, @)] \in Entry
  <2>1. status.missing[i] \in Entry
    BY <1>1, PartialFcnValue
  <2>2. status.missing[i].count \in 0..RemoveAfterMissingCount
    BY <2>1, PlannerAssumption
  <2>3. CountTo(RemoveAfterMissingCount, status.missing[i].count) \in 1..RemoveAfterMissingCount
    BY <2>2, CountToType, PlannerAssumption
  <2> QED
    BY <2>1, <2>3
<1>5. missingInstancesFor(topo) \in [S -> Entry]
  BY <1>3, <1>4 DEF missingInstancesFor
<1> QED
  BY <1>2, <1>5, PartialFcnIntro DEF Missing

LEMMA AgedType ==
    ASSUME NEW m \in Missing
    PROVE  Aged(m) \in Missing
<1> DEFINE Entry == [count : 1..RemoveAfterMissingCount, age : 0..Retention]
<1>1. m \in PartialFcn(Entry)
  BY DEF Missing
<1>2. ASSUME NEW i \in DOMAIN m
      PROVE  [m[i] EXCEPT !.age = CountTo(Retention, @)] \in Entry
  <2>1. m[i] \in Entry
    BY <1>1, PartialFcnValue
  <2>2. m[i].age \in 0..Retention
    BY <2>1
  <2>3. CountTo(Retention, m[i].age) \in 0..Retention
    BY <2>2, CountToType, OperatorAssumption
  <2> QED
    BY <2>1, <2>3
<1>3. Aged(m) \in [DOMAIN m -> Entry]
  BY <1>2 DEF Aged
<1> QED
  BY <1>1, <1>3, PartialFcnDef, PartialFcnIntro DEF Missing

LEMMA ObservedType ==
    ASSUME NEW known, TypeOK
    PROVE  Observed(known, status.topo) \in Topology
<1>1. aurora \in PartialFcn(Observation) /\ status.topo \in PartialFcn(Observation)
  BY DEF TypeOK, StatusType, Topology
<1>2. ASSUME NEW i \in DOMAIN aurora
      PROVE  Observed(known, status.topo)[i] \in Observation
  <2>1. aurora[i] \in Observation
    BY <1>1, PartialFcnValue
  <2>2. i \in DOMAIN status.topo => status.topo[i] \in Observation
    BY <1>1, PartialFcnValue
  <2> QED
    BY <2>1, <2>2, PlannerAssumption DEF Observed, Observation
<1>3. Observed(known, status.topo) \in [DOMAIN aurora -> Observation]
  BY <1>2 DEF Observed
<1> QED
  BY <1>1, <1>3, PartialFcnDef, PartialFcnIntro DEF Topology

LEMMA ReconcilePlanType ==
    ASSUME TypeOK
    PROVE  ReconcilePlan \in PlanType
<1> DEFINE p == Plan(CachedTrusted(status), status.topo, spec.disabled,
                     status.instances, status.applied, status.missing, TRUE, {})
           w == {i \in DOMAIN status.topo : status.topo[i].role = "writer"}
           q == applyWriterFailoverFastPath(p)
           conflict == spec.zoneConflict \cap (Active(q) \cup {"spread"}) # {}
<1>1. /\ status.topo \in Topology /\ status.instances \in Records
      /\ status.applied \in Membership
      /\ CachedTrusted(status) \in BOOLEAN
  BY DEF TypeOK, StatusType, CachedTrusted
<1>2. p \in PlanType
  BY <1>1, PlanTyped
<1>3. w \subseteq Instance
  BY <1>1, PartialFcnDef DEF Topology
<1>4. [p EXCEPT !.members.writer = w] \in PlanType
  <2> HIDE DEF p, w
  <2> QED
    BY <1>2, <1>3 DEF PlanType, Membership
<1>5. q \in PlanType
  <2> HIDE DEF p
  <2> QED
    BY <1>2, <1>4 DEF applyWriterFailoverFastPath
<1>6. ReconcilePlan = [q EXCEPT !.frozen = @ \/ conflict]
  BY DEF ReconcilePlan, applyZoneAwareConflictPolicy
<1> HIDE DEF p, q, conflict
<1> QED
  BY <1>1, <1>5, <1>6 DEF PlanType

LEMMA IdleTypes == /\ DiscIdle \in DiscType /\ MonIdle \in MonType
                   /\ RecIdle \in RecType /\ NoPod \in Pod /\ NoToken \in Token
<1>1. /\ Empty \in Topology /\ Empty \in Missing /\ Empty \in Records
      /\ Empty \in Shape
  BY EmptyType DEF Topology, Missing, Records, Shape
<1>2. NoMembers \in Membership
  BY DEF NoMembers, Membership
<1>3. NoPlan \in PlanType
  BY <1>1, <1>2 DEF NoPlan, PlanType
<1> QED
  BY <1>1, <1>2, <1>3
     DEF DiscIdle, DiscType, MonIdle, MonType, RecIdle, RecType, NoPod, Pod,
         NoToken, Token

LEMMA ActiveType ==
    ASSUME NEW plan \in PlanType
    PROVE  /\ DOMAIN plan.instances \subseteq Instance
           /\ Active(plan) \subseteq Instance
           /\ \A i \in Instance : DesiredRole(plan, i) \in Role \cup {"none"}
<1>1. plan.instances \in PartialFcn(InstanceRecord)
  BY DEF PlanType, Records
<1>2. DOMAIN plan.instances \subseteq Instance
  BY <1>1, PartialFcnDef
<1>3. ASSUME NEW i \in DOMAIN plan.instances
      PROVE  plan.instances[i].role \in Role
  <2>1. plan.instances[i] \in InstanceRecord
    BY <1>1, PartialFcnValue
  <2> QED
    BY <2>1 DEF InstanceRecord
<1> QED
  BY <1>2, <1>3 DEF Active, DesiredRole

LEMMA TokenType ==
    ASSUME TypeOK
    PROVE  RestartTargets \subseteq Instance /\ writerRestartToken \in Token
<1> DEFINE I == rec.plan.instances
           shape == [i \in DOMAIN I |-> <<I[i].role, I[i].dbi, I[i].disabled>>]
<1>1. rec.plan \in PlanType /\ rec.prev \in Membership
  BY DEF TypeOK, RecType
<1>2. /\ rec.prev.writer \subseteq Instance /\ rec.plan.members.writer \subseteq Instance
      /\ I \in PartialFcn(InstanceRecord)
  BY <1>1 DEF PlanType, Membership, Records
<1>3. RestartTargets \subseteq Instance
  BY <1>1, <1>2, ActiveType DEF RestartTargets
<1>4. ASSUME NEW i \in DOMAIN I
      PROVE  <<I[i].role, I[i].dbi, I[i].disabled>> \in Role \X Dbi \X BOOLEAN
  <2>1. I[i] \in InstanceRecord
    BY <1>2, PartialFcnValue
  <2> QED
    BY <2>1 DEF InstanceRecord
<1>5. shape \in Shape
  <2>1. shape \in [DOMAIN I -> Role \X Dbi \X BOOLEAN]
    BY <1>4
  <2> QED
    BY <1>2, <2>1, PartialFcnDef, PartialFcnIntro DEF Shape
<1> QED
  BY <1>2, <1>3, <1>5 DEF writerRestartToken, Token

LEMMA ResourcesType ==
    ASSUME TypeOK, NEW made \in SUBSET Instance, NEW gone
    PROVE  WithResources(made, gone) \in PartialFcn(Token)
<1> DEFINE S == (DOMAIN deployments \cup made) \ gone
<1>1. S \subseteq Instance
  BY DEF TypeOK
<1>2. WithResources(made, gone) \in [S -> Token]
  BY IdleTypes DEF TypeOK, WithResources
<1> QED
  BY <1>1, <1>2, PartialFcnIntro

LEMMA RestartType ==
    ASSUME TypeOK, NEW S, restartInstanceDeployments(S)
    PROVE  deployments' \in PartialFcn(Token)
<1>1. deployments' \in [DOMAIN deployments -> Token]
  BY TokenType DEF TypeOK, restartInstanceDeployments
<1> QED
  BY <1>1, PartialFcnIntro DEF TypeOK

LEMMA SeenType ==
    ASSUME TypeOK, NEW i \in Instance
    PROVE  Seen(i) \in Pod
<1>1. behind \in PartialFcn([pod : Pod, gone : BOOLEAN]) /\ pods[i] \in Pod
  BY DEF TypeOK, Lagging
<1>2. i \in DOMAIN behind => behind[i] \in [pod : Pod, gone : BOOLEAN]
  BY <1>1, PartialFcnValue
<1> QED
  BY <1>1, <1>2 DEF Seen

LEMMA PodType ==
    ASSUME NEW p \in Pod, NEW w \in BOOLEAN, NEW r \in BOOLEAN,
           NEW role \in Role \cup {"none"}
    PROVE  [p EXCEPT !.writer = w, !.reader = r, !.role = role] \in Pod
  BY DEF Pod

LEMMA PatchedType ==
    ASSUME NEW S, NEW shown, NEW wanted \in S, NEW label \in S
    PROVE  Patched(shown, wanted, label) \in S
  BY DEF Patched

LEMMA WithLabelsType ==
    ASSUME TypeOK, NEW i \in Instance
    PROVE  WithAdditions(i) \in Pod /\ WithExact(i) \in Pod
<1> DEFINE W == i \in rec.plan.members.writer
           R == i \in rec.plan.members.reader
           D == DesiredRole(rec.plan, i)
           ew == Patched(Seen(i).writer, W, pods[i].writer)
           er == Patched(Seen(i).reader, R, pods[i].reader)
           e == Patched(Seen(i).role, D, pods[i].role)
           aw == IF W THEN Patched(Seen(i).writer, TRUE, pods[i].writer) ELSE pods[i].writer
           ar == IF R THEN Patched(Seen(i).reader, TRUE, pods[i].reader) ELSE pods[i].reader
           a == IF i \in Active(rec.plan) THEN e ELSE pods[i].role
<1>1. pods[i] \in Pod /\ rec.plan \in PlanType
  BY DEF TypeOK, RecType
<1>2. W \in BOOLEAN /\ R \in BOOLEAN /\ D \in Role \cup {"none"}
  BY <1>1, ActiveType
<1>3. /\ pods[i].writer \in BOOLEAN /\ pods[i].reader \in BOOLEAN
      /\ pods[i].role \in Role \cup {"none"}
  BY <1>1 DEF Pod
<1>4. WithExact(i) = [pods[i] EXCEPT !.writer = ew, !.reader = er, !.role = e]
  BY DEF WithExact
<1>5. WithAdditions(i) = [pods[i] EXCEPT !.writer = aw, !.reader = ar, !.role = a]
  BY DEF WithAdditions
<1> HIDE DEF W, R, D
<1>6. ew \in BOOLEAN /\ er \in BOOLEAN /\ e \in Role \cup {"none"}
  BY <1>2, <1>3, PatchedType, Zenon
<1>7. /\ Patched(Seen(i).writer, TRUE, pods[i].writer) \in BOOLEAN
      /\ Patched(Seen(i).reader, TRUE, pods[i].reader) \in BOOLEAN
  BY <1>3, PatchedType, Zenon
<1> HIDE DEF e
<1>8. aw \in BOOLEAN /\ ar \in BOOLEAN /\ a \in Role \cup {"none"}
  BY <1>3, <1>6, <1>7, Zenon
<1> HIDE DEF ew, er, aw, ar, a
<1>9. [pods[i] EXCEPT !.writer = ew, !.reader = er, !.role = e] \in Pod
  BY <1>1, <1>6, PodType, Zenon
<1>10. [pods[i] EXCEPT !.writer = aw, !.reader = ar, !.role = a] \in Pod
  BY <1>1, <1>8, PodType, Zenon
<1> QED
  BY <1>4, <1>5, <1>9, <1>10, Zenon

LEMMA LabelsType ==
    ASSUME TypeOK, NEW S, patchPodMembershipAdditions(S) \/ patchPodMembershipExact(S)
    PROVE  pods' \in [Instance -> Pod]
  BY WithLabelsType DEF TypeOK, patchPodMembershipAdditions, patchPodMembershipExact

-----------------------------------------------------------------------------
(* Type correctness *)

LEMMA TypeInit == Init => TypeOK
<1> SUFFICES ASSUME Init PROVE TypeOK
  OBVIOUS
<1>1. /\ Empty \in Topology /\ Empty \in Missing /\ Empty \in Records
      /\ Empty \in PartialFcn(Token) /\ Empty \in Lagging
  BY EmptyType DEF Topology, Missing, Records, Lagging
<1>2. status \in StatusType
  BY <1>1, OperatorAssumption DEF Init, Created, StatusType, NoMembers, Membership
<1>3. aurora \in Topology /\ spec \in SpecType
  BY DEF Init, Created, Topology, SpecType
<1>4. DOMAIN deployments \subseteq Instance /\ deployments \in [DOMAIN deployments -> Token]
  BY <1>1, PartialFcnDef DEF Init, Created
<1>5. pods \in [Instance -> Pod] /\ used \in [Disturbance -> Nat]
  BY IdleTypes DEF Init, Created
<1> QED
  BY <1>1, <1>2, <1>3, <1>4, <1>5, IdleTypes DEF Init, Created, TypeOK

LEMMA SpendType ==
    ASSUME TypeOK, NEW kind \in Disturbance, Spend(kind)
    PROVE  used' \in [Disturbance -> Nat]
  BY DEF TypeOK, Spend

\* The discovery job.
LEMMA DiscoveryTypes ==
    ASSUME TypeOK, Discovery \/ DiscoveryFails
    PROVE  TypeOK'
<1>0. /\ status \in StatusType /\ disc \in DiscType
      /\ used \in [Disturbance -> Nat]
      /\ status.topo \in Topology /\ status.missing \in Missing
  BY DEF TypeOK, StatusType
<1>1. ASSUME NEW failed \in BOOLEAN, NEW trusted \in BOOLEAN, NEW topo \in Topology,
             DiscoveryResult(failed, [trusted |-> trusted, topo |-> topo])
      PROVE  disc' \in DiscType
  BY <1>0, <1>1, MissingFor DEF DiscoveryResult, DiscType
<1>2. CASE DiscoverySucceeds
  <2>1. disc' \in DiscType
    BY <1>1, <1>2, ObservedType DEF DiscoverySucceeds
  <2> QED
    BY <1>2, <2>1 DEF DiscoverySucceeds, TypeOK
<1>3. CASE DiscoveryFails
  <2>1. discoveryAfterFailureThreshold \in
            {[trusted |-> FALSE, topo |-> Empty], [trusted |-> TRUE, topo |-> status.topo]}
    BY DEF discoveryAfterFailureThreshold
  <2>2. Empty \in Topology
    BY EmptyType DEF Topology
  <2>3. disc' \in DiscType
    BY <1>0, <1>1, <1>3, <2>1, <2>2 DEF DiscoveryFails
  <2>4. used' \in [Disturbance -> Nat]
    BY <1>3, SpendType DEF DiscoveryFails, Disturbance
  <2> QED
    BY <1>3, <2>3, <2>4 DEF DiscoveryFails, TypeOK
<1>4. CASE updateDiscoveryStatus
  <2>1. CountTo(DiscoveryFailureThreshold, status.failures) \in 0..DiscoveryFailureThreshold
    <3>1. status.failures \in 0..DiscoveryFailureThreshold
      BY <1>0 DEF StatusType
    <3>2. CountTo(DiscoveryFailureThreshold, status.failures) \in 1..DiscoveryFailureThreshold
      BY <3>1, CountToType, OperatorAssumption
    <3> QED
      BY <3>2
  <2>2. /\ disc.topo \in Topology /\ disc.missing \in Missing
        /\ disc.trusted \in BOOLEAN /\ disc.failed \in BOOLEAN
    BY <1>0 DEF DiscType
  <2>3. status' \in StatusType
    <3> DEFINE f == IF disc.failed THEN CountTo(DiscoveryFailureThreshold, status.failures)
                    ELSE 0
               t == IF disc.trusted THEN disc.topo ELSE status.topo
               m == IF disc.trusted THEN disc.missing ELSE status.missing
    <3>1. /\ f \in 0..DiscoveryFailureThreshold /\ t \in Topology /\ m \in Missing
      BY <1>0, <2>1, <2>2, OperatorAssumption
    <3>2. status' = [status EXCEPT !.failures = f, !.topo = t, !.missing = m,
                                   !.trusted = disc.trusted]
      BY <1>4 DEF updateDiscoveryStatus
    <3> HIDE DEF f, t, m
    <3> QED
      BY <1>0, <2>2, <3>1, <3>2 DEF StatusType
  <2> QED
    BY <1>4, <2>3, IdleTypes DEF updateDiscoveryStatus, TypeOK
<1> QED
  BY <1>2, <1>3, <1>4 DEF Discovery

\* The monitor job.
LEMMA MonitorTypes ==
    ASSUME TypeOK, Monitor \/ MonitorDisturbed
    PROVE  TypeOK'
<1>0. status \in StatusType /\ mon \in MonType /\ used \in [Disturbance -> Nat]
  BY DEF TypeOK
<1>1. ASSUME NEW cached \in BOOLEAN, NEW health, MonitorRuns(cached, health)
      PROVE  mon' \in MonType
  <2>1. /\ status.topo \in Topology /\ status.instances \in Records
        /\ status.applied \in Membership
    BY <1>0 DEF StatusType
  <2>2. MonitorPlan(cached, health) \in PlanType
    BY <2>1, PlanTyped DEF MonitorPlan
  <2>3. MonitorPlan(cached, health).instances \in Records
    BY <2>2 DEF PlanType
  <2> QED
    BY <1>1, <2>1, <2>3 DEF MonitorRuns, MonType
<1>2. CASE MonitorChecks
  <2>1. mon' \in MonType
    BY <1>1, <1>2 DEF MonitorChecks
  <2> QED
    BY <1>2, <2>1 DEF MonitorChecks, MonitorRuns, TypeOK
<1>3. CASE MonitorDisturbed
  <2>1. mon' \in MonType
    BY <1>1, <1>3 DEF MonitorDisturbed
  <2>2. used' \in [Disturbance -> Nat]
    BY <1>3, SpendType DEF MonitorDisturbed, Disturbance
  <2> QED
    BY <1>3, <2>1, <2>2 DEF MonitorDisturbed, MonitorRuns, TypeOK
<1>4. CASE updateMonitorStatus
  <2>1. status' \in StatusType
    BY <1>0, <1>4 DEF updateMonitorStatus, StatusType, MonType
  <2> QED
    BY <1>4, <2>1, IdleTypes DEF updateMonitorStatus, TypeOK
<1> QED
  BY <1>2, <1>3, <1>4 DEF Monitor

\* The reconciler.
LEMMA ReconcileTypes ==
    ASSUME TypeOK, Reconcile
    PROVE  TypeOK'
<1>0. /\ status \in StatusType /\ spec \in SpecType /\ rec \in RecType
      /\ rec.plan \in PlanType /\ rec.missing \in Missing
  BY DEF TypeOK, RecType
<1>1. CASE ReconcileStarts
  <2>1. /\ spec.gen \in Nat /\ spec.disabled \in SUBSET Instance
        /\ status.applied \in Membership /\ status.missing \in Missing
        /\ CachedTrusted(status) \in BOOLEAN
    BY <1>0 DEF SpecType, StatusType, CachedTrusted
  <2>2. removedInstanceReadyForDelete(status.missing) \in SUBSET Instance
    BY <2>1, PartialFcnDef DEF removedInstanceReadyForDelete, Missing
  <2>4. Blind \in SUBSET Instance
    BY PartialFcnDef DEF TypeOK, Lagging, Blind
  <2>3. rec' \in RecType
    BY <1>1, <2>1, <2>2, <2>4, ReconcilePlanType DEF ReconcileStarts, RecType
  <2> QED
    BY <1>1, <2>3 DEF ReconcileStarts, TypeOK
<1>2. CASE applyDesired
  <2>1. Active(rec.plan) \in SUBSET Instance
    BY <1>0, ActiveType
  <2>2. deployments' \in PartialFcn(Token)
    BY <1>2, <2>1, ResourcesType DEF applyDesired
  <2>3. Only(rec.missing, Instance \ Expired) \in Missing
    BY <1>0, OnlyType DEF Missing
  <2>4. rec' \in RecType
    BY <1>0, <1>2, <2>3 DEF applyDesired, RecType
  <2> QED
    BY <1>2, <2>2, <2>4, PartialFcnDef DEF applyDesired, TypeOK
<1>3. CASE AddLabels
  <2>1. pods' \in [Instance -> Pod]
    BY <1>3, LabelsType DEF AddLabels
  <2>2. rec' \in RecType
    BY <1>0, <1>3 DEF AddLabels, RecType, Listed
  <2> QED
    BY <1>3, <2>1, <2>2 DEF AddLabels, TypeOK
<1>4. CASE ExactLabels
  <2>1. pods' \in [Instance -> Pod]
    BY <1>4, LabelsType DEF ExactLabels
  <2>2. rec' \in RecType
    BY <1>0, <1>4 DEF ExactLabels, RecType
  <2> QED
    BY <1>4, <2>1, <2>2 DEF ExactLabels, TypeOK
<1>5. CASE handleWriterChangeConnection
  <2>1. deployments' \in PartialFcn(Token)
    BY <1>5, RestartType DEF handleWriterChangeConnection
  <2>2. rec' \in RecType
    BY <1>0, <1>5 DEF handleWriterChangeConnection, RecType
  <2> QED
    BY <1>5, <2>1, <2>2, PartialFcnDef DEF handleWriterChangeConnection, TypeOK
<1>6. CASE updateStatus
  <2> DEFINE m == IF rec.trusted THEN rec.missing ELSE status.missing
             n == IF ~ rec.plan.frozen /\ status.instances = Empty
                  THEN rec.plan.instances ELSE status.instances
             p == IF rec.plan.frozen THEN status.applied ELSE rec.plan.members
             v == status.everApplied \/ ~ rec.plan.frozen
  <2>1. m \in Missing /\ n \in Records /\ p \in Membership /\ v \in BOOLEAN
    BY <1>0 DEF StatusType, PlanType
  <2>2. rec.gen \in Nat /\ rec.trusted \in BOOLEAN
    BY <1>0 DEF RecType
  <2>3. status' = [status EXCEPT !.obsGen = rec.gen, !.missing = m, !.instances = n,
                                 !.applied = p, !.everApplied = v,
                                 !.trusted = rec.trusted]
    BY <1>6 DEF updateStatus
  <2>4. status' \in StatusType
    <3> HIDE DEF m, n, p, v
    <3> QED
      BY <1>0, <2>1, <2>2, <2>3 DEF StatusType
  <2> QED
    BY <1>6, <2>4, IdleTypes DEF updateStatus, TypeOK
<1> QED
  BY <1>1, <1>2, <1>3, <1>4, <1>5, <1>6 DEF Reconcile

\* Errors and crashes.
LEMMA FaultTypes ==
    ASSUME TypeOK, ReconcileFails \/ JobFails \/ ManagerRestarts
    PROVE  TypeOK'
<1>0. "fault" \in Disturbance /\ rec.plan \in PlanType
  BY DEF Disturbance, TypeOK, RecType
<1>1. CASE ReconcileFails
  <2>1. used' \in [Disturbance -> Nat]
    BY <1>0, <1>1, SpendType DEF ReconcileFails
  <2>2. Active(rec.plan) \in SUBSET Instance
    BY <1>0, ActiveType
  <2>3. /\ deployments' \in PartialFcn(Token)
        /\ pods' \in [Instance -> Pod]
    <3>0. deployments \in PartialFcn(Token) /\ pods \in [Instance -> Pod]
      BY PartialFcnDef DEF TypeOK
    <3>1. ASSUME NEW made \in SUBSET Active(rec.plan), NEW gone
          PROVE  WithResources(made, gone) \in PartialFcn(Token)
      BY <2>2, ResourcesType
    <3>2. CASE rec.pc = "apply"
      BY <1>1, <3>0, <3>1, <3>2 DEF ReconcileFails
    <3>3. CASE rec.pc = "add"
      BY <1>1, <3>0, <3>3, LabelsType DEF ReconcileFails
    <3>4. CASE rec.pc = "exact"
      BY <1>1, <3>0, <3>4, LabelsType DEF ReconcileFails
    <3>5. CASE rec.pc = "restart"
      BY <1>1, <3>0, <3>5, RestartType DEF ReconcileFails
    <3>6. CASE rec.pc = "write"
      BY <1>1, <3>0, <3>6 DEF ReconcileFails
    <3> QED
      BY <1>1, <3>2, <3>3, <3>4, <3>5, <3>6 DEF ReconcileFails
  <2> QED
    BY <1>1, <2>1, <2>3, PartialFcnDef, IdleTypes DEF ReconcileFails, TypeOK
<1>2. CASE JobFails
  <2>1. used' \in [Disturbance -> Nat]
    BY <1>0, <1>2, SpendType DEF JobFails
  <2> QED
    BY <1>2, <2>1, IdleTypes DEF JobFails, TypeOK
<1>3. CASE ManagerRestarts
  <2>1. used' \in [Disturbance -> Nat]
    BY <1>0, <1>3, SpendType DEF ManagerRestarts
  <2>2. behind' \in Lagging
    BY <1>3, EmptyType DEF ManagerRestarts, Lagging
  <2> QED
    BY <1>3, <2>1, <2>2, IdleTypes DEF ManagerRestarts, TypeOK
<1> QED
  BY <1>1, <1>2, <1>3

\* The environment.
Environment == \/ AuroraChanges \/ SpecChanges \/ TimePasses
               \/ \E i \in Instance : \/ PodStarts(i) \/ PodBecomesReady(i)
                                       \/ PodBecomesUnready(i) \/ PodGoes(i)
                                       \/ ResourceLost(i)
                                       \/ WatchLags(i) \/ WatchCatchesUp(i)

LEMMA EnvironmentTypes ==
    ASSUME TypeOK, Environment
    PROVE  TypeOK'
<1>0. /\ spec \in SpecType /\ pods \in [Instance -> Pod] /\ rec \in RecType
      /\ status \in StatusType /\ disc \in DiscType
      /\ {"aurora", "spec", "pod", "resource", "watch"} \subseteq Disturbance
  BY DEF TypeOK, Disturbance
<1>1. CASE AuroraChanges
  <2>1. used' \in [Disturbance -> Nat]
    BY <1>0, <1>1, SpendType DEF AuroraChanges
  <2>2. aurora' \in Topology
    BY <1>1 DEF AuroraChanges, Topology
  <2> QED
    BY <1>1, <2>1, <2>2 DEF AuroraChanges, TypeOK
<1>2. CASE SpecChanges
  <2>1. used' \in [Disturbance -> Nat]
    BY <1>0, <1>2, SpendType DEF SpecChanges
  <2>2. spec' \in SpecType
    BY <1>0, <1>2 DEF SpecChanges, SpecType
  <2> QED
    BY <1>2, <2>1, <2>2 DEF SpecChanges, TypeOK
<1>3. CASE TimePasses
  <2>1. /\ Aged(status.missing) \in Missing /\ Aged(disc.missing) \in Missing
        /\ Aged(rec.missing) \in Missing
    BY <1>0, AgedType DEF StatusType, DiscType, RecType
  <2>2. status' \in StatusType
    BY <1>0, <1>3, <2>1 DEF TimePasses, StatusType
  <2>3. disc' \in DiscType
    BY <1>0, <1>3, <2>1 DEF TimePasses, DiscType
  <2>4. rec' \in RecType
    BY <1>0, <1>3, <2>1 DEF TimePasses, RecType
  <2> QED
    BY <1>3, <2>2, <2>3, <2>4 DEF TimePasses, TypeOK
<1>4. ASSUME NEW i \in Instance, PodStarts(i)
      PROVE  TypeOK'
  <2>1. pods' \in [Instance -> Pod]
    <3>1. [NoPod EXCEPT !.up = TRUE] \in Pod
      BY IdleTypes DEF Pod
    <3> QED
      BY <1>0, <1>4, <3>1 DEF PodStarts
  <2> QED
    BY <1>4, <2>1 DEF PodStarts, TypeOK
<1>5. ASSUME NEW i \in Instance, NEW r \in BOOLEAN
      PROVE  [pods EXCEPT ![i].ready = r] \in [Instance -> Pod]
  BY <1>0 DEF Pod
<1>6. ASSUME NEW i \in Instance, PodBecomesReady(i)
      PROVE  TypeOK'
  <2>1. pods' \in [Instance -> Pod]
    BY <1>5, <1>6 DEF PodBecomesReady
  <2> QED
    BY <1>6, <2>1 DEF PodBecomesReady, TypeOK
<1>7. ASSUME NEW i \in Instance, PodBecomesUnready(i)
      PROVE  TypeOK'
  <2>1. pods' \in [Instance -> Pod]
    BY <1>5, <1>7 DEF PodBecomesUnready
  <2>2. used' \in [Disturbance -> Nat]
    BY <1>0, <1>7, SpendType DEF PodBecomesUnready
  <2> QED
    BY <1>7, <2>1, <2>2 DEF PodBecomesUnready, TypeOK
<1>8. ASSUME NEW i \in Instance, PodGoes(i)
      PROVE  TypeOK'
  <2>1. pods' \in [Instance -> Pod]
    BY <1>0, <1>8, IdleTypes DEF PodGoes
  <2>2. rec' \in RecType
    BY <1>0, <1>8 DEF PodGoes, RecType
  <2>3. used' \in [Disturbance -> Nat]
    BY <1>0, <1>8, SpendType DEF PodGoes, TypeOK
  <2>4. behind' \in Lagging
    <3> DEFINE Late == [pod : Pod, gone : BOOLEAN]
               f == [j \in DOMAIN behind |-> [behind[j] EXCEPT !.gone = @ \/ j = i]]
    <3>1. behind \in PartialFcn(Late)
      BY DEF TypeOK, Lagging
    <3>2. ASSUME NEW j \in DOMAIN behind
          PROVE  [behind[j] EXCEPT !.gone = @ \/ j = i] \in Late
      <4>1. behind[j] \in [pod : Pod, gone : BOOLEAN]
        BY <3>1, <3>2, PartialFcnValue
      <4>2. (behind[j].gone \/ j = i) \in BOOLEAN
        BY Zenon
      <4>3. ASSUME NEW g \in BOOLEAN
            PROVE  [behind[j] EXCEPT !.gone = g] \in [pod : Pod, gone : BOOLEAN]
        BY <4>1
      <4> QED
        BY <4>2, <4>3
    <3>3. f \in [DOMAIN behind -> Late]
      BY <3>2
    <3>4. f \in PartialFcn(Late)
      BY <3>1, <3>3, PartialFcnDef, PartialFcnIntro
    <3> QED
      BY <1>8, <3>4 DEF PodGoes, Lagging
  <2> QED
    BY <1>8, <2>1, <2>2, <2>3, <2>4 DEF PodGoes, TypeOK
<1>9. ASSUME NEW i \in Instance, ResourceLost(i)
      PROVE  TypeOK'
  <2>1. used' \in [Disturbance -> Nat]
    BY <1>0, <1>9, SpendType DEF ResourceLost
  <2>2. deployments' \in PartialFcn(Token)
    BY <1>9, PartialFcnDef, OnlyType DEF ResourceLost, TypeOK
  <2> QED
    BY <1>9, <2>1, <2>2, PartialFcnDef DEF ResourceLost, TypeOK
<1>10. ASSUME NEW i \in Instance, WatchLags(i)
       PROVE  TypeOK'
  <2>1. used' \in [Disturbance -> Nat]
    BY <1>0, <1>10, SpendType DEF WatchLags
  <2>2. behind' \in Lagging
    <3> DEFINE Late == [pod : Pod, gone : BOOLEAN]
               new == [pod |-> pods[i], gone |-> FALSE]
               f == [j \in DOMAIN behind \cup {i} |-> IF j = i THEN new ELSE behind[j]]
    <3>1. behind \in PartialFcn(Late) /\ new \in Late
      BY <1>0 DEF TypeOK, Lagging
    <3>2. DOMAIN behind \cup {i} \subseteq Instance
      BY <3>1, PartialFcnDef
    <3>3. \A j \in DOMAIN behind : behind[j] \in Late
      BY <3>1, PartialFcnValue
    <3>4. f \in [DOMAIN behind \cup {i} -> Late]
      BY <3>1, <3>3
    <3>5. f \in PartialFcn(Late)
      BY <3>2, <3>4, PartialFcnIntro
    <3> QED
      BY <1>10, <3>5 DEF WatchLags, Lagging
  <2> QED
    BY <1>10, <2>1, <2>2 DEF WatchLags, TypeOK
<1>11. ASSUME NEW i \in Instance, WatchCatchesUp(i)
       PROVE  TypeOK'
  <2>1. behind' \in Lagging
    BY <1>11, OnlyType DEF WatchCatchesUp, TypeOK, Lagging
  <2> QED
    BY <1>11, <2>1 DEF WatchCatchesUp, TypeOK
<1> QED
  BY <1>1, <1>2, <1>3, <1>4, <1>6, <1>7, <1>8, <1>9, <1>10, <1>11 DEF Environment

LEMMA TypeStep == TypeOK /\ [Next]_vars => TypeOK'
<1> SUFFICES ASSUME TypeOK, [Next]_vars PROVE TypeOK'
  OBVIOUS
<1>1. CASE UNCHANGED vars
  BY <1>1 DEF vars, TypeOK
<1>2. CASE Next
  BY <1>2, DiscoveryTypes, MonitorTypes, ReconcileTypes, FaultTypes, EnvironmentTypes
     DEF Next, Environment
<1> QED
  BY <1>1, <1>2

\* Every variable keeps its type, for any number of instances: in particular
\* the saturating counters of the status stay within their thresholds, and no
\* name other than that of an instance gets into memberships or resources.
THEOREM TypeCorrect == Spec => []TypeOK
<1>1. Init => TypeOK
  BY TypeInit
<1>2. TypeOK /\ [Next]_vars => TypeOK'
  BY TypeStep
<1> QED
  BY <1>1, <1>2, PTL DEF Spec
=============================================================================
