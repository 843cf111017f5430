---------------------------- MODULE SafetyProofs ----------------------------
(***************************************************************************)
(* The safety properties of Operator.  The argument is one inductive       *)
(* invariant, IInv: what a reconcile knows about the labels of the pods in *)
(* each of its phases, although pods come and go between the phases and    *)
(* the cache shows their labels late.                                      *)
(***************************************************************************)
EXTENDS OperatorProofs

Applying == {"apply", "add", "exact", "restart"}

\* A plan that is being applied is not frozen, and one that is not frozen comes
\* from a trusted discovery.
AppliedIsTrusted ==
    /\ rec.pc \in Applying => ~ rec.plan.frozen
    /\ rec.pc # "idle" /\ ~ rec.plan.frozen => rec.trusted

\* A pod that the cache does not find has no label: it has started since.  One
\* that it finds runs.
CacheFindsLabels ==
    \A i \in Instance : /\ i \in Listed => pods[i].up
                        /\ i \notin Listed => ~ pods[i].writer /\ ~ pods[i].reader

\* What the cache shows is what a pod carries, for the pods that the cache showed
\* as they were when the reconcile started: the reconcile itself is the only one
\* that changes labels, and until the second pass it has only added some.
KnownLabels ==
    rec.pc \in {"apply", "add", "exact"} =>
        \A i \in Listed \ rec.blind : \A label \in {"writer", "reader"} :
            \/ Seen(i)[label] <=> pods[i][label]
            \/ rec.pc = "exact" /\ i \in rec.plan.members[label]

\* Between the two passes of patchPodMembership, the listed pods are those that
\* run and were found at the first pass: they have the labels they are to have.
\* Another pod has no label.
ListedHaveLabels ==
    rec.pc = "exact" =>
        \A i \in Instance : \A label \in {"writer", "reader"} :
            /\ i \in rec.list => i \in Listed
            /\ i \in rec.list \ rec.blind /\ i \in rec.plan.members[label]
                  => pods[i][label]
            /\ i \notin rec.list => ~ pods[i][label]

\* After the second pass, or when there was nothing to do, no label is left over.
NoneLeftOver ==
    rec.pc \in {"restart", "write"} /\ ~ rec.plan.frozen =>
        \A i \in Instance \ rec.blind : \A label \in {"writer", "reader"} :
            pods[i][label] => i \in rec.plan.members[label]

IInv == /\ TypeOK
        /\ AtMostOneWriter
        /\ AppliedIsTrusted
        /\ CacheFindsLabels
        /\ KnownLabels
        /\ ListedHaveLabels
        /\ NoneLeftOver

-----------------------------------------------------------------------------
(* Steps that leave labels, plan and recorded membership alone *)

Quiet == /\ UNCHANGED <<pods, behind, rec.pc, rec.plan, rec.list, rec.blind, rec.trusted>>
         /\ status'.applied = status.applied

GivesUp == rec' = RecIdle /\ status' = status

PodStep(i) == \/ PodStarts(i) \/ PodBecomesReady(i) \/ PodBecomesUnready(i)
              \/ PodGoes(i) \/ WatchLags(i) \/ WatchCatchesUp(i)

LEMMA StepCases ==
    ASSUME TypeOK, [Next]_vars
    PROVE  \/ Quiet \/ Reconcile
           \/ (ReconcileFails \/ ManagerRestarts) /\ GivesUp
           \/ \E i \in Instance : PodStep(i)
<1>0. status \in StatusType /\ rec \in RecType
  BY DEF TypeOK
<1>1. CASE UNCHANGED vars
  BY <1>1 DEF vars, Quiet
<1>2. CASE Discovery \/ DiscoveryFails
  BY <1>0, <1>2 DEF Discovery, DiscoverySucceeds, updateDiscoveryStatus, DiscoveryFails,
                    Quiet, StatusType
<1>3. CASE Monitor \/ MonitorDisturbed
  BY <1>0, <1>3 DEF Monitor, MonitorChecks, MonitorDisturbed, MonitorRuns,
                    updateMonitorStatus, Quiet, StatusType
<1>4. CASE JobFails \/ AuroraChanges \/ SpecChanges
  BY <1>4 DEF JobFails, AuroraChanges, SpecChanges, Quiet
<1>5. CASE TimePasses
  BY <1>0, <1>5 DEF TimePasses, Quiet, StatusType, RecType
<1>6. CASE \E i \in Instance : ResourceLost(i)
  BY <1>6 DEF ResourceLost, Quiet
<1>7. CASE ReconcileFails \/ ManagerRestarts
  BY <1>7 DEF ReconcileFails, ManagerRestarts, GivesUp
<1> QED
  BY <1>1, <1>2, <1>3, <1>4, <1>5, <1>6, <1>7 DEF Next, PodStep

LEMMA PodStepRec ==
    ASSUME TypeOK, NEW i \in Instance, PodStep(i)
    PROVE  UNCHANGED <<status, rec.pc, rec.plan, rec.blind, rec.trusted, rec.expired>>
<1>0. rec \in RecType
  BY DEF TypeOK
<1>1. CASE PodGoes(i)
  BY <1>0, <1>1 DEF PodGoes, RecType
<1>2. CASE ~ PodGoes(i)
  BY <1>2 DEF PodStep, PodStarts, PodBecomesReady, PodBecomesUnready, WatchLags,
              WatchCatchesUp
<1> QED
  BY <1>1, <1>2

-----------------------------------------------------------------------------
(* At most one writer *)

LEMMA OneWriterInReconcilePlan ==
    ASSUME TypeOK, AtMostOneWriter
    PROVE  \A i, j \in ReconcilePlan.members.writer : i = j
<1> DEFINE p == Plan(CachedTrusted(status), status.topo, spec.disabled,
                     status.instances, status.applied, status.missing, TRUE, {})
           w == {i \in DOMAIN status.topo : status.topo[i].role = "writer"}
           q == applyWriterFailoverFastPath(p)
           conflict == spec.zoneConflict \cap (Active(q) \cup {"spread"}) # {}
<1>1. \A i, j \in status.applied.writer : i = j
  BY DEF AtMostOneWriter
<1>2. \A i, j \in p.members.writer : i = j
  <2> DEFINE plans == [i \in DOMAIN status.topo |->
                         InstancePlan(i, status.topo[i], status.instances,
                                      spec.disabled, TRUE, {})]
  <2>1. \A i, j \in PlanMembership(plans, status.applied, status.missing,
                                   spec.disabled).writer : i = j
    BY <1>1, OneWriterPlanned
  <2> QED
    BY <1>1, <2>1 DEF Plan
<1>3. p \in PlanType
  BY PlanTyped DEF TypeOK, StatusType, CachedTrusted
<1>4. q = p \/ (IsSingleton(w) /\ q = [p EXCEPT !.members.writer = w])
  <2> HIDE DEF p
  <2> QED
    BY DEF applyWriterFailoverFastPath
<1>5. \A i, j \in q.members.writer : i = j
  <2> HIDE DEF p, q, w
  <2> QED
    BY <1>2, <1>3, <1>4 DEF IsSingleton, PlanType, Membership
<1>6. q \in PlanType
  <2>1. w \subseteq Instance
    BY PartialFcnDef DEF TypeOK, StatusType, Topology
  <2> HIDE DEF p, q, w
  <2> QED
    BY <1>3, <1>4, <2>1 DEF PlanType, Membership
<1>7. ReconcilePlan = [q EXCEPT !.frozen = @ \/ conflict]
  BY DEF ReconcilePlan, applyZoneAwareConflictPolicy
<1>8. ReconcilePlan.members = q.members
  <2> HIDE DEF p, q, w, conflict
  <2> QED
    BY <1>6, <1>7 DEF PlanType
<1> QED
  BY <1>5, <1>8

LEMMA AtMostOneWriterStep ==
    ASSUME IInv, [Next]_vars
    PROVE  AtMostOneWriter'
<1>0. /\ TypeOK /\ AtMostOneWriter
      /\ status \in StatusType /\ rec \in RecType
  BY DEF IInv, TypeOK
<1>1. CASE Quiet
  BY <1>0, <1>1 DEF Quiet, AtMostOneWriter
<1>2. CASE GivesUp
  BY <1>0, <1>2 DEF GivesUp, AtMostOneWriter, RecIdle, NoPlan, NoMembers
<1>3. CASE \E i \in Instance : PodStep(i)
  BY <1>0, <1>3, PodStepRec DEF AtMostOneWriter
<1>5. CASE ReconcileStarts
  <2>1. rec'.plan.members = ReconcilePlan.members /\ status' = status
    BY <1>5 DEF ReconcileStarts
  <2> QED
    BY <1>0, <2>1, OneWriterInReconcilePlan DEF AtMostOneWriter
<1>6. CASE applyDesired \/ AddLabels \/ ExactLabels \/ handleWriterChangeConnection
  BY <1>0, <1>6 DEF applyDesired, AddLabels, ExactLabels, handleWriterChangeConnection,
                    AtMostOneWriter, RecType
<1>7. CASE updateStatus
  <2>1. status'.applied \in {status.applied, rec.plan.members}
    BY <1>0, <1>7 DEF updateStatus, StatusType
  <2>2. rec'.plan.members.writer = {}
    BY <1>7 DEF updateStatus, RecIdle, NoPlan, NoMembers
  <2> QED
    BY <1>0, <2>1, <2>2 DEF AtMostOneWriter
<1> QED
  BY <1>0, <1>1, <1>2, <1>3, <1>5, <1>6, <1>7, StepCases DEF Reconcile

-----------------------------------------------------------------------------
(* Only a trusted plan is applied *)

LEMMA FrozenUnlessTrusted ==
    ASSUME TypeOK, ~ CachedTrusted(status)
    PROVE  ReconcilePlan.frozen
<1> DEFINE p == Plan(CachedTrusted(status), status.topo, spec.disabled,
                     status.instances, status.applied, status.missing, TRUE, {})
<1>1. p.frozen /\ p = [frozen |-> TRUE, instances |-> status.instances,
                      members |-> status.applied]
  BY DEF Plan
<1>2. applyWriterFailoverFastPath(p) = p
  <2> HIDE DEF p
  <2> QED
    BY <1>1 DEF applyWriterFailoverFastPath
<1> QED
  BY <1>1, <1>2 DEF ReconcilePlan, applyZoneAwareConflictPolicy

LEMMA AppliedIsTrustedStep ==
    ASSUME IInv, [Next]_vars
    PROVE  AppliedIsTrusted'
<1>0. TypeOK /\ AppliedIsTrusted /\ rec \in RecType
  BY DEF IInv, TypeOK
<1>1. CASE Quiet
  BY <1>0, <1>1 DEF Quiet, AppliedIsTrusted
<1>2. CASE rec' = RecIdle
  BY <1>2 DEF AppliedIsTrusted, RecIdle, Applying
<1>3. CASE \E i \in Instance : PodStep(i)
  BY <1>0, <1>3, PodStepRec DEF AppliedIsTrusted
<1>4. CASE ReconcileStarts
  <2>1. /\ rec'.pc \in {"apply", "write"}
        /\ rec'.pc = "apply" => ~ ReconcilePlan.frozen
        /\ rec'.plan = ReconcilePlan
        /\ rec'.trusted = CachedTrusted(status)
    BY <1>4 DEF ReconcileStarts, shouldApplyPlan
  <2> QED
    BY <1>0, <2>1, FrozenUnlessTrusted DEF AppliedIsTrusted, Applying
<1>5. CASE applyDesired \/ AddLabels \/ ExactLabels \/ handleWriterChangeConnection
  BY <1>0, <1>5 DEF applyDesired, AddLabels, ExactLabels, handleWriterChangeConnection,
                    AppliedIsTrusted, RecType, Applying
<1> QED
  BY <1>0, <1>1, <1>2, <1>3, <1>4, <1>5, StepCases DEF Reconcile, updateStatus, GivesUp

-----------------------------------------------------------------------------
(* The labels of the pods *)

\* What a step of one pod, or of its watch, does to its labels and to what the
\* cache shows of them.  A pod that goes leaves none and is not listed any more.
Leaves(i) ==
    /\ rec'.list = rec.list \ {i}
    /\ i \notin Listed'
    /\ ~ pods'[i].writer /\ ~ pods'[i].reader

\* Otherwise the labels stay, and a pod that is newly found is shown as it is.
Stays(i) ==
    /\ rec'.list = rec.list
    /\ pods'[i].writer <=> pods[i].writer
    /\ pods'[i].reader <=> pods[i].reader
    /\ i \in Listed => i \in Listed'
    /\ i \in Listed' => pods'[i].up
    /\ \/ Seen(i)' = pods'[i]
       \/ Seen(i)' = Seen(i) /\ (i \in Listed' => i \in Listed)

LEMMA OtherPods ==
    ASSUME TypeOK, NEW i \in Instance, PodStep(i), NEW j \in Instance \ {i}
    PROVE  pods'[j] = pods[j] /\ Seen(j)' = Seen(j) /\ (j \in Listed' <=> j \in Listed)
<1>0. pods \in [Instance -> Pod] /\ behind \in PartialFcn([pod : Pod, gone : BOOLEAN])
  BY DEF TypeOK, Lagging
<1>1. pods'[j] = pods[j]
  BY <1>0 DEF PodStep, PodStarts, PodBecomesReady, PodBecomesUnready, PodGoes, WatchLags,
              WatchCatchesUp
<1>2. CASE PodGoes(i)
  <2>1. /\ DOMAIN behind' = DOMAIN behind
        /\ \A k \in DOMAIN behind : behind'[k] = [behind[k] EXCEPT !.gone = @ \/ k = i]
    BY <1>2 DEF PodGoes
  <2>2. ASSUME j \in DOMAIN behind
        PROVE  behind'[j] = behind[j]
    <3>1. behind[j] \in [pod : Pod, gone : BOOLEAN]
      BY <1>0, <2>2, PartialFcnValue
    <3>2. (behind[j].gone \/ j = i) = behind[j].gone
      BY <3>1
    <3>3. behind'[j] = [behind[j] EXCEPT !.gone = behind[j].gone]
      BY <2>1, <2>2, <3>2
    <3> QED
      BY <3>1, <3>3
  <2> QED
    BY <1>1, <2>1, <2>2 DEF Seen, SeenIsGone, Listed
<1>3. CASE WatchLags(i) \/ WatchCatchesUp(i)
  <2>1. /\ j \in DOMAIN behind' <=> j \in DOMAIN behind
        /\ j \in DOMAIN behind => behind'[j] = behind[j]
    BY <1>3 DEF WatchLags, WatchCatchesUp, Only
  <2> QED
    BY <1>1, <2>1 DEF Seen, SeenIsGone, Listed
<1>4. CASE UNCHANGED behind
  BY <1>1, <1>4 DEF Seen, SeenIsGone, Listed
<1> QED
  BY <1>2, <1>3, <1>4 DEF PodStep, PodStarts, PodBecomesReady, PodBecomesUnready

LEMMA PodStepLabels ==
    ASSUME TypeOK, CacheFindsLabels, NEW i \in Instance, PodStep(i)
    PROVE  Leaves(i) \/ Stays(i)
<1>0. /\ pods \in [Instance -> Pod] /\ pods[i] \in Pod /\ rec \in RecType
      /\ i \in Listed => pods[i].up
      /\ i \notin Listed => ~ pods[i].writer /\ ~ pods[i].reader
  BY DEF TypeOK, CacheFindsLabels
<1>1. CASE PodStarts(i)
  <2>1. /\ pods'[i] = [NoPod EXCEPT !.up = TRUE] /\ i \notin Listed
        /\ UNCHANGED <<behind, rec>>
    BY <1>0, <1>1 DEF PodStarts
  <2>2. pods'[i].up /\ ~ pods'[i].writer /\ ~ pods'[i].reader
    BY <2>1 DEF NoPod
  <2> QED
    BY <1>0, <2>1, <2>2 DEF Stays, Seen, SeenIsGone, Listed
<1>2. CASE PodBecomesReady(i) \/ PodBecomesUnready(i)
  <2>1. /\ pods'[i].up = pods[i].up /\ pods'[i].writer = pods[i].writer
        /\ pods'[i].reader = pods[i].reader
        /\ UNCHANGED <<behind, rec>>
    BY <1>0, <1>2 DEF PodBecomesReady, PodBecomesUnready, Pod
  <2> QED
    BY <1>0, <2>1 DEF Stays, Seen, SeenIsGone, Listed
<1>3. CASE PodGoes(i)
  <2>1. /\ pods'[i] = NoPod
        /\ DOMAIN behind' = DOMAIN behind
        /\ rec'.list = rec.list \ {i}
    BY <1>0, <1>3 DEF PodGoes, RecType
  <2>2. i \in DOMAIN behind => behind'[i].gone
    <3>1. behind \in PartialFcn([pod : Pod, gone : BOOLEAN])
      BY DEF TypeOK, Lagging
    <3>2. i \in DOMAIN behind => behind[i] \in [pod : Pod, gone : BOOLEAN]
      BY <3>1, PartialFcnValue
    <3>3. i \in DOMAIN behind => behind'[i] = [behind[i] EXCEPT !.gone = @ \/ i = i]
      BY <1>3 DEF PodGoes
    <3> QED
      BY <3>2, <3>3
  <2>3. ~ NoPod.up /\ ~ NoPod.writer /\ ~ NoPod.reader
    BY DEF NoPod
  <2> QED
    BY <2>1, <2>2, <2>3 DEF Leaves, Seen, SeenIsGone, Listed
<1>4. CASE WatchLags(i)
  <2>1. /\ i \notin DOMAIN behind /\ i \in DOMAIN behind'
        /\ behind'[i] = [pod |-> pods[i], gone |-> FALSE]
        /\ UNCHANGED <<pods, rec>>
    BY <1>4 DEF WatchLags
  <2> QED
    BY <1>0, <2>1 DEF Stays, Seen, SeenIsGone, Listed
<1>5. CASE WatchCatchesUp(i)
  <2>1. i \notin DOMAIN behind' /\ UNCHANGED <<pods, rec>>
    BY <1>5 DEF WatchCatchesUp, Only
  <2> QED
    BY <1>0, <2>1 DEF Stays, Seen, SeenIsGone, Listed
<1> QED
  BY <1>1, <1>2, <1>3, <1>4, <1>5 DEF PodStep

\* A merge patch writes the wanted value unless the cache already shows it.
LEMMA PatchedLabel ==
    ASSUME NEW shown \in BOOLEAN, NEW wanted \in BOOLEAN, NEW label \in BOOLEAN
    PROVE  Patched(shown, wanted, label)
               <=> IF shown <=> wanted THEN label ELSE wanted
<1>1. (shown = wanted) <=> (shown <=> wanted)
  BY Zenon
<1> QED
  BY <1>1, Zenon DEF Patched

LEMMA LabelsAreBoolean ==
    ASSUME TypeOK, NEW i \in Instance, NEW label \in {"writer", "reader"}
    PROVE  pods[i][label] \in BOOLEAN /\ Seen(i)[label] \in BOOLEAN
<1>1. pods[i] \in Pod /\ Seen(i) \in Pod
  BY SeenType DEF TypeOK
<1> QED
  BY <1>1 DEF Pod

LEMMA AdditionLabels ==
    ASSUME TypeOK, NEW S, patchPodMembershipAdditions(S), NEW i \in Instance,
           NEW label \in {"writer", "reader"}
    PROVE  /\ pods'[i].up = pods[i].up
           /\ i \notin S => pods'[i] = pods[i]
           /\ i \in S => (pods'[i][label] <=> \/ pods[i][label]
                                              \/ /\ i \in rec.plan.members[label]
                                                 /\ ~ Seen(i)[label])
<1>0. pods[i] \in Pod
  BY DEF TypeOK
<1>1. pods'[i] = IF i \in S THEN WithAdditions(i) ELSE pods[i]
  BY DEF patchPodMembershipAdditions
<1>2. WithAdditions(i).up = pods[i].up
  BY <1>0, Zenon DEF WithAdditions, Pod
<1>3. WithAdditions(i)[label] = IF i \in rec.plan.members[label]
                                THEN Patched(Seen(i)[label], TRUE, pods[i][label])
                                ELSE pods[i][label]
  <2>1. CASE label = "writer"
    BY <1>0, <2>1, Zenon DEF WithAdditions, Pod
  <2>2. CASE label = "reader"
    BY <1>0, <2>2, Zenon DEF WithAdditions, Pod
  <2> QED
    BY <2>1, <2>2
<1>4. Patched(Seen(i)[label], TRUE, pods[i][label])
          <=> IF Seen(i)[label] THEN pods[i][label] ELSE TRUE
  BY PatchedLabel, LabelsAreBoolean, Zenon
<1>5. WithAdditions(i)[label] <=> \/ pods[i][label]
                                  \/ i \in rec.plan.members[label] /\ ~ Seen(i)[label]
  BY <1>3, <1>4, Zenon
<1>6. CASE i \in S
  <2>1. pods'[i] = WithAdditions(i)
    BY <1>1, <1>6
  <2> QED
    BY <1>2, <1>5, <1>6, <2>1, Zenon
<1>7. CASE i \notin S
  BY <1>1, <1>7
<1> QED
  BY <1>6, <1>7

LEMMA ExactlyTheLabels ==
    ASSUME TypeOK, NEW S, patchPodMembershipExact(S), NEW i \in Instance,
           NEW label \in {"writer", "reader"}
    PROVE  /\ pods'[i].up = pods[i].up
           /\ i \notin S => pods'[i] = pods[i]
           /\ i \in S /\ (Seen(i)[label] <=> pods[i][label])
                 => (pods'[i][label] <=> i \in rec.plan.members[label])
<1>0. pods[i] \in Pod
  BY DEF TypeOK
<1>1. pods'[i] = IF i \in S THEN WithExact(i) ELSE pods[i]
  BY DEF patchPodMembershipExact
<1>2. WithExact(i).up = pods[i].up
  BY <1>0, Zenon DEF WithExact, Pod
<1>3. WithExact(i)[label] = Patched(Seen(i)[label], i \in rec.plan.members[label],
                                    pods[i][label])
  <2>1. CASE label = "writer"
    BY <1>0, <2>1, Zenon DEF WithExact, Pod
  <2>2. CASE label = "reader"
    BY <1>0, <2>2, Zenon DEF WithExact, Pod
  <2> QED
    BY <2>1, <2>2
<1>4. (i \in rec.plan.members[label]) \in BOOLEAN
  OBVIOUS
<1>5. WithExact(i)[label] <=> IF Seen(i)[label] <=> i \in rec.plan.members[label]
                              THEN pods[i][label] ELSE i \in rec.plan.members[label]
  BY <1>3, <1>4, PatchedLabel, LabelsAreBoolean, Zenon
<1>6. CASE i \in S
  <2>1. pods'[i] = WithExact(i)
    BY <1>1, <1>6
  <2> QED
    BY <1>2, <1>5, <1>6, <2>1, Zenon
<1>7. CASE i \notin S
  BY <1>1, <1>7
<1> QED
  BY <1>6, <1>7

\* Patching labels does not change which pods the cache finds.
LEMMA PatchKeepsListed ==
    ASSUME TypeOK, NEW S, UNCHANGED behind,
           patchPodMembershipAdditions(S) \/ patchPodMembershipExact(S)
    PROVE  Listed' = Listed
<1>1. \A i \in Instance : pods'[i].up = pods[i].up
  BY AdditionLabels, ExactlyTheLabels, Zenon
<1> QED
  BY <1>1 DEF Listed, Seen, SeenIsGone

LEMMA CacheFindsLabelsStep ==
    ASSUME IInv, [Next]_vars
    PROVE  CacheFindsLabels'
<1>0. TypeOK /\ CacheFindsLabels /\ ListedHaveLabels
  BY DEF IInv
<1>1. CASE UNCHANGED <<pods, behind>>
  BY <1>0, <1>1 DEF CacheFindsLabels, Listed, Seen, SeenIsGone
<1>2. ASSUME NEW i \in Instance, PodStep(i)
      PROVE  CacheFindsLabels'
  <2> SUFFICES ASSUME NEW j \in Instance
               PROVE  /\ j \in Listed' => pods'[j].up
                      /\ j \notin Listed' => ~ pods'[j].writer /\ ~ pods'[j].reader
    BY DEF CacheFindsLabels
  <2>1. CASE j # i
    BY <1>0, <1>2, <2>1, OtherPods DEF CacheFindsLabels
  <2>2. CASE j = i
    BY <1>0, <1>2, <2>2, PodStepLabels DEF CacheFindsLabels, Leaves, Stays
  <2> QED
    BY <2>1, <2>2
<1>3. ASSUME NEW S \in SUBSET Listed, UNCHANGED behind,
             patchPodMembershipAdditions(S) \/ patchPodMembershipExact(S)
      PROVE  CacheFindsLabels'
  <2>1. \A i \in Instance : /\ pods'[i].up = pods[i].up
                            /\ i \notin Listed => pods'[i] = pods[i]
    BY <1>0, <1>3, AdditionLabels, ExactlyTheLabels, Zenon
  <2>2. Listed' = Listed
    BY <1>0, <1>3, PatchKeepsListed
  <2> QED
    BY <1>0, <2>1, <2>2 DEF CacheFindsLabels
<1>4. ASSUME rec.pc = "exact"
      PROVE  rec.list \subseteq Listed
  BY <1>0, <1>4 DEF TypeOK, RecType, ListedHaveLabels
<1>5. CASE AddLabels
  BY <1>3, <1>5 DEF AddLabels
<1>6. CASE ExactLabels
  BY <1>3, <1>4, <1>6 DEF ExactLabels
<1>7. CASE ReconcileFails
  <2>1. UNCHANGED behind
    BY <1>7 DEF ReconcileFails
  <2>2. CASE UNCHANGED pods
    BY <1>1, <2>1, <2>2
  <2>3. CASE rec.pc = "add" /\ \E S \in SUBSET Listed : patchPodMembershipAdditions(S)
    BY <1>3, <2>1, <2>3
  <2>4. CASE rec.pc = "exact" /\ \E S \in SUBSET rec.list : patchPodMembershipExact(S)
    BY <1>3, <1>4, <2>1, <2>4
  <2> QED
    BY <1>7, <2>2, <2>3, <2>4 DEF ReconcileFails
<1>8. CASE ManagerRestarts
  <2>1. behind' = Empty /\ UNCHANGED pods
    BY <1>8 DEF ManagerRestarts
  <2>2. \A i \in Instance : i \in Listed' <=> pods[i].up
    BY <2>1 DEF Listed, Seen, SeenIsGone, Empty
  <2> QED
    BY <1>0, <2>1, <2>2 DEF CacheFindsLabels
<1>9. CASE ReconcileStarts \/ applyDesired \/ handleWriterChangeConnection \/ updateStatus
  BY <1>1, <1>9 DEF ReconcileStarts, applyDesired, handleWriterChangeConnection,
                    updateStatus
<1> QED
  BY <1>0, <1>1, <1>2, <1>5, <1>6, <1>7, <1>8, <1>9, StepCases DEF Quiet, Reconcile

LEMMA KnownLabelsStep ==
    ASSUME IInv, [Next]_vars
    PROVE  KnownLabels'
<1>0. TypeOK /\ CacheFindsLabels /\ KnownLabels /\ rec \in RecType
  BY DEF IInv, TypeOK
<1>1. CASE Quiet
  BY <1>0, <1>1 DEF Quiet, KnownLabels, Listed, Seen, SeenIsGone
<1>2. CASE rec'.pc \notin {"apply", "add", "exact"}
  BY <1>2 DEF KnownLabels
<1>3. ASSUME NEW i \in Instance, PodStep(i)
      PROVE  KnownLabels'
  <2> SUFFICES ASSUME rec'.pc \in {"apply", "add", "exact"},
                      NEW j \in Listed' \ rec'.blind, NEW label \in {"writer", "reader"}
               PROVE  \/ Seen(j)'[label] <=> pods'[j][label]
                      \/ rec'.pc = "exact" /\ j \in rec'.plan.members[label]
    BY DEF KnownLabels
  <2>1. UNCHANGED <<rec.pc, rec.plan, rec.blind>> /\ j \in Instance
    BY <1>0, <1>3, PodStepRec DEF Listed
  <2>2. j \in Listed => \/ Seen(j)[label] <=> pods[j][label]
                        \/ rec.pc = "exact" /\ j \in rec.plan.members[label]
    BY <1>0, <2>1 DEF KnownLabels
  <2>3. CASE j # i
    BY <1>0, <1>3, <2>1, <2>2, <2>3, OtherPods
  <2>4. CASE j = i
    <3>1. Stays(i)
      BY <1>0, <1>3, <2>4, PodStepLabels DEF Leaves
    <3>2. pods'[i][label] <=> pods[i][label]
      BY <3>1, Zenon DEF Stays
    <3> QED
      BY <2>1, <2>2, <2>4, <3>1, <3>2, Zenon DEF Stays
  <2> QED
    BY <2>3, <2>4
<1>4. CASE ReconcileStarts
  <2>1. rec'.blind = Blind /\ UNCHANGED <<pods, behind>>
    BY <1>4 DEF ReconcileStarts
  <2>2. ASSUME NEW j \in Listed \ Blind, NEW label \in {"writer", "reader"}
        PROVE  Seen(j)[label] = pods[j][label]
    BY <2>2 DEF Listed, Blind, Seen, SeenIsGone
  <2> QED
    BY <2>1, <2>2, Zenon DEF KnownLabels, Listed, Seen, SeenIsGone
<1>5. CASE applyDesired
  <2>1. /\ rec.pc = "apply" /\ UNCHANGED <<pods, behind, rec.blind>>
        /\ rec'.pc = "add"
    BY <1>0, <1>5 DEF applyDesired, RecType
  <2> QED
    BY <1>0, <2>1, Zenon DEF KnownLabels, Listed, Seen, SeenIsGone
<1>6. CASE AddLabels
  <2>1. /\ rec.pc = "add" /\ UNCHANGED <<behind, rec.plan, rec.blind>>
        /\ rec'.pc = "exact" /\ patchPodMembershipAdditions(Listed)
    BY <1>0, <1>6 DEF AddLabels, RecType
  <2>2. Listed' = Listed
    BY <1>0, <2>1, PatchKeepsListed
  <2>3. ASSUME NEW j \in Listed \ rec.blind, NEW label \in {"writer", "reader"},
               j \notin rec.plan.members[label]
        PROVE  Seen(j)'[label] <=> pods'[j][label]
    <3>1. (Seen(j)[label] <=> pods[j][label]) /\ j \in Instance
      BY <1>0, <2>1, <2>3, Zenon DEF KnownLabels, Listed
    <3>2. pods'[j][label] <=> pods[j][label]
      BY <1>0, <2>1, <2>3, <3>1, AdditionLabels, Zenon
    <3>3. Seen(j)' = Seen(j) \/ Seen(j)' = pods'[j]
      BY <2>1 DEF Seen
    <3> QED
      BY <3>1, <3>2, <3>3, Zenon
  <2> QED
    BY <2>1, <2>2, <2>3, Zenon DEF KnownLabels
<1>7. CASE ExactLabels \/ handleWriterChangeConnection \/ updateStatus \/ GivesUp
  <2>1. ExactLabels => rec'.pc = "restart"
    BY <1>0 DEF ExactLabels, RecType
  <2>2. handleWriterChangeConnection => rec'.pc = "write"
    BY <1>0 DEF handleWriterChangeConnection, RecType
  <2>3. updateStatus \/ GivesUp => rec'.pc = "idle"
    BY DEF updateStatus, GivesUp, RecIdle
  <2> QED
    BY <1>2, <1>7, <2>1, <2>2, <2>3
<1> QED
  BY <1>0, <1>1, <1>3, <1>4, <1>5, <1>6, <1>7, StepCases DEF Reconcile

LEMMA ListedHaveLabelsStep ==
    ASSUME IInv, [Next]_vars
    PROVE  ListedHaveLabels'
<1>0. /\ TypeOK /\ CacheFindsLabels /\ KnownLabels /\ ListedHaveLabels
      /\ rec \in RecType
  BY DEF IInv, TypeOK
<1>1. CASE Quiet
  BY <1>0, <1>1 DEF Quiet, ListedHaveLabels, Listed, Seen, SeenIsGone
<1>2. CASE rec'.pc # "exact"
  BY <1>2 DEF ListedHaveLabels
<1>3. ASSUME NEW i \in Instance, PodStep(i)
      PROVE  ListedHaveLabels'
  <2> SUFFICES ASSUME rec'.pc = "exact", NEW j \in Instance,
                      NEW label \in {"writer", "reader"}
               PROVE  /\ j \in rec'.list => j \in Listed'
                      /\ j \in rec'.list \ rec'.blind /\ j \in rec'.plan.members[label]
                            => pods'[j][label]
                      /\ j \notin rec'.list => ~ pods'[j][label]
    BY DEF ListedHaveLabels
  <2>1. UNCHANGED <<rec.pc, rec.plan, rec.blind>>
    BY <1>0, <1>3, PodStepRec
  <2>2. /\ j \in rec.list => j \in Listed
        /\ j \in rec.list \ rec.blind /\ j \in rec.plan.members[label] => pods[j][label]
        /\ j \notin rec.list => ~ pods[j][label]
    BY <1>0, <2>1 DEF ListedHaveLabels
  <2>3. Leaves(i) \/ Stays(i)
    BY <1>0, <1>3, PodStepLabels
  <2>4. CASE j # i
    <3>1. j \in rec'.list <=> j \in rec.list
      BY <2>3, <2>4 DEF Leaves, Stays
    <3> QED
      BY <1>0, <1>3, <2>1, <2>2, <2>4, <3>1, OtherPods
  <2>5. CASE j = i
    <3>1. Stays(i) => (pods'[i][label] <=> pods[i][label])
      BY Zenon DEF Stays
    <3>2. Leaves(i) => ~ pods'[i][label] /\ i \notin rec'.list
      BY Zenon DEF Leaves
    <3>3. Stays(i) => rec'.list = rec.list /\ (i \in Listed => i \in Listed')
      BY DEF Stays
    <3> QED
      BY <2>1, <2>2, <2>3, <2>5, <3>1, <3>2, <3>3, Zenon
  <2> QED
    BY <2>4, <2>5
<1>4. CASE AddLabels
  <2>1. /\ rec.pc = "add" /\ UNCHANGED <<behind, rec.plan, rec.blind>>
        /\ rec'.list = Listed /\ patchPodMembershipAdditions(Listed)
    BY <1>0, <1>4 DEF AddLabels, RecType
  <2>2. Listed' = Listed
    BY <1>0, <2>1, PatchKeepsListed
  <2>3. ASSUME NEW j \in Instance, NEW label \in {"writer", "reader"}
        PROVE  /\ j \in Listed \ rec.blind /\ j \in rec.plan.members[label]
                     => pods'[j][label]
               /\ j \notin Listed => ~ pods'[j][label]
    <3>1. /\ j \notin Listed => pods'[j] = pods[j]
          /\ j \in Listed => (pods'[j][label] <=> \/ pods[j][label]
                                                  \/ /\ j \in rec.plan.members[label]
                                                     /\ ~ Seen(j)[label])
      BY <1>0, <2>1, AdditionLabels, Zenon
    <3>2. j \in Listed \ rec.blind => (Seen(j)[label] <=> pods[j][label])
      BY <1>0, <2>1, Zenon DEF KnownLabels
    <3>3. j \notin Listed => ~ pods[j][label]
      BY <1>0, Zenon DEF CacheFindsLabels
    <3> QED
      BY <3>1, <3>2, <3>3, Zenon
  <2> QED
    BY <2>1, <2>2, <2>3, Zenon DEF ListedHaveLabels
<1>5. CASE Reconcile /\ ~ AddLabels
  <2>1. ReconcileStarts => rec'.pc \in {"apply", "write"}
    BY DEF ReconcileStarts
  <2>2. applyDesired => rec'.pc = "add"
    BY <1>0 DEF applyDesired, RecType
  <2>3. ExactLabels => rec'.pc = "restart"
    BY <1>0 DEF ExactLabels, RecType
  <2>4. handleWriterChangeConnection => rec'.pc = "write"
    BY <1>0 DEF handleWriterChangeConnection, RecType
  <2>5. updateStatus => rec'.pc = "idle"
    BY DEF updateStatus, RecIdle
  <2> QED
    BY <1>2, <1>5, <2>1, <2>2, <2>3, <2>4, <2>5 DEF Reconcile
<1>6. CASE GivesUp
  BY <1>2, <1>6 DEF GivesUp, RecIdle
<1> QED
  BY <1>0, <1>1, <1>3, <1>4, <1>5, <1>6, StepCases

\* A reconcile that finds nothing to apply has seen no label that is too much, and
\* a pod that it has not seen has none.
LEMMA NothingToApply ==
    ASSUME TypeOK, CacheFindsLabels, ReconcileStarts, rec'.pc = "write",
           ~ rec'.plan.frozen, NEW i \in Instance \ rec'.blind,
           NEW label \in {"writer", "reader"}, pods[i][label]
    PROVE  i \in rec'.plan.members[label]
<1>1. /\ ~ shouldApplyPlan(ReconcilePlan) /\ rec'.plan = ReconcilePlan
      /\ rec'.blind = Blind
  BY DEF ReconcileStarts
<1>2. i \in Listed
  BY Zenon DEF CacheFindsLabels
<1>3. Seen(i).up
  BY <1>2 DEF Listed
<1>4. membershipLabelsExact(i, ReconcilePlan)
  BY <1>1, <1>3, Zenon DEF shouldApplyPlan, cachedPlanNeedsApply,
                           podMembershipLabelDrifted
<1>5. Seen(i)[label] = pods[i][label]
  BY <1>1, <1>2 DEF Listed, Blind, Seen, SeenIsGone
<1> QED
  BY <1>1, <1>4, <1>5, Zenon DEF membershipLabelsExact

LEMMA NoneLeftOverStep ==
    ASSUME IInv, [Next]_vars
    PROVE  NoneLeftOver'
<1>0. /\ TypeOK /\ CacheFindsLabels /\ KnownLabels /\ ListedHaveLabels /\ NoneLeftOver
      /\ rec \in RecType
  BY DEF IInv, TypeOK
<1>1. CASE Quiet
  BY <1>0, <1>1 DEF Quiet, NoneLeftOver
<1>2. CASE rec'.pc \notin {"restart", "write"}
  BY <1>2 DEF NoneLeftOver
<1>3. ASSUME NEW i \in Instance, PodStep(i)
      PROVE  NoneLeftOver'
  <2>1. UNCHANGED <<rec.pc, rec.plan, rec.blind>>
    BY <1>0, <1>3, PodStepRec
  <2>2. \A j \in Instance : \A label \in {"writer", "reader"} :
            pods'[j][label] => pods[j][label]
    BY <1>0, <1>3, OtherPods, PodStepLabels, Zenon DEF Leaves, Stays
  <2> QED
    BY <1>0, <2>1, <2>2, Zenon DEF NoneLeftOver
<1>4. CASE ReconcileStarts
  <2>1. UNCHANGED pods /\ rec'.pc \in {"apply", "write"}
    BY <1>4 DEF ReconcileStarts
  <2> QED
    BY <1>0, <1>4, <2>1, NothingToApply, Zenon DEF NoneLeftOver
<1>5. CASE ExactLabels
  <2>1. /\ rec.pc = "exact" /\ UNCHANGED <<rec.plan, rec.blind>>
        /\ patchPodMembershipExact(rec.list)
    BY <1>0, <1>5 DEF ExactLabels, RecType
  <2>2. ASSUME NEW i \in Instance \ rec.blind, NEW label \in {"writer", "reader"},
               pods'[i][label], i \notin rec.plan.members[label]
        PROVE  FALSE
    <3>1. CASE i \in rec.list
      <4>1. i \in Listed
        BY <1>0, <2>1, <3>1, Zenon DEF ListedHaveLabels
      <4>2. Seen(i)[label] <=> pods[i][label]
        BY <1>0, <2>1, <2>2, <4>1, Zenon DEF KnownLabels
      <4>3. pods'[i][label] <=> i \in rec.plan.members[label]
        BY <1>0, <2>1, <3>1, <4>2, ExactlyTheLabels, Zenon
      <4> QED
        BY <2>2, <4>3, Zenon
    <3>2. CASE i \notin rec.list
      BY <1>0, <2>1, <2>2, <3>2, ExactlyTheLabels, Zenon DEF ListedHaveLabels
    <3> QED
      BY <3>1, <3>2
  <2> QED
    BY <2>1, <2>2, Zenon DEF NoneLeftOver
<1>6. CASE handleWriterChangeConnection
  <2>1. /\ rec.pc = "restart" /\ rec'.pc = "write"
        /\ UNCHANGED <<pods, rec.plan, rec.blind>>
    BY <1>0, <1>6 DEF handleWriterChangeConnection, RecType
  <2> QED
    BY <1>0, <2>1 DEF NoneLeftOver
<1>7. CASE applyDesired \/ AddLabels \/ updateStatus \/ GivesUp
  <2>1. applyDesired => rec'.pc = "add"
    BY <1>0 DEF applyDesired, RecType
  <2>2. AddLabels => rec'.pc = "exact"
    BY <1>0 DEF AddLabels, RecType
  <2>3. updateStatus \/ GivesUp => rec'.pc = "idle"
    BY DEF updateStatus, GivesUp, RecIdle
  <2> QED
    BY <1>2, <1>7, <2>1, <2>2, <2>3
<1> QED
  BY <1>0, <1>1, <1>3, <1>4, <1>5, <1>6, <1>7, StepCases DEF Reconcile

-----------------------------------------------------------------------------
(* Members keep their resources *)

\* While a plan waits to be applied, it and what is due for deletion stay as
\* they are.
LEMMA WaitingPlanStays ==
    ASSUME TypeOK, [Next]_vars, rec'.pc = "apply"
    PROVE  ReconcileStarts \/ UNCHANGED <<rec.pc, rec.plan, rec.expired>>
<1>0. rec \in RecType
  BY DEF TypeOK
<1>1. CASE UNCHANGED vars
  BY <1>1 DEF vars
<1>2. CASE Discovery \/ DiscoveryFails
  BY <1>2 DEF Discovery, DiscoverySucceeds, updateDiscoveryStatus, DiscoveryFails
<1>3. CASE Monitor \/ MonitorDisturbed
  BY <1>3 DEF Monitor, MonitorChecks, MonitorDisturbed, MonitorRuns, updateMonitorStatus
<1>4. CASE JobFails \/ AuroraChanges \/ SpecChanges
  BY <1>4 DEF JobFails, AuroraChanges, SpecChanges
<1>5. CASE TimePasses
  BY <1>0, <1>5 DEF TimePasses, RecType
<1>6. CASE \E i \in Instance : ResourceLost(i)
  BY <1>6 DEF ResourceLost
<1>7. CASE ReconcileFails \/ ManagerRestarts \/ updateStatus
  BY <1>7 DEF ReconcileFails, ManagerRestarts, updateStatus, RecIdle
<1>8. CASE \E i \in Instance : PodStep(i)
  BY <1>8, PodStepRec
<1>9. CASE applyDesired \/ AddLabels \/ ExactLabels \/ handleWriterChangeConnection
  BY <1>0, <1>9 DEF applyDesired, AddLabels, ExactLabels, handleWriterChangeConnection,
                    RecType
<1> QED
  BY <1>1, <1>2, <1>3, <1>4, <1>5, <1>6, <1>7, <1>8, <1>9
  DEF Next, Reconcile, PodStep

\* A plan that is not frozen plans for the instances of the topology, and its
\* members are wanted, also the writer that the fast path has chosen.
LEMMA PlannedMembersAreWanted ==
    ASSUME TypeOK, ~ ReconcilePlan.frozen
    PROVE  /\ \A i \in DOMAIN ReconcilePlan.instances :
                  ReconcilePlan.instances[i].disabled => i \in spec.disabled
           /\ \A i \in ReconcilePlan.members.writer \cup ReconcilePlan.members.reader :
                  /\ i \notin spec.disabled
                  /\ \/ i \in DOMAIN ReconcilePlan.instances
                     \/ /\ i \in DOMAIN status.missing
                        /\ status.missing[i].count < RemoveAfterMissingCount
<1> DEFINE p == Plan(CachedTrusted(status), status.topo, spec.disabled,
                     status.instances, status.applied, status.missing, TRUE, {})
           w == {i \in DOMAIN status.topo : status.topo[i].role = "writer"}
           q == applyWriterFailoverFastPath(p)
           conflict == spec.zoneConflict \cap (Active(q) \cup {"spread"}) # {}
           plans == [i \in DOMAIN status.topo |->
                       InstancePlan(i, status.topo[i], status.instances,
                                    spec.disabled, TRUE, {})]
           members == PlanMembership(plans, status.applied, status.missing, spec.disabled)
           Wanted(i) == /\ i \notin spec.disabled
                        /\ \/ i \in DOMAIN status.topo
                           \/ /\ i \in DOMAIN status.missing
                              /\ status.missing[i].count < RemoveAfterMissingCount
<1>1. CachedTrusted(status)
  BY FrozenUnlessTrusted
<1>2. p = [frozen |-> FALSE, instances |-> plans, members |-> members]
  BY <1>1 DEF Plan
<1>3. \A i \in DOMAIN status.topo :
          /\ plans[i].disabled <=> i \in spec.disabled
          /\ plans[i].disabled => ~ plans[i].healthy
  <2> SUFFICES ASSUME NEW i \in DOMAIN status.topo
               PROVE  /\ plans[i].disabled <=> i \in spec.disabled
                      /\ plans[i].disabled => ~ plans[i].healthy
    OBVIOUS
  <2>1. status.topo[i] \in Observation
    BY PartialFcnValue DEF TypeOK, StatusType, Topology
  <2>2. plans[i] = InstancePlan(i, status.topo[i], status.instances,
                                spec.disabled, TRUE, {})
    OBVIOUS
  <2> HIDE DEF plans
  <2> QED
    BY <2>1, <2>2, DisabledAsAsked
<1>4. \A i \in members.writer \cup members.reader : Wanted(i)
  <2>1. DOMAIN plans = DOMAIN status.topo
    OBVIOUS
  <2>2. \A i \in DOMAIN plans : plans[i].healthy => i \notin spec.disabled
    BY <1>3, <2>1
  <2>3. members = PlanMembership(plans, status.applied, status.missing, spec.disabled)
    OBVIOUS
  <2> HIDE DEF plans, members
  <2> QED
    BY <2>1, <2>2, <2>3, MembersAreWanted
<1>5. DOMAIN plans = DOMAIN status.topo
  OBVIOUS
<1>6. members \in Membership /\ plans \in Records
  <2>1. p \in PlanType
    BY PlanTyped DEF TypeOK, StatusType, CachedTrusted
  <2> HIDE DEF p, plans, members
  <2> QED
    BY <1>2, <2>1 DEF PlanType
<1>7. \/ q = p
      \/ q = [p EXCEPT !.members.writer = w] /\ w \cap spec.disabled = {}
  <2> HIDE DEF p
  <2> QED
    BY DEF applyWriterFailoverFastPath
<1>8. ReconcilePlan = [q EXCEPT !.frozen = @ \/ conflict]
  BY DEF ReconcilePlan, applyZoneAwareConflictPolicy
<1>9. w \subseteq DOMAIN status.topo
  OBVIOUS
<1>10. /\ q.instances = plans
       /\ \A i \in q.members.writer \cup q.members.reader : Wanted(i)
       /\ DOMAIN q = {"frozen", "instances", "members"}
  <2> HIDE DEF p, q, w, plans, members
  <2>1. CASE q = p
    BY <1>2, <1>4, <2>1
  <2>2. CASE q = [p EXCEPT !.members.writer = w] /\ w \cap spec.disabled = {}
    <3>1. /\ q.instances = plans /\ q.members.writer = w
          /\ q.members.reader = members.reader
          /\ DOMAIN q = {"frozen", "instances", "members"}
      BY <1>2, <1>6, <2>2 DEF Membership
    <3> QED
      BY <1>4, <1>9, <2>2, <3>1
  <2> QED
    BY <1>7, <2>1, <2>2
<1>11. ReconcilePlan.instances = plans /\ ReconcilePlan.members = q.members
  <2> HIDE DEF p, q, w, conflict, plans, members
  <2> QED
    BY <1>8, <1>10
<1> HIDE DEF p, q, w, plans, members
<1> QED
  BY <1>3, <1>5, <1>10, <1>11

LEMMA MembersKeepResourcesStep ==
    ASSUME TypeOK, MembersKeepResources, [Next]_vars
    PROVE  MembersKeepResources'
<1> SUFFICES ASSUME rec'.pc = "apply"
             PROVE  (Doomed \cap (rec.plan.members.writer \cup rec.plan.members.reader) = {})'
  BY DEF MembersKeepResources
<1>1. CASE UNCHANGED <<rec.pc, rec.plan, rec.expired>>
  BY <1>1 DEF MembersKeepResources, Doomed, Expired
<1>2. CASE ReconcileStarts
  <2>1. /\ rec'.plan = ReconcilePlan
        /\ ~ ReconcilePlan.frozen
        /\ rec'.expired = removedInstanceReadyForDelete(status.missing)
    BY <1>2 DEF ReconcileStarts, shouldApplyPlan
  <2>2. \A i \in DOMAIN status.missing : status.missing[i].count \in Nat
    <3> SUFFICES ASSUME NEW i \in DOMAIN status.missing
                 PROVE  status.missing[i].count \in Nat
      OBVIOUS
    <3>1. status.missing[i] \in [count : 1..RemoveAfterMissingCount, age : 0..Retention]
      BY PartialFcnValue DEF TypeOK, StatusType, Missing
    <3> QED
      BY <3>1
  <2>3. RemoveAfterMissingCount \in Nat
    BY PlannerAssumption
  <2> SUFFICES ASSUME NEW i \in rec'.plan.members.writer \cup rec'.plan.members.reader,
                      i \in Doomed'
               PROVE  FALSE
    OBVIOUS
  <2>4. i \notin spec.disabled
    BY <2>1, PlannedMembersAreWanted
  <2>5. i \in Expired'
    BY <2>1, <2>4, PlannedMembersAreWanted DEF Doomed
  <2>6. i \in removedInstanceReadyForDelete(status.missing) /\ i \notin DOMAIN ReconcilePlan.instances
    BY <2>1, <2>5 DEF Expired
  <2>7. i \in DOMAIN status.missing /\ status.missing[i].count < RemoveAfterMissingCount
    BY <2>1, <2>6, PlannedMembersAreWanted
  <2> QED
    BY <2>2, <2>3, <2>6, <2>7 DEF removedInstanceReadyForDelete
<1> QED
  BY <1>1, <1>2, WaitingPlanStays

-----------------------------------------------------------------------------
(* The theorems *)

LEMMA Initially ==
    ASSUME Init
    PROVE  IInv
<1>1. TypeOK
  BY TypeInit
<1>2. rec = RecIdle /\ status.applied = NoMembers
  BY DEF Init, Created
<1>3. AtMostOneWriter
  BY <1>2 DEF AtMostOneWriter, RecIdle, NoPlan, NoMembers
<1>4. AppliedIsTrusted /\ KnownLabels /\ ListedHaveLabels /\ NoneLeftOver
  BY <1>2 DEF AppliedIsTrusted, KnownLabels, ListedHaveLabels, NoneLeftOver, RecIdle,
              Applying
<1>5. CacheFindsLabels
  <2>1. behind = Empty /\ pods = [i \in Instance |-> NoPod]
    BY DEF Init, Created
  <2> QED
    BY <2>1 DEF CacheFindsLabels, Listed, Seen, SeenIsGone, Empty, NoPod
<1> QED
  BY <1>1, <1>3, <1>4, <1>5 DEF IInv

\* IInv is inductive.
LEMMA Inductive ==
    ASSUME IInv, [Next]_vars
    PROVE  IInv'
<1>1. TypeOK'
  BY TypeStep DEF IInv
<1> QED
  BY <1>1, AtMostOneWriterStep, AppliedIsTrustedStep, CacheFindsLabelsStep,
     KnownLabelsStep, ListedHaveLabelsStep, NoneLeftOverStep DEF IInv

LEMMA Invariance == Spec => []IInv
  BY Initially, Inductive, PTL DEF Spec

\* In no reachable state does the recorded membership, or the one the reconciler
\* applies, give the Writer Service two members: for any number of instances,
\* failovers, stale snapshots, errors and crashes.
THEOREM WriterIsUnique == Spec => []AtMostOneWriter
<1>1. IInv => AtMostOneWriter
  BY DEF IInv
<1> QED
  BY <1>1, Invariance, PTL

\* When updateStatus records a membership as applied, no pod outside it still has
\* its label, whatever failed or crashed before and however late the cache is,
\* except a pod that the cache showed wrongly when the reconcile started.
THEOREM RecordedIsReal == Spec => []RecordedMembershipIsReal
<1>1. IInv => RecordedMembershipIsReal
  BY Zenon DEF IInv, NoneLeftOver, RecordedMembershipIsReal, Labelled
<1> QED
  BY <1>1, Invariance, PTL

\* No plan, whatever snapshot it was made from, deletes the resources of an
\* instance that it keeps in a Service.
THEOREM MembersKeepTheirResources == Spec => []MembersKeepResources
<1>1. Init => MembersKeepResources
  <2>1. Init => rec = RecIdle
    BY DEF Init, Created
  <2>2. RecIdle.pc # "apply"
    BY DEF RecIdle
  <2> QED
    BY <2>1, <2>2 DEF MembersKeepResources
<1>2. TypeOK /\ MembersKeepResources /\ [Next]_vars => MembersKeepResources'
  BY MembersKeepResourcesStep
<1>3. IInv => TypeOK
  BY DEF IInv
<1> QED
  BY <1>1, <1>2, <1>3, Invariance, PTL DEF Spec

-----------------------------------------------------------------------------
(* What a step may change *)

SameLabels(i) ==
    /\ pods'[i].writer = pods[i].writer
    /\ pods'[i].reader = pods[i].reader
    /\ pods'[i].role = pods[i].role

\* A reconcile creates and deletes resources, and sets tokens, when it applies
\* the plan and when it restarts only.  What somebody else deletes leaves rec alone.
LEMMA ResourceSteps ==
    ASSUME TypeOK, [Next]_vars, deployments' # deployments, rec' # rec
    PROVE  rec.pc \in {"apply", "restart"}
<1>1. CASE ReconcileFails \/ ManagerRestarts
  BY <1>1 DEF ReconcileFails, ManagerRestarts
<1>2. CASE Reconcile
  BY <1>2 DEF Reconcile, ReconcileStarts, applyDesired, AddLabels, ExactLabels,
              handleWriterChangeConnection, updateStatus
<1>3. CASE Discovery \/ DiscoveryFails \/ Monitor \/ MonitorDisturbed \/ JobFails
  BY <1>3 DEF Discovery, DiscoverySucceeds, updateDiscoveryStatus, DiscoveryFails,
              Monitor, MonitorChecks, MonitorDisturbed, MonitorRuns,
              updateMonitorStatus, JobFails
<1>4. CASE AuroraChanges \/ SpecChanges \/ TimePasses
  BY <1>4 DEF AuroraChanges, SpecChanges, TimePasses
<1>5. CASE \E i \in Instance : ResourceLost(i) \/ PodStep(i)
  BY <1>5 DEF ResourceLost, PodStep, PodStarts, PodBecomesReady, PodBecomesUnready,
              PodGoes, WatchLags, WatchCatchesUp
<1> QED
  BY <1>1, <1>2, <1>3, <1>4, <1>5 DEF Next, PodStep, vars

\* The membership of record is changed by updateStatus only, from a plan that is
\* not frozen.
LEMMA AppliedSteps ==
    ASSUME TypeOK, [Next]_vars, status'.applied # status.applied
    PROVE  rec.pc = "write" /\ ~ rec.plan.frozen
<1>0. status \in StatusType
  BY DEF TypeOK
<1>1. updateStatus
  BY StepCases, PodStepRec DEF Quiet, GivesUp, Reconcile, ReconcileStarts, applyDesired,
                               AddLabels, ExactLabels, handleWriterChangeConnection
<1>2. rec.pc = "write"
  BY <1>1 DEF updateStatus
<1>3. status'.applied = IF rec.plan.frozen THEN status.applied ELSE rec.plan.members
  BY <1>0, <1>1 DEF updateStatus, StatusType
<1> QED
  BY <1>2, <1>3

\* The labels of a running pod are changed by the two passes of
\* patchPodMembership only, and the first pass takes none away.
LEMMA LabelSteps ==
    ASSUME TypeOK, [Next]_vars, NEW i \in Instance, pods[i].up, pods'[i].up
    PROVE  \/ SameLabels(i)
           \/ rec.pc = "exact"
           \/ /\ rec.pc = "add"
              /\ pods[i].writer => pods'[i].writer
              /\ pods[i].reader => pods'[i].reader
<1>0. pods \in [Instance -> Pod] /\ pods[i] \in Pod
  BY DEF TypeOK
<1>1. CASE UNCHANGED pods
  BY <1>1 DEF SameLabels
<1>2. ASSUME NEW S, patchPodMembershipAdditions(S)
      PROVE  (pods[i].writer => pods'[i].writer) /\ (pods[i].reader => pods'[i].reader)
  <2>1. ASSUME NEW label \in {"writer", "reader"}, pods[i][label]
        PROVE  pods'[i][label]
    BY <1>2, <2>1, AdditionLabels, Zenon
  <2> QED
    BY <2>1, Zenon
<1>3. CASE AddLabels \/ ExactLabels
  BY <1>2, <1>3 DEF AddLabels, ExactLabels
<1>4. CASE Reconcile /\ ~ AddLabels /\ ~ ExactLabels
  BY <1>1, <1>4 DEF Reconcile, ReconcileStarts, applyDesired,
                    handleWriterChangeConnection, updateStatus
<1>5. CASE ReconcileFails \/ ManagerRestarts
  BY <1>1, <1>2, <1>5 DEF ReconcileFails, ManagerRestarts
<1>6. ASSUME NEW j \in Instance, PodStep(j)
      PROVE  SameLabels(i)
  BY <1>0, <1>6 DEF PodStep, PodStarts, PodBecomesReady, PodBecomesUnready, PodGoes,
                    WatchLags, WatchCatchesUp, NoPod, Pod, SameLabels
<1> QED
  BY <1>1, <1>3, <1>4, <1>5, <1>6, StepCases DEF Quiet

-----------------------------------------------------------------------------
(* Action properties *)

\* A label is taken away only when every running pod of the new membership that
\* the reconciler has listed carries it, in every step of every behaviour, except
\* one that the cache showed wrongly when the reconcile started.
THEOREM MakesBeforeBreaking == Spec => MakeBeforeBreak
<1> DEFINE A == \A label \in {"writer", "reader"}, i \in Instance :
          pods[i].up /\ pods'[i].up /\ pods[i][label] /\ ~ pods'[i][label]
          => \A j \in rec.plan.members[label] \ rec.blind :
                pods[j].up /\ (rec.pc = "exact" => j \in rec.list)
                => pods[j][label]
<1>1. ASSUME IInv, [Next]_vars PROVE A
  <2>0. TypeOK /\ ListedHaveLabels /\ rec.plan \in PlanType
    BY <1>1 DEF IInv, TypeOK, RecType
  <2> SUFFICES ASSUME NEW label \in {"writer", "reader"}, NEW i \in Instance,
                      pods[i].up, pods'[i].up, pods[i][label], ~ pods'[i][label],
                      NEW j \in rec.plan.members[label] \ rec.blind,
                      rec.pc = "exact" => j \in rec.list
               PROVE  pods[j][label]
    BY Zenon
  <2>1. rec.pc = "exact"
    BY <1>1, <2>0, LabelSteps, Zenon DEF SameLabels
  <2>2. j \in Instance
    BY <2>0 DEF PlanType, Membership
  <2> QED
    BY <2>0, <2>1, <2>2, Zenon DEF ListedHaveLabels
<1>2. IInv /\ [Next]_vars => [A]_vars
  BY <1>1
<1> QED
  BY <1>2, Invariance, PTL DEF Spec, MakeBeforeBreak

\* A reconcile from an untrusted discovery, or one the zone policy froze, moves
\* no traffic: it changes labels and the membership of record, creates and deletes
\* resources and sets restart tokens only under a trusted plan that is not frozen.
THEOREM FreezeIsSafe == Spec => FrozenChangesNothing
<1> DEFINE Changed ==
          \/ \E i \in Instance : /\ pods[i].up /\ pods'[i].up
                                 /\ \E l \in {"writer", "reader", "role"} :
                                        pods'[i][l] # pods[i][l]
          \/ deployments' # deployments /\ rec' # rec
          \/ status'.applied # status.applied
<1>1. ASSUME IInv, [Next]_vars, Changed PROVE rec.trusted /\ ~ rec.plan.frozen
  <2>0. TypeOK /\ AppliedIsTrusted
    BY <1>1 DEF IInv
  <2>1. rec.pc \in Applying \/ (rec.pc = "write" /\ ~ rec.plan.frozen)
    <3>1. CASE \E i \in Instance : /\ pods[i].up /\ pods'[i].up
                                   /\ \E l \in {"writer", "reader", "role"} :
                                          pods'[i][l] # pods[i][l]
      <4>1. PICK i \in Instance : pods[i].up /\ pods'[i].up /\ ~ SameLabels(i)
        BY <3>1, Zenon DEF SameLabels
      <4> QED
        BY <1>1, <2>0, <4>1, LabelSteps DEF Applying
    <3>2. CASE deployments' # deployments /\ rec' # rec
      BY <1>1, <2>0, <3>2, ResourceSteps DEF Applying
    <3>3. CASE status'.applied # status.applied
      BY <1>1, <2>0, <3>3, AppliedSteps
    <3> QED
      BY <1>1, <3>1, <3>2, <3>3, Zenon
  <2> QED
    BY <2>0, <2>1 DEF AppliedIsTrusted, Applying
<1>2. IInv /\ [Next]_vars => [Changed => rec.trusted /\ ~ rec.plan.frozen]_vars
  BY <1>1
<1> QED
  BY <1>2, Invariance, PTL DEF Spec, FrozenChangesNothing
=============================================================================
