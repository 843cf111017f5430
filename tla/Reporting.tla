------------------------------ MODULE Reporting ------------------------------
(***************************************************************************)
(* What the operator reports: the conditions and the service summary in    *)
(* the status (reconciler.go, scheduler.go), which both the monitor job    *)
(* and the reconciler write from plans of their own, and the status page   *)
(* that shows them (internal/statuspage).                                  *)
(*                                                                         *)
(* The instances stay the same and have no identity; one of them is the    *)
(* writer.  Discovery is one step, and its first failure freezes           *)
(* (failureThreshold 1).  What a reconcile does to Kubernetes is left out. *)
(* Operator has all of that.                                               *)
(***************************************************************************)
EXTENDS Planner, FiniteSets

CONSTANTS
    NoInstance,   \* no writer is recorded yet
    FirstWriter,  \* the writer at first, as the instances are interchangeable
    Disturbances, \* how often the cluster or the spec may change, or a step fail
    Faults        \* how many of these may be failing checks and reconciles

ASSUME ReportingAssumption ==
    /\ IsFiniteSet(Instance)
    /\ FirstWriter \in Instance /\ NoInstance \notin Instance
    /\ Disturbances \in Nat /\ Faults \in Nat

VARIABLES
    cluster,   \* what is there: the writer, the backends and their pods
    spec,      \* generation, disabled instances, and zone conflicts that freeze
    status,    \* the resource's status
    mon,       \* the monitor job
    rec,       \* the reconcile in progress
    left       \* the changes and faults that may still happen

vars == <<cluster, spec, status, mon, rec, left>>

\* A backend passes its check, fails it, or has no ready pod to check it through.
Backend == {"good", "failing", "unready"}
Ready == {i \in Instance : cluster.backend[i] # "unready"}

Topology(w) ==
    IF w = NoInstance THEN [i \in {} |-> {}]
    ELSE [i \in Instance |->
             [role |-> IF i = w THEN "writer" ELSE "reader", dbi |-> NoDbi]]

NoMembers == [writer |-> {}, reader |-> {}]
NoRecords == [i \in {} |-> {}]

-----------------------------------------------------------------------------
(* Plans, with what reports say of them: ready has the instances with ready *)
(* replicas, mismatch those with a role mismatch as their reason, and fast  *)
(* says that the fast path has chosen the writer.                           *)

\* The part of the status that a plan is made from.
Snapshot ==
    [topo |-> Topology(status.writer), trusted |-> status.trusted,
     instances |-> status.instances, ready |-> status.ready,
     mismatch |-> status.mismatch, applied |-> status.applied,
     disabled |-> spec.disabled]

CachedTrusted(snap) == snap.trusted /\ DOMAIN snap.topo # {}

PlanWith(snap, trusted, cached, health, ready, mismatch) ==
    LET plan == Plan(trusted, snap.topo, snap.disabled, snap.instances,
                     snap.applied, [i \in {} |-> 0], cached, health)
        kept == IF plan.frozen THEN Instance ELSE Instance \ snap.disabled
    IN  [frozen |-> plan.frozen, instances |-> plan.instances,
         members |-> plan.members, ready |-> ready \cap kept,
         mismatch |-> mismatch \cap kept, fast |-> FALSE]

\* The plan from the recorded health.
CachedPlan(snap, trusted) ==
    PlanWith(snap, trusted, TRUE, {}, snap.ready, snap.mismatch)

\* The plan from a round of checks.  A ready backend in another role than the
\* recorded one is a role mismatch.
CheckedPlan(snap) ==
    LET same == {i \in Instance : snap.topo[i] = Topology(cluster.writer)[i]}
        good == {i \in Instance : cluster.backend[i] = "good"}
    IN  PlanWith(snap, TRUE, FALSE, good \cap same, Ready, good \ same)

applyWriterFailoverFastPath(plan, snap) ==
    LET new == {i \in DOMAIN snap.topo : snap.topo[i].role = "writer"}
    IN  IF /\ ~ plan.frozen
           /\ snap.applied.writer \notin {new, {}}
           /\ new \cap snap.disabled = {}
           /\ plan.members.writer # new
           /\ new \subseteq Ready
        THEN [plan EXCEPT !.members.writer = new, !.ready = @ \cup new, !.fast = TRUE]
        ELSE plan

activePlanInstances(plan) ==
    {i \in DOMAIN plan.instances : ~ plan.instances[i].disabled}

\* With conflictPolicy Fail, an active instance in a zone that the spec's scheduling
\* rules out freezes the reconcile, and so does a spread over the zones.
applyZoneAwareConflictPolicy(plan) ==
    [plan EXCEPT !.frozen =
        @ \/ spec.zoneConflict \cap (activePlanInstances(plan) \cup {"spread"}) # {}]

-----------------------------------------------------------------------------
(* The conditions and the service summary of a plan *)

backendHealthyCondition(plan) ==
    /\ activePlanInstances(plan) # {}
    /\ \A i \in activePlanInstances(plan) : plan.instances[i].healthy

roleReadyCondition(plan, role) ==
    plan.members[role] \cap activePlanInstances(plan) \cap plan.ready # {}

readerFallbackFromWriter(plan) ==
    \E i \in plan.members.reader \cap activePlanInstances(plan) :
        plan.instances[i].role = "writer"

roleMismatchMessage(plan) == plan.mismatch \cap activePlanInstances(plan) # {}

\* Of the planner's own reasons only those of the fast path and of a suppressed
\* fallback remain: a fallback to the writer is no reason to be degraded.
degradedPlanReasons(plan) ==
    \/ plan.frozen
    \/ plan.fast
    \/ plan.members.reader = {} /\ ReaderFallbackSuppressed(plan.instances)

degradedCondition(trusted, plan, monitorFailed) ==
    \/ ~ trusted
    \/ monitorFailed
    \/ plan.frozen
    \/ ~ backendHealthyCondition(plan)
    \/ ~ roleReadyCondition(plan, "writer")
    \/ ~ roleReadyCondition(plan, "reader")
    \/ roleMismatchMessage(plan)
    \/ degradedPlanReasons(plan)

conditionsFor(trusted, plan, monitorFailed) ==
    [frozen |-> plan.frozen, reconciled |-> ~ plan.frozen,
     fallback |-> readerFallbackFromWriter(plan),
     degraded |-> degradedCondition(trusted, plan, monitorFailed)]

\* The writer behind the Reader Service is one more candidate for it.
Candidates(plan, role) ==
    {i \in activePlanInstances(plan) :
        \/ plan.instances[i].role = role
        \/ role = "reader" /\ i \in plan.members.reader}

\* Mutant: every member counts as ready, and any shared member as a fallback.
roleServiceSummary_AnyMember(plan, role) ==
    LET candidates == Candidates(plan, role)
    IN  [members |-> Cardinality(plan.members[role]),
         ready |-> Cardinality(plan.members[role]),
         healthy |-> Cardinality({i \in candidates : plan.instances[i].healthy}),
         unhealthy |-> Cardinality({i \in candidates : ~ plan.instances[i].healthy}),
         fallback |-> role = "reader" /\ plan.members.reader \cap plan.members.writer # {}]

roleServiceSummary(plan, role) ==
    LET candidates == Candidates(plan, role)
        members == plan.members[role] \cap activePlanInstances(plan)
    IN  [members |-> Cardinality(plan.members[role]),
         ready |-> Cardinality(members \cap plan.ready),
         healthy |-> Cardinality({i \in candidates : plan.instances[i].healthy}),
         unhealthy |-> Cardinality({i \in candidates : ~ plan.instances[i].healthy}),
         fallback |-> role = "reader"
                         /\ \E i \in members : plan.instances[i].role = "writer"]

serviceSummaryStatus(plan) ==
    [writer |-> roleServiceSummary(plan, "writer"),
     reader |-> roleServiceSummary(plan, "reader")]

-----------------------------------------------------------------------------
(* The status page *)

resourceState ==
    IF status.conditions.frozen THEN "Frozen"
    ELSE IF status.conditions.degraded THEN "Degraded"
    ELSE IF ~ status.conditions.reconciled THEN "Degraded"
    ELSE IF status.obsGen < spec.gen THEN "Progressing" ELSE "Ready"

\* A Service without members in the summary is shown with the last applied ones.
addSummary(role) ==
    IF status.summary[role].members = 0 THEN Cardinality(status.applied[role])
    ELSE status.summary[role].members

\* What Refresh puts into the snapshot: the page is a function of the status.
Page ==
    [state |-> resourceState, writers |-> addSummary("writer"),
     readers |-> addSummary("reader"), fallback |-> status.summary.reader.fallback]

-----------------------------------------------------------------------------
(* Discovery, the monitor job and the reconciler *)

\* updateDiscoveryStatus: of the conditions only DiscoveryTrusted is replaced.
Discovers ==
    /\ status' = IF cluster.reachable
                 THEN [status EXCEPT !.writer = cluster.writer, !.trusted = TRUE]
                 ELSE [status EXCEPT !.trusted = FALSE]
    /\ UNCHANGED <<cluster, spec, mon, rec, left>>

Fault ==
    /\ left.all > 0 /\ left.faults > 0
    /\ left' = [all |-> left.all - 1, faults |-> left.faults - 1]

MonIdle == [busy |-> FALSE, late |-> FALSE]
RecIdle == [busy |-> FALSE, newer |-> FALSE]

\* runMonitorJob up to the status update.  late: the round starts while a reconcile
\* is under way, so its time is later.  If the check as a whole fails the recorded
\* health is used again.
MonitorRuns(plan, failed) ==
    /\ ~ mon.busy
    /\ CachedTrusted(Snapshot)
    /\ UNCHANGED <<cluster, spec, status, rec>>
    /\ mon' = [busy |-> TRUE, late |-> rec.busy, writer |-> status.writer,
               plan |-> plan, failed |-> failed]

MonitorChecks ==
    /\ \E snap \in {Snapshot} : MonitorRuns(CheckedPlan(snap), FALSE)
    /\ UNCHANGED left

MonitorFails ==
    /\ \E snap \in {Snapshot} : MonitorRuns(CachedPlan(snap, TRUE), TRUE)
    /\ Fault

\* A result for another topology than the recorded one is discarded.  The time of
\* the round is stored in seconds: if it is in the second in which the reconcile
\* began, it does not show that the round is newer.
updateMonitorStatus ==
    /\ mon.busy
    /\ mon' = MonIdle
    /\ UNCHANGED <<cluster, spec, left>>
    /\ IF mon.writer = status.writer
       THEN /\ status' = [status EXCEPT
                  !.instances = mon.plan.instances, !.ready = mon.plan.ready,
                  !.mismatch = mon.plan.mismatch, !.trusted = TRUE,
                  !.summary = serviceSummaryStatus(mon.plan),
                  !.conditions = conditionsFor(TRUE, mon.plan, mon.failed)]
            /\ \E later \in {FALSE, mon.late} : rec' = [rec EXCEPT !.newer = @ \/ later]
       ELSE UNCHANGED <<status, rec>>

ReconcileStarts ==
    /\ ~ rec.busy
    /\ mon' = [mon EXCEPT !.late = FALSE]
    /\ UNCHANGED <<cluster, spec, status, left>>
    /\ \E snap \in {Snapshot} : \E plan \in {CachedPlan(snap, CachedTrusted(snap))} :
          rec' = [busy |-> TRUE, newer |-> FALSE, gen |-> spec.gen,
                  plan |-> applyZoneAwareConflictPolicy(
                               applyWriterFailoverFastPath(plan, snap)),
                  trusted |-> CachedTrusted(snap)]

\* Mutant: a reconcile whose plan is frozen does not report.
updateStatus_FrozenIsSilent ==
    /\ rec.busy
    /\ status' = IF rec.plan.frozen THEN status
                 ELSE [status EXCEPT
          !.obsGen = rec.gen,
          !.trusted = rec.trusted,
          !.applied = rec.plan.members,
          !.summary = IF rec.newer THEN @ ELSE serviceSummaryStatus(rec.plan),
          !.conditions = conditionsFor(rec.trusted, rec.plan, FALSE)]
    /\ rec' = RecIdle
    /\ UNCHANGED <<cluster, spec, mon, left>>

\* The reconcile never probes: its conditions say that the monitor has succeeded.
\* It keeps the summary of a round that started after it, not its conditions.
updateStatus ==
    /\ rec.busy
    /\ rec' = RecIdle
    /\ UNCHANGED <<cluster, spec, mon, left>>
    /\ LET first == ~ rec.plan.frozen /\ DOMAIN status.instances = {}
       IN status' = [status EXCEPT
          !.obsGen = rec.gen,
          !.trusted = rec.trusted,
          !.instances = IF first THEN rec.plan.instances ELSE @,
          !.ready = IF first THEN rec.plan.ready ELSE @,
          !.mismatch = IF first THEN rec.plan.mismatch ELSE @,
          !.applied = IF rec.plan.frozen THEN @ ELSE rec.plan.members,
          !.summary = IF rec.newer THEN @ ELSE serviceSummaryStatus(rec.plan),
          !.conditions = conditionsFor(rec.trusted, rec.plan, FALSE)]

ReconcileFails ==
    /\ rec.busy
    /\ Fault
    /\ rec' = RecIdle
    /\ UNCHANGED <<cluster, spec, status, mon>>

-----------------------------------------------------------------------------
(* The environment, and the specification *)

Change ==
    /\ left.all > 0
    /\ left' = [left EXCEPT !.all = @ - 1]
    /\ UNCHANGED <<status, mon, rec>>

ClusterChanges ==
    /\ Change
    /\ \/ \E w \in Instance : cluster' = [cluster EXCEPT !.writer = w]
       \/ \E i \in Instance, s \in Backend : cluster' = [cluster EXCEPT !.backend[i] = s]
       \/ cluster' = [cluster EXCEPT !.reachable = ~ @]
    /\ cluster' # cluster
    /\ UNCHANGED spec

SpecChanges ==
    /\ Change
    /\ \/ \E i \in Instance :
             spec' = [spec EXCEPT !.gen = @ + 1,
                          !.disabled = IF i \in @ THEN @ \ {i} ELSE @ \cup {i}]
       \/ \E z \in Instance \cup {"spread"} :
             spec' = [spec EXCEPT !.gen = @ + 1,
                          !.zoneConflict = IF z \in @ THEN @ \ {z} ELSE @ \cup {z}]
    /\ UNCHANGED cluster

NoSummary == [members |-> 0, ready |-> 0, healthy |-> 0, unhealthy |-> 0,
              fallback |-> FALSE]

\* A condition that is not there counts neither as true nor as false.
ReportInit ==
    /\ cluster = [writer |-> FirstWriter, reachable |-> TRUE,
                  backend |-> [i \in Instance |-> "good"]]
    /\ spec = [gen |-> 1, disabled |-> {}, zoneConflict |-> {}]
    /\ status = [writer |-> NoInstance, trusted |-> FALSE, instances |-> NoRecords,
                 ready |-> {}, mismatch |-> {}, applied |-> NoMembers, obsGen |-> 0,
                 summary |-> [writer |-> NoSummary, reader |-> NoSummary],
                 conditions |-> [frozen |-> FALSE, reconciled |-> TRUE,
                                 fallback |-> FALSE, degraded |-> FALSE]]
    /\ mon = MonIdle
    /\ rec = RecIdle
    /\ left = [all |-> Disturbances, faults |-> Faults]

ReportNext ==
    \/ Discovers
    \/ MonitorChecks \/ MonitorFails \/ updateMonitorStatus
    \/ ReconcileStarts \/ updateStatus \/ ReconcileFails
    \/ ClusterChanges \/ SpecChanges

\* The jobs run at their intervals, a monitor round whenever discovery is trusted
\* time and again; every job ends, and asks for a reconcile.  As only a new round
\* or reconcile makes mon or rec busy, this is weak fairness of the steps of each
\* and strong fairness of MonitorChecks, in a form that is cheap to check.
Fairness ==
    /\ WF_vars(Discovers)
    /\ []<>(~ mon.busy /\ CachedTrusted(Snapshot)) => []<>mon.busy
    /\ []<>rec.busy
    /\ []<>(~ mon.busy)
    /\ []<>(~ rec.busy)

ReportSpec == ReportInit /\ [][ReportNext]_vars /\ Fairness

-----------------------------------------------------------------------------
(* Properties *)

\* The members of the Services once the operator has caught up with the cluster.
Usable == {i \in Instance \ spec.disabled : cluster.backend[i] = "good"}
Writers == Usable \cap {cluster.writer}
Suppressed ==
    /\ Instance # {cluster.writer}
    /\ Instance \ {cluster.writer} \subseteq spec.disabled
FallsBack ==
    /\ ReaderEmptyFallback /\ ~ Suppressed
    /\ Writers # {} /\ Usable \ {cluster.writer} = {}
Readers == IF FallsBack THEN Writers ELSE Usable \ {cluster.writer}

ZoneConflict ==
    spec.zoneConflict \cap ((Instance \ spec.disabled) \cup {"spread"}) # {}

Verdict ==
    IF ~ cluster.reachable THEN "Frozen"
    ELSE IF Usable = Instance \ spec.disabled /\ Writers # {} /\ Readers # {}
    THEN "Ready" ELSE "Degraded"

\* Only discovery changes the trust in it: no round or reconcile writes back what
\* its snapshot says of that.
TrustIsOwned == status'.trusted # status.trusted => mon' = mon /\ rec' = rec

\* Two writers of the status replace each other's conditions and summaries, from
\* snapshots of different age.  When the cluster stays as it is, the page still
\* comes to show its state and its members for good: Frozen if discovery fails,
\* Ready if every enabled backend is usable and both Services have one, Degraded
\* if not, also if the Reader Service falls back to the writer.  A zone conflict
\* freezes the reconcile only: its Frozen is shown again and again, and every
\* monitor round, which does not know of the conflict, takes it back.
PageTellsTheState ==
    <>[][TrustIsOwned]_vars =>
        /\ []<>(ZoneConflict => Page.state = "Frozen")
        /\ <>[] \/ ZoneConflict
                \/ /\ Page.state = Verdict
                   /\ cluster.reachable => /\ Page.writers = Cardinality(Writers)
                                           /\ Page.readers = Cardinality(Readers)
                                           /\ Page.fallback = FallsBack

\* The conditions and the summary describe one plan in the same way, by code of
\* their own: a Service that is not ready has no ready members in the summary,
\* a fallback is shown in both or in neither, healthy backends leave no unhealthy
\* candidate.
DescribedAlike(plan) ==
    LET summary == serviceSummaryStatus(plan)
    IN  /\ \A role \in Role : /\ roleReadyCondition(plan, role) <=> summary[role].ready > 0
                              /\ summary[role].ready <= summary[role].members
                              /\ backendHealthyCondition(plan) => summary[role].unhealthy = 0
        /\ readerFallbackFromWriter(plan) <=> summary.reader.fallback

ReportsAgree ==
    /\ rec.busy => DescribedAlike(rec.plan)
    /\ mon.busy => DescribedAlike(mon.plan)
=============================================================================
