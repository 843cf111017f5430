# A TLA+ model of pgbouncer-aurora-operator

The operator watches an Aurora PostgreSQL cluster and keeps one PgBouncer
Deployment per Aurora instance. A Writer and a Reader Service select the
PgBouncer pods by label, so moving traffic means patching pod labels. This
directory holds TLA+ modules for its control logic, TLC runs on small instances
and TLAPS proofs for all instances. `PROJECT.json` lists components, runs,
theorems, the source lines each definition models, and the hazards.

## The system

| Part | Source | Modelled by |
|---|---|---|
| Membership planner | `internal/planner/planner.go` | `Planner`, `Replanning`, `Hysteresis` |
| Reconciler | `internal/controller/reconciler.go` | `Operator` |
| Discovery and monitor jobs: what they read and write | `internal/controller/scheduler.go` | `Operator` |
| Ticks, in-flight marks, event channel, throttle | `scheduler.go`, `reconciler.go` | `Scheduler` |
| Aurora topology query, row source | `internal/discovery/aurora.go`, `kubernetes.go`, `sql.go` | `Discovery`; its effect in `Operator` (`Observed`, `DiscoveryFails`) |
| RDS metadata cache and worker | `internal/discovery/rds.go`, `controller/rds_metadata_worker.go` | `Discovery` |
| Probe monitor | `internal/monitor/probe.go` | `ProbePool`, which implements `HealthCheck`; its effect in `Operator` (`Probeable`) |
| Conditions, service summary, status page | `reconciler.go`, `scheduler.go`, `internal/statuspage` | `Reporting` |
| Kubernetes: Deployments, pods, Services | rendered by `internal/render` | `Operator`, environment actions |
| Manager, flags | `cmd/manager` | a stop is `ManagerRestarts`; `rdsMetadataCacheTTL` in `Discovery` |
| Logging, chart, manifests | `controller/logging.go`, `charts`, `deploy` | not modelled |

Discovery job, monitor job and reconciler run concurrently. Each is
single-flight: the jobs through the scheduler's in-flight map, the reconciler
through the work queue. They meet in the status of the `PgBouncerAurora`
resource only. Each takes a snapshot, works on it, and writes part of the status
into a freshly read copy. The write is retried on a conflict, so it is one step;
everything between snapshot and write may interleave. Most of what can go wrong
in this program comes from that gap, and from the informer cache: the resource is
read from the API server, but pods are read from a cache that may show them late.

## Modules

- **Planner**: `planner.Plan` as operators named after the functions of
  `planner.go`. Lists of names are sets; lists of records are functions.
  Counters that only ever meet a threshold stop there (`CountTo`).
- **Operator**: the state machine. `status` is the status subresource, `disc`,
  `mon` and `rec` are the snapshots of the three activities with their program
  counter, `deployments` the per-instance resources with their restart token,
  `pods` one PgBouncer pod per instance with readiness and labels. `behind` is what
  the informer cache still shows of the pods on which it lags, and whether the pod it
  shows is gone; every read of a pod is a read of `Seen`. `rec.blind` is a history
  variable: the pods whose Service labels the cache showed wrongly when the
  reconcile started.
  | Action | Code |
  |---|---|
  | `DiscoverySucceeds`, `DiscoveryFails`, `updateDiscoveryStatus` | `runDiscoveryJob` up to, and at, its status update |
  | `MonitorChecks`, `MonitorDisturbed`, `updateMonitorStatus` | `runMonitorJob` likewise |
  | `ReconcileStarts` | `Reconcile` from the snapshot to the decision to apply |
  | `applyDesired` | `applyDesired`, `cleanupDisabled…`, `cleanupRemovedInstanceResources` |
  | `AddLabels`, `ExactLabels` | the two passes of `patchPodMembership` |
  | `handleWriterChangeConnection` | restart tokens |
  | `updateStatus` | `updateStatus` |
  | `ReconcileFails`, `JobFails`, `ManagerRestarts` | an API error at any point, a lost result, a stop of the manager |
  | `AuroraChanges`, `SpecChanges`, `Pod…`, `ResourceLost`, `WatchLags`, `WatchCatchesUp`, `TimePasses` | the environment (external) |
- **Claims**: convergence, and statements of `src/README.md` as formulas.
- **MCOperator**: instances of `Operator` for TLC, bounds on disturbances, and
  `SettledInit`, the state the operator is in when it has settled on a cluster.
- **Replanning**: the planner applied to its own result.
- **Hysteresis**: the health counters of one instance against a definition over the
  whole history of monitor rounds. The history keeps the rounds that say something;
  a round whose check failed as a whole reuses the recorded health and leaves no
  trace, unless the instance has been replaced.
- **Reporting**: the conditions and the service summary, which the monitor job
  and the reconciler both write, each from a plan of its own, and the status
  page as a function of the status. It uses `Planner` and keeps what reports
  tell apart: one writer, backends that pass, fail or have no ready pod, disabled
  instances, trust, and zone conflicts under `conflictPolicy: Fail`, which freeze the
  plan of the reconciler and not that of the monitor job.
- **MCPlans**: one run over `Replanning`, `Hysteresis` and `Reporting`, one
  question per behaviour.
- **HealthCheck**: what a monitor round promises to `runMonitorJob`: an error, or
  the health of every enabled instance, where an instance is unhealthy only if
  it has no ready pod or its own probe has failed.
- **ProbePool**: `ProbeMonitor.Check` as it is: feeder, workers, closer and
  collector with an unbuffered and a buffered channel and a context that may
  end at any time. `ImplementsHealthCheck` is the refinement; `Answer` maps what
  `Check` has returned to the answer.
- **Scheduler**: how jobs and reconciles come about: ticks on a stale list, due
  times, in-flight marks, monitor results that are discarded, the event channel that
  drops when it is full, the work queue with its backoff (up to `MaxBackoff`, whatever
  the throttle) and the throttle of `Reconcile`. Ages and delays stand for time.
- **Discovery**: rows, `BuildResult`, the metadata cache and its worker. The
  identity of an instance is how often its name has been given to a new one.
- **PlannerProofs**, **PlansProofs**, **OperatorProofs**, **SafetyProofs**,
  **HealthProofs**, **ProbePoolProofs**, **SchedulerProofs**, **DiscoveryProofs**:
  theorems.

How they fit together: `Operator` composes planner, jobs, reconciler and
Kubernetes, and takes the parts below them by their effect. `ProbePool` shows
that a round has one of the outcomes that `MonitorChecks` and `MonitorDisturbed`
allow, `Discovery` where the topologies and identities of `Observed` come from,
and `Scheduler` that jobs and reconciles recur, which `Operator` assumes as fairness.

Abstractions worth knowing:

- Pods are listed and read from the informer cache (the manager's client has it
  disabled for Secrets only, `main.go:171`), and the merge patches carry no
  resource version (`reconciler.go:1819`, `:1860`). So a patch never conflicts, and it
  sends only the labels that differ from the cached copy (`Patched`). The cache may
  fall behind on any pod at any time and for any time, also on the reconciler's own
  patches. What it missed arrives in one go: the reconciler sets a Service label only
  where the copy shows it off and removes one only where the copy shows it on, so such
  a label changes at most once while the copy stays as it is, and is known again once
  the copy has changed.
- The reads of `Reconcile` between snapshot and first write are one step, and so is
  each pass over the pods. What is done with a pod depends on that pod alone, only
  the reconciler writes labels, and a starting pod has none.
- Deployments, ConfigMaps and Services are read from the cache, too, and modelled as
  if they were read live. A late read of them ends in an error of the API server
  (already exists, not found, conflict), which is `ReconcileFails`, or in a repair that
  waits for the reconcile that the late event asks for.
- An instance has one pod. Several replicas carry the same labels.
- A resource is there or not. One whose content differs from the plan is
  treated as missing; both make `cachedPlanNeedsApply` true.
- Restart tokens are records of what the code hashes. That a new token rolls the
  pods is covered only by the bounded loss of pods.
- `Operator` keeps of time only the age of a missing instance, in units of the
  retention period; jobs may start at any time, whatever their interval.
  `Scheduler` and `Discovery` have clocks, in units of a common divisor of their
  intervals; ages stop counting where no comparison can tell them apart.
- `Scheduler` has one resource. Resources meet only in the event channel,
  which `OthersAsk` fills at any time.
- `Discovery` has one cluster, and `CachedOnly` as `main.go` sets it. With several
  clusters the worker takes longer than one timeout; that is not covered.
- A zone conflict is taken from the spec, as the set of instances that it concerns, or
  `"spread"` for the conflict that concerns none in particular.
- `Reporting` has `failureThreshold` 1, discovery in one step, pods that are seen at
  once, and instances that stay; `Operator` has all of that. `LastMonitorTime` is
  stored in seconds, so a round may or may not look newer than a reconcile that it
  overtakes.
- The mode without a scheduler (`ScheduleEvents == nil`, used by tests) is left out.

## Runs

The runs of `Operator` have two instances, thresholds of 2 (in `converge` a discovery
threshold of 1) and a retention of 1, so that a counter can be below, at and
above its threshold. Disturbances are bounded per kind by the constant `Bound`, and
a scenario says which of them may happen together, and how often
(`MCOperator!Scenarios`); between them the activities may run as often as they
like, so every interleaving of any number of jobs and reconciles is explored.
Two instances are enough to have a writer and a reader, to exchange them, to lose
one and to have none left. They have no identities here: `Hysteresis` and
`Discovery` are about those, and the proofs cover them. `safety` uses symmetry in
the two instances; `converge` fixes the first writer instead.

| Run | Question | States |
|---|---|---|
| `safety` | all safety properties in eight scenarios: a change of the cluster (a) with a failed discovery and a failed probe, (b) with two faults or restarts, (c) with a lost or unready pod; two failed discoveries (d) with a lost resource, (e) with a spec change; (f) a spec change and a lost resource; a late cache and a fault (g) with a change of the cluster, (h) with a lost or unready pod; `RestartAll` | 2,662,219 |
| `converge` | convergence from an empty status, and from a settled operator after a change of the cluster or of the spec with a freeze and a fault, after a change of the spec or a lost resource with a lost pod and a fault, and after a change of the cluster with a late cache | 1,326,253 |
| `plans` | plans are stable and keep one writer in every situation; health follows the history in all histories of 7 rounds that say something, with changing identities, thresholds 2 and 3; reports agree, and the page comes to tell the state after two changes or faults, zone conflicts among them | 1,865,872 |
| `probe_pool` | three instances, two workers: no send blocks or panics, a round ends short only when canceled, all goroutines end, and the pool implements `HealthCheck` | 136,635 |
| `scheduler` | channel of one, throttle of two ticks, backoff of up to three, two faults or changes: recorded results are reconciled, a request is lost at the full channel only, nothing that only a reconcile can do is left without a request, jobs are single-flight, discovery recurs, the throttle forgets | 162,351 |
| `discovery` | two names, two disturbances: recorded topologies are sound, the cache outlives a failed refresh, identities never go back and converge | 422,268 |

The scenarios of `safety` are chosen so that every property can fail in one of
them: two writers would need an unready pod, because otherwise the fast path
hides a planner that keeps two; a freeze needs as many failures as the discovery
threshold, and a frozen reconcile that deletes something needs a lost resource or a
disabled instance; a label left over needs a reconcile that stops part of the way. A
fault beside a late cache stops a reconcile between its passes, so that the next one
starts while the cache does not show what the first has patched. Three
instances and two workers in `probe_pool` let a worker have a second job, and the
feeder be left without workers. A channel of one in `scheduler` (1024 in the
manager) is full as soon as another resource has asked.

### Fairness

Each of discovery, monitor and reconcile is weakly fair in `Operator`, because the
scheduler's ticker starts the jobs again and again and each finished job asks
for a reconcile; a failed reconcile is retried by the work queue. Kubernetes
starts pods, makes them ready and removes those without a Deployment, watches
deliver in the end, and time passes. Nothing is assumed of disturbances, which are
bounded. `converge` states this fairness as `Recurrence`, which says that each activity is time and
again at work and time and again idle. TLC found it equivalent to `Fairness`, both ways,
on an instance with a failed discovery and a fault; it is much cheaper to check.
`Reporting` states its fairness in the same way.

- `Converges` assumes that from some time on no discovery result is recorded in
  the middle of a reconcile. Without it the property fails: `updateStatus` and
  `updateMonitorStatus` write the `DiscoveryTrusted` condition from their snapshot,
  so a schedule in which a reconcile always straddles a discovery can undo every
  recovery from a freeze. Discovery runs every few seconds and a reconcile takes
  far less, so the assumption is mild.
- `PageTellsTheState` assumes for the same reason that from some time on rounds
  and reconciles do not change the recorded trust (`TrustIsOwned`). During a zone
  conflict it promises no more than that the page is `Frozen` time and again (see below).
- `IdentityConverges` assumes the same as `Converges`, because a stale list of missing
  instances, written back for ever, makes `Resolve` ignore a name for ever; and
  that from some time on no two refreshes in a row fail.
- `Scheduler` assumes of the shared channel that it is not full each and every
  time that a job of the resource asks: the controller empties it all the time.
  Everything else is weak fairness of the ticker, the goroutines, the
  controller's workers and the clock.
- `ProbePool` assumes that goroutines run and that every probe ends (each has its
  own timeout). The timeout of the job is not assumed to fire.

## Where code and documentation differ

Six runs are expected to find a violation: each states a sentence of
`src/README.md` and finds a behaviour of the code that is otherwise.

| Run | Sentence | What happens |
|---|---|---|
| `v_switch` | :83 the Writer is switched without waiting for the monitor | the next reconcile skips the fast path, as its writer is already applied, and empties the Writer Service on stale health |
| `v_restart` | :126 `RestartWriters` restarts on Writer changes | lost when the reconcile fails after the labels are patched |
| `v_freeze` | :360 freeze at the threshold | trust is written back by an activity that began before |
| `v_fallback` | :475, :640 the Reader Service falls back to the Writer | the fast path sets the writer after the fallback was decided |
| `v_count` | :472 members are retained for `removeAfterMissingCount` trusted discoveries | a failed discovery, masked by the recorded topology, counts as one |
| `v_leak` | :112 resources are deleted after retention | the record of the missing instance is overwritten by the stale snapshot of a reconcile |

Five more differences and limits show up in the models and have no run of their own.

- The lost update behind `v_leak` also drops a missing reader from the Reader
  Service before `removeAfterMissingCount` cycles (:472).
- A change that disables an instance, observed while the operator is frozen, is
  not applied later if the pod of the instance has been replaced meanwhile:
  `ObservedGeneration` has moved on (`reconciler.go:1974`) and an unlabelled pod shows
  no drift, so its Deployment stays (:449, "intentionally exclude that discovered
  instance from PgBouncer resources"). `Converges` holds for a freeze and a spec
  change without the lost pod.
- A failed monitor round reports `MonitorSucceeded` false and `Degraded` true; the
  reconcile it asks for never probes, reports an empty monitor error
  (`reconciler.go:172`) and sets both back (`reconciler.go:2014`). The unit tests for a
  failed monitor (`reconciler_test.go:1251`) run without a scheduler, where the two
  are one step; they also ask that `LastMonitorTime` is not advanced, which
  `scheduler.go:353` does.

- A reconcile that starts while the cache shows the Service labels of a pod wrongly
  may leave a label that is too much, or take the last label of a Service
  although the new member's own has been removed before, and record the membership as
  applied. That is why `RecordedMembershipIsReal` and `MakeBeforeBreak` leave out the
  pods in `rec.blind`; without the exception TLC finds both violated. Pods are
  watched, so the late event asks for another reconcile, which repairs the labels;
  `Converges` covers that. A cache that falls behind during a reconcile does no harm.
- Under `conflictPolicy: Fail` (:479, "`Fail` freezes reconcile for safety") the reconcile is
  frozen and says so in the `Frozen` condition, but `runMonitorJob` plans without
  `applyZoneAwareConflictPolicy` (`scheduler.go:259`) and sets `Frozen` back to false, so the
  condition and the status page alternate for as long as the conflict lasts. Without
  its exception for `ZoneConflict`, TLC finds `PageTellsTheState` violated.

The freeze is decided when a reconcile starts. One that started from a trusted
discovery carries on if trust is lost in its middle: `FrozenChangesNothing` is about
the discovery of the snapshot, and no document promises more.

One more was found by reading: if the RDS client cannot be set up, `main.go:190`
passes a nil `*RDSMetadataResolver` on as a `MetadataResolver`, which is not nil
where `aurora.go:64` looks. It is outside of what is modelled.

## Proofs

Every safety property that a run checks, invariant or action property, is also
proved with TLAPS: for every set of instances, all thresholds, intervals,
timeouts and capacities, every policy and any number of disturbances. Bounds on
disturbances may be any numbers, so they lose nothing here. The assumptions on
the constants are named `ASSUME`s, which TLC evaluates on every run:

- `PlannerAssumption`, `OperatorAssumption`: thresholds are positive, `NoDbi` is an
  identity, the policy is one of three.
- `HysteresisAssumption`: nothing but types. `ReportingAssumption`: finitely many
  instances, the first writer among them. `ProbePoolAssumption`: finitely many
  instances, at least one worker.
- `SchedulerAssumption`: positive interval and capacity of the channel; throttle and
  backoff may be anything.
- `DiscoveryAssumption`: finitely many names; a refresh times out within an interval;
  and the interval is at least two timeouts, or two intervals and two timeouts
  fit into the least lifetime of cached metadata. The timeout is 10 s
  (`rds_metadata_worker.go:31`), the least lifetime 5 min (`main.go:47`) and intervals
  below 10 s are clamped (`main.go:84`), so one of the two holds for all flags.

What is proved, and along which argument:

- `PlannerProofs`: types of the planner's results; retention is idempotent;
  writer and reader rules are stable; a planned member is wanted, that is, not disabled
  and either planned for or missing for too short a time; `OneWriterPlanned`.
- `PlansProofs`: `PlansAreStable`, `PlansKeepOneWriter`, and
  - `HealthIsHistory`, for histories of any length. `HealthFollowsHistory` alone is
    not inductive, as it says nothing of the counters. `HInv` adds what a counter
    means (`Counts`): the last so many rounds were of its kind, and if it is below
    its threshold, the round before them was of another kind or the first of
    them found a new instance. No induction over the history is needed: a round
    appends one element, and `Up` of the longer history is `Up` of the shorter one
    unless the last element goes up or down.
  - `ReportsAlwaysAgree`: conditions and summary of any one plan whose members are
    instances describe it alike (`AnyPlanIsDescribedAlike`); the invariant
    `Planning` says that every plan under way is of that kind.
- `OperatorProofs`: `TypeCorrect`, one lemma per group of actions.
- `SafetyProofs`: `WriterIsUnique`, `RecordedIsReal`, `MakesBeforeBreaking`,
  `FreezeIsSafe`, `MembersKeepTheirResources`. The first four are not inductive: a
  reconcile in the middle of the label passes relies on what earlier phases did
  while pods came and went and the cache lagged. The inductive invariant `IInv` adds
  - `AppliedIsTrusted`: a plan being applied is not frozen, and one that is not
    frozen comes from a trusted discovery;
  - `CacheFindsLabels`: a pod that the cache does not find has no label, as it has
    started since, and one that it finds runs;
  - `KnownLabels`: until the second pass, the labels of the pods that the cache
    showed rightly at the start are known: the cache shows them as they are, or the
    first pass has just added them. Without it a late cache could hide from the
    second pass what it has to remove;
  - `ListedHaveLabels`: between the passes every listed pod runs and, unless it is in
    `rec.blind`, has the labels it should have; a pod that is not listed has none;
  - `NoneLeftOver`: after the second pass, or when nothing had to be applied,
    no pod but those in `rec.blind` has a label too many. The second case is where
    `cachedPlanNeedsApply` has to look at the pods and not at the status.

  `WriterIsUnique` is about memberships. That the labels follow them is the matter of
  `RecordedIsReal`, which says that no label is left over; that none is missing
  in the end is part of `Converges`. `FreezeIsSafe` is about every label, resource
  (created or deleted), token and record that a reconcile may change.

  TLC finds `IInv` to hold in all states of `safety`. `MembersKeepTheirResources`
  rests on the planner's lemma that members are wanted and on the guard of the
  fast path: the threshold below which a missing member is retained is the one
  from which its resources may be deleted.
- `HealthProofs`: `HealthyIsNotLost`. `HInv` says that a pending monitor result is
  justified against the record it will replace, and that without a record no
  plan takes a backend to be healthy. Together they show that the only write that
  can come between, the first record made by a reconcile, does no harm.
- `ProbePoolProofs`: `SendsAreAlwaysSafe`, `ShortMeansCanceled` and the refinement
  `PoolImplementsHealthCheck`, for any finite set of instances and any pool size. The
  invariant says where each instance is (with the feeder, with one worker, in the
  channel, or collected), so that no more results can ever wait than the channel has
  room for; that a result says what the probe has found; and that an instance
  without a result has been given up only after the context has ended or an error
  is on its way. The initial states map to initial states of `HealthCheck`; the end
  of a probe maps to `Probe`, a return to `Answers` or `Fails`, all else to stuttering.
- `SchedulerProofs`: `SchedulerTypes`, `NothingIsForgotten`, `FlightsAreSingle`,
  `LossesAreAtFullChannel`. The invariant `SInv` adds `MarkedIsRunning`: the marks in the
  in-flight map are exactly those of the goroutines that run, through early returns,
  failures and restarts. `NothingForgotten` is inductive beside it.
- `DiscoveryProofs`:
  - `RecordsAreSound`: a result that is trusted has one writer from when
    `BuildResult` has accepted the rows (`TrustedResultIsSound`), and only such a
    result is recorded.
  - `CacheLastsLongEnough`: `Timely` bounds the age of the cache by the ticks since
    the refresh that filled it, plus one timeout, plus an interval for a
    missed refresh and one for a refresh under way (`Behind`). The assumption on
    interval, timeout and lifetime is what makes the bound small enough.
  - `IdentitiesNeverGoBack`: identities flow from Aurora to the worker, to the cache,
    to a job's result and to the record; `Upstream` says that none of these
    is ahead of one before it, whatever is delayed, expires or is restarted between.
    It needs that a job works on the topology that is recorded, which holds
    because jobs are single-flight and nothing else records a topology.

TLC finds the strengthened invariants of `PlansProofs`, `SchedulerProofs` and
`DiscoveryProofs`, too, to hold in all states of `plans`, `scheduler` and `discovery`.

Only model-checked are the properties that something happens, as liveness under
fairness is beyond the prover: `Converges`, `ReportedPageTellsTheState`,
`EverythingEnds`, `ResultsAreReconciled`, `DiscoveryRecurs`, `ThrottleForgets` and
`IdentityConverges`; and the violations, which are single behaviours. The theorems
are about behaviours that start from the initial states of the modules, which for
`Operator` is `Init`; the step lemmas hold in any state that satisfies the
invariants.

## Not modelled

- Manifests, `pgbouncer.ini`, names and hashes (`internal/render`): text. Two names
  that `safeDNSLabel` shortens to one are not covered, as names are model values.
- Several pods per instance, and a cache that shows an old and a new pod of an
  instance side by side.
- A cache of Deployments, ConfigMaps and Services that lags (see the abstractions).
- The content of resources: a resource that differs from the plan counts as missing.
- Role Services with an older name, the `TrafficTransition` and `ZoneAwareConflict`
  conditions (no decision reads them; the freeze on a zone conflict is in `Operator` and `Reporting`).
- The mode without a scheduler and the uncached path of `Resolve`: the manager
  uses neither.
- HTTP and HTML of the status page, the error it shows after a failed refresh, flags,
  logging, chart and scripts: input, output and configuration.
