----------------------------- MODULE Scheduler -----------------------------
(***************************************************************************)
(* How the jobs and the reconciles of a resource come about: the ticker    *)
(* starts the jobs that are due (scheduler.go), a job that has recorded a  *)
(* result asks for a reconcile over a bounded channel, the controller puts *)
(* the request into its work queue, and Reconcile defers what comes too    *)
(* soon after the last reconcile of the same resource (reconciler.go).     *)
(*                                                                         *)
(* Resources meet only in the channel, so there is one resource here, and  *)
(* the events of the others fill the channel at any time.                  *)
(* Of the results only this is kept: whether a reconcile has acted on the  *)
(* last one.  Time is kept as ages and delays, in units of a common        *)
(* divisor of the intervals, up to the interval that each is compared to.  *)
(* The work queue and the event sources are those of controller-runtime.   *)
(***************************************************************************)
EXTENDS Naturals, Sequences

CONSTANTS
    Kind,         \* kinds of jobs
    Interval,     \* spec.discovery.interval and spec.monitor.interval
    MinInterval,  \* --reconcile-min-interval
    MaxBackoff,   \* longest delay of the work queue's rate limiter
    QueueSize,    \* capacity of the channel of reconcile events
    Faults        \* how often something goes wrong or a resource changes

ASSUME SchedulerAssumption ==
    /\ Kind \subseteq {"discovery", "monitor"}
    /\ Interval \in Nat \ {0} /\ MinInterval \in Nat /\ MaxBackoff \in Nat
    /\ QueueSize \in Nat \ {0} /\ Faults \in Nat

VARIABLES
    exists,       \* the resource is there
    generation,   \* is the last generation observed?
    last,         \* age of status.lastDiscoveryTime and lastMonitorTime
    job,          \* the goroutine of the job of each kind
    inFlight,     \* the kinds of jobs marked as in flight
    events,       \* the channel from the scheduler to the controller
    queued,       \* the resource is in the work queue
    delayed,      \* it is to be added to that later: the time that is left
    throttle,     \* lastReconcileStarted: the age, or Never
    reconciling,  \* it is being reconciled
    result,       \* is the last recorded result acted on?
    faults        \* how many faults there have been

vars == <<exists, generation, last, job, inFlight, events, queued, delayed,
          throttle, reconciling, result, faults>>

Never == MinInterval + 1
NoJob == [pc |-> "none", age |-> 0]
LongestDelay == IF MaxBackoff < MinInterval THEN MinInterval ELSE MaxBackoff
NoDelay == LongestDelay + 1
Older(age, bound) == IF age < bound THEN age + 1 ELSE bound

Init ==
    /\ exists \in BOOLEAN
    /\ generation = "new"
    /\ last = [k \in Kind |-> Interval]
    /\ job = [k \in Kind |-> NoJob] /\ inFlight = {}
    /\ events = <<>>
    /\ queued = exists
    /\ delayed = NoDelay
    /\ throttle = Never
    /\ reconciling = FALSE
    /\ result = "acted"
    /\ faults = 0

Fault == faults < Faults /\ faults' = faults + 1

-----------------------------------------------------------------------------
(* The scheduler *)

Due(k) == generation # "observed" \/ last[k] >= Interval

\* enqueueDueJobs: every due job that is not in flight is started.  It works
\* from the cached list of resources, whose times may be older than recorded.
SchedulerTicks ==
    /\ \E stale \in SUBSET Kind :
          LET start == {k \in Kind \ inFlight : exists /\ (Due(k) \/ k \in stale)}
          IN  /\ job' = [k \in Kind |-> IF k \in start THEN [pc |-> "started", age |-> 0]
                                       ELSE job[k]]
              /\ inFlight' = inFlight \cup start
    /\ UNCHANGED <<exists, generation, last, events, queued, delayed, throttle,
                   reconciling, result, faults>>

\* The goroutine of a job ends: the deferred clearInFlight.
JobEnds(k) ==
    /\ job' = [job EXCEPT ![k] = NoJob]
    /\ inFlight' = inFlight \ {k}

\* Mutant: the mark of a job that has nothing to do is not cleared.
JobLeaves_StaysInFlight(k) ==
    /\ job[k].pc = "started"
    /\ ~ exists \/ ~ Due(k) \/ k = "monitor"
    /\ job' = [job EXCEPT ![k] = NoJob]
    /\ UNCHANGED <<exists, generation, last, inFlight, events, queued, delayed,
                   throttle, reconciling, result, faults>>

\* The job reads the resource anew: it is gone, or the job is not due after
\* all, or a monitor job finds no trusted topology.
JobLeaves(k) ==
    /\ job[k].pc = "started"
    /\ ~ exists \/ ~ Due(k) \/ k = "monitor"
    /\ JobEnds(k)
    /\ UNCHANGED <<exists, generation, last, events, queued, delayed, throttle,
                   reconciling, result, faults>>

JobRuns(k) ==
    /\ job[k].pc = "started" /\ exists /\ Due(k)
    /\ job' = [job EXCEPT ![k] = [pc |-> "running", age |-> 0]]
    /\ UNCHANGED <<inFlight, exists, generation, last, events, queued, delayed, throttle,
                   reconciling, result, faults>>

\* Mutant: the mark is cleared before the job has ended.
JobRecords_ClearsMark(k) ==
    /\ job[k].pc = "running" /\ exists
    /\ last' = [last EXCEPT ![k] = job[k].age]
    /\ result' = "recorded"
    /\ job' = [job EXCEPT ![k] = [pc |-> "asking", age |-> 0]]
    /\ inFlight' = inFlight \ {k}
    /\ UNCHANGED <<exists, generation, events, queued, delayed, throttle,
                   reconciling, faults>>

\* The status update of the job, with the time at which the job has started.
JobRecords(k) ==
    /\ job[k].pc = "running" /\ exists
    /\ last' = [last EXCEPT ![k] = job[k].age]
    /\ result' = "recorded"
    /\ job' = [job EXCEPT ![k] = [pc |-> "asking", age |-> 0]]
    /\ UNCHANGED <<inFlight, exists, generation, events, queued, delayed, throttle,
                   reconciling, faults>>

\* updateMonitorStatus discards a result for another topology than the recorded
\* one.  The job asks for a reconcile all the same.
JobDiscards(k) ==
    /\ job[k].pc = "running" /\ exists /\ k = "monitor"
    /\ job' = [job EXCEPT ![k] = [pc |-> "asking", age |-> 0]]
    /\ UNCHANGED <<inFlight, exists, generation, last, events, queued, delayed, throttle,
                   reconciling, result, faults>>

\* The update or an earlier read fails: no result, no event.
JobFails(k) ==
    /\ job[k].pc \in {"started", "running"}
    /\ IF job[k].pc = "running" /\ ~ exists THEN UNCHANGED faults ELSE Fault
    /\ JobEnds(k)
    /\ UNCHANGED <<exists, generation, last, events, queued, delayed, throttle,
                   reconciling, result>>

\* Mutant: events that find no room are kept as well.
enqueueReconcile_Unbounded(k) ==
    /\ job[k].pc = "asking"
    /\ events' = Append(events, "own")
    /\ JobEnds(k)
    /\ UNCHANGED <<exists, generation, last, queued, delayed, throttle,
                   reconciling, result, faults>>

\* enqueueReconcile: when the channel is full the event is dropped.
enqueueReconcile(k) ==
    /\ job[k].pc = "asking"
    /\ events' = IF Len(events) < QueueSize THEN Append(events, "own") ELSE events
    /\ JobEnds(k)
    /\ UNCHANGED <<exists, generation, last, queued, delayed, throttle,
                   reconciling, result, faults>>

-----------------------------------------------------------------------------
(* The controller and the throttle *)

TakeEvent ==
    /\ events # <<>>
    /\ events' = Tail(events)
    /\ queued' = (queued \/ Head(events) = "own")
    /\ UNCHANGED <<exists, generation, last, job, inFlight, delayed, throttle,
                   reconciling, result, faults>>

DelayEnds ==
    /\ delayed = 0
    /\ delayed' = NoDelay
    /\ queued' = TRUE
    /\ UNCHANGED <<exists, generation, last, job, inFlight, events, throttle,
                   reconciling, result, faults>>

\* The earliest of several delays counts.
AddAfter(delay) ==
    delayed' = IF delayed < delay THEN delayed ELSE delay

throttled == throttle < MinInterval

\* Mutant: what comes too soon is dropped.
ReconcileDeferred_Dropped ==
    /\ queued /\ ~ reconciling /\ throttled
    /\ queued' = FALSE
    /\ UNCHANGED <<exists, generation, last, job, inFlight, events, delayed, throttle,
                   reconciling, result, faults>>

\* Mutant: a deferred reconcile counts as the last one.
ReconcileDeferred_Postpones ==
    /\ queued /\ ~ reconciling /\ throttled
    /\ queued' = FALSE
    /\ AddAfter(MinInterval - throttle)
    /\ throttle' = 0
    /\ UNCHANGED <<exists, generation, last, job, inFlight, events, reconciling,
                   result, faults>>

\* Reconcile returns at once and asks to be called again.
ReconcileDeferred ==
    /\ queued /\ ~ reconciling /\ throttled
    /\ queued' = FALSE
    /\ AddAfter(MinInterval - throttle)
    /\ UNCHANGED <<exists, generation, last, job, inFlight, events, throttle,
                   reconciling, result, faults>>

\* The resource is gone: forgetReconcileThrottle.
ReconcileNotFound ==
    /\ queued /\ ~ reconciling /\ ~ exists /\ ~ throttled
    /\ queued' = FALSE
    /\ throttle' = Never
    /\ UNCHANGED <<exists, generation, last, job, inFlight, events, delayed,
                   reconciling, result, faults>>

ReconcileStarts ==
    /\ queued /\ ~ reconciling /\ exists /\ ~ throttled
    /\ queued' = FALSE
    /\ throttle' = 0
    /\ reconciling' = TRUE
    /\ result' = IF result = "recorded" THEN "read" ELSE result
    /\ generation' = IF generation = "new" THEN "read" ELSE generation
    /\ UNCHANGED <<exists, last, job, inFlight, events, delayed, faults>>

\* What the reconcile has read is acted on, unless it has changed since then.
ReconcileSucceeds ==
    /\ reconciling /\ exists
    /\ reconciling' = FALSE
    /\ result' = IF result = "read" THEN "acted" ELSE result
    /\ generation' = IF generation = "read" THEN "observed" ELSE generation
    /\ UNCHANGED <<exists, last, job, inFlight, events, queued, delayed, throttle, faults>>

\* An API call fails, as the status update does if the resource is gone.  The
\* work queue tries again after a delay, which grows with every failure.
ReconcileFails ==
    /\ reconciling
    /\ IF exists THEN Fault ELSE UNCHANGED faults
    /\ reconciling' = FALSE
    /\ \E delay \in 0..MaxBackoff : AddAfter(delay)
    /\ result' = IF result = "read" THEN "recorded" ELSE result
    /\ generation' = IF generation = "read" THEN "new" ELSE generation
    /\ UNCHANGED <<exists, last, job, inFlight, events, queued, throttle>>

-----------------------------------------------------------------------------
(* The environment *)

TimePasses ==
    /\ last' = [k \in Kind |-> Older(last[k], Interval)]
    /\ job' = [k \in Kind |-> IF job[k].pc = "running"
                             THEN [job[k] EXCEPT !.age = Older(@, Interval)] ELSE job[k]]
    /\ throttle' = IF throttle = Never THEN Never ELSE Older(throttle, MinInterval)
    /\ delayed' = IF delayed \in {0, NoDelay} THEN delayed ELSE delayed - 1
    /\ UNCHANGED <<inFlight, exists, generation, events, queued, reconciling, result, faults>>

OthersAsk ==
    /\ Len(events) < QueueSize
    /\ events' = Append(events, "other")
    /\ UNCHANGED <<exists, generation, last, job, inFlight, queued, delayed, throttle,
                   reconciling, result, faults>>

\* The resource is created, deleted or gets another spec: the controller sees it.
Created ==
    /\ Fault
    /\ ~ exists
    /\ exists' = TRUE
    /\ queued' = TRUE
    /\ generation' = "new"
    /\ result' = "acted"
    /\ last' = [k \in Kind |-> Interval]
    /\ UNCHANGED <<job, inFlight, events, delayed, throttle, reconciling>>

Deleted ==
    /\ Fault
    /\ exists
    /\ exists' = FALSE
    /\ queued' = TRUE
    /\ UNCHANGED <<generation, last, job, inFlight, events, delayed, throttle,
                   reconciling, result>>

Edited ==
    /\ Fault
    /\ exists
    /\ generation' = "new"
    /\ queued' = TRUE
    /\ UNCHANGED <<exists, last, job, inFlight, events, delayed, throttle, reconciling, result>>

\* The manager stops and another one takes over, which finds all resources.
ManagerRestarts ==
    /\ Fault
    /\ job' = [k \in Kind |-> NoJob] /\ inFlight' = {}
    /\ events' = <<>>
    /\ queued' = exists
    /\ delayed' = NoDelay
    /\ throttle' = Never
    /\ reconciling' = FALSE
    /\ result' = IF result = "read" THEN "recorded" ELSE result
    /\ generation' = IF generation = "read" THEN "new" ELSE generation
    /\ UNCHANGED <<exists, last>>

-----------------------------------------------------------------------------
Work(k) == JobLeaves(k) \/ JobRuns(k) \/ JobRecords(k) \/ JobDiscards(k)
              \/ enqueueReconcile(k) \/ (~ exists /\ JobFails(k))
Serve == ReconcileDeferred \/ ReconcileNotFound \/ ReconcileStarts
ReconcileEnds == ReconcileSucceeds \/ (~ exists /\ ReconcileFails)
Asks == \E k \in Kind : enqueueReconcile(k)
Accepted == Len(events) < QueueSize /\ Asks

Next ==
    \/ SchedulerTicks \/ \E k \in Kind : Work(k) \/ JobFails(k)
    \/ TakeEvent \/ DelayEnds \/ Serve \/ ReconcileEnds \/ ReconcileFails
    \/ OthersAsk \/ TimePasses \/ Created \/ Deleted \/ Edited \/ ManagerRestarts

Spec == Init /\ [][Next]_vars

\* The ticker, the goroutines of the jobs, the source of the channel and the
\* workers of the controller all go on.  The channel, which is emptied again and
\* again, is not full each and every time that a job of this resource asks.
Fairness ==
    /\ WF_vars(SchedulerTicks) /\ \A k \in Kind : WF_vars(Work(k))
    /\ WF_vars(TakeEvent) /\ WF_vars(DelayEnds) /\ WF_vars(Serve)
    /\ WF_vars(ReconcileEnds) /\ WF_vars(TimePasses)
    /\ []<><<Asks>>_vars => []<><<Accepted>>_vars

FairSpec == Spec /\ Fairness

-----------------------------------------------------------------------------
(* Properties *)

\* Every variable holds a value of its type: in particular the channel holds
\* no more than its capacity, and no delay is longer than the throttle's and the
\* work queue's.
TypeOK ==
    /\ {exists, queued, reconciling} \subseteq BOOLEAN
    /\ generation \in {"new", "read", "observed"}
    /\ last \in [Kind -> 0..Interval]
    /\ job \in [Kind -> [pc : {"none", "started", "running", "asking"}, age : 0..Interval]]
    /\ inFlight \subseteq Kind
    /\ events \in Seq({"own", "other"}) /\ Len(events) <= QueueSize
    /\ delayed \in 0..NoDelay
    /\ throttle \in 0..Never
    /\ result \in {"recorded", "read", "acted"}
    /\ faults \in 0..Faults

\* What a job has recorded reaches a reconcile that starts after it, also when
\* its event was dropped at a full channel, deferred by the throttle, met a
\* running reconcile or was lost with the manager.  A reconcile that fails gives
\* the result back: it has to be read once more.
ResultsAreReconciled == result = "recorded" ~> (result # "recorded" \/ ~ exists)

\* No job is started while the job of the same kind before it still runs: each
\* activity that writes part of the status does so alone.
SingleFlight ==
    [][\A k \in Kind : job'[k].pc = "started" => job[k].pc \in {"none", "started"}]_vars

\* Something will call Reconcile for the resource.
Requested == queued \/ delayed # NoDelay

\* What only a reconcile can do is never left without a request for one, however
\* requests are deferred, merged with others, or served in the middle of a change:
\* a spec that no reconcile has read, and the throttle's entry of a resource that
\* is gone, which Reconcile alone takes out of the map.
NothingForgotten ==
    \/ exists /\ generation = "new"
    \/ ~ exists /\ throttle # Never
    => Requested

\* A reconcile of the last recorded result is on its way to Reconcile.
OnItsWay ==
    \/ Requested
    \/ \E n \in DOMAIN events : events[n] = "own"
    \/ \E k \in Kind : job[k].pc = "asking"

\* The wish of a job for a reconcile gets lost in one place alone: at the full
\* channel, where enqueueReconcile drops the event.  The channel, the work queue,
\* the throttle, failed reconciles and a restart all hand it on.
LostOnlyAtFullChannel ==
    [][/\ result = "recorded" /\ OnItsWay
       /\ result' = "recorded" /\ exists' /\ ~ OnItsWay'
       => Asks /\ Len(events) = QueueSize]_vars

\* Discovery is run again and again: no job that ends early, fails or finds the
\* resource gone keeps the next one from being started.
DiscoveryRecurs ==
    "discovery" \in Kind => []<>(~ exists \/ job["discovery"].pc = "running")

\* The throttle forgets a deleted resource: its entry does not stay in the map,
\* whatever was deferred or running when the resource was deleted.
ThrottleForgets == ~ exists ~> (exists \/ throttle = Never)
=============================================================================
