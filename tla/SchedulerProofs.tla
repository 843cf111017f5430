--------------------------- MODULE SchedulerProofs ---------------------------
(***************************************************************************)
(* The safety properties of the scheduler, the channel, the work queue and *)
(* the throttle, for all intervals, every capacity of the channel and any  *)
(* number of faults.                                                       *)
(***************************************************************************)
EXTENDS Scheduler, TLAPS

Pc == {"none", "started", "running", "asking"}
Job == [pc : Pc, age : 0..Interval]

\* The marks are those of the goroutines that run.
MarkedIsRunning == \A k \in Kind : k \in inFlight <=> job[k].pc # "none"

SInv == TypeOK /\ MarkedIsRunning /\ NothingForgotten

-----------------------------------------------------------------------------
(* Ages, delays and jobs *)

LEMMA OlderType ==
    ASSUME NEW bound \in Nat, NEW age \in 0..bound
    PROVE  Older(age, bound) \in 0..bound
  BY DEF Older

LEMMA NoJobType == NoJob \in Job
  BY SchedulerAssumption DEF NoJob, Job, Pc

\* Setting the job of a kind.
LEMMA JobType ==
    ASSUME NEW f \in [Kind -> Job], NEW k \in Kind, NEW j \in Job
    PROVE  [f EXCEPT ![k] = j] \in [Kind -> Job]
  OBVIOUS

LEMMA LongestDelayType ==
    /\ LongestDelay \in Nat
    /\ MinInterval <= LongestDelay /\ MaxBackoff <= LongestDelay
  BY SchedulerAssumption DEF LongestDelay

LEMMA AddAfterType ==
    ASSUME delayed \in 0..NoDelay, NEW delay \in 0..LongestDelay, AddAfter(delay)
    PROVE  delayed' \in 0..LongestDelay
  BY LongestDelayType DEF AddAfter, NoDelay

LEMMA FaultType ==
    ASSUME faults \in 0..Faults, Fault
    PROVE  faults' \in 0..Faults
  BY SchedulerAssumption DEF Fault

-----------------------------------------------------------------------------
(* TypeOK in three parts *)

JobsOK ==
    /\ last \in [Kind -> 0..Interval]
    /\ job \in [Kind -> Job]
    /\ inFlight \subseteq Kind

QueueOK ==
    /\ events \in Seq({"own", "other"}) /\ Len(events) <= QueueSize
    /\ delayed \in 0..NoDelay
    /\ throttle \in 0..Never

FlagsOK ==
    /\ exists \in BOOLEAN /\ queued \in BOOLEAN /\ reconciling \in BOOLEAN
    /\ generation \in {"new", "read", "observed"}
    /\ result \in {"recorded", "read", "acted"}
    /\ faults \in 0..Faults

LEMMA TypeParts == TypeOK <=> JobsOK /\ QueueOK /\ FlagsOK
  BY DEF TypeOK, JobsOK, QueueOK, FlagsOK, Job, Pc

LEMMA InitSInv == Init => SInv
<1> SUFFICES ASSUME Init PROVE SInv
  OBVIOUS
<1>1. JobsOK
  BY SchedulerAssumption, NoJobType DEF Init, JobsOK
<1>2. QueueOK
  BY LongestDelayType, SchedulerAssumption DEF Init, QueueOK, Never, NoDelay
<1>3. FlagsOK
  <2>1. faults \in 0..Faults
    BY SchedulerAssumption DEF Init
  <2> QED
    BY <2>1, Zenon DEF Init, FlagsOK
<1>4. MarkedIsRunning
  BY DEF Init, MarkedIsRunning, NoJob
<1>5. NothingForgotten
  BY DEF Init, NothingForgotten, Requested
<1> QED
  BY <1>1, <1>2, <1>3, <1>4, <1>5, TypeParts DEF SInv

\* The jobs: a goroutine is started without a mark, and takes its mark along
\* when it ends.
LEMMA JobsStep ==
    ASSUME JobsOK, MarkedIsRunning, [Next]_vars
    PROVE  JobsOK' /\ MarkedIsRunning'
<1>1. CASE UNCHANGED <<last, job, inFlight>>
  BY <1>1 DEF JobsOK, MarkedIsRunning
<1>2. CASE SchedulerTicks
  <2>1. PICK start \in SUBSET (Kind \ inFlight) :
           /\ job' = [k \in Kind |-> IF k \in start THEN [pc |-> "started", age |-> 0]
                                     ELSE job[k]]
           /\ inFlight' = inFlight \cup start
    BY <1>2 DEF SchedulerTicks
  <2>2. UNCHANGED last /\ [pc |-> "started", age |-> 0] \in Job
    BY <1>2, SchedulerAssumption DEF SchedulerTicks, Job, Pc
  <2> QED
    BY <2>1, <2>2 DEF JobsOK, MarkedIsRunning
<1>3. ASSUME NEW k \in Kind, JobEnds(k), UNCHANGED last
      PROVE  JobsOK' /\ MarkedIsRunning'
  BY <1>3, NoJobType DEF JobEnds, JobsOK, MarkedIsRunning, NoJob
<1>4. ASSUME NEW k \in Kind, JobRuns(k) \/ JobRecords(k) \/ JobDiscards(k)
      PROVE  JobsOK' /\ MarkedIsRunning'
  <2>1. job[k] \in Job /\ job[k].age \in 0..Interval
    BY DEF JobsOK, Job
  <2>2. PICK pc \in {"running", "asking"} : job' = [job EXCEPT ![k] = [pc |-> pc, age |-> 0]]
    BY <1>4 DEF JobRuns, JobRecords, JobDiscards
  <2>3. [pc |-> pc, age |-> 0] \in Job
    BY SchedulerAssumption DEF Job, Pc
  <2>4. UNCHANGED inFlight /\ job[k].pc # "none" /\ last' \in [Kind -> 0..Interval]
    BY <1>4, <2>1 DEF JobRuns, JobRecords, JobDiscards, JobsOK
  <2> QED
    BY <2>2, <2>3, <2>4 DEF JobsOK, MarkedIsRunning
<1>5. CASE TimePasses
  <2>1. last' \in [Kind -> 0..Interval]
    BY <1>5, OlderType, SchedulerAssumption DEF TimePasses, JobsOK
  <2>2. ASSUME NEW k \in Kind
        PROVE  job'[k] \in Job /\ job'[k].pc = job[k].pc
    <3>1. job[k] \in Job /\ job[k].age \in 0..Interval
      BY DEF JobsOK, Job
    <3>2. Older(job[k].age, Interval) \in 0..Interval
      BY <3>1, OlderType, SchedulerAssumption
    <3>3. job'[k] = IF job[k].pc = "running"
                    THEN [job[k] EXCEPT !.age = Older(job[k].age, Interval)] ELSE job[k]
      BY <1>5 DEF TimePasses
    <3> QED
      BY <3>1, <3>2, <3>3 DEF Job
  <2>3. job' = [k \in Kind |-> job'[k]] /\ UNCHANGED inFlight
    BY <1>5 DEF TimePasses
  <2> QED
    BY <2>1, <2>2, <2>3 DEF JobsOK, MarkedIsRunning
<1>6. CASE Created
  BY <1>6, SchedulerAssumption DEF Created, JobsOK, MarkedIsRunning
<1>7. CASE ManagerRestarts
  BY <1>7, NoJobType DEF ManagerRestarts, JobsOK, MarkedIsRunning, NoJob
<1>8. ASSUME NEW k \in Kind, Work(k) \/ JobFails(k)
      PROVE  JobsOK' /\ MarkedIsRunning'
  BY <1>3, <1>4, <1>8 DEF Work, JobLeaves, JobFails, enqueueReconcile
<1>9. CASE TakeEvent \/ DelayEnds \/ Serve \/ ReconcileEnds \/ ReconcileFails
              \/ OthersAsk \/ Deleted \/ Edited
  BY <1>1, <1>9 DEF TakeEvent, DelayEnds, Serve, ReconcileDeferred, ReconcileNotFound,
     ReconcileStarts, ReconcileEnds, ReconcileSucceeds, ReconcileFails, OthersAsk,
     Deleted, Edited
<1> QED
  BY <1>1, <1>2, <1>5, <1>6, <1>7, <1>8, <1>9 DEF Next, vars

\* The channel, the delay and the throttle's entry.
LEMMA QueueStep ==
    ASSUME QueueOK, [Next]_vars
    PROVE  QueueOK'
<1>1. CASE UNCHANGED <<events, delayed, throttle>>
  BY <1>1 DEF QueueOK
<1>2. CASE UNCHANGED <<delayed, throttle>> /\ Len(events) < QueueSize
           /\ \E e \in {"own", "other"} : events' = Append(events, e)
  BY <1>2, SchedulerAssumption DEF QueueOK
<1>3. CASE TakeEvent
  BY <1>3, SchedulerAssumption DEF TakeEvent, QueueOK
<1>4. CASE DelayEnds
  BY <1>4, LongestDelayType DEF DelayEnds, QueueOK, NoDelay
<1>5. CASE ReconcileDeferred
  <2>1. MinInterval - throttle \in 0..LongestDelay
    BY <1>5, LongestDelayType, SchedulerAssumption
       DEF ReconcileDeferred, throttled, QueueOK, Never
  <2>2. delayed' \in 0..NoDelay
    BY <1>5, <2>1, AddAfterType, LongestDelayType
       DEF ReconcileDeferred, QueueOK, NoDelay
  <2> QED
    BY <1>5, <2>2 DEF ReconcileDeferred, QueueOK
<1>6. CASE ReconcileNotFound \/ ReconcileStarts
  BY <1>6, SchedulerAssumption DEF ReconcileNotFound, ReconcileStarts, QueueOK, Never
<1>7. CASE ReconcileFails
  <2>1. delayed' \in 0..NoDelay
    BY <1>7, AddAfterType, LongestDelayType, SchedulerAssumption
       DEF ReconcileFails, QueueOK, NoDelay
  <2> QED
    BY <1>7, <2>1 DEF ReconcileFails, QueueOK
<1>8. CASE TimePasses
  <2>1. delayed' \in 0..NoDelay
    BY <1>8, LongestDelayType DEF TimePasses, QueueOK, NoDelay
  <2>2. throttle' \in 0..Never
    BY <1>8, SchedulerAssumption DEF TimePasses, QueueOK, Never, Older
  <2> QED
    BY <1>8, <2>1, <2>2 DEF TimePasses, QueueOK
<1>9. CASE ManagerRestarts
  BY <1>9, LongestDelayType, SchedulerAssumption DEF ManagerRestarts, QueueOK, NoDelay, Never
<1>10. ASSUME NEW k \in Kind, enqueueReconcile(k)
       PROVE  QueueOK'
  BY <1>1, <1>2, <1>10 DEF enqueueReconcile
<1>11. CASE OthersAsk
  BY <1>2, <1>11 DEF OthersAsk
<1>12. CASE \/ SchedulerTicks \/ ReconcileSucceeds \/ Created \/ Deleted \/ Edited
            \/ \E k \in Kind : JobLeaves(k) \/ JobRuns(k) \/ JobRecords(k) \/ JobDiscards(k)
                               \/ JobFails(k)
  BY <1>1, <1>12 DEF SchedulerTicks, ReconcileSucceeds, Created, Deleted, Edited,
     JobLeaves, JobRuns, JobRecords, JobDiscards, JobFails
<1> QED
  BY <1>1, <1>3, <1>4, <1>5, <1>6, <1>7, <1>8, <1>9, <1>10, <1>11, <1>12
     DEF Next, vars, Work, Serve, ReconcileEnds

\* The flags, and the number of faults.
LEMMA FlagsStep ==
    ASSUME FlagsOK, [Next]_vars
    PROVE  FlagsOK'
<1>1. faults' \in 0..Faults
  <2>1. UNCHANGED faults \/ Fault
    BY DEF Next, vars, Work, Serve, ReconcileEnds, SchedulerTicks, JobLeaves, JobRuns,
       JobRecords, JobDiscards, JobFails, enqueueReconcile, TakeEvent, DelayEnds,
       ReconcileDeferred, ReconcileNotFound, ReconcileStarts, ReconcileSucceeds,
       ReconcileFails, TimePasses,
       OthersAsk, Created, Deleted, Edited, ManagerRestarts
  <2> QED
    BY <2>1, FaultType DEF FlagsOK
<1>2. exists' \in BOOLEAN /\ queued' \in BOOLEAN /\ reconciling' \in BOOLEAN
  BY Zenon DEF FlagsOK, Next, vars, Work, Serve, ReconcileEnds, SchedulerTicks, JobLeaves,
     JobRuns, JobRecords, JobDiscards, JobFails, enqueueReconcile, TakeEvent, DelayEnds,
     ReconcileDeferred, ReconcileNotFound, ReconcileStarts, ReconcileSucceeds,
     ReconcileFails, TimePasses, OthersAsk, Created, Deleted, Edited, ManagerRestarts
<1>3. /\ generation' \in {"new", "read", "observed"}
      /\ result' \in {"recorded", "read", "acted"}
  BY DEF FlagsOK, Next, vars, Work, Serve, ReconcileEnds, SchedulerTicks, JobLeaves,
     JobRuns, JobRecords, JobDiscards, JobFails, enqueueReconcile, TakeEvent, DelayEnds,
     ReconcileDeferred, ReconcileNotFound, ReconcileStarts, ReconcileSucceeds,
     ReconcileFails, TimePasses, OthersAsk, Created, Deleted, Edited, ManagerRestarts
<1> QED
  BY <1>1, <1>2, <1>3 DEF FlagsOK

-----------------------------------------------------------------------------
(* Requests *)

\* A delay that is added is there.
LEMMA AddAfterRequests ==
    ASSUME QueueOK, NEW delay \in 0..LongestDelay, AddAfter(delay)
    PROVE  Requested'
  BY AddAfterType, LongestDelayType DEF QueueOK, Requested, NoDelay

\* Only Reconcile and a restart take a request away, and Reconcile puts a delay in
\* its place unless the resource is gone or is about to be reconciled.
LEMMA RequestedStep ==
    ASSUME QueueOK, Requested, [Next]_vars
    PROVE  Requested' \/ ReconcileNotFound \/ ReconcileStarts \/ ManagerRestarts
<1>1. CASE UNCHANGED delayed /\ (queued => queued')
  BY <1>1 DEF Requested, NoDelay
<1>2. CASE DelayEnds
  BY <1>2 DEF DelayEnds, Requested
<1>3. CASE ReconcileDeferred
  <2>1. MinInterval - throttle \in 0..LongestDelay
    BY <1>3, LongestDelayType, SchedulerAssumption
       DEF ReconcileDeferred, throttled, QueueOK, Never
  <2> QED
    BY <1>3, <2>1, AddAfterRequests DEF ReconcileDeferred
<1>4. CASE ReconcileFails
  BY <1>4, AddAfterRequests, LongestDelayType, SchedulerAssumption DEF ReconcileFails
<1>5. CASE TimePasses
  <2>1. delayed # NoDelay => delayed' # NoDelay
    BY <1>5, LongestDelayType DEF TimePasses, QueueOK, NoDelay
  <2>2. UNCHANGED queued
    BY <1>5 DEF TimePasses
  <2> QED
    BY <2>1, <2>2 DEF Requested, NoDelay
<1>6. CASE TakeEvent
  BY <1>1, <1>6, Zenon DEF TakeEvent
<1>7. CASE \/ SchedulerTicks \/ ReconcileSucceeds \/ OthersAsk
           \/ Created \/ Deleted \/ Edited \/ UNCHANGED vars
           \/ \E k \in Kind : Work(k) \/ JobFails(k)
  <2>1. UNCHANGED delayed /\ (UNCHANGED queued \/ queued' = TRUE)
    BY <1>7 DEF SchedulerTicks, ReconcileSucceeds, OthersAsk, Created, Deleted, Edited,
       vars, Work, JobLeaves, JobRuns, JobRecords, JobDiscards, JobFails, enqueueReconcile
  <2> QED
    BY <1>1, <2>1
<1> QED
  BY <1>2, <1>3, <1>4, <1>5, <1>6, <1>7 DEF Next, Serve, ReconcileEnds

LEMMA NothingForgottenStep ==
    ASSUME QueueOK, FlagsOK, NothingForgotten, [Next]_vars
    PROVE  NothingForgotten'
<1>1. SUFFICES ASSUME \/ exists' /\ generation' = "new"
                      \/ ~ exists' /\ throttle' # Never
               PROVE  Requested'
  BY DEF NothingForgotten, Never
<1>2. CASE ReconcileNotFound \/ ReconcileStarts
  <2>1. CASE ReconcileNotFound
    BY <1>1, <2>1, Zenon DEF ReconcileNotFound, Never
  <2>2. CASE ReconcileStarts
    BY <1>1, <2>2 DEF ReconcileStarts
  <2> QED
    BY <1>2, <2>1, <2>2
<1>3. CASE ManagerRestarts
  BY <1>1, <1>3, Zenon DEF ManagerRestarts, Requested
<1>4. CASE ReconcileFails
  BY <1>4, AddAfterRequests, LongestDelayType, SchedulerAssumption DEF ReconcileFails
<1>5. CASE Created \/ Deleted \/ Edited
  BY <1>5 DEF Created, Deleted, Edited, Requested
<1>6. CASE TimePasses
  <2>1. throttle' # Never => throttle # Never
    BY <1>6 DEF TimePasses
  <2>2. UNCHANGED <<exists, generation>>
    BY <1>6 DEF TimePasses
  <2>3. Requested
    BY <1>1, <2>1, <2>2 DEF NothingForgotten
  <2> QED
    BY <1>3, <1>2, <2>3, RequestedStep
<1>7. CASE /\ UNCHANGED <<exists, throttle>>
           /\ generation' = "new" => generation = "new"
  <2>1. Requested
    BY <1>1, <1>7 DEF NothingForgotten, Never
  <2> QED
    BY <1>3, <1>2, <2>1, RequestedStep
<1>8. CASE \/ SchedulerTicks \/ TakeEvent \/ DelayEnds \/ ReconcileDeferred
           \/ ReconcileSucceeds \/ OthersAsk \/ UNCHANGED vars
           \/ \E k \in Kind : Work(k) \/ JobFails(k)
  BY <1>7, <1>8 DEF SchedulerTicks, TakeEvent, DelayEnds, ReconcileDeferred,
     ReconcileSucceeds, OthersAsk, vars, Work, JobLeaves, JobRuns,
     JobRecords, JobDiscards, JobFails,
     enqueueReconcile
<1> QED
  BY <1>2, <1>3, <1>4, <1>5, <1>6, <1>8 DEF Next, Serve, ReconcileEnds

-----------------------------------------------------------------------------
(* The theorems *)

LEMMA SInvStep == SInv /\ [Next]_vars => SInv'
<1> SUFFICES ASSUME SInv, [Next]_vars PROVE SInv'
  OBVIOUS
<1>1. JobsOK /\ QueueOK /\ FlagsOK
  BY TypeParts DEF SInv
<1>2. JobsOK' /\ MarkedIsRunning'
  BY <1>1, JobsStep DEF SInv
<1>3. QueueOK' /\ FlagsOK'
  BY <1>1, QueueStep, FlagsStep
<1>4. NothingForgotten'
  BY <1>1, NothingForgottenStep DEF SInv
<1>5. TypeOK'
  BY <1>2, <1>3, TypeParts, PTL
<1> QED
  BY <1>2, <1>4, <1>5 DEF SInv

LEMMA SInvAlways == Spec => []SInv
  BY InitSInv, SInvStep, PTL DEF Spec

\* The channel never holds more than its capacity, no delay is longer than the
\* throttle asks for, no counter leaves its range: for all intervals, any
\* capacity and any number of faults.
THEOREM SchedulerTypes == Spec => []TypeOK
  BY SInvAlways, PTL DEF SInv

\* No new spec and no entry of a deleted resource in the throttle's map is ever
\* left without a request, for all intervals and any number of faults.
THEOREM NothingIsForgotten == Spec => []NothingForgotten
  BY SInvAlways, PTL DEF SInv

\* enqueueDueJobs starts a job only when the one before it has ended.
LEMMA SingleFlightStep ==
    ASSUME SInv, [Next]_vars
    PROVE  \A k \in Kind : job'[k].pc = "started" => job[k].pc \in {"none", "started"}
<1>1. SUFFICES ASSUME NEW k \in Kind, job'[k].pc = "started"
               PROVE  job[k].pc \in {"none", "started"}
  OBVIOUS
<1>2. JobsOK
  BY TypeParts DEF SInv
<1>3. CASE SchedulerTicks
  BY <1>1, <1>3 DEF SchedulerTicks, SInv, MarkedIsRunning
<1>4. ASSUME NEW l \in Kind, Work(l) \/ JobFails(l)
      PROVE  job[k].pc \in {"none", "started"}
  BY <1>1, <1>2, <1>4 DEF Work, JobLeaves, JobRuns, JobRecords, JobDiscards, JobFails,
     enqueueReconcile,
     JobEnds, NoJob, JobsOK
<1>5. CASE TimePasses
  BY <1>1, <1>2, <1>5 DEF TimePasses, JobsOK, Job
<1>6. CASE ManagerRestarts
  BY <1>1, <1>6 DEF ManagerRestarts, NoJob
<1>7. CASE UNCHANGED job
  BY <1>1, <1>7
<1> QED
  BY <1>3, <1>4, <1>5, <1>6, <1>7 DEF Next, vars, TakeEvent, DelayEnds, Serve,
     ReconcileDeferred, ReconcileNotFound, ReconcileStarts, ReconcileEnds,
     ReconcileSucceeds, ReconcileFails, OthersAsk, Created, Deleted, Edited

\* No two jobs of a kind are in flight, whatever the intervals and the times that
\* the ticker reads from its cache.
THEOREM FlightsAreSingle == Spec => SingleFlight
  BY SInvAlways, SingleFlightStep, PTL DEF Spec, SingleFlight

\* An event of the resource stays in the channel until it is taken.
LEMMA EventStep ==
    ASSUME QueueOK, [Next]_vars, NEW n \in DOMAIN events, events[n] = "own"
    PROVE  queued' \/ ManagerRestarts \/ \E m \in DOMAIN events' : events'[m] = "own"
<1>0. events \in Seq({"own", "other"})
  BY DEF QueueOK
<1>1. CASE UNCHANGED events
  BY <1>1
<1>2. CASE \E e \in {"own", "other"} : events' = Append(events, e)
  <2>1. n \in DOMAIN events' /\ events'[n] = events[n]
    BY <1>0, <1>2
  <2> QED
    BY <2>1
<1>3. CASE TakeEvent
  <2>1. CASE n = 1
    <3>1. Head(events) = "own"
      BY <1>0, <2>1
    <3> QED
      BY <1>3, <3>1, Zenon DEF TakeEvent
  <2>2. CASE n # 1
    <3>1. n - 1 \in DOMAIN events' /\ events'[n - 1] = events[n]
      BY <1>0, <1>3, <2>2 DEF TakeEvent
    <3> QED
      BY <3>1
  <2> QED
    BY <2>1, <2>2
<1>4. CASE OthersAsk \/ \E k \in Kind : enqueueReconcile(k)
  BY <1>1, <1>2, <1>4 DEF OthersAsk, enqueueReconcile
<1>5. CASE \/ SchedulerTicks \/ DelayEnds \/ Serve \/ ReconcileEnds \/ ReconcileFails
           \/ TimePasses \/ Created \/ Deleted \/ Edited \/ UNCHANGED vars
           \/ \E k \in Kind : JobLeaves(k) \/ JobRuns(k) \/ JobRecords(k) \/ JobDiscards(k)
                               \/ JobFails(k)
  BY <1>1, <1>5 DEF SchedulerTicks, DelayEnds, Serve, ReconcileDeferred, ReconcileNotFound,
     ReconcileStarts, ReconcileEnds, ReconcileSucceeds, ReconcileFails, TimePasses, Created,
     Deleted, Edited, vars, JobLeaves, JobRuns, JobRecords, JobDiscards, JobFails
<1> QED
  BY <1>3, <1>4, <1>5 DEF Next, Work

\* A job that asks does so until its event is sent or dropped.
LEMMA AskingStep ==
    ASSUME SInv, [Next]_vars, NEW k \in Kind, job[k].pc = "asking"
    PROVE  enqueueReconcile(k) \/ ManagerRestarts \/ job'[k].pc = "asking"
<1>0. JobsOK
  BY TypeParts DEF SInv
<1>1. CASE SchedulerTicks
  BY <1>1 DEF SchedulerTicks, SInv, MarkedIsRunning
<1>2. ASSUME NEW l \in Kind, Work(l) \/ JobFails(l)
      PROVE  enqueueReconcile(k) \/ job'[k].pc = "asking"
  <2>1. CASE l = k
    BY <1>2, <2>1 DEF Work, JobLeaves, JobRuns, JobRecords, JobDiscards, JobFails
  <2>2. CASE l # k
    BY <1>0, <1>2, <2>2 DEF Work, JobLeaves, JobRuns,
     JobRecords, JobDiscards, JobFails,
       enqueueReconcile, JobEnds, JobsOK
  <2> QED
    BY <2>1, <2>2
<1>3. CASE TimePasses
  BY <1>3 DEF TimePasses
<1>4. CASE UNCHANGED job
  BY <1>4
<1> QED
  BY <1>1, <1>2, <1>3, <1>4 DEF Next, vars, TakeEvent, DelayEnds, Serve,
     ReconcileDeferred, ReconcileNotFound, ReconcileStarts, ReconcileEnds,
     ReconcileSucceeds, ReconcileFails, OthersAsk, Created, Deleted, Edited

LEMMA OnItsWayStep ==
    ASSUME SInv, [Next]_vars, OnItsWay, exists',
           result = "recorded", result' = "recorded", ~ OnItsWay'
    PROVE  Asks /\ Len(events) = QueueSize
<1>0. QueueOK /\ FlagsOK
  BY TypeParts DEF SInv
<1>1. ~ Requested' /\ ~ queued'
  BY DEF OnItsWay, Requested
<1>2. ~ ReconcileNotFound /\ ~ ReconcileStarts
  BY Zenon DEF ReconcileNotFound, ReconcileStarts
<1>3. ~ ManagerRestarts
  <2>1. ManagerRestarts => queued' = exists /\ exists' = exists
    BY DEF ManagerRestarts
  <2> QED
    BY <1>0, <1>1, <2>1 DEF FlagsOK
<1>4. ~ Requested
  BY <1>0, <1>1, <1>2, <1>3, RequestedStep
<1>5. ~ \E n \in DOMAIN events : events[n] = "own"
  BY <1>0, <1>1, <1>3, EventStep DEF OnItsWay
<1>6. PICK k \in Kind : job[k].pc = "asking"
  BY <1>4, <1>5 DEF OnItsWay
<1>7. enqueueReconcile(k)
  BY <1>3, <1>6, AskingStep DEF OnItsWay
<1>8. CASE Len(events) < QueueSize
  <2>1. events' = Append(events, "own") /\ events \in Seq({"own", "other"})
    BY <1>0, <1>7, <1>8 DEF enqueueReconcile, QueueOK
  <2>2. Len(events) + 1 \in DOMAIN events' /\ events'[Len(events) + 1] = "own"
    BY <2>1
  <2> QED
    BY <2>2 DEF OnItsWay
<1> QED
  BY <1>0, <1>7, <1>8, SchedulerAssumption DEF Asks, QueueOK

\* A recorded result loses its way to a reconcile at the full channel alone: no
\* interleaving of jobs, reconciles, deferrals, failures and restarts drops it.
THEOREM LossesAreAtFullChannel == Spec => LostOnlyAtFullChannel
  BY SInvAlways, OnItsWayStep, PTL DEF Spec, LostOnlyAtFullChannel
=============================================================================
