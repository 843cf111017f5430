----------------------------- MODULE ProbePool -----------------------------
(***************************************************************************)
(* One round of health checks (ProbeMonitor.Check): a feeder hands the     *)
(* instances with a ready pod to a pool of workers over an unbuffered      *)
(* channel, the workers send what they find into a buffered one, a closer  *)
(* closes that when all workers are done, and the caller collects.  They   *)
(* share a context, which ends by the timeout of the job, with its parent, *)
(* or when the caller returns.                                             *)
(***************************************************************************)
EXTENDS Naturals, FiniteSets, Sequences

CONSTANTS
    Enabled,        \* the instances of the topology that are not disabled
    NoInstance,     \* what a worker without a job works on
    WorkersPerCR    \* the size of the pool

ASSUME ProbePoolAssumption ==
    /\ IsFiniteSet(Enabled)
    /\ NoInstance \notin Enabled
    /\ WorkersPerCR \in Nat \ {0}

VARIABLES
    ready,          \* instances with a ready pod
    found,          \* how each probe has ended
    ctxDone,        \* jobCtx has ended
    todo,           \* what the feeder still has to hand out
    jobsClosed,     \* the feeder has ended
    worker,         \* the state of each worker, and its instance
    results,        \* the buffered channel
    resultsClosed,  \* the closer has ended
    out,            \* the health that Check has collected
    remaining,      \* instances whose result it waits for
    check           \* "start", "collect", "ok" or the error it returns

vars == <<ready, found, ctxDone, todo, jobsClosed, worker, results,
          resultsClosed, out, remaining, check>>

Worker == 1..WorkersPerCR
Off == [pc |-> "done", instance |-> NoInstance, verdict |-> "none"]
Waiting == [Off EXCEPT !.pc = "wait"]
Put(f, i, x) == [j \in DOMAIN f \cup {i} |-> IF j = i THEN x ELSE f[j]]

Collecting == check = "collect"
Returned == check \notin {"start", "collect"}

Init ==
    /\ ready \in SUBSET Enabled
    /\ found = [i \in {} |-> "none"]
    /\ ctxDone = FALSE
    /\ todo = {} /\ jobsClosed = TRUE
    /\ worker = [w \in Worker |-> Off]
    /\ results = <<>> /\ resultsClosed = TRUE
    /\ out = [i \in {} |-> FALSE]
    /\ remaining = {}
    /\ check = "start"

\* Check returns; its deferred cancel ends the context.
Return(how) == check' = how /\ ctxDone' = TRUE

-----------------------------------------------------------------------------
(* Before the pool *)

\* The workers that are started: no more than there are instances to probe.
workersPerCR(n) == IF WorkersPerCR > n THEN 1..n ELSE Worker

\* An instance without a ready pod is unhealthy without being probed.
NotReady == [i \in Enabled \ ready |-> FALSE]

Capacity == Cardinality(ready)

StartPool ==
    /\ check = "start" /\ ready # {}
    /\ check' = "collect"
    /\ out' = NotReady
    /\ todo' = ready /\ remaining' = ready
    /\ jobsClosed' = FALSE /\ resultsClosed' = FALSE
    /\ worker' = [w \in Worker |-> IF w \in workersPerCR(Cardinality(ready))
                                   THEN Waiting ELSE Off]
    /\ UNCHANGED <<ready, found, ctxDone, results>>

NothingToProbe ==
    /\ check = "start" /\ ready = {}
    /\ out' = NotReady
    /\ Return("ok")
    /\ UNCHANGED <<ready, found, todo, jobsClosed, worker, results,
                   resultsClosed, remaining>>

\* The pods cannot be listed, or there are no credentials.
CannotStart ==
    /\ check = "start"
    /\ Return("failed")
    /\ UNCHANGED <<ready, found, todo, jobsClosed, worker, results,
                   resultsClosed, out, remaining>>

-----------------------------------------------------------------------------
(* The feeder *)

\* The send meets a worker that waits for a job.
Feed(w, i) ==
    /\ ~ jobsClosed /\ i \in todo
    /\ worker[w].pc = "wait"
    /\ worker' = [worker EXCEPT ![w] = [Off EXCEPT !.pc = "probe", !.instance = i]]
    /\ todo' = todo \ {i}
    /\ UNCHANGED <<ready, found, ctxDone, jobsClosed, results, resultsClosed,
                   out, remaining, check>>

\* Mutant: the feeder waits for a worker also when the context has ended.
FeederEnds_Stubborn ==
    /\ ~ jobsClosed /\ todo = {}
    /\ jobsClosed' = TRUE
    /\ UNCHANGED <<ready, found, ctxDone, todo, worker, results, resultsClosed,
                   out, remaining, check>>

FeederEnds ==
    /\ ~ jobsClosed /\ (todo = {} \/ ctxDone)
    /\ jobsClosed' = TRUE
    /\ UNCHANGED <<ready, found, ctxDone, todo, worker, results, resultsClosed,
                   out, remaining, check>>

-----------------------------------------------------------------------------
(* The workers *)

\* checkInstance returns.  A probe that ends after the context has ended may
\* have been cut short by that: its verdict says nothing.
ProbeEnds(w, verdict) ==
    /\ worker[w].pc = "probe"
    /\ worker' = [worker EXCEPT ![w].pc = "judge", ![w].verdict = verdict]
    /\ found' = Put(found, worker[w].instance, IF ctxDone THEN "canceled" ELSE verdict)
    /\ UNCHANGED <<ready, ctxDone, todo, jobsClosed, results, resultsClosed,
                   out, remaining, check>>

\* Mutant: the context is not looked at after a probe.
Judge_IgnoresContext(w) ==
    /\ worker[w].pc = "judge"
    /\ worker' = [worker EXCEPT ![w].pc =
          IF worker[w].verdict = "misconfigured" THEN "fail" ELSE "report"]
    /\ UNCHANGED <<ready, found, ctxDone, todo, jobsClosed, results,
                   resultsClosed, out, remaining, check>>

Judge(w) ==
    /\ worker[w].pc = "judge"
    /\ worker' = [worker EXCEPT ![w].pc =
          IF ctxDone \/ worker[w].verdict = "misconfigured" THEN "fail" ELSE "report"]
    /\ UNCHANGED <<ready, found, ctxDone, todo, jobsClosed, results,
                   resultsClosed, out, remaining, check>>

Send(w, ok) ==
    /\ Len(results) < Capacity
    /\ results' = Append(results, [instance |-> worker[w].instance, ok |-> ok,
                                   healthy |-> worker[w].verdict = "healthy"])

\* Mutant: a worker that meets a misconfiguration ends without a word.
SendError_Silent(w) ==
    /\ worker[w].pc = "fail"
    /\ IF ctxDone THEN Send(w, FALSE) ELSE UNCHANGED results
    /\ worker' = [worker EXCEPT ![w] = Off]
    /\ UNCHANGED <<ready, found, ctxDone, todo, jobsClosed, resultsClosed,
                   out, remaining, check>>

\* A plain send, which would wait for room for ever.
SendError(w) ==
    /\ worker[w].pc = "fail"
    /\ Send(w, FALSE)
    /\ worker' = [worker EXCEPT ![w] = Off]
    /\ UNCHANGED <<ready, found, ctxDone, todo, jobsClosed, resultsClosed,
                   out, remaining, check>>

Report(w) ==
    /\ worker[w].pc = "report"
    /\ Send(w, TRUE)
    /\ worker' = [worker EXCEPT ![w] = Waiting]
    /\ UNCHANGED <<ready, found, ctxDone, todo, jobsClosed, resultsClosed,
                   out, remaining, check>>

GiveUp(w) ==
    /\ worker[w].pc = "report" /\ ctxDone
    /\ worker' = [worker EXCEPT ![w] = Off]
    /\ UNCHANGED <<ready, found, ctxDone, todo, jobsClosed, results,
                   resultsClosed, out, remaining, check>>

NoMoreJobs(w) ==
    /\ worker[w].pc = "wait" /\ jobsClosed
    /\ worker' = [worker EXCEPT ![w] = Off]
    /\ UNCHANGED <<ready, found, ctxDone, todo, jobsClosed, results,
                   resultsClosed, out, remaining, check>>

\* Mutant: the results are closed when the jobs are.
CloseResults_Early ==
    /\ ~ resultsClosed /\ jobsClosed
    /\ resultsClosed' = TRUE
    /\ UNCHANGED <<ready, found, ctxDone, todo, jobsClosed, worker, results,
                   out, remaining, check>>

CloseResults ==
    /\ ~ resultsClosed /\ \A w \in Worker : worker[w].pc = "done"
    /\ resultsClosed' = TRUE
    /\ UNCHANGED <<ready, found, ctxDone, todo, jobsClosed, worker, results,
                   out, remaining, check>>

-----------------------------------------------------------------------------
(* The collector *)

Collect ==
    /\ Collecting /\ remaining # {} /\ results # <<>>
    /\ LET r == Head(results)
       IN  IF r.ok
           THEN /\ out' = Put(out, r.instance, r.healthy)
                /\ remaining' = remaining \ {r.instance}
                /\ UNCHANGED <<check, ctxDone>>
           ELSE Return("failed") /\ UNCHANGED <<out, remaining>>
    /\ results' = Tail(results)
    /\ UNCHANGED <<ready, found, todo, jobsClosed, worker, resultsClosed>>

CollectsAll ==
    /\ Collecting /\ remaining = {}
    /\ Return("ok")
    /\ UNCHANGED <<ready, found, todo, jobsClosed, worker, results,
                   resultsClosed, out, remaining>>

\* "monitor job finished before ... probe result(s) were collected"
FinishedBefore ==
    /\ Collecting /\ remaining # {} /\ results = <<>> /\ resultsClosed
    /\ Return("short")
    /\ UNCHANGED <<ready, found, todo, jobsClosed, worker, results,
                   resultsClosed, out, remaining>>

Canceled ==
    /\ Collecting /\ remaining # {} /\ ctxDone
    /\ Return("failed")
    /\ UNCHANGED <<ready, found, todo, jobsClosed, worker, results,
                   resultsClosed, out, remaining>>

\* The job's timeout, or the end of the manager.
ContextEnds ==
    /\ ~ ctxDone
    /\ ctxDone' = TRUE
    /\ UNCHANGED <<ready, found, todo, jobsClosed, worker, results,
                   resultsClosed, out, remaining, check>>

-----------------------------------------------------------------------------
Verdict == {"healthy", "unhealthy", "misconfigured"}

Caller == StartPool \/ NothingToProbe \/ Collect \/ CollectsAll
              \/ FinishedBefore \/ Canceled
Feeder == FeederEnds \/ \E w \in Worker, i \in Enabled : Feed(w, i)
Work(w) == \/ \E verdict \in Verdict : ProbeEnds(w, verdict)
           \/ Judge(w) \/ SendError(w) \/ Report(w) \/ GiveUp(w) \/ NoMoreJobs(w)

\* The manager goes on after Check, whatever is left of the pool.
ManagerGoesOn == Returned /\ UNCHANGED vars

Next == \/ Caller \/ CannotStart \/ Feeder \/ CloseResults \/ ContextEnds
        \/ \E w \in Worker : Work(w)
        \/ ManagerGoesOn

Spec == Init /\ [][Next]_vars

\* Goroutines that can run do run, and every probe ends by its own timeout.
\* Nothing is assumed of the timeout of the job.
FairSpec ==
    /\ Spec /\ WF_vars(Caller) /\ WF_vars(Feeder) /\ WF_vars(CloseResults)
    /\ \A w \in Worker : WF_vars(Work(w))

-----------------------------------------------------------------------------
(* Properties *)

\* No send of a worker blocks for ever or panics: a worker that has an error to
\* send, by a plain send that nothing would interrupt, finds room in results
\* (its capacity is the number of probed instances), and results is closed only
\* when no worker is left to send.
SendsAreSafe ==
    /\ \A w \in Worker : worker[w].pc = "fail" => Len(results) < Capacity
    /\ resultsClosed => \A w \in Worker : worker[w].pc = "done"

\* Check runs out of results before it has one for every instance only because
\* the context has ended, never because a worker has dropped an instance: the
\* error "monitor job finished before" is not how a misconfiguration shows.
ShortOnlyWhenCanceled ==
    [][FinishedBefore => ctxDone]_vars

\* Check returns, and the feeder, the closer and every worker end after it:
\* no goroutine of a round is left behind, with or without the job's timeout,
\* also when all workers have ended early and the feeder has nobody to feed.
EverythingEnds == <>(Returned /\ jobsClosed /\ resultsClosed)

Answer ==
    IF check = "ok" THEN [kind |-> "health", health |-> out]
    ELSE [kind |-> IF Returned THEN "error" ELSE "none", health |-> [i \in {} |-> FALSE]]

Promise == INSTANCE HealthCheck WITH answer <- Answer

\* Check does what HealthCheck promises to runMonitorJob: a round that succeeds
\* has a result for every enabled instance, and an instance is unhealthy in it
\* only if it has no ready pod or if its own probe failed while the job ran.
ImplementsHealthCheck == Promise!Spec
=============================================================================
