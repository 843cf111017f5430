-------------------------- MODULE ProbePoolProofs --------------------------
(***************************************************************************)
(* Proofs about ProbePool, for any set of instances and size of the pool.  *)
(* The inductive invariant follows each probed instance from the feeder    *)
(* over a worker and the channel of results to the collector.              *)
(***************************************************************************)
EXTENDS ProbePool, FiniteSetTheorems, TLAPS

Pc == {"done", "wait", "probe", "judge", "fail", "report"}
Probed == {"healthy", "unhealthy"}
Result == [instance : Enabled, ok : BOOLEAN, healthy : BOOLEAN]

Busy(w) == worker[w].pc \in {"probe", "judge", "fail", "report"}

TypeInv ==
    /\ ready \subseteq Enabled
    /\ DOMAIN found \subseteq ready
    /\ found \in [DOMAIN found -> Promise!Verdict]
    /\ ctxDone \in BOOLEAN
    /\ todo \subseteq ready
    /\ jobsClosed \in BOOLEAN
    /\ worker \in [Worker -> [pc : Pc, instance : Enabled \cup {NoInstance},
                              verdict : Verdict \cup {"none"}]]
    /\ results \in Seq(Result)
    /\ resultsClosed \in BOOLEAN
    /\ DOMAIN out \subseteq Enabled
    /\ out \in [DOMAIN out -> BOOLEAN]
    /\ remaining \subseteq ready
    /\ check \in {"start", "collect", "ok", "failed", "short"}

\* Each instance is with the feeder, with one worker or in one result.
OneAtATime ==
    /\ \A w \in Worker : Busy(w) => worker[w].instance \in ready \ todo
    /\ \A v, w \in Worker :
          Busy(v) /\ Busy(w) /\ worker[v].instance = worker[w].instance => v = w
    /\ \A k \in 1..Len(results) : results[k].instance \in ready \ todo
    /\ \A k \in 1..Len(results), w \in Worker :
          Busy(w) => worker[w].instance # results[k].instance
    /\ \A k, l \in 1..Len(results) :
          results[k].instance = results[l].instance => k = l

\* What is known of an instance is what its probe has found.
FoundIsTrue ==
    /\ \A i \in todo : i \notin DOMAIN found
    /\ \A w \in Worker :
          /\ worker[w].pc = "probe" => worker[w].instance \notin DOMAIN found
          /\ worker[w].pc = "judge" =>
                /\ worker[w].verdict \in Verdict
                /\ worker[w].instance \in DOMAIN found
                /\ ctxDone \/ found[worker[w].instance] = worker[w].verdict
          /\ worker[w].pc = "report" =>
                /\ worker[w].verdict \in Probed
                /\ worker[w].instance \in DOMAIN found
                /\ found[worker[w].instance] = worker[w].verdict
    /\ \A k \in 1..Len(results) : results[k].ok =>
          /\ results[k].instance \in DOMAIN found
          /\ found[results[k].instance] \in Probed
          /\ results[k].healthy = (found[results[k].instance] = "healthy")

\* What Check has collected so far.
OutIsTrue ==
    /\ check = "start" => /\ todo = {} /\ results = <<>> /\ DOMAIN found = {}
                          /\ \A w \in Worker : worker[w] = Off
    /\ check = "collect" =>
          /\ DOMAIN out = Enabled \ remaining
          /\ \A i \in Enabled \ remaining :
                /\ i \in ready => /\ i \in DOMAIN found
                                  /\ found[i] \in Probed
                                  /\ out[i] = (found[i] = "healthy")
                /\ i \notin ready => out[i] = FALSE

\* While the context lasts no instance gets lost.
NoneLost ==
    check = "collect" /\ ~ ctxDone =>
        /\ \A i \in remaining :
              \/ i \in todo
              \/ \E w \in Worker : Busy(w) /\ worker[w].instance = i
              \/ \E k \in 1..Len(results) : results[k].instance = i
        /\ jobsClosed => todo = {}
        /\ worker[1].pc = "done" =>
              jobsClosed \/ \E k \in 1..Len(results) : ~ results[k].ok

ClosedIsQuiet == resultsClosed => \A w \in Worker : worker[w].pc = "done"

Inv == TypeInv /\ OneAtATime /\ FoundIsTrue /\ OutIsTrue /\ NoneLost /\ ClosedIsQuiet

-----------------------------------------------------------------------------
(* The invariant *)

LEMMA InitInv == Init => Inv
<1>1. SUFFICES ASSUME Init PROVE Inv
  OBVIOUS
<1>2. TypeInv
  <2>1. worker \in [Worker -> [pc : Pc, instance : Enabled \cup {NoInstance},
                                verdict : Verdict \cup {"none"}]]
    BY <1>1 DEF Init, Off, Pc
  <2>2. found \in [DOMAIN found -> Promise!Verdict] /\ out \in [DOMAIN out -> BOOLEAN]
    BY <1>1 DEF Init
  <2>3. results \in Seq(Result)
    BY <1>1 DEF Init
  <2>4. QED  BY <1>1, <2>1, <2>2, <2>3 DEF Init, TypeInv
<1>3. OneAtATime /\ FoundIsTrue /\ OutIsTrue /\ NoneLost /\ ClosedIsQuiet
  BY <1>1 DEF Init, OneAtATime, FoundIsTrue, OutIsTrue, NoneLost, ClosedIsQuiet,
     Off, Busy
<1>4. QED  BY <1>2, <1>3 DEF Inv

LEMMA StartPoolInv ==
    ASSUME Inv, StartPool
    PROVE  Inv'
<1>1. TypeInv'
  <2> DEFINE State == [pc : Pc, instance : Enabled \cup {NoInstance},
                       verdict : Verdict \cup {"none"}]
  <2>1. Off \in State /\ Waiting \in State
    BY DEF Waiting, Off, Pc
  <2>2. worker' \in [Worker -> State]
    BY <2>1 DEF StartPool
  <2>3. DOMAIN out' \subseteq Enabled /\ out' \in [DOMAIN out' -> BOOLEAN]
    BY DEF Inv, TypeInv, StartPool, NotReady
  <2>4. QED  BY <2>2, <2>3 DEF Inv, TypeInv, StartPool
<1>2. OneAtATime'
  BY DEF Inv, OneAtATime, OutIsTrue, StartPool, Busy, Off, Waiting
<1>3. FoundIsTrue'
  BY DEF Inv, FoundIsTrue, OutIsTrue, StartPool, Waiting
<1>4. OutIsTrue'
  BY DEF Inv, OutIsTrue, StartPool, NotReady
<1>5. NoneLost'
  <2>1. IsFiniteSet(ready) /\ Cardinality(ready) \in Nat /\ Cardinality(ready) # 0
    BY ProbePoolAssumption, FS_Subset, FS_CardinalityType, FS_EmptySet
       DEF Inv, TypeInv, StartPool
  <2>2. 1 \in Worker /\ 1 \in workersPerCR(Cardinality(ready))
    BY <2>1, ProbePoolAssumption DEF workersPerCR, Worker
  <2>3. worker'[1].pc = "wait"
    BY <2>2 DEF StartPool, Waiting, Off
  <2>4. QED  BY <2>3 DEF StartPool, NoneLost
<1>6. ClosedIsQuiet'
  BY DEF ClosedIsQuiet, StartPool
<1>7. QED  BY <1>1, <1>2, <1>3, <1>4, <1>5, <1>6 DEF Inv

LEMMA NothingToProbeInv ==
    ASSUME Inv, NothingToProbe
    PROVE  Inv'
<1>1. TypeInv'
  BY DEF Inv, TypeInv, NothingToProbe, Return, NotReady
<1>2. OneAtATime'
  BY DEF Inv, OneAtATime, NothingToProbe, Busy
<1>3. FoundIsTrue'
  BY DEF Inv, FoundIsTrue, NothingToProbe, Return
<1>4. OutIsTrue'
  BY DEF OutIsTrue, NothingToProbe, Return
<1>5. NoneLost'
  BY DEF NoneLost, NothingToProbe, Return
<1>6. ClosedIsQuiet'
  BY DEF Inv, ClosedIsQuiet, NothingToProbe
<1>7. QED  BY <1>1, <1>2, <1>3, <1>4, <1>5, <1>6 DEF Inv

LEMMA CannotStartInv ==
    ASSUME Inv, CannotStart
    PROVE  Inv'
<1>1. TypeInv'
  BY DEF Inv, TypeInv, CannotStart, Return
<1>2. OneAtATime'
  BY DEF Inv, OneAtATime, CannotStart, Busy
<1>3. FoundIsTrue'
  BY DEF Inv, FoundIsTrue, CannotStart, Return
<1>4. OutIsTrue'
  BY DEF OutIsTrue, CannotStart, Return
<1>5. NoneLost'
  BY DEF NoneLost, CannotStart, Return
<1>6. ClosedIsQuiet'
  BY DEF Inv, ClosedIsQuiet, CannotStart
<1>7. QED  BY <1>1, <1>2, <1>3, <1>4, <1>5, <1>6 DEF Inv

LEMMA FeedInv ==
    ASSUME Inv, NEW w \in Worker, NEW i \in Enabled, Feed(w, i)
    PROVE  Inv'
<1>1. TypeInv'
  <2> DEFINE State == [pc : Pc, instance : Enabled \cup {NoInstance},
                       verdict : Verdict \cup {"none"}]
  <2>1. [Off EXCEPT !.pc = "probe", !.instance = i] \in State
    BY DEF Off, Pc
  <2>2. worker' \in [Worker -> State]
    BY <2>1 DEF Inv, TypeInv, Feed
  <2>3. QED  BY <2>2 DEF Inv, TypeInv, Feed
<1>2. OneAtATime'
  BY DEF Inv, OneAtATime, TypeInv, Feed, Busy
<1>3. FoundIsTrue'
  BY DEF Inv, FoundIsTrue, Feed
<1>4. OutIsTrue'
  BY DEF Inv, OutIsTrue, Feed
<1>5. NoneLost'
  <2>1. SUFFICES ASSUME check = "collect", ~ ctxDone, NEW j \in remaining
                 PROVE  \/ j \in todo'
                        \/ \E v \in Worker : Busy(v)' /\ worker'[v].instance = j
                        \/ \E k \in 1..Len(results') : results'[k].instance = j
    BY DEF NoneLost, Inv, TypeInv, Feed, Off
  <2>2. Busy(w)' /\ worker'[w].instance = i
    BY DEF Feed, Busy, Inv, TypeInv, Off
  <2>3. CASE \E v \in Worker : Busy(v) /\ worker[v].instance = j
    <3>1. PICK v \in Worker : Busy(v) /\ worker[v].instance = j
      BY <2>3
    <3>2. Busy(v)' /\ worker'[v].instance = j
      BY <3>1 DEF Feed, Busy, Inv, TypeInv
    <3>3. QED  BY <3>2
  <2>4. QED  BY <2>1, <2>2, <2>3 DEF NoneLost, Inv, Feed
<1>6. ClosedIsQuiet'
  BY DEF Inv, ClosedIsQuiet, Feed
<1>7. QED  BY <1>1, <1>2, <1>3, <1>4, <1>5, <1>6 DEF Inv

LEMMA FeederEndsInv ==
    ASSUME Inv, FeederEnds
    PROVE  Inv'
<1>1. TypeInv'
  BY DEF Inv, TypeInv, FeederEnds
<1>2. OneAtATime'
  BY DEF Inv, OneAtATime, FeederEnds, Busy
<1>3. FoundIsTrue'
  BY DEF Inv, FoundIsTrue, FeederEnds
<1>4. OutIsTrue'
  BY DEF Inv, OutIsTrue, FeederEnds
<1>5. NoneLost'
  BY DEF Inv, NoneLost, FeederEnds, Busy
<1>6. ClosedIsQuiet'
  BY DEF Inv, ClosedIsQuiet, FeederEnds
<1>7. QED  BY <1>1, <1>2, <1>3, <1>4, <1>5, <1>6 DEF Inv

LEMMA ProbeEndsInv ==
    ASSUME Inv, NEW w \in Worker, NEW verdict \in Verdict, ProbeEnds(w, verdict)
    PROVE  Inv'
<1>1. TypeInv'
  <2>1. worker[w].instance \in ready
    BY DEF Inv, OneAtATime, Busy, ProbeEnds
  <2>2. worker' \in [Worker -> [pc : Pc, instance : Enabled \cup {NoInstance},
                                 verdict : Verdict \cup {"none"}]]
    <3>1. /\ worker[w].instance \in Enabled \cup {NoInstance}
          /\ worker \in [Worker -> [pc : Pc, instance : Enabled \cup {NoInstance},
                                    verdict : Verdict \cup {"none"}]]
      BY DEF Inv, TypeInv
    <3>2. "judge" \in Pc /\ verdict \in Verdict \cup {"none"}
      BY DEF Pc
    <3>3. worker' = [worker EXCEPT ![w].pc = "judge", ![w].verdict = verdict]
      BY DEF ProbeEnds
    <3>4. QED  BY <3>1, <3>2, <3>3
  <2>3. DOMAIN found' \subseteq ready /\ found' \in [DOMAIN found' -> Promise!Verdict]
    BY <2>1 DEF Inv, TypeInv, ProbeEnds, Put, Verdict, Promise!Verdict
  <2>4. QED  BY <2>2, <2>3 DEF Inv, TypeInv, ProbeEnds
<1>2. OneAtATime'
  BY DEF Inv, OneAtATime, TypeInv, ProbeEnds, Busy
<1>3. FoundIsTrue'
  BY DEF Inv, FoundIsTrue, TypeInv, OneAtATime, ProbeEnds, Busy, Put
<1>4. OutIsTrue'
  BY DEF Inv, OutIsTrue, FoundIsTrue, ProbeEnds, Off, Put
<1>5. NoneLost'
  <2>1. \A v \in Worker : Busy(v) => Busy(v)' /\ worker'[v].instance = worker[v].instance
    BY DEF ProbeEnds, Busy, Inv, TypeInv
  <2>2. worker'[1].pc = "done" => worker[1].pc = "done"
    BY ProbePoolAssumption DEF ProbeEnds, Inv, TypeInv, Worker
  <2>3. \A j \in Enabled : (\E v \in Worker : Busy(v) /\ worker[v].instance = j)
           => (\E v \in Worker : Busy(v)' /\ worker'[v].instance = j)
    BY <2>1
  <2>4. remaining \subseteq Enabled
    BY DEF Inv, TypeInv
  <2>5. QED  BY <2>2, <2>3, <2>4 DEF NoneLost, Inv, ProbeEnds
<1>6. ClosedIsQuiet'
  BY DEF Inv, ClosedIsQuiet, ProbeEnds
<1>7. QED  BY <1>1, <1>2, <1>3, <1>4, <1>5, <1>6 DEF Inv

LEMMA JudgeInv ==
    ASSUME Inv, NEW w \in Worker, Judge(w)
    PROVE  Inv'
<1>1. TypeInv'
  BY DEF Inv, TypeInv, Judge, Pc
<1>2. OneAtATime'
  BY DEF Inv, OneAtATime, Judge, Busy
<1>3. FoundIsTrue'
  BY DEF Inv, FoundIsTrue, Judge, Probed, Verdict
<1>4. OutIsTrue'
  BY DEF Inv, OutIsTrue, Judge, Off
<1>5. NoneLost'
  BY DEF Inv, NoneLost, Judge, Busy
<1>6. ClosedIsQuiet'
  BY DEF Inv, ClosedIsQuiet, Judge
<1>7. QED  BY <1>1, <1>2, <1>3, <1>4, <1>5, <1>6 DEF Inv

LEMMA SendErrorInv ==
    ASSUME Inv, NEW w \in Worker, SendError(w)
    PROVE  Inv'
<1>1. TypeInv'
  BY DEF Inv, TypeInv, OneAtATime, SendError, Result, Pc, Busy, Off, Send
<1>2. OneAtATime'
  BY DEF Inv, OneAtATime, TypeInv, SendError, Busy, Off, Send
<1>3. FoundIsTrue'
  BY DEF Inv, FoundIsTrue, SendError, Off, Send
<1>4. OutIsTrue'
  BY DEF Inv, OutIsTrue, SendError, Off
<1>5. NoneLost'
  <2> DEFINE r == [instance |-> worker[w].instance, ok |-> FALSE,
                   healthy |-> worker[w].verdict = "healthy"]
  <2>1. /\ results' = Append(results, r) /\ Len(results) \in Nat
        /\ Len(results') = Len(results) + 1 /\ results'[Len(results) + 1] = r
        /\ \A k \in 1..Len(results) : results'[k] = results[k]
    BY DEF SendError, Send, Inv, TypeInv, OneAtATime, Busy, Result
  <2>2. \A v \in Worker : Busy(v) /\ v # w => Busy(v)' /\ worker'[v] = worker[v]
    BY DEF SendError, Inv, TypeInv, Busy
  <2>3. ~ results'[Len(results) + 1].ok /\ Len(results) + 1 \in 1..Len(results')
    BY <2>1
  <2>4. SUFFICES ASSUME check = "collect", ~ ctxDone, NEW j \in remaining
                 PROVE  \/ j \in todo'
                        \/ \E v \in Worker : Busy(v)' /\ worker'[v].instance = j
                        \/ \E k \in 1..Len(results') : results'[k].instance = j
    BY <2>3 DEF NoneLost, Inv, SendError
  <2>5. CASE worker[w].instance = j
    BY <2>1, <2>3, <2>5
  <2>6. CASE \E v \in Worker : Busy(v) /\ v # w /\ worker[v].instance = j
    BY <2>2, <2>6
  <2>7. CASE \E k \in 1..Len(results) : results[k].instance = j
    BY <2>1, <2>7
  <2>8. QED  BY <2>4, <2>5, <2>6, <2>7 DEF NoneLost, Inv, SendError
<1>6. ClosedIsQuiet'
  BY DEF Inv, ClosedIsQuiet, SendError
<1>7. QED  BY <1>1, <1>2, <1>3, <1>4, <1>5, <1>6 DEF Inv

LEMMA ReportInv ==
    ASSUME Inv, NEW w \in Worker, Report(w)
    PROVE  Inv'
<1>1. TypeInv'
  BY DEF Inv, TypeInv, OneAtATime, Report, Result, Pc, Busy, Waiting, Send, Off
<1>2. OneAtATime'
  BY DEF Inv, OneAtATime, TypeInv, Report, Busy, Waiting, Send
<1>3. FoundIsTrue'
  BY DEF Inv, FoundIsTrue, Report, Waiting, Send
<1>4. OutIsTrue'
  BY DEF Inv, OutIsTrue, Report, Off
<1>5. NoneLost'
  <2> DEFINE r == [instance |-> worker[w].instance, ok |-> TRUE,
                   healthy |-> worker[w].verdict = "healthy"]
  <2>1. /\ Len(results) \in Nat
        /\ Len(results') = Len(results) + 1 /\ results'[Len(results) + 1] = r
        /\ \A k \in 1..Len(results) : results'[k] = results[k]
    BY DEF Report, Send, Inv, TypeInv, OneAtATime, Busy, Result
  <2>2. \A v \in Worker : v # w => worker'[v] = worker[v]
    BY DEF Report, Inv, TypeInv
  <2>3. worker'[w].pc = "wait"
    BY DEF Report, Inv, TypeInv, Waiting, Off
  <2>4. (\E k \in 1..Len(results) : ~ results[k].ok)
           => (\E k \in 1..Len(results') : ~ results'[k].ok)
    BY <2>1
  <2>5. worker'[1].pc = "done" => worker[1].pc = "done"
    BY <2>2, <2>3, ProbePoolAssumption DEF Worker
  <2>6. SUFFICES ASSUME check = "collect", ~ ctxDone, NEW j \in remaining
                 PROVE  \/ j \in todo'
                        \/ \E v \in Worker : Busy(v)' /\ worker'[v].instance = j
                        \/ \E k \in 1..Len(results') : results'[k].instance = j
    BY <2>4, <2>5 DEF NoneLost, Inv, Report
  <2>7. CASE worker[w].instance = j
    BY <2>1, <2>7
  <2>8. CASE \E v \in Worker : Busy(v) /\ v # w /\ worker[v].instance = j
    BY <2>2, <2>8 DEF Busy
  <2>9. CASE \E k \in 1..Len(results) : results[k].instance = j
    BY <2>1, <2>9
  <2>10. QED  BY <2>6, <2>7, <2>8, <2>9 DEF NoneLost, Inv, Report
<1>6. ClosedIsQuiet'
  BY DEF Inv, ClosedIsQuiet, Report
<1>7. QED  BY <1>1, <1>2, <1>3, <1>4, <1>5, <1>6 DEF Inv

LEMMA GiveUpInv ==
    ASSUME Inv, NEW w \in Worker, GiveUp(w)
    PROVE  Inv'
<1>1. TypeInv'
  BY DEF Inv, TypeInv, GiveUp, Pc, Off
<1>2. OneAtATime'
  BY DEF Inv, OneAtATime, GiveUp, Busy, Off
<1>3. FoundIsTrue'
  BY DEF Inv, FoundIsTrue, GiveUp, Off
<1>4. OutIsTrue'
  BY DEF Inv, OutIsTrue, GiveUp
<1>5. NoneLost'
  BY DEF NoneLost, GiveUp
<1>6. ClosedIsQuiet'
  BY DEF Inv, ClosedIsQuiet, GiveUp
<1>7. QED  BY <1>1, <1>2, <1>3, <1>4, <1>5, <1>6 DEF Inv

LEMMA NoMoreJobsInv ==
    ASSUME Inv, NEW w \in Worker, NoMoreJobs(w)
    PROVE  Inv'
<1>1. TypeInv'
  BY DEF Inv, TypeInv, NoMoreJobs, Pc, Off
<1>2. OneAtATime'
  BY DEF Inv, OneAtATime, NoMoreJobs, Busy, Off
<1>3. FoundIsTrue'
  BY DEF Inv, FoundIsTrue, NoMoreJobs, Off
<1>4. OutIsTrue'
  BY DEF Inv, OutIsTrue, NoMoreJobs
<1>5. NoneLost'
  BY DEF Inv, NoneLost, NoMoreJobs, Busy
<1>6. ClosedIsQuiet'
  BY DEF Inv, ClosedIsQuiet, NoMoreJobs
<1>7. QED  BY <1>1, <1>2, <1>3, <1>4, <1>5, <1>6 DEF Inv

LEMMA CloseResultsInv ==
    ASSUME Inv, CloseResults
    PROVE  Inv'
<1>1. TypeInv'
  BY DEF Inv, TypeInv, CloseResults
<1>2. OneAtATime'
  BY DEF Inv, OneAtATime, CloseResults, Busy
<1>3. FoundIsTrue'
  BY DEF Inv, FoundIsTrue, CloseResults
<1>4. OutIsTrue'
  BY DEF Inv, OutIsTrue, CloseResults
<1>5. NoneLost'
  BY DEF Inv, NoneLost, CloseResults, Busy
<1>6. ClosedIsQuiet'
  BY DEF ClosedIsQuiet, CloseResults
<1>7. QED  BY <1>1, <1>2, <1>3, <1>4, <1>5, <1>6 DEF Inv

LEMMA CollectInv ==
    ASSUME Inv, Collect
    PROVE  Inv'
<1>0. /\ Len(results) \in Nat \ {0} /\ Head(results) = results[1] /\ 1 \in 1..Len(results)
      /\ Len(results') = Len(results) - 1
      /\ \A k \in 1..Len(results') : results'[k] = results[k + 1]
  BY DEF Collect, Inv, TypeInv
<1>1. TypeInv'
  <2>1. Head(results) \in Result /\ Head(results) = results[1] /\ 1 \in 1..Len(results)
    BY DEF Collect, Inv, TypeInv
  <2>2. results' \in Seq(Result)
    BY DEF Collect, Inv, TypeInv
  <2>3. DOMAIN out' \subseteq Enabled /\ out' \in [DOMAIN out' -> BOOLEAN]
    BY <2>1 DEF Collect, Inv, TypeInv, Put, Result
  <2>4. QED  BY <2>2, <2>3 DEF Collect, Collecting, Return, Inv, TypeInv
<1>2. OneAtATime'
  <2>1. \A k \in 1..Len(results') : k + 1 \in 1..Len(results) /\ results'[k] = results[k + 1]
    BY <1>0
  <2>2. ready' = ready /\ todo' = todo /\ worker' = worker
    BY DEF Collect
  <2>3. QED  BY <1>0, <2>1, <2>2 DEF Inv, OneAtATime, Busy
<1>3. FoundIsTrue'
  <2>1. \A k \in 1..Len(results') : k + 1 \in 1..Len(results) /\ results'[k] = results[k + 1]
    BY <1>0
  <2>2. ctxDone => ctxDone'
    BY DEF Collect, Return
  <2>3. QED  BY <2>1, <2>2 DEF Inv, FoundIsTrue, Collect
<1>4. OutIsTrue'
  <2>1. CASE ~ Head(results).ok
    BY <2>1 DEF Collect, Collecting, Return, OutIsTrue
  <2>2. CASE Head(results).ok
    <3>1. /\ results[1].instance \in DOMAIN found /\ found[results[1].instance] \in Probed
          /\ results[1].healthy = (found[results[1].instance] = "healthy")
          /\ results[1].instance \in ready
      BY <1>0, <2>2 DEF Inv, FoundIsTrue, OneAtATime
    <3>2. /\ out' = Put(out, results[1].instance, results[1].healthy)
          /\ remaining' = remaining \ {results[1].instance}
          /\ check = "collect" /\ check' = check /\ found' = found /\ ready' = ready
      BY <1>0, <2>2 DEF Collect, Collecting
    <3>3. QED  BY <3>1, <3>2 DEF Put, OutIsTrue, Inv, TypeInv
  <2>3. QED  BY <2>1, <2>2
<1>5. NoneLost'
  <2>1. SUFFICES ASSUME Head(results).ok, check = "collect", ~ ctxDone
                 PROVE  NoneLost'
    BY DEF Collect, Collecting, Return, NoneLost, Inv, TypeInv
  <2>2. \A k \in 1..Len(results) : k # 1 =>
           k - 1 \in 1..Len(results') /\ results'[k - 1] = results[k]
    BY <1>0
  <2>3. results[1].ok /\ remaining' = remaining \ {results[1].instance}
    BY <1>0, <2>1 DEF Collect
  <2>4. \A j \in remaining' : \/ j \in todo'
                              \/ \E w \in Worker : Busy(w)' /\ worker'[w].instance = j
                              \/ \E k \in 1..Len(results') : results'[k].instance = j
    <3>1. SUFFICES ASSUME NEW j \in remaining',
                          NEW k \in 1..Len(results), results[k].instance = j
                   PROVE  \E l \in 1..Len(results') : results'[l].instance = j
      BY <2>1, <2>3 DEF NoneLost, Inv, Collect, Busy
    <3>2. k # 1
      BY <2>3, <3>1
    <3>3. QED  BY <2>2, <3>1, <3>2
  <2>5. (\E k \in 1..Len(results) : ~ results[k].ok)
           => (\E k \in 1..Len(results') : ~ results'[k].ok)
    BY <2>2, <2>3
  <2>6. QED  BY <2>1, <2>4, <2>5 DEF NoneLost, Inv, Collect
<1>6. ClosedIsQuiet'
  BY DEF Inv, ClosedIsQuiet, Collect
<1>7. QED  BY <1>1, <1>2, <1>3, <1>4, <1>5, <1>6 DEF Inv

LEMMA CollectsAllInv ==
    ASSUME Inv, CollectsAll
    PROVE  Inv'
<1>1. TypeInv'
  BY DEF Inv, TypeInv, CollectsAll, Return
<1>2. OneAtATime'
  BY DEF Inv, OneAtATime, CollectsAll, Busy
<1>3. FoundIsTrue'
  BY DEF Inv, FoundIsTrue, CollectsAll, Return
<1>4. OutIsTrue'
  BY DEF OutIsTrue, CollectsAll, Return
<1>5. NoneLost'
  BY DEF NoneLost, CollectsAll, Return
<1>6. ClosedIsQuiet'
  BY DEF Inv, ClosedIsQuiet, CollectsAll
<1>7. QED  BY <1>1, <1>2, <1>3, <1>4, <1>5, <1>6 DEF Inv

LEMMA FinishedBeforeInv ==
    ASSUME Inv, FinishedBefore
    PROVE  Inv'
<1>1. TypeInv'
  BY DEF Inv, TypeInv, FinishedBefore, Return
<1>2. OneAtATime'
  BY DEF Inv, OneAtATime, FinishedBefore, Busy
<1>3. FoundIsTrue'
  BY DEF Inv, FoundIsTrue, FinishedBefore, Return
<1>4. OutIsTrue'
  BY DEF OutIsTrue, FinishedBefore, Return
<1>5. NoneLost'
  BY DEF NoneLost, FinishedBefore, Return
<1>6. ClosedIsQuiet'
  BY DEF Inv, ClosedIsQuiet, FinishedBefore
<1>7. QED  BY <1>1, <1>2, <1>3, <1>4, <1>5, <1>6 DEF Inv

LEMMA CanceledInv ==
    ASSUME Inv, Canceled
    PROVE  Inv'
<1>1. TypeInv'
  BY DEF Inv, TypeInv, Canceled, Return
<1>2. OneAtATime'
  BY DEF Inv, OneAtATime, Canceled, Busy
<1>3. FoundIsTrue'
  BY DEF Inv, FoundIsTrue, Canceled, Return
<1>4. OutIsTrue'
  BY DEF OutIsTrue, Canceled, Return
<1>5. NoneLost'
  BY DEF NoneLost, Canceled, Return
<1>6. ClosedIsQuiet'
  BY DEF Inv, ClosedIsQuiet, Canceled
<1>7. QED  BY <1>1, <1>2, <1>3, <1>4, <1>5, <1>6 DEF Inv

LEMMA ContextEndsInv ==
    ASSUME Inv, ContextEnds
    PROVE  Inv'
<1>1. TypeInv'
  BY DEF Inv, TypeInv, ContextEnds
<1>2. OneAtATime'
  BY DEF Inv, OneAtATime, ContextEnds, Busy
<1>3. FoundIsTrue'
  BY DEF Inv, FoundIsTrue, ContextEnds
<1>4. OutIsTrue'
  BY DEF Inv, OutIsTrue, ContextEnds
<1>5. NoneLost'
  BY DEF NoneLost, ContextEnds
<1>6. ClosedIsQuiet'
  BY DEF Inv, ClosedIsQuiet, ContextEnds
<1>7. QED  BY <1>1, <1>2, <1>3, <1>4, <1>5, <1>6 DEF Inv

-----------------------------------------------------------------------------
LEMMA StepInv == Inv /\ [Next]_vars => Inv'
<1>1. SUFFICES ASSUME Inv, [Next]_vars PROVE Inv'
  OBVIOUS
<1>2. CASE Caller
  BY <1>1, <1>2, StartPoolInv, NothingToProbeInv, CollectInv, CollectsAllInv,
     FinishedBeforeInv, CanceledInv DEF Caller
<1>3. CASE Feeder
  BY <1>1, <1>3, FeederEndsInv, FeedInv DEF Feeder
<1>4. ASSUME NEW w \in Worker, Work(w) PROVE Inv'
  BY <1>1, <1>4, ProbeEndsInv, JudgeInv, SendErrorInv, ReportInv, GiveUpInv,
     NoMoreJobsInv DEF Work
<1>5. CASE UNCHANGED vars
  <2>1. TypeInv'
    BY <1>1, <1>5 DEF vars, Inv, TypeInv
  <2>2. OneAtATime'
    BY <1>1, <1>5 DEF vars, Inv, OneAtATime, Busy
  <2>3. FoundIsTrue' /\ OutIsTrue'
    BY <1>1, <1>5 DEF vars, Inv, FoundIsTrue, OutIsTrue
  <2>4. NoneLost' /\ ClosedIsQuiet'
    BY <1>1, <1>5 DEF vars, Inv, NoneLost, ClosedIsQuiet, Busy
  <2>5. QED  BY <2>1, <2>2, <2>3, <2>4 DEF Inv
<1>6. QED
  BY <1>1, <1>2, <1>3, <1>4, <1>5, CannotStartInv, CloseResultsInv, ContextEndsInv
     DEF Next, ManagerGoesOn

\* The path of every probed instance, for any pool: an instance is with the
\* feeder, one worker or one result, and what is collected is what was found.
THEOREM InvAlways == Spec => []Inv
BY InitInv, StepInv, PTL DEF Spec

-----------------------------------------------------------------------------
LEMMA SizeOfInterval ==
    ASSUME NEW n \in Nat
    PROVE  IsFiniteSet(1..n) /\ Cardinality(1..n) = n
<1>1. 1 \in Int /\ n \in Int
  OBVIOUS
<1>2. /\ IsFiniteSet(1..n)
      /\ Cardinality(1..n) = IF 1 > n THEN 0 ELSE n - 1 + 1
  BY <1>1, FS_Interval, Zenon
<1>3. (IF 1 > n THEN 0 ELSE n - 1 + 1) = n
  OBVIOUS
<1>4. QED  BY <1>2, <1>3

\* A worker with something to send has not sent it yet, and each result is of
\* another instance: there are fewer results than probed instances.
LEMMA RoomForOneMore ==
    ASSUME Inv, NEW w \in Worker, Busy(w)
    PROVE  Len(results) < Capacity
<1> DEFINE sent == {results[k].instance : k \in 1..Len(results)}
           others == ready \ {worker[w].instance}
           f == [k \in 1..Len(results) |-> results[k].instance]
<1>1. Len(results) \in Nat
  BY DEF Inv, TypeInv
<1>2. IsFiniteSet(1..Len(results)) /\ Cardinality(1..Len(results)) = Len(results)
  BY <1>1, SizeOfInterval, Zenon
<1>3. IsFiniteSet(ready) /\ worker[w].instance \in ready
  BY ProbePoolAssumption, FS_Subset DEF Inv, TypeInv, OneAtATime
<1>4. /\ IsFiniteSet(others) /\ Cardinality(others) = Cardinality(ready) - 1
      /\ Cardinality(ready) \in Nat
  BY <1>3, FS_RemoveElement, FS_CardinalityType
<1>5. f \in Injection(1..Len(results), others)
  BY DEF Inv, OneAtATime, Injection, IsInjective
<1>6. Len(results) <= Cardinality(others)
  BY <1>2, <1>4, <1>5, FS_Injection
<1>7. QED  BY <1>1, <1>4, <1>6 DEF Capacity

\* Whatever the number of instances and of workers, no worker is stuck on a
\* send of an error and none sends into the closed channel.
THEOREM SendsAreAlwaysSafe == Spec => []SendsAreSafe
<1>1. Inv => SendsAreSafe
  BY RoomForOneMore DEF Inv, ClosedIsQuiet, SendsAreSafe, Busy
<1>2. QED  BY <1>1, InvAlways, PTL

\* Whatever the number of instances and of workers, Check misses results only
\* when its context has ended.
THEOREM ShortMeansCanceled == Spec => ShortOnlyWhenCanceled
<1>1. Inv /\ FinishedBefore => ctxDone
  <2>1. SUFFICES ASSUME Inv, FinishedBefore, ~ ctxDone PROVE FALSE
    BY DEF Inv, TypeInv
  <2>2. check = "collect" /\ remaining # {} /\ Len(results) = 0
    BY <2>1 DEF FinishedBefore, Collecting, Inv, TypeInv
  <2>3. \A w \in Worker : worker[w].pc = "done"
    BY <2>1 DEF FinishedBefore, Inv, ClosedIsQuiet
  <2>4. 1 \in Worker
    BY ProbePoolAssumption DEF Worker
  <2>5. todo = {}
    BY <2>1, <2>2, <2>3, <2>4 DEF Inv, NoneLost
  <2>6. QED  BY <2>1, <2>2, <2>3, <2>5 DEF Inv, NoneLost, Busy
<1>2. Inv /\ [Next]_vars => [FinishedBefore => ctxDone]_vars
  BY <1>1
<1>3. QED  BY <1>2, InvAlways, PTL DEF Spec, ShortOnlyWhenCanceled

-----------------------------------------------------------------------------
(* The refinement *)

LEMMA StepsOfThePool ==
    ASSUME Inv, Next
    PROVE  [Promise!Next]_<<ready, found, Answer>>
<1> USE DEF Answer, Returned, Promise!NoAnswer, Promise!Error
<1>1. CASE CollectsAll \/ NothingToProbe
  <2>1. Promise!Answers
    BY <1>1 DEF CollectsAll, NothingToProbe, Collecting, Return, NotReady, Inv, TypeInv,
       OutIsTrue, Probed, Promise!Answers, Promise!Health
  <2>2. QED  BY <2>1 DEF Promise!Next
<1>2. CASE CannotStart \/ FinishedBefore \/ Canceled
  <2>1. Promise!Fails
    BY <1>2 DEF CannotStart, FinishedBefore, Canceled, Collecting, Return, Promise!Fails
  <2>2. QED  BY <2>1 DEF Promise!Next
<1>3. CASE Collect
  <2>1. CASE Head(results).ok
    BY <1>3, <2>1 DEF Collect, Collecting
  <2>2. CASE ~ Head(results).ok
    <3>1. Promise!Fails
      BY <1>3, <2>2 DEF Collect, Collecting, Return, Promise!Fails
    <3>2. QED  BY <3>1 DEF Promise!Next
  <2>3. QED  BY <2>1, <2>2
<1>4. ASSUME NEW w \in Worker, NEW verdict \in Verdict, ProbeEnds(w, verdict)
      PROVE  Promise!Next
  <2>1. worker[w].instance \in ready \ DOMAIN found
    BY <1>4 DEF Inv, OneAtATime, FoundIsTrue, Busy, ProbeEnds
  <2>2. \E v \in Promise!Verdict : Promise!Probe(worker[w].instance, v)
    BY <1>4, <2>1 DEF ProbeEnds, Put, Verdict, Promise!Verdict, Promise!Probe
  <2>3. QED  BY <2>1, <2>2 DEF Promise!Next, Inv, TypeInv
<1>5. CASE StartPool \/ FeederEnds \/ CloseResults \/ ContextEnds \/ ManagerGoesOn
  BY <1>5 DEF StartPool, FeederEnds, CloseResults, ContextEnds, ManagerGoesOn, vars
<1>6. ASSUME NEW w \in Worker, NEW i \in Enabled, Feed(w, i)
      PROVE  UNCHANGED <<ready, found, Answer>>
  BY <1>6 DEF Feed
<1>7. ASSUME NEW w \in Worker,
             Judge(w) \/ SendError(w) \/ Report(w) \/ GiveUp(w) \/ NoMoreJobs(w)
      PROVE  UNCHANGED <<ready, found, Answer>>
  BY <1>7 DEF Judge, SendError, Report, GiveUp, NoMoreJobs
<1>8. QED
  BY <1>1, <1>2, <1>3, <1>4, <1>5, <1>6, <1>7 DEF Next, Caller, Feeder, Work

\* For every set of instances and size of the pool, Check gives the answer
\* that HealthCheck promises: complete, and true to the probes.
THEOREM PoolImplementsHealthCheck == Spec => ImplementsHealthCheck
<1>1. Init => Promise!Init
  BY DEF Init, Answer, Returned, Promise!Init, Promise!NoAnswer
<1>2. Inv /\ [Next]_vars => [Promise!Next]_<<ready, found, Answer>>
  <2>1. SUFFICES ASSUME Inv, [Next]_vars
                 PROVE  [Promise!Next]_<<ready, found, Answer>>
    OBVIOUS
  <2>2. CASE Next
    BY <2>1, <2>2, StepsOfThePool
  <2>3. CASE UNCHANGED vars
    BY <2>3 DEF vars, Answer, Returned
  <2>4. QED  BY <2>1, <2>2, <2>3
<1>3. QED
  BY <1>1, <1>2, InvAlways, PTL DEF Spec, ImplementsHealthCheck, Promise!Spec
=============================================================================
