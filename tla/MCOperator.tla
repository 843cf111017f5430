---------------------------- MODULE MCOperator ----------------------------
(***************************************************************************)
(* Instances of Operator for TLC.                                          *)
(***************************************************************************)
EXTENDS Claims, TLC

CONSTANTS
    a, b, none,
    Scenarios          \* the disturbances that may happen together in a run

TwoInstances == {a, b}
NoIdentity == {none}

\* TLC may exchange the two instances: nothing else in a run names them.
Permutation == Permutations(TwoInstances)

\* No disturbance happens more than three times, and in a scenario only those
\* that it names, as often as it says.
ThreeTimes == [k \in Disturbance |-> 3]
Limits(f) == [k \in Disturbance |-> IF k \in DOMAIN f THEN f[k] ELSE 0]

Failover == Limits([aurora |-> 1, discovery |-> 1, probe |-> 1])
Crash == Limits([aurora |-> 1, fault |-> 2])
Eviction == Limits([aurora |-> 1, pod |-> 1])
Untrusted == Limits([discovery |-> 2, resource |-> 1])
Refused == Limits([spec |-> 1, discovery |-> 2])
Repaired == Limits([spec |-> 1, resource |-> 1])
StaleLabels == Limits([aurora |-> 1, fault |-> 1, watch |-> 1])
StalePods == Limits([pod |-> 1, fault |-> 1, watch |-> 1])
Safety == {Failover, Crash, Eviction, Untrusted, Refused, Repaired,
           StaleLabels, StalePods}

Recovery == {Limits([aurora |-> 1, discovery |-> 1, fault |-> 1]),
             Limits([spec |-> 1, discovery |-> 1, fault |-> 1]),
             Limits([spec |-> 1, pod |-> 1, fault |-> 1]),
             Limits([resource |-> 1, pod |-> 1, fault |-> 1]),
             Limits([aurora |-> 1, watch |-> 1])}
OneChange == {Limits([aurora |-> 1])}
FailedProbes == {Limits([aurora |-> 1, probe |-> 3])}
MaskedFailure == {Limits([aurora |-> 1, discovery |-> 1])}
FailedDiscoveries == {Limits([discovery |-> 2])}

\* The operator has settled on the cluster: discovered, deployed, monitored,
\* labelled and recorded.
SettledInit ==
    /\ \E w \in Instance, id \in Dbi :
          LET role(i) == IF i = w THEN "writer" ELSE "reader"
              members == [writer |-> {w},
                          reader |-> IF Instance = {w} THEN {w} ELSE Instance \ {w}]
          IN  /\ aurora = [i \in Instance |-> [role |-> role(i), dbi |-> id]]
              /\ status = [topo |-> aurora, missing |-> Empty,
                           instances |-> [i \in Instance |->
                               [Unknown(aurora[i]) EXCEPT !.healthy = TRUE,
                                                  !.succ = RecoveryThreshold]],
                           applied |-> members, everApplied |-> TRUE,
                           trusted |-> TRUE, failures |-> 0, obsGen |-> 1]
              /\ pods = [i \in Instance |->
                           [up |-> TRUE, ready |-> TRUE,
                            writer |-> i \in members.writer,
                            reader |-> i \in members.reader, role |-> role(i)]]
    /\ spec = [gen |-> 1, disabled |-> {}, zoneConflict |-> {}]
    /\ deployments = [i \in Instance |-> NoToken]
    /\ behind = Empty
    /\ disc = DiscIdle
    /\ mon = MonIdle
    /\ rec = RecIdle
    /\ used \in {[k \in Disturbance |-> Bound[k] - s[k]] : s \in Scenarios}

\* The resource is new, and nothing disturbs the operator.
QuietInit == Created /\ used = Bound

\* The first writer is always a, as the instances are interchangeable.
FirstWriter == a \in DOMAIN aurora /\ aurora[a].role = "writer"
ConvergeInit == (QuietInit \/ SettledInit) /\ FirstWriter

\* Fairness of the jobs and of the reconciler in a form that is cheap to check.
\* As failures and restarts are bounded, weak fairness of Discovery and Reconcile
\* means that each is time and again at work and time and again idle, and weak
\* fairness of Monitor the same as long as discovery stays trusted.
Recurrence ==
    /\ []<>(disc.pc = "idle") /\ []<>(disc.pc # "idle")
    /\ []<>(mon.pc = "idle") /\ (<>[]CachedTrusted(status) => []<>(mon.pc # "idle"))
    /\ []<>(rec.pc = "idle") /\ []<>(rec.pc # "idle")
    /\ WF_vars(TimePasses)
    /\ \A i \in Instance : WF_vars(Kubelet(i)) /\ WF_vars(WatchCatchesUp(i))

SettledSpec == SettledInit /\ [][Next]_vars
SettledFairSpec == SettledSpec /\ Fairness
ConvergeSpec == ConvergeInit /\ [][Next]_vars /\ Recurrence
=============================================================================
