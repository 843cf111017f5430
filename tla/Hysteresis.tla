----------------------------- MODULE Hysteresis -----------------------------
(***************************************************************************)
(* The health of one instance over a history of monitor rounds, as the     *)
(* planner computes it from one round to the next, against a definition    *)
(* that looks at the whole history.                                        *)
(***************************************************************************)
EXTENDS Planner, Sequences

CONSTANTS instance, Rounds

ASSUME HysteresisAssumption == instance \in Instance /\ Rounds \in Nat

VARIABLES
    record,   \* status.instances, of this instance
    history,  \* the rounds that say something about the instance
    last      \* the identity of the round before

\* A round finds the instance good or bad, or the check as a whole fails and
\* the recorded health is reused, or the instance is disabled.  The round has
\* the identity that discovery has recorded, which may be unknown.
Check == {"good", "bad", "cached", "disabled"}

\* The instance is another one than in the round before.
New(dbi) == history = <<>> \/ (NoDbi \notin {dbi, last} /\ dbi # last)

HistoryInit ==
    /\ record = [i \in {} |-> {}]
    /\ history = <<>>
    /\ last = NoDbi

Monitor(check, dbi) ==
    /\ Len(history) < Rounds
    /\ LET obs == [role |-> "writer", dbi |-> dbi]
       IN record' = [i \in {instance} |->
              InstancePlan(i, obs, record, IF check = "disabled" THEN {i} ELSE {},
                           check = "cached", IF check = "good" THEN {i} ELSE {})]
    /\ history' = IF New(dbi) \/ check # "cached"
                  THEN Append(history, [check |-> check, new |-> New(dbi)]) ELSE history
    /\ last' = dbi

HistoryNext == \E check \in Check, dbi \in Dbi : Monitor(check, dbi)

HistorySpec == HistoryInit /\ [][HistoryNext]_<<record, history, last>>

-----------------------------------------------------------------------------
(* The reference *)

All(h, from, to, check) == \A j \in from..to : h[j].check = check

GoesUp(h, k) ==
    /\ h[k].check = "good"
    /\ h[k].new \/ (k >= RecoveryThreshold /\ All(h, k - RecoveryThreshold + 1, k, "good"))

GoesDown(h, k) ==
    \/ h[k].check \in {"cached", "disabled"}
    \/ /\ h[k].check = "bad"
       /\ h[k].new \/ (k >= FailureThreshold /\ All(h, k - FailureThreshold + 1, k, "bad"))

\* An instance is healthy if it has gone up, by its first good check as a new
\* physical instance or by RecoveryThreshold good checks in a row, and has not
\* gone down since, by FailureThreshold bad checks in a row, by being disabled
\* or by being replaced.
Up(h) ==
    \E k \in 1..Len(h) : GoesUp(h, k) /\ \A j \in k+1..Len(h) : ~ GoesDown(h, j)

\* An instance is healthy exactly if its history says so.  Rounds without a result
\* do not count, and an identity that becomes known or unknown is not a replacement.
\* So say the counters of applyMonitorThresholds, whatever order rounds come in.
HealthFollowsHistory ==
    instance \in DOMAIN record => (record[instance].healthy <=> Up(history))
=============================================================================
