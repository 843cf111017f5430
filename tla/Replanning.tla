----------------------------- MODULE Replanning -----------------------------
(***************************************************************************)
(* The planner applied over and over to a situation that does not change:  *)
(* the membership of one plan is what the next one finds as last applied.  *)
(* Every combination of planned instances, last applied membership,        *)
(* missing instances and disabled instances is a starting point.           *)
(***************************************************************************)
EXTENDS Planner

VARIABLES plans, applied, missing, disabled

situation == <<plans, missing, disabled>>

\* The records that membership tells apart; a disabled instance is unhealthy.
PlanRecord ==
    {r \in InstanceRecord : /\ r.dbi = NoDbi /\ r.fail = 0 /\ r.succ = 0
                            /\ r.disabled => ~ r.healthy}

Planned == PlanMembership(plans, applied, missing, disabled)

\* The planner is given whatever the status holds: it does not rely on there
\* being one writer, nor on a missing instance being absent from the topology,
\* which a stale list of missing instances in the status can break.
Init ==
    /\ plans \in UNION {[S -> PlanRecord] : S \in SUBSET Instance}
    /\ missing \in UNION {[S -> [count : 1..RemoveAfterMissingCount]] :
                              S \in SUBSET Instance}
    /\ disabled \in {S \in SUBSET Instance :
                        S \cap DOMAIN plans = {i \in DOMAIN plans : plans[i].disabled}}
    /\ applied \in Membership

Replan ==
    /\ applied' = Planned
    /\ UNCHANGED situation

Spec == Init /\ [][Replan]_<<situation, applied>>

\* Plans do not flap: planning again on top of the membership that Plan has just
\* computed, with nothing else changed, gives the same membership, whichever of
\* retention, reader fallback and single-writer rules have applied.
PlanIsStable == PlanMembership(plans, Planned, missing, disabled) = Planned

\* From a single last applied writer the planner gets to a single writer or to
\* none, also while an old writer is retained as missing or two are discovered.
PlanKeepsOneWriter ==
    (\A i, j \in applied.writer : i = j) => (\A i, j \in Planned.writer : i = j)
=============================================================================
