------------------------------ MODULE MCPlans ------------------------------
(***************************************************************************)
(* Plans for TLC.  A behaviour is about one question: how membership is    *)
(* planned again and again in one situation (Replanning), how the health   *)
(* of one instance follows a history of rounds (Hysteresis), or how plans  *)
(* are reported while the cluster changes (Reporting).                     *)
(***************************************************************************)
EXTENDS Replanning, Hysteresis, Reporting

VARIABLE question

planning == <<plans, applied, missing, disabled>>
monitoring == <<record, history, last>>

\* The situation of a behaviour that is not about planning.
NoSituation ==
    /\ plans = NoRecords /\ missing = NoRecords /\ disabled = {}
    /\ applied = NoMembers

PlansInit ==
    /\ question \in {"membership", "health", "report"}
    /\ question # "membership" => NoSituation
    /\ Init /\ HistoryInit /\ ReportInit

\* There is nothing to plan without a situation: the behaviours about health end
\* by planning nothing, over and over.
PlansNext ==
    /\ UNCHANGED question
    /\ \/ question # "report" /\ Replan /\ UNCHANGED <<monitoring, vars>>
       \/ question = "health" /\ HistoryNext /\ UNCHANGED <<planning, vars>>
       \/ question = "report" /\ ReportNext /\ UNCHANGED <<planning, monitoring>>

\* Reporting's fairness is asked of the behaviours about reports.
PlansSpec ==
    /\ PlansInit
    /\ [][PlansNext]_<<question, planning, monitoring, vars>>
    /\ question = "report" => Fairness

\* PageTellsTheState, of the behaviours about reports.
ReportedPageTellsTheState == question = "report" => PageTellsTheState
=============================================================================
