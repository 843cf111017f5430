---------------------------- MODULE HealthCheck ----------------------------
(***************************************************************************)
(* What a round of health checks promises to the monitor job that asks for *)
(* it: one answer, that is either an error or the health of every enabled  *)
(* instance.  The answer is given only when each instance with a ready pod *)
(* has been probed, and it says what that probe has found: a probe that    *)
(* was cut short, or that only showed that the monitor is misconfigured,   *)
(* is never the reason to call a backend unhealthy.                        *)
(***************************************************************************)
CONSTANT Enabled       \* the instances to be checked

VARIABLES
    ready,             \* those with a ready pod
    found,             \* how the probes have ended so far
    answer             \* what the caller gets

Verdict == {"healthy", "unhealthy", "misconfigured", "canceled"}

\* An answer is an error or a health for every enabled instance.
NoAnswer == [kind |-> "none", health |-> [i \in {} |-> FALSE]]
Error == [kind |-> "error", health |-> [i \in {} |-> FALSE]]
Health(f) == [kind |-> "health", health |-> f]

Init ==
    /\ ready \in SUBSET Enabled
    /\ found = [i \in {} |-> "canceled"]
    /\ answer = NoAnswer

Probe(i, verdict) ==
    /\ i \in ready \ DOMAIN found
    /\ found' = [j \in DOMAIN found \cup {i} |-> IF j = i THEN verdict ELSE found[j]]
    /\ UNCHANGED <<ready, answer>>

Answers ==
    /\ answer = NoAnswer
    /\ \A i \in ready : i \in DOMAIN found /\ found[i] \in {"healthy", "unhealthy"}
    /\ answer' = Health([i \in Enabled |-> i \in ready /\ found[i] = "healthy"])
    /\ UNCHANGED <<ready, found>>

Fails ==
    /\ answer = NoAnswer
    /\ answer' = Error
    /\ UNCHANGED <<ready, found>>

Next ==
    \/ \E i \in Enabled, verdict \in Verdict : Probe(i, verdict)
    \/ Answers
    \/ Fails

Spec == Init /\ [][Next]_<<ready, found, answer>>
=============================================================================
