------------------------------- MODULE Claims -------------------------------
(***************************************************************************)
(* Convergence of the operator, and statements its documentation makes     *)
(* about it (src/README.md) as formulas over Operator.  The runs that check *)
(* the latter find behaviours of the code that differ from the statement.  *)
(***************************************************************************)
EXTENDS Operator

\* What the Services should have as members once nothing changes any more.
AuroraRole(role) == {i \in DOMAIN aurora : aurora[i].role = role}
Usable(role) == AuroraRole(role) \ spec.disabled

Converged ==
    /\ DOMAIN aurora \cap DOMAIN deployments = DOMAIN aurora \ spec.disabled
    /\ Labelled("writer") = Usable("writer")
    /\ Labelled("reader") = IF Usable("reader") # {} THEN Usable("reader")
                            ELSE IF AuroraRole("reader") = {} THEN Usable("writer")
                            ELSE {}

\* No discovery job records its result while a reconcile is in progress.
NoOverlap == disc.pc = "write" /\ disc'.pc = "idle" => rec.pc = "idle"

\* The operator recovers: when failovers, failed discoveries, failed probes,
\* API errors and manager restarts have ceased, every enabled Aurora instance
\* comes to have its resources, a disabled one comes to have none, the labels of
\* the pods come to match the roles of the instances, and it stays so.  Assumed is that from
\* some time on discovery results do not arrive in the middle of a reconcile
\* (the discovery interval is seconds, a reconcile far less): without that,
\* updateStatus could put back a stale DiscoveryTrusted condition for ever.
Converges == <>[][NoOverlap]_vars /\ <>[](spec.zoneConflict = {}) => <>[]Converged

-----------------------------------------------------------------------------
(* Documented behaviour *)

\* README.md:83: the Writer Service is switched to a discovered writer with a
\* ready pod "without waiting for the next Monitor success".  So once it has
\* been switched, it is not emptied again before a monitor round that knows the
\* instance as the writer has found it unhealthy.
WriterSwitchNotUndone ==
    [][rec.pc = "idle" /\ rec'.pc # "idle" /\ rec'.trusted
       => \A w \in DOMAIN status.topo \ spec.disabled :
             /\ status.topo[w].role = "writer" /\ pods[w].ready
             /\ status.applied.writer = {w} /\ rec'.plan.members.writer = {}
             => w \in DOMAIN status.instances /\ status.instances[w].role = "writer"]_vars

\* README.md:126: "RestartWriters restarts the PgBouncer Deployments connected
\* to the old and new Writer members on Writer changes": when updateStatus
\* records that change, their Deployments carry its restart token.
WriterChangeRestarts ==
    [][LET old == status.applied.writer
           new == status'.applied.writer
       IN  old # new /\ old # {} /\ WriterChangePolicy = "RestartWriters" =>
              \A i \in (old \cup new) \cap DOMAIN deployments :
                  deployments[i].prev = old /\ deployments[i].next = new]_vars

\* README.md:360: failureThreshold is the number of consecutive untrusted
\* discoveries "allowed before freezing instead of using cached topology":
\* once that many are recorded, the cached topology is not trusted.
FrozenAfterThreshold ==
    status.failures >= DiscoveryFailureThreshold => ~ status.trusted

\* README.md:475 and :640: with readerEmptyFallback "the Reader Service is not
\* emptied and points at the fallback Writer" while there is no usable Reader:
\* an applied plan with a writer has a reader too, unless the user has disabled
\* every discovered reader.
ReaderFallsBackToWriter ==
    rec.pc = "write" /\ ~ rec.plan.frozen /\ ReaderEmptyFallback
        /\ rec.plan.members.writer # {}
        /\ ~ ReaderFallbackSuppressed(rec.plan.instances)
    => rec.plan.members.reader # {}

\* README.md:472: removeAfterMissingCount is the number of "consecutive trusted
\* discovery cycles an instance must be missing": a discovery that fails, and
\* for which the recorded topology stands in, does not count.
FailuresCountNothingMissing ==
    [][disc.pc = "write" /\ disc.failed /\ disc'.pc = "idle"
       => \A i \in DOMAIN status.missing \cap DOMAIN status'.missing :
             status'.missing[i].count <= status.missing[i].count]_vars

\* README.md:112: for an instance that is gone from Aurora for good, "after
\* retention the per-instance resources are deleted".
RemovedResourcesAreDeleted ==
    \A i \in Instance :
        <>[](i \notin DOMAIN aurora) /\ <>[](spec.zoneConflict = {})
        => <>[](i \notin DOMAIN deployments)
=============================================================================
