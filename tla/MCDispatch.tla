----------------------------- MODULE MCDispatch -----------------------------
(***************************************************************************)
(* The dispatchers that make jobs recur and the discovery run such a job   *)
(* is, in one run of the checker: a behaviour is one of the two, and the   *)
(* variables of the other keep their first value.                          *)
(***************************************************************************)
EXTENDS MCDiscoveryRun, Recurrence

\* The rest of the dispatchers is that of the one of domains.
ASSUME MCDispatchAssumption == "domain" \in Dispatchers

VARIABLE part

discoveryVars == vars

\* While a discovery runs the dispatchers rest; there is one such state.
AtRest ==
    /\ kind = "domain" /\ now = Horizon /\ jobs = <<>>
    /\ domain = [updated |-> Horizon, last |-> None]
    /\ tick = [t \in Ticks |-> Idle] /\ editor = None
    /\ faults = 0 /\ edits = 0 /\ excused = {}

DispatchInit ==
    /\ Init
    /\ \/ part = "discovery" /\ AtRest
       \/ part = "recurrence" /\ RecurrenceInit
DispatchNext ==
    /\ UNCHANGED part
    /\ \/ part = "discovery" /\ Next /\ UNCHANGED recurrenceVars
       \/ part = "recurrence" /\ RecurrenceNext /\ UNCHANGED discoveryVars

\* The fairness of DiscoveryRun and of Recurrence, each of its own behaviours: what the other
\* part could do is no reason to call a behaviour unfair.
DispatchFairness ==
    /\ WF_discoveryVars(part = "discovery" /\ Start)
    /\ WF_discoveryVars(part = "discovery" /\ LoopHead)
    /\ WF_discoveryVars(part = "discovery" /\ Dispatch)
    /\ WF_discoveryVars(part = "discovery" /\ HopEnds)
    /\ WF_discoveryVars(part = "discovery" /\ Final)
    /\ \A n \in Names : WF_discoveryVars(part = "discovery" /\ Spawn(n))
    /\ \A n \in Names : WF_discoveryVars(part = "discovery" /\ GoStep(n))
    /\ WF_recurrenceVars(part = "recurrence" /\ \E t \in Ticks : Poll(t))
    /\ \A t \in Ticks : WF_recurrenceVars(part = "recurrence" /\ TickStep(t))
DispatchSpec ==
    DispatchInit /\ [][DispatchNext]_<<part, discoveryVars, recurrenceVars>> /\ DispatchFairness

DispatchTypeOK == part \in {"discovery", "recurrence"} /\ TypeOK /\ RecurrenceTypeOK

=============================================================================
