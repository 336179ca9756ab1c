--------------------------- MODULE ScanLifecycle ---------------------------
(***************************************************************************)
(* The life of a scan: the API and scheduler operations that create and    *)
(* cancel it (internal/api/handlers/handlers.go, scheduler.go), the row it *)
(* has in scan_jobs, the queue job that carries it, and the handler that   *)
(* runs it (handleScan in internal/modules/dispatcher.go) with the         *)
(* process-wide CancelRegistry the two sides meet in.                      *)
(*                                                                         *)
(* The queue is used through what it promises, JobDelivery: copy <<s, 1>>  *)
(* is the job of scan s, <<s, 2>> the duplicate an LPUSH with a lost reply *)
(* leaves.  Each copy is run by one worker, again after an error, and the  *)
(* handler of one copy interleaves with everything else between two        *)
(* accesses to the row, the registry or its context.  The scanners are one *)
(* step that returns nil or an error, or panics; targets, options, type,   *)
(* results and the WebSocket notice are left out.  A scan is a member of   *)
(* Scans because its id is a fresh uuid; nothing deletes a scan row.       *)
(***************************************************************************)
EXTENDS Naturals, FiniteSets

CONSTANTS Scans,        \* ids of the scans of one organisation
          Duplicable,   \* bound: scans whose job the queue may duplicate
          Requests,     \* calls of DELETE /scans/:id
          Limit,        \* MaxConcurrentScans of the organisation
          MaxRetry,     \* job.MaxRetry
          None,         \* absent registry entry, absent target
          MaxFaults,    \* bound: statements that fail, panics, timeouts, duplicated jobs
          MaxRestarts   \* bound: process restarts

ASSUME ScanAssumption ==
    /\ Duplicable \subseteq Scans
    /\ Limit \in Nat \ {0} /\ MaxRetry \in Nat
    /\ MaxFaults \in Nat /\ MaxRestarts \in Nat
    /\ None \notin Scans /\ None \notin Scans \X {1, 2}

VARIABLES row,       \* scan_jobs.status, "none" before the insert
          api,       \* how far the request that creates the scan has come
          qstate,    \* the queue, see JobDelivery
          tries,     \* calls of handleScan made for a copy
          pc,        \* where the handler of a copy is
          stopped,   \* its scanCtx was cancelled, or ran out of time
          verdict,   \* the final status it decided on
          cancels,   \* CancelRegistry: the copy whose scanCancel is registered
          gauge,     \* metrics.ActiveScans
          cpc,       \* where a cancel request is
          target,    \* the scan it is about
          closing,   \* the queue's context is cancelled (Stop)
          told,      \* history: scans for which DELETE answered 200
          excused,   \* history: scans something went wrong with, see HonestStatus
          faults, restarts

Copies == Scans \X {1, 2}

Queue == INSTANCE JobDelivery WITH
    Items <- Copies, Budget <- MaxRetry + 1, state <- qstate, tries <- tries

reqVars   == <<cpc, target, told>>
queueVars == <<qstate, tries>>
runVars   == <<pc, stopped, verdict>>
envVars   == <<closing, restarts>>
vars == <<row, api, queueVars, runVars, cancels, gauge, reqVars, excused, faults, envVars>>

Statuses == {"pending", "running", "completed", "failed", "cancelled"}
PCs      == {"off", "due", "load", "mark", "check", "run", "write", "return"}

Active(s)  == row[s] \in {"pending", "running"}
CtxErr(c)  == stopped[c] \/ closing
InHandler(c) == pc[c] \in {"load", "mark", "check", "run", "write", "return"}
CopiesOf(s) == {s} \X {1, 2}
DeliveredOnce(s) == Cardinality({c \in CopiesOf(s) : qstate[c] # "absent"}) = 1

Excuse(ss) == excused' = excused \cup ss
\* A fault that hits scan s, within the bound.
Fault(s) == faults < MaxFaults /\ faults' = faults + 1 /\ Excuse({s})
NoFault  == UNCHANGED <<faults, excused>>

\* Bound: a scan whose job is duplicated is the only one.
Alone(s) == \A t \in Scans \ {s} : api[t] = "none"
Room(s) == \A t \in Scans \ {s} : qstate[<<t, 2>>] = "absent"

-----------------------------------------------------------------------------
\* Creating scans: ScanHandler.Create and Rerun, and the scheduler.

\* EnforceScanThrottle: count the active rows and let the request through, or answer 429.
Admit(s) ==
    /\ api[s] = "none" /\ Room(s)
    /\ Cardinality({t \in Scans : Active(t)}) < Limit
    /\ api' = [api EXCEPT ![s] = "admitted"]
    /\ UNCHANGED <<row, queueVars, runVars, cancels, gauge, reqVars, excused, faults, envVars>>

\* db.Create of the row; when it fails the request ends there.
InsertRow(s) ==
    \/ /\ row' = [row EXCEPT ![s] = "pending"]
       /\ api' = [api EXCEPT ![s] = "inserted"]
       /\ NoFault
    \/ /\ Fault(s)
       /\ api' = [api EXCEPT ![s] = "answered"]
       /\ UNCHANGED row

Insert(s) ==
    /\ api[s] = "admitted" /\ InsertRow(s)
    /\ UNCHANGED <<queueVars, runVars, cancels, gauge, reqVars, envVars>>

\* POST /scans/:id/rerun: a new row from the row of scan t; no throttle.
Rerun(s, t) ==
    /\ api[s] = "none" /\ Room(s) /\ row[t] # "none" /\ InsertRow(s)
    /\ UNCHANGED <<queueVars, runVars, cancels, gauge, reqVars, envVars>>

\* dispatchDomainCronScans: a new row for a domain whose cron is due; no throttle.
DomainCron(s) ==
    /\ api[s] = "none" /\ Room(s) /\ InsertRow(s)
    /\ UNCHANGED <<queueVars, runVars, cancels, gauge, reqVars, envVars>>

\* queue.Enqueue, which reports nothing back, and the answer 201.
EnqueueScan(s) ==
    /\ api[s] = "inserted"
    /\ api' = [api EXCEPT ![s] = "answered"]
    /\ \/ /\ Queue!Submit({<<s, 1>>})
          /\ IF qstate'[<<s, 1>>] = "waiting" THEN UNCHANGED excused ELSE Excuse({s})
          /\ UNCHANGED faults
       \/ s \in Duplicable /\ Alone(s) /\ Fault(s) /\ Queue!Submit(CopiesOf(s))
    /\ UNCHANGED <<row, runVars, cancels, gauge, reqVars, envVars>>

-----------------------------------------------------------------------------
\* Cancelling: ScanHandler.Cancel.

\* It reads the row and refuses a scan that is neither pending nor running.
CancelReads(k, s) ==
    /\ cpc[k] = "new" /\ Active(s)
    /\ cpc' = [cpc EXCEPT ![k] = "read"]
    /\ target' = [target EXCEPT ![k] = s]
    /\ Excuse({s})
    /\ UNCHANGED <<row, api, queueVars, runVars, cancels, gauge, told, faults, envVars>>

\* GlobalCancelRegistry.Cancel: take the entry out and call it.
CancelSignals(k) ==
    /\ cpc[k] = "read"
    /\ cpc' = [cpc EXCEPT ![k] = "signalled"]
    /\ LET c == cancels[target[k]] IN
         /\ stopped' = IF c = None THEN stopped ELSE [stopped EXCEPT ![c] = TRUE]
         /\ cancels' = [cancels EXCEPT ![target[k]] = None]
    /\ UNCHANGED <<row, api, queueVars, pc, verdict, gauge, target, told, excused, faults, envVars>>

\* UPDATE status = 'cancelled', whatever the row holds by now; 200, or 500 when it fails.
CancelWrites(k) ==
    /\ cpc[k] = "signalled"
    /\ cpc' = [cpc EXCEPT ![k] = "done"]
    /\ target' = [target EXCEPT ![k] = None]
    /\ \/ /\ row' = [row EXCEPT ![target[k]] = "cancelled"]
          /\ told' = told \cup {target[k]}
          /\ NoFault
       \/ Fault(target[k]) /\ UNCHANGED <<row, told>>
    /\ UNCHANGED <<api, queueVars, runVars, cancels, gauge, envVars>>

-----------------------------------------------------------------------------
\* The queue worker and handleScan, for one copy of a scan's job.

GoTo(c, label) == pc' = [pc EXCEPT ![c] = label]

TakeUp(c) ==
    /\ Queue!TakeUp(c)
    /\ GoTo(c, "due")
    /\ UNCHANGED <<row, api, stopped, verdict, cancels, gauge, reqVars, excused, faults, envVars>>

\* The handler called without registering its cancel function (mutant).
BeginUnregistered(c) ==
    /\ pc[c] = "due"
    /\ Queue!Try(c)
    /\ stopped' = [stopped EXCEPT ![c] = FALSE]
    /\ GoTo(c, "load")
    /\ UNCHANGED <<row, api, cancels, verdict, gauge, reqVars, excused, faults, envVars>>

\* The first call, or a retry after the backoff: context.WithCancel, then Register, which
\* replaces an entry another copy of the same scan may have there.
Begin(c) ==
    /\ pc[c] = "due"
    /\ Queue!Try(c)
    /\ stopped' = [stopped EXCEPT ![c] = FALSE]
    /\ cancels' = [cancels EXCEPT ![c[1]] = c]
    /\ GoTo(c, "load")
    /\ UNCHANGED <<row, api, verdict, gauge, reqVars, excused, faults, envVars>>

\* db.First of the row, which must exist.
Load(c) ==
    /\ pc[c] = "load"
    /\ \/ row[c[1]] # "none" /\ GoTo(c, "mark") /\ NoFault
       \/ row[c[1]] = "none" /\ GoTo(c, "return") /\ NoFault
       \/ Fault(c[1]) /\ GoTo(c, "return")
    /\ UNCHANGED <<row, api, queueVars, stopped, verdict, cancels, gauge, reqVars, envVars>>

\* UPDATE status = 'running' (a failure is only logged), then ActiveScans.Inc().
Mark(c) ==
    /\ pc[c] = "mark"
    /\ \/ row' = [row EXCEPT ![c[1]] = "running"] /\ NoFault
       \/ Fault(c[1]) /\ UNCHANGED row
    /\ gauge' = gauge + 1
    /\ GoTo(c, "check")
    /\ UNCHANGED <<api, queueVars, stopped, verdict, cancels, reqVars, envVars>>

\* "Check if already cancelled before we start": an error return, past no Dec.
Check(c) ==
    /\ pc[c] = "check"
    /\ GoTo(c, IF CtxErr(c) THEN "return" ELSE "run")
    /\ UNCHANGED <<row, api, queueVars, stopped, verdict, cancels, gauge, reqVars, excused, faults, envVars>>

\* The final status whatever ended the run (mutant).
RunEndsCancelled(c) ==
    /\ pc[c] = "run"
    /\ verdict' = [verdict EXCEPT ![c] = "cancelled"]
    /\ gauge' = gauge - 1
    /\ GoTo(c, "write")
    /\ UNCHANGED <<row, api, queueVars, stopped, cancels, reqVars, excused, faults, envVars>>

\* The scanners return nil (also when they were interrupted) or an error; ActiveScans.Dec();
\* the final status is chosen by the error and the context at this moment.
RunEnds(c) ==
    /\ pc[c] = "run"
    /\ verdict' \in {[verdict EXCEPT ![c] = v] :
                        v \in {"completed", IF CtxErr(c) THEN "cancelled" ELSE "failed"}}
    /\ gauge' = gauge - 1
    /\ GoTo(c, "write")
    /\ UNCHANGED <<row, api, queueVars, stopped, cancels, reqVars, excused, faults, envVars>>

\* A panic in a scanner unwinds through the deferred calls only.
RunPanics(c) ==
    /\ pc[c] = "run" /\ Fault(c[1])
    /\ GoTo(c, "return")
    /\ UNCHANGED <<row, api, queueVars, stopped, verdict, cancels, gauge, reqVars, envVars>>

\* The 30 minute deadline the queue puts on each call.
TimesOut(c) ==
    /\ pc[c] = "run" /\ ~stopped[c] /\ Fault(c[1])
    /\ stopped' = [stopped EXCEPT ![c] = TRUE]
    /\ UNCHANGED <<row, api, queueVars, pc, verdict, cancels, gauge, reqVars, envVars>>

\* UPDATE with the final status; a failure is only logged.
WriteFinal(c) ==
    /\ pc[c] = "write"
    /\ \/ row' = [row EXCEPT ![c[1]] = verdict[c]] /\ NoFault
       \/ Fault(c[1]) /\ UNCHANGED row
    /\ GoTo(c, "return")
    /\ UNCHANGED <<api, queueVars, stopped, verdict, cancels, gauge, reqVars, envVars>>

\* What the worker does with the result: done; again after a backoff; or, with its retries
\* used up, the dead-letter sink, whose insert may fail.
QueueDecides(c, ok) ==
    \/ ok /\ Queue!Finish(c) /\ GoTo(c, "off") /\ NoFault
    \/ ~ok /\ tries[c] < MaxRetry + 1 /\ GoTo(c, "due") /\ UNCHANGED queueVars /\ NoFault
    \/ ~ok /\ tries[c] = MaxRetry + 1 /\ GoTo(c, "off")
           /\ \/ Queue!GiveUp(c) /\ NoFault
              \/ Queue!Lose({c}) /\ Fault(c[1])

\* Every outcome treated as an error, nil included (mutant).
ReturnAlwaysFails(c) ==
    /\ pc[c] = "return"
    /\ cancels' = [cancels EXCEPT ![c[1]] = None]
    /\ verdict' = [verdict EXCEPT ![c] = "none"]
    /\ stopped' = [stopped EXCEPT ![c] = FALSE]
    /\ QueueDecides(c, FALSE)
    /\ UNCHANGED <<row, api, gauge, reqVars, envVars>>

\* ActiveScans.Dec() deferred as well (mutant).
ReturnDecs(c) ==
    /\ pc[c] = "return"
    /\ cancels' = [cancels EXCEPT ![c[1]] = None]
    /\ verdict' = [verdict EXCEPT ![c] = "none"]
    /\ stopped' = [stopped EXCEPT ![c] = FALSE]
    /\ gauge' = gauge - 1
    /\ QueueDecides(c, verdict[c] = "completed")
    /\ UNCHANGED <<row, api, reqVars, envVars>>

\* handleScan returns: Deregister removes the scan's entry, whoever registered it.
Return(c) ==
    /\ pc[c] = "return"
    /\ cancels' = [cancels EXCEPT ![c[1]] = None]
    /\ verdict' = [verdict EXCEPT ![c] = "none"]
    /\ stopped' = [stopped EXCEPT ![c] = FALSE]
    /\ QueueDecides(c, verdict[c] = "completed")
    /\ UNCHANGED <<row, api, gauge, reqVars, envVars>>

HandlerStep(c) ==
    \/ TakeUp(c) \/ Begin(c) \/ Load(c) \/ Mark(c) \/ Check(c)
    \/ RunEnds(c) \/ WriteFinal(c) \/ Return(c)

-----------------------------------------------------------------------------
\* What befalls the process and the queue.

\* queue.Stop cancels the context every scanCtx descends from.
StopCancel ==
    /\ ~closing /\ restarts < MaxRestarts
    /\ closing' = TRUE
    /\ Excuse(Scans)
    /\ UNCHANGED <<row, api, queueVars, runVars, cancels, gauge, reqVars, faults, restarts>>

\* A worker in its backoff gives the job up when the queue stops.
DropRetry(c) ==
    /\ closing /\ pc[c] = "due" /\ tries[c] > 0
    /\ Queue!Lose({c}) /\ GoTo(c, "off")
    /\ UNCHANGED <<row, api, stopped, verdict, cancels, gauge, reqVars, excused, faults, envVars>>

\* Exit or crash, and the next start: memory is gone; waiting jobs survive when they are in
\* Redis; no one looks at the rows.
Restart ==
    /\ restarts < MaxRestarts
    /\ restarts' = restarts + 1 /\ closing' = FALSE
    /\ \E gone \in {{c \in Copies : qstate[c] = "active"},
                    {c \in Copies : qstate[c] \in {"active", "waiting"}}} : Queue!Lose(gone)
    /\ pc' = [c \in Copies |-> "off"]
    /\ stopped' = [c \in Copies |-> FALSE] /\ verdict' = [c \in Copies |-> "none"]
    /\ cancels' = [s \in Scans |-> None] /\ gauge' = 0
    /\ api' = [s \in Scans |-> IF api[s] = "none" THEN "none" ELSE "answered"]
    /\ cpc' = [k \in Requests |-> IF cpc[k] = "new" THEN "new" ELSE "done"]
    /\ target' = [k \in Requests |-> None]
    /\ Excuse({s \in Scans : api[s] # "none"})
    /\ UNCHANGED <<row, told, faults>>

\* A popped job found no handler: it was taken while a restarted process was still starting.
NoHandlerYet(c) ==
    /\ restarts > 0 /\ pc[c] = "due" /\ tries[c] = 0
    /\ Queue!GiveUp(c) \/ Queue!Lose({c})
    /\ GoTo(c, "off") /\ Excuse({c[1]})
    /\ UNCHANGED <<row, api, stopped, verdict, cancels, gauge, reqVars, faults, envVars>>

-----------------------------------------------------------------------------
Init ==
    /\ row = [s \in Scans |-> "none"] /\ api = [s \in Scans |-> "none"]
    /\ Queue!Init
    /\ pc = [c \in Copies |-> "off"]
    /\ stopped = [c \in Copies |-> FALSE] /\ verdict = [c \in Copies |-> "none"]
    /\ cancels = [s \in Scans |-> None] /\ gauge = 0
    /\ cpc = [k \in Requests |-> "new"] /\ target = [k \in Requests |-> None] /\ told = {}
    /\ closing = FALSE /\ restarts = 0 /\ excused = {} /\ faults = 0

Next ==
    \/ \E s \in Scans : Admit(s) \/ Insert(s) \/ DomainCron(s) \/ EnqueueScan(s)
    \/ \E s, t \in Scans : Rerun(s, t)
    \/ \E k \in Requests, s \in Scans : CancelReads(k, s)
    \/ \E k \in Requests : CancelSignals(k) \/ CancelWrites(k)
    \/ \E c \in Copies : HandlerStep(c) \/ RunPanics(c) \/ TimesOut(c)
                         \/ DropRetry(c) \/ NoHandlerYet(c)
    \/ StopCancel \/ Restart

\* A worker that can go on does: five goroutines, none of which waits for another, and a
\* handler that ends at its deadline at the latest.  No fairness for requests and faults.
Fairness == \A c \in Copies : WF_vars(HandlerStep(c))

Spec     == Init /\ [][Next]_vars
FairSpec == Spec /\ Fairness

-----------------------------------------------------------------------------
TypeOK ==
    /\ row \in [Scans -> Statuses \cup {"none"}]
    /\ api \in [Scans -> {"none", "admitted", "inserted", "answered"}]
    /\ qstate \in [Copies -> Queue!States] /\ tries \in [Copies -> 0..(MaxRetry + 1)]
    /\ pc \in [Copies -> PCs] /\ stopped \in [Copies -> BOOLEAN]
    /\ verdict \in [Copies -> {"none", "completed", "failed", "cancelled"}]
    /\ cancels \in [Scans -> Copies \cup {None}] /\ gauge \in Nat
    /\ cpc \in [Requests -> {"new", "read", "signalled", "done"}]
    /\ target \in [Requests -> Scans \cup {None}]
    /\ told \subseteq Scans /\ excused \subseteq Scans
    /\ closing \in BOOLEAN /\ faults \in 0..MaxFaults /\ restarts \in 0..MaxRestarts

\* The registry and the handlers agree.  An entry belongs to a handler of that scan that is in
\* flight with its context not cancelled through it; and the handler of a scan the queue
\* delivered once can always be reached: it is registered, or its context is cancelled.
CancelReaches ==
    /\ \A s \in Scans : cancels[s] # None => cancels[s] \in CopiesOf(s) /\ InHandler(cancels[s])
    /\ \A c \in Copies :
         InHandler(c) /\ DeliveredOnce(c[1]) => cancels[c[1]] = c \/ stopped[c]

\* A scan that completed is never run again and its row keeps saying so, unless the queue
\* delivered it twice or a DELETE that read the row earlier overwrites it.
CompletedIsSettled ==
    [][\A s \in Scans : row[s] = "completed" /\ DeliveredOnce(s) =>
          \/ row'[s] = "completed"
          \/ row'[s] = "cancelled" /\ \E k \in Requests : cpc[k] = "signalled" /\ target[k] = s]_vars

\* What the row says is what is happening.  When nothing went wrong with a scan -- no failed
\* statement, panic, timeout, cancel, shutdown, restart, lost or duplicated job -- its row is
\* "running" exactly between the two writes of its handler, "completed" once the job is done
\* and "failed" once it is dead-lettered, never "cancelled", and ActiveScans counts the
\* handlers that run.
HonestStatus ==
    /\ \A s \in Scans \ excused :
         LET c == <<s, 1>> IN
         /\ row[s] = "running" <=> pc[c] \in {"check", "run", "write"}
         /\ row[s] = "completed" => pc[c] \in {"return", "off"}
         /\ qstate[c] = "done" => row[s] = "completed"
         /\ qstate[c] = "dead" => row[s] = "failed" /\ tries[c] = MaxRetry + 1
         /\ row[s] # "cancelled"
    /\ excused = {} => gauge = Cardinality({c \in Copies : pc[c] \in {"check", "run"}})

\* A scan whose job is in the queue comes to an end the row shows, if nothing goes wrong.
ScanSettles ==
    \A s \in Scans :
        qstate[<<s, 1>>] = "waiting" ~>
            \/ s \in excused
            \/ qstate[<<s, 1>>] = "done" /\ row[s] = "completed"
            \/ qstate[<<s, 1>>] = "dead" /\ row[s] = "failed"

\* openapi.yaml on DELETE /scans/{id}: "Signals the running goroutine to stop and marks status
\* as cancelled."  A scan whose DELETE was answered 200 stays cancelled.
CancelledIsFinal == \A s \in told : row[s] = "cancelled"
=============================================================================
