----------------------------- MODULE Recurrence -----------------------------
(***************************************************************************)
(* The three dispatchers that make work recur: the cron half of            *)
(* Scheduler.dispatchScheduledScans, Scheduler.dispatchDomainCronScans and *)
(* Scheduler.DispatchContinuousDiscovery, with what changes the rows they  *)
(* read: the handlers behind the queue and the domain endpoints.           *)
(*                                                                         *)
(* The three share no rows, so one behaviour exercises one of them, kind.  *)
(* robfig/cron starts every entry in a goroutine of its own and does not   *)
(* wait for the previous one, so two ticks of a dispatcher may overlap.    *)
(* Times are whole polls of the dispatcher; a tick's time.Now() lies just  *)
(* after the poll it is for, so nextRun.Before(now) and !nextRun.After(now)*)
(* both read "due <= poll".                                                *)
(***************************************************************************)
EXTENDS Integers, Sequences, FiniteSets, FiniteSetsExt

CONSTANTS
    Ticks,       \* goroutines of the dispatcher that may run at once
    Dispatchers, \* the dispatchers to explore
    Orders,      \* orders in which one set of seed domains may be listed
    Period,      \* polls between two occurrences, or the cadence's interval
    Horizon,     \* bound: the time at which the clock stops
    MaxRows,     \* bound: job rows
    MaxFaults,   \* bound: failing statements, dropped jobs and crashes
    MaxEdits,    \* bound: requests of users
    None

ASSUME RecurrenceAssumption ==
    /\ Dispatchers \subseteq {"scan", "domain", "discovery"}
    /\ Ticks \subseteq Nat
    /\ Orders \subseteq Nat /\ Orders # {}
    /\ Period \in Nat \ {0}
    /\ {Horizon, MaxFaults, MaxEdits} \subseteq Nat /\ MaxRows \in Nat \ {0}
    /\ None \notin Nat /\ None \notin [src : Nat, due : Nat]

VARIABLES
    kind,     \* the dispatcher of this behaviour
    now,      \* the clock
    jobs,     \* scan_jobs or discovery_jobs, oldest first
    domain,   \* updated_at and last_scanned_at of a domain with a scan_cron
    tick,     \* where each goroutine of the dispatcher is
    editor,   \* the domain as PUT /domains/:id read it, None when no request is on
    faults, edits,
    excused   \* history: due times for which a second job has a known cause

recurrenceVars == <<kind, now, jobs, domain, tick, editor, faults, edits, excused>>

-----------------------------------------------------------------------------
Domain == 0                       \* the source of a domain's scans
Sources == 0..MaxRows
Entries == [src : Sources, due : 0..(Horizon + Period)]

\* What a dispatcher still has to do: todo is its snapshot, cur the entry it
\* is at, job the row it created for cur.
Idle == [pc |-> "idle", now |-> 0, todo |-> {}, cur |-> None, job |-> None]

\* A goroutine whose time.Now() is m between two entries of its loop.
Loop(m, todo) ==
    IF todo = {} THEN Idle ELSE [Idle EXCEPT !.pc = "next", !.now = m, !.todo = todo]

\* A row of scan_jobs or discovery_jobs. at is updated_at of a scan and
\* completed_at of a discovery; work is where the queue has the job; src and
\* due are history: the entry a dispatcher made the row for.
Pending(src, due, order, work) ==
    [status |-> "pending", at |-> now, src |-> src, due |-> due,
     order |-> order, work |-> work]

Fault == faults < MaxFaults /\ faults' = faults + 1
NoFault == UNCHANGED faults

\* sched.Next(t) of a cron expression.
After(t) == (t \div Period + 1) * Period

Settled == {"completed", "failed"}
WithStatus(S) == {i \in DOMAIN jobs : jobs[i].status \in S}

\* WHERE cron_expr != '' AND status IN ('completed','failed').
DueScans ==
    {[src |-> i, due |-> After(jobs[i].at)] : i \in WithStatus(Settled)}

\* The last scan decides; a domain never scanned counts from its updated_at.
Base(d) == IF d.last = None THEN d.updated ELSE d.last
DueDomains == {[src |-> Domain, due |-> After(Base(domain))]}

\* The candidates ordered by seed_domains, then completed_at DESC: the first of
\* a series is the youngest among those that list the seeds in the least order.
Youngest ==
    LET done  == WithStatus({"completed"})
        least == {i \in done : \A j \in done : jobs[i].order <= jobs[j].order}
        last  == {i \in least : \A j \in least : jobs[i].at >= jobs[j].at}
    IN  IF last = {} THEN {} ELSE {Max(last)}
DueDiscoveries ==
    {[src |-> i, due |-> jobs[i].at + Period] : i \in Youngest}

Due(m) ==
    LET all == CASE kind = "scan"      -> DueScans
                 [] kind = "domain"    -> DueDomains
                 [] kind = "discovery" -> DueDiscoveries
    IN  {e \in all : e.due <= m}

-----------------------------------------------------------------------------
RecurrenceInit ==
    /\ kind \in Dispatchers
    /\ now = 0
    /\ jobs = IF kind = "domain" THEN <<>>
              ELSE <<[status |-> "pending", at |-> 0, src |-> None, due |-> 0,
                      order |-> Min(Orders), work |-> "queued"]>>
    /\ domain = [updated |-> 0, last |-> None]
    /\ tick = [t \in Ticks |-> Idle]
    /\ editor = None
    /\ faults = 0 /\ edits = 0
    /\ excused = {}

(***************************************************************************)
(* The dispatcher.                                                         *)
(***************************************************************************)
\* The cron library starts the entry in a goroutine; which of those that are
\* free it is makes no difference. Polls go on at the horizon, where time stands.
Poll(t) ==
    /\ tick[t] = Idle /\ \A u \in Ticks : tick[u] = Idle => t <= u
    /\ now' = IF now < Horizon THEN now + 1 ELSE now
    /\ tick' = [tick EXCEPT ![t] = [Idle EXCEPT !.pc = "read", !.now = now']]
    /\ UNCHANGED <<kind, jobs, domain, editor, faults, edits, excused>>

\* Sources that another goroutine read and has not finished with.
Handled(t) ==
    UNION {{e.src : e \in tick[u].todo \union ({tick[u].cur} \ {None})}
              : u \in Ticks \ {t}}

\* A discovery leaves its source as it was, so the source is due again until
\* a run made for it completes.
Unfinished(e) ==
    \E i \in DOMAIN jobs :
       /\ jobs[i].src = e.src /\ jobs[i].due = e.due
       /\ jobs[i].status # "completed"

\* (mutant) a missed occurrence is not caught up
ReadOnTime(t) ==
    /\ tick[t].pc = "read"
    /\ LET m == tick[t].now
       IN  tick' = [tick EXCEPT ![t] = Loop(m, {e \in Due(m) : e.due = m})]
    /\ UNCHANGED <<kind, now, jobs, domain, editor, faults, edits, excused>>

\* Find, and the loop's test of each row against now. A scan tick took its now
\* before it read, the others after. When Find fails the tick finds nothing.
Read(t) ==
    /\ tick[t].pc = "read"
    /\ \/ /\ LET m   == IF kind = "scan" THEN tick[t].now ELSE now
                 due == Due(m)
             IN  /\ tick' = [tick EXCEPT ![t] = Loop(m, due)]
                 /\ excused' = excused \union
                       {e \in due : \/ e.src \in Handled(t)
                                    \/ kind = "discovery" /\ Unfinished(e)}
          /\ NoFault
       \/ Fault /\ tick' = [tick EXCEPT ![t] = Idle] /\ UNCHANGED excused
    /\ UNCHANGED <<kind, now, jobs, domain, editor, edits>>

\* db.Create of the successor; when it fails the loop goes on.
CreateRow(t, e) ==
    /\ tick[t].pc = "next" /\ e \in tick[t].todo
    /\ \/ /\ Len(jobs) < MaxRows
          /\ jobs' = Append(jobs, Pending(e.src, e.due,
                        IF e.src = Domain THEN Min(Orders) ELSE jobs[e.src].order, "none"))
          /\ tick' = [tick EXCEPT ![t].pc = "send", ![t].cur = e,
                                  ![t].todo = @ \ {e}, ![t].job = Len(jobs) + 1]
          /\ NoFault
       \/ /\ Fault
          /\ tick' = [tick EXCEPT ![t] = Loop(@.now, @.todo \ {e})]
          /\ UNCHANGED jobs
    /\ UNCHANGED <<kind, now, domain, editor, edits, excused>>

\* queue.Enqueue returns nothing: a job dropped at a full buffer looks sent.
Send(t) ==
    /\ tick[t].pc = "send"
    /\ \/ jobs' = [jobs EXCEPT ![tick[t].job].work = "queued"] /\ NoFault
       \/ Fault /\ UNCHANGED jobs
    /\ tick' = [tick EXCEPT ![t] =
                  IF kind = "discovery" THEN Loop(@.now, @.todo)
                                        ELSE [@ EXCEPT !.pc = "touch"]]
    /\ UNCHANGED <<kind, now, domain, editor, edits, excused>>

\* (mutant) the row created is touched in place of the one that was due
TouchNew(t) ==
    /\ tick[t].pc = "touch"
    /\ jobs' = [jobs EXCEPT ![tick[t].job].at = tick[t].now]
    /\ tick' = [tick EXCEPT ![t] = Loop(@.now, @.todo)]
    /\ UNCHANGED <<kind, now, domain, editor, faults, edits, excused>>

\* Model(&job).Update("updated_at", now), Model(&domain).Update("last_scanned_at",
\* now); gorm renews updated_at with the second.
Touch(t) ==
    /\ tick[t].pc = "touch"
    /\ \/ /\ IF kind = "scan"
             THEN /\ jobs' = [jobs EXCEPT ![tick[t].cur.src].at = tick[t].now]
                  /\ UNCHANGED domain
             ELSE /\ domain' = [updated |-> now, last |-> tick[t].now]
                  /\ UNCHANGED jobs
          /\ NoFault
          /\ UNCHANGED excused
       \/ /\ Fault
          /\ excused' = excused \union {tick[t].cur}
          /\ UNCHANGED <<jobs, domain>>
    /\ tick' = [tick EXCEPT ![t] = Loop(@.now, @.todo)]
    /\ UNCHANGED <<kind, now, editor, edits>>

(***************************************************************************)
(* What happens to the rows. The scans of a domain never recur themselves. *)
(***************************************************************************)
\* A worker takes the job up and handleScan or Engine.Run marks the row.
Take(i) ==
    /\ kind # "domain"
    /\ jobs[i].work = "queued"
    /\ \/ /\ jobs' = [jobs EXCEPT ![i].work = "busy", ![i].status = "running",
                                  ![i].at = IF kind = "scan" THEN now ELSE @]
          /\ NoFault
       \/ jobs' = [jobs EXCEPT ![i].work = "busy"] /\ Fault
    /\ UNCHANGED <<kind, now, domain, tick, editor, edits, excused>>

\* The handler's last update; the queue retries a failed run until it gives up.
End(i) ==
    /\ jobs[i].work = "busy"
    /\ \E s \in Settled, w \in {"none", "queued"} :
          /\ s = "completed" => w = "none"
          /\ \/ /\ jobs' = [jobs EXCEPT ![i].work = w, ![i].status = s, ![i].at = now]
                /\ NoFault
             \/ jobs' = [jobs EXCEPT ![i].work = w] /\ Fault
    /\ UNCHANGED <<kind, now, domain, tick, editor, edits, excused>>

\* POST /discovery/jobs with the same seeds, in any order.
UserCreates(o) ==
    /\ kind = "discovery"
    /\ edits < MaxEdits /\ Len(jobs) < MaxRows
    /\ edits' = edits + 1
    /\ jobs' = Append(jobs, Pending(None, 0, o, "queued"))
    /\ UNCHANGED <<kind, now, domain, tick, editor, faults, excused>>

\* PUT /domains/:id/cadence writes its own columns and gorm renews updated_at.
SetCadence ==
    /\ kind = "domain"
    /\ edits < MaxEdits
    /\ edits' = edits + 1
    /\ domain' = [domain EXCEPT !.updated = now]
    /\ UNCHANGED <<kind, now, jobs, tick, editor, faults, excused>>

\* PUT /domains/:id loads the row, and saves every column of what it loaded.
EditReads ==
    /\ kind = "domain"
    /\ editor = None
    /\ edits < MaxEdits
    /\ edits' = edits + 1
    /\ editor' = domain
    /\ UNCHANGED <<kind, now, jobs, domain, tick, faults, excused>>

EditSaves ==
    /\ editor # None
    /\ domain' = [editor EXCEPT !.updated = now]
    /\ editor' = None
    /\ excused' = IF editor.last = domain.last THEN excused
                  ELSE excused \union {[src |-> Domain, due |-> After(Base(domain'))]}
    /\ UNCHANGED <<kind, now, jobs, tick, faults, edits>>

\* The process dies: ticks end where they are, and jobs are lost with their
\* worker or with the buffer unless Redis holds them.
Crash ==
    /\ Fault
    /\ \E kept \in BOOLEAN :
          jobs' = [i \in DOMAIN jobs |->
                     IF jobs[i].work = "busy" \/ ~kept
                     THEN [jobs[i] EXCEPT !.work = "none"] ELSE jobs[i]]
    /\ excused' = excused \union ({tick[t].cur : t \in Ticks} \ {None})
    /\ tick' = [t \in Ticks |-> Idle]
    /\ editor' = None
    /\ UNCHANGED <<kind, now, domain, edits>>

-----------------------------------------------------------------------------
TickStep(t) ==
    \/ Read(t) \/ Send(t) \/ Touch(t)
    \/ \E e \in tick[t].todo : CreateRow(t, e)

RecurrenceNext ==
    \/ \E t \in Ticks : Poll(t) \/ TickStep(t)
    \/ \E i \in DOMAIN jobs : Take(i) \/ End(i)
    \/ \E o \in Orders : UserCreates(o)
    \/ SetCadence \/ EditReads \/ EditSaves \/ Crash

RecurrenceSpec == RecurrenceInit /\ [][RecurrenceNext]_recurrenceVars

\* The cron library keeps polling and no goroutine of a dispatcher stops.
RecurrenceFairSpec ==
    /\ RecurrenceSpec
    /\ WF_recurrenceVars(\E t \in Ticks : Poll(t))
    /\ \A t \in Ticks : WF_recurrenceVars(TickStep(t))

-----------------------------------------------------------------------------
Rows == [status : Settled \union {"pending", "running"}, at : 0..Horizon,
         src : Sources \union {None}, due : 0..(Horizon + Period),
         order : Orders, work : {"none", "queued", "busy"}]
DomainRows == [updated : 0..Horizon, last : (0..Horizon) \union {None}]

\* Every variable has its type; in particular no clock of a row runs ahead.
RecurrenceTypeOK ==
    /\ kind \in Dispatchers
    /\ now \in 0..Horizon
    /\ jobs \in Seq(Rows) /\ Len(jobs) <= MaxRows
    /\ domain \in DomainRows
    /\ tick \in [Ticks -> [pc : {"idle", "read", "next", "send", "touch"},
                           now : 0..Horizon, todo : SUBSET Entries,
                           cur : Entries \union {None},
                           job : (1..MaxRows) \union {None}]]
    /\ editor \in DomainRows \union {None}
    /\ faults \in 0..MaxFaults /\ edits \in 0..MaxEdits
    /\ excused \subseteq Entries

Made(e) == {i \in DOMAIN jobs : jobs[i].src = e.src /\ jobs[i].due = e.due}
\* The entries for which some row was made.
Sent == {[src |-> jobs[i].src, due |-> jobs[i].due]
            : i \in {j \in DOMAIN jobs : jobs[j].src # None}}

\* A due time of a row makes a second job only for a known reason: the touch
\* failed, the process died between create and touch, two ticks overlapped, a
\* save put back a last_scanned_at it had read earlier, or -- in a discovery,
\* whose source is not touched -- the first job has not completed. What the
\* touches of scheduler.go:196-202 and 399 are for.
RepeatIsExcused == \A e \in Sent : Cardinality(Made(e)) > 1 => e \in excused

\* The dispatcher catches up again and again: every due time has had its job, or
\* is none any more. Polls that came late, failing statements and crashes only
\* delay it, since due times are compared with "before now" and not with now.
CatchesUp == []<>(Due(now) \subseteq Sent \/ Len(jobs) = MaxRows)

\* scheduler.go:196-199: the touch is there so that an occurrence is not fired
\* again as "a duplicate scan". Broken by the code: the successor inherits the
\* cron expression, so from then on both rows fire at every occurrence.
OneScanPerOccurrence ==
    \A i, j \in DOMAIN jobs :
       jobs[i].src # None /\ jobs[j].src # None /\ jobs[i].due = jobs[j].due => i = j

=============================================================================
