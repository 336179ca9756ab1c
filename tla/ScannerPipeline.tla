-------------------------- MODULE ScannerPipeline --------------------------
(***************************************************************************)
(* The pipeline inside each built-in scanner (modules/network, port, dns,  *)
(* web and subdomain): a feeder hands the targets to a pool of workers     *)
(* through a bounded channel, the workers send what they find to a bounded *)
(* result channel, which is closed when the last worker returns, and the   *)
(* dispatcher ranges over it. DELETE /scans/:id cancels the context at any *)
(* moment.                                                                 *)
(*                                                                         *)
(* Probing is one step whose outcome is fixed by what is alive; a probe    *)
(* whose context is cancelled may find nothing. Targets are positions of   *)
(* the list the scanner was given, so a target listed twice counts twice.  *)
(***************************************************************************)
EXTENDS Integers, Sequences, FiniteSets, SequencesExt

CONSTANTS
    Scanners,     \* kinds of scanner that run, a subset of AllScanners
    PoolSize,     \* workers of the pool
    Targets,      \* length of the target list
    Words,        \* length of the word list of a subdomain scan
    Listings,     \* what the passive sources may list: positions, names beyond
    InCap,        \* capacity of the target channel
    OutCap,       \* capacity of the result channel
    MaxQueries    \* attempts at crt.sh, three in the code

AllScanners == {"network", "port", "dns", "web", "subdomain"}
Pool == {<<"worker", i>> : i \in 1..PoolSize}
CrtSh == <<"crtsh", 1>>
HackerTarget == <<"hackertarget", 1>>
Passive == {CrtSh, HackerTarget}
Producers == Pool \cup Passive

ASSUME ScannerPipelineAssumption ==
    /\ Scanners \subseteq AllScanners
    /\ {PoolSize, InCap, OutCap, MaxQueries} \subseteq Nat \ {0}
    /\ {Targets, Words} \subseteq Nat
    /\ \A l \in Listings : \A p \in Passive : l[p] \subseteq Nat /\ IsFiniteSet(l[p])

VARIABLES
    scanner,    \* which scanner this is
    alive,      \* targets and names that answer
    known,      \* names each passive source lists
    stopped,    \* the context is cancelled
    feeder,     \* what the feeding goroutine is at
    waiting,    \* targets the feeder has yet to hand out
    inbox,      \* the target channel
    producer,   \* the workers, and the passive sources of a subdomain scan
    emitted,    \* the subdomain scanner's map of names already sent
    outbox,     \* the result channel
    consumer,   \* the dispatcher's loop: reading, busy or done
    got         \* results the dispatcher took, in order

pipelineVars == <<scanner, alive, known, stopped, feeder, waiting, inbox, producer,
                  emitted, outbox, consumer, got>>

-----------------------------------------------------------------------------
\* network expandTargets: a CIDR range gives its addresses, an address
\* itself, a name what it resolves to; one range shorter than /16 or one
\* name that does not resolve, and the scan is refused.
ExpandTargets(targets) ==
    LET bad(t) == \/ t.form = "range" /\ t.prefix < 16
                  \/ t.form = "name" /\ t.addresses = <<>>
    IN IF \E i \in DOMAIN targets : bad(targets[i]) THEN [ok |-> FALSE, ips |-> <<>>]
       ELSE [ok |-> TRUE, ips |-> FlattenSeq([i \in DOMAIN targets |-> targets[i].addresses])]

\* What a probe of target t sends. Only hosts that are up and ports that are
\* open are sent; a domain always is, with the errors of its lookups; a web
\* target always is, twice; a name of the word list only when it resolves.
HostResult(t) == IF t \in alive THEN <<t>> ELSE <<>>
PortResult(t) == IF t \in alive THEN <<t>> ELSE <<>>
DomainResult(t) == <<t>>
WebResult(t) == <<<<"https", t>>, <<"http", t>>>>
NameResult(t) == IF t \in alive THEN <<t>> ELSE <<>>

ProbeResult(t) ==
    CASE scanner = "network" -> HostResult(t)
      [] scanner = "port" -> PortResult(t)
      [] scanner = "dns" -> DomainResult(t)
      [] scanner = "web" -> WebResult(t)
      [] scanner = "subdomain" -> NameResult(t)

\* Dialling and resolving fail when the context is cancelled.
Outcomes(t) ==
    IF stopped /\ scanner \in {"network", "port", "subdomain"}
    THEN {ProbeResult(t), <<>>} ELSE {ProbeResult(t)}

-----------------------------------------------------------------------------
Given == 1..(IF scanner = "subdomain" THEN Words ELSE Targets)
Listed == UNION {known[p] : p \in Passive}

Free == [pc |-> "free", send |-> <<>>, left |-> <<>>, tries |-> 0]
Returned == [Free EXCEPT !.pc = "returned"]
WorkerBecomes(w, r) == producer' = [producer EXCEPT ![w] = r]

FeederHands == waiting' = Tail(waiting) /\ inbox' = Append(inbox, Head(waiting))

\* The Scan functions other than network's: the feeder hands out the next
\* target or sees that the context is cancelled, whichever is possible.
FeedAs(kind) ==
    /\ scanner = kind /\ feeder = "feeding" /\ waiting # <<>>
    /\ \/ stopped /\ feeder' = "done" /\ UNCHANGED <<waiting, inbox>>
       \/ Len(inbox) < InCap /\ FeederHands /\ UNCHANGED feeder
    /\ UNCHANGED <<scanner, alive, known, stopped, producer, emitted, outbox, consumer, got>>
FeedPorts == FeedAs("port")
FeedDomains == FeedAs("dns")
FeedURLs == FeedAs("web")
FeedWords == FeedAs("subdomain")
Feed == FeedPorts \/ FeedDomains \/ FeedURLs \/ FeedWords

\* network: the feeder waits for its ticker or the context and then sends
\* without a way out.
Tick ==
    /\ scanner = "network" /\ feeder = "feeding" /\ waiting # <<>>
    /\ \/ stopped /\ feeder' = "done"
       \/ feeder' = "sending"
    /\ UNCHANGED <<scanner, alive, known, stopped, waiting, inbox, producer, emitted,
                   outbox, consumer, got>>
HandOver ==
    /\ feeder = "sending" /\ Len(inbox) < InCap
    /\ FeederHands /\ feeder' = "feeding"
    /\ UNCHANGED <<scanner, alive, known, stopped, producer, emitted, outbox, consumer, got>>

\* The channel is closed after the loop, not by a defer (mutant).
CloseAtEnd ==
    /\ feeder = "feeding" /\ waiting = <<>> /\ feeder' = "closed"
    /\ UNCHANGED <<scanner, alive, known, stopped, waiting, inbox, producer, emitted,
                   outbox, consumer, got>>

\* close(targets), when all are handed out or the feeder gave up.
CloseInbox ==
    /\ feeder = "done" \/ (feeder = "feeding" /\ waiting = <<>>)
    /\ feeder' = "closed"
    /\ UNCHANGED <<scanner, alive, known, stopped, waiting, inbox, producer, emitted,
                   outbox, consumer, got>>

\* A worker takes a target, and returns when the context is cancelled by
\* then, or when the channel is closed and empty.
Take(w) ==
    /\ producer[w].pc = "free"
    /\ \/ /\ inbox # <<>>
          /\ inbox' = Tail(inbox)
          /\ WorkerBecomes(w, IF stopped THEN Returned
                        ELSE [Free EXCEPT !.pc = "probing", !.left = <<Head(inbox)>>])
       \/ /\ inbox = <<>> /\ feeder = "closed"
          /\ WorkerBecomes(w, Returned)
          /\ UNCHANGED inbox
    /\ UNCHANGED <<scanner, alive, known, stopped, feeder, waiting, emitted, outbox, consumer, got>>

\* emit of the subdomain scanner: a name is sent once, whoever finds it.
Fresh(r) == scanner = "subdomain" => ToSet(r) \cap emitted = {}
Probe(w) ==
    LET r == producer[w]
    IN /\ r.pc = "probing"
       /\ \E found \in Outcomes(Head(r.left)) :
            IF found = <<>> \/ ~Fresh(found)
            THEN /\ WorkerBecomes(w, IF Tail(r.left) # <<>> THEN [r EXCEPT !.left = Tail(@)]
                               ELSE IF w \in Pool THEN Free ELSE Returned)
                 /\ UNCHANGED emitted
            ELSE /\ WorkerBecomes(w, [r EXCEPT !.pc = "sending", !.send = found, !.left = Tail(@)])
                 /\ emitted' = emitted \cup ToSet(found)
       /\ UNCHANGED <<scanner, alive, known, stopped, feeder, waiting, inbox, outbox, consumer, got>>

\* What comes after a result is sent or dropped. A worker of a pool returns
\* when it dropped one; the subdomain scanner's emit just goes on.
After(w, dropped) ==
    LET r == [producer[w] EXCEPT !.send = Tail(@)]
    IN IF dropped /\ scanner # "subdomain" THEN Returned
       ELSE IF r.send # <<>> THEN r
       ELSE IF r.left # <<>> THEN [r EXCEPT !.pc = "probing"]
       ELSE IF w \in Pool THEN Free ELSE Returned

Send(w) ==
    /\ producer[w].pc = "sending"
    /\ \/ /\ Len(outbox) < OutCap
          /\ outbox' = Append(outbox, Head(producer[w].send))
          /\ WorkerBecomes(w, After(w, FALSE))
       \/ stopped /\ WorkerBecomes(w, After(w, TRUE)) /\ UNCHANGED outbox
    /\ UNCHANGED <<scanner, alive, known, stopped, feeder, waiting, inbox, emitted, consumer, got>>

\* queryHackerTarget, tried once, and queryCRTSH, tried up to three times
\* with a pause in which a cancelled context ends it: the names it lists,
\* each then resolved and sent like the others.
Query(w) ==
    LET r == producer[w]
        last == w = HackerTarget \/ r.tries + 1 = MaxQueries
    IN /\ r.pc = "query"
       /\ \/ \E order \in SetToSeqs(known[w]) :
               WorkerBecomes(w, IF order = <<>> THEN Returned
                          ELSE [r EXCEPT !.pc = "probing", !.left = order])
          \/ WorkerBecomes(w, IF last \/ stopped THEN Returned ELSE [r EXCEPT !.tries = @ + 1])
       /\ UNCHANGED <<scanner, alive, known, stopped, feeder, waiting, inbox, emitted,
                      outbox, consumer, got>>

\* Whichever producer returns first closes the result channel (mutant).
ClosedByFirst == feeder = "closed" /\ \E w \in Pool : producer[w].pc = "returned"

\* The dispatcher: take a result, store it, take the next; the channel is
\* closed once every producer has returned and the feeder closed its own.
Closed == feeder = "closed" /\ \A w \in Producers : producer[w].pc = "returned"
Receive ==
    /\ consumer = "reading"
    /\ \/ /\ outbox # <<>>
          /\ got' = Append(got, Head(outbox)) /\ outbox' = Tail(outbox)
          /\ consumer' = "busy"
       \/ /\ outbox = <<>> /\ Closed
          /\ consumer' = "done"
          /\ UNCHANGED <<got, outbox>>
    /\ UNCHANGED <<scanner, alive, known, stopped, feeder, waiting, inbox, producer, emitted>>
Store ==
    /\ consumer = "busy" /\ consumer' = "reading"
    /\ UNCHANGED <<scanner, alive, known, stopped, feeder, waiting, inbox, producer, emitted,
                   outbox, got>>

CancelScan ==
    /\ ~stopped /\ consumer # "done" /\ stopped' = TRUE
    /\ UNCHANGED <<scanner, alive, known, feeder, waiting, inbox, producer, emitted, outbox,
                   consumer, got>>

PipelineInit ==
    /\ scanner \in Scanners
    /\ known \in IF scanner = "subdomain" THEN Listings ELSE {[p \in Passive |-> {}]}
    /\ alive \in IF scanner \in {"dns", "web"} THEN {Given} ELSE SUBSET (Given \cup Listed)
    /\ stopped = FALSE
    /\ feeder = "feeding" /\ waiting = [t \in Given |-> t] /\ inbox = <<>>
    /\ producer = [w \in Producers |->
                     IF w \in Pool THEN Free
                     ELSE IF scanner = "subdomain" THEN [Free EXCEPT !.pc = "query"]
                     ELSE Returned]
    /\ emitted = {}
    /\ outbox = <<>> /\ consumer = "reading" /\ got = <<>>

PipelineStep ==
    \/ Feed \/ Tick \/ HandOver \/ CloseInbox \/ Receive \/ Store
    \/ \E w \in Producers : Take(w) \/ Probe(w) \/ Send(w) \/ Query(w)
PipelineNext == PipelineStep \/ CancelScan

\* Every goroutine keeps being scheduled; nobody has to cancel.
PipelineFairness ==
    /\ WF_pipelineVars(Feed) /\ WF_pipelineVars(Tick) /\ WF_pipelineVars(HandOver)
    /\ WF_pipelineVars(CloseInbox) /\ WF_pipelineVars(Receive) /\ WF_pipelineVars(Store)
    /\ \A w \in Producers : WF_pipelineVars(Take(w) \/ Probe(w) \/ Send(w) \/ Query(w))
PipelineSpec == PipelineInit /\ [][PipelineNext]_pipelineVars /\ PipelineFairness

-----------------------------------------------------------------------------
PipelineTypeOK ==
    /\ scanner \in AllScanners
    /\ Len(inbox) <= InCap /\ Len(outbox) <= OutCap
    /\ feeder \in {"feeding", "sending", "done", "closed"}
    /\ \A w \in Producers :
         producer[w].pc \in {"free", "probing", "sending", "query", "returned"}
    /\ consumer \in {"reading", "busy", "done"}
    /\ stopped \in BOOLEAN

\* A scan nobody cancelled that has ended gave the dispatcher each result of
\* each target exactly once, however the workers, the channels and the
\* passive sources interleaved; a name two sources know counts once, and
\* names of a passive source that failed are the only ones that may lack.
NothingLost ==
    LET mine == UNION {ToSet(ProbeResult(t)) : t \in Given}
    IN consumer = "done" /\ ~stopped =>
         /\ IsInjective(got)
         /\ mine \subseteq ToSet(got) /\ ToSet(got) \subseteq mine \cup (Listed \cap alive)

\* The network feeder's send has no way out: when the context is cancelled
\* while the target channel is full and every worker leaves at its own send,
\* nobody will take the target, the result channel is never closed and the
\* dispatcher waits in its loop for good.
Stranded ==
    /\ scanner = "network" /\ feeder = "sending" /\ stopped
    /\ Len(inbox) = InCap /\ \A w \in Pool : producer[w].pc = "returned"

\* A scan ends, cancelled or not, with the dispatcher out of its loop, unless
\* the network feeder is stranded.
PipelineEnds == <>(consumer = "done" \/ Stranded)

=============================================================================
