------------------------------- MODULE WSHub -------------------------------
(***************************************************************************)
(* The WebSocket hub of internal/api/websocket/hub.go.  One goroutine, Run, *)
(* owns registration and the messages for everybody; BroadcastToOrg runs on *)
(* the goroutine that calls it (job handlers, the discovery engine) beside  *)
(* it.  Both send by the same three steps: copy the recipients under the    *)
(* read lock, send to each without the lock, drop the slow ones under the   *)
(* write lock.  Each client has a bounded channel, a writer that empties it *)
(* and a reader that notices when the connection is gone.                   *)
(*                                                                          *)
(* A critical section of h.mu is one step.  A send to a closed channel      *)
(* panics: nothing recovers it in Run or in the goroutines of processHop,   *)
(* so the process ends; a queue worker does recover it.  Payloads, time     *)
(* stamps, deadlines and pings are left out (a ping only finds the          *)
(* connection broken).                                                      *)
(***************************************************************************)
EXTENDS Naturals, Sequences, FiniteSets

CONSTANTS Clients,    \* connections, each made once
          Msgs,       \* calls of Broadcast and BroadcastRaw
          OrgCalls,   \* calls of BroadcastToOrg
          Hub,        \* the goroutine of Run
          OrgOf,      \* organisation of a client and of an OrgCall
          Inbox,      \* the hub channel a message is posted to
          InboxSize,  \* capacity of the hub channels (256)
          SendSize    \* capacity of client.send (256)

Inboxes == {"broadcast", "broadcastBytes"}
Senders == OrgCalls \cup {Hub}

ASSUME HubAssumption ==
    /\ Hub \notin OrgCalls
    /\ OrgOf \in [Clients \cup OrgCalls -> {OrgOf[x] : x \in Clients \cup OrgCalls}]
    /\ Inbox \in [Msgs -> Inboxes]
    /\ InboxSize \in Nat \ {0} /\ SendSize \in Nat \ {0}
    /\ Msgs \cap OrgCalls = {}

VARIABLES clients,    \* keys of h.clients
          closes,     \* number of close(client.send) so far
          send,       \* contents of client.send
          inbox,      \* contents of h.broadcast and h.broadcastBytes
          spc,        \* where a sender is: idle, sending, done, panicked
          targets,    \* recipients it still has to send to
          slow,       \* recipients whose channel was full
          reader,     \* readPump: off, dialled, reading, leaving, gone
          writer,     \* writePump: off, running, exited
          broken,     \* connections closed by either end
          crashed,    \* the process ended by a panic
          posted,     \* history: messages that got into an inbox
          log,        \* history: messages Run took out, in order
          joined,     \* history: length of log when a client was registered
          delivered   \* history: messages of log sent to a client, in order

connVars == <<reader, writer, broken>>
sendVars == <<spc, targets, slow>>
histVars == <<posted, log, joined>>
vars == <<clients, closes, send, inbox, sendVars, connVars, crashed, histVars, delivered>>

HubIdle == ~crashed /\ spc[Hub] = "idle"

\* close(client.send) and delete(h.clients, client) for each of cs.
DropClients(cs) ==
    /\ clients' = clients \ cs
    /\ closes' = [c \in Clients |-> IF c \in cs THEN closes[c] + 1 ELSE closes[c]]

-----------------------------------------------------------------------------
\* Run: registration.

\* ServeWS, up to hub.register <- client.
Dial(c) ==
    /\ ~crashed /\ reader[c] = "off"
    /\ reader' = [reader EXCEPT ![c] = "dialled"]
    /\ UNCHANGED <<clients, closes, send, inbox, sendVars, writer, broken, crashed, histVars, delivered>>

\* Run receives from h.register; ServeWS goes on and starts the pumps.
Register(c) ==
    /\ HubIdle /\ reader[c] = "dialled"
    /\ clients' = clients \cup {c}
    /\ reader' = [reader EXCEPT ![c] = "reading"]
    /\ writer' = [writer EXCEPT ![c] = "running"]
    /\ joined' = [joined EXCEPT ![c] = Len(log)]
    /\ UNCHANGED <<closes, send, inbox, sendVars, broken, crashed, posted, log, delivered>>

\* Unregistering without the map lookup (mutant).
UnregisterBlind(c) ==
    /\ HubIdle /\ reader[c] = "leaving"
    /\ DropClients({c})
    /\ reader' = [reader EXCEPT ![c] = "gone"]
    /\ broken' = broken \cup {c}
    /\ UNCHANGED <<send, inbox, sendVars, writer, crashed, histVars, delivered>>

\* Run receives from h.unregister; a client the map no longer has was dropped before.
Unregister(c) ==
    /\ HubIdle /\ reader[c] = "leaving"
    /\ DropClients({c} \cap clients)
    /\ reader' = [reader EXCEPT ![c] = "gone"]
    /\ broken' = broken \cup {c}
    /\ UNCHANGED <<send, inbox, sendVars, writer, crashed, histVars, delivered>>

-----------------------------------------------------------------------------
\* Messages.

\* Broadcast, BroadcastRaw: a send that blocks the caller while the inbox is full.
Post(m) ==
    /\ ~crashed /\ m \notin posted
    /\ Len(inbox[Inbox[m]]) < InboxSize
    /\ inbox' = [inbox EXCEPT ![Inbox[m]] = Append(@, m)]
    /\ posted' = posted \cup {m}
    /\ UNCHANGED <<clients, closes, send, sendVars, connVars, crashed, log, joined, delivered>>

\* The recipients are copied under RLock.
Snapshot(f, cs) ==
    /\ spc' = [spc EXCEPT ![f] = "sending"]
    /\ targets' = [targets EXCEPT ![f] = cs]
    /\ slow' = [slow EXCEPT ![f] = {}]

\* Run takes a message from one of its channels and begins fanout(data, "").
Receive(ch) ==
    /\ HubIdle /\ inbox[ch] # <<>>
    /\ inbox' = [inbox EXCEPT ![ch] = Tail(@)]
    /\ log' = Append(log, Head(inbox[ch]))
    /\ Snapshot(Hub, clients)
    /\ UNCHANGED <<clients, closes, send, connVars, crashed, posted, joined, delivered>>

\* BroadcastToOrg begins, on its caller's goroutine.
OrgStarts(o) ==
    /\ ~crashed /\ spc[o] = "idle"
    /\ Snapshot(o, {c \in clients : OrgOf[c] = OrgOf[o]})
    /\ UNCHANGED <<clients, closes, send, inbox, connVars, crashed, histVars, delivered>>

Current(f) == IF f = Hub THEN log[Len(log)] ELSE f

\* A plain client.send <- data, which waits for room (mutant).
OfferBlocks(f, c) ==
    /\ closes[c] = 0 /\ Len(send[c]) < SendSize
    /\ targets' = [targets EXCEPT ![f] = @ \ {c}]
    /\ send' = [send EXCEPT ![c] = Append(@, Current(f))]
    /\ delivered' = IF f = Hub THEN [delivered EXCEPT ![c] = Append(@, Current(f))] ELSE delivered
    /\ UNCHANGED <<slow, spc, crashed>>

\* A channel that takes one message more than its capacity (mutant).
OfferOverfull(f, c) ==
    /\ closes[c] = 0 /\ Len(send[c]) <= SendSize
    /\ targets' = [targets EXCEPT ![f] = @ \ {c}]
    /\ send' = [send EXCEPT ![c] = Append(@, Current(f))]
    /\ delivered' = IF f = Hub THEN [delivered EXCEPT ![c] = Append(@, Current(f))] ELSE delivered
    /\ UNCHANGED <<slow, spc, crashed>>

\* select { case client.send <- data: default: slow = append(slow, client) }
Offer(f, c) ==
    /\ closes[c] = 0
    /\ targets' = [targets EXCEPT ![f] = @ \ {c}]
    /\ IF Len(send[c]) < SendSize
       THEN /\ send' = [send EXCEPT ![c] = Append(@, Current(f))]
            /\ delivered' = IF f = Hub THEN [delivered EXCEPT ![c] = Append(@, Current(f))]
                                       ELSE delivered
            /\ UNCHANGED slow
       ELSE /\ slow' = [slow EXCEPT ![f] = @ \cup {c}]
            /\ UNCHANGED <<send, delivered>>
    /\ UNCHANGED <<spc, crashed>>

\* A client dropped since the snapshot: the send panics.
OfferPanics(f, c) ==
    /\ closes[c] > 0
    /\ spc' = [spc EXCEPT ![f] = "panicked"]
    /\ crashed' \in IF f = Hub THEN {TRUE} ELSE BOOLEAN
    /\ UNCHANGED <<targets, slow, send, delivered>>

\* The map is iterated in any order.
SendTo(f, c) ==
    /\ ~crashed /\ spc[f] = "sending" /\ c \in targets[f]
    /\ Offer(f, c) \/ OfferPanics(f, c)
    /\ UNCHANGED <<clients, closes, inbox, connVars, histVars>>

\* A client whose channel is full loses the message and stays (mutant).
KeepSlow(f) ==
    /\ ~crashed /\ spc[f] = "sending" /\ targets[f] = {}
    /\ slow' = [slow EXCEPT ![f] = {}]
    /\ spc' = [spc EXCEPT ![f] = IF f = Hub THEN "idle" ELSE "done"]
    /\ UNCHANGED <<clients, closes, send, inbox, targets, connVars, crashed, histVars, delivered>>

\* The slow clients still in the map are closed and removed, under Lock.
DropSlow(f) ==
    /\ ~crashed /\ spc[f] = "sending" /\ targets[f] = {}
    /\ DropClients(slow[f] \cap clients)
    /\ slow' = [slow EXCEPT ![f] = {}]
    /\ spc' = [spc EXCEPT ![f] = IF f = Hub THEN "idle" ELSE "done"]
    /\ UNCHANGED <<send, inbox, targets, connVars, crashed, histVars, delivered>>

-----------------------------------------------------------------------------
\* The pumps of a client.

\* The peer closes, or its pongs stop.
PeerLeaves(c) ==
    /\ ~crashed /\ reader[c] = "reading" /\ c \notin broken
    /\ broken' = broken \cup {c}
    /\ UNCHANGED <<clients, closes, send, inbox, sendVars, reader, writer, crashed, histVars, delivered>>

\* ReadMessage fails; the deferred call blocks on h.unregister.
ReaderFails(c) ==
    /\ ~crashed /\ reader[c] = "reading" /\ c \in broken
    /\ reader' = [reader EXCEPT ![c] = "leaving"]
    /\ UNCHANGED <<clients, closes, send, inbox, sendVars, writer, broken, crashed, histVars, delivered>>

\* writePump writes a message, or fails to and returns, closing the connection.
WriterWrites(c) ==
    /\ ~crashed /\ writer[c] = "running" /\ send[c] # <<>>
    /\ send' = [send EXCEPT ![c] = Tail(@)]
    /\ IF c \in broken THEN writer' = [writer EXCEPT ![c] = "exited"] ELSE UNCHANGED writer
    /\ UNCHANGED <<clients, closes, inbox, sendVars, reader, broken, crashed, histVars, delivered>>

\* The closed channel is drained, or a ping fails: writePump returns.
WriterEnds(c) ==
    /\ ~crashed /\ writer[c] = "running"
    /\ (closes[c] > 0 /\ send[c] = <<>>) \/ c \in broken
    /\ writer' = [writer EXCEPT ![c] = "exited"]
    /\ broken' = broken \cup {c}
    /\ UNCHANGED <<clients, closes, send, inbox, sendVars, reader, crashed, histVars, delivered>>

-----------------------------------------------------------------------------
Init ==
    /\ clients = {} /\ closes = [c \in Clients |-> 0]
    /\ send = [c \in Clients |-> <<>>] /\ inbox = [ch \in Inboxes |-> <<>>]
    /\ spc = [f \in Senders |-> "idle"]
    /\ targets = [f \in Senders |-> {}] /\ slow = [f \in Senders |-> {}]
    /\ reader = [c \in Clients |-> "off"] /\ writer = [c \in Clients |-> "off"]
    /\ broken = {} /\ crashed = FALSE
    /\ posted = {} /\ log = <<>>
    /\ joined = [c \in Clients |-> 0] /\ delivered = [c \in Clients |-> <<>>]

HubStep ==
    \/ \E c \in Clients : Register(c) \/ Unregister(c) \/ SendTo(Hub, c)
    \/ \E ch \in Inboxes : Receive(ch)
    \/ DropSlow(Hub)

OrgStep(o) == (\E c \in Clients : SendTo(o, c)) \/ DropSlow(o)

PumpStep(c) == ReaderFails(c) \/ WriterWrites(c) \/ WriterEnds(c)

Next ==
    \/ HubStep
    \/ \E o \in OrgCalls : OrgStarts(o) \/ OrgStep(o)
    \/ \E c \in Clients : PumpStep(c) \/ Dial(c) \/ PeerLeaves(c)
    \/ \E m \in Msgs : Post(m)

\* Goroutines that can run do, and with finitely many messages Run's select comes to every
\* case that stays ready.  Nothing here needs a peer that reads what it is sent.
Fairness ==
    /\ \A c \in Clients :
         /\ WF_vars(Register(c)) /\ WF_vars(Unregister(c)) /\ WF_vars(SendTo(Hub, c))
         /\ WF_vars(ReaderFails(c)) /\ WF_vars(WriterEnds(c))
    /\ \A ch \in Inboxes : WF_vars(Receive(ch))
    /\ WF_vars(DropSlow(Hub))
    /\ \A o \in OrgCalls : WF_vars(OrgStep(o))

Spec     == Init /\ [][Next]_vars
FairSpec == Spec /\ Fairness

-----------------------------------------------------------------------------
TypeOK ==
    /\ clients \subseteq Clients /\ closes \in [Clients -> Nat]
    /\ send \in [Clients -> Seq(Msgs \cup OrgCalls)]
    /\ \A c \in Clients : Len(send[c]) <= SendSize
    /\ inbox \in [Inboxes -> Seq(Msgs)]
    /\ \A ch \in Inboxes : Len(inbox[ch]) <= InboxSize
    /\ spc \in [Senders -> {"idle", "sending", "done", "panicked"}]
    /\ targets \in [Senders -> SUBSET Clients] /\ slow \in [Senders -> SUBSET Clients]
    /\ reader \in [Clients -> {"off", "dialled", "reading", "leaving", "gone"}]
    /\ writer \in [Clients -> {"off", "running", "exited"}]
    /\ broken \subseteq Clients /\ crashed \in BOOLEAN
    /\ posted \subseteq Msgs /\ log \in Seq(Msgs)
    /\ joined \in [Clients -> Nat] /\ delivered \in [Clients -> Seq(Msgs)]

\* A client's channel is closed at most once -- by Run, by Run's fanout or by one of several
\* BroadcastToOrg calls that all found it slow -- and a closed one is not in the map.
ClosedOnce == \A c \in Clients : closes[c] <= 1 /\ (c \in clients => closes[c] = 0)

\* A client that is in the map has been sent every message Run took out since it registered,
\* in that order and once each; only the message Run is sending may be missing.  A client that
\* cannot keep up is dropped, it never gets a stream with a hole in it.
NoGaps ==
    \A c \in clients :
        LET due == SubSeq(log, joined[c] + 1, Len(log)) IN
        \/ delivered[c] = due
        \/ /\ spc[Hub] \in {"sending", "panicked"} /\ c \in targets[Hub] \cup slow[Hub]
           /\ due # <<>> /\ delivered[c] = SubSeq(due, 1, Len(due) - 1)

\* A broken connection is taken out of the map and both of its pumps end.
BrokenIsRemoved ==
    \A c \in Clients :
        c \in broken ~> crashed \/ (c \notin clients /\ reader[c] = "gone" /\ writer[c] = "exited")

\* The comment on the discovery engine's Run, a caller of BroadcastToOrg: "Safe to call from a
\* queue worker goroutine; ... never panics out of the caller".
CallerSurvives == \A o \in OrgCalls : spc[o] # "panicked"
=============================================================================
