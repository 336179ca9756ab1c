----------------------------- MODULE WSHubProofs -----------------------------
(***************************************************************************)
(* Proofs about the WebSocket hub, for any sets of clients and calls and   *)
(* any capacities: its variables keep their types, a channel is closed at  *)
(* most once, and the stream of a client has no hole.                      *)
(***************************************************************************)
EXTENDS WSHub, TLAPS

Due(c) == SubSeq(log, joined[c] + 1, Len(log))
Front(s) == SubSeq(s, 1, Len(s) - 1)

\* Run: between two messages nothing is left to send; while it fans one out
\* there is one, and a client that was slow is not tried again.
FanoutFacts ==
    /\ spc[Hub] # "done"
    /\ spc[Hub] = "idle" => targets[Hub] = {} /\ slow[Hub] = {}
    /\ spc[Hub] # "idle" => log # <<>>
    /\ targets[Hub] \cap slow[Hub] = {}

\* A client that is not registered yet is known to nobody.
FreshFacts ==
    \A c \in Clients : reader[c] \in {"off", "dialled"} =>
        /\ c \notin clients /\ closes[c] = 0 /\ delivered[c] = <<>>
        /\ c \notin targets[Hub]

\* A client Run still has to serve lacks the last message, any other none.
StreamFacts ==
    /\ \A c \in Clients : joined[c] <= Len(log)
    /\ \A c \in clients :
         IF c \in targets[Hub] \cup slow[Hub]
         THEN Due(c) # <<>> /\ delivered[c] = Front(Due(c))
         ELSE delivered[c] = Due(c)

IInv == TypeOK /\ ClosedOnce /\ FanoutFacts /\ FreshFacts /\ StreamFacts

-----------------------------------------------------------------------------
\* What is due grows by the message Run takes, and lacks only that one.
LEMMA DueGrows ==
    ASSUME NEW S, NEW s \in Seq(S), NEW m \in S, NEW k \in 0..Len(s)
    PROVE  /\ SubSeq(Append(s, m), k + 1, Len(s) + 1) # <<>>
           /\ Front(SubSeq(Append(s, m), k + 1, Len(s) + 1)) = SubSeq(s, k + 1, Len(s))
  <1> DEFINE t == Append(s, m)
             d == SubSeq(t, k + 1, Len(s) + 1)
             e == SubSeq(s, k + 1, Len(s))
  <1>1. t \in Seq(S) /\ Len(t) = Len(s) + 1 /\ \A i \in 1..Len(s) : t[i] = s[i]
    OBVIOUS
  <1>2. /\ d \in Seq(S) /\ Len(d) = Len(s) + 1 - k
        /\ \A i \in 1..(Len(s) + 1 - k) : d[i] = t[k + i]
    BY <1>1
  <1>3. e \in Seq(S) /\ Len(e) = Len(s) - k /\ \A i \in 1..(Len(s) - k) : e[i] = s[k + i]
    OBVIOUS
  <1> HIDE DEF t, d, e
  <1>4. /\ Front(d) \in Seq(S) /\ Len(Front(d)) = Len(s) - k
        /\ \A i \in 1..(Len(s) - k) : Front(d)[i] = d[i]
    BY <1>2 DEF Front
  <1>5. \A i \in 1..(Len(s) - k) : Front(d)[i] = e[i]
    BY <1>1, <1>2, <1>3, <1>4
  <1>6. Front(d) = e
    <2> DEFINE f == Front(d)
    <2>1. /\ f \in Seq(S) /\ Len(f) = Len(e)
          /\ \A i \in 1..Len(e) : f[i] = e[i]
      BY <1>3, <1>4, <1>5
    <2> HIDE DEF f
    <2>2. f = e
      BY <1>3, <2>1
    <2> QED
      BY <2>2 DEF f
  <1>7. d # <<>>
    BY <1>2
  <1> QED
    BY <1>6, <1>7 DEF t, d, e

\* The last message completes what is due.
LEMMA FrontAndLast ==
    ASSUME NEW S, NEW s \in Seq(S), NEW k \in 0..Len(s),
           SubSeq(s, k + 1, Len(s)) # <<>>
    PROVE  Append(Front(SubSeq(s, k + 1, Len(s))), s[Len(s)]) = SubSeq(s, k + 1, Len(s))
  <1> DEFINE d == SubSeq(s, k + 1, Len(s))
  <1>1. d \in Seq(S) /\ Len(d) = Len(s) - k /\ \A i \in 1..(Len(s) - k) : d[i] = s[k + i]
    OBVIOUS
  <1> HIDE DEF d
  <1>2. Len(d) >= 1
    BY <1>1 DEF d
  <1>3. /\ Front(d) \in Seq(S) /\ Len(Front(d)) = Len(d) - 1
        /\ \A i \in 1..(Len(d) - 1) : Front(d)[i] = d[i]
    BY <1>1, <1>2 DEF Front
  <1>4. s[Len(s)] = d[Len(d)] /\ s[Len(s)] \in S
    BY <1>1, <1>2
  <1> DEFINE a == Append(Front(d), s[Len(s)])
  <1>5. /\ a \in Seq(S) /\ Len(a) = Len(d)
        /\ \A i \in 1..(Len(d) - 1) : a[i] = d[i]
        /\ a[Len(d)] = d[Len(d)]
    BY <1>2, <1>3, <1>4
  <1> HIDE DEF a
  <1>6. a = d
    BY <1>1, <1>2, <1>5
  <1> QED
    BY <1>6 DEF a, d

-----------------------------------------------------------------------------
LEMMA InitIInv == Init => IInv
  <1> SUFFICES ASSUME Init PROVE IInv
    OBVIOUS
  <1> USE HubAssumption DEF Init
  <1>1. TypeOK
    <2>1. /\ send \in [Clients -> Seq(Msgs \cup OrgCalls)]
          /\ \A c \in Clients : Len(send[c]) <= SendSize
      OBVIOUS
    <2>2. inbox \in [Inboxes -> Seq(Msgs)] /\ \A ch \in Inboxes : Len(inbox[ch]) <= InboxSize
      OBVIOUS
    <2>3. /\ log \in Seq(Msgs) /\ delivered \in [Clients -> Seq(Msgs)]
          /\ joined \in [Clients -> Nat] /\ closes \in [Clients -> Nat]
      OBVIOUS
    <2>4. /\ spc \in [Senders -> {"idle", "sending", "done", "panicked"}]
          /\ targets \in [Senders -> SUBSET Clients] /\ slow \in [Senders -> SUBSET Clients]
          /\ reader \in [Clients -> {"off", "dialled", "reading", "leaving", "gone"}]
          /\ writer \in [Clients -> {"off", "running", "exited"}]
      OBVIOUS
    <2> QED
      BY <2>1, <2>2, <2>3, <2>4 DEF TypeOK
  <1>2. ClosedOnce /\ FanoutFacts /\ FreshFacts
    BY DEF ClosedOnce, FanoutFacts, FreshFacts, Senders
  <1>3. StreamFacts
    BY DEF StreamFacts
  <1> QED
    BY <1>1, <1>2, <1>3 DEF IInv

\* The facts that follow from what a step leaves alone.
LEMMA QuietStream ==
    ASSUME IInv, UNCHANGED <<log, joined, delivered>>, clients' \subseteq clients,
           targets'[Hub] = targets[Hub], slow'[Hub] = slow[Hub]
    PROVE  StreamFacts'
  BY DEF IInv, StreamFacts, Due, Front

\* Clients that are in the map are closed once as they leave it.
LEMMA DropKeeps ==
    ASSUME IInv, NEW cs \in SUBSET clients, DropClients(cs)
    PROVE  /\ clients' \subseteq clients
           /\ closes' \in [Clients -> Nat]
           /\ ClosedOnce'
           /\ \A c \in Clients : reader[c] \in {"off", "dialled"} => closes'[c] = 0
  BY DEF IInv, TypeOK, ClosedOnce, FreshFacts, DropClients

-----------------------------------------------------------------------------
\* Dialling, and what the pumps do, touches no map and no stream.
LEMMA PumpIInv ==
    ASSUME IInv, NEW c \in Clients, PumpStep(c) \/ Dial(c) \/ PeerLeaves(c)
    PROVE  IInv'
  <1> USE DEF IInv
  <1>1. UNCHANGED <<clients, closes, inbox, sendVars, crashed, histVars, delivered>>
    BY DEF PumpStep, Dial, PeerLeaves, ReaderFails, WriterWrites, WriterEnds
  <1>2. /\ reader' \in [Clients -> {"off", "dialled", "reading", "leaving", "gone"}]
        /\ writer' \in [Clients -> {"off", "running", "exited"}]
        /\ broken' \subseteq Clients
        /\ \A d \in Clients : reader'[d] \in {"off", "dialled"} => reader[d] \in {"off", "dialled"}
    <2>1. /\ reader \in [Clients -> {"off", "dialled", "reading", "leaving", "gone"}]
          /\ writer \in [Clients -> {"off", "running", "exited"}] /\ broken \subseteq Clients
      BY DEF TypeOK
    <2>2. /\ reader' = reader \/ (/\ reader[c] \in {"off", "reading"}
                                 /\ \E x \in {"dialled", "leaving"} :
                                       /\ reader' = [reader EXCEPT ![c] = x]
                                       /\ x = "dialled" => reader[c] = "off")
          /\ writer' = writer \/ writer' = [writer EXCEPT ![c] = "exited"]
          /\ broken' = broken \/ broken' = broken \cup {c}
      BY DEF PumpStep, Dial, PeerLeaves, ReaderFails, WriterWrites, WriterEnds
    <2> HIDE DEF IInv
    <2>3. /\ reader' \in [Clients -> {"off", "dialled", "reading", "leaving", "gone"}]
          /\ \A d \in Clients : reader'[d] \in {"off", "dialled"} => reader[d] \in {"off", "dialled"}
      BY <2>1, <2>2
    <2>4. writer' \in [Clients -> {"off", "running", "exited"}] /\ broken' \subseteq Clients
      BY <2>1, <2>2
    <2> QED
      BY <2>3, <2>4
  <1>3. /\ send' \in [Clients -> Seq(Msgs \cup OrgCalls)]
        /\ \A d \in Clients : Len(send'[d]) <= SendSize
    <2>1. CASE WriterWrites(c)
      <3>1. send[c] \in Seq(Msgs \cup OrgCalls) /\ send[c] # <<>> /\ Len(send[c]) <= SendSize
        BY <2>1 DEF WriterWrites, TypeOK
      <3>2. Tail(send[c]) \in Seq(Msgs \cup OrgCalls) /\ Len(Tail(send[c])) = Len(send[c]) - 1
        BY <3>1
      <3> QED
        BY <2>1, <3>1, <3>2, HubAssumption DEF WriterWrites, TypeOK
    <2>2. CASE UNCHANGED send
      BY <2>2 DEF TypeOK
    <2> QED
      BY <2>1, <2>2 DEF PumpStep, Dial, PeerLeaves, ReaderFails, WriterEnds
  <1>4. TypeOK'
    BY <1>1, <1>2, <1>3 DEF TypeOK, sendVars, histVars
  <1>5. ClosedOnce' /\ FanoutFacts'
    BY <1>1 DEF ClosedOnce, FanoutFacts, sendVars, histVars
  <1>6. FreshFacts'
    BY <1>1, <1>2 DEF FreshFacts, sendVars
  <1>7. StreamFacts'
    BY <1>1, QuietStream DEF sendVars, histVars
  <1> QED
    BY <1>4, <1>5, <1>6, <1>7

\* A client enters the map with nothing due.
LEMMA RegisterIInv ==
    ASSUME IInv, NEW c \in Clients, Register(c)
    PROVE  IInv'
  <1> USE DEF IInv
  <1>1. TypeOK'
    BY DEF Register, TypeOK, sendVars
  <1>2. ClosedOnce'
    BY DEF Register, ClosedOnce, FreshFacts
  <1>3. FanoutFacts'
    BY DEF Register, FanoutFacts, sendVars
  <1>4. FreshFacts'
    BY DEF Register, FreshFacts, TypeOK, sendVars
  <1>5. /\ log \in Seq(Msgs) /\ Len(log) \in Nat /\ joined' = [joined EXCEPT ![c] = Len(log)]
        /\ UNCHANGED <<log, delivered, targets, slow>> /\ clients' = clients \cup {c}
    BY DEF Register, TypeOK, sendVars
  <1>6. targets[Hub] = {} /\ slow[Hub] = {} /\ delivered[c] = <<>>
    BY DEF Register, HubIdle, FanoutFacts, FreshFacts
  <1>7. SubSeq(log, Len(log) + 1, Len(log)) = <<>>
    BY <1>5
  <1>8. \A d \in Clients : joined'[d] <= Len(log')
    BY <1>5 DEF StreamFacts, TypeOK
  <1>9. \A d \in clients' : delivered'[d] = Due(d)'
    BY <1>5, <1>6, <1>7 DEF StreamFacts, Due, TypeOK
  <1>10. StreamFacts'
    BY <1>5, <1>6, <1>8, <1>9 DEF StreamFacts
  <1> QED
    BY <1>1, <1>2, <1>3, <1>4, <1>10

LEMMA UnregisterIInv ==
    ASSUME IInv, NEW c \in Clients, Unregister(c)
    PROVE  IInv'
  <1> USE DEF IInv
  <1>1. /\ DropClients({c} \cap clients)
        /\ UNCHANGED <<send, inbox, sendVars, writer, crashed, histVars, delivered>>
        /\ reader' = [reader EXCEPT ![c] = "gone"] /\ broken' = broken \cup {c}
    BY DEF Unregister
  <1>2. /\ clients' \subseteq clients /\ closes' \in [Clients -> Nat] /\ ClosedOnce'
        /\ \A d \in Clients : reader[d] \in {"off", "dialled"} => closes'[d] = 0
    BY <1>1, DropKeeps
  <1>3. TypeOK'
    BY <1>1, <1>2 DEF TypeOK, sendVars, histVars
  <1>4. FanoutFacts'
    BY <1>1 DEF FanoutFacts, sendVars, histVars
  <1>5. FreshFacts'
    BY <1>1, <1>2 DEF FreshFacts, TypeOK, sendVars
  <1>6. StreamFacts'
    BY <1>1, <1>2, QuietStream DEF sendVars, histVars
  <1> QED
    BY <1>2, <1>3, <1>4, <1>5, <1>6

LEMMA PostIInv ==
    ASSUME IInv, NEW m \in Msgs, Post(m)
    PROVE  IInv'
  <1> USE DEF IInv
  <1>1. UNCHANGED <<clients, closes, send, sendVars, connVars, crashed, log, joined, delivered>>
    BY DEF Post
  <1>2. inbox' \in [Inboxes -> Seq(Msgs)] /\ \A ch \in Inboxes : Len(inbox'[ch]) <= InboxSize
    <2>1. Inbox[m] \in Inboxes /\ inbox[Inbox[m]] \in Seq(Msgs)
      BY HubAssumption DEF TypeOK
    <2>2. /\ Append(inbox[Inbox[m]], m) \in Seq(Msgs)
          /\ Len(Append(inbox[Inbox[m]], m)) = Len(inbox[Inbox[m]]) + 1
      BY <2>1
    <2> QED
      BY <2>1, <2>2, HubAssumption DEF Post, TypeOK
  <1>3. TypeOK'
    BY <1>1, <1>2 DEF Post, TypeOK, sendVars, connVars
  <1>4. ClosedOnce' /\ FanoutFacts' /\ FreshFacts'
    BY <1>1 DEF ClosedOnce, FanoutFacts, FreshFacts, sendVars, connVars
  <1>5. StreamFacts'
    BY <1>1, QuietStream DEF sendVars
  <1> QED
    BY <1>3, <1>4, <1>5

\* Run takes a message: it becomes the last one due to everyone in the map.
LEMMA ReceiveIInv ==
    ASSUME IInv, NEW ch \in Inboxes, Receive(ch)
    PROVE  IInv'
  <1> USE DEF IInv
  <1> DEFINE m == Head(inbox[ch])
  <1>1. /\ inbox' = [inbox EXCEPT ![ch] = Tail(@)] /\ log' = Append(log, m)
        /\ spc' = [spc EXCEPT ![Hub] = "sending"]
        /\ targets' = [targets EXCEPT ![Hub] = clients]
        /\ slow' = [slow EXCEPT ![Hub] = {}]
        /\ UNCHANGED <<clients, closes, send, reader, writer, broken, crashed, posted, joined, delivered>>
        /\ spc[Hub] = "idle"
    BY DEF Receive, Snapshot, HubIdle, connVars
  <1>2. inbox[ch] \in Seq(Msgs) /\ inbox[ch] # <<>> /\ Len(inbox[ch]) <= InboxSize
    BY DEF Receive, TypeOK
  <1>3. m \in Msgs /\ Tail(inbox[ch]) \in Seq(Msgs) /\ Len(Tail(inbox[ch])) <= InboxSize
    BY <1>2, HubAssumption
  <1> HIDE DEF m
  <1>4. log \in Seq(Msgs) /\ log' \in Seq(Msgs) /\ log' # <<>> /\ Len(log') = Len(log) + 1
    <2>1. log \in Seq(Msgs)
      BY DEF TypeOK
    <2>2. Append(log, m) \in Seq(Msgs) /\ Len(Append(log, m)) = Len(log) + 1
      BY <1>3, <2>1
    <2>3. Len(log) + 1 # Len(<<>>)
      BY <2>1
    <2>4. Append(log, m) # <<>>
      BY <2>2, <2>3, Zenon
    <2> QED
      BY <1>1, <2>1, <2>2, <2>4
  <1>5. Hub \in Senders
    BY DEF Senders
  <1>6. TypeOK'
    BY <1>1, <1>3, <1>4, <1>5 DEF TypeOK
  <1>7. targets'[Hub] = clients /\ slow'[Hub] = {} /\ spc'[Hub] = "sending"
    BY <1>1, <1>5 DEF TypeOK
  <1>8. ClosedOnce' /\ FanoutFacts'
    BY <1>1, <1>4, <1>7 DEF ClosedOnce, FanoutFacts
  <1>9. FreshFacts'
    BY <1>1, <1>7 DEF FreshFacts
  <1>10. \A c \in Clients : joined[c] \in 0..Len(log)
    BY <1>4 DEF StreamFacts, TypeOK
  <1>11. ASSUME NEW c \in clients
         PROVE  Due(c)' # <<>> /\ delivered'[c] = Front(Due(c)')
    <2>1. c \in Clients /\ joined[c] \in 0..Len(log)
      BY <1>10 DEF TypeOK
    <2>2. delivered[c] = SubSeq(log, joined[c] + 1, Len(log))
      BY <1>1 DEF StreamFacts, FanoutFacts, Due
    <2>3. Due(c)' = SubSeq(Append(log, m), joined[c] + 1, Len(log) + 1)
      BY <1>1, <1>4 DEF Due
    <2>4. /\ SubSeq(Append(log, m), joined[c] + 1, Len(log) + 1) # <<>>
          /\ Front(SubSeq(Append(log, m), joined[c] + 1, Len(log) + 1))
               = SubSeq(log, joined[c] + 1, Len(log))
      BY <2>1, <1>3, <1>4, DueGrows
    <2>5. delivered'[c] = delivered[c]
      BY <1>1
    <2> HIDE DEF IInv
    <2> QED
      BY <2>2, <2>3, <2>4, <2>5
  <1>12. StreamFacts'
    <2>1. \A c \in Clients : joined'[c] <= Len(log')
      BY <1>1, <1>4, <1>10
    <2> QED
      BY <2>1, <1>1, <1>7, <1>11 DEF StreamFacts, Front
  <1> QED
    BY <1>6, <1>8, <1>9, <1>12

LEMMA OrgStartsIInv ==
    ASSUME IInv, NEW o \in OrgCalls, OrgStarts(o)
    PROVE  IInv'
  <1> USE DEF IInv
  <1>1. /\ spc' = [spc EXCEPT ![o] = "sending"]
        /\ targets' = [targets EXCEPT ![o] = {c \in clients : OrgOf[c] = OrgOf[o]}]
        /\ slow' = [slow EXCEPT ![o] = {}]
        /\ UNCHANGED <<clients, closes, send, inbox, connVars, crashed, histVars, delivered>>
    BY DEF OrgStarts, Snapshot
  <1>2. /\ Hub \in Senders /\ o \in Senders /\ o # Hub
        /\ spc'[Hub] = spc[Hub] /\ targets'[Hub] = targets[Hub] /\ slow'[Hub] = slow[Hub]
    BY <1>1, HubAssumption DEF Senders, TypeOK
  <1>3. TypeOK'
    BY <1>1, <1>2 DEF TypeOK, connVars, histVars
  <1>4. ClosedOnce' /\ FanoutFacts' /\ FreshFacts'
    BY <1>1, <1>2 DEF ClosedOnce, FanoutFacts, FreshFacts, connVars, histVars
  <1>5. StreamFacts'
    BY <1>1, <1>2, QuietStream DEF histVars
  <1> QED
    BY <1>3, <1>4, <1>5

-----------------------------------------------------------------------------
\* A send of Run completes the stream of its recipient, or marks it slow;
\* one of a BroadcastToOrg adds to the channel only.
LEMMA OfferIInv ==
    ASSUME IInv, NEW f \in Senders, NEW c \in Clients, SendTo(f, c), Offer(f, c)
    PROVE  IInv'
  <1> USE DEF IInv
  <1>1. /\ UNCHANGED <<clients, closes, inbox, reader, writer, broken, posted, log, joined, spc, crashed>>
        /\ spc[f] = "sending" /\ c \in targets[f] /\ closes[c] = 0
        /\ targets' = [targets EXCEPT ![f] = @ \ {c}]
    BY DEF SendTo, Offer, connVars, histVars
  <1>2. Hub \in Senders /\ log \in Seq(Msgs)
    BY DEF Senders, TypeOK
  <1>3. ASSUME f = Hub
        PROVE  log # <<>> /\ Current(f) = log[Len(log)] /\ Current(f) \in Msgs
    <2>1. log # <<>>
      BY <1>1, <1>3 DEF FanoutFacts
    <2> QED
      BY <2>1, <1>2, <1>3 DEF Current
  <1>4. Current(f) \in Msgs \cup OrgCalls
    BY <1>3 DEF Current, Senders
  <1>5. CASE Len(send[c]) < SendSize
    <2>1. /\ send' = [send EXCEPT ![c] = Append(@, Current(f))]
          /\ delivered' = IF f = Hub THEN [delivered EXCEPT ![c] = Append(@, Current(f))]
                                     ELSE delivered
          /\ slow' = slow
      BY <1>5 DEF Offer
    <2>2. /\ Append(send[c], Current(f)) \in Seq(Msgs \cup OrgCalls)
          /\ Len(Append(send[c], Current(f))) <= SendSize
      BY <1>4, <1>5, HubAssumption DEF TypeOK
    <2>3. delivered' \in [Clients -> Seq(Msgs)]
      BY <2>1, <1>3 DEF TypeOK
    <2>4. TypeOK'
      BY <1>1, <2>1, <2>2, <2>3 DEF TypeOK
    <2>5. ClosedOnce' /\ FanoutFacts'
      BY <1>1, <1>2, <2>1 DEF ClosedOnce, FanoutFacts, TypeOK
    <2>6. FreshFacts'
      <3>1. f = Hub => reader[c] \notin {"off", "dialled"}
        BY <1>1 DEF FreshFacts
      <3> QED
        BY <1>1, <1>2, <2>1, <3>1 DEF FreshFacts, TypeOK
    <2>7. StreamFacts'
      <3>1. CASE f # Hub
        BY <1>1, <1>2, <2>1, <3>1, QuietStream DEF TypeOK
      <3>2. CASE f = Hub
        <4>1. targets'[Hub] = targets[Hub] \ {c} /\ slow'[Hub] = slow[Hub] /\ c \notin slow[Hub]
          BY <1>1, <1>2, <2>1, <3>2 DEF TypeOK, FanoutFacts
        <4>2. ASSUME NEW d \in clients, d # c
              PROVE  delivered'[d] = delivered[d]
          BY <2>1, <4>2 DEF TypeOK
        <4>3. ASSUME c \in clients
              PROVE  delivered'[c] = Due(c)
          <5>1. Due(c) # <<>> /\ delivered[c] = Front(Due(c))
            BY <1>1, <3>2, <4>3 DEF StreamFacts
          <5>2. joined[c] \in 0..Len(log)
            BY <1>2 DEF StreamFacts, TypeOK
          <5>3. Append(Front(Due(c)), log[Len(log)]) = Due(c)
            BY <1>2, <5>1, <5>2, FrontAndLast DEF Due
          <5>4. delivered'[c] = Append(delivered[c], log[Len(log)])
            BY <1>3, <2>1, <3>2 DEF TypeOK
          <5> QED
            BY <5>1, <5>3, <5>4
        <4>4. \A d \in Clients : Due(d)' = Due(d)
          BY <1>1 DEF Due
        <4>5. \A d \in Clients : joined'[d] <= Len(log')
          BY <1>1 DEF StreamFacts
        <4>6. clients \subseteq Clients
          BY DEF TypeOK
        <4> QED
          BY <1>1, <4>1, <4>2, <4>3, <4>4, <4>5, <4>6 DEF StreamFacts, Front
      <3> QED
        BY <3>1, <3>2
    <2> QED
      BY <2>4, <2>5, <2>6, <2>7
  <1>6. CASE ~(Len(send[c]) < SendSize)
    <2>1. slow' = [slow EXCEPT ![f] = @ \cup {c}] /\ UNCHANGED <<send, delivered>>
      BY <1>6 DEF Offer
    <2>2. TypeOK'
      BY <1>1, <2>1 DEF TypeOK
    <2>3. ClosedOnce' /\ FanoutFacts' /\ FreshFacts'
      BY <1>1, <1>2, <2>1 DEF ClosedOnce, FanoutFacts, FreshFacts, TypeOK
    <2>4. targets'[Hub] \cup slow'[Hub] = targets[Hub] \cup slow[Hub]
      BY <1>1, <1>2, <2>1 DEF TypeOK
    <2>5. \A d \in Clients : Due(d)' = Due(d)
      BY <1>1 DEF Due
    <2>6. clients \subseteq Clients
      BY DEF TypeOK
    <2>7. StreamFacts'
      BY <1>1, <2>1, <2>4, <2>5, <2>6 DEF StreamFacts, Front
    <2> QED
      BY <2>2, <2>3, <2>7
  <1> QED
    BY <1>5, <1>6

LEMMA OfferPanicsIInv ==
    ASSUME IInv, NEW f \in Senders, NEW c \in Clients, SendTo(f, c), OfferPanics(f, c)
    PROVE  IInv'
  <1> USE DEF IInv
  <1>1. /\ UNCHANGED <<clients, closes, inbox, reader, writer, broken, posted, log, joined,
                       targets, slow, send, delivered>>
        /\ spc[f] = "sending" /\ spc' = [spc EXCEPT ![f] = "panicked"]
        /\ crashed' \in BOOLEAN
    BY DEF SendTo, OfferPanics, connVars, histVars
  <1>2. Hub \in Senders
    BY DEF Senders
  <1>3. TypeOK'
    BY <1>1 DEF TypeOK
  <1>4. ClosedOnce' /\ FanoutFacts' /\ FreshFacts'
    BY <1>1, <1>2 DEF ClosedOnce, FanoutFacts, FreshFacts, TypeOK
  <1>5. StreamFacts'
    BY <1>1, QuietStream
  <1> QED
    BY <1>3, <1>4, <1>5

\* The slow leave the map; whoever stays has all that is due.
LEMMA DropSlowIInv ==
    ASSUME IInv, NEW f \in Senders, DropSlow(f)
    PROVE  IInv'
  <1> USE DEF IInv
  <1>1. /\ DropClients(slow[f] \cap clients) /\ targets[f] = {}
        /\ slow' = [slow EXCEPT ![f] = {}] /\ spc[f] = "sending"
        /\ spc' = [spc EXCEPT ![f] = IF f = Hub THEN "idle" ELSE "done"]
        /\ UNCHANGED <<send, inbox, targets, reader, writer, broken, crashed, posted, log,
                       joined, delivered>>
    BY DEF DropSlow, connVars, histVars
  <1>2. /\ clients' \subseteq clients /\ closes' \in [Clients -> Nat] /\ ClosedOnce'
        /\ \A d \in Clients : reader[d] \in {"off", "dialled"} => closes'[d] = 0
        /\ clients' = clients \ (slow[f] \cap clients)
    BY <1>1, DropKeeps DEF DropClients
  <1>3. Hub \in Senders
    BY DEF Senders
  <1>4. TypeOK'
    BY <1>1, <1>2 DEF TypeOK
  <1>5. FanoutFacts'
    BY <1>1, <1>3 DEF FanoutFacts, TypeOK
  <1>6. FreshFacts'
    BY <1>1, <1>2 DEF FreshFacts
  <1>7. StreamFacts'
    <2>1. CASE f # Hub
      BY <1>1, <1>2, <1>3, <2>1, QuietStream DEF TypeOK
    <2>2. CASE f = Hub
      <3>1. targets'[Hub] = {} /\ slow'[Hub] = {}
        BY <1>1, <1>3, <2>2 DEF TypeOK
      <3>2. \A c \in clients' : c \in clients /\ c \notin targets[Hub] \cup slow[Hub]
        BY <1>1, <1>2, <2>2
      <3>3. \A c \in Clients : Due(c)' = Due(c)
        BY <1>1 DEF Due
      <3>4. clients \subseteq Clients
        BY DEF TypeOK
      <3> QED
        BY <1>1, <3>1, <3>2, <3>3, <3>4 DEF StreamFacts
    <2> QED
      BY <2>1, <2>2
  <1> QED
    BY <1>2, <1>4, <1>5, <1>6, <1>7

-----------------------------------------------------------------------------
LEMMA StepIInv == IInv /\ [Next]_vars => IInv'
  <1> SUFFICES ASSUME IInv, [Next]_vars PROVE IInv'
    OBVIOUS
  <1>1. ASSUME NEW f \in Senders, NEW c \in Clients, SendTo(f, c) PROVE IInv'
    BY <1>1, OfferIInv, OfferPanicsIInv DEF SendTo
  <1>2. CASE HubStep
    <2>1. Hub \in Senders
      BY DEF Senders
    <2> QED
      BY <1>1, <1>2, <2>1, RegisterIInv, UnregisterIInv, ReceiveIInv, DropSlowIInv DEF HubStep
  <1>3. ASSUME NEW o \in OrgCalls, OrgStarts(o) \/ OrgStep(o) PROVE IInv'
    <2>1. o \in Senders
      BY DEF Senders
    <2> QED
      BY <1>1, <1>3, <2>1, OrgStartsIInv, DropSlowIInv DEF OrgStep
  <1>4. ASSUME NEW c \in Clients, PumpStep(c) \/ Dial(c) \/ PeerLeaves(c) PROVE IInv'
    BY <1>4, PumpIInv
  <1>5. ASSUME NEW m \in Msgs, Post(m) PROVE IInv'
    BY <1>5, PostIInv
  <1>6. CASE UNCHANGED vars
    BY <1>6 DEF IInv, TypeOK, ClosedOnce, FanoutFacts, FreshFacts, StreamFacts, Due, Front,
                vars, sendVars, connVars, histVars
  <1> QED
    BY <1>2, <1>3, <1>4, <1>5, <1>6 DEF Next

\* The invariant all of the theorems below rest on: types, closed channels,
\* where Run is in a fan-out, who is known, and what each stream holds.
THEOREM Inductive == Spec => []IInv
  BY InitIInv, StepIInv, PTL DEF Spec

\* The variables of the hub keep their types: channels stay within their
\* capacities, and Run sends only messages it took from an inbox.
THEOREM HubTypes == Spec => []TypeOK
  <1>1. IInv => TypeOK
    BY DEF IInv
  <1> QED
    BY <1>1, Inductive, PTL

\* ClosedOnce: whoever finds a client gone or slow -- Run, its fan-out, any number of
\* BroadcastToOrg calls -- client.send is closed at most once.
THEOREM ClosedOnceHolds == Spec => []ClosedOnce
  <1>1. IInv => ClosedOnce
    BY DEF IInv
  <1> QED
    BY <1>1, Inductive, PTL

\* NoGaps: a client in the map has been sent all that Run took out since it registered, in
\* order; a client too slow for one message is removed before the next one.
THEOREM NoGapsHolds == Spec => []NoGaps
  <1>1. IInv => NoGaps
    <2> SUFFICES ASSUME IInv, NEW c \in clients
                 PROVE  \/ delivered[c] = Due(c)
                        \/ /\ spc[Hub] \in {"sending", "panicked"}
                           /\ c \in targets[Hub] \cup slow[Hub]
                           /\ Due(c) # <<>>
                           /\ delivered[c] = SubSeq(Due(c), 1, Len(Due(c)) - 1)
      BY DEF NoGaps, Due
    <2>1. c \in targets[Hub] \cup slow[Hub] => spc[Hub] \in {"sending", "panicked"}
      <3>1. spc[Hub] \in {"idle", "sending", "done", "panicked"}
        BY DEF IInv, TypeOK, Senders
      <3> QED
        BY <3>1 DEF IInv, FanoutFacts
    <2> QED
      BY <2>1 DEF IInv, StreamFacts, Front
  <1> QED
    BY <1>1, Inductive, PTL
=============================================================================
