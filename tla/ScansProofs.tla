------------------------------ MODULE ScansProofs ------------------------------
(***************************************************************************)
(* Proofs about ScannerPipeline, for any targets, workers and capacities:  *)
(* while nobody cancels the scan, each result of each target reaches the   *)
(* dispatcher exactly once. And about ScanExecution, for any scans, sites, *)
(* findings and failures: the rows that scans store are always sound, what *)
(* is stored stays, and what a scan found is on record when it has         *)
(* completed without a failure or a cancellation. About SecurityChecks,    *)
(* for any page and failed requests: what a visit reports is there, and is *)
(* stored row by row. And the types of the three together.                 *)
(***************************************************************************)
EXTENDS MCScans, FiniteSetTheorems, SequenceTheorems, WellFoundedInduction, TLAPS

\* What a scanner may send.
Things == Nat \cup ({"https", "http"} \X Nat)
ProducerStates == [pc : {"free", "probing", "sending", "query", "returned"},
                   send : Seq(Things), left : Seq(Nat), tries : Nat]
Results(t) == ToSet(ProbeResult(t))
Left(w) == ToSet(producer[w].left)
Sending(w) == ToSet(producer[w].send)

PipelineIs ==
    /\ scanner \in AllScanners
    /\ \A p \in Passive : known[p] \subseteq Nat /\ IsFiniteSet(known[p])
    /\ waiting \in Seq(Nat) /\ inbox \in Seq(Nat)
    /\ outbox \in Seq(Things) /\ got \in Seq(Things)
    /\ producer \in [Producers -> ProducerStates]

\* What a producer has in hand follows from where it stands. A worker of the
\* pool has one target at a time; a passive source goes on with its list.
Standing(w) ==
    LET r == producer[w] IN
    /\ w \in Passive /\ r.pc # "returned" => scanner = "subdomain" /\ r.pc # "free"
    /\ \/ r.pc \in {"free", "returned"} /\ r.left = <<>> /\ r.send = <<>>
       \/ r.pc = "query" /\ r.left = <<>> /\ r.send = <<>> /\ w \in Passive
       \/ /\ r.pc = "probing" /\ r.left # <<>> /\ r.send = <<>>
          /\ w \in Pool => Tail(r.left) = <<>>
       \/ /\ r.pc = "sending" /\ r.send # <<>>
          /\ w \in Pool => r.left = <<>>
StandingsAre == \A w \in Producers : Standing(w)

\* A target is in one place until it is probed.
Pending == ToSet(waiting) \cup ToSet(inbox) \cup UNION {Left(w) : w \in Pool}
OneHand ==
    /\ IsInjective(waiting) /\ IsInjective(inbox) /\ ToSet(waiting) \cap ToSet(inbox) = {}
    /\ \A w \in Pool : Left(w) \cap (ToSet(waiting) \cup ToSet(inbox)) = {}
    /\ \A w, v \in Pool : w # v => Left(w) \cap Left(v) = {}
    /\ Pending \subseteq Given
    /\ \A p \in Passive : Left(p) \subseteq known[p]

\* A result is in one place from when it is found, and it is then among those
\* the scanner remembers.
OneWay ==
    /\ IsInjective(got) /\ IsInjective(outbox) /\ ToSet(got) \cap ToSet(outbox) = {}
    /\ \A w \in Producers : /\ IsInjective(producer[w].send)
                            /\ Sending(w) \cap (ToSet(got) \cup ToSet(outbox)) = {}
    /\ \A w, v \in Producers : w # v => Sending(w) \cap Sending(v) = {}
    /\ emitted = ToSet(got) \cup ToSet(outbox) \cup UNION {Sending(w) : w \in Producers}

\* A target that is no longer pending has its results found, one that is has
\* not (but a name that a passive source found first), and nothing else is.
Mine == UNION {Results(t) : t \in Given}
AllFound ==
    /\ \A t \in Given : t \in Pending \/ Results(t) \subseteq emitted
    /\ scanner # "subdomain" => \A t \in Pending : Results(t) \cap emitted = {}
    /\ emitted \subseteq Mine \cup (Listed \cap alive)

\* Who is over left nothing behind.
EndsAreClean ==
    /\ feeder \in {"feeding", "sending", "closed"}
    /\ feeder = "closed" => waiting = <<>>
    /\ feeder = "sending" => waiting # <<>>
    /\ \A w \in Pool : producer[w].pc = "returned" => feeder = "closed" /\ inbox = <<>>
    /\ consumer = "done" => Closed /\ outbox = <<>>

Flows == PipelineIs /\ StandingsAre /\ OneHand /\ OneWay /\ AllFound /\ EndsAreClean
IInv == stopped \in BOOLEAN /\ (~stopped => Flows)

-----------------------------------------------------------------------------
\* Sequences and the sets of their elements.
LEMMA Appended ==
    ASSUME NEW S, NEW s \in Seq(S), NEW e \in S
    PROVE  /\ Append(s, e) \in Seq(S)
           /\ ToSet(Append(s, e)) = ToSet(s) \cup {e}
           /\ IsInjective(s) /\ e \notin ToSet(s) => IsInjective(Append(s, e))
  <1> DEFINE a == Append(s, e)
  <1>1. /\ a \in Seq(S) /\ Len(a) = Len(s) + 1 /\ a[Len(s) + 1] = e
        /\ \A i \in 1..Len(s) : a[i] = s[i]
    BY AppendProperties
  <1>2. Len(s) \in Nat /\ DOMAIN s = 1..Len(s) /\ DOMAIN a = 1..(Len(s) + 1)
    BY <1>1
  <1> HIDE DEF a
  <1>3. ToSet(a) = ToSet(s) \cup {e}
    BY <1>1, <1>2 DEF ToSet
  <1>4. ASSUME IsInjective(s), e \notin ToSet(s)
        PROVE  IsInjective(a)
    <2> SUFFICES ASSUME NEW i \in DOMAIN a, NEW k \in DOMAIN a, a[i] = a[k]
                 PROVE  i = k
      BY DEF IsInjective
    <2>1. \A m \in 1..Len(s) : s[m] # e
      BY <1>2, <1>4 DEF ToSet
    <2> QED
      BY <1>1, <1>2, <1>4, <2>1 DEF IsInjective
  <1> QED
    BY <1>1, <1>3, <1>4 DEF a

LEMMA Split ==
    ASSUME NEW S, NEW s \in Seq(S), s # <<>>
    PROVE  /\ Head(s) \in S /\ Tail(s) \in Seq(S) /\ Head(s) \in ToSet(s)
           /\ ToSet(s) = {Head(s)} \cup ToSet(Tail(s))
           /\ IsInjective(s) => IsInjective(Tail(s)) /\ Head(s) \notin ToSet(Tail(s))
  <1> DEFINE t == Tail(s)
  <1>1. /\ Len(s) \in Nat \ {0} /\ DOMAIN s = 1..Len(s) /\ Head(s) = s[1]
        /\ t \in Seq(S) /\ Len(t) = Len(s) - 1 /\ \A i \in 1..Len(t) : t[i] = s[i + 1]
    BY HeadTailProperties, EmptySeq, LenProperties
  <1>2. DOMAIN t = 1..(Len(s) - 1)
    BY <1>1
  <1>3. Head(s) \in S
    BY <1>1
  <1> HIDE DEF t
  <1>4. ToSet(s) = {Head(s)} \cup ToSet(t)
    <2>1. ASSUME NEW i \in DOMAIN s, i # 1
          PROVE  s[i] \in ToSet(t)
      <3>1. i - 1 \in 1..Len(t) /\ t[i - 1] = s[i]
        BY <1>1, <2>1
      <3> QED
        BY <1>1, <1>2, <3>1 DEF ToSet
    <2>2. ASSUME NEW i \in DOMAIN t
          PROVE  t[i] \in ToSet(s)
      BY <1>1, <1>2 DEF ToSet
    <2>3. ToSet(s) \subseteq {Head(s)} \cup ToSet(t)
      BY <1>1, <2>1 DEF ToSet
    <2>4. ToSet(t) \subseteq ToSet(s) /\ Head(s) \in ToSet(s)
      BY <1>1, <2>2 DEF ToSet
    <2> QED
      BY <2>3, <2>4
  <1>5. ASSUME IsInjective(s)
        PROVE  IsInjective(t) /\ Head(s) \notin ToSet(t)
    <2>1. ASSUME NEW i \in DOMAIN t, NEW k \in DOMAIN t, t[i] = t[k]
          PROVE  i = k
      <3>1. /\ i \in Nat /\ i + 1 \in DOMAIN s /\ t[i] = s[i + 1]
            /\ k \in Nat /\ k + 1 \in DOMAIN s /\ t[k] = s[k + 1]
        BY <1>1, <1>2
      <3>2. i + 1 = k + 1
        BY <1>5, <2>1, <3>1 DEF IsInjective
      <3> QED
        BY <3>1, <3>2
    <2>3. IsInjective(t)
      BY <2>1 DEF IsInjective
    <2>2. ASSUME NEW i \in DOMAIN t
          PROVE  t[i] # Head(s)
      BY <1>1, <1>2, <1>5 DEF IsInjective
    <2> QED
      BY <2>2, <2>3 DEF ToSet
  <1> QED
    BY <1>1, <1>3, <1>4, <1>5 DEF t

LEMMA OfNone == ToSet(<<>>) = {} /\ IsInjective(<<>>) /\ \A S : <<>> \in Seq(S)
  BY DEF ToSet, IsInjective

LEMMA OfOne ==
    ASSUME NEW x
    PROVE  /\ ToSet(<<x>>) = {x} /\ IsInjective(<<x>>) /\ Head(<<x>>) = x
           /\ Tail(<<x>>) = <<>> /\ <<x>> # <<>>
  BY DEF ToSet, IsInjective

LEMMA OfTwo ==
    ASSUME NEW x, NEW y, x # y
    PROVE  ToSet(<<x, y>>) = {x, y} /\ IsInjective(<<x, y>>) /\ <<x, y>> # <<>>
  BY DEF ToSet, IsInjective

\* A probe sends what belongs to its target, and to no other.
LEMMA ResultsAre ==
    ASSUME scanner \in AllScanners, NEW t \in Nat
    PROVE  /\ ProbeResult(t) \in Seq(Things) /\ IsInjective(ProbeResult(t))
           /\ \A u \in Nat : u # t => Results(t) \cap Results(u) = {}
           /\ scanner = "subdomain" => Results(t) = IF t \in alive THEN {t} ELSE {}
           /\ ProbeResult(t) = <<>> => Results(t) = {}
  <1>1. ASSUME NEW u \in Nat
        PROVE  \/ /\ scanner # "web" /\ ProbeResult(u) = <<u>> /\ Results(u) = {u}
                  /\ scanner = "subdomain" => u \in alive
               \/ /\ scanner # "web" /\ ProbeResult(u) = <<>> /\ Results(u) = {}
                  /\ scanner = "subdomain" => u \notin alive
               \/ /\ scanner = "web" /\ ProbeResult(u) = <<<<"https", u>>, <<"http", u>>>>
                  /\ Results(u) = {<<"https", u>>, <<"http", u>>}
    <2>1. CASE scanner = "web"
      BY <2>1, OfTwo DEF ProbeResult, WebResult, Results
    <2>2. CASE scanner # "web"
      <3>1. ProbeResult(u) = <<u>> \/ ProbeResult(u) = <<>>
        BY <2>2 DEF ProbeResult, HostResult, PortResult, DomainResult, NameResult, AllScanners
      <3>2. scanner = "subdomain" => ProbeResult(u) = IF u \in alive THEN <<u>> ELSE <<>>
        BY DEF ProbeResult, NameResult
      <3> QED
        BY <2>2, <3>1, <3>2, OfOne, OfNone DEF Results
    <2> QED
      BY <2>1, <2>2
  <1>2. ProbeResult(t) \in Seq(Things) /\ IsInjective(ProbeResult(t))
    <2>1. CASE ProbeResult(t) = <<t>>
      BY <2>1, OfOne DEF Things
    <2>2. CASE ProbeResult(t) = <<>>
      BY <2>2, OfNone
    <2>3. CASE ProbeResult(t) = <<<<"https", t>>, <<"http", t>>>>
      BY <2>3, OfTwo DEF Things
    <2> QED
      BY <1>1, <2>1, <2>2, <2>3
  <1>3. \A u \in Nat : u # t => Results(t) \cap Results(u) = {}
    BY <1>1
  <1>4. scanner = "subdomain" => Results(t) = IF t \in alive THEN {t} ELSE {}
    BY <1>1
  <1>5. ProbeResult(t) = <<>> => Results(t) = {}
    BY OfNone DEF Results
  <1> QED
    BY <1>2, <1>3, <1>4, <1>5

-----------------------------------------------------------------------------
\* A pool and the passive sources are apart, and a pool has workers.
LEMMA PoolIs ==
    /\ Pool \cap Passive = {} /\ Producers = Pool \cup Passive /\ Pool # {}
    /\ CrtSh # HackerTarget
  <1>1. PoolSize \in Nat \ {0}
    BY ScannerPipelineAssumption DEF ScannerPipelineAssumption
  <1>2. <<"worker", 1>> \in Pool
    BY <1>1 DEF Pool
  <1>3. CrtSh # HackerTarget
    BY DEF CrtSh, HackerTarget
  <1>4. ASSUME NEW w \in Pool
        PROVE  w \notin Passive
    <2>1. PICK i \in 1..PoolSize : w = <<"worker", i>>
      BY DEF Pool
    <2> QED
      BY <2>1 DEF Passive, CrtSh, HackerTarget
  <1> QED
    BY <1>2, <1>3, <1>4 DEF Producers

\* One producer moves.
LEMMA OneMoves ==
    ASSUME PipelineIs, NEW w \in Producers, NEW r, WorkerBecomes(w, r)
    PROVE  /\ producer'[w] = r /\ Left(w)' = ToSet(r.left) /\ Sending(w)' = ToSet(r.send)
           /\ \A v \in Producers \ {w} : /\ producer'[v] = producer[v]
                                         /\ Left(v)' = Left(v) /\ Sending(v)' = Sending(v)
  <1>1. producer'[w] = r /\ \A v \in Producers \ {w} : producer'[v] = producer[v]
    BY DEF PipelineIs, WorkerBecomes
  <1> QED
    BY <1>1 DEF Left, Sending

LEMMA StandingsStay ==
    ASSUME StandingsAre, scanner' = scanner, NEW w \in Producers, Standing(w)',
           \A v \in Producers \ {w} : producer'[v] = producer[v]
    PROVE  StandingsAre'
  <1>1. ASSUME NEW v \in Producers \ {w}
        PROVE  Standing(v)'
    BY DEF StandingsAre, Standing
  <1> QED
    BY <1>1 DEF StandingsAre

\* What scanners find of a target stays as it is.
Fixed == scanner' = scanner /\ alive' = alive /\ known' = known
LEMMA FixedResults ==
    ASSUME Fixed
    PROVE  /\ \A t : Results(t)' = Results(t)
           /\ Given' = Given /\ Mine' = Mine /\ Listed' = Listed
  <1>1. \A t : ProbeResult(t)' = ProbeResult(t)
    BY DEF Fixed, ProbeResult, HostResult, PortResult, DomainResult, WebResult, NameResult
  <1>2. \A t : Results(t)' = Results(t)
    BY <1>1 DEF Results
  <1>3. Given' = Given /\ Listed' = Listed
    BY DEF Fixed, Given, Listed
  <1> QED
    BY <1>2, <1>3 DEF Mine

\* Steps that move neither a target nor a result.
NothingMoves == UNCHANGED <<waiting, inbox, producer, emitted, outbox, got>>
LEMMA NothingMovesKeeps ==
    ASSUME Flows, Fixed, NothingMoves
    PROVE  PipelineIs' /\ StandingsAre' /\ OneHand' /\ OneWay' /\ AllFound'
  <1>1. \A w : Left(w)' = Left(w) /\ Sending(w)' = Sending(w)
    BY DEF NothingMoves, Left, Sending
  <1>2. PipelineIs' /\ StandingsAre'
    BY DEF Flows, PipelineIs, StandingsAre, Standing, NothingMoves, Fixed
  <1>3. Pending' = Pending
    BY <1>1 DEF Pending, NothingMoves
  <1>4. OneHand'
    BY <1>1, <1>3, FixedResults DEF Flows, OneHand, NothingMoves, Fixed
  <1>5. OneWay'
    BY <1>1 DEF Flows, OneWay, NothingMoves
  <1>6. AllFound'
    BY <1>3, FixedResults DEF Flows, AllFound, NothingMoves, Fixed
  <1> QED
    BY <1>2, <1>4, <1>5, <1>6

\* A scan that is not over has a feeder or a producer that is not.
LEMMA NotYetDone ==
    ASSUME Flows, \/ feeder # "closed"
                  \/ \E w \in Producers : producer[w].pc # "returned"
                  \/ outbox # <<>>
    PROVE  consumer # "done"
  BY DEF Flows, EndsAreClean, Closed

LEMMA TickKeeps ==
    ASSUME Flows, Tick, ~stopped
    PROVE  Flows'
  <1>1. Fixed /\ NothingMoves /\ consumer' = consumer
    BY DEF Tick, Fixed, NothingMoves
  <1>2. feeder = "feeding" /\ feeder' = "sending" /\ waiting # <<>>
    BY DEF Tick
  <1>3. EndsAreClean'
    BY <1>1, <1>2, NotYetDone DEF Flows, EndsAreClean, NothingMoves
  <1> QED
    BY <1>1, <1>3, NothingMovesKeeps DEF Flows

LEMMA CloseInboxKeeps ==
    ASSUME Flows, CloseInbox, ~stopped
    PROVE  Flows'
  <1>1. Fixed /\ NothingMoves /\ consumer' = consumer
    BY DEF CloseInbox, Fixed, NothingMoves
  <1>2. feeder = "feeding" /\ feeder' = "closed" /\ waiting = <<>>
    BY DEF CloseInbox, Flows, EndsAreClean
  <1>3. EndsAreClean'
    BY <1>1, <1>2, NotYetDone DEF Flows, EndsAreClean, NothingMoves
  <1> QED
    BY <1>1, <1>3, NothingMovesKeeps DEF Flows

LEMMA StoreKeeps ==
    ASSUME Flows, Store
    PROVE  Flows'
  <1>1. Fixed /\ NothingMoves /\ feeder' = feeder /\ consumer' = "reading"
    BY DEF Store, Fixed, NothingMoves
  <1>2. EndsAreClean'
    BY <1>1 DEF Flows, EndsAreClean, NothingMoves
  <1> QED
    BY <1>1, <1>2, NothingMovesKeeps DEF Flows

\* The next target goes from the feeder to the channel.
LEMMA HandsOverKeeps ==
    ASSUME Flows, waiting # <<>>, FeederHands, feeder # "closed", feeder' = "feeding", Fixed,
           UNCHANGED <<producer, emitted, outbox, consumer, got>>
    PROVE  Flows'
  <1>0. PipelineIs /\ StandingsAre /\ OneHand /\ OneWay /\ AllFound /\ EndsAreClean
    BY DEF Flows
  <1> DEFINE t == Head(waiting)
  <1>1. /\ t \in Nat /\ waiting' \in Seq(Nat) /\ inbox' \in Seq(Nat)
        /\ t \in ToSet(waiting) /\ ToSet(waiting) = {t} \cup ToSet(waiting')
        /\ t \notin ToSet(waiting') /\ IsInjective(waiting')
    BY <1>0, Split, Appended DEF PipelineIs, OneHand, FeederHands
  <1>2. ToSet(inbox') = ToSet(inbox) \cup {t} /\ IsInjective(inbox')
    BY <1>0, <1>1, Appended DEF PipelineIs, OneHand, FeederHands
  <1> HIDE DEF t
  <1>3. \A w : Left(w)' = Left(w) /\ Sending(w)' = Sending(w)
    BY DEF Left, Sending
  <1>4. PipelineIs' /\ StandingsAre'
    BY <1>0, <1>1 DEF PipelineIs, StandingsAre, Standing, Fixed
  <1>5. Pending' = Pending
    BY <1>1, <1>2, <1>3 DEF Pending
  <1>6. OneHand'
    <2>1. ToSet(waiting') \cap ToSet(inbox') = {}
      BY <1>0, <1>1, <1>2 DEF OneHand
    <2>2. ToSet(waiting') \cup ToSet(inbox') = ToSet(waiting) \cup ToSet(inbox)
      BY <1>1, <1>2
    <2> QED
      BY <1>0, <1>1, <1>2, <1>3, <1>5, <2>1, <2>2, FixedResults DEF OneHand, Fixed
  <1>7. OneWay'
    BY <1>0, <1>3 DEF OneWay
  <1>8. AllFound'
    BY <1>0, <1>5, FixedResults DEF AllFound, Fixed
  <1>9. EndsAreClean'
    BY <1>0, NotYetDone DEF EndsAreClean
  <1> QED
    BY <1>4, <1>6, <1>7, <1>8, <1>9 DEF Flows

LEMMA FeedKeeps ==
    ASSUME Flows, Feed, ~stopped
    PROVE  Flows'
  <1>1. PICK kind : FeedAs(kind)
    BY DEF Feed, FeedPorts, FeedDomains, FeedURLs, FeedWords
  <1> QED
    BY <1>1, HandsOverKeeps DEF FeedAs, Fixed

LEMMA HandOverKeeps ==
    ASSUME Flows, HandOver
    PROVE  Flows'
  <1>1. waiting # <<>>
    BY DEF HandOver, Flows, EndsAreClean
  <1> QED
    BY <1>1, HandsOverKeeps DEF HandOver, Fixed

\* The dispatcher takes a result, or sees that there will be none.
LEMMA ReceiveKeeps ==
    ASSUME Flows, Receive
    PROVE  Flows'
  <1>0. PipelineIs /\ StandingsAre /\ OneHand /\ OneWay /\ AllFound /\ EndsAreClean
    BY DEF Flows
  <1>1. Fixed /\ UNCHANGED <<feeder, waiting, inbox, producer, emitted>>
    BY DEF Receive, Fixed
  <1>2. CASE /\ outbox # <<>> /\ got' = Append(got, Head(outbox)) /\ outbox' = Tail(outbox)
             /\ consumer' = "busy"
    <2> DEFINE x == Head(outbox)
    <2>1. /\ x \in Things /\ outbox' \in Seq(Things) /\ x \in ToSet(outbox)
          /\ ToSet(outbox) = {x} \cup ToSet(outbox')
          /\ x \notin ToSet(outbox') /\ IsInjective(outbox')
      BY <1>0, <1>2, Split DEF PipelineIs, OneWay
    <2>2. x \notin ToSet(got)
      BY <1>0, <2>1 DEF OneWay
    <2>3. got' \in Seq(Things) /\ ToSet(got') = ToSet(got) \cup {x} /\ IsInjective(got')
      BY <1>0, <1>2, <2>1, <2>2, Appended DEF PipelineIs, OneWay
    <2> HIDE DEF x
    <2>4. \A w : Left(w)' = Left(w) /\ Sending(w)' = Sending(w)
      BY <1>1 DEF Left, Sending
    <2>5. PipelineIs' /\ StandingsAre'
      BY <1>0, <1>1, <2>1, <2>3 DEF PipelineIs, StandingsAre, Standing, Fixed
    <2>6. Pending' = Pending
      BY <1>1, <2>4 DEF Pending
    <2>7. OneHand'
      BY <1>0, <1>1, <2>4, <2>6, FixedResults DEF OneHand, Fixed
    <2>8. OneWay'
      <3>1. ToSet(got') \cup ToSet(outbox') = ToSet(got) \cup ToSet(outbox)
        BY <2>1, <2>3
      <3>2. ToSet(got') \cap ToSet(outbox') = {}
        BY <1>0, <2>1, <2>3 DEF OneWay
      <3> QED
        BY <1>0, <1>1, <2>1, <2>3, <2>4, <3>1, <3>2 DEF OneWay
    <2>9. AllFound'
      BY <1>0, <1>1, <2>6, FixedResults DEF AllFound, Fixed
    <2>10. EndsAreClean'
      BY <1>0, <1>1, <1>2 DEF EndsAreClean
    <2> QED
      BY <2>5, <2>7, <2>8, <2>9, <2>10 DEF Flows
  <1>3. CASE outbox = <<>> /\ Closed /\ consumer' = "done" /\ UNCHANGED <<got, outbox>>
    <2>1. NothingMoves
      BY <1>1, <1>3 DEF NothingMoves
    <2>2. EndsAreClean'
      BY <1>0, <1>1, <1>3 DEF EndsAreClean, Closed
    <2> QED
      BY <1>1, <2>1, <2>2, NothingMovesKeeps DEF Flows
  <1> QED
    BY <1>2, <1>3 DEF Receive

\* A worker takes the next target, or sees that there will be none.
LEMMA TakeKeeps ==
    ASSUME Flows, NEW w \in Producers, Take(w), ~stopped
    PROVE  Flows'
  <1>0. PipelineIs /\ StandingsAre /\ OneHand /\ OneWay /\ AllFound /\ EndsAreClean
    BY DEF Flows
  <1>1. /\ w \in Pool /\ producer[w].pc = "free"
        /\ producer[w].left = <<>> /\ producer[w].send = <<>>
    BY <1>0, PoolIs DEF Take, StandingsAre, Standing
  <1>2. Fixed /\ UNCHANGED <<feeder, waiting, emitted, outbox, consumer, got>>
    BY DEF Take, Fixed
  <1>3. consumer # "done"
    BY <1>1, NotYetDone
  <1>4. CASE /\ inbox # <<>> /\ inbox' = Tail(inbox)
             /\ WorkerBecomes(w, [Free EXCEPT !.pc = "probing", !.left = <<Head(inbox)>>])
    <2> DEFINE t == Head(inbox)
               r == [Free EXCEPT !.pc = "probing", !.left = <<t>>]
    <2>1. /\ t \in Nat /\ inbox' \in Seq(Nat) /\ ToSet(inbox) = {t} \cup ToSet(inbox')
          /\ t \notin ToSet(inbox') /\ IsInjective(inbox')
      BY <1>0, <1>4, Split DEF PipelineIs, OneHand
    <2>2. r.pc = "probing" /\ r.left = <<t>> /\ r.send = <<>> /\ r.tries = 0
      BY DEF Free
    <2>3. r \in ProducerStates
      <3>1. <<t>> \in Seq(Nat) /\ <<>> \in Seq(Things)
        BY <2>1
      <3> QED
        BY <3>1 DEF Free, ProducerStates
    <2>0. WorkerBecomes(w, r)
      BY <1>4
    <2> HIDE DEF t, r
    <2>4. /\ producer'[w] = r /\ Left(w)' = {t} /\ Sending(w)' = {}
          /\ \A v \in Producers \ {w} : /\ producer'[v] = producer[v]
                                        /\ Left(v)' = Left(v) /\ Sending(v)' = Sending(v)
      <3>1. ToSet(r.left) = {t} /\ ToSet(r.send) = {}
        BY <2>2, OfOne, OfNone
      <3>2. PipelineIs
        BY <1>0
      <3> QED
        BY <2>0, <3>1, <3>2, OneMoves
    <2>5. Left(w) = {} /\ Sending(w) = {}
      BY <1>1, OfNone DEF Left, Sending
    <2>6. PipelineIs'
      BY <1>0, <1>2, <2>1, <2>3, <2>0 DEF PipelineIs, Fixed, WorkerBecomes
    <2>7. StandingsAre'
      <3>1. Standing(w)'
        BY <1>1, <2>2, <2>4, OfOne, PoolIs DEF Standing
      <3> QED
        BY <1>0, <1>2, <2>4, <3>1, StandingsStay DEF Fixed
    <2>8. Pending' = Pending
      BY <1>1, <1>2, <2>1, <2>4, <2>5, PoolIs DEF Pending
    <2>9. OneHand'
      <3>1. ToSet(waiting) \cap ToSet(inbox') = {} /\ t \notin ToSet(waiting)
        BY <1>0, <2>1 DEF OneHand
      <3>2. \A v \in Pool : Left(v)' \cap (ToSet(waiting') \cup ToSet(inbox')) = {}
        BY <1>0, <1>2, <2>1, <2>4, <3>1, PoolIs DEF OneHand
      <3>3. \A v, u \in Pool : v # u => Left(v)' \cap Left(u)' = {}
        BY <1>0, <2>1, <2>4, PoolIs DEF OneHand
      <3>4. \A p \in Passive : Left(p)' = Left(p)
        BY <1>1, <2>4, PoolIs
      <3> QED
        BY <1>0, <1>2, <2>1, <2>8, <3>1, <3>2, <3>3, <3>4, FixedResults DEF OneHand, Fixed
    <2>10. OneWay'
      <3>1. \A v \in Producers : Sending(v)' = Sending(v)
        BY <2>4, <2>5
      <3>2. \A v \in Producers : IsInjective(producer'[v].send)
        BY <1>0, <2>2, <2>4, OfNone DEF OneWay
      <3> QED
        BY <1>0, <1>2, <3>1, <3>2 DEF OneWay
    <2>11. AllFound'
      BY <1>0, <1>2, <2>8, FixedResults DEF AllFound, Fixed
    <2>12. EndsAreClean'
      BY <1>0, <1>2, <1>3, <1>4, <2>2, <2>4, PoolIs DEF EndsAreClean
    <2> QED
      BY <2>6, <2>7, <2>9, <2>10, <2>11, <2>12 DEF Flows
  <1>5. CASE /\ inbox = <<>> /\ feeder = "closed" /\ UNCHANGED inbox
             /\ WorkerBecomes(w, Returned)
    <2>1. /\ Returned.pc = "returned" /\ Returned.left = <<>> /\ Returned.send = <<>>
          /\ Returned \in ProducerStates
      BY OfNone DEF Returned, Free, ProducerStates
    <2>2. /\ producer'[w] = Returned /\ Left(w)' = Left(w) /\ Sending(w)' = Sending(w)
          /\ \A v \in Producers \ {w} : /\ producer'[v] = producer[v]
                                        /\ Left(v)' = Left(v) /\ Sending(v)' = Sending(v)
      BY <1>0, <1>1, <1>5, <2>1, OneMoves, OfNone DEF Left, Sending
    <2>3. PipelineIs'
      BY <1>0, <1>2, <1>5, <2>1 DEF PipelineIs, Fixed, WorkerBecomes
    <2>4. StandingsAre'
      <3>1. Standing(w)'
        BY <2>1, <2>2 DEF Standing
      <3> QED
        BY <1>0, <1>2, <2>2, <3>1, StandingsStay DEF Fixed
    <2>5. \A v \in Producers : Left(v)' = Left(v) /\ Sending(v)' = Sending(v)
      BY <2>2
    <2>6. Pending' = Pending
      BY <1>2, <1>5, <2>5, PoolIs DEF Pending
    <2>7. OneHand'
      BY <1>0, <1>2, <1>5, <2>5, <2>6, PoolIs, FixedResults DEF OneHand, Fixed
    <2>8. OneWay'
      <3>1. \A v \in Producers : IsInjective(producer'[v].send)
        BY <1>0, <2>1, <2>2, OfNone DEF OneWay
      <3> QED
        BY <1>0, <1>2, <2>5, <3>1 DEF OneWay
    <2>9. AllFound'
      BY <1>0, <1>2, <2>6, FixedResults DEF AllFound, Fixed
    <2>10. EndsAreClean'
      BY <1>0, <1>2, <1>3, <1>5, <2>2, PoolIs DEF EndsAreClean
    <2> QED
      BY <2>3, <2>4, <2>7, <2>8, <2>9, <2>10 DEF Flows
  <1> QED
    BY <1>4, <1>5 DEF Take

\* A target has been probed: it is no longer in hand, and its results are on
\* their way now, unless it has none or they already were.
LEMMA ProbedKeeps ==
    ASSUME Flows, NEW w \in Producers, producer[w].pc = "probing", NEW t,
           t = Head(producer[w].left), NEW n \in ProducerStates, WorkerBecomes(w, n),
           n.left = Tail(producer[w].left), Standing(w)', w \in Pool => n.pc # "returned",
           Fixed, UNCHANGED <<feeder, waiting, inbox, outbox, consumer, got>>,
           \/ n.send = <<>> /\ emitted' = emitted /\ Results(t) \subseteq emitted
           \/ /\ n.send = ProbeResult(t) /\ emitted' = emitted \cup Results(t)
              /\ Results(t) \cap emitted = {} /\ Results(t) \subseteq Mine \cup (Listed \cap alive)
    PROVE  Flows'
  <1>0. PipelineIs /\ StandingsAre /\ OneHand /\ OneWay /\ AllFound /\ EndsAreClean
    BY DEF Flows
  <1> DEFINE r == producer[w]
  <1>1. /\ r.send = <<>> /\ r.left # <<>> /\ r.left \in Seq(Nat)
        /\ w \in Pool => Tail(r.left) = <<>>
    BY <1>0 DEF PipelineIs, StandingsAre, Standing, ProducerStates
  <1>2. t \in Nat /\ Left(w) = {t} \cup ToSet(n.left)
    BY <1>1, Split DEF Left
  <1>3. /\ producer'[w] = n /\ Left(w)' = ToSet(n.left) /\ Sending(w)' = ToSet(n.send)
        /\ \A v \in Producers \ {w} : /\ producer'[v] = producer[v]
                                      /\ Left(v)' = Left(v) /\ Sending(v)' = Sending(v)
    BY <1>0, OneMoves
  <1>4. w \in Pool => Left(w) = {t} /\ Left(w)' = {}
    BY <1>1, <1>2, <1>3, OfNone
  <1>5. Sending(w) = {}
    BY <1>1, OfNone DEF Sending
  <1>6. PipelineIs' /\ StandingsAre'
    <2>1. PipelineIs'
      BY <1>0 DEF PipelineIs, Fixed, WorkerBecomes, ProducerStates
    <2> QED
      BY <1>0, <1>3, <2>1, StandingsStay DEF Fixed
  <1>7. \A v \in Producers : Left(v)' \subseteq Left(v)
    BY <1>2, <1>3
  <1>8. Pending' = IF w \in Pool THEN Pending \ {t} ELSE Pending
    <2>1. CASE w \in Pool
      <3>1. \A v \in Pool \ {w} : t \notin Left(v)
        BY <1>0, <1>4, <2>1 DEF OneHand
      <3>2. t \notin ToSet(waiting) \cup ToSet(inbox)
        BY <1>0, <1>4, <2>1 DEF OneHand
      <3> QED
        BY <1>3, <1>4, <2>1, <3>1, <3>2, PoolIs DEF Pending
    <2>2. CASE w \notin Pool
      BY <1>3, <2>2, PoolIs DEF Pending
    <2> QED
      BY <2>1, <2>2
  <1>9. OneHand'
    <2>1. \A v \in Pool : Left(v)' \cap (ToSet(waiting') \cup ToSet(inbox')) = {}
      BY <1>0, <1>7, PoolIs DEF OneHand
    <2>2. \A v, u \in Pool : v # u => Left(v)' \cap Left(u)' = {}
      BY <1>0, <1>7, PoolIs DEF OneHand
    <2>3. \A p \in Passive : Left(p)' \subseteq known'[p]
      BY <1>0, <1>7, PoolIs DEF OneHand, Fixed
    <2>4. Pending' \subseteq Given'
      BY <1>0, <1>8, FixedResults DEF OneHand
    <2> QED
      BY <1>0, <2>1, <2>2, <2>3, <2>4 DEF OneHand
  <1>10. OneWay'
    <2>1. IsInjective(n.send) /\ ToSet(n.send) \cap emitted = {}
      <3>1. IsInjective(ProbeResult(t))
        BY <1>0, <1>2, ResultsAre DEF PipelineIs
      <3>2. ToSet(ProbeResult(t)) = Results(t)
        BY DEF Results
      <3> QED
        BY <3>1, <3>2, OfNone
    <2>2. emitted' = emitted \cup ToSet(n.send)
      BY OfNone DEF Results
    <2>3. \A v \in Producers : Sending(v) \subseteq emitted
      BY <1>0 DEF OneWay
    <2>4. ToSet(got) \cup ToSet(outbox) \subseteq emitted
      BY <1>0 DEF OneWay
    <2>5. \A v \in Producers : /\ IsInjective(producer'[v].send)
                               /\ Sending(v)' \cap (ToSet(got') \cup ToSet(outbox')) = {}
      BY <1>0, <1>3, <2>1, <2>4 DEF OneWay
    <2>6. \A v, u \in Producers : v # u => Sending(v)' \cap Sending(u)' = {}
      BY <1>0, <1>3, <2>1, <2>3 DEF OneWay
    <2> DEFINE Before == UNION {Sending(v) : v \in Producers}
               Now == UNION {Sending(v)' : v \in Producers}
    <2>7. ASSUME NEW x
          PROVE  x \in Now <=> x \in Before \/ x \in ToSet(n.send)
      <3>1. (\E v \in Producers : x \in Sending(v)')
              <=> (\E v \in Producers \ {w} : x \in Sending(v)) \/ x \in ToSet(n.send)
        BY <1>3
      <3>2. (\E v \in Producers \ {w} : x \in Sending(v))
              <=> (\E v \in Producers : x \in Sending(v))
        BY <1>5
      <3> QED
        BY <3>1, <3>2
    <2>8. emitted = ToSet(got) \cup ToSet(outbox) \cup Before
      BY <1>0 DEF OneWay
    <2>9. emitted' = ToSet(got') \cup ToSet(outbox') \cup Now
      <3> HIDE DEF Before, Now
      <3>1. Now = Before \cup ToSet(n.send)
        BY <2>7
      <3> QED
        BY <2>2, <2>8, <3>1
    <2>10. /\ IsInjective(got') /\ IsInjective(outbox')
           /\ ToSet(got') \cap ToSet(outbox') = {}
      BY <1>0 DEF OneWay
    <2> QED
      BY <2>5, <2>6, <2>9, <2>10 DEF OneWay
  <1>11. AllFound'
    <2>1. emitted \subseteq emitted' /\ Results(t) \subseteq emitted'
      OBVIOUS
    <2>2. \A u \in Given : u \in Pending' \/ Results(u) \subseteq emitted'
      BY <1>0, <1>8, <2>1 DEF AllFound
    <2>3. ASSUME scanner # "subdomain", NEW u \in Pending'
          PROVE  Results(u) \cap emitted' = {}
      <3>1. w \in Pool
        BY <1>0, <2>3, PoolIs DEF StandingsAre, Standing
      <3>2. u \in Pending /\ u # t
        BY <1>8, <2>3, <3>1
      <3>3. u \in Nat
        BY <1>0, <3>2 DEF OneHand, Given
      <3>4. Results(u) \cap emitted = {}
        BY <1>0, <2>3, <3>2 DEF AllFound
      <3>5. Results(u) \cap Results(t) = {}
        BY <1>0, <1>2, <3>2, <3>3, ResultsAre DEF PipelineIs
      <3> QED
        BY <3>4, <3>5
    <2>4. emitted' \subseteq Mine \cup (Listed \cap alive)
      BY <1>0 DEF AllFound
    <2> QED
      BY <2>2, <2>3, <2>4, FixedResults DEF AllFound, Fixed
  <1>12. EndsAreClean'
    <2>1. consumer # "done"
      BY NotYetDone
    <2> QED
      BY <1>0, <1>3, <2>1, PoolIs DEF EndsAreClean
  <1> QED
    BY <1>6, <1>9, <1>10, <1>11, <1>12 DEF Flows

LEMMA ProbeKeeps ==
    ASSUME Flows, NEW w \in Producers, Probe(w), ~stopped
    PROVE  Flows'
  <1>0. PipelineIs /\ StandingsAre /\ OneHand /\ OneWay /\ AllFound /\ EndsAreClean
    BY DEF Flows
  <1> DEFINE r == producer[w]
             h == Head(r.left)
             found == ProbeResult(h)
  <1>1. r.pc = "probing" /\ r.left # <<>> /\ r.send = <<>> /\ r \in ProducerStates
    BY <1>0 DEF Probe, StandingsAre, Standing, PipelineIs, ProducerStates
  <1>2. /\ r.left \in Seq(Nat) /\ r.tries \in Nat
        /\ r = [pc |-> r.pc, send |-> r.send, left |-> r.left, tries |-> r.tries]
    BY <1>1 DEF ProducerStates
  <1>3. h \in Nat /\ Tail(r.left) \in Seq(Nat) /\ h \in Left(w)
    BY <1>1, <1>2, Split DEF Left
  <1>4. /\ found \in Seq(Things) /\ (found = <<>> => Results(h) = {})
        /\ scanner = "subdomain" => Results(h) = IF h \in alive THEN {h} ELSE {}
    BY <1>0, <1>3, ResultsAre DEF PipelineIs
  <1>5. Fixed /\ UNCHANGED <<feeder, waiting, inbox, outbox, consumer, got>>
    BY DEF Probe, Fixed
  <1>6. /\ Free \in ProducerStates /\ Free.pc = "free" /\ Free.left = <<>> /\ Free.send = <<>>
        /\ Returned \in ProducerStates /\ Returned.pc = "returned"
        /\ Returned.left = <<>> /\ Returned.send = <<>>
    BY OfNone DEF Free, Returned, ProducerStates
  <1>7. w \in Passive => scanner = "subdomain"
    BY <1>0, <1>1 DEF StandingsAre, Standing
  <1>8. w \in Pool => Tail(r.left) = <<>>
    BY <1>0, <1>1 DEF StandingsAre, Standing
  <1>9. CASE /\ found = <<>> \/ ~Fresh(found)
             /\ WorkerBecomes(w, IF Tail(r.left) # <<>> THEN [r EXCEPT !.left = Tail(@)]
                                 ELSE IF w \in Pool THEN Free ELSE Returned)
             /\ UNCHANGED emitted
    <2> DEFINE m == [r EXCEPT !.left = Tail(@)]
               n == IF Tail(r.left) # <<>> THEN m ELSE IF w \in Pool THEN Free ELSE Returned
    <2>0. m \in ProducerStates /\ m.pc = "probing" /\ m.send = <<>> /\ m.left = Tail(r.left)
      BY <1>1, <1>3 DEF ProducerStates
    <2>1. WorkerBecomes(w, n)
      BY <1>9
    <2> HIDE DEF m
    <2>2. n \in ProducerStates /\ n.left = Tail(r.left) /\ n.send = <<>>
      BY <1>6, <2>0
    <2>3. n.pc = IF Tail(r.left) # <<>> THEN "probing"
                 ELSE IF w \in Pool THEN "free" ELSE "returned"
      BY <1>6, <2>0
    <2> HIDE DEF n
    <2>4. Standing(w)'
      <3>1. producer'[w] = n
        BY <1>0, <2>1, OneMoves
      <3> QED
        BY <1>5, <1>7, <1>8, <2>2, <2>3, <3>1, PoolIs DEF Standing, Fixed
    <2>5. Results(h) \subseteq emitted
      <3>1. CASE found = <<>>
        BY <1>4, <3>1
      <3>2. CASE ~Fresh(found)
        BY <1>4, <3>2 DEF Fresh, Results
      <3> QED
        BY <1>9, <3>1, <3>2
    <2>6. w \in Pool => n.pc # "returned"
      BY <1>8, <2>3
    <2>7. emitted' = emitted
      BY <1>9
    <2> HIDE DEF found
    <2> QED
      BY <1>1, <1>5, <2>1, <2>2, <2>4, <2>5, <2>6, <2>7, ProbedKeeps
  <1>10. CASE /\ found # <<>> /\ Fresh(found)
              /\ WorkerBecomes(w, [r EXCEPT !.pc = "sending", !.send = found, !.left = Tail(@)])
              /\ emitted' = emitted \cup ToSet(found)
    <2> DEFINE n == [r EXCEPT !.pc = "sending", !.send = found, !.left = Tail(@)]
    <2>1. WorkerBecomes(w, n)
      BY <1>10
    <2>2. n \in ProducerStates /\ n.pc = "sending" /\ n.send = found /\ n.left = Tail(r.left)
      <3> HIDE DEF found
      <3> QED
        BY <1>1, <1>3, <1>4 DEF ProducerStates
    <2> HIDE DEF n
    <2>4. Standing(w)'
      <3>1. producer'[w] = n
        BY <1>0, <2>1, OneMoves
      <3> QED
        BY <1>5, <1>7, <1>8, <1>10, <2>2, <3>1 DEF Standing, Fixed
    <2>5. w \in Pool => h \in Pending /\ h \in Given
      BY <1>0, <1>3 DEF OneHand, Pending
    <2>6. Results(h) \cap emitted = {}
      <3>1. CASE scanner = "subdomain"
        BY <1>10, <3>1 DEF Fresh, Results
      <3>2. CASE scanner # "subdomain"
        BY <1>0, <1>7, <2>5, <3>2, PoolIs DEF AllFound
      <3> QED
        BY <3>1, <3>2
    <2>7. Results(h) \subseteq Mine \cup (Listed \cap alive)
      <3>1. CASE w \in Pool
        BY <2>5, <3>1 DEF Mine
      <3>2. CASE w \in Passive
        <4>1. h \in Listed
          BY <1>0, <1>3, <3>2 DEF OneHand, Listed
        <4> QED
          BY <1>4, <1>7, <3>2, <4>1
      <3> QED
        BY <3>1, <3>2, PoolIs
    <2>8. emitted' = emitted \cup Results(h) /\ n.pc # "returned"
      BY <1>10, <2>2 DEF Results
    <2> HIDE DEF found
    <2>9. n.send = ProbeResult(h)
      BY <2>2 DEF found
    <2> QED
      BY <1>1, <1>5, <2>1, <2>2, <2>4, <2>6, <2>7, <2>8, <2>9, ProbedKeeps
  <1>11. Outcomes(h) = {found}
    BY DEF Outcomes
  <1> QED
    BY <1>9, <1>10, <1>11 DEF Probe

\* The next result goes from a producer to the channel.
LEMMA SendKeeps ==
    ASSUME Flows, NEW w \in Producers, Send(w), ~stopped
    PROVE  Flows'
  <1>0. PipelineIs /\ StandingsAre /\ OneHand /\ OneWay /\ AllFound /\ EndsAreClean
    BY DEF Flows
  <1> DEFINE r == producer[w]
             x == Head(r.send)
             n == After(w, FALSE)
  <1>1. /\ r.pc = "sending" /\ r.send # <<>> /\ r \in ProducerStates /\ r.send \in Seq(Things)
        /\ w \in Pool => r.left = <<>>
    BY <1>0 DEF Send, StandingsAre, Standing, PipelineIs, ProducerStates
  <1>2. /\ x \in Things /\ Tail(r.send) \in Seq(Things)
        /\ Sending(w) = {x} \cup ToSet(Tail(r.send))
        /\ IsInjective(Tail(r.send)) /\ x \notin ToSet(Tail(r.send))
    BY <1>0, <1>1, Split DEF Sending, OneWay
  <1>3. Fixed /\ UNCHANGED <<feeder, waiting, inbox, emitted, consumer, got>>
    BY DEF Send, Fixed
  <1>4. outbox' = Append(outbox, x) /\ WorkerBecomes(w, n)
    BY DEF Send
  <1>5. w \in Passive => scanner = "subdomain"
    BY <1>0, <1>1 DEF StandingsAre, Standing
  <1>6. /\ n \in ProducerStates /\ n.send = Tail(r.send) /\ n.left = r.left
        /\ n.pc = IF Tail(r.send) # <<>> THEN "sending"
                  ELSE IF r.left # <<>> THEN "probing"
                  ELSE IF w \in Pool THEN "free" ELSE "returned"
    <2> DEFINE m == [r EXCEPT !.send = Tail(@)]
               k == [m EXCEPT !.pc = "probing"]
    <2>1. m \in ProducerStates /\ m.pc = "sending" /\ m.send = Tail(r.send) /\ m.left = r.left
      BY <1>1, <1>2 DEF ProducerStates
    <2>2. n = IF m.send # <<>> THEN m ELSE IF m.left # <<>> THEN k
              ELSE IF w \in Pool THEN Free ELSE Returned
      BY DEF After
    <2> HIDE DEF m, n
    <2>3. k \in ProducerStates /\ k.pc = "probing" /\ k.send = m.send /\ k.left = m.left
      BY <2>1 DEF ProducerStates
    <2>4. /\ Free \in ProducerStates /\ Free.pc = "free" /\ Free.left = <<>> /\ Free.send = <<>>
          /\ Returned \in ProducerStates /\ Returned.pc = "returned"
          /\ Returned.left = <<>> /\ Returned.send = <<>>
      BY OfNone DEF Free, Returned, ProducerStates
    <2> HIDE DEF k
    <2> QED
      BY <2>1, <2>2, <2>3, <2>4
  <1> HIDE DEF n
  <1>7. /\ producer'[w] = n /\ Left(w)' = Left(w) /\ Sending(w)' = ToSet(Tail(r.send))
        /\ \A v \in Producers \ {w} : /\ producer'[v] = producer[v]
                                      /\ Left(v)' = Left(v) /\ Sending(v)' = Sending(v)
    BY <1>0, <1>4, <1>6, OneMoves DEF Left
  <1>8. /\ outbox' \in Seq(Things) /\ ToSet(outbox') = ToSet(outbox) \cup {x}
        /\ IsInjective(outbox')
    <2>1. x \notin ToSet(outbox)
      BY <1>0, <1>2 DEF OneWay
    <2> HIDE DEF x
    <2> QED
      BY <1>0, <1>2, <1>4, <2>1, Appended DEF PipelineIs, OneWay
  <1> HIDE DEF x, r
  <1>9. PipelineIs'
    BY <1>0, <1>3, <1>4, <1>6, <1>8 DEF PipelineIs, Fixed, WorkerBecomes, ProducerStates
  <1>10. StandingsAre'
    <2>1. Standing(w)'
      BY <1>1, <1>3, <1>5, <1>6, <1>7, PoolIs DEF Standing, Fixed
    <2> QED
      BY <1>0, <1>3, <1>7, <2>1, StandingsStay DEF Fixed
  <1>11. \A v \in Producers : Left(v)' = Left(v)
    BY <1>7
  <1>12. Pending' = Pending
    BY <1>3, <1>11, PoolIs DEF Pending
  <1>13. OneHand'
    BY <1>0, <1>3, <1>11, <1>12, PoolIs, FixedResults DEF OneHand, Fixed
  <1>14. OneWay'
    <2>1. x \in Sending(w) /\ x \notin Sending(w)' /\ Sending(w)' \subseteq Sending(w)
      BY <1>2, <1>7
    <2>2. \A v \in Producers : x \notin Sending(v)' /\ Sending(v)' \subseteq Sending(v)
      BY <1>0, <1>7, <2>1 DEF OneWay
    <2>3. ToSet(got') \cap ToSet(outbox') = {}
      BY <1>0, <1>3, <1>8, <2>1 DEF OneWay
    <2>4. \A v \in Producers : /\ IsInjective(producer'[v].send)
                               /\ Sending(v)' \cap (ToSet(got') \cup ToSet(outbox')) = {}
      <3>1. \A v \in Producers : Sending(v) \cap (ToSet(got) \cup ToSet(outbox)) = {}
        BY <1>0 DEF OneWay
      <3>2. \A v \in Producers : Sending(v)' \cap (ToSet(got') \cup ToSet(outbox')) = {}
        BY <1>3, <1>8, <2>2, <3>1
      <3>3. \A v \in Producers : IsInjective(producer'[v].send)
        BY <1>0, <1>2, <1>6, <1>7 DEF OneWay
      <3> QED
        BY <3>2, <3>3
    <2>5. \A v, u \in Producers : v # u => Sending(v)' \cap Sending(u)' = {}
      BY <1>0, <2>2 DEF OneWay
    <2> DEFINE Before == UNION {Sending(v) : v \in Producers}
               Now == UNION {Sending(v)' : v \in Producers}
    <2>6. ASSUME NEW y
          PROVE  y \in Before <=> y \in Now \/ y = x
      <3>1. (\E v \in Producers : y \in Sending(v))
              <=> (\E v \in Producers \ {w} : y \in Sending(v)) \/ y \in Sending(w)
        OBVIOUS
      <3>2. (\E v \in Producers : y \in Sending(v)')
              <=> (\E v \in Producers \ {w} : y \in Sending(v)) \/ y \in Sending(w)'
        BY <1>7
      <3>3. y \in Sending(w) <=> y \in Sending(w)' \/ y = x
        BY <1>2, <1>7
      <3> QED
        BY <3>1, <3>2, <3>3
    <2>7. emitted = ToSet(got) \cup ToSet(outbox) \cup Before
      BY <1>0 DEF OneWay
    <2>8. emitted' = ToSet(got') \cup ToSet(outbox') \cup Now
      <3> HIDE DEF Before, Now
      <3>1. Before = Now \cup {x}
        BY <2>6
      <3> QED
        BY <1>3, <1>8, <2>7, <3>1
    <2> QED
      BY <1>0, <1>3, <1>8, <2>3, <2>4, <2>5, <2>8 DEF OneWay
  <1>15. AllFound'
    BY <1>0, <1>3, <1>12, FixedResults DEF AllFound, Fixed
  <1>16. EndsAreClean'
    <2>1. consumer # "done"
      BY <1>1, NotYetDone DEF r
    <2>2. w \in Pool => n.pc # "returned"
      BY <1>1, <1>6
    <2> QED
      BY <1>0, <1>3, <1>7, <2>1, <2>2, PoolIs DEF EndsAreClean
  <1> QED
    BY <1>9, <1>10, <1>13, <1>14, <1>15, <1>16 DEF Flows

\* A passive source answers with what it knows, in some order, or with nothing.
LEMMA QueriedKeeps ==
    ASSUME Flows, NEW w \in Passive, producer[w].pc = "query", NEW n \in ProducerStates,
           WorkerBecomes(w, n), n.send = <<>>, ToSet(n.left) \subseteq known[w],
           \/ n.pc = "probing" /\ n.left # <<>>
           \/ n.pc \in {"query", "returned"} /\ n.left = <<>>,
           Fixed, UNCHANGED <<feeder, waiting, inbox, emitted, outbox, consumer, got>>
    PROVE  Flows'
  <1>0. PipelineIs /\ StandingsAre /\ OneHand /\ OneWay /\ AllFound /\ EndsAreClean
    BY DEF Flows
  <1>1. w \in Producers /\ w \notin Pool /\ scanner = "subdomain" /\ Sending(w) = {}
    BY <1>0, PoolIs, OfNone DEF StandingsAre, Standing, Sending
  <1>2. /\ producer'[w] = n /\ Left(w)' = ToSet(n.left) /\ Sending(w)' = ToSet(n.send)
        /\ \A v \in Producers \ {w} : /\ producer'[v] = producer[v]
                                      /\ Left(v)' = Left(v) /\ Sending(v)' = Sending(v)
    BY <1>0, <1>1, OneMoves
  <1>3. \A v \in Producers : Sending(v)' = Sending(v)
    BY <1>1, <1>2, OfNone
  <1>4. \A v \in Pool : Left(v)' = Left(v) /\ producer'[v] = producer[v]
    BY <1>1, <1>2, PoolIs
  <1>5. PipelineIs'
    BY <1>0 DEF PipelineIs, Fixed, WorkerBecomes, ProducerStates
  <1>6. StandingsAre'
    <2>1. Standing(w)'
      BY <1>1, <1>2 DEF Standing, Fixed
    <2> QED
      BY <1>0, <1>1, <1>2, <2>1, StandingsStay DEF Fixed
  <1>7. Pending' = Pending
    BY <1>4 DEF Pending
  <1>8. OneHand'
    <2>1. \A p \in Passive : Left(p)' \subseteq known'[p]
      BY <1>0, <1>2, PoolIs DEF OneHand, Fixed
    <2> QED
      BY <1>0, <1>4, <1>7, <2>1, FixedResults DEF OneHand
  <1>9. OneWay'
    <2>1. \A v \in Producers : IsInjective(producer'[v].send)
      BY <1>0, <1>2, OfNone DEF OneWay
    <2> QED
      BY <1>0, <1>3, <2>1 DEF OneWay
  <1>10. AllFound'
    BY <1>0, <1>7, FixedResults DEF AllFound, Fixed
  <1>11. EndsAreClean'
    <2>1. consumer # "done"
      BY <1>1, NotYetDone
    <2> QED
      BY <1>0, <1>4, <2>1 DEF EndsAreClean
  <1> QED
    BY <1>5, <1>6, <1>8, <1>9, <1>10, <1>11 DEF Flows

LEMMA QueryKeeps ==
    ASSUME Flows, NEW w \in Producers, Query(w)
    PROVE  Flows'
  <1>0. PipelineIs /\ StandingsAre
    BY DEF Flows
  <1> DEFINE r == producer[w]
  <1>1. /\ r.pc = "query" /\ r.left = <<>> /\ r.send = <<>> /\ r \in ProducerStates /\ w \in Passive
    BY <1>0 DEF Query, StandingsAre, Standing, PipelineIs, ProducerStates
  <1>2. Fixed /\ UNCHANGED <<feeder, waiting, inbox, emitted, outbox, consumer, got>>
    BY DEF Query, Fixed
  <1>3. CASE WorkerBecomes(w, Returned)
    <2>1. /\ Returned \in ProducerStates /\ Returned.pc = "returned" /\ Returned.left = <<>>
          /\ Returned.send = <<>> /\ ToSet(Returned.left) = {}
      BY OfNone DEF Free, Returned, ProducerStates
    <2> QED
      BY <1>1, <1>2, <1>3, <2>1, QueriedKeeps
  <1>4. ASSUME NEW order \in SetToSeqs(known[w]), order # <<>>,
               WorkerBecomes(w, [r EXCEPT !.pc = "probing", !.left = order])
        PROVE  Flows'
    <2> DEFINE n == [r EXCEPT !.pc = "probing", !.left = order]
    <2>1. order \in Seq(Nat) /\ ToSet(order) \subseteq known[w]
      <3>1. known[w] \subseteq Nat /\ Cardinality(known[w]) \in Nat
        BY <1>0, <1>1, FS_CardinalityType DEF PipelineIs
      <3>2. order \in [1..Cardinality(known[w]) -> known[w]]
        BY DEF SetToSeqs
      <3> QED
        BY <3>1, <3>2 DEF ToSet
    <2>2. n \in ProducerStates /\ n.pc = "probing" /\ n.left = order /\ n.send = <<>>
      BY <1>1, <2>1 DEF ProducerStates
    <2>3. WorkerBecomes(w, n)
      BY <1>4
    <2> HIDE DEF n
    <2> QED
      BY <1>1, <1>2, <1>4, <2>1, <2>2, <2>3, QueriedKeeps
  <1>5. CASE WorkerBecomes(w, [r EXCEPT !.tries = @ + 1])
    <2> DEFINE n == [r EXCEPT !.tries = @ + 1]
    <2>1. n \in ProducerStates /\ n.pc = "query" /\ n.left = <<>> /\ n.send = <<>>
      BY <1>1 DEF ProducerStates
    <2>2. WorkerBecomes(w, n)
      BY <1>5
    <2> HIDE DEF n
    <2>3. ToSet(n.left) = {}
      BY <2>1, OfNone
    <2> QED
      BY <1>1, <1>2, <2>1, <2>2, <2>3, QueriedKeeps
  <1> QED
    BY <1>3, <1>4, <1>5 DEF Query

-----------------------------------------------------------------------------
LEMMA InitFlows ==
    ASSUME PipelineInit
    PROVE  IInv
  <1> USE ScannerPipelineAssumption DEF ScannerPipelineAssumption
  <1>1. PICK size \in Nat : Given = 1..size
    BY DEF Given
  <1>2. waiting \in Seq(Nat) /\ ToSet(waiting) = Given /\ IsInjective(waiting)
    <2>1. waiting = [t \in 1..size |-> t]
      BY <1>1 DEF PipelineInit
    <2> QED
      BY <1>1, <2>1 DEF ToSet, IsInjective
  <1>3. \A p \in Passive : known[p] \subseteq Nat /\ IsFiniteSet(known[p])
    <2>1. CASE scanner = "subdomain"
      BY <2>1 DEF PipelineInit
    <2>2. CASE scanner # "subdomain"
      BY <2>2, FS_EmptySet DEF PipelineInit
    <2> QED
      BY <2>1, <2>2
  <1>4. ASSUME NEW w \in Producers
        PROVE  /\ producer[w] \in ProducerStates /\ producer[w].left = <<>> /\ producer[w].send = <<>>
               /\ w \in Pool => producer[w].pc = "free"
               /\ w \in Passive => producer[w].pc = IF scanner = "subdomain" THEN "query"
                                                    ELSE "returned"
    BY OfNone, PoolIs DEF PipelineInit, Free, Returned, ProducerStates
  <1>5. producer \in [Producers -> ProducerStates]
    <2>1. producer = [w \in Producers |-> producer[w]]
      BY DEF PipelineInit
    <2> QED
      BY <1>4, <2>1
  <1>6. \A w \in Producers : Left(w) = {} /\ Sending(w) = {}
    BY <1>4, OfNone DEF Left, Sending
  <1>7. PipelineIs
    BY <1>2, <1>3, <1>5, OfNone DEF PipelineInit, PipelineIs, ProducerStates
  <1>8. StandingsAre
    BY <1>4, PoolIs DEF StandingsAre, Standing
  <1>9. Pending = Given
    BY <1>2, <1>6, OfNone, PoolIs DEF Pending, PipelineInit
  <1>10. OneHand
    BY <1>2, <1>6, <1>9, OfNone, PoolIs DEF OneHand, PipelineInit
  <1>11. OneWay
    BY <1>4, <1>6, OfNone DEF OneWay, PipelineInit
  <1>12. AllFound
    BY <1>9 DEF AllFound, PipelineInit
  <1>13. EndsAreClean
    BY <1>4, PoolIs DEF EndsAreClean, PipelineInit
  <1> QED
    BY <1>7, <1>8, <1>10, <1>11, <1>12, <1>13 DEF IInv, Flows, PipelineInit

LEMMA StepKeeps ==
    ASSUME IInv, PipelineNext
    PROVE  IInv'
  <1>1. CASE PipelineStep
    <2>1. stopped' = stopped
      BY <1>1 DEF PipelineStep, Feed, FeedPorts, FeedDomains, FeedURLs, FeedWords, FeedAs, Tick,
                  HandOver, CloseInbox, Receive, Store, Take, Probe, Send, Query
    <2>2. ASSUME ~stopped
          PROVE  Flows'
      <3>1. Flows
        BY <2>2 DEF IInv
      <3>2. CASE Feed \/ Tick \/ HandOver \/ CloseInbox \/ Receive \/ Store
        BY <2>2, <3>1, <3>2, FeedKeeps, TickKeeps, HandOverKeeps, CloseInboxKeeps, ReceiveKeeps,
           StoreKeeps
      <3>3. ASSUME NEW w \in Producers, Take(w) \/ Probe(w) \/ Send(w) \/ Query(w)
            PROVE  Flows'
        BY <2>2, <3>1, <3>3, TakeKeeps, ProbeKeeps, SendKeeps, QueryKeeps
      <3> QED
        BY <1>1, <3>2, <3>3 DEF PipelineStep
    <2> QED
      BY <2>1, <2>2 DEF IInv
  <1>2. CASE CancelScan
    BY <1>2 DEF CancelScan, IInv
  <1> QED
    BY <1>1, <1>2 DEF PipelineNext

LEMMA StutterKeeps ==
    ASSUME IInv, UNCHANGED pipelineVars
    PROVE  IInv'
  <1>1. Fixed /\ NothingMoves /\ UNCHANGED <<feeder, consumer, stopped>>
    BY DEF pipelineVars, Fixed, NothingMoves
  <1>2. ASSUME Flows
        PROVE  EndsAreClean'
    BY <1>1, <1>2 DEF Flows, EndsAreClean, Closed, NothingMoves
  <1> QED
    BY <1>1, <1>2, NothingMovesKeeps DEF IInv, Flows

\* Until the scan is cancelled every target is in one hand until it is probed,
\* and every result in one place from then on (the goroutines and the two
\* channels of each Scan function).
THEOREM ScansInductive == PipelineSpec => []IInv
  <1>1. PipelineInit => IInv
    BY InitFlows
  <1>2. IInv /\ [PipelineNext]_pipelineVars => IInv'
    BY StepKeeps, StutterKeeps
  <1> QED
    BY <1>1, <1>2, PTL DEF PipelineSpec

\* A scan nobody cancelled gave the dispatcher each result of each target
\* exactly once by the time its loop is over (the result channel is closed
\* after the last producer returned).
THEOREM NothingLostAlways == PipelineSpec => []NothingLost
  <1>1. IInv => NothingLost
    <2> SUFFICES ASSUME Flows, consumer = "done"
                 PROVE  /\ IsInjective(got) /\ Mine \subseteq ToSet(got)
                        /\ ToSet(got) \subseteq Mine \cup (Listed \cap alive)
      BY DEF IInv, NothingLost, Mine, Results
    <2>1. PipelineIs /\ StandingsAre /\ OneHand /\ OneWay /\ AllFound /\ EndsAreClean
      BY DEF Flows
    <2>2. Closed /\ outbox = <<>>
      BY <2>1 DEF EndsAreClean
    <2>3. \A w \in Producers : Left(w) = {} /\ Sending(w) = {}
      BY <2>1, <2>2, OfNone DEF Closed, StandingsAre, Standing, Left, Sending
    <2>4. waiting = <<>> /\ inbox = <<>>
      BY <2>1, <2>2, PoolIs DEF Closed, EndsAreClean
    <2>5. Pending = {}
      BY <2>3, <2>4, OfNone, PoolIs DEF Pending
    <2>6. emitted = ToSet(got)
      BY <2>1, <2>2, <2>3, OfNone DEF OneWay
    <2>7. IsInjective(got)
      BY <2>1 DEF OneWay
    <2>8. \A t \in Given : Results(t) \subseteq ToSet(got)
      BY <2>1, <2>5, <2>6 DEF AllFound
    <2> QED
      BY <2>1, <2>6, <2>7, <2>8 DEF AllFound, Mine
  <1> QED
    BY <1>1, ScansInductive, PTL


-----------------------------------------------------------------------------
\* The execution of scans. Sequences.

IsSeq(x) == x \in Seq(ToSet(x))

\* Numbers that count.
LEMMA FromOne == \A n \in Nat : \A m \in 0..n : m # 0 => m \in 1..n
OBVIOUS
LEMMA OneMore == \A n \in Nat : \A m : m = n + 1 => n + 1 \in 1..m
OBVIOUS

\* A set of naturals that is not empty has a least one.
LEMMA LeastOf ==
    ASSUME NEW T, T \subseteq Nat, T # {}
    PROVE  \E x \in T : \A y \in T : x <= y
<1> DEFINE R == OpToRel(<, Nat)
<1>1. IsWellFoundedOn(R, Nat) BY NatLessThanWellFounded
<1>2. \A x, y \in Nat : x < y => <<x, y>> \in R BY DEF OpToRel
<1> HIDE DEF R
<1>3. PICK x \in T : \A y \in T : ~ (<<y, x>> \in R) BY <1>1, WFMin
<1>4. \A y \in T : ~(y < x) BY <1>2, <1>3
<1> QED BY <1>3, <1>4

\* A function of the numbers from 1 on is a sequence, of what it takes.
LEMMA FunctionIsSeq ==
    ASSUME NEW n \in Nat, NEW T, NEW f \in [1..n -> T]
    PROVE  IsSeq(f) /\ Len(f) = n /\ DOMAIN f = 1..n
<1>1. f \in [1..n -> ToSet(f)] BY DEF ToSet
<1>2. f \in Seq(ToSet(f)) BY <1>1, SeqDef
<1> QED BY <1>1, <1>2, LenProperties DEF IsSeq

\* A sequence and its length, when it is empty and what its head is.
LEMMA SeqIs ==
    ASSUME NEW x, IsSeq(x)
    PROVE  /\ Len(x) \in Nat /\ DOMAIN x = 1..Len(x)
           /\ x = <<>> <=> Len(x) = 0
           /\ x # <<>> => Head(x) = x[1]
<1>1. x \in Seq(ToSet(x)) BY DEF IsSeq
<1> QED BY <1>1, EmptySeq, LenProperties

\* A sequence of anything is one of its own elements.
LEMMA AnySeq ==
    ASSUME NEW S, NEW x \in Seq(S)
    PROVE  IsSeq(x)
BY FunctionIsSeq, LenProperties

\* What two sequences make when one follows the other.
LEMMA Joined ==
    ASSUME NEW x, NEW y, IsSeq(x), IsSeq(y)
    PROVE  /\ IsSeq(x \o y) /\ Len(x \o y) = Len(x) + Len(y)
           /\ \A i \in 1..(Len(x) + Len(y)) :
                 (x \o y)[i] = IF i <= Len(x) THEN x[i] ELSE y[i - Len(x)]
<1> DEFINE S == ToSet(x) \cup ToSet(y)
<1>1. x \in Seq(S) BY SeqMonotonic DEF IsSeq
<1>2. y \in Seq(S) BY SeqMonotonic DEF IsSeq
<1> HIDE DEF S
<1>3. /\ x \o y \in Seq(S) /\ Len(x \o y) = Len(x) + Len(y)
      /\ \A i \in 1..(Len(x) + Len(y)) :
            (x \o y)[i] = IF i <= Len(x) THEN x[i] ELSE y[i - Len(x)]
  BY <1>1, <1>2, ConcatProperties
<1> QED BY <1>3, AnySeq

\* What SubSeq leaves of a sequence, element by element.
LEMMA RestIs ==
    ASSUME NEW x, IsSeq(x), NEW k \in Nat
    PROVE  LET y == SubSeq(x, k + 2, Len(x))
           IN /\ IsSeq(y) /\ Len(y) = IF k + 2 <= Len(x) THEN Len(x) - k - 1 ELSE 0
              /\ \A i \in 1..Len(y) : i + k + 1 \in 1..Len(x) /\ y[i] = x[i + k + 1]
<1> DEFINE S == ToSet(x)
           y == SubSeq(x, k + 2, Len(x))
<1>1. x \in Seq(S) BY DEF IsSeq
<1>2. Len(x) \in Nat /\ \A i \in (k + 2)..Len(x) : x[i] \in S BY <1>1, ElementOfSeq, LenProperties
<1> HIDE DEF S
<1>3. /\ y \in Seq(S)
      /\ Len(y) = IF k + 2 <= Len(x) THEN Len(x) - (k + 2) + 1 ELSE 0
      /\ \A i \in 1..(Len(x) - (k + 2) + 1) : y[i] = x[(k + 2) + i - 1]
  BY <1>2, SubSeqProperties
<1>4. IsSeq(y) BY <1>3, AnySeq
<1> HIDE DEF y
<1>5. /\ Len(y) = IF k + 2 <= Len(x) THEN Len(x) - k - 1 ELSE 0
      /\ \A i \in 1..Len(y) : i + k + 1 \in 1..Len(x) /\ y[i] = x[i + k + 1]
  BY <1>2, <1>3
<1> QED BY <1>4, <1>5 DEF y

\* What FlattenSeq computes, a sequence at a time.
LEMMA Flattens ==
    ASSUME NEW n \in Nat, NEW T, NEW q \in [1..n -> T]
    PROVE  \E g : /\ \A i \in 1..n : g[i] = IF i = 1 THEN q[i] ELSE g[i - 1] \o q[i]
                  /\ FlattenSeq(q) = IF n = 0 THEN <<>> ELSE g[n]
<1> DEFINE Next1(g, i) == IF i = 1 THEN q[i] ELSE g[i - 1] \o q[i]
           Def(g, m) == g = [i \in 1..m |-> Next1(g, i)]
           Has == {m \in 0..n : \E g : Def(g, m)}
           Bad == (0..n) \ Has
<1>1. Bad = {}
  <2>1. SUFFICES ASSUME Bad # {} PROVE FALSE OBVIOUS
  <2>2. PICK m \in Bad : \A k \in Bad : m <= k
    <3> HIDE DEF Has
    <3>1. Bad \subseteq Nat OBVIOUS
    <3> HIDE DEF Bad
    <3> QED BY <2>1, <3>1, LeastOf
  <2>3. m # 0
    <3>1. Def([i \in 1..0 |-> Next1(q, i)], 0) OBVIOUS
    <3> QED BY <3>1
  <2>4. m - 1 \in Has
    <3> HIDE DEF Has
    <3> QED BY <2>2, <2>3
  <2>5. PICK g : Def(g, m - 1)
    <3> HIDE DEF Def
    <3> QED BY <2>4
  <2> DEFINE h == [i \in 1..m |-> Next1(g, i)]
  <2>6. \A i \in 1..(m - 1) : h[i] = g[i]
    <3>1. TAKE i \in 1..(m - 1)
    <3>2. i \in 1..m BY <2>2
    <3>3. h[i] = Next1(g, i) BY <3>2
    <3>4. g[i] = Next1(g, i) BY <2>5
    <3> QED BY <3>3, <3>4
  <2>7. \A i \in 1..m : i # 1 => i - 1 \in 1..(m - 1) BY <2>2
  <2>8. \A i \in 1..m : Next1(g, i) = Next1(h, i) 
    <3>1. \A i \in 1..m : i # 1 => h[i - 1] = g[i - 1]
      <4> HIDE DEF h
      <4> QED BY <2>6, <2>7
    <3> HIDE DEF h
    <3> QED BY <3>1
  <2>9. Def(h, m) BY <2>8
  <2>10. m \in 0..n BY <2>2
  <2>11. m \in Has BY <2>9, <2>10
  <2> QED BY <2>11, <2>2
<1>2. PICK g0 : Def(g0, n)
  <2>1. n \in Has
    <3> HIDE DEF Has
    <3> QED BY <1>1
  <2> QED BY <2>1
<1>3. Len(q) = n /\ (n = 0 => q = <<>>) BY FunctionIsSeq, SeqIs
<1> DEFINE g == CHOOSE g : Def(g, n)
<1>4. Def(g, n) BY <1>2
<1>5. n # 0 => FlattenSeq(q) = g[n] BY <1>3 DEF FlattenSeq
<1>6. n = 0 => FlattenSeq(q) = <<>> BY <1>3 DEF FlattenSeq
<1> HIDE DEF g
<1>7. \A i \in 1..n : g[i] = IF i = 1 THEN q[i] ELSE g[i - 1] \o q[i] BY <1>4
<1> QED BY <1>5, <1>6, <1>7
-----------------------------------------------------------------------------
\* Operations.

IsReport(key) ==
    \E url \in DOMAIN Sites, s \in Scans : \E v \in VisitsBy(s, url) : key \in Reported(url, v)
OpFields == {"do", "table", "key", "of", "skip", "spare", "sev", "first", "sure"}
SoundOp(o) ==
    /\ DOMAIN o = OpFields /\ o.skip \in Nat /\ o.spare \in Nat /\ o.table \in Tables
    /\ o.do \in {"upsert", "find", "create", "shots"}
    /\ o.do = "create" <=> o.table \in LogTables
    /\ o.table \in LogTables => o.sure = FALSE
    /\ o.table = "subdomain" => o.key \in DOMAIN Bare
    /\ o.table = "finding" => IsReport(o.key)
ShowsAsset(o) == o.table = "result" /\ o.key[2] \in DOMAIN Asset
MadeBy(o, r) == o.do = "upsert" /\ o.table = Asset[r.key[2]] /\ o.key = r.key[3]

\* The row that a result shows is made by an operation before it, whose failure
\* skips the result; and nothing before that one goes on between the two.
Covered(x, j) ==
    \E i \in 1..(j - 1) :
        /\ MadeBy(x[i], x[j]) /\ i + x[i].skip >= j
        /\ \A h \in 1..(i - 1) : /\ h + x[h].skip + 1 \notin (i + 1)..j
                                 /\ h + x[h].spare + 1 \notin (i + 1)..j

\* A list of operations that stands for itself: its failures end within it.
Block(x) ==
    /\ IsSeq(x)
    /\ \A i \in 1..Len(x) : /\ SoundOp(x[i])
                            /\ i + x[i].skip <= Len(x) /\ i + x[i].spare <= Len(x)
                            /\ ShowsAsset(x[i]) => Covered(x, i)

\* No operations are a block.
LEMMA NoBlock == Block(<<>>)
<1>1. IsSeq(<<>>) /\ Len(<<>>) = 0 BY EmptySeq DEF IsSeq
<1> QED BY <1>1 DEF Block

\* One operation that skips nothing and shows no asset is a block.
LEMMA OneOp ==
    ASSUME NEW o, SoundOp(o), o.skip = 0, o.spare = 0, ~ShowsAsset(o)
    PROVE  Block(<<o>>)
<1>1. <<o>> \in [1..1 -> {o}] OBVIOUS
<1>2. IsSeq(<<o>>) /\ Len(<<o>>) = 1 BY <1>1, FunctionIsSeq
<1>3. <<o>>[1] = o OBVIOUS
<1> QED BY <1>2, <1>3 DEF Block

\* Two blocks in a row are a block: a skip never leaves its own.
LEMMA BlocksJoin ==
    ASSUME NEW x, NEW y, Block(x), Block(y)
    PROVE  Block(x \o y)
<1> DEFINE z == x \o y
<1>1. IsSeq(x) /\ IsSeq(y) BY DEF Block
<1>2. Len(x) \in Nat /\ Len(y) \in Nat BY <1>1, SeqIs
<1>3. IsSeq(z) /\ Len(z) = Len(x) + Len(y) BY <1>1, Joined
<1>4. \A i \in 1..Len(x) : z[i] = x[i] BY <1>1, <1>2, Joined
<1>5. \A i \in 1..Len(y) : z[i + Len(x)] = y[i] BY <1>1, <1>2, Joined
<1> HIDE DEF z
<1>6. ASSUME NEW i \in 1..Len(z)
      PROVE  /\ SoundOp(z[i])
             /\ i + z[i].skip <= Len(z) /\ i + z[i].spare <= Len(z)
             /\ ShowsAsset(z[i]) => Covered(z, i)
  <2>1. CASE i <= Len(x)
    <3>1. i \in 1..Len(x) BY <1>2, <1>3, <2>1
    <3>2. SoundOp(x[i]) /\ i + x[i].skip <= Len(x) /\ i + x[i].spare <= Len(x) BY <3>1 DEF Block
    <3>3. x[i].skip \in Nat /\ x[i].spare \in Nat BY <3>2 DEF SoundOp
    <3>4. ASSUME ShowsAsset(x[i]) PROVE Covered(z, i)
      <4>1. Covered(x, i) BY <3>1, <3>4 DEF Block
      <4>2. PICK k \in 1..(i - 1) :
               /\ MadeBy(x[k], x[i]) /\ k + x[k].skip >= i
               /\ \A h \in 1..(k - 1) : /\ h + x[h].skip + 1 \notin (k + 1)..i
                                        /\ h + x[h].spare + 1 \notin (k + 1)..i
        BY <4>1 DEF Covered
      <4>3. z[k] = x[k] /\ z[i] = x[i] /\ \A h \in 1..(k - 1) : z[h] = x[h] BY <3>1, <1>2, <1>4
      <4> QED BY <4>2, <4>3 DEF Covered
    <3>5. z[i] = x[i] BY <1>4, <3>1
    <3>6. i + x[i].skip <= Len(z) /\ i + x[i].spare <= Len(z) BY <1>2, <1>3, <3>1, <3>2, <3>3
    <3> QED BY <3>2, <3>4, <3>5, <3>6
  <2>2. CASE i > Len(x)
    <3> DEFINE j == i - Len(x)
    <3>1. j \in 1..Len(y) /\ i = j + Len(x) BY <1>2, <1>3, <2>2
    <3> HIDE DEF j
    <3>2. SoundOp(y[j]) /\ j + y[j].skip <= Len(y) /\ j + y[j].spare <= Len(y) BY <3>1 DEF Block
    <3>3. y[j].skip \in Nat /\ y[j].spare \in Nat BY <3>2 DEF SoundOp
    <3>4. ASSUME ShowsAsset(y[j]) PROVE Covered(z, i)
      <4>1. Covered(y, j) BY <3>1, <3>4 DEF Block
      <4>2. PICK k \in 1..(j - 1) :
               /\ MadeBy(y[k], y[j]) /\ k + y[k].skip >= j
               /\ \A h \in 1..(k - 1) : /\ h + y[h].skip + 1 \notin (k + 1)..j
                                        /\ h + y[h].spare + 1 \notin (k + 1)..j
        BY <4>1 DEF Covered
      <4> DEFINE m == k + Len(x)
      <4>3. m \in 1..(i - 1) BY <1>2, <3>1
      <4>4. z[m] = y[k] /\ z[i] = y[j] BY <1>2, <1>5, <3>1
      <4>5. y[k].skip \in Nat BY <3>1 DEF Block, SoundOp
      <4>6. m + z[m].skip >= i BY <1>2, <3>1, <4>2, <4>4, <4>5
      <4>7. ASSUME NEW h \in 1..(m - 1)
            PROVE  /\ h + z[h].skip + 1 \notin (m + 1)..i
                   /\ h + z[h].spare + 1 \notin (m + 1)..i
        <5>1. CASE h <= Len(x)
          <6>1. h \in 1..Len(x) BY <1>2, <5>1
          <6>2. /\ z[h] = x[h] /\ x[h].skip \in Nat /\ x[h].spare \in Nat
                /\ h + x[h].skip <= Len(x) /\ h + x[h].spare <= Len(x)
            BY <6>1, <1>4 DEF Block, SoundOp
          <6>3. m \in Nat /\ i \in Nat /\ Len(x) \in Nat /\ Len(x) + 1 <= m BY <1>2, <3>1
          <6> DEFINE a == z[h].skip
                     b == z[h].spare
          <6>4. a \in Nat /\ b \in Nat /\ h + a <= Len(x) /\ h + b <= Len(x) BY <6>2
          <6> HIDE DEF m, a, b
          <6>5. h \in Nat /\ h + a + 1 \in Nat /\ h + b + 1 \in Nat BY <6>1, <6>3, <6>4
          <6>6. h + a + 1 <= m /\ h + b + 1 <= m BY <6>3, <6>4, <6>5
          <6>7. h + a + 1 \notin (m + 1)..i /\ h + b + 1 \notin (m + 1)..i BY <6>3, <6>5, <6>6
          <6> QED BY <6>7 DEF a, b
        <5>2. CASE h > Len(x)
          <6> DEFINE g == h - Len(x)
          <6>1. g \in 1..(k - 1) /\ g \in 1..Len(y) /\ h = g + Len(x) BY <1>2, <3>1, <5>2
          <6> HIDE DEF g
          <6>2. z[h] = y[g] /\ y[g].skip \in Nat /\ y[g].spare \in Nat
            BY <6>1, <1>5 DEF Block, SoundOp
          <6>3. g + y[g].skip + 1 \notin (k + 1)..j /\ g + y[g].spare + 1 \notin (k + 1)..j
            BY <6>1, <4>2
          <6>4. k \in Int /\ j \in Int /\ m = k + Len(x) BY <3>1, <4>2
          <6>5. Len(x) \in Int BY <1>2
          <6>6. ASSUME NEW a \in Nat, g + a + 1 \notin (k + 1)..j
                PROVE  h + a + 1 \notin (m + 1)..i
            <7> HIDE DEF m
            <7> QED BY <6>1, <6>4, <6>5, <6>6, <3>1
          <6>7. z[h].skip \in Nat /\ z[h].spare \in Nat BY <6>2
          <6>8. g + z[h].skip + 1 \notin (k + 1)..j /\ g + z[h].spare + 1 \notin (k + 1)..j
            BY <6>2, <6>3
          <6> HIDE DEF m
          <6> QED BY <6>6, <6>7, <6>8
        <5> QED BY <5>1, <5>2, <1>2
      <4> HIDE DEF m
      <4> QED BY <4>2, <4>3, <4>4, <4>6, <4>7 DEF Covered
    <3>5. z[i] = y[j] BY <1>5, <3>1
    <3>6. i + y[j].skip <= Len(z) /\ i + y[j].spare <= Len(z)
      <4> DEFINE a == y[j].skip
                 b == y[j].spare
      <4>1. a \in Nat /\ b \in Nat /\ j + a <= Len(y) /\ j + b <= Len(y) BY <3>2, <3>3
      <4> HIDE DEF a, b, z
      <4>2. j \in Nat /\ i = j + Len(x) /\ Len(x) \in Nat /\ Len(y) \in Nat BY <1>2, <3>1
      <4>3. Len(z) = Len(x) + Len(y) BY <1>3
      <4>4. i + a <= Len(z) /\ i + b <= Len(z) BY <4>1, <4>2, <4>3
      <4> QED BY <4>4 DEF a, b
    <3> QED BY <3>2, <3>4, <3>5, <3>6
  <2> QED BY <2>1, <2>2, <1>2
<1> QED BY <1>3, <1>6 DEF Block, z

\* So are any number of blocks in a row.
LEMMA BlocksFlatten ==
    ASSUME NEW n \in Nat, NEW T, NEW q \in [1..n -> T], \A i \in 1..n : Block(q[i])
    PROVE  Block(FlattenSeq(q))
<1>1. PICK g : /\ \A i \in 1..n : g[i] = IF i = 1 THEN q[i] ELSE g[i - 1] \o q[i]
               /\ FlattenSeq(q) = IF n = 0 THEN <<>> ELSE g[n]
  BY Flattens
<1> DEFINE Bad == {i \in 1..n : ~Block(g[i])}
<1>2. Bad = {}
  <2>1. SUFFICES ASSUME Bad # {} PROVE FALSE OBVIOUS
  <2>2. Bad \subseteq Nat OBVIOUS
  <2>3. PICK m \in Bad : \A k \in Bad : m <= k
    <3> HIDE DEF Bad
    <3> QED BY <2>1, <2>2, LeastOf
  <2>4. m \in 1..n /\ ~Block(g[m]) OBVIOUS
  <2>5. m # 1 BY <2>4, <1>1
  <2>6. m - 1 \in 1..n /\ m - 1 \notin Bad
    <3> HIDE DEF Bad
    <3> QED BY <2>3, <2>4, <2>5
  <2>7. Block(g[m - 1]) BY <2>6
  <2>8. g[m] = g[m - 1] \o q[m] BY <2>4, <2>5, <1>1
  <2> QED BY <2>4, <2>7, <2>8, BlocksJoin
<1>3. n # 0 => Block(g[n]) BY <1>2
<1> QED BY <1>1, <1>3, NoBlock

\* An operation before a list, whose failure skips the list: the list may be
\* a block, or show only what the operation makes.
LEMMA Guarded ==
    ASSUME NEW o, NEW x, SoundOp(o), ~ShowsAsset(o), o.skip <= Len(x), o.spare <= Len(x), IsSeq(x),
           \A i \in 1..Len(x) :
              /\ SoundOp(x[i]) /\ i + x[i].skip <= Len(x) /\ i + x[i].spare <= Len(x)
              /\ ShowsAsset(x[i]) => (o.skip >= i /\ MadeBy(o, x[i]))
    PROVE  Block(<<o>> \o x)
<1> DEFINE z == <<o>> \o x
<1>1. <<o>> \in [1..1 -> {o}] OBVIOUS
<1>2. IsSeq(<<o>>) /\ Len(<<o>>) = 1 /\ <<o>>[1] = o BY <1>1, FunctionIsSeq
<1>3. Len(x) \in Nat BY SeqIs
<1>4. IsSeq(z) /\ Len(z) = 1 + Len(x) BY <1>2, Joined
<1>5. z[1] = o BY <1>2, <1>3, Joined
<1>6. \A i \in 1..Len(x) : z[i + 1] = x[i]
  <2>1. TAKE i \in 1..Len(x)
  <2>2. i + 1 \in 1..(1 + Len(x)) /\ ~(i + 1 <= 1) /\ (i + 1) - 1 = i BY <1>3
  <2> QED BY <2>2, <1>2, Joined
<1> HIDE DEF z
<1>7. ASSUME NEW i \in 1..Len(z)
      PROVE  /\ SoundOp(z[i])
             /\ i + z[i].skip <= Len(z) /\ i + z[i].spare <= Len(z)
             /\ ShowsAsset(z[i]) => Covered(z, i)
  <2>1. CASE i = 1
    <3>1. o.skip \in Nat /\ o.spare \in Nat BY DEF SoundOp
    <3> QED BY <2>1, <3>1, <1>3, <1>4, <1>5
  <2>2. CASE i # 1
    <3> DEFINE j == i - 1
    <3>1. j \in 1..Len(x) /\ i = j + 1 BY <1>3, <1>4, <2>2
    <3> HIDE DEF j
    <3>2. z[i] = x[j] BY <3>1, <1>6
    <3>3. SoundOp(x[j]) /\ x[j].skip \in Nat /\ x[j].spare \in Nat BY <3>1 DEF SoundOp
    <3>4. ASSUME ShowsAsset(x[j]) PROVE Covered(z, i)
      <4>1. o.skip >= j /\ MadeBy(o, x[j]) BY <3>1, <3>4
      <4>2. o.skip \in Nat BY DEF SoundOp
      <4>3. 1 \in 1..(i - 1) /\ 1 + o.skip >= i BY <3>1, <4>1, <4>2, <1>3
      <4> QED BY <4>1, <4>3, <3>2, <1>5 DEF Covered
    <3>5. j + x[j].skip <= Len(x) /\ j + x[j].spare <= Len(x) BY <3>1
    <3> QED BY <3>1, <3>2, <3>3, <3>4, <3>5, <1>3, <1>4
  <2> QED BY <2>1, <2>2
<1> QED BY <1>4, <1>7 DEF Block, z

\* An operation that skips all or nothing of the block behind it.
LEMMA Headed ==
    ASSUME NEW o, NEW x, SoundOp(o), ~ShowsAsset(o), Block(x), o.skip <= Len(x),
           o.spare <= Len(x), o.skip \in {0, Len(x)}, o.spare \in {0, Len(x)}
    PROVE  Block(<<o>> \o x)
<1> DEFINE z == <<o>> \o x
<1>0. IsSeq(x) BY DEF Block
<1>1. <<o>> \in [1..1 -> {o}] OBVIOUS
<1>2. IsSeq(<<o>>) /\ Len(<<o>>) = 1 /\ <<o>>[1] = o BY <1>1, FunctionIsSeq
<1>3. Len(x) \in Nat BY <1>0, SeqIs
<1>4. IsSeq(z) /\ Len(z) = 1 + Len(x) BY <1>0, <1>2, Joined
<1>5. z[1] = o BY <1>0, <1>2, <1>3, Joined
<1>6. \A i \in 1..Len(x) : z[i + 1] = x[i]
  <2>1. TAKE i \in 1..Len(x)
  <2>2. i + 1 \in 1..(1 + Len(x)) /\ ~(i + 1 <= 1) /\ (i + 1) - 1 = i BY <1>3
  <2> QED BY <2>2, <1>0, <1>2, Joined
<1> HIDE DEF z
<1>7. ASSUME NEW i \in 1..Len(z)
      PROVE  /\ SoundOp(z[i])
             /\ i + z[i].skip <= Len(z) /\ i + z[i].spare <= Len(z)
             /\ ShowsAsset(z[i]) => Covered(z, i)
  <2>1. CASE i = 1
    <3>1. o.skip \in Nat /\ o.spare \in Nat BY DEF SoundOp
    <3> QED BY <2>1, <3>1, <1>3, <1>4, <1>5
  <2>2. CASE i # 1
    <3> DEFINE j == i - 1
    <3>1. j \in 1..Len(x) /\ i = j + 1 BY <1>3, <1>4, <2>2
    <3> HIDE DEF j
    <3>2. z[i] = x[j] BY <3>1, <1>6
    <3>3. /\ SoundOp(x[j]) /\ x[j].skip \in Nat /\ x[j].spare \in Nat
          /\ j + x[j].skip <= Len(x) /\ j + x[j].spare <= Len(x)
      BY <3>1 DEF SoundOp, Block
    <3>4. ASSUME ShowsAsset(x[j]) PROVE Covered(z, i)
      <4>1. Covered(x, j) BY <3>1, <3>4 DEF Block
      <4>2. PICK k \in 1..(j - 1) :
               /\ MadeBy(x[k], x[j]) /\ k + x[k].skip >= j
               /\ \A h \in 1..(k - 1) : /\ h + x[h].skip + 1 \notin (k + 1)..j
                                        /\ h + x[h].spare + 1 \notin (k + 1)..j
        BY <4>1 DEF Covered
      <4>3. k + 1 \in 1..(i - 1) /\ k \in 1..Len(x) BY <3>1, <1>3
      <4>4. z[k + 1] = x[k] /\ x[k].skip \in Nat BY <4>3, <1>6 DEF Block, SoundOp
      <4>5. (k + 1) + z[k + 1].skip >= i BY <4>2, <4>4, <3>1, <1>3
      <4>6. ASSUME NEW h \in 1..((k + 1) - 1)
            PROVE  /\ h + z[h].skip + 1 \notin ((k + 1) + 1)..i
                   /\ h + z[h].spare + 1 \notin ((k + 1) + 1)..i
        <5>1. CASE h = 1
          <6>1. z[h].skip \in {0, Len(x)} /\ z[h].spare \in {0, Len(x)} BY <5>1, <1>5
          <6>2. i \in 2..(Len(x) + 1) /\ k \in 1..(i - 2) BY <1>3, <3>1
          <6>3. /\ h + z[h].skip + 1 \in {2, Len(x) + 2}
                /\ h + z[h].spare + 1 \in {2, Len(x) + 2}
            BY <5>1, <6>1, <1>3
          <6>4. 2 \notin ((k + 1) + 1)..i /\ Len(x) + 2 \notin ((k + 1) + 1)..i BY <6>2, <1>3
          <6> QED BY <6>3, <6>4
        <5>2. CASE h # 1
          <6> DEFINE g == h - 1
          <6>1. g \in 1..(k - 1) /\ g \in 1..Len(x) /\ h = g + 1 BY <5>2, <4>3
          <6> HIDE DEF g
          <6>2. z[h] = x[g] /\ x[g].skip \in Nat /\ x[g].spare \in Nat
            BY <6>1, <1>6 DEF Block, SoundOp
          <6>3. g + x[g].skip + 1 \notin (k + 1)..j /\ g + x[g].spare + 1 \notin (k + 1)..j
            BY <6>1, <4>2
          <6>4. k \in Int /\ j \in Int BY <3>1, <4>2
          <6>5. ASSUME NEW a \in Nat, g + a + 1 \notin (k + 1)..j
                PROVE  h + a + 1 \notin ((k + 1) + 1)..i
            BY <6>1, <6>4, <6>5, <3>1
          <6>6. z[h].skip \in Nat /\ z[h].spare \in Nat BY <6>2
          <6>7. g + z[h].skip + 1 \notin (k + 1)..j /\ g + z[h].spare + 1 \notin (k + 1)..j
            BY <6>2, <6>3
          <6> QED BY <6>5, <6>6, <6>7
        <5> QED BY <5>1, <5>2
      <4> QED BY <4>2, <4>3, <4>4, <4>5, <4>6, <3>2 DEF Covered
    <3> QED BY <3>1, <3>2, <3>3, <3>4, <1>3, <1>4
  <2> QED BY <2>1, <2>2
<1> QED BY <1>4, <1>7 DEF Block, z

\* FlattenSeq adds nothing: what it lists is in one of the lists.
Drawn(f, q, n) ==
    /\ IsSeq(f)
    /\ \A k \in 1..Len(f) : \E i \in 1..n : \E j \in 1..Len(q[i]) : f[k] = q[i][j]
LEMMA FlattenOf ==
    ASSUME NEW n \in Nat, NEW T, NEW q \in [1..n -> T], \A i \in 1..n : IsSeq(q[i])
    PROVE  Drawn(FlattenSeq(q), q, n)
<1> DEFINE From(f) == \A k \in 1..Len(f) : \E i \in 1..n : \E j \in 1..Len(q[i]) : f[k] = q[i][j]
<1>1. PICK g : /\ \A i \in 1..n : g[i] = IF i = 1 THEN q[i] ELSE g[i - 1] \o q[i]
               /\ FlattenSeq(q) = IF n = 0 THEN <<>> ELSE g[n]
  BY Flattens
<1> DEFINE Good(i) == IsSeq(g[i]) /\ From(g[i])
           Bad == {i \in 1..n : ~Good(i)}
<1>2. Bad = {}
  <2>1. SUFFICES ASSUME Bad # {} PROVE FALSE OBVIOUS
  <2>2. Bad \subseteq Nat OBVIOUS
  <2>3. PICK m \in Bad : \A k \in Bad : m <= k
    <3> HIDE DEF Bad
    <3> QED BY <2>1, <2>2, LeastOf
  <2>4. m \in 1..n /\ ~Good(m) OBVIOUS
  <2>5. m # 1
    <3>1. SUFFICES ASSUME m = 1 PROVE FALSE OBVIOUS
    <3>2. g[m] = q[m] BY <1>1, <2>4, <3>1
    <3>3. Good(m) BY <3>2, <2>4
    <3> QED BY <3>3, <2>4
  <2>6. m - 1 \in 1..n /\ m - 1 \notin Bad
    <3> HIDE DEF Bad
    <3> QED BY <2>3, <2>4, <2>5
  <2>7. Good(m - 1) BY <2>6
  <2>8. g[m] = g[m - 1] \o q[m] BY <2>4, <2>5, <1>1
  <2> DEFINE x == g[m - 1]
             y == q[m]
  <2>9. IsSeq(x) /\ IsSeq(y) /\ From(x) BY <2>4, <2>7
  <2>10. Len(x) \in Nat /\ Len(y) \in Nat BY <2>9, SeqIs
  <2> HIDE DEF x
  <2>11. /\ IsSeq(x \o y) /\ Len(x \o y) = Len(x) + Len(y)
         /\ \A i \in 1..(Len(x) + Len(y)) :
               (x \o y)[i] = IF i <= Len(x) THEN x[i] ELSE y[i - Len(x)]
    BY <2>9, Joined
  <2>12. ASSUME NEW k \in 1..Len(x \o y)
         PROVE  \E i \in 1..n : \E j \in 1..Len(q[i]) : (x \o y)[k] = q[i][j]
    <3>1. CASE k <= Len(x)
      <4>1. k \in 1..Len(x) /\ (x \o y)[k] = x[k] BY <2>10, <2>11, <3>1
      <4> QED BY <4>1, <2>9
    <3>2. CASE k > Len(x)
      <4>1. k - Len(x) \in 1..Len(y) /\ (x \o y)[k] = y[k - Len(x)] BY <2>10, <2>11, <3>2
      <4> QED BY <4>1, <2>4
    <3> QED BY <3>1, <3>2, <2>10
  <2>13. Good(m)
    <3> DEFINE z == x \o y
    <3>1. g[m] = z BY <2>8 DEF x
    <3>2. IsSeq(z) BY <2>11
    <3>3. \A k \in 1..Len(z) : \E i \in 1..n : \E j \in 1..Len(q[i]) : z[k] = q[i][j] BY <2>12
    <3> HIDE DEF z, y
    <3>4. From(z) BY <3>3
    <3> HIDE DEF From
    <3> QED BY <3>1, <3>2, <3>4
  <2> QED BY <2>13, <2>4
<1>3. n # 0 => Good(n)
  <2> SUFFICES ASSUME n # 0 PROVE Good(n) OBVIOUS
  <2>1. n \in 1..n BY FromOne
  <2> HIDE DEF Good
  <2> QED BY <1>2, <2>1
<1>4. IsSeq(<<>>) /\ Len(<<>>) = 0 BY NoBlock, EmptySeq DEF Block
<1>5. CASE n = 0
  <2>1. FlattenSeq(q) = <<>> BY <1>1, <1>5
  <2> QED BY <2>1, <1>4 DEF Drawn
<1>6. CASE n # 0
  <2>1. FlattenSeq(q) = g[n] /\ Good(n) BY <1>1, <1>3, <1>6
  <2> QED BY <2>1 DEF Drawn
<1> QED BY <1>5, <1>6

\* SetToSeq lists the members of a finite set.
LEMMA InSomeOrder ==
    ASSUME NEW S, IsFiniteSet(S)
    PROVE  Cardinality(S) \in Nat /\ \A i \in 1..Cardinality(S) : SetToSeq(S)[i] \in S
<1>1. Cardinality(S) \in Nat /\ ExistsBijection(1..Cardinality(S), S) BY FS_CardinalityType
<1>2. PICK f : f \in [1..Cardinality(S) -> S] /\ IsInjective(f)
  BY <1>1 DEF ExistsBijection, Bijection, Injection
<1>3. SetToSeq(S) \in [1..Cardinality(S) -> S] BY <1>2 DEF SetToSeq
<1> QED BY <1>1, <1>3

\* A finite set has a sequence, as long as its size.
LEMMA SetsAsSeqs ==
    ASSUME NEW S, IsFiniteSet(S)
    PROVE  IsSeq(SetToSeq(S)) /\ Len(SetToSeq(S)) = Cardinality(S)
<1>1. Cardinality(S) \in Nat /\ ExistsBijection(1..Cardinality(S), S) BY FS_CardinalityType
<1>2. PICK f : f \in [1..Cardinality(S) -> S] /\ IsInjective(f)
  BY <1>1 DEF ExistsBijection, Bijection, Injection
<1>3. SetToSeq(S) \in [1..Cardinality(S) -> S] BY <1>2 DEF SetToSeq
<1> QED BY <1>1, <1>3, FunctionIsSeq

\* A sequence has finitely many elements.
LEMMA SeqsAreFinite ==
    ASSUME NEW x, IsSeq(x)
    PROVE  IsFiniteSet(ToSet(x))
<1>1. Len(x) \in Nat /\ DOMAIN x = 1..Len(x) BY SeqIs
<1>2. x \in [DOMAIN x -> ToSet(x)] BY DEF IsSeq, ToSet
<1>3. x \in Surjection(DOMAIN x, ToSet(x)) BY <1>2 DEF Surjection, ToSet
<1>4. IsFiniteSet(DOMAIN x) BY <1>1, FS_Interval
<1> QED BY <1>3, <1>4, FS_Surjection

\* The union of finitely many finite sets.
LEMMA FiniteUnion ==
    ASSUME NEW x, IsSeq(x), NEW F, \A i \in 1..Len(x) : IsFiniteSet(F[x[i]])
    PROVE  IsFiniteSet(UNION {F[t] : t \in ToSet(x)})
<1>1. Len(x) \in Nat /\ DOMAIN x = 1..Len(x) BY SeqIs
<1> DEFINE U(n) == UNION {F[x[i]] : i \in 1..n}
           Bad == {n \in 0..Len(x) : ~IsFiniteSet(U(n))}
<1>2. Bad = {}
  <2>1. SUFFICES ASSUME Bad # {} PROVE FALSE OBVIOUS
  <2>2. Bad \subseteq Nat OBVIOUS
  <2>3. PICK m \in Bad : \A k \in Bad : m <= k
    <3> HIDE DEF Bad
    <3> QED BY <2>1, <2>2, LeastOf
  <2>4. m \in 0..Len(x) /\ ~IsFiniteSet(U(m)) OBVIOUS
  <2>5. U(0) = {} OBVIOUS
  <2>6. m # 0 BY <2>4, <2>5, FS_EmptySet
  <2>7. m - 1 \in 0..Len(x) /\ m - 1 \notin Bad
    <3> HIDE DEF Bad
    <3> QED BY <1>1, <2>3, <2>4, <2>6
  <2>8. IsFiniteSet(U(m - 1)) BY <2>7
  <2>9. m \in 1..Len(x)
    <3>1. m \in 0..Len(x) BY <2>4
    <3> HIDE DEF Bad, U
    <3> QED BY <1>1, <3>1, <2>6, FromOne, Zenon
  <2>10. IsFiniteSet(F[x[m]]) BY <2>9
  <2>11. 1..m = 1..(m - 1) \cup {m} BY <2>9, <1>1
  <2>12. U(m) = U(m - 1) \cup F[x[m]] BY <2>11
  <2>13. IsFiniteSet(U(m))
    <3>1. IsFiniteSet(U(m - 1) \cup F[x[m]])
      <4> HIDE DEF U
      <4> QED BY <2>8, <2>10, FS_Union, Zenon
    <3> QED BY <3>1, <2>12, Zenon
  <2> QED BY <2>13, <2>4
<1>3. Len(x) \in 0..Len(x) BY <1>1
<1>4. IsFiniteSet(U(Len(x)))
  <2> HIDE DEF U
  <2> QED BY <1>2, <1>3
<1>5. UNION {F[t] : t \in ToSet(x)} = U(Len(x)) BY <1>1 DEF ToSet
<1> QED BY <1>4, <1>5

\* Marking the first operation of a block leaves it one.
LEMMA FirstBlock ==
    ASSUME NEW x, Block(x), x # <<>>
    PROVE  Block(First1(x))
<1> DEFINE y == First1(x)
           one == [x[1] EXCEPT !.first = TRUE]
<1>1. IsSeq(x) BY DEF Block
<1>2. Len(x) \in Nat /\ DOMAIN x = 1..Len(x) /\ Len(x) # 0 BY <1>1, SeqIs
<1>3. y = [x EXCEPT ![1] = one] BY DEF First1
<1>4. x \in [1..Len(x) -> ToSet(x)] BY <1>1, LenProperties DEF IsSeq
<1>5. y \in [1..Len(x) -> ToSet(x) \cup {one}] BY <1>2, <1>3, <1>4
<1>6. IsSeq(y) /\ Len(y) = Len(x) BY <1>2, <1>5, FunctionIsSeq
<1>7. \A i \in 1..Len(x) : y[i] = IF i = 1 THEN one ELSE x[i] BY <1>2, <1>3
<1> HIDE DEF y
<1>8. 1 \in 1..Len(x) /\ SoundOp(x[1]) BY <1>2 DEF Block
<1>9. /\ DOMAIN one = OpFields /\ one.skip = x[1].skip /\ one.spare = x[1].spare
      /\ one.do = x[1].do /\ one.sure = x[1].sure /\ one.table = x[1].table /\ one.key = x[1].key
  BY <1>8 DEF SoundOp, OpFields
<1> HIDE DEF one
<1>10. \A i \in 1..Len(x) : /\ DOMAIN y[i] = DOMAIN x[i] /\ y[i].skip = x[i].skip
                            /\ y[i].spare = x[i].spare /\ y[i].do = x[i].do /\ y[i].sure = x[i].sure
                            /\ y[i].table = x[i].table /\ y[i].key = x[i].key
  BY <1>7, <1>8, <1>9 DEF SoundOp
<1>11. \A i \in 1..Len(x) : SoundOp(x[i]) => SoundOp(y[i]) BY <1>10 DEF SoundOp
<1>12. \A i \in 1..Len(x) : ShowsAsset(y[i]) <=> ShowsAsset(x[i]) BY <1>10 DEF ShowsAsset
<1>13. \A i, j \in 1..Len(x) : MadeBy(x[i], x[j]) => MadeBy(y[i], y[j]) BY <1>10 DEF MadeBy
<1>14. ASSUME NEW j \in 1..Len(x), Covered(x, j) PROVE Covered(y, j)
  <2>1. PICK i \in 1..(j - 1) :
           /\ MadeBy(x[i], x[j]) /\ i + x[i].skip >= j
           /\ \A h \in 1..(i - 1) : /\ h + x[h].skip + 1 \notin (i + 1)..j
                                    /\ h + x[h].spare + 1 \notin (i + 1)..j
    BY <1>14 DEF Covered
  <2>2. i \in 1..Len(x) /\ \A h \in 1..(i - 1) : h \in 1..Len(x) BY <1>2
  <2> QED BY <2>1, <2>2, <1>10, <1>13 DEF Covered
<1>15. ASSUME NEW i \in 1..Len(y)
       PROVE  /\ SoundOp(y[i])
              /\ i + y[i].skip <= Len(y) /\ i + y[i].spare <= Len(y)
              /\ ShowsAsset(y[i]) => Covered(y, i)
  <2>1. i \in 1..Len(x) BY <1>6
  <2>2. /\ SoundOp(x[i]) /\ i + x[i].skip <= Len(x) /\ i + x[i].spare <= Len(x)
        /\ ShowsAsset(x[i]) => Covered(x, i)
    BY <2>1 DEF Block
  <2> QED BY <2>1, <2>2, <1>6, <1>10, <1>11, <1>12, <1>14
<1> QED BY <1>6, <1>15 DEF Block, y

-----------------------------------------------------------------------------
\* The operations of every step.

\* FirstOrCreate of a row that no user handler needs.
LEMMA AnUpsert ==
    ASSUME NEW t \in Tables \ LogTables, NEW k, NEW of, NEW n \in Nat,
           t = "subdomain" => k \in DOMAIN Bare, t = "finding" => IsReport(k)
    PROVE  LET o == Upsert(t, k, of, n)
           IN /\ SoundOp(o) /\ ~ShowsAsset(o) /\ o.skip = n /\ o.spare = 0
              /\ o.do = "upsert" /\ o.table = t /\ o.key = k
<1> DEFINE o == Upsert(t, k, of, n)
<1>1. /\ DOMAIN o = OpFields /\ o.do = "upsert" /\ o.table = t /\ o.key = k
      /\ o.skip = n /\ o.spare = 0
  BY DEF Upsert, Op, OpFields
<1> HIDE DEF o
<1>2. SoundOp(o) /\ ~ShowsAsset(o) BY <1>1 DEF SoundOp, ShowsAsset, LogTables, Tables
<1> QED BY <1>1, <1>2 DEF o

\* An insert, unless it is of a result that shows an asset.
LEMMA ACreate ==
    ASSUME NEW t \in LogTables, NEW k, NEW of
    PROVE  LET o == Op("create", t, k, of, 0)
           IN /\ SoundOp(o) /\ o.skip = 0 /\ o.spare = 0 /\ o.table = t /\ o.key = k
              /\ t # "result" => ~ShowsAsset(o)
<1> DEFINE o == Op("create", t, k, of, 0)
<1>1. /\ DOMAIN o = OpFields /\ o.do = "create" /\ o.table = t /\ o.key = k /\ o.sure = FALSE
      /\ o.skip = 0 /\ o.spare = 0
  BY DEF Op, OpFields
<1> HIDE DEF o
<1>2. SoundOp(o) /\ (t # "result" => ~ShowsAsset(o))
  BY <1>1 DEF SoundOp, ShowsAsset, LogTables, Tables
<1> QED BY <1>1, <1>2 DEF o

\* The sequences of one, of two and of three elements.
LEMMA One1 == \A a : IsSeq(<<a>>) /\ Len(<<a>>) = 1 /\ <<a>>[1] = a
<1>1. TAKE a
<1>2. <<a>> \in [1..1 -> {a}] OBVIOUS
<1> QED BY <1>2, FunctionIsSeq

\* The list of an operation and others.
LEMMA Consed ==
    ASSUME NEW a, NEW x, NEW y, IsSeq(x), IsSeq(y), Len(y) = Len(x) + 1, y[1] = a,
           \A i \in 1..Len(x) : y[i + 1] = x[i]
    PROVE  y = <<a>> \o x
<1> DEFINE z == <<a>> \o x
<1>1. Len(x) \in Nat BY SeqIs
<1>2. IsSeq(z) /\ Len(z) = 1 + Len(x) /\ z[1] = a BY <1>1, One1, Joined
<1>3. \A i \in 1..Len(z) : z[i] = IF i <= 1 THEN a ELSE x[i - 1] BY <1>1, <1>2, One1, Joined
<1> HIDE DEF z
<1>4. ASSUME NEW i \in 1..Len(z) PROVE z[i] = y[i]
  <2>1. CASE i = 1 BY <2>1, <1>2
  <2>2. CASE i # 1
    <3>1. i - 1 \in 1..Len(x) /\ (i - 1) + 1 = i /\ ~(i <= 1) BY <2>2, <1>1, <1>2
    <3>2. y[(i - 1) + 1] = x[i - 1] BY <3>1
    <3> QED BY <3>1, <3>2, <1>3
  <2> QED BY <2>1, <2>2
<1> DEFINE S == ToSet(z) \cup ToSet(y)
<1>5. z \in Seq(S) /\ y \in Seq(S) BY <1>2, SeqMonotonic DEF IsSeq
<1>6. Len(z) = Len(y) BY <1>1, <1>2
<1> HIDE DEF S
<1>7. z = y BY <1>4, <1>5, <1>6, SeqEqual
<1> QED BY <1>7 DEF z

\* A pair is its two elements in a row.
LEMMA Pairs == \A a, b : <<a, b>> = <<a>> \o <<b>>
<1>1. TAKE a, b
<1> DEFINE y == <<a, b>>
<1>2. y \in [1..2 -> {a, b}] /\ y[1] = a /\ y[2] = b OBVIOUS
<1> HIDE DEF y
<1>3. IsSeq(y) /\ Len(y) = 2 BY <1>2, FunctionIsSeq
<1>4. \A i \in 1..Len(<<b>>) : y[i + 1] = <<b>>[i] BY <1>2, One1
<1>7. IsSeq(<<b>>) /\ Len(y) = Len(<<b>>) + 1 BY <1>3, One1
<1>5. y = <<a>> \o <<b>> BY <1>2, <1>3, <1>4, <1>7, Consed
<1>6. y = <<a, b>> BY DEF y
<1> QED BY <1>5, <1>6, Zenon

\* A triple is its three elements in a row.
LEMMA Triples == \A a, b, c : <<a, b, c>> = <<a>> \o <<b, c>>
<1>1. TAKE a, b, c
<1> DEFINE y == <<a, b, c>>
           x == <<b, c>>
<1>2. y \in [1..3 -> {a, b, c}] /\ y[1] = a /\ y[2] = b /\ y[3] = c OBVIOUS
<1>3. x \in [1..2 -> {b, c}] /\ x[1] = b /\ x[2] = c OBVIOUS
<1> HIDE DEF x, y
<1>4. IsSeq(y) /\ Len(y) = 3 /\ IsSeq(x) /\ Len(x) = 2 BY <1>2, <1>3, FunctionIsSeq
<1>5. \A i \in 1..Len(x) : y[i + 1] = x[i] BY <1>2, <1>3, <1>4
<1>8. Len(y) = Len(x) + 1 BY <1>4
<1>6. y = <<a>> \o x BY <1>2, <1>4, <1>5, <1>8, Consed
<1>7. y = <<a, b, c>> /\ x = <<b, c>> BY DEF x, y
<1> QED BY <1>6, <1>7, Zenon

\* An asset and the result that shows it.
LEMMA AssetAndResult ==
    ASSUME NEW t \in Tables \ LogTables, NEW k, NEW of, NEW s, NEW type \in DOMAIN Asset,
           t = Asset[type], t = "subdomain" => k \in DOMAIN Bare
    PROVE  Block(First1(<<Upsert(t, k, of, 1), saveResult(s, type, k)>>))
<1> DEFINE o == Upsert(t, k, of, 1)
           r == saveResult(s, type, k)
<1>1. t # "finding" BY DEF Asset
<1>2. /\ SoundOp(o) /\ ~ShowsAsset(o) /\ o.skip = 1 /\ o.spare = 0
      /\ o.do = "upsert" /\ o.table = t /\ o.key = k
  BY <1>1, AnUpsert
<1>3. SoundOp(r) /\ r.skip = 0 /\ r.spare = 0 /\ r.key = <<s, type, k>>
  BY ACreate DEF saveResult, LogTables
<1> HIDE DEF o, r
<1>4. MadeBy(o, r) BY <1>2, <1>3 DEF MadeBy
<1>5. IsSeq(<<r>>) /\ Len(<<r>>) = 1 /\ <<r>>[1] = r BY One1
<1>6. ASSUME NEW i \in 1..Len(<<r>>)
      PROVE  /\ SoundOp(<<r>>[i]) /\ i + <<r>>[i].skip <= Len(<<r>>)
             /\ i + <<r>>[i].spare <= Len(<<r>>)
             /\ ShowsAsset(<<r>>[i]) => (o.skip >= i /\ MadeBy(o, <<r>>[i]))
  <2>1. i = 1 BY <1>5
  <2> QED BY <2>1, <1>2, <1>3, <1>4, <1>5
<1>10. o.skip <= Len(<<r>>) /\ o.spare <= Len(<<r>>) BY <1>2, <1>5
<1>7. Block(<<o>> \o <<r>>) BY <1>2, <1>5, <1>6, <1>10, Guarded
<1>8. <<o, r>> = <<o>> \o <<r>> BY Pairs
<1>9. <<o, r>> # <<>> OBVIOUS
<1> QED BY <1>7, <1>8, <1>9, FirstBlock DEF o, r

\* The operations of runNetwork are a block.
LEMMA NetworkBlock ==
    ASSUME NEW s, NEW targets, IsSeq(targets), ToSet(targets) \subseteq DOMAIN Bare
    PROVE  Block(runNetwork(s, targets))
<1> DEFINE S == UNION {Live[t] : t \in ToSet(targets)}
           n == Cardinality(S)
           q == [i \in 1..n |-> First1(<<Upsert("host", SetToSeq(S)[i], NoParent, 1),
                                         saveResult(s, "network", SetToSeq(S)[i])>>)]
<1>1. \A i \in 1..Len(targets) : targets[i] \in DOMAIN Bare BY SeqIs DEF ToSet
<1>2. \A i \in 1..Len(targets) : IsFiniteSet(Live[targets[i]])
  BY <1>1, ScanExecutionAssumption
<1>3. IsFiniteSet(S) BY <1>2, FiniteUnion
<1> HIDE DEF S
<1>4. n \in Nat BY <1>3, InSomeOrder
<1> HIDE DEF n
<1>5. \A k : Block(First1(<<Upsert("host", k, NoParent, 1), saveResult(s, "network", k)>>))
  BY AssetAndResult DEF Asset, Tables, LogTables
<1>6. \A i \in 1..n : Block(q[i]) BY <1>5
<1>7. q \in [1..n -> {q[i] : i \in 1..n}] OBVIOUS
<1>8. Block(FlattenSeq(q))
  <2> HIDE DEF q
  <2> QED BY <1>4, <1>6, <1>7, BlocksFlatten
<1>9. CASE ToSet(targets) \cap Unresolvable # {} BY <1>9, NoBlock DEF runNetwork
<1>10. CASE ~(ToSet(targets) \cap Unresolvable # {})
  BY <1>8, <1>10 DEF runNetwork, Each, n, S
<1> QED BY <1>9, <1>10

\* The hosts that runPort stores first are a block.
LEMMA HostBlock ==
    ASSUME NEW t
    PROVE  Block(resolveHostID(t))
<1> DEFINE o == Upsert("host", t, NoParent, 0)
<1>1. SoundOp(o) /\ ~ShowsAsset(o) /\ o.skip = 0 /\ o.spare = 0
  BY AnUpsert DEF Tables, LogTables
<1> HIDE DEF o
<1>2. Block(<<o>>) BY <1>1, OneOp
<1> QED BY <1>2, NoBlock DEF resolveHostID, o

\* The operations of runPort are a block.
LEMMA PortBlock ==
    ASSUME NEW s, NEW targets, IsSeq(targets)
    PROVE  Block(runPort(s, targets))
<1> DEFINE hosts == [i \in DOMAIN targets |-> resolveHostID(targets[i])]
<1>1. Block(FlattenSeq(hosts))
  <2>1. Len(targets) \in Nat /\ DOMAIN targets = 1..Len(targets) BY SeqIs
  <2>2. \A i \in 1..Len(targets) : Block(hosts[i]) BY <2>1, HostBlock
  <2>3. hosts \in [1..Len(targets) -> {hosts[i] : i \in 1..Len(targets)}] BY <2>1
  <2> HIDE DEF hosts
  <2> QED BY <2>1, <2>2, <2>3, BlocksFlatten
<1> DEFINE S == {p \in OpenPorts : p[1] \in ToSet(targets)}
           n == Cardinality(S)
           ops(p) == <<Upsert("service", p, NoParent, 2), RecordServiceHistory(p),
                       saveResult(s, "port", p)>>
           q == [i \in 1..n |-> First1(ops(SetToSeq(S)[i]))]
<1>2. IsFiniteSet(S) BY ScanExecutionAssumption, FS_Subset
<1> HIDE DEF S
<1>3. n \in Nat BY <1>2, InSomeOrder
<1> HIDE DEF n
<1>4. ASSUME NEW p PROVE Block(First1(ops(p)))
  <2> DEFINE o == Upsert("service", p, NoParent, 2)
             h == RecordServiceHistory(p)
             r == saveResult(s, "port", p)
             x == <<h, r>>
  <2>1. /\ SoundOp(o) /\ ~ShowsAsset(o) /\ o.skip = 2 /\ o.spare = 0
        /\ o.do = "upsert" /\ o.table = "service" /\ o.key = p
    BY AnUpsert DEF Tables, LogTables
  <2>2. SoundOp(h) /\ h.skip = 0 /\ h.spare = 0 /\ ~ShowsAsset(h)
    BY ACreate DEF RecordServiceHistory, LogTables
  <2>3. SoundOp(r) /\ r.skip = 0 /\ r.spare = 0 /\ r.key = <<s, "port", p>>
    BY ACreate DEF saveResult, LogTables
  <2> HIDE DEF o, h, r
  <2>4. MadeBy(o, r) BY <2>1, <2>3 DEF MadeBy, Asset
  <2>5. x \in [1..2 -> {h, r}] /\ x[1] = h /\ x[2] = r OBVIOUS
  <2> HIDE DEF x
  <2>6. IsSeq(x) /\ Len(x) = 2 BY <2>5, FunctionIsSeq
  <2>7. ASSUME NEW i \in 1..Len(x)
        PROVE  /\ SoundOp(x[i]) /\ i + x[i].skip <= Len(x) /\ i + x[i].spare <= Len(x)
               /\ ShowsAsset(x[i]) => (o.skip >= i /\ MadeBy(o, x[i]))
    <3>1. i = 1 \/ i = 2 BY <2>6
    <3> QED BY <3>1, <2>1, <2>2, <2>3, <2>4, <2>5, <2>6
  <2>11. o.skip <= Len(x) /\ o.spare <= Len(x) BY <2>1, <2>6
  <2>8. Block(<<o>> \o x) BY <2>1, <2>6, <2>7, <2>11, Guarded
  <2>9. <<o, h, r>> = <<o>> \o x BY Triples DEF x
  <2>10. <<o, h, r>> # <<>> OBVIOUS
  <2> QED BY <2>8, <2>9, <2>10, FirstBlock DEF o, h, r
<1>5. \A i \in 1..n : Block(q[i])
  <2> HIDE DEF ops
  <2> QED BY <1>4
<1>6. q \in [1..n -> {q[i] : i \in 1..n}] OBVIOUS
<1>7. Block(FlattenSeq(q))
  <2> HIDE DEF q
  <2> QED BY <1>3, <1>5, <1>6, BlocksFlatten
<1>8. Block(FlattenSeq(hosts) \o FlattenSeq(q))
  <2> HIDE DEF hosts, q
  <2> QED BY <1>1, <1>7, BlocksJoin
<1> QED BY <1>8 DEF runPort, Each, n, S

\* Sequences in a row may be joined in any order.
LEMMA Associates ==
    ASSUME NEW x, NEW y, NEW z, IsSeq(x), IsSeq(y), IsSeq(z)
    PROVE  (x \o y) \o z = x \o (y \o z)
<1> DEFINE S == ToSet(x) \cup ToSet(y) \cup ToSet(z)
<1>1. x \in Seq(S) /\ y \in Seq(S) /\ z \in Seq(S) BY SeqMonotonic DEF IsSeq
<1> HIDE DEF S
<1> QED BY <1>1, ConcatAssociative

\* A domain, its records and the result that shows it.
LEMMA DomainBlock ==
    ASSUME NEW s, NEW t, NEW records, IsSeq(records),
           \A i \in 1..Len(records) : \E r : records[i] = Upsert("dns", r, t, 0)
    PROVE  Block(First1(<<Upsert("domain", t, NoParent, Len(records) + 1)>>
                        \o records \o <<saveResult(s, "dns", t)>>))
<1> DEFINE o == Upsert("domain", t, NoParent, Len(records) + 1)
           r == saveResult(s, "dns", t)
           x == records \o <<r>>
<1>1. Len(records) \in Nat BY SeqIs
<1>2. /\ SoundOp(o) /\ ~ShowsAsset(o) /\ o.skip = Len(records) + 1 /\ o.spare = 0
      /\ o.do = "upsert" /\ o.table = "domain" /\ o.key = t
  BY <1>1, AnUpsert DEF Tables, LogTables
<1>3. SoundOp(r) /\ r.skip = 0 /\ r.spare = 0 /\ r.key = <<s, "dns", t>>
  BY ACreate DEF saveResult, LogTables
<1> HIDE DEF o, r
<1>4. MadeBy(o, r) BY <1>2, <1>3 DEF MadeBy, Asset
<1>5. IsSeq(x) /\ Len(x) = Len(records) + 1
      /\ \A i \in 1..(Len(records) + 1) :
            x[i] = IF i <= Len(records) THEN records[i] ELSE <<r>>[i - Len(records)]
  BY One1, Joined
<1>6. (<<o>> \o records) \o <<r>> = <<o>> \o x BY One1, Associates
<1> HIDE DEF x
<1>7. \A i \in 1..Len(x) : IF i <= Len(records) THEN x[i] = records[i] ELSE x[i] = r
  <2>1. TAKE i \in 1..Len(x)
  <2>2. CASE i <= Len(records) BY <2>2, <1>1, <1>5
  <2>3. CASE ~(i <= Len(records))
    <3>1. i - Len(records) = 1 BY <2>3, <1>1, <1>5
    <3> QED BY <3>1, <2>3, <1>1, <1>5, One1
  <2> QED BY <2>2, <2>3
<1>8. ASSUME NEW i \in 1..Len(x)
      PROVE  /\ SoundOp(x[i]) /\ i + x[i].skip <= Len(x) /\ i + x[i].spare <= Len(x)
             /\ ShowsAsset(x[i]) => (o.skip >= i /\ MadeBy(o, x[i]))
  <2>1. CASE i <= Len(records)
    <3>1. i \in 1..Len(records) BY <2>1, <1>1
    <3>2. PICK k : records[i] = Upsert("dns", k, t, 0) BY <3>1
    <3>3. x[i] = Upsert("dns", k, t, 0) BY <3>2, <2>1, <1>7
    <3>4. SoundOp(x[i]) /\ ~ShowsAsset(x[i]) /\ x[i].skip = 0 /\ x[i].spare = 0
      BY <3>3, AnUpsert DEF Tables, LogTables
    <3> QED BY <3>4, <1>1, <1>5
  <2>2. CASE ~(i <= Len(records))
    <3>1. x[i] = r /\ i = Len(x) BY <2>2, <1>1, <1>5, <1>7
    <3> QED BY <3>1, <1>1, <1>2, <1>3, <1>4, <1>5
  <2> QED BY <2>1, <2>2
<1>9. o.skip <= Len(x) /\ o.spare <= Len(x) BY <1>1, <1>2, <1>5
<1>10. Block(<<o>> \o x) BY <1>2, <1>5, <1>8, <1>9, Guarded
<1>11. <<o>> \o x # <<>>
  <2>1. IsSeq(<<o>> \o x) /\ Len(<<o>> \o x) = 1 + Len(x) BY <1>5, One1, Joined
  <2> QED BY <2>1, <1>1, <1>5, SeqIs
<1>12. Block(First1(<<o>> \o x)) BY <1>10, <1>11, FirstBlock
<1> QED BY <1>6, <1>12 DEF o, r

\* The operations of runDNS are a block.
LEMMA DNSBlock ==
    ASSUME NEW s, NEW targets, IsSeq(targets), ToSet(targets) \subseteq DOMAIN Bare
    PROVE  Block(runDNS(s, targets))
<1> DEFINE S == ToSet(targets)
           n == Cardinality(S)
           records(t) == Each(Records[t], LAMBDA r : <<Upsert("dns", r, t, 0)>>)
           ops(t) == First1(<<Upsert("domain", t, NoParent, Len(records(t)) + 1)>>
                            \o records(t) \o <<saveResult(s, "dns", t)>>)
           q == [i \in 1..n |-> ops(SetToSeq(S)[i])]
<1>1. IsFiniteSet(S) BY SeqsAreFinite
<1>2. n \in Nat /\ \A i \in 1..n : SetToSeq(S)[i] \in S BY <1>1, InSomeOrder
<1>3. ASSUME NEW t \in DOMAIN Bare PROVE Block(ops(t))
  <2> DEFINE R == Records[t]
             m == Cardinality(R)
             l == [i \in 1..m |-> <<Upsert("dns", SetToSeq(R)[i], t, 0)>>]
  <2>1. IsFiniteSet(R) BY ScanExecutionAssumption
  <2> HIDE DEF R
  <2>2. m \in Nat BY <2>1, InSomeOrder
  <2> HIDE DEF m
  <2>3. \A i \in 1..m : /\ IsSeq(l[i]) /\ Len(l[i]) = 1
                        /\ \E r : l[i][1] = Upsert("dns", r, t, 0)
    BY One1
  <2>4. l \in [1..m -> {l[i] : i \in 1..m}] OBVIOUS
  <2> HIDE DEF l
  <2>9. Drawn(FlattenSeq(l), l, m)
    <3>1. \A i \in 1..m : IsSeq(l[i]) BY <2>3
    <3> HIDE DEF records, ops, q
    <3> QED BY <2>2, <3>1, <2>4, FlattenOf
  <2>5. /\ IsSeq(FlattenSeq(l))
        /\ \A k \in 1..Len(FlattenSeq(l)) :
              \E i \in 1..m : \E j \in 1..Len(l[i]) : FlattenSeq(l)[k] = l[i][j]
    BY <2>9 DEF Drawn
  <2>6. \A k \in 1..Len(FlattenSeq(l)) : \E r : FlattenSeq(l)[k] = Upsert("dns", r, t, 0)
    <3>1. TAKE k \in 1..Len(FlattenSeq(l))
    <3>2. PICK i \in 1..m : \E j \in 1..Len(l[i]) : FlattenSeq(l)[k] = l[i][j] BY <2>5
    <3>3. PICK j \in 1..Len(l[i]) : FlattenSeq(l)[k] = l[i][j] BY <3>2
    <3>4. j = 1 BY <2>3, <3>3
    <3> QED BY <2>3, <3>3, <3>4
  <2>7. records(t) = FlattenSeq(l) BY DEF Each, l, m, R
  <2> HIDE DEF records
  <2> QED BY <2>5, <2>6, <2>7, DomainBlock
<1> HIDE DEF ops
<1>4. \A i \in 1..n : Block(q[i]) BY <1>2, <1>3
<1>5. q \in [1..n -> {q[i] : i \in 1..n}] OBVIOUS
<1>6. Block(FlattenSeq(q))
  <2> HIDE DEF q, S
  <2> QED BY <1>2, <1>4, <1>5, BlocksFlatten
<1> QED BY <1>6 DEF runDNS, Each, ops

\* A list of one operation for every member of a set.
LEMMA SingleOps ==
    ASSUME NEW n \in Nat, NEW q, q = [i \in 1..n |-> q[i]],
           \A i \in 1..n : \E o : /\ q[i] = <<o>> /\ SoundOp(o) /\ ~ShowsAsset(o)
                                  /\ o.skip = 0 /\ o.spare = 0
    PROVE  Block(FlattenSeq(q))
<1>1. \A i \in 1..n : Block(q[i]) BY OneOp
<1>2. q \in [1..n -> {q[i] : i \in 1..n}] OBVIOUS
<1> QED BY <1>1, <1>2, BlocksFlatten

\* The service a page is under, looked up or made, is a block.
LEMMA WebServiceBlock ==
    ASSUME NEW url
    PROVE  Block(WebService(url)) /\ WebService(url) # <<>>
<1> DEFINE key == <<url[2], PortOf(url)>>
           up == Upsert("service", key, NoParent, 0)
           make == resolveHostID(url[2]) \o <<up>>
           find == [Op("find", "service", key, NoParent, 0) EXCEPT !.spare = Len(make)]
<1>1. SoundOp(up) /\ ~ShowsAsset(up) /\ up.skip = 0 /\ up.spare = 0
  BY AnUpsert DEF Tables, LogTables
<1> HIDE DEF up
<1>2. Block(make) BY <1>1, HostBlock, OneOp, BlocksJoin
<1>3. IsSeq(make) BY <1>2 DEF Block
<1>4. Len(make) \in Nat BY <1>3, SeqIs
<1> HIDE DEF make
<1>5. /\ DOMAIN find = OpFields /\ find.skip = 0 /\ find.spare = Len(make)
      /\ find.table = "service" /\ find.do = "find" /\ find.key = key
  BY DEF Op, OpFields
<1> HIDE DEF find, key
<1>6. SoundOp(find) /\ ~ShowsAsset(find)
  BY <1>4, <1>5 DEF SoundOp, ShowsAsset, Tables, LogTables
<1>7. find.skip <= Len(make) /\ find.spare <= Len(make) BY <1>4, <1>5
<1>8. Block(<<find>> \o make) BY <1>2, <1>5, <1>6, <1>7, Headed
<1>9. IsSeq(<<find>> \o make) /\ Len(<<find>> \o make) = 1 + Len(make) BY <1>3, One1, Joined
<1>10. <<find>> \o make # <<>> BY <1>4, <1>9, SeqIs
<1> QED BY <1>8, <1>10 DEF WebService, find, make, up, key

\* The certificate of a site and its alert are a block.
LEMMA CertificateBlock ==
    ASSUME NEW site
    PROVE  Block(WebCertificate(site))
<1> DEFINE c == Upsert("cert", site.cert, NoParent, 0)
           a == Upsert("alert", site.cert, NoParent, 0)
<1>1. SoundOp(c) /\ ~ShowsAsset(c) /\ c.skip = 0 /\ c.spare = 0
  BY AnUpsert DEF Tables, LogTables
<1>2. SoundOp(a) /\ ~ShowsAsset(a) /\ a.skip = 0 /\ a.spare = 0
  BY AnUpsert DEF Tables, LogTables
<1> HIDE DEF c, a
<1>3. Block(<<c>>) /\ Block(<<a>>) BY <1>1, <1>2, OneOp
<1>4. Block(IF site.expiring THEN <<a>> ELSE <<>>) BY <1>3, NoBlock
<1>5. Block(<<c>> \o IF site.expiring THEN <<a>> ELSE <<>>) BY <1>3, <1>4, BlocksJoin
<1> QED BY <1>5, NoBlock DEF WebCertificate, c, a

\* The findings of a page are a block.
LEMMA FindingsBlock ==
    ASSUME NEW s \in Scans, NEW url \in DOMAIN Sites, NEW v \in VisitsBy(s, url)
    PROVE  Block(WebFindings(url, Sites[url], v))
<1> DEFINE S == Check(Sites[url].page, v)
           n == Cardinality(S)
           up(f) == [Upsert("finding", <<url>> \o Key(f), NoParent, 0) EXCEPT !.sev = f.sev]
           q == [i \in 1..n |-> <<up(SetToSeq(S)[i])>>]
<1>1. IsFiniteSet(S) BY ScanExecutionAssumption
<1>2. n \in Nat /\ \A i \in 1..n : SetToSeq(S)[i] \in S BY <1>1, InSomeOrder
<1>3. ASSUME NEW f \in S
      PROVE  SoundOp(up(f)) /\ ~ShowsAsset(up(f)) /\ up(f).skip = 0 /\ up(f).spare = 0
  <2> DEFINE key == <<url>> \o Key(f)
             o == up(f)
  <2>1. key \in Reported(url, v) BY DEF Reported
  <2> HIDE DEF S
  <2>2. IsReport(key)
    <3> HIDE DEF key
    <3> QED BY <2>1 DEF IsReport
  <2>3. /\ DOMAIN o = OpFields /\ o.do = "upsert" /\ o.table = "finding" /\ o.key = key
        /\ o.skip = 0 /\ o.spare = 0
    <3> HIDE DEF key
    <3> QED BY DEF Upsert, Op, OpFields, key
  <2> HIDE DEF o, key
  <2>4. SoundOp(o) /\ ~ShowsAsset(o)
    BY <2>2, <2>3 DEF SoundOp, ShowsAsset, LogTables, Tables
  <2> QED BY <2>3, <2>4 DEF o
<1> HIDE DEF S, up
<1>4. \A i \in 1..n : \E o : /\ q[i] = <<o>> /\ SoundOp(o) /\ ~ShowsAsset(o)
                             /\ o.skip = 0 /\ o.spare = 0
  BY <1>2, <1>3
<1>5. q = [i \in 1..n |-> q[i]] OBVIOUS
<1>6. Block(FlattenSeq(q))
  <2> HIDE DEF q, n
  <2> QED BY <1>2, <1>4, <1>5, SingleOps
<1> QED BY <1>6 DEF WebFindings, Each, S, up

\* The technologies of a page are a block.
LEMMA TechBlock ==
    ASSUME NEW url \in DOMAIN Sites
    PROVE  Block(WebTechnologies(url, Sites[url]))
<1> DEFINE S == Sites[url].techs
           n == Cardinality(S)
           up(t) == Upsert("tech", <<t, url[2], PortOf(url)>>, NoParent, 0)
           q == [i \in 1..n |-> <<up(SetToSeq(S)[i])>>]
<1>1. IsFiniteSet(S) BY ScanExecutionAssumption
<1> HIDE DEF S
<1>2. n \in Nat BY <1>1, InSomeOrder
<1>3. \A t : SoundOp(up(t)) /\ ~ShowsAsset(up(t)) /\ up(t).skip = 0 /\ up(t).spare = 0
  BY AnUpsert DEF Tables, LogTables
<1> HIDE DEF up
<1>4. \A i \in 1..n : \E o : /\ q[i] = <<o>> /\ SoundOp(o) /\ ~ShowsAsset(o)
                             /\ o.skip = 0 /\ o.spare = 0
  BY <1>3
<1>5. q = [i \in 1..n |-> q[i]] OBVIOUS
<1>6. Block(FlattenSeq(q))
  <2> HIDE DEF q, n
  <2> QED BY <1>2, <1>4, <1>5, SingleOps
<1> QED BY <1>6 DEF WebTechnologies, Each, S, up

\* The operations of runWeb are a block, whatever its visits met.
LEMMA WebBlock ==
    ASSUME NEW s \in Scans, NEW targets, NEW visits \in Visits(s)
    PROVE  Block(runWeb(s, targets, visits))
<1> DEFINE S == {url \in DOMAIN Sites : url[2] \in ToSet(targets)}
           n == Cardinality(S)
           ops(url) == WebService(url) \o WebPage(url) \o WebCertificate(Sites[url])
                       \o WebFindings(url, Sites[url], visits[url])
                       \o WebTechnologies(url, Sites[url])
                       \o <<saveResult(s, "web", url)>>
           q == [i \in 1..n |-> First1(ops(SetToSeq(S)[i]))]
<1>1. IsFiniteSet(S) /\ S \subseteq DOMAIN Sites BY ScanExecutionAssumption, FS_Subset
<1>2. n \in Nat /\ \A i \in 1..n : SetToSeq(S)[i] \in S BY <1>1, InSomeOrder
<1>3. ASSUME NEW url \in DOMAIN Sites PROVE Block(First1(ops(url)))
  <2> DEFINE a == WebService(url)
             b == WebPage(url)
             c == WebCertificate(Sites[url])
             d == WebFindings(url, Sites[url], visits[url])
             e == WebTechnologies(url, Sites[url])
             r == saveResult(s, "web", url)
  <2>1. Block(a) /\ a # <<>> BY WebServiceBlock
  <2>2. Block(b)
    <3> DEFINE p == Upsert("page", url, NoParent, 0)
    <3>1. SoundOp(p) /\ ~ShowsAsset(p) /\ p.skip = 0 /\ p.spare = 0
      BY AnUpsert DEF Tables, LogTables
    <3> HIDE DEF p
    <3>2. Block(<<p>>) BY <3>1, OneOp
    <3> QED BY <3>2 DEF WebPage, p
  <2>3. Block(c) BY CertificateBlock
  <2>4. Block(d)
    <3>1. visits[url] \in VisitsBy(s, url) BY DEF Visits
    <3> QED BY <3>1, FindingsBlock
  <2>5. Block(e) BY TechBlock
  <2>6. Block(<<r>>)
    <3>1. SoundOp(r) /\ r.skip = 0 /\ r.spare = 0 /\ r.key = <<s, "web", url>>
      BY ACreate DEF saveResult, LogTables
    <3> HIDE DEF r
    <3>2. ~ShowsAsset(r) BY <3>1 DEF ShowsAsset, Asset
    <3> QED BY <3>1, <3>2, OneOp
  <2> DEFINE all == a \o b \o c \o d \o e \o <<r>>
  <2> HIDE DEF a, b, c, d, e, r
  <2>7. Block(a \o b) BY <2>1, <2>2, BlocksJoin
  <2>8. Block(a \o b \o c) BY <2>7, <2>3, BlocksJoin
  <2>9. Block(a \o b \o c \o d) BY <2>8, <2>4, BlocksJoin
  <2>10. Block(a \o b \o c \o d \o e) BY <2>9, <2>5, BlocksJoin
  <2>11. Block(all) BY <2>10, <2>6, BlocksJoin
  <2>12. Len(all) > 0
    <3>1. /\ IsSeq(a) /\ IsSeq(b) /\ IsSeq(c) /\ IsSeq(d) /\ IsSeq(e) /\ IsSeq(<<r>>)
          /\ IsSeq(a \o b) /\ IsSeq(a \o b \o c) /\ IsSeq(a \o b \o c \o d)
          /\ IsSeq(a \o b \o c \o d \o e)
      BY <2>1, <2>2, <2>3, <2>4, <2>5, <2>6, <2>7, <2>8, <2>9, <2>10 DEF Block
    <3>2. Len(<<r>>) = 1 /\ Len(a \o b \o c \o d \o e) \in Nat BY <3>1, One1, SeqIs
    <3>3. Len(all) = Len(a \o b \o c \o d \o e) + Len(<<r>>) BY <3>1, Joined
    <3> HIDE DEF all
    <3> QED BY <3>2, <3>3
  <2> HIDE DEF all
  <2>13. IsSeq(all) /\ Len(all) # 0 BY <2>11, <2>12 DEF Block
  <2>14. all # <<>> BY <2>13, SeqIs
  <2>15. Block(First1(all)) BY <2>11, <2>14, FirstBlock
  <2> QED BY <2>15 DEF all, a, b, c, d, e, r
<1> HIDE DEF ops
<1>4. \A i \in 1..n : Block(q[i]) BY <1>1, <1>2, <1>3
<1>5. q \in [1..n -> {q[i] : i \in 1..n}] OBVIOUS
<1>6. Block(FlattenSeq(q))
  <2> HIDE DEF q, S
  <2> QED BY <1>2, <1>4, <1>5, BlocksFlatten
<1>7. Block(captureScreenshots)
  <2> DEFINE o == [Op("shots", "page", <<>>, NoParent, 0) EXCEPT !.sure = TRUE]
  <2>1. /\ DOMAIN o = OpFields /\ o.do = "shots" /\ o.table = "page"
        /\ o.skip = 0 /\ o.spare = 0
    BY DEF Op, OpFields
  <2> HIDE DEF o
  <2>2. SoundOp(o) /\ ~ShowsAsset(o) BY <2>1 DEF SoundOp, ShowsAsset, Tables, LogTables
  <2>3. Block(<<o>>) BY <2>1, <2>2, OneOp
  <2> QED BY <2>3 DEF captureScreenshots, o
<1>8. Block(FlattenSeq(q) \o captureScreenshots)
  <2> HIDE DEF q
  <2> QED BY <1>6, <1>7, BlocksJoin
<1> QED BY <1>8 DEF runWeb, Each, ops

\* The subdomains that a source found are a block.
LEMMA FoundBlock ==
    ASSUME NEW s, NEW domain, NEW S, IsFiniteSet(S), S \subseteq DOMAIN Bare
    PROVE  Block(FlattenSeq([i \in 1..Cardinality(S) |->
                               persistSubdomainResult(s, domain, SetToSeq(S)[i])]))
<1> DEFINE n == Cardinality(S)
           q == [i \in 1..n |-> persistSubdomainResult(s, domain, SetToSeq(S)[i])]
<1>1. n \in Nat /\ \A i \in 1..n : SetToSeq(S)[i] \in S BY InSomeOrder
<1>2. ASSUME NEW m \in S PROVE Block(persistSubdomainResult(s, domain, m))
  <2>1. /\ "subdomain" \in Tables \ LogTables /\ "subdomain" \in DOMAIN Asset
        /\ Asset["subdomain"] = "subdomain" /\ m \in DOMAIN Bare
    BY DEF Tables, LogTables, Asset
  <2> QED BY <2>1, AssetAndResult DEF persistSubdomainResult
<1>3. \A i \in 1..n : Block(q[i]) BY <1>1, <1>2
<1>4. q \in [1..n -> {q[i] : i \in 1..n}] OBVIOUS
<1>5. Block(FlattenSeq(q))
  <2> HIDE DEF q, n
  <2> QED BY <1>1, <1>3, <1>4, BlocksFlatten
<1> QED BY <1>5

\* The upsert of a domain, done whatever happens, and what depends on it.
LEMMA UnderDomain ==
    ASSUME NEW domain, NEW found, Block(found)
    PROVE  Block(<<[Upsert("domain", domain, NoParent, Len(found)) EXCEPT !.sure = TRUE]>> \o found)
<1> DEFINE o == [Upsert("domain", domain, NoParent, Len(found)) EXCEPT !.sure = TRUE]
<1>1. Len(found) \in Nat BY SeqIs DEF Block
<1>2. /\ DOMAIN o = OpFields /\ o.do = "upsert" /\ o.table = "domain"
      /\ o.skip = Len(found) /\ o.spare = 0
  BY DEF Upsert, Op, OpFields
<1> HIDE DEF o
<1>3. SoundOp(o) /\ ~ShowsAsset(o)
  BY <1>1, <1>2 DEF SoundOp, ShowsAsset, Tables, LogTables
<1>4. o.skip <= Len(found) /\ o.spare <= Len(found) BY <1>1, <1>2
<1>5. Block(<<o>> \o found) BY <1>2, <1>3, <1>4, Headed
<1> QED BY <1>5 DEF o

\* The operations of runSubdomain are a block.
LEMMA SubdomainBlock ==
    ASSUME NEW s, NEW targets, IsSeq(targets), ToSet(targets) \subseteq DOMAIN Bare
    PROVE  Block(runSubdomain(s, targets))
<1> DEFINE found(d) == Each(Resolving[d], LAMBDA n : persistSubdomainResult(s, d, n))
                       \o chainExtraSubdomainSources(s, d)
           ops(d) == <<[Upsert("domain", d, NoParent, Len(found(d))) EXCEPT !.sure = TRUE]>>
                     \o found(d)
           q == [i \in DOMAIN targets |-> ops(normalizeDomain(targets[i]))]
<1>1. Len(targets) \in Nat /\ DOMAIN targets = 1..Len(targets) BY SeqIs
<1>2. \A i \in 1..Len(targets) : normalizeDomain(targets[i]) \in DOMAIN Bare
  BY <1>1, ScanExecutionAssumption DEF ToSet, normalizeDomain
<1>3. ASSUME NEW d \in DOMAIN Bare PROVE Block(found(d))
  <2>1. /\ IsFiniteSet(Resolving[d]) /\ Resolving[d] \subseteq DOMAIN Bare
        /\ IsFiniteSet(Chained[d]) /\ Chained[d] \subseteq DOMAIN Bare
    BY ScanExecutionAssumption
  <2>2. Block(Each(Resolving[d], LAMBDA n : persistSubdomainResult(s, d, n)))
    BY <2>1, FoundBlock DEF Each
  <2>3. Block(Each(Chained[d], LAMBDA n : persistSubdomainResult(s, d, n)))
    BY <2>1, FoundBlock DEF Each
  <2>4. Block(snapWHOIS(d))
    <3> DEFINE o == Op("create", "whois", d, NoParent, 0)
    <3>1. SoundOp(o) /\ ~ShowsAsset(o) /\ o.skip = 0 /\ o.spare = 0 BY ACreate DEF LogTables
    <3> HIDE DEF o
    <3>2. Block(<<o>>) BY <3>1, OneOp
    <3> QED BY <3>2 DEF snapWHOIS, o
  <2>5. Block(chainExtraSubdomainSources(s, d))
    BY <2>3, <2>4, BlocksJoin DEF chainExtraSubdomainSources
  <2> QED BY <2>2, <2>5, BlocksJoin
<1> HIDE DEF found
<1>4. \A d \in DOMAIN Bare : Block(ops(d)) BY <1>3, UnderDomain
<1> HIDE DEF ops
<1>5. \A i \in 1..Len(targets) : Block(q[i]) BY <1>1, <1>2, <1>4
<1>6. q \in [1..Len(targets) -> {q[i] : i \in 1..Len(targets)}] BY <1>1
<1>7. Block(FlattenSeq(q))
  <2> HIDE DEF q
  <2> QED BY <1>1, <1>5, <1>6, BlocksFlatten
<1> QED BY <1>7 DEF runSubdomain, ops, found

\* The operations of the scheduled subdomain scan are a block.
LEMMA ScheduledBlock ==
    ASSUME NEW domain \in DOMAIN Bare
    PROVE  Block(handleSubdomainScan(domain))
<1> DEFINE S == Resolving[domain]
           n == Cardinality(S)
           up(m) == Upsert("subdomain", m, domain, 0)
           q == [i \in 1..n |-> First1(<<up(SetToSeq(S)[i])>>)]
           found == FlattenSeq(q)
<1>1. IsFiniteSet(S) /\ S \subseteq DOMAIN Bare BY ScanExecutionAssumption
<1> HIDE DEF S
<1>2. n \in Nat /\ \A i \in 1..n : SetToSeq(S)[i] \in S BY <1>1, InSomeOrder
<1>3. ASSUME NEW m \in S PROVE Block(First1(<<up(m)>>))
  <2>1. SoundOp(up(m)) /\ ~ShowsAsset(up(m)) /\ up(m).skip = 0 /\ up(m).spare = 0
    BY <1>1, AnUpsert DEF Tables, LogTables
  <2> HIDE DEF up
  <2>2. Block(<<up(m)>>) BY <2>1, OneOp
  <2>3. <<up(m)>> # <<>> OBVIOUS
  <2> QED BY <2>2, <2>3, FirstBlock
<1> HIDE DEF up
<1>4. \A i \in 1..n : Block(q[i]) BY <1>2, <1>3
<1>5. q \in [1..n -> {q[i] : i \in 1..n}] OBVIOUS
<1>6. Block(found)
  <2> HIDE DEF q, n
  <2> QED BY <1>2, <1>4, <1>5, BlocksFlatten
<1> HIDE DEF found
<1>7. Block(<<[Upsert("domain", domain, NoParent, Len(found)) EXCEPT !.sure = TRUE]>> \o found)
  BY <1>6, UnderDomain
<1> QED BY <1>7 DEF handleSubdomainScan, Each, found, S, up

StepNames == {"network", "port", "dns", "web", "subdomain", "scheduled"}

\* So what a scan begins a step with is a block.
LEMMA StepBlock ==
    ASSUME NEW s \in Scans, NEW step \in StepNames, NEW targets, IsSeq(targets),
           ToSet(targets) \subseteq DOMAIN Bare, step = "scheduled" => targets # <<>>,
           NEW visits \in Visits(s)
    PROVE  Block(StepOps(s, step, targets, visits))
<1>1. CASE step = "network" BY <1>1, NetworkBlock DEF StepOps
<1>2. CASE step = "port" BY <1>2, PortBlock DEF StepOps
<1>3. CASE step = "dns" BY <1>3, DNSBlock DEF StepOps
<1>4. CASE step = "web" BY <1>4, WebBlock DEF StepOps
<1>5. CASE step = "subdomain" BY <1>5, SubdomainBlock DEF StepOps
<1>6. CASE step = "scheduled"
  <2>1. Len(targets) \in Nat /\ DOMAIN targets = 1..Len(targets) /\ Len(targets) # 0
    BY <1>6, SeqIs
  <2>2. targets[1] \in DOMAIN Bare BY <2>1 DEF ToSet
  <2>3. normalizeDomain(targets[1]) \in DOMAIN Bare
    BY <2>2, ScanExecutionAssumption DEF normalizeDomain
  <2> QED BY <1>6, <2>3, ScheduledBlock DEF StepOps
<1> QED BY <1>1, <1>2, <1>3, <1>4, <1>5, <1>6 DEF StepNames

-----------------------------------------------------------------------------
\* The invariant.

Keyed == Tables \ LogTables
RowFields == {"org", "key", "link", "sev", "status", "gone"}
ScanFields == {"status", "steps", "step", "targets", "todo", "phase", "found", "ids",
               "cancelled", "trouble"}

RowIs(t, r) ==
    /\ DOMAIN r = RowFields /\ r.gone \in BOOLEAN /\ r.link \in Nat \cup {Dangling}
    /\ t = "subdomain" => r.key \in DOMAIN Bare
    /\ t = "finding" => IsReport(r.key) /\ r.gone = FALSE
RowsAre(d) ==
    /\ DOMAIN d = Tables
    /\ \A t \in Keyed : IsSeq(d[t]) /\ \A i \in 1..Len(d[t]) : RowIs(t, d[t][i])

\* Row i of a table is that of a key.
RowAt(d, t, i, org, key) == i \in 1..Len(d[t]) /\ d[t][i].org = org /\ d[t][i].key = key

HasRow(d, t, org, key) == \E i : RowAt(d, t, i, org, key)

\* Only a running scan has something to do, and what is left of its way is
\* made for targets that are names.
Going(r) == r.status = "running" \/ (r.todo = <<>> /\ r.step = "")
RouteIs(p, r) ==
    /\ IsSeq(r.targets) /\ ToSet(r.targets) \subseteq DOMAIN Bare
    /\ IsSeq(r.steps)
    /\ \A i \in 1..Len(r.steps) : /\ r.steps[i] \in StepNames
                                  /\ r.steps[i] = "scheduled" => p.kind = "scheduled"
    /\ p.kind = "scheduled" /\ r.status = "running" => r.targets # <<>>

\* A result still to be written has its asset on record, or an operation
\* before it that makes it and takes the result with it when it fails.
Shown(d, org, o) == \E i \in 1..Len(d[Asset[o.key[2]]]) : RowAt(d, Asset[o.key[2]], i, org, o.key[3])
TodoIs(todo, org, d) ==
    /\ IsSeq(todo)
    /\ \A i \in 1..Len(todo) : /\ SoundOp(todo[i])
                               /\ ShowsAsset(todo[i]) => Covered(todo, i) \/ Shown(d, org, todo[i])

\* What a lookup found is a row of the key, and so is every id in hand.
FoundIs(r, org, d) ==
    /\ r.phase \in {"look", "write"}
    /\ r.phase = "write" => /\ r.todo # <<>> /\ r.todo[1].do = "upsert"
                            /\ \/ r.found = NoRow
                               \/ RowAt(d, r.todo[1].table, r.found, org, r.todo[1].key)
IdsAre(ids, org, d) ==
    \A k \in DOMAIN ids :
        ids[k] = Dangling \/ (k[1] \in Keyed /\ RowAt(d, k[1], ids[k], org, k[2]))

ScanIs(p, r, d) ==
    /\ DOMAIN r = ScanFields /\ Going(r) /\ RouteIs(p, r) /\ TodoIs(r.todo, p.org, d)
    /\ FoundIs(r, p.org, d) /\ IdsAre(r.ids, p.org, d)

\* Two scans of an organization that run at once are noticed.
Apart ==
    \A s, x \in Scans :
        s = x \/ Org(s) # Org(x) \/ Org(s) \in together
        \/ scan[s].status # "running" \/ scan[x].status # "running"

\* A scan that is about to insert has no row before it, but for overlapping
\* scans, tables with an index of their own and a technology without service.
LinkIn(r, o) == IF ParentOf(o) \in DOMAIN r.ids THEN r.ids[ParentOf(o)] ELSE NoRow
Vacant(d, t, org, key) ==
    \A i \in DOMAIN d[t] : d[t][i].gone \/ d[t][i].org # org \/ d[t][i].key # key
Lonely(p, r, d, orgs) ==
    r.phase = "write" /\ r.found = NoRow =>
      \/ r.todo[1].table \in UniqueTables \/ p.org \in orgs
      \/ (r.todo[1].table = "tech" /\ LinkIn(r, r.todo[1]) = Dangling)
      \/ Vacant(d, r.todo[1].table, p.org, r.todo[1].key)

\* NoTwins, LinksHold and ResultsAreBacked, row by row.
MayMeet(t, r, q, orgs) ==
    \/ r.gone \/ q.gone \/ r.org # q.org \/ r.key # q.key
    \/ (t = "tech" /\ Dangling \in {r.link, q.link})
    \/ (t \notin UniqueTables /\ r.org \in orgs)
TwinFree(d, orgs) ==
    \A t \in Keyed : \A i, j \in DOMAIN d[t] : i = j \/ MayMeet(t, d[t][i], d[t][j], orgs)
LinkOk(t, r, d) ==
    r.link \notin {NoRow, Dangling} =>
      /\ r.link \in DOMAIN d[Parent[t]] /\ d[Parent[t]][r.link].org = r.org
      /\ t = "service" => d[Parent[t]][r.link].key = r.key[1]
      /\ t = "page" => d[Parent[t]][r.link].key[1] = r.key[2]
      /\ t = "tech" => d[Parent[t]][r.link].key = Tail(r.key)
BackedBy(d, r) ==
    r.key[2] \in DOMAIN Asset =>
      \E a \in ToSet(d[Asset[r.key[2]]]) : a.org = r.org /\ a.key = r.key[3]
Sound(d, orgs) ==
    /\ RowsAre(d) /\ TwinFree(d, orgs)
    /\ \A t \in LinkedTables : \A i \in DOMAIN d[t] : LinkOk(t, d[t][i], d)
    /\ \A r \in d["result"] : BackedBy(d, r)

\* The inductive invariant of ExecutionSpec.
EInv ==
    /\ plan \in Plans /\ DOMAIN scan = Scans /\ Sound(db, together)
    /\ \A s \in Scans : ScanIs(plan[s], scan[s], db) /\ Lonely(plan[s], scan[s], db, together)
    /\ Apart

-----------------------------------------------------------------------------
\* What a statement does to the tables.

Grows(d, e) ==
    \A t \in Keyed : /\ Len(d[t]) \in Nat /\ Len(e[t]) \in Nat /\ Len(d[t]) <= Len(e[t])
                     /\ \A i \in 1..Len(d[t]) : e[t][i].org = d[t][i].org /\ e[t][i].key = d[t][i].key
Inserted(d, e, t, r) ==
    /\ DOMAIN e = Tables /\ \A u \in Tables \ {t} : e[u] = d[u]
    /\ IsSeq(e[t]) /\ Len(d[t]) \in Nat /\ Len(e[t]) = Len(d[t]) + 1
    /\ \A i \in 1..Len(d[t]) : e[t][i] = d[t][i]
    /\ e[t][Len(d[t]) + 1] = r
Edited(d, e, t, k, r) ==
    /\ DOMAIN e = Tables /\ \A u \in Tables \ {t} : e[u] = d[u]
    /\ IsSeq(e[t]) /\ Len(e[t]) = Len(d[t]) /\ k \in 1..Len(d[t])
    /\ \A i \in 1..Len(d[t]) : e[t][i] = IF i = k THEN r ELSE d[t][i]
    /\ r.org = d[t][k].org /\ r.key = d[t][k].key /\ (d[t][k].gone => r.gone)

\* INSERT, as the model has it, inserts a row.
LEMMA AppendIs ==
    ASSUME RowsAre(db), NEW t \in Keyed, NEW r, NEW e, e = [db EXCEPT ![t] = Append(@, r)]
    PROVE  Inserted(db, e, t, r)
<1> DEFINE x == db[t]
           S == ToSet(x) \cup {r}
<1>1. t \in DOMAIN db /\ DOMAIN db = Tables /\ IsSeq(x) BY DEF RowsAre, Keyed
<1>2. x \in Seq(S) /\ r \in S BY <1>1, SeqMonotonic DEF IsSeq
<1>3. e[t] = Append(x, r) /\ DOMAIN e = Tables /\ \A u \in Tables \ {t} : e[u] = db[u] BY <1>1
<1> HIDE DEF S
<1>4. /\ Append(x, r) \in Seq(S) /\ Len(Append(x, r)) = Len(x) + 1
      /\ \A i \in 1..Len(x) : Append(x, r)[i] = x[i]
      /\ Append(x, r)[Len(x) + 1] = r
  BY <1>2, AppendProperties
<1>5. IsSeq(e[t]) BY <1>3, <1>4, AnySeq
<1>6. Len(x) \in Nat BY <1>1, SeqIs
<1> HIDE DEF x
<1>7. /\ Len(e[t]) = Len(x) + 1 /\ \A i \in 1..Len(x) : e[t][i] = x[i]
      /\ e[t][Len(x) + 1] = r
  BY <1>3, <1>4
<1> QED BY <1>3, <1>5, <1>6, <1>7 DEF Inserted, x

\* UPDATE of one row edits it.
LEMMA EditIs ==
    ASSUME RowsAre(db), NEW t \in Keyed, NEW k \in DOMAIN db[t], NEW r, NEW e,
           e = [db EXCEPT ![t] = [@ EXCEPT ![k] = r]],
           r.org = db[t][k].org, r.key = db[t][k].key, db[t][k].gone => r.gone
    PROVE  Edited(db, e, t, k, r)
<1> DEFINE x == db[t]
           y == [x EXCEPT ![k] = r]
<1>1. t \in DOMAIN db /\ DOMAIN db = Tables /\ IsSeq(x) BY DEF RowsAre, Keyed
<1>2. e[t] = y /\ DOMAIN e = Tables /\ \A u \in Tables \ {t} : e[u] = db[u] BY <1>1
<1>3. Len(x) \in Nat /\ DOMAIN x = 1..Len(x) BY <1>1, SeqIs
<1>4. x \in [1..Len(x) -> ToSet(x)] BY <1>1, LenProperties DEF IsSeq
<1>5. y \in [1..Len(x) -> ToSet(x) \cup {r}] BY <1>4
<1>6. IsSeq(y) /\ Len(y) = Len(x)
  <2> DEFINE n == Len(x)
             T == ToSet(x) \cup {r}
  <2>1. n \in Nat /\ y \in [1..n -> T] BY <1>3, <1>5
  <2> HIDE DEF n, T, y
  <2>2. IsSeq(y) /\ Len(y) = n BY <2>1, FunctionIsSeq
  <2> QED BY <2>2 DEF n
<1>7. \A i \in 1..Len(x) : y[i] = IF i = k THEN r ELSE x[i] BY <1>3
<1> HIDE DEF x, y
<1>8. k \in 1..Len(x) BY <1>3 DEF x
<1> QED BY <1>2, <1>6, <1>7, <1>8 DEF Edited, x

\* An insert only adds.
LEMMA AppendGrows ==
    ASSUME RowsAre(db), NEW t \in Keyed, NEW r, NEW e, Inserted(db, e, t, r)
    PROVE  Grows(db, e)
<1>1. \A u \in Keyed : u \in Tables /\ Len(db[u]) \in Nat BY SeqIs DEF RowsAre, Keyed
<1>2. ASSUME NEW u \in Keyed
      PROVE  /\ Len(db[u]) \in Nat /\ Len(e[u]) \in Nat /\ Len(db[u]) <= Len(e[u])
             /\ \A i \in 1..Len(db[u]) : e[u][i] = db[u][i]
  <2>1. CASE u = t BY <2>1, <1>1 DEF Inserted
  <2>2. CASE u # t
    <3>1. e[u] = db[u] BY <2>2, <1>1 DEF Inserted
    <3> QED BY <3>1, <1>1
  <2> QED BY <2>1, <2>2
<1> QED BY <1>2 DEF Grows

\* An edit leaves each row its organization and key.
LEMMA EditGrows ==
    ASSUME RowsAre(db), NEW t \in Keyed, NEW k, NEW r, NEW e, Edited(db, e, t, k, r)
    PROVE  Grows(db, e)
<1>1. \A u \in Keyed : u \in Tables /\ Len(db[u]) \in Nat BY SeqIs DEF RowsAre, Keyed
<1>2. ASSUME NEW u \in Keyed
      PROVE  /\ Len(db[u]) \in Nat /\ Len(e[u]) \in Nat /\ Len(db[u]) <= Len(e[u])
             /\ \A i \in 1..Len(db[u]) : e[u][i].org = db[u][i].org /\ e[u][i].key = db[u][i].key
  <2>1. CASE u = t
    <3>1. Len(e[t]) = Len(db[t]) BY DEF Edited
    <3>2. \A i \in 1..Len(db[t]) : e[t][i].org = db[t][i].org /\ e[t][i].key = db[t][i].key
      BY DEF Edited
    <3> QED BY <2>1, <3>1, <3>2, <1>1
  <2>2. CASE u # t
    <3>1. e[u] = db[u] BY <2>2, <1>1 DEF Edited
    <3> QED BY <3>1, <1>1
  <2> QED BY <2>1, <2>2
<1> QED BY <1>2 DEF Grows

\* A row of an organization and key stays one.
LEMMA RowStays ==
    ASSUME NEW d, NEW e, Grows(d, e), NEW t \in Keyed, NEW i, NEW org, NEW key, RowAt(d, t, i, org, key)
    PROVE  RowAt(e, t, i, org, key)
BY DEF RowAt, Grows

\* The tables of the assets that results show keep their rows in order.
LEMMA AssetTables == \A type \in DOMAIN Asset : Asset[type] \in Keyed
BY DEF Asset, Keyed, Tables, LogTables

\* An asset on record stays on record.
LEMMA ShownStays ==
    ASSUME NEW d, NEW e, Grows(d, e), NEW org, NEW o, ShowsAsset(o), Shown(d, org, o)
    PROVE  Shown(e, org, o)
<1> DEFINE t == Asset[o.key[2]]
<1>1. t \in Keyed BY AssetTables DEF ShowsAsset
<1> HIDE DEF t
<1>2. PICK i \in 1..Len(d[t]) : RowAt(d, t, i, org, o.key[3]) BY DEF Shown, t
<1>3. RowAt(e, t, i, org, o.key[3]) BY <1>1, <1>2, RowStays
<1>4. i \in 1..Len(e[t]) BY <1>3 DEF RowAt
<1> QED BY <1>3, <1>4 DEF Shown, t

\* What a scan knows stays true whatever is written.
LEMMA ScanStays ==
    ASSUME NEW d, NEW e, Grows(d, e), NEW p, NEW r, ScanIs(p, r, d)
    PROVE  ScanIs(p, r, e)
<1>1. TodoIs(r.todo, p.org, e) BY ShownStays DEF ScanIs, TodoIs
<1>2. FoundIs(r, p.org, e)
  <2>1. ASSUME r.phase = "write", r.found # NoRow
        PROVE  RowAt(e, r.todo[1].table, r.found, p.org, r.todo[1].key)
    <3>1. r.todo # <<>> /\ IsSeq(r.todo) /\ r.todo[1].do = "upsert"
      BY <2>1 DEF ScanIs, FoundIs, TodoIs
    <3>2. 1 \in 1..Len(r.todo) BY <3>1, SeqIs
    <3>3. SoundOp(r.todo[1]) BY <3>2 DEF ScanIs, TodoIs
    <3>4. r.todo[1].table \in Keyed BY <3>1, <3>3 DEF SoundOp, Keyed
    <3>5. RowAt(d, r.todo[1].table, r.found, p.org, r.todo[1].key)
      BY <2>1 DEF ScanIs, FoundIs
    <3> QED BY <3>4, <3>5, RowStays
  <2> QED BY <2>1 DEF ScanIs, FoundIs
<1>3. IdsAre(r.ids, p.org, e) BY RowStays DEF ScanIs, IdsAre
<1> QED BY <1>1, <1>2, <1>3 DEF ScanIs

-----------------------------------------------------------------------------
\* The rows after a statement.

\* Domains of the tables that are lists.
LEMMA TablesAre ==
    ASSUME NEW d, RowsAre(d), NEW t \in Keyed
    PROVE  t \in Tables /\ IsSeq(d[t]) /\ Len(d[t]) \in Nat /\ DOMAIN d[t] = 1..Len(d[t])
BY SeqIs DEF RowsAre, Keyed

\* Rows with a parent, and their parents, are in tables that keep order.
LEMMA LinkedAre == \A t \in LinkedTables : t \in Keyed /\ Parent[t] \in Keyed
BY DEF LinkedTables, Keyed, Tables, LogTables, Parent

\* A row that has its parent keeps it.
LEMMA LinkGrows ==
    ASSUME NEW d, NEW e, RowsAre(d), RowsAre(e), Grows(d, e), NEW t \in LinkedTables, NEW r,
           LinkOk(t, r, d)
    PROVE  LinkOk(t, r, e)
<1> DEFINE u == Parent[t]
<1>1. u \in Keyed BY LinkedAre
<1> HIDE DEF u
<1>2. DOMAIN d[u] = 1..Len(d[u]) /\ DOMAIN e[u] = 1..Len(e[u]) BY <1>1, TablesAre
<1>3. ASSUME r.link \notin {NoRow, Dangling}, r.link \in DOMAIN d[u]
      PROVE  /\ r.link \in DOMAIN e[u] /\ e[u][r.link].org = d[u][r.link].org
             /\ e[u][r.link].key = d[u][r.link].key
  BY <1>1, <1>2, <1>3 DEF Grows
<1> QED BY <1>3 DEF LinkOk, u

\* A result that has its asset keeps it.
LEMMA BackedGrows ==
    ASSUME NEW d, NEW e, RowsAre(d), RowsAre(e), Grows(d, e), NEW r, BackedBy(d, r)
    PROVE  BackedBy(e, r)
<1> SUFFICES ASSUME r.key[2] \in DOMAIN Asset
             PROVE  \E a \in ToSet(e[Asset[r.key[2]]]) : a.org = r.org /\ a.key = r.key[3]
  BY DEF BackedBy
<1> DEFINE u == Asset[r.key[2]]
<1>1. u \in Keyed BY AssetTables
<1>2. PICK a \in ToSet(d[u]) : a.org = r.org /\ a.key = r.key[3] BY DEF BackedBy
<1> HIDE DEF u
<1>3. PICK i \in 1..Len(d[u]) : a = d[u][i] BY <1>1, <1>2, TablesAre DEF ToSet
<1>4. i \in DOMAIN e[u] /\ e[u][i].org = r.org /\ e[u][i].key = r.key[3]
  BY <1>1, <1>2, <1>3, TablesAre DEF Grows
<1> QED BY <1>4 DEF ToSet, u

\* A new row that fits those that are there.
LEMMA AppendSound ==
    ASSUME NEW d, NEW e, NEW orgs, Sound(d, orgs), NEW t \in Keyed,
           NEW r, Inserted(d, e, t, r), Grows(d, e), RowIs(t, r),
           \A i \in 1..Len(d[t]) : MayMeet(t, r, d[t][i], orgs) /\ MayMeet(t, d[t][i], r, orgs),
           t \in LinkedTables => LinkOk(t, r, d)
    PROVE  Sound(e, orgs)
<1> DEFINE n == Len(d[t])
<1>1. RowsAre(d) BY DEF Sound
<1>2. n \in Nat /\ DOMAIN d[t] = 1..n BY <1>1, TablesAre
<1>3. /\ IsSeq(e[t]) /\ Len(e[t]) = n + 1 /\ e[t][n + 1] = r
      /\ \A i \in 1..n : e[t][i] = d[t][i]
  BY DEF Inserted
<1>4. \A u \in Keyed \ {t} : e[u] = d[u] BY DEF Inserted, Keyed
<1> HIDE DEF n
<1>5. DOMAIN e[t] = 1..(n + 1) BY <1>3, SeqIs
<1>6. \A i \in 1..(n + 1) : i \in 1..n \/ i = n + 1 BY <1>2
<1>7. RowsAre(e)
  <2>1. DOMAIN e = Tables BY DEF Inserted
  <2>2. ASSUME NEW u \in Keyed
        PROVE  IsSeq(e[u]) /\ \A i \in 1..Len(e[u]) : RowIs(u, e[u][i])
    <3>1. CASE u = t
      <4>1. \A i \in 1..n : RowIs(t, d[t][i]) BY <1>1 DEF RowsAre, n
      <4> QED BY <3>1, <4>1, <1>3, <1>6
    <3>2. CASE u # t BY <3>2, <1>1, <1>4 DEF RowsAre
    <3> QED BY <3>1, <3>2
  <2> QED BY <2>1, <2>2 DEF RowsAre
<1>8. TwinFree(e, orgs)
  <2>1. ASSUME NEW u \in Keyed, NEW i \in DOMAIN e[u], NEW j \in DOMAIN e[u], i # j
        PROVE  MayMeet(u, e[u][i], e[u][j], orgs)
    <3>1. CASE u = t
      <4>1. i \in 1..(n + 1) /\ j \in 1..(n + 1) BY <3>1, <1>5
      <4>2. CASE i \in 1..n /\ j \in 1..n
        <5>1. MayMeet(t, d[t][i], d[t][j], orgs) BY <2>1, <4>2, <1>2 DEF Sound, TwinFree
        <5> QED BY <5>1, <4>2, <1>3, <3>1
      <4>3. CASE i = n + 1 /\ j \in 1..n
        <5>1. MayMeet(t, r, d[t][j], orgs) BY <4>3 DEF n
        <5> QED BY <5>1, <4>3, <1>3, <3>1
      <4>4. CASE j = n + 1 /\ i \in 1..n
        <5>1. MayMeet(t, d[t][i], r, orgs) BY <4>4 DEF n
        <5> QED BY <5>1, <4>4, <1>3, <3>1
      <4> QED BY <4>1, <4>2, <4>3, <4>4, <1>6, <2>1
    <3>2. CASE u # t BY <3>2, <2>1, <1>4 DEF Sound, TwinFree
    <3> QED BY <3>1, <3>2
  <2> QED BY <2>1 DEF TwinFree
<1>9. ASSUME NEW u \in LinkedTables, NEW i \in DOMAIN e[u] PROVE LinkOk(u, e[u][i], e)
  <2>1. LinkOk(u, e[u][i], d)
    <3>1. CASE u = t
      <4>1. i \in 1..(n + 1) BY <3>1, <1>5
      <4>2. CASE i \in 1..n BY <3>1, <4>2, <1>2, <1>3 DEF Sound
      <4>3. CASE i = n + 1 BY <3>1, <4>3, <1>3
      <4> QED BY <4>1, <4>2, <4>3, <1>6
    <3>2. CASE u # t
      <4>1. e[u] = d[u] BY <3>2, <1>4, LinkedAre
      <4> QED BY <4>1 DEF Sound
    <3> QED BY <3>1, <3>2
  <2> QED BY <2>1, <1>1, <1>7, LinkGrows
<1>10. ASSUME NEW x \in e["result"] PROVE BackedBy(e, x)
  <2>1. e["result"] = d["result"] BY DEF Inserted, Keyed, LogTables, Tables
  <2>2. BackedBy(d, x) BY <2>1 DEF Sound
  <2> QED BY <2>2, <1>1, <1>7, BackedGrows
<1> QED BY <1>7, <1>8, <1>9, <1>10 DEF Sound

\* A row that changes without becoming another one.
LEMMA EditSound ==
    ASSUME NEW d, NEW e, NEW orgs, Sound(d, orgs), NEW t \in Keyed, NEW k, NEW r,
           Edited(d, e, t, k, r), Grows(d, e), RowIs(t, r),
           r.link = d[t][k].link \/ t # "tech",
           t \in LinkedTables => LinkOk(t, r, d)
    PROVE  Sound(e, orgs)
<1> DEFINE n == Len(d[t])
<1>1. RowsAre(d) BY DEF Sound
<1>2. n \in Nat /\ DOMAIN d[t] = 1..n BY <1>1, TablesAre
<1>3. /\ IsSeq(e[t]) /\ Len(e[t]) = n /\ k \in 1..n
      /\ \A i \in 1..n : e[t][i] = IF i = k THEN r ELSE d[t][i]
      /\ r.org = d[t][k].org /\ r.key = d[t][k].key /\ (d[t][k].gone => r.gone)
  BY DEF Edited
<1>4. \A u \in Keyed \ {t} : e[u] = d[u] BY DEF Edited, Keyed
<1> HIDE DEF n
<1>5. DOMAIN e[t] = 1..n BY <1>3, SeqIs
<1>7. RowsAre(e)
  <2>1. DOMAIN e = Tables BY DEF Edited
  <2>2. ASSUME NEW u \in Keyed
        PROVE  IsSeq(e[u]) /\ \A i \in 1..Len(e[u]) : RowIs(u, e[u][i])
    <3>1. CASE u = t
      <4>1. \A i \in 1..n : RowIs(t, d[t][i]) BY <1>1 DEF RowsAre, n
      <4> QED BY <3>1, <4>1, <1>3
    <3>2. CASE u # t BY <3>2, <1>1, <1>4 DEF RowsAre
    <3> QED BY <3>1, <3>2
  <2> QED BY <2>1, <2>2 DEF RowsAre
<1>8. TwinFree(e, orgs)
  <2>1. ASSUME NEW u \in Keyed, NEW i \in DOMAIN e[u], NEW j \in DOMAIN e[u], i # j
        PROVE  MayMeet(u, e[u][i], e[u][j], orgs)
    <3>1. CASE u = t
      <4>1. i \in 1..n /\ j \in 1..n BY <3>1, <1>5
      <4>2. MayMeet(t, d[t][i], d[t][j], orgs) BY <2>1, <4>1, <1>2 DEF Sound, TwinFree
      <4>3. CASE i # k /\ j # k BY <4>1, <4>2, <4>3, <1>3, <3>1
      <4>4. CASE i = k
        <5>1. e[u][i] = r /\ e[u][j] = d[t][j] BY <2>1, <3>1, <4>1, <4>4, <1>3
        <5> QED BY <5>1, <4>2, <4>4, <1>3, <3>1 DEF MayMeet
      <4>5. CASE j = k
        <5>1. e[u][j] = r /\ e[u][i] = d[t][i] BY <2>1, <3>1, <4>1, <4>5, <1>3
        <5> QED BY <5>1, <4>2, <4>5, <1>3, <3>1 DEF MayMeet
      <4> QED BY <4>3, <4>4, <4>5
    <3>2. CASE u # t BY <3>2, <2>1, <1>4 DEF Sound, TwinFree
    <3> QED BY <3>1, <3>2
  <2> QED BY <2>1 DEF TwinFree
<1>9. ASSUME NEW u \in LinkedTables, NEW i \in DOMAIN e[u] PROVE LinkOk(u, e[u][i], e)
  <2>1. LinkOk(u, e[u][i], d)
    <3>1. CASE u = t
      <4>1. i \in 1..n BY <3>1, <1>5
      <4>2. CASE i # k
        <5>1. e[t][i] = d[t][i] BY <4>1, <4>2, <1>3
        <5> QED BY <5>1, <3>1, <4>1, <1>2 DEF Sound
      <4>3. CASE i = k BY <3>1, <4>1, <4>3, <1>3
      <4> QED BY <4>2, <4>3
    <3>2. CASE u # t
      <4>1. e[u] = d[u] BY <3>2, <1>4, LinkedAre
      <4> QED BY <4>1 DEF Sound
    <3> QED BY <3>1, <3>2
  <2> QED BY <2>1, <1>1, <1>7, LinkGrows
<1>10. ASSUME NEW x \in e["result"] PROVE BackedBy(e, x)
  <2>1. e["result"] = d["result"] BY DEF Edited, Keyed, LogTables, Tables
  <2>2. BackedBy(d, x) BY <2>1 DEF Sound
  <2> QED BY <2>2, <1>1, <1>7, BackedGrows
<1> QED BY <1>7, <1>8, <1>9, <1>10 DEF Sound

\* A row of a log table.
Logged(d, e, t, r) ==
    DOMAIN e = Tables /\ e[t] = d[t] \cup {r} /\ \A u \in Tables \ {t} : e[u] = d[u]

\* A row in a log table leaves sound rows sound.
LEMMA LogSound ==
    ASSUME NEW d, NEW e, NEW orgs, Sound(d, orgs), NEW t \in LogTables, NEW r,
           Logged(d, e, t, r), t = "result" => BackedBy(d, r)
    PROVE  Sound(e, orgs) /\ Grows(d, e) /\ \A u \in Keyed : e[u] = d[u]
<1>1. RowsAre(d) BY DEF Sound
<1>2. t \in Tables BY DEF LogTables, Tables
<1>3. DOMAIN e = Tables /\ e[t] = d[t] \cup {r} /\ \A u \in Tables \ {t} : e[u] = d[u]
  BY DEF Logged
<1>4. \A u \in Keyed : e[u] = d[u] BY <1>3 DEF Keyed
<1>5. RowsAre(e) BY <1>1, <1>3, <1>4 DEF RowsAre
<1>6. TwinFree(e, orgs) BY <1>4 DEF Sound, TwinFree
<1>7. Grows(d, e)
  <2>1. ASSUME NEW u \in Keyed
        PROVE  /\ Len(d[u]) \in Nat /\ Len(e[u]) \in Nat /\ Len(d[u]) <= Len(e[u])
               /\ \A i \in 1..Len(d[u]) : e[u][i].org = d[u][i].org /\ e[u][i].key = d[u][i].key
    <3>1. Len(d[u]) \in Nat BY <1>1, TablesAre
    <3>2. e[u] = d[u] BY <1>4
    <3> QED BY <3>1, <3>2
  <2> QED BY <2>1 DEF Grows
<1>8. \A u \in LinkedTables : \A i \in DOMAIN e[u] : LinkOk(u, e[u][i], e)
  <2>1. TAKE u \in LinkedTables
  <2>2. TAKE i \in DOMAIN e[u]
  <2>3. e[u] = d[u] BY <1>4, LinkedAre
  <2>4. LinkOk(u, e[u][i], d) BY <2>3 DEF Sound
  <2> QED BY <2>4, <1>1, <1>5, <1>7, LinkGrows
<1>9. \A x \in e["result"] : BackedBy(e, x)
  <2>1. TAKE x \in e["result"]
  <2>2. BackedBy(d, x) 
    <3>1. CASE t = "result" BY <3>1, <1>3 DEF Sound
    <3>2. CASE t # "result"
      <4>1. e["result"] = d["result"] BY <3>2, <1>3 DEF Tables
      <4> QED BY <4>1 DEF Sound
    <3> QED BY <3>1, <3>2
  <2> QED BY <2>2, <1>1, <1>5, <1>7, BackedGrows
<1> QED BY <1>4, <1>5, <1>6, <1>7, <1>8, <1>9 DEF Sound

\* More organizations whose scans overlapped excuse more.
LEMMA MoreTogether ==
    ASSUME NEW d, NEW orgs, NEW more, orgs \subseteq more, Sound(d, orgs)
    PROVE  Sound(d, more)
BY DEF Sound, TwinFree, MayMeet

\* What is written stays: rows are not removed, and keep what a user decided.
Kept(d, e) ==
    \A t \in Keyed : \A i \in DOMAIN d[t] :
        /\ i \in DOMAIN e[t] /\ e[t][i].key = d[t][i].key /\ e[t][i].org = d[t][i].org
        /\ d[t][i].status # "open" => e[t][i].status = d[t][i].status

\* An insert keeps what is written.
LEMMA AppendKeeps ==
    ASSUME NEW d, NEW e, RowsAre(d), NEW t \in Keyed, NEW r, Inserted(d, e, t, r)
    PROVE  Kept(d, e)
<1>1. ASSUME NEW u \in Keyed, NEW i \in DOMAIN d[u] PROVE i \in DOMAIN e[u] /\ e[u][i] = d[u][i]
  <2>1. CASE u = t
    <3>1. DOMAIN d[t] = 1..Len(d[t]) /\ Len(d[t]) \in Nat BY TablesAre
    <3>2. DOMAIN e[t] = 1..(Len(d[t]) + 1) BY SeqIs DEF Inserted
    <3> QED BY <2>1, <3>1, <3>2 DEF Inserted
  <2>2. CASE u # t BY <2>2 DEF Inserted, Keyed
  <2> QED BY <2>1, <2>2
<1> QED BY <1>1 DEF Kept

\* An edit keeps it when it reopens nothing.
LEMMA EditKeeps ==
    ASSUME NEW d, NEW e, RowsAre(d), NEW t \in Keyed, NEW k, NEW r, Edited(d, e, t, k, r),
           r.status = d[t][k].status \/ d[t][k].status = "open"
    PROVE  Kept(d, e)
<1>1. ASSUME NEW u \in Keyed, NEW i \in DOMAIN d[u]
      PROVE  /\ i \in DOMAIN e[u] /\ e[u][i].key = d[u][i].key /\ e[u][i].org = d[u][i].org
             /\ d[u][i].status # "open" => e[u][i].status = d[u][i].status
  <2>1. CASE u = t
    <3>1. DOMAIN d[t] = 1..Len(d[t]) BY TablesAre
    <3>2. DOMAIN e[t] = 1..Len(d[t]) BY SeqIs DEF Edited
    <3>3. CASE i = k
      <4>1. e[t][i] = r BY <2>1, <3>1, <3>3 DEF Edited
      <4> QED BY <2>1, <3>1, <3>2, <3>3, <4>1 DEF Edited
    <3>4. CASE i # k
      <4>1. e[t][i] = d[t][i] BY <2>1, <3>1, <3>4 DEF Edited
      <4> QED BY <2>1, <3>1, <3>2, <4>1
    <3> QED BY <3>3, <3>4
  <2>2. CASE u # t
    <3>1. e[u] = d[u] BY <2>2 DEF Edited, Keyed
    <3> QED BY <3>1
  <2> QED BY <2>1, <2>2
<1> QED BY <1>1 DEF Kept

\* So does what touches only log tables.
LEMMA SameKeeps ==
    ASSUME NEW d, NEW e, \A u \in Keyed : e[u] = d[u]
    PROVE  Kept(d, e)
BY DEF Kept

-----------------------------------------------------------------------------
\* A scan goes on.

\* What is left of the operations after some are skipped.
LEMMA OnwardTodo ==
    ASSUME NEW todo, NEW org, NEW d, NEW e, TodoIs(todo, org, d), Grows(d, e), todo # <<>>,
           NEW k \in {0, todo[1].skip, todo[1].spare},
           \A j \in 1..Len(todo) : ShowsAsset(todo[j]) /\ MadeBy(todo[1], todo[j]) =>
                                      k = todo[1].skip \/ Shown(e, org, todo[j])
    PROVE  TodoIs(SubSeq(todo, k + 2, Len(todo)), org, e)
<1> DEFINE n == Len(todo)
           y == SubSeq(todo, k + 2, Len(todo))
<1>1. IsSeq(todo) BY DEF TodoIs
<1>2. n \in Nat /\ n # 0 BY <1>1, SeqIs
<1>3. \A i \in 1..n : SoundOp(todo[i]) /\ todo[i].skip \in Nat /\ todo[i].spare \in Nat
  BY DEF TodoIs, SoundOp
<1>4. k \in Nat
  <2>1. 1 \in 1..n BY <1>2
  <2> QED BY <2>1, <1>3
<1>5. /\ IsSeq(y) /\ Len(y) = IF k + 2 <= n THEN n - k - 1 ELSE 0
      /\ \A i \in 1..Len(y) : i + k + 1 \in 1..n /\ y[i] = todo[i + k + 1]
  BY <1>1, <1>4, RestIs
<1> HIDE DEF y, n
<1>6. ASSUME NEW j \in 1..Len(y), ShowsAsset(y[j])
      PROVE  Covered(y, j) \/ Shown(e, org, y[j])
  <2> DEFINE J == j + k + 1
  <2>1. J \in 1..n /\ y[j] = todo[J] BY <1>5
  <2>2. j \in Nat /\ j >= 1 OBVIOUS
  <2>3. CASE Shown(d, org, todo[J]) BY <2>1, <2>3, <1>6, ShownStays
  <2>4. CASE Covered(todo, J)
    <3>1. PICK i \in 1..(J - 1) :
             /\ MadeBy(todo[i], todo[J]) /\ i + todo[i].skip >= J
             /\ \A h \in 1..(i - 1) : /\ h + todo[h].skip + 1 \notin (i + 1)..J
                                      /\ h + todo[h].spare + 1 \notin (i + 1)..J
      BY <2>4 DEF Covered
    <3>2. CASE i = 1
      <4>1. k # todo[1].skip BY <3>1, <3>2, <2>2, <1>4
      <4> QED BY <4>1, <3>1, <3>2, <2>1, <1>6 DEF n
    <3>3. CASE i # 1
      <4>1. 1 \in 1..(i - 1) BY <3>3
      <4>2. 1 + todo[1].skip + 1 \notin (i + 1)..J /\ 1 + todo[1].spare + 1 \notin (i + 1)..J
        BY <3>1, <4>1
      <4>3. 1 + 0 + 1 \notin (i + 1)..J BY <4>1
      <4>4. 1 + k + 1 \notin (i + 1)..J BY <4>2, <4>3
      <4>5. k + 2 <= i BY <4>4, <2>1, <2>2, <1>2, <1>4
      <4> DEFINE m == i - k - 1
      <4>6. m \in 1..(j - 1) /\ i = m + k + 1 BY <4>5, <1>4, <2>2
      <4> HIDE DEF m, J
      <4>7. m \in 1..Len(y)
        <5>1. Len(y) \in Nat BY <1>5, SeqIs
        <5> QED BY <4>6, <5>1
      <4>8. y[m] = todo[i] BY <4>6, <4>7, <1>5
      <4>9. i \in 1..n /\ todo[i].skip \in Nat BY <2>1, <1>2, <1>3 DEF J
      <4>10. m + y[m].skip >= j BY <3>1, <4>6, <4>8, <4>9, <1>4, <2>2 DEF J
      <4>11. ASSUME NEW g \in 1..(m - 1)
             PROVE  /\ g + y[g].skip + 1 \notin (m + 1)..j
                    /\ g + y[g].spare + 1 \notin (m + 1)..j
        <5> DEFINE h == g + k + 1
        <5>1. h \in 1..(i - 1) /\ g \in 1..Len(y) BY <4>6, <4>7, <1>4
        <5>2. y[g] = todo[h] /\ h \in 1..n BY <5>1, <1>5
        <5>3. todo[h].skip \in Nat /\ todo[h].spare \in Nat BY <5>2, <1>3
        <5>4. /\ h + todo[h].skip + 1 \notin (i + 1)..J
              /\ h + todo[h].spare + 1 \notin (i + 1)..J
          BY <3>1, <5>1
        <5>5. ASSUME NEW a \in Nat, h + a + 1 \notin (i + 1)..J
              PROVE  g + a + 1 \notin (m + 1)..j
          BY <5>5, <4>6, <1>4, <2>2 DEF J
        <5> HIDE DEF h
        <5> QED BY <5>2, <5>3, <5>4, <5>5
      <4> QED BY <4>6, <4>8, <4>10, <4>11, <3>1, <2>1 DEF Covered, J
    <3> QED BY <3>2, <3>3
  <2>5. Covered(todo, J) \/ Shown(d, org, todo[J])
    <3> HIDE DEF J
    <3> QED BY <2>1, <1>6 DEF TodoIs, n
  <2> QED BY <2>3, <2>4, <2>5
<1>7. \A i \in 1..Len(y) : SoundOp(y[i]) BY <1>3, <1>5
<1> QED BY <1>5, <1>6, <1>7 DEF TodoIs, y

\* The ids a scan has in hand stay those of its rows.
LEMMA IdsGrow ==
    ASSUME NEW d, NEW e, Grows(d, e), NEW org, NEW ids, IdsAre(ids, org, d)
    PROVE  IdsAre(ids, org, e)
BY RowStays DEF IdsAre

\* The first operation of a scan that has one.
LEMMA FirstOp ==
    ASSUME NEW p, NEW r, NEW d, ScanIs(p, r, d), r.todo # <<>>
    PROVE  /\ IsSeq(r.todo) /\ 1 \in 1..Len(r.todo) /\ Head(r.todo) = r.todo[1]
           /\ SoundOp(r.todo[1]) /\ r.todo[1].skip \in Nat /\ r.status = "running"
           /\ ShowsAsset(r.todo[1]) => Shown(d, p.org, r.todo[1])
<1>1. IsSeq(r.todo) BY DEF ScanIs, TodoIs
<1>2. Len(r.todo) \in Nat /\ Len(r.todo) # 0 /\ Head(r.todo) = r.todo[1] BY <1>1, SeqIs
<1>3. 1 \in 1..Len(r.todo) BY <1>2
<1>4. SoundOp(r.todo[1]) /\ (ShowsAsset(r.todo[1]) => Covered(r.todo, 1) \/ Shown(d, p.org, r.todo[1]))
  BY <1>3 DEF ScanIs, TodoIs
<1>5. ~Covered(r.todo, 1) BY DEF Covered
<1>6. r.status = "running" BY DEF ScanIs, Going
<1> QED BY <1>1, <1>2, <1>3, <1>4, <1>5, <1>6 DEF SoundOp

\* An operation of a scan is over: its record afterwards.
LEMMA MovedIs ==
    ASSUME NEW p, NEW r, NEW d, NEW e, ScanIs(p, r, d), Grows(d, e), r.todo # <<>>,
           NEW k \in {0, r.todo[1].skip, r.todo[1].spare},
           \/ k = r.todo[1].skip \/ r.todo[1].do # "upsert"
           \/ HasRow(e, r.todo[1].table, p.org, r.todo[1].key),
           NEW q, DOMAIN q = ScanFields, q.todo = SubSeq(r.todo, k + 2, Len(r.todo)),
           q.phase = "look", q.status = r.status, q.steps = r.steps, q.step = r.step,
           q.targets = r.targets, IdsAre(q.ids, p.org, e)
    PROVE  ScanIs(p, q, e)
<1>1. ASSUME NEW j \in 1..Len(r.todo), ShowsAsset(r.todo[j]), MadeBy(r.todo[1], r.todo[j]),
             k # r.todo[1].skip
      PROVE  Shown(e, p.org, r.todo[j])
  <2>1. /\ r.todo[1].do = "upsert" /\ r.todo[1].table = Asset[r.todo[j].key[2]]
        /\ r.todo[1].key = r.todo[j].key[3]
    BY <1>1 DEF MadeBy
  <2>2. PICK i : RowAt(e, r.todo[1].table, i, p.org, r.todo[1].key) BY <1>1, <2>1 DEF HasRow
  <2>3. i \in 1..Len(e[r.todo[1].table]) BY <2>2 DEF RowAt
  <2> QED BY <2>1, <2>2, <2>3 DEF Shown
<1>2. TodoIs(r.todo, p.org, d) BY DEF ScanIs
<1>3. TodoIs(q.todo, p.org, e) BY <1>1, <1>2, OnwardTodo
<1>4. r.status = "running" BY DEF ScanIs, Going
<1>5. RouteIs(p, q) BY DEF ScanIs, RouteIs
<1> QED BY <1>3, <1>4, <1>5 DEF ScanIs, FoundIs, Going

\* One scan does something: the others know what they knew, and none of them
\* is about to insert what it inserts but in an organization that is excused.
LEMMA OneScanMoves ==
    ASSUME EInv, plan' = plan, NEW s \in Scans, NEW q, scan' = [scan EXCEPT ![s] = q],
           Grows(db, db'), together \subseteq together', Sound(db', together'),
           ScanIs(plan[s], q, db'), Lonely(plan[s], q, db', together'),
           q.status = "running" /\ scan[s].status # "running" =>
             \A x \in Scans \ {s} : scan[x].status = "running" =>
                                       Org(x) # Org(s) \/ Org(s) \in together',
           \A t \in Keyed : \A org, key : Vacant(db, t, org, key) =>
              Vacant(db', t, org, key) \/ (org = Org(s) /\ scan[s].status = "running")
    PROVE  EInv'
<1>1. DOMAIN scan = Scans /\ DOMAIN scan' = Scans /\ scan'[s] = q BY DEF EInv
<1>2. \A x \in Scans \ {s} : scan'[x] = scan[x] BY DEF EInv
<1>3. \A x \in Scans : Org(x)' = Org(x) BY DEF Org
<1>4. Apart'
  <2>1. ASSUME NEW x \in Scans, NEW y \in Scans, x # y, Org(x) = Org(y),
               scan'[x].status = "running", scan'[y].status = "running"
        PROVE  Org(x) \in together'
    <3>1. CASE x # s /\ y # s
      <4>1. scan[x].status = "running" /\ scan[y].status = "running" BY <2>1, <3>1, <1>2
      <4> QED BY <4>1, <2>1 DEF EInv, Apart
    <3>2. CASE x = s
      <4>1. scan[y].status = "running" /\ q.status = "running" BY <2>1, <3>2, <1>1, <1>2
      <4>2. CASE scan[s].status = "running" BY <2>1, <3>2, <4>1, <4>2 DEF EInv, Apart
      <4> QED BY <2>1, <3>2, <4>1, <4>2
    <3>3. CASE y = s
      <4>1. scan[x].status = "running" /\ q.status = "running" BY <2>1, <3>3, <1>1, <1>2
      <4>2. CASE scan[s].status = "running" BY <2>1, <3>3, <4>1, <4>2 DEF EInv, Apart
      <4> QED BY <2>1, <3>3, <4>1, <4>2
    <3> QED BY <3>1, <3>2, <3>3
  <2> QED BY <2>1, <1>3 DEF Apart
<1>5. ASSUME NEW x \in Scans
      PROVE  ScanIs(plan[x], scan'[x], db') /\ Lonely(plan[x], scan'[x], db', together')
  <2>1. CASE x = s BY <2>1, <1>1
  <2>2. CASE x # s
    <3>1. scan'[x] = scan[x] BY <2>2, <1>2
    <3> DEFINE p == plan[x]
               r == scan[x]
    <3>2. ScanIs(p, r, db) /\ Lonely(p, r, db, together) BY DEF EInv
    <3> HIDE DEF p
    <3>3. ScanIs(p, r, db') BY <3>2, ScanStays
    <3>4. Lonely(p, r, db', together')
      <4>1. SUFFICES ASSUME r.phase = "write", r.found = NoRow,
                            Vacant(db, r.todo[1].table, p.org, r.todo[1].key)
                     PROVE  \/ Vacant(db', r.todo[1].table, p.org, r.todo[1].key)
                            \/ p.org \in together'
        BY <3>2 DEF Lonely
      <4>3. r.todo # <<>> /\ r.todo[1].do = "upsert" BY <4>1, <3>2 DEF ScanIs, FoundIs
      <4>4. r.todo[1].table \in Keyed BY <4>3, <3>2, FirstOp DEF SoundOp, Keyed
      <4>2. CASE p.org = Org(s) /\ scan[s].status = "running"
        <5>2. scan[x].status = "running" BY <4>3, <3>2 DEF ScanIs, Going
        <5> QED BY <4>2, <5>2, <2>2 DEF EInv, Apart, Org, p
      <4> QED BY <4>1, <4>2, <4>4
    <3> QED BY <3>1, <3>3, <3>4 DEF p
  <2> QED BY <2>1, <2>2
<1>6. (\A x \in Scans : ScanIs(plan[x], scan[x], db) /\ Lonely(plan[x], scan[x], db, together))'
  BY <1>5
<1> QED BY <1>1, <1>4, <1>6 DEF EInv

\* The record of a scan past k operations, with the id of the row in hand.
CanPass(p, r, d, e, k, id) ==
    /\ ScanIs(p, r, d) /\ Grows(d, e) /\ r.todo # <<>>
    /\ k \in {0, r.todo[1].skip, r.todo[1].spare}
    /\ id \in {NoRow, Dangling} \/ RowAt(e, r.todo[1].table, id, p.org, r.todo[1].key)
    /\ id # NoRow => r.todo[1].table \in Keyed
    /\ \/ k = r.todo[1].skip \/ r.todo[1].do # "upsert"
       \/ HasRow(e, r.todo[1].table, p.org, r.todo[1].key)

\* A scan that passes an operation as CanPass has it is as it should be.
LEMMA PastIs ==
    ASSUME NEW p, NEW r, NEW d, NEW e, NEW k, NEW id, CanPass(p, r, d, e, k, id)
    PROVE  /\ ScanIs(p, Past(r, k, id), e)
           /\ Past(r, k, id).phase = "look" /\ Past(r, k, id).status = "running"
<1> DEFINE o == r.todo[1]
           key == <<o.table, o.key>>
           q == Past(r, k, id)
<1>1. /\ ScanIs(p, r, d) /\ Grows(d, e) /\ r.todo # <<>>
      /\ k \in {0, r.todo[1].skip, r.todo[1].spare}
      /\ \/ k = r.todo[1].skip \/ r.todo[1].do # "upsert"
         \/ HasRow(e, r.todo[1].table, p.org, r.todo[1].key)
  BY DEF CanPass
<1>2. Head(r.todo) = o /\ r.status = "running" BY <1>1, FirstOp
<1>4. DOMAIN r = ScanFields BY <1>1 DEF ScanIs
<1>6. /\ DOMAIN q = ScanFields /\ q.todo = SubSeq(r.todo, k + 2, Len(r.todo)) /\ q.phase = "look"
      /\ q.status = r.status /\ q.steps = r.steps /\ q.step = r.step /\ q.targets = r.targets
      /\ q.ids = IF id = NoRow THEN r.ids
                 ELSE [x \in DOMAIN r.ids \cup {key} |-> IF x = key THEN id ELSE r.ids[x]]
  BY <1>2, <1>4 DEF ScanFields, Past
<1> HIDE DEF q
<1>7. IdsAre(q.ids, p.org, e)
  <2>1. IdsAre(r.ids, p.org, e) BY <1>1, IdsGrow DEF ScanIs
  <2>2. CASE id = NoRow BY <2>1, <2>2, <1>6
  <2>3. CASE id # NoRow
    <3>1. o.table \in Keyed /\ (id = Dangling \/ RowAt(e, o.table, id, p.org, o.key))
      BY <2>3 DEF CanPass
    <3>2. key[1] = o.table /\ key[2] = o.key OBVIOUS
    <3> HIDE DEF key
    <3>3. IdsAre([x \in DOMAIN r.ids \cup {key} |-> IF x = key THEN id ELSE r.ids[x]], p.org, e)
      BY <2>1, <3>1, <3>2 DEF IdsAre
    <3> QED BY <2>3, <3>3, <1>6
  <2> QED BY <2>2, <2>3
<1>8. ScanIs(p, q, e) BY <1>1, <1>6, <1>7, MovedIs
<1> QED BY <1>2, <1>6, <1>8 DEF q

\* The scan goes on past k operations.
LEMMA OnwardMoves ==
    ASSUME EInv, plan' = plan, NEW s \in Scans, scan[s].todo # <<>>,
           NEW k \in {0, scan[s].todo[1].skip, scan[s].todo[1].spare}, NEW id,
           Onward(s, k, id), Grows(db, db'), together' = together, Sound(db', together),
           \/ id \in {NoRow, Dangling}
           \/ RowAt(db', scan[s].todo[1].table, id, Org(s), scan[s].todo[1].key),
           id # NoRow => scan[s].todo[1].table \in Keyed,
           \/ k = scan[s].todo[1].skip \/ scan[s].todo[1].do # "upsert"
           \/ HasRow(db', scan[s].todo[1].table, Org(s), scan[s].todo[1].key),
           \A t \in Keyed : \A org, key : Vacant(db, t, org, key) => Vacant(db', t, org, key) \/ org = Org(s)
    PROVE  EInv'
<1> DEFINE r == scan[s]
           p == plan[s]
           q == Past(r, k, id)
<1>1. ScanIs(p, r, db) BY DEF EInv
<1>2. r.status = "running" BY <1>1, FirstOp
<1>3. scan' = [scan EXCEPT ![s] = q] BY DEF Onward
<1>4. p.org = Org(s) BY DEF Org
<1>5. ScanIs(p, q, db') /\ q.phase = "look" /\ q.status = "running"
  <2> DEFINE o == r.todo[1]
  <2>1. id \in {NoRow, Dangling} \/ RowAt(db', o.table, id, p.org, o.key) BY <1>4
  <2>2. \/ k = o.skip \/ o.do # "upsert"
        \/ HasRow(db', o.table, p.org, o.key)
    BY <1>4
  <2>3. id # NoRow => o.table \in Keyed OBVIOUS
  <2>4. k \in {0, o.skip, o.spare} /\ r.todo # <<>> OBVIOUS
  <2>5. CanPass(p, r, db, db', k, id) BY <1>1, <2>1, <2>2, <2>3, <2>4 DEF CanPass
  <2> HIDE DEF r, p
  <2> QED BY <2>5, PastIs
<1> HIDE DEF q
<1>6. Lonely(p, q, db', together') BY <1>5 DEF Lonely
<1> QED BY <1>2, <1>3, <1>5, <1>6, OneScanMoves

\* The parent that a handler has in hand is a row of its table.
LEMMA LinkIs ==
    ASSUME NEW p, NEW r, NEW d, ScanIs(p, r, d), NEW o
    PROVE  /\ LinkIn(r, o) \in Nat \cup {Dangling}
           /\ \/ LinkIn(r, o) \in {NoRow, Dangling}
              \/ /\ ParentOf(o)[1] \in Keyed
                 /\ RowAt(d, ParentOf(o)[1], LinkIn(r, o), p.org, ParentOf(o)[2])
<1>1. CASE ParentOf(o) \in DOMAIN r.ids
  <2>1. LinkIn(r, o) = r.ids[ParentOf(o)] BY <1>1 DEF LinkIn
  <2>2. \/ r.ids[ParentOf(o)] = Dangling
        \/ /\ ParentOf(o)[1] \in Keyed
           /\ RowAt(d, ParentOf(o)[1], r.ids[ParentOf(o)], p.org, ParentOf(o)[2])
    BY <1>1 DEF ScanIs, IdsAre
  <2> QED BY <2>1, <2>2 DEF RowAt
<1>2. CASE ParentOf(o) \notin DOMAIN r.ids BY <1>2 DEF LinkIn, NoRow
<1> QED BY <1>1, <1>2

\* The row that an operation inserts, and a row that is given its parent.
LEMMA LinkFits ==
    ASSUME NEW p, NEW r, NEW d, ScanIs(p, r, d), RowsAre(d), NEW o, o.table \in LinkedTables,
           NEW row, row.org = p.org, row.key = o.key, row.link = LinkIn(r, o)
    PROVE  LinkOk(o.table, row, d)
<1> DEFINE t == o.table
           u == Parent[t]
           i == LinkIn(r, o)
<1>1. SUFFICES ASSUME i \notin {NoRow, Dangling} PROVE LinkOk(t, row, d) BY DEF LinkOk
<1>2. RowAt(d, ParentOf(o)[1], i, p.org, ParentOf(o)[2]) /\ ParentOf(o)[1] \in Keyed
  BY <1>1, LinkIs
<1>3. ParentOf(o)[1] = u BY DEF ParentOf, LinkedTables, Parent
<1>4. /\ t = "service" => ParentOf(o)[2] = o.key[1]
      /\ t = "page" => ParentOf(o)[2] = <<o.key[2], PortOf(o.key)>>
      /\ t = "tech" => ParentOf(o)[2] = Tail(o.key)
  BY DEF ParentOf
<1>5. <<o.key[2], PortOf(o.key)>>[1] = o.key[2] OBVIOUS
<1> HIDE DEF t, u, i
<1>6. u \in Keyed /\ i \in 1..Len(d[u]) /\ d[u][i].org = p.org /\ d[u][i].key = ParentOf(o)[2]
  BY <1>2, <1>3 DEF RowAt
<1>7. i \in DOMAIN d[u] BY <1>6, TablesAre
<1>8. row.link = i BY DEF i
<1> QED BY <1>4, <1>5, <1>6, <1>7, <1>8 DEF LinkOk, u

\* The id that a lookup finds.
LEMMA LookupIs ==
    ASSUME RowsAre(db), NEW t \in Keyed, NEW org, NEW key,
           NEW row \in FirstOf(RowsOf(t, org, key))
    PROVE  \/ row = NoRow /\ Vacant(db, t, org, key)
           \/ row # NoRow /\ RowAt(db, t, row, org, key)
<1> DEFINE S == RowsOf(t, org, key)
<1>1. /\ Len(db[t]) \in Nat /\ DOMAIN db[t] = 1..Len(db[t])
      /\ \A i \in 1..Len(db[t]) : db[t][i].gone \in BOOLEAN
  BY TablesAre DEF RowsAre, RowIs
<1>2. S = {i \in DOMAIN db[t] : ~db[t][i].gone /\ db[t][i].org = org /\ db[t][i].key = key}
  BY DEF RowsOf
<1>3. CASE S = {} BY <1>1, <1>2, <1>3 DEF FirstOf, Vacant
<1>4. CASE S # {}
  <2>1. row \in S BY <1>4 DEF FirstOf
  <2> QED BY <2>1, <1>1, <1>2 DEF RowAt, NoRow
<1> QED BY <1>3, <1>4

\* What a step that writes nothing leaves as it was.
LEMMA NothingWritten ==
    ASSUME EInv, db' = db
    PROVE  /\ Grows(db, db') /\ Kept(db, db')
           /\ \A t \in Keyed : \A org, key : Vacant(db, t, org, key) => Vacant(db', t, org, key)
<1>1. \A t \in Keyed : Len(db[t]) \in Nat BY TablesAre DEF EInv, Sound
<1>2. Grows(db, db') BY <1>1 DEF Grows
<1>3. Kept(db, db') BY SameKeeps
<1> QED BY <1>2, <1>3

-----------------------------------------------------------------------------
\* The actions.

\* A failed write.
LEMMA FaultStep ==
    ASSUME EInv, NEW s \in Scans, Fault(s)
    PROVE  EInv' /\ Kept(db, db')
<1> DEFINE r == scan[s]
           p == plan[s]
           o == r.todo[1]
           id == IF Now1(s).table = "service" /\ scan[s].step = "web" /\ Now1(s).do = "upsert"
                 THEN Dangling ELSE NoRow
           q == Past(r, o.skip, id)
           x == [q EXCEPT !.trouble = TRUE]
<1>1. ScanIs(p, r, db) /\ r.todo # <<>> BY DEF EInv, Fault
<1>2. Head(r.todo) = o /\ r.status = "running" BY <1>1, FirstOp
<1>3. scan' = [scan EXCEPT ![s] = x] BY <1>2 DEF Fault, Now1
<1>4. db' = db /\ together' = together /\ plan' = plan BY DEF Fault
<1>5. /\ Grows(db, db') /\ Kept(db, db')
      /\ \A t \in Keyed : \A org, key : Vacant(db, t, org, key) => Vacant(db', t, org, key)
  BY <1>4, NothingWritten
<1>6. ScanIs(p, q, db') /\ q.phase = "look" /\ q.status = "running"
  <2>1. id \in {NoRow, Dangling} BY DEF NoRow, Dangling
  <2>2. id # NoRow => o.table \in Keyed BY <1>2 DEF Now1, Keyed, Tables, LogTables
  <2>3. CanPass(p, r, db, db', o.skip, id) BY <1>1, <1>5, <2>1, <2>2 DEF CanPass
  <2> HIDE DEF r, p, id
  <2> QED BY <2>3, PastIs
<1> HIDE DEF q
<1>7. DOMAIN q = ScanFields BY <1>6 DEF ScanIs
<1>8. /\ DOMAIN x = ScanFields /\ x.todo = q.todo /\ x.phase = "look" /\ x.status = "running"
      /\ x.steps = q.steps /\ x.step = q.step /\ x.targets = q.targets /\ x.ids = q.ids
      /\ x.found = q.found
  BY <1>6, <1>7 DEF ScanFields
<1> HIDE DEF x
<1>9. ScanIs(p, x, db') BY <1>6, <1>8 DEF ScanIs, Going, RouteIs, FoundIs
<1>10. Lonely(p, x, db', together') BY <1>8 DEF Lonely
<1>11. Sound(db', together') BY <1>4 DEF EInv
<1> QED BY <1>2, <1>3, <1>4, <1>5, <1>8, <1>9, <1>10, <1>11, OneScanMoves

\* The user cancels the scan.
LEMMA CancelStep ==
    ASSUME EInv, NEW s \in Scans, CancelRun(s)
    PROVE  EInv' /\ Kept(db, db')
<1> DEFINE r == scan[s]
           p == plan[s]
           x == [r EXCEPT !.cancelled = TRUE]
<1>1. ScanIs(p, r, db) /\ Lonely(p, r, db, together) BY DEF EInv
<1>3. scan' = [scan EXCEPT ![s] = x] BY DEF CancelRun
<1>4. db' = db /\ together' = together /\ plan' = plan BY DEF CancelRun
<1>5. /\ Grows(db, db') /\ Kept(db, db')
      /\ \A t \in Keyed : \A org, key : Vacant(db, t, org, key) => Vacant(db', t, org, key)
  BY <1>4, NothingWritten
<1>7. DOMAIN r = ScanFields BY <1>1 DEF ScanIs
<1>8. /\ DOMAIN x = ScanFields /\ x.todo = r.todo /\ x.phase = r.phase /\ x.status = r.status
      /\ x.steps = r.steps /\ x.step = r.step /\ x.targets = r.targets /\ x.ids = r.ids
      /\ x.found = r.found
  BY <1>7 DEF ScanFields
<1> HIDE DEF x
<1>9. ScanIs(p, x, db') BY <1>1, <1>4, <1>8 DEF ScanIs, Going, RouteIs, FoundIs
<1>10. Lonely(p, x, db', together') BY <1>1, <1>4, <1>8 DEF Lonely, LinkIn
<1>11. Sound(db', together') BY <1>4 DEF EInv
<1>12. x.status = "running" => scan[s].status = "running" BY <1>8
<1> QED BY <1>3, <1>4, <1>5, <1>9, <1>10, <1>11, <1>12, OneScanMoves

\* The worker takes the scan.
LEMMA StartStep ==
    ASSUME EInv, NEW s \in Scans, StartScan(s)
    PROVE  EInv' /\ Kept(db, db')
<1> DEFINE r == scan[s]
           p == plan[s]
           status == IF p.targets = <<>> THEN "failed" ELSE "running"
           x == [[[r EXCEPT !.status = status] EXCEPT !.steps = StepsOf(p.kind)]
                  EXCEPT !.targets = p.targets]
<1>1. ScanIs(p, r, db) /\ r.status = "pending" BY DEF EInv, StartScan
<1>3. scan' = [scan EXCEPT ![s] = x] BY DEF StartScan, targetsFromPayload, EInv
<1>4. db' = db /\ together \subseteq together' /\ plan' = plan BY DEF StartScan
<1>5. /\ Grows(db, db') /\ Kept(db, db')
      /\ \A t \in Keyed : \A org, key : Vacant(db, t, org, key) => Vacant(db', t, org, key)
  BY <1>4, NothingWritten
<1>7. DOMAIN r = ScanFields BY <1>1 DEF ScanIs
<1>8. /\ DOMAIN x = ScanFields /\ x.todo = r.todo /\ x.phase = r.phase /\ x.status = status
      /\ x.steps = StepsOf(p.kind) /\ x.step = r.step /\ x.targets = p.targets
      /\ x.ids = r.ids /\ x.found = r.found
  BY <1>7 DEF ScanFields
<1> HIDE DEF x
<1>9. p.targets \in Seq(DOMAIN Bare)
      /\ p.kind \in {"network", "port", "dns", "web", "subdomain", "full", "scheduled"}
  BY ScanExecutionAssumption DEF EInv
<1>10. RouteIs(p, x)
  <2>1. IsSeq(p.targets) BY <1>9, AnySeq
  <2>2. ToSet(p.targets) \subseteq DOMAIN Bare
    <3>1. DOMAIN p.targets = 1..Len(p.targets) BY <2>1, SeqIs
    <3> HIDE DEF p
    <3> QED BY <1>9, <3>1, ElementOfSeq DEF ToSet
  <2>3. CASE p.kind = "full"
    <3> DEFINE y == <<"network", "subdomain", "port", "dns", "web">>
    <3>1. /\ y \in [1..5 -> StepNames] /\ y[1] = "network" /\ y[2] = "subdomain" /\ y[3] = "port"
          /\ y[4] = "dns" /\ y[5] = "web"
      BY DEF StepNames
    <3>2. x.steps = y BY <1>8, <2>3 DEF StepsOf
    <3> HIDE DEF y, p
    <3>3. IsSeq(y) /\ Len(y) = 5 BY <3>1, FunctionIsSeq
    <3>4. \A i \in 1..5 : y[i] \in StepNames /\ y[i] # "scheduled" BY <3>1
    <3> QED BY <1>8, <2>1, <2>2, <2>3, <3>2, <3>3, <3>4 DEF RouteIs
  <2>4. CASE p.kind # "full"
    <3>1. x.steps = <<p.kind>> BY <1>8, <2>4 DEF StepsOf
    <3>2. IsSeq(x.steps) /\ Len(x.steps) = 1 /\ x.steps[1] = p.kind BY <3>1, One1
    <3>3. p.kind \in StepNames BY <1>9, <2>4 DEF StepNames
    <3>4. x.status = "running" => p.targets # <<>> BY <1>8
    <3> HIDE DEF p
    <3> QED BY <1>8, <2>1, <2>2, <3>2, <3>3, <3>4 DEF RouteIs
  <2> QED BY <2>3, <2>4
<1>11. r.todo = <<>> /\ r.step = "" BY <1>1 DEF ScanIs, Going
<1>12. ScanIs(p, x, db') /\ x.phase # "write"
  BY <1>1, <1>4, <1>8, <1>10, <1>11 DEF ScanIs, Going, FoundIs
<1>13. Lonely(p, x, db', together') BY <1>12 DEF Lonely
<1>14. Sound(db', together') BY <1>4, MoreTogether DEF EInv
<1>15. \A y \in Scans \ {s} : scan[y].status = "running" =>
          Org(y) # Org(s) \/ Org(s) \in together'
  BY DEF StartScan
<1> QED BY <1>3, <1>4, <1>5, <1>12, <1>13, <1>14, <1>15, OneScanMoves

\* The record of a scan whose way, not whose rows, changes.
LEMMA Onto ==
    ASSUME EInv, plan' = plan, db' = db, together' = together, NEW s \in Scans, NEW x,
           scan' = [scan EXCEPT ![s] = x], DOMAIN x = ScanFields, x.phase = "look",
           x.status = "running" => scan[s].status = "running", Going(x),
           RouteIs(plan[s], x), TodoIs(x.todo, Org(s), db), IdsAre(x.ids, Org(s), db)
    PROVE  EInv' /\ Kept(db, db')
<1> DEFINE p == plan[s]
<1>1. /\ Grows(db, db') /\ Kept(db, db')
      /\ \A t \in Keyed : \A org, key : Vacant(db, t, org, key) => Vacant(db', t, org, key)
  BY NothingWritten
<1>2. FoundIs(x, p.org, db') BY DEF FoundIs
<1>3. ScanIs(p, x, db') BY <1>2 DEF ScanIs, Org
<1>4. Lonely(p, x, db', together') BY DEF Lonely
<1>5. Sound(db', together') BY DEF EInv
<1> QED BY <1>1, <1>3, <1>4, <1>5, OneScanMoves

\* No operations and no ids are as they should be.
LEMMA EmptyTodo == \A org, d : TodoIs(<<>>, org, d) /\ IdsAre(<<>>, org, d)
<1>1. IsSeq(<<>>) /\ Len(<<>>) = 0 BY EmptySeq DEF IsSeq
<1>2. DOMAIN <<>> = {} BY <1>1, SeqIs
<1> QED BY <1>1, <1>2 DEF TodoIs, IdsAre

\* A scan with nothing to do is between two statements.
LEMMA IdleIs ==
    ASSUME EInv, NEW s \in Scans, scan[s].todo = <<>>
    PROVE  /\ scan[s].phase = "look" /\ DOMAIN scan[s] = ScanFields
           /\ RouteIs(plan[s], scan[s]) /\ IdsAre(scan[s].ids, Org(s), db)
BY DEF EInv, ScanIs, FoundIs, Org

\* The next step of the scan begins.
LEMMA NextOne ==
    ASSUME EInv, NEW s \in Scans, NextStep(s)
    PROVE  EInv' /\ Kept(db, db')
<1> DEFINE r == scan[s]
           p == plan[s]
<1>1. /\ plan' = plan /\ db' = db /\ together' = together
      /\ r.status = "running" /\ r.todo = <<>> /\ r.step = ""
  BY DEF NextStep
<1>2. /\ r.phase = "look" /\ DOMAIN r = ScanFields
      /\ RouteIs(p, r) /\ IdsAre(r.ids, Org(s), db)
  BY <1>1, IdleIs
<1>3. CASE r.steps = <<>> \/ (p.kind = "full" /\ r.cancelled)
  <2> DEFINE status == IF r.steps = <<>> THEN "completed" ELSE "cancelled"
             x == [r EXCEPT !.status = status]
  <2>1. scan' = [scan EXCEPT ![s] = x] BY <1>3 DEF NextStep
  <2>2. /\ DOMAIN x = ScanFields /\ x.phase = "look" /\ x.status # "running"
        /\ x.todo = <<>> /\ x.step = "" /\ x.ids = r.ids /\ x.steps = r.steps
        /\ x.targets = r.targets
    BY <1>1, <1>2 DEF ScanFields
  <2> HIDE DEF x
  <2>3. RouteIs(p, x) /\ Going(x) BY <1>2, <2>2 DEF RouteIs, Going
  <2>4. TodoIs(x.todo, Org(s), db) BY <2>2, EmptyTodo
  <2>5. IdsAre(x.ids, Org(s), db) BY <1>2, <2>2
  <2> QED BY <1>1, <2>1, <2>2, <2>3, <2>4, <2>5, Onto
<1>4. CASE ~(r.steps = <<>> \/ (p.kind = "full" /\ r.cancelled))
  <2> DEFINE step == Head(r.steps)
             next(v) == [[[[r EXCEPT !.step = step] EXCEPT !.steps = Tail(r.steps)]
                           EXCEPT !.ids = <<>>] EXCEPT !.todo = StepOps(s, step, r.targets, v)]
  <2>1. \E v \in Visits(s) : scan' = [scan EXCEPT ![s] = next(v)]
    BY <1>4 DEF NextStep, EInv
  <2>2. PICK v \in Visits(s) : scan' = [scan EXCEPT ![s] = next(v)] BY <2>1
  <2> DEFINE x == next(v)
  <2>3. /\ DOMAIN x = ScanFields /\ x.phase = "look" /\ x.status = "running"
        /\ x.todo = StepOps(s, step, r.targets, v) /\ x.ids = <<>> /\ x.steps = Tail(r.steps)
        /\ x.targets = r.targets
    BY <1>1, <1>2 DEF ScanFields
  <2>4. scan' = [scan EXCEPT ![s] = x] BY <2>2
  <2> HIDE DEF x
  <2>5. IsSeq(r.steps) /\ Len(r.steps) \in Nat /\ Len(r.steps) # 0 /\ step = r.steps[1]
    BY <1>2, <1>4, SeqIs DEF RouteIs
  <2>6. step \in StepNames /\ (step = "scheduled" => r.targets # <<>>)
    <3>1. 1 \in 1..Len(r.steps) BY <2>5
    <3>2. r.steps[1] \in StepNames /\ (r.steps[1] = "scheduled" => p.kind = "scheduled")
      BY <1>2, <3>1 DEF RouteIs
    <3>3. p.kind = "scheduled" => r.targets # <<>> BY <1>1, <1>2 DEF RouteIs
    <3> HIDE DEF p, r
    <3> QED BY <2>5, <3>2, <3>3
  <2>7. TodoIs(x.todo, Org(s), db)
    <3> HIDE DEF step
    <3>1. IsSeq(r.targets) /\ ToSet(r.targets) \subseteq DOMAIN Bare BY <1>2 DEF RouteIs
    <3>2. Block(StepOps(s, step, r.targets, v)) BY <2>6, <3>1, StepBlock
    <3> QED BY <2>3, <3>2 DEF Block, TodoIs
  <2>8. RouteIs(p, x)
    <3>1. SubSeq(r.steps, 0 + 2, Len(r.steps)) = Tail(r.steps) BY <2>5 DEF IsSeq
    <3> DEFINE y == SubSeq(r.steps, 0 + 2, Len(r.steps))
    <3>2. /\ IsSeq(y) /\ \A i \in 1..Len(y) : i + 0 + 1 \in 1..Len(r.steps) /\ y[i] = r.steps[i + 0 + 1]
      BY <2>5, RestIs
    <3> HIDE DEF y, p, r
    <3>3. \A i \in 1..Len(y) : /\ y[i] \in StepNames
                               /\ y[i] = "scheduled" => p.kind = "scheduled"
      BY <3>2, <1>2 DEF RouteIs
    <3>4. x.steps = y BY <2>3, <3>1 DEF y
    <3> QED BY <1>1, <1>2, <2>3, <3>2, <3>3, <3>4 DEF RouteIs
  <2>9. IdsAre(x.ids, Org(s), db) BY <2>3, EmptyTodo
  <2>10. Going(x) BY <2>3 DEF Going
  <2> QED BY <1>1, <2>3, <2>4, <2>7, <2>8, <2>9, <2>10, Onto
<1> QED BY <1>3, <1>4

\* The members of a list that pass a test, in their order.
LEMMA ThoseAre ==
    ASSUME NEW x, IsSeq(x), NEW P
    PROVE  LET y == FlattenSeq([i \in DOMAIN x |-> IF P[i] THEN <<x[i]>> ELSE <<>>])
           IN IsSeq(y) /\ \A k \in 1..Len(y) : \E i \in 1..Len(x) : y[k] = x[i] /\ P[i]
<1> DEFINE n == Len(x)
           q == [i \in 1..n |-> IF P[i] THEN <<x[i]>> ELSE <<>>]
<1>1. n \in Nat /\ DOMAIN x = 1..n BY SeqIs
<1> HIDE DEF n
<1>2. \A i \in 1..n : IF P[i] THEN q[i] = <<x[i]>> ELSE q[i] = <<>> OBVIOUS
<1>3. IsSeq(<<>>) /\ Len(<<>>) = 0 BY EmptySeq DEF IsSeq
<1>4. \A i \in 1..n : /\ IsSeq(q[i])
                      /\ \A j \in 1..Len(q[i]) : q[i][j] = x[i] /\ P[i]
  <2> HIDE DEF q
  <2>1. TAKE i \in 1..n
  <2>2. CASE P[i]
    <3>1. q[i] = <<x[i]>> BY <1>2, <2>2
    <3>2. IsSeq(q[i]) /\ Len(q[i]) = 1 /\ q[i][1] = x[i] BY <3>1, One1
    <3> QED BY <2>2, <3>2
  <2>3. CASE ~P[i]
    <3>1. q[i] = <<>> BY <1>2, <2>3
    <3> QED BY <1>3, <3>1
  <2> QED BY <2>2, <2>3
<1>5. q \in [1..n -> {q[i] : i \in 1..n}] OBVIOUS
<1>6. FlattenSeq([i \in DOMAIN x |-> IF P[i] THEN <<x[i]>> ELSE <<>>]) = FlattenSeq(q) BY <1>1
<1> HIDE DEF q
<1>7. Drawn(FlattenSeq(q), q, n)
  <2>1. \A i \in 1..n : IsSeq(q[i]) BY <1>4
  <2> QED BY <1>1, <1>5, <2>1, FlattenOf
<1>8. IsSeq(FlattenSeq(q)) /\ \A k \in 1..Len(FlattenSeq(q)) :
         \E i \in 1..n : \E j \in 1..Len(q[i]) : FlattenSeq(q)[k] = q[i][j]
  BY <1>7 DEF Drawn
<1>9. \A k \in 1..Len(FlattenSeq(q)) : \E i \in 1..n : FlattenSeq(q)[k] = x[i] /\ P[i]
  BY <1>4, <1>8
<1> QED BY <1>6, <1>8, <1>9 DEF n

\* The step is cut short.
LEMMA CutOne ==
    ASSUME EInv, NEW s \in Scans, CutShort(s)
    PROVE  EInv' /\ Kept(db, db')
<1> DEFINE r == scan[s]
           z == r.todo
           P == [i \in DOMAIN z |-> z[i].sure]
           y == FlattenSeq([i \in DOMAIN z |-> IF P[i] THEN <<z[i]>> ELSE <<>>])
           x == [r EXCEPT !.todo = y]
<1>1. /\ plan' = plan /\ db' = db /\ together' = together
      /\ r.phase = "look" /\ r.todo # <<>>
  BY DEF CutShort
<1>2. ScanIs(plan[s], r, db) BY DEF EInv
<1>3. Those(z, LAMBDA o : o.sure) = y
  <2>1. [i \in DOMAIN z |-> IF z[i].sure THEN <<z[i]>> ELSE <<>>]
        = [i \in DOMAIN z |-> IF P[i] THEN <<z[i]>> ELSE <<>>]
    OBVIOUS
  <2>2. Those(z, LAMBDA o : o.sure)
        = FlattenSeq([i \in DOMAIN z |-> IF z[i].sure THEN <<z[i]>> ELSE <<>>])
    BY DEF Those
  <2> HIDE DEF P, z
  <2> QED BY <2>1, <2>2
<1>4. scan' = [scan EXCEPT ![s].todo = Those(@, LAMBDA o : o.sure)] BY DEF CutShort
<1>5. scan' = [scan EXCEPT ![s] = x]
  <2>1. scan' = [scan EXCEPT ![s] = [scan[s] EXCEPT !.todo = Those(scan[s].todo, LAMBDA o : o.sure)]]
    BY <1>4
  <2> HIDE DEF y
  <2> QED BY <1>3, <2>1
<1>6. IsSeq(z) /\ \A i \in 1..Len(z) : SoundOp(z[i]) BY <1>2 DEF ScanIs, TodoIs
<1>7. IsSeq(y) /\ \A k \in 1..Len(y) : \E i \in 1..Len(z) : y[k] = z[i] /\ P[i]
  <2> HIDE DEF P, z
  <2> QED BY <1>6, ThoseAre
<1> HIDE DEF y
<1>8. TodoIs(y, Org(s), db)
  <2>1. ASSUME NEW k \in 1..Len(y) PROVE SoundOp(y[k]) /\ ~ShowsAsset(y[k])
    <3>1. PICK i \in 1..Len(z) : y[k] = z[i] /\ P[i] BY <1>7
    <3>2. i \in DOMAIN z BY <1>6, SeqIs
    <3>3. z[i].sure BY <3>1, <3>2
    <3> HIDE DEF z, P
    <3>4. SoundOp(z[i]) BY <1>6
    <3>5. z[i].table \notin LogTables BY <3>3, <3>4 DEF SoundOp
    <3> QED BY <3>1, <3>4, <3>5 DEF ShowsAsset, LogTables
  <2> QED BY <1>7, <2>1 DEF TodoIs
<1>9. DOMAIN r = ScanFields BY <1>2 DEF ScanIs
<1>10. r.status = "running" BY <1>1, <1>2 DEF ScanIs, Going
<1>11. /\ DOMAIN x = ScanFields /\ x.todo = y /\ x.phase = "look" /\ x.status = "running"
       /\ x.steps = r.steps /\ x.step = r.step /\ x.targets = r.targets /\ x.ids = r.ids
  BY <1>1, <1>9, <1>10 DEF ScanFields
<1> HIDE DEF x
<1>12. RouteIs(plan[s], x) /\ Going(x) BY <1>2, <1>10, <1>11 DEF ScanIs, RouteIs, Going
<1>13. IdsAre(x.ids, Org(s), db) BY <1>2, <1>11 DEF ScanIs, Org
<1>14. x.status = "running" => r.status = "running" BY <1>10
<1> QED BY <1>1, <1>5, <1>8, <1>11, <1>12, <1>13, <1>14, Onto

\* A scan's own targets, one of each domain, are targets, and so are the names
\* on record, of which there are finitely many.
LEMMA OwnAndFound ==
    ASSUME EInv, NEW s \in Scans
    PROVE  /\ IsSeq(Distinct(s)) /\ \A k \in 1..Len(Distinct(s)) : Distinct(s)[k] \in DOMAIN Bare
           /\ \A root : IsFiniteSet(OnRecord(s, root)) /\ OnRecord(s, root) \subseteq DOMAIN Bare
<1> DEFINE z == scan[s].targets
           d == db["subdomain"]
           n == Len(d)
           keys == [i \in 1..n |-> d[i].key]
           P == [i \in DOMAIN z |-> \A h \in 1..(i - 1) : Bare[z[h]] # Bare[z[i]]]
           own == FlattenSeq([i \in DOMAIN z |-> IF P[i] THEN <<z[i]>> ELSE <<>>])
<1>1. IsSeq(z) /\ ToSet(z) \subseteq DOMAIN Bare BY DEF EInv, ScanIs, RouteIs
<1>2. "subdomain" \in Keyed /\ RowsAre(db) BY DEF Keyed, Tables, LogTables, EInv, Sound
<1>3. n \in Nat /\ DOMAIN d = 1..n /\ \A i \in 1..n : d[i].key \in DOMAIN Bare
  BY <1>2, TablesAre DEF RowsAre, RowIs
<1>4. /\ \A root : OnRecord(s, root) \subseteq ToSet(keys)
      /\ ToSet(keys) \subseteq DOMAIN Bare /\ IsSeq(keys)
  <2>1. \A root : OnRecord(s, root) \subseteq {d[i].key : i \in DOMAIN d} BY DEF OnRecord, ToSet
  <2> HIDE DEF d, n
  <2>2. keys \in [1..n -> DOMAIN Bare] BY <1>3
  <2>3. IsSeq(keys) /\ DOMAIN keys = 1..n BY <1>3, <2>2, FunctionIsSeq
  <2> QED BY <1>3, <2>1, <2>3 DEF ToSet
<1>5. IsFiniteSet(ToSet(keys)) BY <1>4, SeqsAreFinite
<1>6. Distinct(s) = own
  <2>1. [i \in DOMAIN z |-> IF \A h \in 1..(i - 1) : Bare[z[h]] # Bare[z[i]]
                            THEN <<z[i]>> ELSE <<>>]
        = [i \in DOMAIN z |-> IF P[i] THEN <<z[i]>> ELSE <<>>]
    OBVIOUS
  <2>2. Distinct(s) = FlattenSeq([i \in DOMAIN z |->
                            IF \A h \in 1..(i - 1) : Bare[z[h]] # Bare[z[i]]
                            THEN <<z[i]>> ELSE <<>>])
    BY DEF Distinct
  <2> HIDE DEF P, z
  <2> QED BY <2>1, <2>2
<1>7. IsSeq(own) /\ \A k \in 1..Len(own) : \E i \in 1..Len(z) : own[k] = z[i] /\ P[i]
  <2> HIDE DEF P, z
  <2> QED BY <1>1, ThoseAre
<1> HIDE DEF own, keys, z, P
<1>8. \A k \in 1..Len(own) : own[k] \in DOMAIN Bare
  <2>1. DOMAIN z = 1..Len(z) BY <1>1, SeqIs
  <2> QED BY <1>1, <1>7, <2>1 DEF ToSet
<1>9. \A root : IsFiniteSet(OnRecord(s, root)) BY <1>4, <1>5, FS_Subset
<1> QED BY <1>4, <1>6, <1>7, <1>8, <1>9

\* The targets with the names on record are targets.
LEMMA Expanded ==
    ASSUME EInv, NEW s \in Scans, NEW targets \in expandTargetsWithDiscoveredSubdomains(s)
    PROVE  IsSeq(targets) /\ ToSet(targets) \subseteq DOMAIN Bare
<1> DEFINE own == Distinct(s)
<1>1. /\ IsSeq(own) /\ \A k \in 1..Len(own) : own[k] \in DOMAIN Bare
      /\ \A root : IsFiniteSet(OnRecord(s, root)) /\ OnRecord(s, root) \subseteq DOMAIN Bare
  BY OwnAndFound
<1>2. PICK S : (\E root : S \subseteq OnRecord(s, root)) /\ targets = own \o SetToSeq(S)
  BY DEF expandTargetsWithDiscoveredSubdomains, Expansions
<1> HIDE DEF own
<1>3. IsFiniteSet(S) /\ S \subseteq DOMAIN Bare BY <1>1, <1>2, FS_Subset
<1> DEFINE y == SetToSeq(S)
<1>4. /\ IsSeq(y) /\ Len(y) = Cardinality(S) /\ Cardinality(S) \in Nat
      /\ \A i \in 1..Cardinality(S) : y[i] \in S
  BY <1>3, SetsAsSeqs, InSomeOrder
<1> HIDE DEF y
<1>5. /\ IsSeq(own \o y) /\ Len(own \o y) = Len(own) + Len(y)
      /\ \A i \in 1..(Len(own) + Len(y)) :
            (own \o y)[i] = IF i <= Len(own) THEN own[i] ELSE y[i - Len(own)]
  BY <1>1, <1>4, Joined
<1>6. Len(own) \in Nat /\ Len(y) \in Nat BY <1>1, <1>4, SeqIs
<1>7. \A k \in 1..Len(own \o y) : (own \o y)[k] \in DOMAIN Bare
  <2>1. TAKE k \in 1..Len(own \o y)
  <2>2. CASE k <= Len(own)
    <3>1. k \in 1..Len(own) /\ (own \o y)[k] = own[k] BY <2>2, <1>5, <1>6
    <3> QED BY <3>1, <1>1
  <2>3. CASE ~(k <= Len(own))
    <3>1. k - Len(own) \in 1..Len(y) /\ (own \o y)[k] = y[k - Len(own)] BY <2>3, <1>5, <1>6
    <3> QED BY <3>1, <1>3, <1>4
  <2> QED BY <2>2, <2>3
<1>8. targets = own \o y BY <1>2 DEF y
<1>9. DOMAIN targets = 1..Len(targets) BY <1>5, <1>8, SeqIs
<1> QED BY <1>5, <1>7, <1>8, <1>9 DEF ToSet

\* The step ends.
LEMMA EndOne ==
    ASSUME EInv, NEW s \in Scans, EndStep(s)
    PROVE  EInv' /\ Kept(db, db')
<1> DEFINE r == scan[s]
           p == plan[s]
<1>1. plan' = plan /\ db' = db /\ together' = together /\ r.todo = <<>> BY DEF EndStep
<1>2. /\ r.phase = "look" /\ DOMAIN r = ScanFields
      /\ RouteIs(p, r) /\ IdsAre(r.ids, Org(s), db)
  BY <1>1, IdleIs
<1>3. PICK targets \in IF p.kind = "full" /\ r.step = "subdomain"
                       THEN expandTargetsWithDiscoveredSubdomains(s) ELSE {r.targets} :
         scan' = [scan EXCEPT ![s].step = "", ![s].targets = targets]
  BY DEF EndStep
<1> DEFINE x == [[r EXCEPT !.step = ""] EXCEPT !.targets = targets]
<1>4. scan' = [scan EXCEPT ![s] = x] BY <1>3 DEF EInv
<1>5. /\ DOMAIN x = ScanFields /\ x.todo = <<>> /\ x.phase = "look" /\ x.status = r.status
      /\ x.steps = r.steps /\ x.step = "" /\ x.targets = targets /\ x.ids = r.ids
  BY <1>1, <1>2 DEF ScanFields
<1> HIDE DEF x
<1>6. RouteIs(p, x)
  <2>1. CASE p.kind = "full" /\ r.step = "subdomain"
    <3>1. targets \in expandTargetsWithDiscoveredSubdomains(s) BY <1>3, <2>1
    <3>2. IsSeq(targets) /\ ToSet(targets) \subseteq DOMAIN Bare BY <3>1, Expanded
    <3> QED BY <1>2, <1>5, <2>1, <3>2 DEF RouteIs
  <2>2. CASE ~(p.kind = "full" /\ r.step = "subdomain")
    <3>1. targets = r.targets BY <1>3, <2>2
    <3> QED BY <1>2, <1>5, <3>1 DEF RouteIs
  <2> QED BY <2>1, <2>2
<1>7. Going(x) BY <1>5 DEF Going
<1>8. TodoIs(x.todo, Org(s), db) BY <1>5, EmptyTodo
<1>9. IdsAre(x.ids, Org(s), db) BY <1>2, <1>5
<1>10. x.status = "running" => r.status = "running" BY <1>5
<1> QED BY <1>1, <1>4, <1>5, <1>6, <1>7, <1>8, <1>9, <1>10, Onto

\* FirstOrCreate looks.
LEMMA LookUpOne ==
    ASSUME EInv, NEW s \in Scans, LookUp(s)
    PROVE  EInv' /\ Kept(db, db')
<1> DEFINE r == scan[s]
           p == plan[s]
           o == r.todo[1]
<1>1. plan' = plan /\ db' = db /\ together' = together /\ r.todo # <<>> BY DEF LookUp, Busy
<1>2. ScanIs(p, r, db) /\ RowsAre(db) /\ Sound(db, together) BY DEF EInv, Sound
<1>3. Now1(s) = o /\ r.status = "running" /\ SoundOp(o) /\ IsSeq(r.todo) /\ 1 \in 1..Len(r.todo)
  BY <1>1, <1>2, FirstOp DEF Now1
<1>4. o.table \in Keyed /\ o.do \in {"upsert", "find"}
  <2>1. o.table \notin LogTables /\ o.do # "shots" BY <1>3 DEF LookUp
  <2> QED BY <2>1, <1>3 DEF SoundOp, Keyed
<1>5. PICK found \in IF LinkOf(s, o) = Dangling /\ o.table = "tech" THEN {NoRow}
                     ELSE FirstOf(RowsOf(o.table, Org(s), o.key)) :
         IF o.do = "find" THEN Onward(s, IF found # NoRow THEN o.spare ELSE 0, found)
         ELSE scan' = [scan EXCEPT ![s].phase = "write", ![s].found = found]
  BY <1>3 DEF LookUp
<1>12. \/ LinkOf(s, o) = Dangling /\ o.table = "tech" /\ found = NoRow
       \/ found = NoRow /\ Vacant(db, o.table, Org(s), o.key)
       \/ found # NoRow /\ RowAt(db, o.table, found, Org(s), o.key)
  <2>1. CASE LinkOf(s, o) = Dangling /\ o.table = "tech" BY <1>5, <2>1
  <2>2. CASE ~(LinkOf(s, o) = Dangling /\ o.table = "tech")
    <3>1. found \in FirstOf(RowsOf(o.table, Org(s), o.key)) BY <1>5, <2>2
    <3> HIDE DEF r, o
    <3> QED BY <1>2, <1>4, <3>1, LookupIs
  <2> QED BY <2>1, <2>2
<1>6. found = NoRow \/ RowAt(db, o.table, found, Org(s), o.key) BY <1>12
<1>7. /\ found = NoRow => \/ o.table = "tech" /\ LinkIn(r, o) = Dangling
                          \/ Vacant(db, o.table, Org(s), o.key)
  <2>1. LinkOf(s, o) = LinkIn(r, o) BY DEF LinkOf, LinkIn
  <2>2. o.table \in Keyed /\ (RowAt(db, o.table, found, Org(s), o.key) => found # NoRow)
    BY <1>4 DEF RowAt, NoRow
  <2> QED BY <1>12, <2>1, <2>2
<1>8. IF o.do = "find" THEN Onward(s, IF found # NoRow THEN o.spare ELSE 0, found)
      ELSE scan' = [scan EXCEPT ![s].phase = "write", ![s].found = found]
  BY <1>5
<1>9. /\ Grows(db, db') /\ Kept(db, db')
      /\ \A t \in Keyed : \A org, key : Vacant(db, t, org, key) => Vacant(db', t, org, key)
  BY <1>1, NothingWritten
<1>10. CASE o.do = "find"
  <2> DEFINE k == IF found # NoRow THEN o.spare ELSE 0
  <2>1. Onward(s, k, found) BY <1>8, <1>10
  <2>2. k \in {0, o.skip, o.spare} OBVIOUS
  <2>3. found \in {NoRow, Dangling} \/ RowAt(db', o.table, found, Org(s), o.key) BY <1>1, <1>6
  <2>4. k = o.skip \/ o.do # "upsert" \/ HasRow(db', o.table, Org(s), o.key) BY <1>10
  <2> HIDE DEF k
  <2>5. EInv' BY <1>1, <1>2, <1>4, <1>9, <2>1, <2>2, <2>3, <2>4, OnwardMoves
  <2> QED BY <1>9, <2>5
<1>11. CASE o.do # "find"
  <2> DEFINE x == [[r EXCEPT !.phase = "write"] EXCEPT !.found = found]
  <2>1. scan' = [scan EXCEPT ![s] = x] BY <1>8, <1>11 DEF EInv
  <2>2. DOMAIN r = ScanFields BY <1>2 DEF ScanIs
  <2>3. /\ DOMAIN x = ScanFields /\ x.todo = r.todo /\ x.phase = "write" /\ x.status = "running"
        /\ x.steps = r.steps /\ x.step = r.step /\ x.targets = r.targets /\ x.ids = r.ids
        /\ x.found = found
    BY <1>3, <2>2 DEF ScanFields
  <2> HIDE DEF x
  <2>4. p.org = Org(s) BY DEF Org
  <2>5. FoundIs(x, p.org, db') BY <1>1, <1>4, <1>6, <1>11, <2>3, <2>4 DEF FoundIs
  <2>6. ScanIs(p, x, db') BY <1>1, <1>2, <2>3, <2>5 DEF ScanIs, Going, RouteIs
  <2>7. Lonely(p, x, db', together')
    BY <1>1, <1>7, <2>3, <2>4 DEF Lonely, LinkIn
  <2>8. EInv' BY <1>1, <1>2, <1>3, <1>9, <2>1, <2>6, <2>7, OneScanMoves
  <2> QED BY <1>9, <2>8
<1> QED BY <1>10, <1>11

\* FirstOrCreate inserts what it did not find.
LEMMA CreateOne ==
    ASSUME EInv, NEW s \in Scans, CreateRow(s)
    PROVE  EInv' /\ Kept(db, db')
<1> DEFINE r == scan[s]
           p == plan[s]
           o == r.todo[1]
           row == NewRow(s, o)
<1>1. plan' = plan /\ together' = together /\ r.todo # <<>> BY DEF CreateRow, Busy
<1>2. ScanIs(p, r, db) /\ RowsAre(db) /\ Sound(db, together) BY DEF EInv, Sound
<1>3. /\ Now1(s) = o /\ SoundOp(o)
      /\ ShowsAsset(o) => Shown(db, p.org, o)
  BY <1>1, <1>2, FirstOp DEF Now1
<1>4. o.table \in LogTables \/ o.do = "shots" BY <1>3 DEF CreateRow
<1>5. db' = IF o.do = "shots" THEN db ELSE [db EXCEPT ![o.table] = @ \cup {row}]
  BY <1>3 DEF CreateRow
<1>6. Onward(s, 0, NoRow) BY DEF CreateRow
<1>7. o.do # "upsert" /\ o.do \in {"create", "shots"} BY <1>3, <1>4 DEF SoundOp
<1>8. /\ Grows(db, db') /\ Kept(db, db') /\ Sound(db', together)
      /\ \A t \in Keyed : \A org, key : Vacant(db, t, org, key) => Vacant(db', t, org, key) \/ org = Org(s)
  <2>1. CASE o.do = "shots" BY <1>2, <1>5, <2>1, NothingWritten
  <2>2. CASE o.do # "shots"
    <3>1. o.table \in LogTables BY <1>4, <2>2
    <3>2. o.table = "result" => BackedBy(db, row)
      <4> SUFFICES ASSUME o.table = "result", o.key[2] \in DOMAIN Asset
                   PROVE  \E a \in ToSet(db[Asset[o.key[2]]]) : a.org = Org(s) /\ a.key = o.key[3]
        BY DEF BackedBy, NewRow
      <4> DEFINE t == Asset[o.key[2]]
      <4>1. Shown(db, p.org, o) BY <1>3 DEF ShowsAsset
      <4>2. PICK i \in 1..Len(db[t]) : RowAt(db, t, i, p.org, o.key[3]) BY <4>1 DEF Shown
      <4>3. t \in Keyed BY AssetTables
      <4> HIDE DEF t
      <4>4. i \in DOMAIN db[t] BY <4>2, <4>3, <1>2, TablesAre
      <4>5. db[t][i].org = Org(s) /\ db[t][i].key = o.key[3] BY <4>2 DEF RowAt, Org
      <4> QED BY <4>4, <4>5 DEF t, ToSet
    <3> HIDE DEF row
    <3>3. Logged(db, db', o.table, row)
      <4>1. o.table \in Tables /\ DOMAIN db = Tables BY <3>1, <1>2 DEF RowsAre, Tables, LogTables
      <4>2. db' = [db EXCEPT ![o.table] = @ \cup {row}] BY <1>5, <2>2
      <4> HIDE DEF o
      <4> QED BY <4>1, <4>2 DEF Logged
    <3>4. Sound(db', together) /\ Grows(db, db') /\ \A u \in Keyed : db'[u] = db[u]
      <4> HIDE DEF o
      <4> QED BY <1>2, <3>1, <3>2, <3>3, LogSound
    <3>5. Kept(db, db') BY <3>4, SameKeeps
    <3>6. \A t \in Keyed : \A org, key : Vacant(db, t, org, key) => Vacant(db', t, org, key)
      BY <3>4 DEF Vacant
    <3> QED BY <3>4, <3>5, <3>6
  <2> QED BY <2>1, <2>2
<1> HIDE DEF row
<1>9. 0 \in {0, o.skip, o.spare} OBVIOUS
<1>10. NoRow \in {NoRow, Dangling} OBVIOUS
<1>11. EInv' BY <1>1, <1>2, <1>6, <1>7, <1>8, <1>9, <1>10, OnwardMoves
<1> QED BY <1>8, <1>11

\* A new row of a scan's organization does not fill what is vacant elsewhere,
\* and an edited row fills nothing.
LEMMA AppendVacant ==
    ASSUME RowsAre(db), NEW t \in Keyed, NEW r, NEW e, Inserted(db, e, t, r)
    PROVE  \A u \in Keyed : \A org, key :
              Vacant(db, u, org, key) => Vacant(e, u, org, key) \/ org = r.org
<1> SUFFICES ASSUME NEW u \in Keyed, NEW org, NEW key, Vacant(db, u, org, key), org # r.org
             PROVE  Vacant(e, u, org, key)
  OBVIOUS
<1>1. CASE u # t
  <2>1. e[u] = db[u] BY <1>1 DEF Inserted, Keyed
  <2> QED BY <2>1 DEF Vacant
<1>2. CASE u = t
  <2>1. Len(db[t]) \in Nat /\ DOMAIN db[t] = 1..Len(db[t]) BY TablesAre
  <2>2. DOMAIN e[t] = 1..(Len(db[t]) + 1) BY SeqIs DEF Inserted
  <2>3. ASSUME NEW i \in DOMAIN e[t] PROVE e[t][i].gone \/ e[t][i].org # org \/ e[t][i].key # key
    <3>1. CASE i = Len(db[t]) + 1 BY <3>1 DEF Inserted
    <3>2. CASE i # Len(db[t]) + 1
      <4>1. i \in 1..Len(db[t]) BY <2>1, <2>2, <3>2
      <4>2. e[t][i] = db[t][i] BY <4>1 DEF Inserted
      <4> QED BY <4>1, <4>2, <2>1, <1>2 DEF Vacant
    <3> QED BY <3>1, <3>2
  <2> QED BY <2>3, <1>2 DEF Vacant
<1> QED BY <1>1, <1>2

\* An edit leaves a key free that was free.
LEMMA EditVacant ==
    ASSUME RowsAre(db), NEW t \in Keyed, NEW k, NEW r, NEW e, Edited(db, e, t, k, r)
    PROVE  \A u \in Keyed : \A org, key : Vacant(db, u, org, key) => Vacant(e, u, org, key)
<1> SUFFICES ASSUME NEW u \in Keyed, NEW org, NEW key, Vacant(db, u, org, key)
             PROVE  Vacant(e, u, org, key)
  OBVIOUS
<1>1. CASE u # t
  <2>1. e[u] = db[u] BY <1>1 DEF Edited, Keyed
  <2> QED BY <2>1 DEF Vacant
<1>2. CASE u = t
  <2>1. DOMAIN db[t] = 1..Len(db[t]) BY TablesAre
  <2>2. DOMAIN e[t] = 1..Len(db[t]) BY SeqIs DEF Edited
  <2>3. ASSUME NEW i \in DOMAIN e[t] PROVE e[t][i].gone \/ e[t][i].org # org \/ e[t][i].key # key
    <3>1. e[t][i] = IF i = k THEN r ELSE db[t][i] BY <2>2 DEF Edited
    <3>2. db[t][i].gone \/ db[t][i].org # org \/ db[t][i].key # key BY <2>1, <2>2, <1>2 DEF Vacant
    <3>3. r.org = db[t][k].org /\ r.key = db[t][k].key /\ (db[t][k].gone => r.gone) BY DEF Edited
    <3> QED BY <3>1, <3>2, <3>3
  <2> QED BY <2>3, <1>2 DEF Vacant
<1> QED BY <1>1, <1>2

\* A row changes and no scan does.
LEMMA UserEdits ==
    ASSUME EInv, plan' = plan, scan' = scan, together' = together, NEW t \in Keyed,
           NEW k \in DOMAIN db[t], NEW r, db' = [db EXCEPT ![t] = [@ EXCEPT ![k] = r]],
           r.org = db[t][k].org, r.key = db[t][k].key, db[t][k].gone => r.gone,
           RowIs(t, r), r.link = db[t][k].link,
           r.status = db[t][k].status \/ db[t][k].status = "open"
    PROVE  EInv' /\ Kept(db, db')
<1>1. RowsAre(db) /\ Sound(db, together) BY DEF EInv, Sound
<1>2. Edited(db, db', t, k, r) BY <1>1, EditIs
<1>3. Grows(db, db') BY <1>1, <1>2, EditGrows
<1>4. Kept(db, db') BY <1>1, <1>2, EditKeeps
<1>5. t \in LinkedTables => LinkOk(t, r, db)
  <2>1. t \in LinkedTables => LinkOk(t, db[t][k], db) BY <1>1 DEF Sound
  <2> QED BY <2>1 DEF LinkOk
<1>6. Sound(db', together) BY <1>1, <1>2, <1>3, <1>5, EditSound
<1>7. \A u \in Keyed : \A org, key : Vacant(db, u, org, key) => Vacant(db', u, org, key)
  BY <1>1, <1>2, EditVacant
<1>8. ASSUME NEW s \in Scans
      PROVE  ScanIs(plan[s], scan[s], db') /\ Lonely(plan[s], scan[s], db', together)
  <2>1. ScanIs(plan[s], scan[s], db) /\ Lonely(plan[s], scan[s], db, together) BY DEF EInv
  <2>2. ScanIs(plan[s], scan[s], db') BY <2>1, <1>3, ScanStays
  <2>3. ASSUME scan[s].phase = "write" PROVE scan[s].todo[1].table \in Keyed
    <3>1. scan[s].todo # <<>> /\ scan[s].todo[1].do = "upsert" BY <2>1, <2>3 DEF ScanIs, FoundIs
    <3> QED BY <3>1, <2>1, FirstOp DEF SoundOp, Keyed
  <2> QED BY <2>1, <2>2, <2>3, <1>7 DEF Lonely
<1>9. Apart' BY DEF EInv, Apart, Org
<1>10. (\A s \in Scans : ScanIs(plan[s], scan[s], db) /\ Lonely(plan[s], scan[s], db, together))'
  BY <1>8
<1> QED BY <1>4, <1>6, <1>9, <1>10 DEF EInv

\* A user deletes subdomains.
LEMMA DeleteOne ==
    ASSUME EInv, BulkDeleteSubdomains
    PROVE  EInv' /\ Kept(db, db')
<1>1. PICK i \in DOMAIN db["subdomain"] :
         /\ db' = [db EXCEPT !["subdomain"][i].gone = TRUE]
         /\ plan' = plan /\ scan' = scan /\ together' = together
  BY DEF BulkDeleteSubdomains
<1> DEFINE d == db["subdomain"]
           r == [d[i] EXCEPT !.gone = TRUE]
<1>2. "subdomain" \in Keyed BY DEF Keyed, Tables, LogTables
<1>3. i \in 1..Len(d) BY <1>2, TablesAre DEF EInv, Sound
<1>4. RowIs("subdomain", d[i]) BY <1>2, <1>3 DEF EInv, Sound, RowsAre
<1>5. /\ RowIs("subdomain", r) /\ r.org = d[i].org /\ r.key = d[i].key /\ r.link = d[i].link
      /\ r.status = d[i].status /\ r.gone
  BY <1>4 DEF RowIs, RowFields
<1>6. db' = [db EXCEPT !["subdomain"] = [@ EXCEPT ![i] = r]] BY <1>1
<1> HIDE DEF r
<1> QED BY <1>1, <1>2, <1>5, <1>6, UserEdits

\* A user ignores findings.
LEMMA IgnoreOne ==
    ASSUME EInv, BulkIgnoreFindings
    PROVE  EInv' /\ Kept(db, db')
<1>1. PICK i \in DOMAIN db["finding"] :
         /\ db["finding"][i].status = "open"
         /\ db' = [db EXCEPT !["finding"][i].status = "false_positive"]
         /\ plan' = plan /\ scan' = scan /\ together' = together
  BY DEF BulkIgnoreFindings
<1> DEFINE d == db["finding"]
           r == [d[i] EXCEPT !.status = "false_positive"]
<1>2. "finding" \in Keyed BY DEF Keyed, Tables, LogTables
<1>3. i \in 1..Len(d) BY <1>2, TablesAre DEF EInv, Sound
<1>4. RowIs("finding", d[i]) BY <1>2, <1>3 DEF EInv, Sound, RowsAre
<1>5. /\ RowIs("finding", r) /\ r.org = d[i].org /\ r.key = d[i].key /\ r.link = d[i].link
      /\ d[i].gone => r.gone
  BY <1>4 DEF RowIs, RowFields
<1>6. db' = [db EXCEPT !["finding"] = [@ EXCEPT ![i] = r]] BY <1>1
<1> HIDE DEF r
<1> QED BY <1>1, <1>2, <1>5, <1>6, UserEdits

\* A scan writes a row of a log, or a row it found again.
LEMMA WriteOne ==
    ASSUME EInv, NEW s \in Scans, WriteRow(s)
    PROVE  EInv' /\ Kept(db, db')
<1> DEFINE r == scan[s]
           p == plan[s]
           o == r.todo[1]
           t == o.table
           link == LinkOf(s, o)
           found == r.found
<1>1. plan' = plan /\ together' = together /\ r.todo # <<>> /\ r.phase = "write"
  BY DEF WriteRow, Busy
<1>2. ScanIs(p, r, db) /\ RowsAre(db) /\ Sound(db, together) /\ Lonely(p, r, db, together)
  BY DEF EInv, Sound
<1>3. Now1(s) = o /\ SoundOp(o) BY <1>1, <1>2, FirstOp DEF Now1
<1>4. /\ o.do = "upsert" /\ t \in Keyed
      /\ found = NoRow \/ RowAt(db, t, found, Org(s), o.key)
  <2>1. o.do = "upsert" /\ (found = NoRow \/ RowAt(db, t, found, p.org, o.key))
    BY <1>1, <1>2 DEF ScanIs, FoundIs
  <2> QED BY <2>1, <1>3 DEF SoundOp, Keyed, Org
<1>5. 0 \in {0, o.skip, o.spare} OBVIOUS
<1>6. CASE found # NoRow
  <2>1. /\ db' = IF t = "service" /\ r.step = "port" /\ link # NoRow /\ ~db["service"][found].gone
                 THEN [db EXCEPT !["service"][found].link = link] ELSE db
        /\ Onward(s, 0, found)
    BY <1>3, <1>6 DEF WriteRow
  <2>2. RowAt(db, t, found, Org(s), o.key) BY <1>4, <1>6
  <2>3. /\ Grows(db, db') /\ Kept(db, db') /\ Sound(db', together)
        /\ \A u \in Keyed : \A org, key : Vacant(db, u, org, key) => Vacant(db', u, org, key)
    <3>1. CASE t = "service" /\ r.step = "port" /\ link # NoRow /\ ~db["service"][found].gone
      <4> DEFINE d == db["service"]
                 q == [d[found] EXCEPT !.link = link]
      <4>1. found \in 1..Len(d) /\ d[found].org = Org(s) /\ d[found].key = o.key
        BY <2>2, <3>1 DEF RowAt
      <4>2. found \in DOMAIN d /\ RowIs("service", d[found])
        BY <1>2, <1>4, <3>1, <4>1, TablesAre DEF RowsAre
      <4>3. link = LinkIn(r, o) BY DEF LinkOf, LinkIn
      <4>4. LinkIn(r, o) \in Nat \cup {Dangling} BY <1>2, LinkIs
      <4>5. /\ RowIs("service", q) /\ q.org = d[found].org /\ q.key = d[found].key
            /\ q.link = LinkIn(r, o) /\ q.gone = d[found].gone /\ q.status = d[found].status
        BY <4>2, <4>3, <4>4 DEF RowIs, RowFields
      <4>6. db' = [db EXCEPT !["service"] = [@ EXCEPT ![found] = q]] BY <2>1, <3>1
      <4>7. LinkOk("service", q, db)
        <5>1. o.table \in LinkedTables BY <3>1 DEF LinkedTables
        <5>2. q.org = p.org /\ q.key = o.key BY <4>1, <4>5 DEF Org
        <5> HIDE DEF q
        <5>3. LinkOk(o.table, q, db) BY <5>1, <5>2, <4>5, <1>2, LinkFits
        <5> QED BY <5>3, <3>1
      <4> HIDE DEF q
      <4>8. "service" \in Keyed BY <1>4, <3>1
      <4>9. Edited(db, db', "service", found, q) BY <1>2, <4>2, <4>5, <4>6, <4>8, EditIs
      <4>10. Grows(db, db') BY <1>2, <4>8, <4>9, EditGrows
      <4>11. Kept(db, db') BY <1>2, <4>5, <4>8, <4>9, EditKeeps
      <4>12. Sound(db', together) BY <1>2, <4>5, <4>7, <4>8, <4>9, <4>10, EditSound
      <4>13. \A u \in Keyed : \A org, key : Vacant(db, u, org, key) => Vacant(db', u, org, key)
        BY <1>2, <4>8, <4>9, EditVacant
      <4> QED BY <4>10, <4>11, <4>12, <4>13
    <3>2. CASE ~(t = "service" /\ r.step = "port" /\ link # NoRow /\ ~db["service"][found].gone)
      <4>1. db' = db BY <2>1, <3>2
      <4> QED BY <4>1, <1>2, NothingWritten
    <3> QED BY <3>1, <3>2
  <2>4. RowAt(db', t, found, Org(s), o.key) BY <1>4, <2>2, <2>3, RowStays
  <2>5. HasRow(db', t, Org(s), o.key) BY <2>4 DEF HasRow
  <2>6. EInv' BY <1>1, <1>4, <1>5, <2>1, <2>3, <2>4, <2>5, OnwardMoves
  <2> QED BY <2>3, <2>6
<1>7. CASE found = NoRow /\ ~Refused(s, o)
  <2> DEFINE n == Len(db[t])
             row == NewRow(s, o)
  <2>1. db' = [db EXCEPT ![t] = Append(@, row)] /\ Onward(s, 0, n + 1)
    BY <1>3, <1>7 DEF WriteRow
  <2>2. /\ DOMAIN row = RowFields /\ row.org = Org(s) /\ row.key = o.key /\ row.gone = FALSE
        /\ row.link = LinkIn(r, o)
    BY DEF NewRow, RowFields, LinkOf, LinkIn
  <2>3. RowIs(t, row)
    <3>1. LinkIn(r, o) \in Nat \cup {Dangling} BY <1>2, LinkIs
    <3>2. (t = "subdomain" => o.key \in DOMAIN Bare) /\ (t = "finding" => IsReport(o.key))
      BY <1>3 DEF SoundOp
    <3> HIDE DEF row
    <3> QED BY <2>2, <3>1, <3>2 DEF RowIs
  <2>4. t \in LinkedTables => LinkOk(t, row, db)
    <3>1. row.org = p.org BY <2>2 DEF Org
    <3> HIDE DEF row
    <3> QED BY <1>2, <2>2, <3>1, LinkFits
  <2>5. ASSUME NEW i \in 1..n
        PROVE  MayMeet(t, row, db[t][i], together) /\ MayMeet(t, db[t][i], row, together)
    <3>1. DOMAIN db[t] = 1..n BY <1>2, <1>4, TablesAre
    <3>2. CASE t \in UniqueTables
      <4>1. db[t][i].key # o.key BY <1>7, <3>1, <3>2 DEF Refused, ToSet
      <4> HIDE DEF row
      <4> QED BY <4>1, <2>2 DEF MayMeet
    <3>3. CASE t \notin UniqueTables
      <4>1. \/ p.org \in together \/ (t = "tech" /\ LinkIn(r, o) = Dangling)
            \/ Vacant(db, t, p.org, o.key)
        BY <1>1, <1>2, <1>7, <3>3 DEF Lonely
      <4>2. p.org = Org(s) BY DEF Org
      <4> HIDE DEF row
      <4>3. CASE p.org \in together
        <5>1. row.org \in together BY <4>2, <4>3, <2>2
        <5>2. db[t][i].org # row.org \/ db[t][i].org \in together BY <5>1
        <5> QED BY <5>1, <5>2, <3>3 DEF MayMeet
      <4>4. CASE t = "tech" /\ LinkIn(r, o) = Dangling BY <4>4, <2>2 DEF MayMeet
      <4>5. CASE Vacant(db, t, p.org, o.key)
        <5>1. db[t][i].gone \/ db[t][i].org # p.org \/ db[t][i].key # o.key
          BY <4>5, <3>1 DEF Vacant
        <5> QED BY <5>1, <4>2, <2>2 DEF MayMeet
      <4> QED BY <4>1, <4>3, <4>4, <4>5
    <3> QED BY <3>2, <3>3
  <2> HIDE DEF row
  <2>6. Inserted(db, db', t, row) BY <1>2, <1>4, <2>1, AppendIs
  <2>7. Grows(db, db') BY <1>2, <1>4, <2>6, AppendGrows
  <2>8. Kept(db, db') BY <1>2, <1>4, <2>6, AppendKeeps
  <2>9. Sound(db', together) BY <1>2, <1>4, <2>3, <2>4, <2>5, <2>6, <2>7, AppendSound
  <2>10. \A u \in Keyed : \A org, key :
            Vacant(db, u, org, key) => Vacant(db', u, org, key) \/ org = Org(s)
    BY <1>2, <1>4, <2>2, <2>6, AppendVacant
  <2>11. RowAt(db', t, n + 1, Org(s), o.key)
    <3>1. n \in Nat /\ Len(db'[t]) = n + 1 /\ db'[t][n + 1] = row BY <2>6 DEF Inserted
    <3>2. row.org = Org(s) /\ row.key = o.key BY <2>2
    <3> HIDE DEF n
    <3>3. n + 1 \in 1..Len(db'[t]) BY <3>1, OneMore, Zenon
    <3> QED BY <3>1, <3>2, <3>3 DEF RowAt
  <2>12. HasRow(db', t, Org(s), o.key) BY <2>11 DEF HasRow
  <2> HIDE DEF n
  <2>13. EInv' BY <1>1, <1>4, <1>5, <2>1, <2>7, <2>9, <2>10, <2>11, <2>12, OnwardMoves
  <2> QED BY <2>8, <2>13
<1>8. CASE found = NoRow /\ Refused(s, o)
  <2> DEFINE id == IF t = "service" /\ r.step = "web" THEN Dangling ELSE NoRow
  <2>1. db' = db /\ Onward(s, o.skip, id) BY <1>3, <1>8 DEF WriteRow, Fails
  <2>2. /\ Grows(db, db') /\ Kept(db, db')
        /\ \A u \in Keyed : \A org, key : Vacant(db, u, org, key) => Vacant(db', u, org, key)
    BY <2>1, NothingWritten
  <2>3. Sound(db', together) BY <1>2, <2>1
  <2>4. id \in {NoRow, Dangling} OBVIOUS
  <2>5. o.skip \in {0, o.skip, o.spare} OBVIOUS
  <2> HIDE DEF id
  <2>6. EInv' BY <1>1, <1>4, <2>1, <2>2, <2>3, <2>4, <2>5, OnwardMoves
  <2> QED BY <2>2, <2>6
<1> QED BY <1>6, <1>7, <1>8

-----------------------------------------------------------------------------
\* Findings of two visits of one page.

\* Nothing is lost in either: every probe says the same.
Calm(v) == v.lost = {} /\ v.missed = {}

\* What two calm visits probe is the same.
LEMMA ProbesAgree ==
    ASSUME NEW page, NEW v, NEW w, Calm(v), Calm(w)
    PROVE  /\ \A c : Fetched(v, c) /\ Fetched(w, c)
           /\ \A c : Hits(page, v, c) = Hits(page, w, c)
           /\ \A c, fact : Said(page, v, c, fact) <=> Said(page, w, c, fact)
           /\ \A c, title, sev : First(page, v, c, title, sev) = First(page, w, c, title, sev)
           /\ \A c, title, sev : Every(page, v, c, title, sev) = Every(page, w, c, title, sev)
<1>1. \A c : Fetched(v, c) /\ Fetched(w, c) BY DEF Fetched, Calm
<1>2. \A c : Hits(page, v, c) = Hits(page, w, c) BY <1>1 DEF Hits, Calm
<1>3. \A c, fact : Said(page, v, c, fact) <=> Said(page, w, c, fact) BY <1>1 DEF Said
<1>4. \A c, title, sev : First(page, v, c, title, sev) = First(page, w, c, title, sev)
  BY <1>2 DEF First, One
<1>5. \A c, title, sev : Every(page, v, c, title, sev) = Every(page, w, c, title, sev)
  BY <1>2 DEF Every
<1> QED BY <1>1, <1>2, <1>3, <1>4, <1>5

\* So does every check but two.
LEMMA ChecksAgree ==
    ASSUME NEW page, NEW v, NEW w, Calm(v), Calm(w)
    PROVE  /\ checkCORS(page, v) = checkCORS(page, w)
           /\ checkSensitivePaths(page, v) = checkSensitivePaths(page, w)
           /\ checkHTTPMethods(page, v) = checkHTTPMethods(page, w)
           /\ checkRedirect(page, v) = checkRedirect(page, w)
           /\ checkCORSWildcardCredentials(page, v) = checkCORSWildcardCredentials(page, w)
           /\ checkHTTPRequestSmuggling(page, v) = checkHTTPRequestSmuggling(page, w)
           /\ checkSSTI(page, v) = checkSSTI(page, w)
           /\ checkJWT(page, v) = checkJWT(page, w)
           /\ checkGraphQLIntrospection(page, v) = checkGraphQLIntrospection(page, w)
           /\ checkOpenRedirect(page, v) = checkOpenRedirect(page, w)
           /\ checkSSRFDNSRebinding(page, v) = checkSSRFDNSRebinding(page, w)
           /\ checkPathTraversal(page, v) = checkPathTraversal(page, w)
           /\ checkPrototypePollution(page, v) = checkPrototypePollution(page, w)
           /\ checkHTTP2Downgrade(page, v) = checkHTTP2Downgrade(page, w)
           /\ checkCachePoisoning(page, v) = checkCachePoisoning(page, w)
           /\ checkHostHeaderInjection(page, v) = checkHostHeaderInjection(page, w)
           /\ checkMassAssignmentIDOR(page, v) = checkMassAssignmentIDOR(page, w)
           /\ checkCSRF(page, v) = checkCSRF(page, w)
           /\ checkRateLimiting(page, v) = checkRateLimiting(page, w)
           /\ checkDefaultCredentials(page, v) = checkDefaultCredentials(page, w)
           /\ checkDirectoryListing(page, v) = checkDirectoryListing(page, w)
           /\ checkWebSocketEndpoints(page, v) = checkWebSocketEndpoints(page, w)
           /\ checkSecretsInResponse(page, v) = checkSecretsInResponse(page, w)
           /\ checkSQLInjection(page, v) = checkSQLInjection(page, w)
           /\ checkCommandInjection(page, v) = checkCommandInjection(page, w)
           /\ checkCRLFInjection(page, v) = checkCRLFInjection(page, w)
           /\ checkXXE(page, v) = checkXXE(page, w)
           /\ checkSecurityDisclosurePolicy(page, v) = checkSecurityDisclosurePolicy(page, w)
           /\ checkMIMEConfusion(page, v) = checkMIMEConfusion(page, w)
           /\ checkSubresourceIntegrity(page, v) = checkSubresourceIntegrity(page, w)
           /\ checkOAuthOIDC(page, v) = checkOAuthOIDC(page, w)
           /\ checkHTTP2RapidReset(page, v) = checkHTTP2RapidReset(page, w)
           /\ checkSubdomainTakeoverBody(page, v) = checkSubdomainTakeoverBody(page, w)
           /\ checkTimingBlindSQLi(page, v) = checkTimingBlindSQLi(page, w)
           /\ checkAPIVersioning(page, v) = checkAPIVersioning(page, w)
<1>1. \A c : Fetched(v, c) /\ Fetched(w, c) BY ProbesAgree
<1>2. \A c : Hits(page, v, c) = Hits(page, w, c) BY ProbesAgree
<1>3. \A c, fact : Said(page, v, c, fact) <=> Said(page, w, c, fact) BY ProbesAgree
<1>4. \A c, title, sev : First(page, v, c, title, sev) = First(page, w, c, title, sev)
  BY ProbesAgree
<1>5. \A c, title, sev : Every(page, v, c, title, sev) = Every(page, w, c, title, sev)
  BY ProbesAgree
<1>6. checkCORS(page, v) = checkCORS(page, w) BY <1>3 DEF checkCORS, One
<1>7. checkSensitivePaths(page, v) = checkSensitivePaths(page, w) BY <1>5 DEF checkSensitivePaths
<1>8. checkHTTPMethods(page, v) = checkHTTPMethods(page, w) BY <1>2, <1>3 DEF checkHTTPMethods, One
<1>9. checkRedirect(page, v) = checkRedirect(page, w) BY <1>3 DEF checkRedirect, One
<1>10. checkCORSWildcardCredentials(page, v) = checkCORSWildcardCredentials(page, w) BY <1>1 DEF checkCORSWildcardCredentials, One
<1>11. checkHTTPRequestSmuggling(page, v) = checkHTTPRequestSmuggling(page, w) BY <1>3 DEF checkHTTPRequestSmuggling, One
<1>12. checkSSTI(page, v) = checkSSTI(page, w) BY <1>4 DEF checkSSTI
<1>13. checkJWT(page, v) = checkJWT(page, w) BY <1>1 DEF checkJWT, One
<1>14. checkGraphQLIntrospection(page, v) = checkGraphQLIntrospection(page, w) BY <1>4 DEF checkGraphQLIntrospection
<1>15. checkOpenRedirect(page, v) = checkOpenRedirect(page, w) BY <1>4 DEF checkOpenRedirect
<1>16. checkSSRFDNSRebinding(page, v) = checkSSRFDNSRebinding(page, w) BY <1>4 DEF checkSSRFDNSRebinding
<1>17. checkPathTraversal(page, v) = checkPathTraversal(page, w) BY <1>4 DEF checkPathTraversal
<1>18. checkPrototypePollution(page, v) = checkPrototypePollution(page, w) BY <1>4 DEF checkPrototypePollution
<1>19. checkHTTP2Downgrade(page, v) = checkHTTP2Downgrade(page, w) BY <1>3 DEF checkHTTP2Downgrade, One
<1>20. checkCachePoisoning(page, v) = checkCachePoisoning(page, w) BY <1>2 DEF checkCachePoisoning, One
<1>21. checkHostHeaderInjection(page, v) = checkHostHeaderInjection(page, w) BY <1>3 DEF checkHostHeaderInjection, One
<1>22. checkMassAssignmentIDOR(page, v) = checkMassAssignmentIDOR(page, w) BY <1>3, <1>4 DEF checkMassAssignmentIDOR, One
<1>23. checkCSRF(page, v) = checkCSRF(page, w) BY <1>3 DEF checkCSRF, One
<1>24. checkRateLimiting(page, v) = checkRateLimiting(page, w)
  <2> DEFINE open(x) == {n \in Hits(page, x, "login") :
                           ~(<<"login limited", n>> \in page.hits /\ Fetched(x, "login burst"))}
  <2>1. open(v) = open(w)
    <3>1. Hits(page, v, "login") = Hits(page, w, "login") BY <1>2
    <3>2. Fetched(v, "login burst") /\ Fetched(w, "login burst") BY <1>1
    <3> QED BY <3>1, <3>2
  <2>2. Said(page, v, "burst", "page limited") <=> Said(page, w, "burst", "page limited") BY <1>3
  <2>3. /\ checkRateLimiting(page, v) =
             IF ~Said(page, v, "burst", "page limited") /\ open(v) # {}
             THEN {Issue("No Rate Limiting on Login Endpoint", "", "high",
                         <<"login", IF open(v) = {} THEN 0 ELSE Min(open(v))>>)} ELSE {}
        /\ checkRateLimiting(page, w) =
             IF ~Said(page, w, "burst", "page limited") /\ open(w) # {}
             THEN {Issue("No Rate Limiting on Login Endpoint", "", "high",
                         <<"login", IF open(w) = {} THEN 0 ELSE Min(open(w))>>)} ELSE {}
    BY DEF checkRateLimiting, One
  <2> HIDE DEF open
  <2> QED BY <2>1, <2>2, <2>3
<1>25. checkDefaultCredentials(page, v) = checkDefaultCredentials(page, w) BY <1>4 DEF checkDefaultCredentials
<1>26. checkDirectoryListing(page, v) = checkDirectoryListing(page, w) BY <1>5 DEF checkDirectoryListing
<1>27. checkWebSocketEndpoints(page, v) = checkWebSocketEndpoints(page, w)
  <2>1. /\ Hits(page, v, "websocket") = Hits(page, w, "websocket")
        /\ Hits(page, v, "any origin") = Hits(page, w, "any origin")
    BY <1>2
  <2> QED BY <2>1 DEF checkWebSocketEndpoints
<1>28. checkSecretsInResponse(page, v) = checkSecretsInResponse(page, w) BY <1>2 DEF checkSecretsInResponse
<1>29. checkSQLInjection(page, v) = checkSQLInjection(page, w) BY <1>4 DEF checkSQLInjection
<1>30. checkCommandInjection(page, v) = checkCommandInjection(page, w) BY <1>4 DEF checkCommandInjection
<1>31. checkCRLFInjection(page, v) = checkCRLFInjection(page, w) BY <1>4 DEF checkCRLFInjection
<1>32. checkXXE(page, v) = checkXXE(page, w) BY <1>4 DEF checkXXE
<1>33. checkSecurityDisclosurePolicy(page, v) = checkSecurityDisclosurePolicy(page, w) BY <1>3 DEF checkSecurityDisclosurePolicy, One
<1>34. checkMIMEConfusion(page, v) = checkMIMEConfusion(page, w) BY <1>3 DEF checkMIMEConfusion, One
<1>35. checkSubresourceIntegrity(page, v) = checkSubresourceIntegrity(page, w) BY <1>3 DEF checkSubresourceIntegrity, One
<1>36. checkOAuthOIDC(page, v) = checkOAuthOIDC(page, w) BY <1>1, <1>4 DEF checkOAuthOIDC, One
<1>37. checkHTTP2RapidReset(page, v) = checkHTTP2RapidReset(page, w) BY <1>3 DEF checkHTTP2RapidReset, One
<1>38. checkSubdomainTakeoverBody(page, v) = checkSubdomainTakeoverBody(page, w) BY <1>1 DEF checkSubdomainTakeoverBody
<1>39. checkTimingBlindSQLi(page, v) = checkTimingBlindSQLi(page, w) BY <1>1, <1>4 DEF checkTimingBlindSQLi
<1>40. checkAPIVersioning(page, v) = checkAPIVersioning(page, w)
  <2>1. Hits(page, v, "version") = Hits(page, w, "version") BY <1>2
  <2> QED BY <2>1 DEF checkAPIVersioning
<1> QED BY <1>6, <1>7, <1>8, <1>9, <1>10, <1>11, <1>12, <1>13, <1>14, <1>15, <1>16, <1>17,
           <1>18, <1>19, <1>20, <1>21, <1>22, <1>23, <1>24, <1>25, <1>26, <1>27, <1>28, <1>29,
           <1>30, <1>31, <1>32, <1>33, <1>34, <1>35, <1>36, <1>37, <1>38, <1>39, <1>40

\* Two calm visits of a page say the same under every title but a restless one.
LEMMA CalmVisitsAgree ==
    ASSUME NEW page, NEW v, NEW w, Calm(v), Calm(w), IsFiniteSet(page.debug),
           page.debug = {} \/ {v.debug, w.debug} \subseteq page.debug
    PROVE  SaysTheSame(page, v, w)
<1>1. Calm(v) /\ Calm(w) /\ (page.debug = {} \/ {v.debug, w.debug} \subseteq page.debug) OBVIOUS
<1>2. IsFiniteSet(page.debug) OBVIOUS
<1>3. SUFFICES ASSUME NEW f \in Check(page, v), f.title \notin Restless(page)
               PROVE  f \in Check(page, w)
  BY DEF SaysTheSame
<1>4. Fetched(v, "base") /\ Fetched(w, "base") BY <1>1 DEF Fetched, Calm
<1>5. f \notin checkReflectedXSS(page, v)
  <2>1. f.title # "Reflected XSS" BY <1>3 DEF Restless
  <2>2. \A at : Issue("Reflected XSS", "", "high", at).title = "Reflected XSS" BY DEF Issue
  <2>3. \A g \in checkReflectedXSS(page, v) :
           \E at : g = Issue("Reflected XSS", "", "high", at)
    BY DEF checkReflectedXSS, One
  <2> QED BY <2>1, <2>2, <2>3
<1>6. f \in checkInformationDisclosure(page, v) => f \in checkInformationDisclosure(page, w)
  <2>1. CASE v.debug = w.debug BY <2>1 DEF checkInformationDisclosure
  <2>3. CASE page.debug = {} BY <2>3 DEF checkInformationDisclosure
  <2>2. CASE v.debug # w.debug /\ page.debug # {}
    <3>1. page.debug # {} /\ v.debug \in page.debug /\ w.debug \in page.debug
      BY <1>1, <2>2
    <3>2. Cardinality(page.debug) \in Nat /\ Cardinality(page.debug) > 1
      <4>1. Cardinality(page.debug) \in Nat BY <1>2, FS_CardinalityType
      <4>2. Cardinality(page.debug) # 0 BY <1>2, <3>1, FS_EmptySet
      <4>3. Cardinality(page.debug) # 1 BY <1>2, <2>2, <3>1, FS_Singleton
      <4> QED BY <4>1, <4>2, <4>3
    <3>3. f.title # "Debug/Error Information Disclosed" BY <1>3, <3>2 DEF Restless
    <3>4. \A d : Issue("Debug/Error Information Disclosed", d, "medium", Here).title
                 = "Debug/Error Information Disclosed"
      BY DEF Issue
    <3> QED BY <3>3, <3>4 DEF checkInformationDisclosure
  <2> QED BY <2>1, <2>2, <2>3
<1>7. f \in Check(page, w) BY <1>1, <1>4, <1>5, <1>6, ChecksAgree DEF Check
<1> QED BY <1>7

\* Two undisturbed visits of a page, by any scans, report the same but for what
\* the page's restless checks say: the reflected XSS probe, whose token comes
\* from the clock, and the debug patterns, which Go's map iteration orders anew.
THEOREM VisitsAgree ==
    ASSUME NEW url \in DOMAIN Sites, NEW s \in Scans, NEW x \in Scans,
           NEW v \in VisitsBy(s, url), NEW w \in VisitsBy(x, url)
    PROVE  SaysTheSame(Sites[url].page, v, w)
<1> DEFINE page == Sites[url].page
<1>1. Calm(v) /\ Calm(w) /\ v.debug \in Debugs(page) /\ w.debug \in Debugs(page)
  BY DEF VisitsBy, Calm
<1>2. IsFiniteSet(page.debug) BY ScanExecutionAssumption
<1> HIDE DEF page
<1>3. page.debug = {} \/ {v.debug, w.debug} \subseteq page.debug BY <1>1 DEF Debugs
<1>4. SaysTheSame(page, v, w) BY <1>1, <1>2, <1>3, CalmVisitsAgree
<1> QED BY <1>4 DEF page

\* The key of a finding says its page and its title.
LEMMA KeyIs ==
    ASSUME NEW url, NEW f
    PROVE  LET key == <<url>> \o Key(f)
           IN key[1] = url /\ key[2] = f.title
<1> DEFINE k == Key(f)
<1>1. k \in [1..3 -> {f.title, f.detail, f.at}] /\ k[1] = f.title BY DEF Key
<1> HIDE DEF k
<1>2. IsSeq(k) /\ Len(k) = 3 BY <1>1, FunctionIsSeq
<1>3. IsSeq(<<url>>) /\ Len(<<url>>) = 1 /\ <<url>>[1] = url BY One1
<1>4. \A i \in 1..4 : (<<url>> \o k)[i] = IF i <= 1 THEN <<url>>[i] ELSE k[i - 1]
  <2>1. PICK u, z : u = <<url>> /\ z = k OBVIOUS
  <2>2. IsSeq(u) /\ Len(u) = 1 /\ IsSeq(z) /\ Len(z) = 3 BY <2>1, <1>2, <1>3
  <2>3. \A i \in 1..(Len(u) + Len(z)) : (u \o z)[i] = IF i <= Len(u) THEN u[i] ELSE z[i - Len(u)]
    BY <2>2, Joined
  <2>4. ASSUME NEW i \in 1..4 PROVE (u \o z)[i] = IF i <= 1 THEN u[i] ELSE z[i - 1]
    <3>1. PICK g : g = u \o z OBVIOUS
    <3>2. \A j \in 1..(1 + 3) : g[j] = IF j <= 1 THEN u[j] ELSE z[j - 1] BY <2>2, <2>3, <3>1
    <3>3. i \in 1..(1 + 3) OBVIOUS
    <3>4. g[i] = IF i <= 1 THEN u[i] ELSE z[i - 1] BY <3>2, <3>3
    <3> QED BY <3>1, <3>4
  <2> QED BY <2>1, <2>4
<1> DEFINE y == <<url>> \o k
<1>5. \A i \in 1..4 : y[i] = IF i <= 1 THEN <<url>>[i] ELSE k[i - 1] BY <1>4
<1> HIDE DEF y
<1>6. y[1] = <<url>>[1] /\ y[2] = k[2 - 1] BY <1>5
<1>7. 2 - 1 = 1 OBVIOUS
<1>8. y[1] = url /\ y[2] = k[1] BY <1>3, <1>6, <1>7
<1> QED BY <1>1, <1>8 DEF k, y

\* Two reports of one page whose titles are not restless are those of one visit.
LEMMA OneVisit ==
    ASSUME NEW a, NEW b, IsReport(a), IsReport(b), b[1] = a[1],
           {a[2], b[2]} \cap Restless(Sites[a[1]].page) = {}
    PROVE  \E s \in Scans : \E v \in VisitsBy(s, a[1]) : {a, b} \subseteq Reported(a[1], v)
<1>1. PICK url \in DOMAIN Sites, s \in Scans : \E v \in VisitsBy(s, url) : a \in Reported(url, v)
  BY DEF IsReport
<1>2. PICK v \in VisitsBy(s, url) : a \in Reported(url, v) BY <1>1
<1>3. PICK url2 \in DOMAIN Sites, x \in Scans : \E w \in VisitsBy(x, url2) : b \in Reported(url2, w)
  BY DEF IsReport
<1>4. PICK w \in VisitsBy(x, url2) : b \in Reported(url2, w) BY <1>3
<1>5. PICK f \in Check(Sites[url].page, v) : a = <<url>> \o Key(f) BY <1>2 DEF Reported
<1>6. PICK g \in Check(Sites[url2].page, w) : b = <<url2>> \o Key(g) BY <1>4 DEF Reported
<1>7. a[1] = url BY <1>5, KeyIs
<1>8. b[1] = url2 /\ b[2] = g.title BY <1>6, KeyIs
<1>9. url2 = url /\ url \in DOMAIN Sites /\ g.title \notin Restless(Sites[url].page)
  BY <1>1, <1>7, <1>8
<1>10. SaysTheSame(Sites[url].page, w, v)
  <2>1. w \in VisitsBy(x, url) /\ v \in VisitsBy(s, url) /\ x \in Scans /\ s \in Scans
    BY <1>1, <1>2, <1>3, <1>4, <1>9
  <2> QED BY <1>9, <2>1, VisitsAgree
<1>11. g \in Check(Sites[url].page, v) BY <1>6, <1>9, <1>10 DEF SaysTheSame
<1>12. b \in Reported(url, v) BY <1>6, <1>9, <1>11 DEF Reported
<1> QED BY <1>1, <1>2, <1>7, <1>12

-----------------------------------------------------------------------------
\* The theorems.

\* The inductive invariant holds at first.
LEMMA ExecutionBegins == ExecutionInit => EInv
<1> SUFFICES ASSUME ExecutionInit PROVE EInv
  OBVIOUS
<1>1. plan \in Plans /\ together = {} /\ scan = [s \in Scans |-> NoScan]
      /\ db = [t \in Tables |-> IF t \in LogTables THEN {} ELSE <<>>]
  BY DEF ExecutionInit
<1>2. IsSeq(<<>>) /\ Len(<<>>) = 0 /\ DOMAIN <<>> = {} /\ ToSet(<<>>) = {}
  <2>1. IsSeq(<<>>) /\ Len(<<>>) = 0 BY EmptySeq DEF IsSeq
  <2> QED BY <2>1, SeqIs DEF ToSet
<1>3. DOMAIN db = Tables /\ (\A t \in Keyed : db[t] = <<>>) /\ db["result"] = {}
  BY <1>1 DEF Keyed, Tables, LogTables
<1>4. RowsAre(db) BY <1>2, <1>3 DEF RowsAre
<1>5. Sound(db, together) BY <1>2, <1>3, <1>4, LinkedAre DEF Sound, TwinFree
<1>6. ASSUME NEW s \in Scans
      PROVE  ScanIs(plan[s], scan[s], db) /\ Lonely(plan[s], scan[s], db, together)
  <2> DEFINE r == scan[s]
  <2>1. /\ DOMAIN r = ScanFields /\ r.status = "pending" /\ r.todo = <<>> /\ r.step = ""
        /\ r.targets = <<>> /\ r.steps = <<>> /\ r.phase = "look" /\ r.ids = <<>>
    BY <1>1 DEF NoScan, ScanFields
  <2> HIDE DEF r
  <2>2. Going(r) BY <2>1 DEF Going
  <2>3. RouteIs(plan[s], r)
    <3>1. IsSeq(r.targets) /\ IsSeq(r.steps) BY <1>2, <2>1
    <3>2. ToSet(r.targets) = {} /\ Len(r.targets) = 0 /\ Len(r.steps) = 0 BY <1>2, <2>1
    <3>3. 1..Len(r.steps) = {} BY <3>2
    <3>4. \A i \in 1..Len(r.steps) : /\ r.steps[i] \in StepNames
                                     /\ r.steps[i] = "scheduled" => plan[s].kind = "scheduled"
      BY <3>3
    <3>5. r.status # "running" BY <2>1
    <3>6. ToSet(r.targets) \subseteq DOMAIN Bare BY <3>2
    <3> QED BY <3>1, <3>4, <3>5, <3>6 DEF RouteIs
  <2>4. TodoIs(r.todo, plan[s].org, db) /\ IdsAre(r.ids, plan[s].org, db) BY <2>1, EmptyTodo
  <2>5. FoundIs(r, plan[s].org, db) BY <2>1 DEF FoundIs
  <2>6. Lonely(plan[s], r, db, together) BY <2>1 DEF Lonely
  <2> QED BY <2>1, <2>2, <2>3, <2>4, <2>5, <2>6 DEF ScanIs, r
<1>7. Apart
  <2>1. \A s \in Scans : scan[s].status = "pending" BY <1>1 DEF NoScan
  <2> QED BY <2>1 DEF Apart
<1> QED BY <1>1, <1>5, <1>6, <1>7 DEF EInv

\* Every step keeps it, and keeps what is written.
LEMMA ExecutionGoesOn ==
    ASSUME EInv, [ExecutionNext]_executionVars
    PROVE  EInv' /\ Kept(db, db')
<1>1. CASE UNCHANGED executionVars
  <2>1. plan' = plan /\ db' = db /\ scan' = scan /\ together' = together
    BY <1>1 DEF executionVars
  <2>2. EInv' BY <2>1 DEF EInv, Apart, Org
  <2> QED BY <2>1, <2>2, SameKeeps
<1>2. ASSUME NEW s \in Scans, ScanStep(s) PROVE EInv' /\ Kept(db, db')
  <2>1. CASE StartScan(s) BY <2>1, StartStep
  <2>2. CASE NextStep(s) BY <2>2, NextOne
  <2>3. CASE EndStep(s) BY <2>3, EndOne
  <2>4. CASE CutShort(s) BY <2>4, CutOne
  <2>5. CASE LookUp(s) BY <2>5, LookUpOne
  <2>6. CASE WriteRow(s) BY <2>6, WriteOne
  <2>7. CASE CreateRow(s) BY <2>7, CreateOne
  <2>8. CASE Fault(s) BY <2>8, FaultStep
  <2>9. CASE CancelRun(s) BY <2>9, CancelStep
  <2> QED BY <1>2, <2>1, <2>2, <2>3, <2>4, <2>5, <2>6, <2>7, <2>8, <2>9 DEF ScanStep
<1>3. CASE BulkDeleteSubdomains BY <1>3, DeleteOne
<1>4. CASE BulkIgnoreFindings BY <1>4, IgnoreOne
<1> QED BY <1>1, <1>2, <1>3, <1>4 DEF ExecutionNext

\* Whatever scans run, whichever statements fail and whatever users delete or
\* settle, EInv holds: the induction of runNetwork, runPort, runDNS, runWeb,
\* runSubdomain and the FirstOrCreate statements they are made of.
THEOREM ExecutionInductive == ExecutionSpec => []EInv
<1>1. EInv /\ [ExecutionNext]_executionVars => EInv' BY ExecutionGoesOn
<1> QED BY <1>1, ExecutionBegins, PTL DEF ExecutionSpec

\* The inductive invariant says that rows are sound.
LEMMA SoundRows ==
    ASSUME EInv
    PROVE  RowsAreSound
<1>1. Sound(db, together) /\ RowsAre(db) BY DEF EInv, Sound
<1>2. NoTwins BY <1>1 DEF NoTwins, Sound, TwinFree, MayMeet, Keyed
<1>3. LinksHold BY <1>1 DEF LinksHold, Sound, LinkOk
<1>4. ResultsAreBacked BY <1>1 DEF ResultsAreBacked, Sound, BackedBy
<1>5. RaisedOnce
  <2> SUFFICES ASSUME NEW i \in DOMAIN db["finding"], NEW j \in DOMAIN db["finding"], i # j,
                      db["finding"][i].org = db["finding"][j].org,
                      db["finding"][i].org \notin together,
                      db["finding"][j].key[1] = db["finding"][i].key[1],
                      {db["finding"][i].key[2], db["finding"][j].key[2]}
                        \cap Restless(Sites[db["finding"][i].key[1]].page) = {}
               PROVE  /\ db["finding"][i].key # db["finding"][j].key
                      /\ \E s \in Scans : \E visit \in VisitsBy(s, db["finding"][i].key[1]) :
                           {db["finding"][i].key, db["finding"][j].key}
                             \subseteq Reported(db["finding"][i].key[1], visit)
    BY DEF RaisedOnce
  <2> DEFINE r == db["finding"][i]
             q == db["finding"][j]
  <2>1. "finding" \in Keyed /\ "finding" \notin UniqueTables
    BY DEF Keyed, Tables, LogTables, UniqueTables
  <2>2. i \in 1..Len(db["finding"]) /\ j \in 1..Len(db["finding"]) BY <1>1, <2>1, TablesAre
  <2>3. RowIs("finding", r) /\ RowIs("finding", q) BY <1>1, <2>1, <2>2 DEF RowsAre
  <2>4. IsReport(r.key) /\ IsReport(q.key) /\ r.gone = FALSE /\ q.gone = FALSE
    BY <2>3 DEF RowIs
  <2>5. MayMeet("finding", r, q, together) BY <1>1, <2>1 DEF Sound, TwinFree
  <2>6. r.key # q.key BY <2>4, <2>5 DEF MayMeet
  <2> HIDE DEF r, q
  <2>7. \E s \in Scans : \E v \in VisitsBy(s, r.key[1]) : {r.key, q.key} \subseteq Reported(r.key[1], v)
    <3>1. q.key[1] = r.key[1] /\ {r.key[2], q.key[2]} \cap Restless(Sites[r.key[1]].page) = {}
      BY DEF r, q
    <3> QED BY <2>4, <3>1, OneVisit
  <2> QED BY <2>6, <2>7 DEF r, q
<1> QED BY <1>2, <1>3, <1>4, <1>5 DEF RowsAreSound

\* The rows of the built-in scans: a natural key has one row that is not
\* deleted, unless scans of the organization overlapped (firstOrCreate runs
\* without a transaction); a row's parent is a row of the parent's table, of
\* its organization and target; a result shows an asset that is on record; and
\* no web scan raises a finding that is there.
THEOREM RowsAreAlwaysSound == ExecutionSpec => []RowsAreSound
<1>1. EInv => RowsAreSound BY SoundRows
<1> QED BY <1>1, ExecutionInductive, PTL

\* Rows are not removed and keep their key, and what a user made of a finding
\* is not undone by the update of a scan that finds it again.
THEOREM RecordsStay == ExecutionSpec => SettledStays
<1>1. ASSUME EInv, [ExecutionNext]_executionVars
      PROVE  [\A t \in Tables \ LogTables : \A i \in DOMAIN db[t] :
                /\ i \in DOMAIN db'[t] /\ db'[t][i].key = db[t][i].key
                /\ db'[t][i].org = db[t][i].org
                /\ db[t][i].status # "open" => db'[t][i].status = db[t][i].status]_executionVars
  BY <1>1, ExecutionGoesOn DEF Kept, Keyed
<1> QED BY <1>1, ExecutionInductive, PTL DEF ExecutionSpec, SettledStays

-----------------------------------------------------------------------------
\* What completed scans stored. The operations of a step that stores names or
\* ports.

Unhurt(r) == r.status \in {"running", "completed"} /\ ~r.trouble /\ ~r.cancelled
Needs(o) == o.table = "subdomain" \/ (o.table = "service" /\ o.key[1] \in Addresses)
Makes(o, key) == o.table \in {"host", "domain"} /\ <<o.table, o.key>> = key

\* Only an insert into a log is skipped when another operation is refused, and
\* what needs a parent has it among keys A or from an operation before it.
SturdyAt(x, A, i) ==
    /\ x[i].do \in {"upsert", "create"}
    /\ x[i].table \in UniqueTables \cup LinkedTables =>
          /\ x[i].skip \in Nat /\ i + x[i].skip <= Len(x)
          /\ \A j \in (i + 1)..(i + x[i].skip) : x[j].table \in LogTables
    /\ Needs(x[i]) => ParentOf(x[i]) \in A \/ \E j \in 1..(i - 1) : Makes(x[j], ParentOf(x[i]))
Sturdy(x, A) == IsSeq(x) /\ \A i \in 1..Len(x) : SturdyAt(x, A, i)
ToCome(x, t, key) == \E i \in 1..Len(x) : x[i].table = t /\ x[i].key = key

\* What is in one of several lists is in the list of them all.
Covers(f, q, n) ==
    \A h \in 1..n : \A j \in 1..Len(q[h]) : \E k \in 1..Len(f) : f[k] = q[h][j]
LEMMA FlattenCovers ==
    ASSUME NEW n \in Nat, NEW T, NEW q \in [1..n -> T], \A i \in 1..n : IsSeq(q[i])
    PROVE  Covers(FlattenSeq(q), q, n)
<1> SUFFICES ASSUME NEW h \in 1..n, NEW j \in 1..Len(q[h])
             PROVE  \E k \in 1..Len(FlattenSeq(q)) : FlattenSeq(q)[k] = q[h][j]
  BY DEF Covers
<1>1. PICK g : /\ \A i \in 1..n : g[i] = IF i = 1 THEN q[i] ELSE g[i - 1] \o q[i]
               /\ FlattenSeq(q) = IF n = 0 THEN <<>> ELSE g[n]
  BY Flattens
<1> DEFINE Holds(i) == IsSeq(g[i]) /\ (h <= i => \E k \in 1..Len(g[i]) : g[i][k] = q[h][j])
           Bad == {i \in 1..n : ~Holds(i)}
<1>2. Bad = {}
  <2>1. SUFFICES ASSUME Bad # {} PROVE FALSE OBVIOUS
  <2>2. Bad \subseteq Nat OBVIOUS
  <2>3. PICK m \in Bad : \A k \in Bad : m <= k
    <3> HIDE DEF Bad
    <3> QED BY <2>1, <2>2, LeastOf
  <2>4. m \in 1..n /\ ~Holds(m) OBVIOUS
  <2>5. m # 1
    <3>1. SUFFICES ASSUME m = 1 PROVE FALSE OBVIOUS
    <3>2. g[m] = q[m] BY <1>1, <2>4, <3>1
    <3>3. h <= m => h = m BY <3>1
    <3>4. Holds(m) BY <3>2, <3>3, <2>4
    <3> QED BY <3>4, <2>4
  <2>6. m - 1 \in 1..n /\ m - 1 \notin Bad
    <3> HIDE DEF Bad
    <3> QED BY <2>3, <2>4, <2>5
  <2>7. Holds(m - 1) BY <2>6
  <2> DEFINE x == g[m - 1]
             y == q[m]
  <2>8. g[m] = x \o y BY <2>4, <2>5, <1>1
  <2>9. IsSeq(x) /\ IsSeq(y) BY <2>4, <2>7
  <2>14. h <= m - 1 => \E k \in 1..Len(x) : x[k] = q[h][j] BY <2>7
  <2>10. Len(x) \in Nat /\ Len(y) \in Nat BY <2>9, SeqIs
  <2> HIDE DEF x
  <2>11. /\ IsSeq(x \o y) /\ Len(x \o y) = Len(x) + Len(y)
         /\ \A i \in 1..(Len(x) + Len(y)) :
               (x \o y)[i] = IF i <= Len(x) THEN x[i] ELSE y[i - Len(x)]
    BY <2>9, Joined
  <2>12. ASSUME h <= m PROVE \E k \in 1..Len(x \o y) : (x \o y)[k] = q[h][j]
    <3>1. CASE h <= m - 1
      <4>1. PICK k \in 1..Len(x) : x[k] = q[h][j] BY <3>1, <2>14
      <4>2. k \in 1..Len(x \o y) /\ (x \o y)[k] = x[k] BY <2>10, <2>11
      <4> QED BY <4>1, <4>2
    <3>2. CASE h = m
      <4>1. j \in 1..Len(y) BY <3>2
      <4>2. j + Len(x) \in 1..Len(x \o y) /\ (x \o y)[j + Len(x)] = y[j] BY <2>10, <2>11, <4>1
      <4> QED BY <3>2, <4>2
    <3> QED BY <3>1, <3>2, <2>4, <2>12
  <2>13. Holds(m) BY <2>8, <2>11, <2>12 DEF x
  <2> QED BY <2>13, <2>4
<1>3. n \in 1..n OBVIOUS
<1>4. Holds(n) BY <1>2, <1>3
<1>5. FlattenSeq(q) = g[n] BY <1>1, <1>3
<1> QED BY <1>4, <1>5

\* SetToSeq leaves out no member of a finite set.
LEMMA Everyone ==
    ASSUME NEW S, IsFiniteSet(S), NEW a \in S
    PROVE  \E i \in 1..Cardinality(S) : SetToSeq(S)[i] = a
<1> DEFINE n == Cardinality(S)
           f == SetToSeq(S)
<1>1. n \in Nat /\ ExistsBijection(1..n, S) BY FS_CardinalityType
<1>2. PICK g : g \in [1..n -> S] /\ IsInjective(g)
  BY <1>1 DEF ExistsBijection, Bijection, Injection
<1>3. f \in [1..n -> S] /\ IsInjective(f) BY <1>2 DEF SetToSeq
<1> HIDE DEF f
<1>4. f \in Injection(1..n, S) BY <1>3 DEF Injection
<1>5. Cardinality(1..n) = n BY <1>1, FS_Interval
<1>6. f \in Surjection(1..n, S) BY <1>4, <1>5, FS_Injection
<1> QED BY <1>6 DEF Surjection, f

\* Lists that are sturdy in a row are.
LEMMA SturdyJoin ==
    ASSUME NEW x, NEW y, NEW A, NEW B, Sturdy(x, A), Sturdy(y, B),
           \A key \in B : key \in A \/ \E j \in 1..Len(x) : Makes(x[j], key)
    PROVE  Sturdy(x \o y, A)
<1> DEFINE z == x \o y
<1>1. IsSeq(x) /\ IsSeq(y) BY DEF Sturdy
<1>2. Len(x) \in Nat /\ Len(y) \in Nat BY <1>1, SeqIs
<1>3. IsSeq(z) /\ Len(z) = Len(x) + Len(y) BY <1>1, Joined
<1>4. \A i \in 1..Len(x) : z[i] = x[i] BY <1>1, <1>2, Joined
<1>5. \A i \in 1..Len(y) : z[i + Len(x)] = y[i] BY <1>1, <1>2, Joined
<1> HIDE DEF z
<1>6. ASSUME NEW i \in 1..Len(z) PROVE SturdyAt(z, A, i)
  <2>1. CASE i <= Len(x)
    <3>1. i \in 1..Len(x) /\ z[i] = x[i] BY <1>2, <1>3, <1>4, <2>1
    <3>2. SturdyAt(x, A, i) BY <3>1 DEF Sturdy
    <3>3. \A j \in 1..(i - 1) : z[j] = x[j] BY <3>1, <1>2, <1>4
    <3>4. ASSUME x[i].skip \in Nat, i + x[i].skip <= Len(x)
          PROVE  i + x[i].skip <= Len(z) /\ \A j \in (i + 1)..(i + x[i].skip) : z[j] = x[j]
      BY <3>1, <3>4, <1>2, <1>3, <1>4
    <3> QED BY <3>1, <3>2, <3>3, <3>4 DEF SturdyAt
  <2>2. CASE i > Len(x)
    <3> DEFINE k == i - Len(x)
    <3>1. k \in 1..Len(y) /\ i = k + Len(x) BY <1>2, <1>3, <2>2
    <3> HIDE DEF k
    <3>2. SturdyAt(y, B, k) /\ z[i] = y[k] BY <3>1, <1>5 DEF Sturdy
    <3>3. ASSUME y[k].skip \in Nat, k + y[k].skip <= Len(y)
          PROVE  /\ i + y[k].skip <= Len(z)
                 /\ \A j \in (i + 1)..(i + y[k].skip) :
                       j - Len(x) \in (k + 1)..(k + y[k].skip) /\ z[j] = y[j - Len(x)]
      <4>1. i + y[k].skip <= Len(z) BY <3>1, <3>3, <1>2, <1>3
      <4>2. ASSUME NEW j \in (i + 1)..(i + y[k].skip)
            PROVE  j - Len(x) \in (k + 1)..(k + y[k].skip) /\ z[j] = y[j - Len(x)]
        <5>1. j - Len(x) \in (k + 1)..(k + y[k].skip) /\ (j - Len(x)) + Len(x) = j
          BY <3>1, <3>3, <1>2
        <5>2. j - Len(x) \in 1..Len(y) BY <5>1, <3>1, <3>3, <1>2
        <5> QED BY <5>1, <5>2, <1>5
      <4> QED BY <4>1, <4>2
    <3>4. ASSUME Needs(y[k])
          PROVE  ParentOf(y[k]) \in A \/ \E j \in 1..(i - 1) : Makes(z[j], ParentOf(y[k]))
      <4>1. CASE ParentOf(y[k]) \in B
        <5>1. CASE \E j \in 1..Len(x) : Makes(x[j], ParentOf(y[k]))
          <6>1. PICK j \in 1..Len(x) : Makes(x[j], ParentOf(y[k])) BY <5>1
          <6>2. j \in 1..(i - 1) /\ z[j] = x[j] BY <3>1, <1>2, <1>4
          <6> QED BY <6>1, <6>2
        <5> QED BY <4>1, <5>1
      <4>2. CASE \E j \in 1..(k - 1) : Makes(y[j], ParentOf(y[k]))
        <5>1. PICK j \in 1..(k - 1) : Makes(y[j], ParentOf(y[k])) BY <4>2
        <5>2. j + Len(x) \in 1..(i - 1) /\ j \in 1..Len(y) BY <3>1, <1>2
        <5>3. z[j + Len(x)] = y[j] BY <5>2, <1>5
        <5> QED BY <5>1, <5>2, <5>3
      <4> QED BY <4>1, <4>2, <3>2, <3>4 DEF SturdyAt
    <3> QED BY <3>2, <3>3, <3>4 DEF SturdyAt
  <2> QED BY <2>1, <2>2, <1>2
<1> QED BY <1>3, <1>6 DEF Sturdy, z

\* So are any number of them in a row.
LEMMA SturdyFlatten ==
    ASSUME NEW n \in Nat, NEW T, NEW q \in [1..n -> T], NEW A, \A i \in 1..n : Sturdy(q[i], A)
    PROVE  Sturdy(FlattenSeq(q), A)
<1>1. PICK g : /\ \A i \in 1..n : g[i] = IF i = 1 THEN q[i] ELSE g[i - 1] \o q[i]
               /\ FlattenSeq(q) = IF n = 0 THEN <<>> ELSE g[n]
  BY Flattens
<1> DEFINE Bad == {i \in 1..n : ~Sturdy(g[i], A)}
<1>2. Bad = {}
  <2>1. SUFFICES ASSUME Bad # {} PROVE FALSE OBVIOUS
  <2>2. Bad \subseteq Nat OBVIOUS
  <2>3. PICK m \in Bad : \A k \in Bad : m <= k
    <3> HIDE DEF Bad
    <3> QED BY <2>1, <2>2, LeastOf
  <2>4. m \in 1..n /\ ~Sturdy(g[m], A) OBVIOUS
  <2>5. m # 1 BY <2>4, <1>1
  <2>6. m - 1 \in 1..n /\ m - 1 \notin Bad
    <3> HIDE DEF Bad
    <3> QED BY <2>3, <2>4, <2>5
  <2>7. Sturdy(g[m - 1], A) BY <2>6
  <2>8. g[m] = g[m - 1] \o q[m] BY <2>4, <2>5, <1>1
  <2> QED BY <2>4, <2>7, <2>8, SturdyJoin
<1>3. n # 0 => Sturdy(g[n], A) BY <1>2
<1>4. IsSeq(<<>>) /\ Len(<<>>) = 0 BY EmptySeq DEF IsSeq
<1>5. Sturdy(<<>>, A) BY <1>4 DEF Sturdy
<1> QED BY <1>1, <1>3, <1>5

\* An operation before inserts into logs that it may skip.
LEMMA SturdyLed ==
    ASSUME NEW o, NEW x, NEW A, IsSeq(x), o.do \in {"upsert", "create"}, o.skip \in Nat,
           o.skip <= Len(x) \/ o.table \notin UniqueTables \cup LinkedTables,
           Needs(o) => ParentOf(o) \in A,
           \A i \in 1..Len(x) : x[i].do = "create" /\ x[i].table \in LogTables
    PROVE  Sturdy(<<o>> \o x, A)
<1> DEFINE z == <<o>> \o x
<1>1. IsSeq(<<o>>) /\ Len(<<o>>) = 1 /\ <<o>>[1] = o BY One1
<1>2. Len(x) \in Nat BY SeqIs
<1>3. IsSeq(z) /\ Len(z) = 1 + Len(x) BY <1>1, Joined
<1>4. z[1] = o BY <1>1, <1>2, Joined
<1>5. \A i \in 2..Len(z) : z[i].do = "create" /\ z[i].table \in LogTables
  <2>1. TAKE i \in 2..Len(z)
  <2>2. i - 1 \in 1..Len(x) /\ ~(i <= 1) /\ i \in 1..(1 + Len(x)) BY <1>2, <1>3
  <2>3. z[i] = x[i - 1] BY <2>2, <1>1, Joined
  <2> QED BY <2>2, <2>3
<1> HIDE DEF z
<1>6. SturdyAt(z, A, 1)
  <2>1. ASSUME o.skip <= Len(x) PROVE 1 + o.skip <= Len(z) /\ (1 + 1)..(1 + o.skip) \subseteq 2..Len(z)
    BY <2>1, <1>2, <1>3
  <2> QED BY <2>1, <1>4, <1>5 DEF SturdyAt
<1>7. \A i \in 2..Len(z) : SturdyAt(z, A, i)
  <2>1. LogTables \cap (UniqueTables \cup LinkedTables) = {} /\ "subdomain" \notin LogTables
        /\ "service" \notin LogTables
    BY DEF LogTables, UniqueTables, LinkedTables
  <2> QED BY <2>1, <1>5 DEF SturdyAt, Needs
<1>8. \A i \in 1..Len(z) : i = 1 \/ i \in 2..Len(z) BY <1>2, <1>3
<1> QED BY <1>3, <1>6, <1>7, <1>8 DEF Sturdy, z

\* Marking the first operation changes nothing of this.
LEMMA SturdyFirst ==
    ASSUME NEW x, NEW A, Sturdy(x, A), x # <<>>, DOMAIN x[1] = OpFields
    PROVE  /\ Sturdy(First1(x), A)
           /\ \A t, key : ToCome(x, t, key) => ToCome(First1(x), t, key)
<1> DEFINE y == First1(x)
           one == [x[1] EXCEPT !.first = TRUE]
<1>1. IsSeq(x) BY DEF Sturdy
<1>2. Len(x) \in Nat /\ DOMAIN x = 1..Len(x) /\ Len(x) # 0 BY <1>1, SeqIs
<1>3. y = [x EXCEPT ![1] = one] BY DEF First1
<1>4. x \in [1..Len(x) -> ToSet(x)] BY <1>1, LenProperties DEF IsSeq
<1>5. y \in [1..Len(x) -> ToSet(x) \cup {one}] BY <1>2, <1>3, <1>4
<1>6. IsSeq(y) /\ Len(y) = Len(x) BY <1>2, <1>5, FunctionIsSeq
<1>7. \A i \in 1..Len(x) : y[i] = IF i = 1 THEN one ELSE x[i] BY <1>2, <1>3
<1> HIDE DEF y
<1>8. /\ one.skip = x[1].skip /\ one.do = x[1].do /\ one.table = x[1].table
      /\ one.key = x[1].key /\ one.of = x[1].of
  BY DEF OpFields
<1> HIDE DEF one
<1>9. \A i \in 1..Len(x) : /\ y[i].skip = x[i].skip /\ y[i].do = x[i].do /\ y[i].of = x[i].of
                           /\ y[i].table = x[i].table /\ y[i].key = x[i].key
  BY <1>7, <1>8
<1>10. \A i \in 1..Len(x) : ParentOf(y[i]) = ParentOf(x[i]) /\ (Needs(y[i]) <=> Needs(x[i]))
  BY <1>9 DEF ParentOf, Needs
<1>11. ASSUME NEW i \in 1..Len(y) PROVE SturdyAt(y, A, i)
  <2>1. SturdyAt(x, A, i) /\ i \in 1..Len(x) BY <1>6 DEF Sturdy
  <2>2. \A j \in 1..(i - 1) : j \in 1..Len(x) BY <2>1, <1>2
  <2>3. ASSUME x[i].skip \in Nat, i + x[i].skip <= Len(x)
        PROVE  \A j \in (i + 1)..(i + x[i].skip) : y[j].table = x[j].table
    BY <2>1, <2>3, <1>2, <1>9
  <2>4. \A j \in 1..(i - 1) : \A key : Makes(x[j], key) => Makes(y[j], key)
    BY <2>2, <1>9 DEF Makes
  <2> QED BY <2>1, <2>3, <2>4, <1>6, <1>9, <1>10 DEF SturdyAt
<1>12. \A t, key : ToCome(x, t, key) => ToCome(y, t, key) BY <1>6, <1>9 DEF ToCome
<1> QED BY <1>6, <1>11, <1>12 DEF Sturdy, y

\* One operation that may be refused with nothing behind it.
LEMMA SturdyOne ==
    ASSUME NEW o, NEW A, o.do \in {"upsert", "create"},
           o.table \notin UniqueTables \cup LinkedTables \/ o.skip = 0, Needs(o) => ParentOf(o) \in A
    PROVE  Sturdy(<<o>>, A)
<1>1. IsSeq(<<o>>) /\ Len(<<o>>) = 1 /\ <<o>>[1] = o BY One1
<1>2. SturdyAt(<<o>>, A, 1) BY <1>1 DEF SturdyAt
<1> QED BY <1>1, <1>2 DEF Sturdy

\* What is to come in a part of a list is to come in the list.
LEMMA ToComeJoin ==
    ASSUME NEW x, NEW y, IsSeq(x), IsSeq(y), NEW t, NEW key, ToCome(x, t, key) \/ ToCome(y, t, key)
    PROVE  ToCome(x \o y, t, key)
<1>1. Len(x) \in Nat /\ Len(y) \in Nat BY SeqIs
<1>2. /\ Len(x \o y) = Len(x) + Len(y)
      /\ \A i \in 1..(Len(x) + Len(y)) :
            (x \o y)[i] = IF i <= Len(x) THEN x[i] ELSE y[i - Len(x)]
  BY Joined
<1>3. CASE ToCome(x, t, key)
  <2>1. PICK i \in 1..Len(x) : x[i].table = t /\ x[i].key = key BY <1>3 DEF ToCome
  <2>2. i \in 1..Len(x \o y) /\ (x \o y)[i] = x[i] BY <1>1, <1>2
  <2> QED BY <2>1, <2>2 DEF ToCome
<1>4. CASE ToCome(y, t, key)
  <2>1. PICK i \in 1..Len(y) : y[i].table = t /\ y[i].key = key BY <1>4 DEF ToCome
  <2>2. i + Len(x) \in 1..Len(x \o y) /\ (x \o y)[i + Len(x)] = y[i] BY <1>1, <1>2
  <2> QED BY <2>1, <2>2 DEF ToCome
<1> QED BY <1>3, <1>4

LEMMA ToComeFlatten ==
    ASSUME NEW n \in Nat, NEW T, NEW q \in [1..n -> T], \A i \in 1..n : IsSeq(q[i]),
           NEW h \in 1..n, NEW t, NEW key, ToCome(q[h], t, key)
    PROVE  ToCome(FlattenSeq(q), t, key)
<1>1. PICK j \in 1..Len(q[h]) : q[h][j].table = t /\ q[h][j].key = key BY DEF ToCome
<1>2. Covers(FlattenSeq(q), q, n) BY FlattenCovers
<1>3. PICK k \in 1..Len(FlattenSeq(q)) : FlattenSeq(q)[k] = q[h][j] BY <1>1, <1>2 DEF Covers
<1> QED BY <1>1, <1>3 DEF ToCome

\* A name under its domain, and its result.
LEMMA NameReady ==
    ASSUME NEW s, NEW domain, NEW name
    PROVE  /\ Sturdy(persistSubdomainResult(s, domain, name), {<<"domain", domain>>})
           /\ ToCome(persistSubdomainResult(s, domain, name), "subdomain", name)
<1> DEFINE o == Upsert("subdomain", name, domain, 1)
           r == saveResult(s, "subdomain", name)
<1>1. /\ DOMAIN o = OpFields /\ o.do = "upsert" /\ o.table = "subdomain" /\ o.key = name
      /\ o.of = domain /\ o.skip = 1
  BY DEF Upsert, Op, OpFields
<1>2. r.do = "create" /\ r.table = "result" BY DEF saveResult, Op
<1> HIDE DEF o, r
<1>3. IsSeq(<<r>>) /\ Len(<<r>>) = 1 /\ <<r>>[1] = r BY One1
<1>4. ParentOf(o) = <<"domain", domain>> BY <1>1 DEF ParentOf
<1>5. Sturdy(<<o>> \o <<r>>, {<<"domain", domain>>})
  <2>1. \A i \in 1..Len(<<r>>) : <<r>>[i].do = "create" /\ <<r>>[i].table \in LogTables
    BY <1>2, <1>3 DEF LogTables
  <2>2. o.do \in {"upsert", "create"} /\ o.skip \in Nat /\ o.skip <= Len(<<r>>) BY <1>1, <1>3
  <2> QED BY <1>3, <1>4, <2>1, <2>2, SturdyLed
<1>6. <<o, r>> = <<o>> \o <<r>> BY Pairs
<1>7. <<o, r>> # <<>> /\ <<o, r>>[1] = o OBVIOUS
<1>8. IsSeq(<<o>>) /\ Len(<<o>>) = 1 /\ <<o>>[1] = o BY One1
<1>9. ToCome(<<o>>, "subdomain", name) BY <1>1, <1>8 DEF ToCome
<1>10. ToCome(<<o>> \o <<r>>, "subdomain", name) BY <1>3, <1>8, <1>9, ToComeJoin
<1> DEFINE x == <<o, r>>
<1>11. Sturdy(x, {<<"domain", domain>>}) /\ x # <<>> /\ DOMAIN x[1] = OpFields
       /\ ToCome(x, "subdomain", name)
  BY <1>1, <1>5, <1>6, <1>7, <1>10
<1> HIDE DEF x
<1>12. Sturdy(First1(x), {<<"domain", domain>>}) /\ ToCome(First1(x), "subdomain", name)
  BY <1>11, SturdyFirst
<1> QED BY <1>12 DEF persistSubdomainResult, x, o, r

\* The names that a source found under a domain.
LEMMA NamesReady ==
    ASSUME NEW A, NEW S, IsFiniteSet(S), NEW q, q = [i \in 1..Cardinality(S) |-> q[i]],
           \A i \in 1..Cardinality(S) : /\ Sturdy(q[i], A)
                                        /\ ToCome(q[i], "subdomain", SetToSeq(S)[i])
    PROVE  /\ Sturdy(FlattenSeq(q), A)
           /\ \A n \in S : ToCome(FlattenSeq(q), "subdomain", n)
<1> DEFINE n == Cardinality(S)
<1>1. n \in Nat BY InSomeOrder
<1>2. q \in [1..n -> {q[i] : i \in 1..n}] OBVIOUS
<1>3. \A i \in 1..n : Sturdy(q[i], A) /\ IsSeq(q[i]) BY DEF Sturdy
<1>4. Sturdy(FlattenSeq(q), A)
  <2> HIDE DEF n
  <2> QED BY <1>1, <1>2, <1>3, SturdyFlatten
<1>5. ASSUME NEW m \in S PROVE ToCome(FlattenSeq(q), "subdomain", m)
  <2>1. PICK h \in 1..n : SetToSeq(S)[h] = m BY Everyone
  <2>2. ToCome(q[h], "subdomain", m) BY <2>1
  <2> HIDE DEF n
  <2> QED BY <1>1, <1>2, <1>3, <2>1, <2>2, ToComeFlatten
<1> QED BY <1>4, <1>5

\* A domain and what was found under it.
LEMMA DomainReady ==
    ASSUME NEW domain, NEW found, Sturdy(found, {<<"domain", domain>>})
    PROVE  LET x == <<[Upsert("domain", domain, NoParent, Len(found)) EXCEPT !.sure = TRUE]>> \o found
           IN Sturdy(x, {}) /\ \A n : ToCome(found, "subdomain", n) => ToCome(x, "subdomain", n)
<1> DEFINE o == [Upsert("domain", domain, NoParent, Len(found)) EXCEPT !.sure = TRUE]
<1>1. o.do = "upsert" /\ o.table = "domain" /\ o.key = domain BY DEF Upsert, Op
<1> HIDE DEF o
<1>2. Sturdy(<<o>>, {}) BY <1>1, SturdyOne DEF UniqueTables, LinkedTables, Needs
<1>3. IsSeq(<<o>>) /\ Len(<<o>>) = 1 /\ <<o>>[1] = o BY One1
<1>4. 1 \in 1..Len(<<o>>) /\ Makes(<<o>>[1], <<"domain", domain>>) BY <1>1, <1>3 DEF Makes
<1>5. Sturdy(<<o>> \o found, {}) BY <1>2, <1>4, SturdyJoin
<1>6. IsSeq(found) BY DEF Sturdy
<1>7. \A n : ToCome(found, "subdomain", n) => ToCome(<<o>> \o found, "subdomain", n)
  BY <1>3, <1>6, ToComeJoin
<1> QED BY <1>5, <1>7 DEF o

\* The operations of runSubdomain are sturdy, and among them every name is to
\* come that the scanner and the chained sources found under a target.
LEMMA SubdomainReady ==
    ASSUME NEW s, NEW targets, IsSeq(targets), ToSet(targets) \subseteq DOMAIN Bare
    PROVE  /\ Sturdy(runSubdomain(s, targets), {})
           /\ \A i \in 1..Len(targets) :
                 \A n \in Resolving[Bare[targets[i]]] \cup Chained[Bare[targets[i]]] :
                    ToCome(runSubdomain(s, targets), "subdomain", n)
<1> DEFINE found(d) == Each(Resolving[d], LAMBDA n : persistSubdomainResult(s, d, n))
                       \o chainExtraSubdomainSources(s, d)
           ops(d) == <<[Upsert("domain", d, NoParent, Len(found(d))) EXCEPT !.sure = TRUE]>>
                     \o found(d)
           q == [i \in DOMAIN targets |-> ops(normalizeDomain(targets[i]))]
<1>1. Len(targets) \in Nat /\ DOMAIN targets = 1..Len(targets) BY SeqIs
<1>2. \A i \in 1..Len(targets) : /\ normalizeDomain(targets[i]) \in DOMAIN Bare
                                 /\ normalizeDomain(targets[i]) = Bare[targets[i]]
  BY <1>1, ScanExecutionAssumption DEF ToSet, normalizeDomain
<1>3. ASSUME NEW d \in DOMAIN Bare
      PROVE  /\ Sturdy(found(d), {<<"domain", d>>})
             /\ \A n \in Resolving[d] \cup Chained[d] : ToCome(found(d), "subdomain", n)
  <2> DEFINE A == {<<"domain", d>>}
             x == Each(Resolving[d], LAMBDA n : persistSubdomainResult(s, d, n))
             y == Each(Chained[d], LAMBDA n : persistSubdomainResult(s, d, n))
             w == snapWHOIS(d)
  <2>1. IsFiniteSet(Resolving[d]) /\ IsFiniteSet(Chained[d]) BY ScanExecutionAssumption
  <2>2. ASSUME NEW S, IsFiniteSet(S)
        PROVE  LET z == FlattenSeq([i \in 1..Cardinality(S) |->
                                      persistSubdomainResult(s, d, SetToSeq(S)[i])])
               IN Sturdy(z, A) /\ \A n \in S : ToCome(z, "subdomain", n)
    <3> DEFINE r == [i \in 1..Cardinality(S) |-> persistSubdomainResult(s, d, SetToSeq(S)[i])]
    <3>1. r = [i \in 1..Cardinality(S) |-> r[i]] OBVIOUS
    <3>2. \A i \in 1..Cardinality(S) : /\ Sturdy(r[i], A)
                                       /\ ToCome(r[i], "subdomain", SetToSeq(S)[i])
      BY NameReady
    <3> HIDE DEF r, A
    <3>3. Sturdy(FlattenSeq(r), A) /\ \A n \in S : ToCome(FlattenSeq(r), "subdomain", n)
      BY <2>2, <3>1, <3>2, NamesReady
    <3> QED BY <3>3 DEF r
  <2> HIDE DEF A
  <2>3. Sturdy(x, A) /\ \A n \in Resolving[d] : ToCome(x, "subdomain", n) BY <2>1, <2>2 DEF Each
  <2>4. Sturdy(y, A) /\ \A n \in Chained[d] : ToCome(y, "subdomain", n) BY <2>1, <2>2 DEF Each
  <2>5. Sturdy(w, {})
    <3> DEFINE o == Op("create", "whois", d, NoParent, 0)
    <3>1. o.do = "create" /\ o.table = "whois" /\ o.skip = 0 BY DEF Op
    <3> HIDE DEF o
    <3>2. Sturdy(<<o>>, {}) BY <3>1, SturdyOne DEF Needs
    <3> QED BY <3>2 DEF snapWHOIS, o
  <2> HIDE DEF x, y, w
  <2>6. Sturdy(y \o w, A) BY <2>4, <2>5, SturdyJoin
  <2>7. IsSeq(x) /\ IsSeq(y) /\ IsSeq(w) /\ IsSeq(y \o w) BY <2>3, <2>4, <2>5, <2>6 DEF Sturdy
  <2>8. \A key \in A : key \in A OBVIOUS
  <2>9. Sturdy(x \o (y \o w), A) BY <2>3, <2>6, <2>8, SturdyJoin
  <2>10. \A n \in Chained[d] : ToCome(y \o w, "subdomain", n) BY <2>4, <2>7, ToComeJoin
  <2>11. \A n \in Resolving[d] \cup Chained[d] : ToCome(x \o (y \o w), "subdomain", n)
    BY <2>3, <2>7, <2>10, ToComeJoin
  <2>12. found(d) = x \o (y \o w) BY DEF chainExtraSubdomainSources, x, y, w
  <2> QED BY <2>9, <2>11, <2>12 DEF A
<1> HIDE DEF found
<1>4. ASSUME NEW d \in DOMAIN Bare
      PROVE  /\ Sturdy(ops(d), {})
             /\ \A n \in Resolving[d] \cup Chained[d] : ToCome(ops(d), "subdomain", n)
  <2>1. /\ Sturdy(found(d), {<<"domain", d>>})
        /\ \A n \in Resolving[d] \cup Chained[d] : ToCome(found(d), "subdomain", n)
    BY <1>3
  <2> QED BY <2>1, DomainReady
<1> HIDE DEF ops
<1>5. \A i \in 1..Len(targets) : Sturdy(q[i], {}) /\ IsSeq(q[i]) BY <1>1, <1>2, <1>4 DEF Sturdy
<1>6. q \in [1..Len(targets) -> {q[i] : i \in 1..Len(targets)}] BY <1>1
<1>7. ASSUME NEW i \in 1..Len(targets), NEW n \in Resolving[Bare[targets[i]]] \cup Chained[Bare[targets[i]]]
      PROVE  ToCome(q[i], "subdomain", n)
  BY <1>1, <1>2, <1>4
<1>8. Sturdy(FlattenSeq(q), {})
  <2> HIDE DEF q
  <2> QED BY <1>1, <1>5, <1>6, SturdyFlatten
<1>9. ASSUME NEW i \in 1..Len(targets), NEW n \in Resolving[Bare[targets[i]]] \cup Chained[Bare[targets[i]]]
      PROVE  ToCome(FlattenSeq(q), "subdomain", n)
  <2>1. ToCome(q[i], "subdomain", n) BY <1>7
  <2> HIDE DEF q
  <2> QED BY <1>1, <1>5, <1>6, <2>1, ToComeFlatten
<1>10. runSubdomain(s, targets) = FlattenSeq(q) BY DEF runSubdomain, ops, found
<1> HIDE DEF q
<1> QED BY <1>8, <1>9, <1>10

\* So are those of the scheduled scan, with the names of its one domain.
LEMMA ScheduledReady ==
    ASSUME NEW domain \in DOMAIN Bare
    PROVE  /\ Sturdy(handleSubdomainScan(domain), {})
           /\ \A n \in Resolving[domain] : ToCome(handleSubdomainScan(domain), "subdomain", n)
<1> DEFINE S == Resolving[domain]
           up(m) == Upsert("subdomain", m, domain, 0)
           q == [i \in 1..Cardinality(S) |-> First1(<<up(SetToSeq(S)[i])>>)]
           found == FlattenSeq(q)
           A == {<<"domain", domain>>}
<1>1. IsFiniteSet(S) BY ScanExecutionAssumption
<1>2. ASSUME NEW m PROVE Sturdy(First1(<<up(m)>>), A) /\ ToCome(First1(<<up(m)>>), "subdomain", m)
  <2> DEFINE o == up(m)
  <2>1. /\ DOMAIN o = OpFields /\ o.do = "upsert" /\ o.table = "subdomain" /\ o.key = m
        /\ o.of = domain /\ o.skip = 0
    BY DEF Upsert, Op, OpFields
  <2> HIDE DEF up
  <2>2. ParentOf(o) \in A BY <2>1 DEF ParentOf
  <2> HIDE DEF A
  <2>3. Sturdy(<<o>>, A) BY <2>1, <2>2, SturdyOne
  <2>4. IsSeq(<<o>>) /\ Len(<<o>>) = 1 /\ <<o>>[1] = o BY One1
  <2>5. ToCome(<<o>>, "subdomain", m) BY <2>1, <2>4 DEF ToCome
  <2> DEFINE x == <<o>>
  <2>6. Sturdy(x, A) /\ x # <<>> /\ DOMAIN x[1] = OpFields /\ ToCome(x, "subdomain", m)
    BY <2>1, <2>3, <2>4, <2>5
  <2> HIDE DEF x
  <2>7. Sturdy(First1(x), A) /\ ToCome(First1(x), "subdomain", m) BY <2>6, SturdyFirst
  <2> QED BY <2>7 DEF x
<1> HIDE DEF up
<1>3. q = [i \in 1..Cardinality(S) |-> q[i]] OBVIOUS
<1>4. \A i \in 1..Cardinality(S) : Sturdy(q[i], A) /\ ToCome(q[i], "subdomain", SetToSeq(S)[i])
  BY <1>2
<1>5. Sturdy(found, A) /\ \A n \in S : ToCome(found, "subdomain", n)
  <2> HIDE DEF q, S, A
  <2> QED BY <1>1, <1>3, <1>4, NamesReady
<1> HIDE DEF found
<1> DEFINE x == <<[Upsert("domain", domain, NoParent, Len(found)) EXCEPT !.sure = TRUE]>> \o found
<1>6. Sturdy(x, {}) /\ \A n \in S : ToCome(x, "subdomain", n) BY <1>5, DomainReady
<1>7. handleSubdomainScan(domain) = x BY DEF handleSubdomainScan, Each, found, up
<1> HIDE DEF x
<1> QED BY <1>6, <1>7

\* The operations of runPort are sturdy, and among them every open port of a
\* target is to come.
LEMMA PortReady ==
    ASSUME NEW s, NEW targets, IsSeq(targets)
    PROVE  /\ Sturdy(runPort(s, targets), {})
           /\ \A p \in OpenPorts :
                 p[1] \in ToSet(targets) => ToCome(runPort(s, targets), "service", p)
<1> DEFINE q == [i \in DOMAIN targets |-> resolveHostID(targets[i])]
           hosts == FlattenSeq(q)
           B == {<<"host", t>> : t \in Addresses \cap ToSet(targets)}
<1>1. Len(targets) \in Nat /\ DOMAIN targets = 1..Len(targets) BY SeqIs
<1>2. ASSUME NEW t
      PROVE  /\ Sturdy(resolveHostID(t), {})
             /\ t \in Addresses => /\ Len(resolveHostID(t)) = 1
                                   /\ Makes(resolveHostID(t)[1], <<"host", t>>)
  <2> DEFINE o == Upsert("host", t, NoParent, 0)
  <2>1. o.do = "upsert" /\ o.table = "host" /\ o.key = t BY DEF Upsert, Op
  <2> HIDE DEF o
  <2>2. Sturdy(<<o>>, {}) BY <2>1, SturdyOne DEF Needs, UniqueTables, LinkedTables
  <2>3. Len(<<o>>) = 1 /\ Makes(<<o>>[1], <<"host", t>>) BY <2>1, One1 DEF Makes
  <2>4. IsSeq(<<>>) /\ Len(<<>>) = 0 BY EmptySeq DEF IsSeq
  <2>5. Sturdy(<<>>, {}) BY <2>4 DEF Sturdy
  <2> QED BY <2>2, <2>3, <2>5 DEF resolveHostID, o
<1>3. \A i \in 1..Len(targets) : q[i] = resolveHostID(targets[i]) BY <1>1
<1>4. q \in [1..Len(targets) -> {q[i] : i \in 1..Len(targets)}] BY <1>1
<1>5. \A i \in 1..Len(targets) : Sturdy(q[i], {}) /\ IsSeq(q[i]) BY <1>2, <1>3 DEF Sturdy
<1> HIDE DEF q
<1>6. Sturdy(hosts, {}) BY <1>1, <1>4, <1>5, SturdyFlatten
<1>7. ASSUME NEW t \in Addresses \cap ToSet(targets)
      PROVE  \E j \in 1..Len(hosts) : Makes(hosts[j], <<"host", t>>)
  <2>1. PICK h \in 1..Len(targets) : targets[h] = t BY <1>1 DEF ToSet
  <2>2. Len(q[h]) = 1 /\ Makes(q[h][1], <<"host", t>>) BY <2>1, <1>2, <1>3
  <2>3. 1 \in 1..Len(q[h]) BY <2>2
  <2>4. Covers(hosts, q, Len(targets)) BY <1>1, <1>4, <1>5, FlattenCovers
  <2>5. PICK k \in 1..Len(hosts) : hosts[k] = q[h][1] BY <2>1, <2>3, <2>4 DEF Covers
  <2> QED BY <2>2, <2>5
<1> DEFINE S == {p \in OpenPorts : p[1] \in ToSet(targets)}
           ops(p) == <<Upsert("service", p, NoParent, 2), RecordServiceHistory(p),
                       saveResult(s, "port", p)>>
           f == [i \in 1..Cardinality(S) |-> First1(ops(SetToSeq(S)[i]))]
           services == FlattenSeq(f)
<1>8. IsFiniteSet(S) BY ScanExecutionAssumption, FS_Subset
<1>9. ASSUME NEW p \in S
      PROVE  Sturdy(First1(ops(p)), B) /\ ToCome(First1(ops(p)), "service", p)
  <2> DEFINE o == Upsert("service", p, NoParent, 2)
             h == RecordServiceHistory(p)
             r == saveResult(s, "port", p)
             x == <<h, r>>
  <2>1. /\ DOMAIN o = OpFields /\ o.do = "upsert" /\ o.table = "service" /\ o.key = p
        /\ o.skip = 2
    BY DEF Upsert, Op, OpFields
  <2>2. h.do = "create" /\ h.table = "history" /\ r.do = "create" /\ r.table = "result"
    BY DEF RecordServiceHistory, saveResult, Op
  <2> HIDE DEF o, h, r
  <2>3. x \in [1..2 -> {h, r}] /\ x[1] = h /\ x[2] = r OBVIOUS
  <2>4. <<o, h, r>> = <<o>> \o x BY Triples
  <2> HIDE DEF x
  <2>5. IsSeq(x) /\ Len(x) = 2 BY <2>3, FunctionIsSeq
  <2>6. ASSUME NEW i \in 1..Len(x) PROVE x[i].do = "create" /\ x[i].table \in LogTables
    <3>1. i = 1 \/ i = 2 BY <2>5
    <3> QED BY <3>1, <2>2, <2>3 DEF LogTables
  <2>7. Needs(o) => ParentOf(o) \in B BY <2>1 DEF Needs, ParentOf
  <2>8. o.do \in {"upsert", "create"} /\ o.skip \in Nat /\ o.skip <= Len(x) BY <2>1, <2>5
  <2> HIDE DEF B
  <2>9. Sturdy(<<o>> \o x, B) BY <2>5, <2>6, <2>7, <2>8, SturdyLed
  <2>10. IsSeq(<<o>>) /\ Len(<<o>>) = 1 /\ <<o>>[1] = o BY One1
  <2>11. ToCome(<<o>>, "service", p) BY <2>1, <2>10 DEF ToCome
  <2>12. ToCome(<<o>> \o x, "service", p) BY <2>5, <2>10, <2>11, ToComeJoin
  <2>13. <<o, h, r>> # <<>> /\ <<o, h, r>>[1] = o OBVIOUS
  <2> DEFINE y == <<o, h, r>>
  <2>14. Sturdy(y, B) /\ y # <<>> /\ DOMAIN y[1] = OpFields /\ ToCome(y, "service", p)
    BY <2>1, <2>4, <2>9, <2>12, <2>13
  <2> HIDE DEF y
  <2>15. Sturdy(First1(y), B) /\ ToCome(First1(y), "service", p) BY <2>14, SturdyFirst
  <2> QED BY <2>15 DEF y, o, h, r
<1> HIDE DEF ops
<1>10. f = [i \in 1..Cardinality(S) |-> f[i]] OBVIOUS
<1>11. \A i \in 1..Cardinality(S) : /\ Sturdy(f[i], B)
                                    /\ \E p \in S : p = SetToSeq(S)[i] /\ ToCome(f[i], "service", p)
  <2>1. \A i \in 1..Cardinality(S) : SetToSeq(S)[i] \in S BY <1>8, InSomeOrder
  <2> QED BY <2>1, <1>9
<1>12. Cardinality(S) \in Nat BY <1>8, InSomeOrder
<1>13. \A i \in 1..Cardinality(S) : Sturdy(f[i], B) /\ IsSeq(f[i]) BY <1>11 DEF Sturdy
<1>14. f \in [1..Cardinality(S) -> {f[i] : i \in 1..Cardinality(S)}] OBVIOUS
<1> HIDE DEF f, B
<1>15. Sturdy(services, B)
  <2> DEFINE n == Cardinality(S)
  <2> HIDE DEF n
  <2>1. n \in Nat /\ f \in [1..n -> {f[i] : i \in 1..n}] /\ \A i \in 1..n : Sturdy(f[i], B)
    BY <1>12, <1>13, <1>14 DEF n
  <2> QED BY <2>1, SturdyFlatten
<1>16. ASSUME NEW p \in S PROVE ToCome(services, "service", p)
  <2> DEFINE n == Cardinality(S)
  <2>1. PICK h \in 1..n : SetToSeq(S)[h] = p BY <1>8, Everyone
  <2>2. ToCome(f[h], "service", p) BY <1>11, <2>1
  <2>3. n \in Nat /\ f \in [1..n -> {f[i] : i \in 1..n}] /\ \A i \in 1..n : IsSeq(f[i])
    BY <1>12, <1>13, <1>14
  <2> HIDE DEF n
  <2> QED BY <2>1, <2>2, <2>3, ToComeFlatten
<1> HIDE DEF hosts, services
<1>17. \A key \in B : \E j \in 1..Len(hosts) : Makes(hosts[j], key) BY <1>7 DEF B
<1>18. Sturdy(hosts \o services, {}) BY <1>6, <1>15, <1>17, SturdyJoin
<1>19. IsSeq(hosts) /\ IsSeq(services) BY <1>6, <1>15 DEF Sturdy
<1>20. \A p \in S : ToCome(hosts \o services, "service", p) BY <1>16, <1>19, ToComeJoin
<1>21. runPort(s, targets) = hosts \o services BY DEF runPort, Each, hosts, services, q, f, S, ops
<1> HIDE DEF S
<1>22. \A p \in OpenPorts : p[1] \in ToSet(targets) => p \in S BY DEF S
<1> QED BY <1>18, <1>20, <1>21, <1>22

-----------------------------------------------------------------------------
\* The invariant of a scan to which nothing has happened.

\* The steps taken; from which of them on the names are found, and when that
\* step is over.
Taken(p, r) == Len(StepsOf(p.kind)) - Len(r.steps)
Due(p) == IF p.kind = "full" THEN 2 ELSE 1
NameSteps == {"subdomain", "scheduled"}
Idle(r) == r.step = ""
Sorted(p, r) == Taken(p, r) > Due(p) \/ (Taken(p, r) = Due(p) /\ Idle(r))
\* The steps are those of its kind, one after the other, and its targets those
\* it was given, until the names are found.
WayIs(p, r) ==
    /\ IsSeq(r.steps) /\ Taken(p, r) \in 0..Len(StepsOf(p.kind))
    /\ \A i \in 1..Len(r.steps) : r.steps[i] = StepsOf(p.kind)[Taken(p, r) + i]
    /\ ~Idle(r) => Taken(p, r) >= 1 /\ r.step = StepsOf(p.kind)[Taken(p, r)]
    /\ r.status = "completed" => r.steps = <<>> /\ Idle(r)
    /\ p.kind \in NameSteps \cup {"full"} /\ ~Sorted(p, r) => r.targets = p.targets
\* What is left of a step can be carried out.
Ready(r) == Sturdy(r.todo, DOMAIN r.ids) /\ \A k \in DOMAIN r.ids : r.ids[k] # Dangling
\* What the names' step found is there or to come, and what the ports' did.
HasKey(d, n) == \E i \in 1..Len(d["subdomain"]) : d["subdomain"][i].key = n
NamesOf(p) ==
    IF p.kind \notin {"subdomain", "full", "scheduled"} THEN {}
    ELSE LET domains == IF p.kind = "scheduled" THEN {normalizeDomain(p.targets[1])}
                        ELSE {normalizeDomain(t) : t \in ToSet(p.targets)}
         IN UNION {Resolving[d] \cup IF p.kind = "scheduled" THEN {} ELSE Chained[d] : d \in domains}
NamesDue(p, r, d) ==
    Taken(p, r) >= Due(p) => \A n \in NamesOf(p) :
        HasKey(d, n) \/ (r.step \in NameSteps /\ ToCome(r.todo, "subdomain", n))
ServicesDue(p, r, d) ==
    p.kind = "full" /\ Taken(p, r) >= 3 =>
        \A q \in OpenPorts : q[1] \in ToSet(r.targets) /\ Linkable(q[1]) =>
            HasRow(d, "service", p.org, q) \/ (r.step = "port" /\ ToCome(r.todo, "service", q))
\* The names that it found, on record under one of its domains, are aimed at.
Under(d, i, p) ==
    \E t \in ToSet(p.targets) : RowAt(d, "domain", d["subdomain"][i].link, p.org, normalizeDomain(t))
Aimed(targets, n) == \/ \E t \in ToSet(targets) : n \in {t, normalizeDomain(t)}
                     \/ Len(targets) >= MaxExpanded
Meant(d, i, p) ==
    /\ d["subdomain"][i].org = p.org /\ ~d["subdomain"][i].gone
    /\ d["subdomain"][i].key \in NamesOf(p) /\ Under(d, i, p)
Swept(p, r, d, orgs) ==
    p.kind = "full" /\ Sorted(p, r) /\ p.org \notin orgs =>
        \A i \in 1..Len(d["subdomain"]) :
            Meant(d, i, p) => Aimed(r.targets, d["subdomain"][i].key)
Doing(p, r, d, orgs) ==
    /\ WayIs(p, r) /\ (r.step \in NameSteps \cup {"port"} => Ready(r))
    /\ NamesDue(p, r, d) /\ ServicesDue(p, r, d) /\ Swept(p, r, d, orgs)
WholeIs(p, r, d, orgs) == Unhurt(r) => Doing(p, r, d, orgs)
\* Only subdomains are ever deleted.
OnlyNamesGo(d) == \A t \in Keyed \ {"subdomain"} : \A i \in 1..Len(d[t]) : d[t][i].gone = FALSE
WInv == OnlyNamesGo(db) /\ \A s \in Scans : WholeIs(plan[s], scan[s], db, together)

\* What statements do to the subdomains.
Settles(d, e) ==
    /\ Grows(d, e) /\ (OnlyNamesGo(d) => OnlyNamesGo(e))
    /\ \A i \in 1..Len(d["subdomain"]) :
          /\ e["subdomain"][i].link = d["subdomain"][i].link
          /\ d["subdomain"][i].gone => e["subdomain"][i].gone
    /\ \A i \in 1..Len(e["subdomain"]) :
          i \in 1..Len(d["subdomain"]) \/ ~HasKey(d, e["subdomain"][i].key)

\* The steps of a kind of scan.
LEMMA StepsAre ==
    ASSUME NEW kind, NEW x, x = StepsOf(kind)
    PROVE  \/ /\ kind = "full" /\ Len(x) = 5 /\ x[1] = "network" /\ x[2] = "subdomain"
              /\ x[3] = "port" /\ x[4] = "dns" /\ x[5] = "web"
           \/ kind # "full" /\ Len(x) = 1 /\ x[1] = kind
BY DEF StepsOf

\* Between two steps there is none.
LEMMA IdleHasNone == \A r : Idle(r) => r.step \notin StepNames
BY Zenon DEF Idle, StepNames

\* A scan on its way: how far it is and which step it is at.
LEMMA WaysAre ==
    ASSUME NEW p, NEW r, WayIs(p, r)
    PROVE  /\ Taken(p, r) \in Nat /\ Len(r.steps) \in Nat
           /\ p.kind = "full" => /\ Taken(p, r) <= 5
                                 /\ r.step = "subdomain" => Taken(p, r) = 2
                                 /\ r.step = "port" => Taken(p, r) = 3
                                 /\ r.step # "scheduled"
           /\ p.kind # "full" => Taken(p, r) <= 1 /\ (Idle(r) \/ r.step = p.kind)
           /\ Sorted(p, r) => Taken(p, r) >= Due(p)
           /\ p.kind = "full" /\ Sorted(p, r) => r.step \notin NameSteps
<1> DEFINE x == StepsOf(p.kind)
           k == Taken(p, r)
<1>1. /\ IsSeq(r.steps) /\ k \in 0..Len(x)
      /\ ~Idle(r) => k >= 1 /\ r.step = x[k]
  BY DEF WayIs
<1>2. Len(r.steps) \in Nat BY <1>1, SeqIs
<1> HIDE DEF k
<1>3. \/ /\ p.kind = "full" /\ Len(x) = 5 /\ x[1] = "network" /\ x[2] = "subdomain"
         /\ x[3] = "port" /\ x[4] = "dns" /\ x[5] = "web"
      \/ p.kind # "full" /\ Len(x) = 1 /\ x[1] = p.kind
  BY StepsAre
<1> HIDE DEF x
<1>4. k \in Nat BY <1>1, <1>3
<1>5. CASE p.kind = "full"
  <2>5. Len(x) = 5 BY <1>3, <1>5
  <2>1. k \in {0, 1, 2, 3, 4, 5} BY <1>1, <2>5
  <2>2. ~Idle(r) => /\ r.step = "subdomain" => k = 2
                    /\ r.step = "port" => k = 3
                    /\ r.step # "scheduled"
    BY <2>1, <1>1, <1>3, <1>5
  <2>3. Idle(r) => r.step # "subdomain" /\ r.step # "port" /\ r.step # "scheduled"
    BY IdleHasNone DEF StepNames
  <2>4. Sorted(p, r) => k > 2 \/ (k = 2 /\ Idle(r)) BY <1>5 DEF Sorted, Due, k
  <2> QED BY <1>2, <1>4, <1>5, <2>1, <2>2, <2>3, <2>4 DEF k, Due, NameSteps
<1>6. CASE p.kind # "full"
  <2>1. k \in {0, 1} BY <1>1, <1>3, <1>6
  <2>2. Idle(r) \/ r.step = p.kind BY <2>1, <1>1, <1>3, <1>6
  <2>3. Sorted(p, r) => k >= 1 BY <2>1, <1>6 DEF Sorted, Due, k
  <2> QED BY <1>2, <1>4, <1>6, <2>1, <2>2, <2>3 DEF k, Due
<1> QED BY <1>5, <1>6

\* A subdomain of before is under the domain it is under now.
LEMMA UnderBefore ==
    ASSUME NEW d, NEW e, NEW orgs, Sound(d, orgs), Settles(d, e), NEW p, NEW i \in 1..Len(d["subdomain"]),
           Under(e, i, p)
    PROVE  Under(d, i, p)
<1> DEFINE row == d["subdomain"][i]
<1>1. /\ "subdomain" \in LinkedTables /\ "subdomain" \in Keyed /\ "domain" \in Keyed
      /\ Parent["subdomain"] = "domain"
  BY DEF LinkedTables, Keyed, Tables, LogTables, Parent
<1>2. RowsAre(d) /\ i \in DOMAIN d["subdomain"] BY <1>1, TablesAre DEF Sound
<1>3. LinkOk("subdomain", row, d) BY <1>1, <1>2 DEF Sound
<1>4. e["subdomain"][i].link = row.link BY DEF Settles
<1>5. PICK t \in ToSet(p.targets) : RowAt(e, "domain", row.link, p.org, normalizeDomain(t))
  BY <1>4 DEF Under
<1> HIDE DEF row
<1>6. DOMAIN d["domain"] = 1..Len(d["domain"]) BY <1>1, <1>2, TablesAre
<1>7. Grows(d, e) BY DEF Settles
<1>8. row.link \in 1..Len(e["domain"]) /\ Len(e["domain"]) \in Nat BY <1>1, <1>5, <1>7 DEF RowAt, Grows
<1>9. row.link \notin {NoRow, Dangling} BY <1>8 DEF NoRow, Dangling
<1>10. row.link \in 1..Len(d["domain"]) BY <1>1, <1>3, <1>6, <1>9 DEF LinkOk
<1>11. RowAt(d, "domain", row.link, p.org, normalizeDomain(t))
  BY <1>1, <1>5, <1>7, <1>10 DEF RowAt, Grows
<1> QED BY <1>11 DEF Under, row

\* Whatever statements do, a scan whose way is what it was and that keeps what
\* is to come stays whole.
Carries(p, r, q, e) ==
    r.step \in NameSteps \cup {"port"} /\ Ready(r) =>
      /\ Ready(q)
      /\ \A n : ToCome(r.todo, "subdomain", n) => ToCome(q.todo, "subdomain", n) \/ HasKey(e, n)
      /\ \A k \in OpenPorts : ToCome(r.todo, "service", k) /\ Linkable(k[1]) =>
            ToCome(q.todo, "service", k) \/ HasRow(e, "service", p.org, k)
LEMMA WholeOn ==
    ASSUME NEW p, NEW r, NEW q, NEW d, NEW e, NEW orgs, NEW more, orgs \subseteq more,
           Sound(d, orgs), Settles(d, e), WholeIs(p, r, d, orgs),
           Unhurt(q) => Unhurt(r), q.step = r.step, q.steps = r.steps, q.targets = r.targets,
           q.status = r.status \/ (q.steps = <<>> /\ Idle(q)),
           Carries(p, r, q, e)
    PROVE  WholeIs(p, q, e, more)
<1>1. SUFFICES ASSUME Unhurt(q) PROVE Doing(p, q, e, more)
  BY DEF WholeIs
<1>2. /\ WayIs(p, r) /\ (r.step \in NameSteps \cup {"port"} => Ready(r))
      /\ NamesDue(p, r, d) /\ ServicesDue(p, r, d) /\ Swept(p, r, d, orgs)
  BY <1>1 DEF WholeIs, Doing
<1>3. /\ Taken(p, q) = Taken(p, r) /\ (Idle(q) <=> Idle(r)) /\ (Sorted(p, q) <=> Sorted(p, r))
  BY DEF Taken, Idle, Sorted
<1>4. WayIs(p, q) BY <1>2, <1>3 DEF WayIs
<1>5. q.step \in NameSteps \cup {"port"} => Ready(q) BY <1>2 DEF Carries
<1>6. Grows(d, e) /\ "subdomain" \in Keyed /\ "service" \in Keyed
  BY DEF Settles, Keyed, Tables, LogTables
<1>7. \A n : HasKey(d, n) => HasKey(e, n)
  <2>1. /\ Len(d["subdomain"]) \in Nat /\ Len(e["subdomain"]) \in Nat
        /\ Len(d["subdomain"]) <= Len(e["subdomain"])
        /\ \A i \in 1..Len(d["subdomain"]) : e["subdomain"][i].key = d["subdomain"][i].key
    BY <1>6 DEF Grows
  <2> QED BY <2>1 DEF HasKey
<1>8. NamesDue(p, q, e)
  <2>1. SUFFICES ASSUME Taken(p, q) >= Due(p), NEW n \in NamesOf(p)
                 PROVE  HasKey(e, n) \/ (q.step \in NameSteps /\ ToCome(q.todo, "subdomain", n))
    BY DEF NamesDue
  <2>2. HasKey(d, n) \/ (r.step \in NameSteps /\ ToCome(r.todo, "subdomain", n))
    BY <1>2, <1>3, <2>1 DEF NamesDue
  <2>3. CASE HasKey(d, n) BY <2>3, <1>7
  <2>4. CASE r.step \in NameSteps /\ ToCome(r.todo, "subdomain", n) BY <2>4, <1>2 DEF Carries
  <2> QED BY <2>2, <2>3, <2>4
<1>9. ServicesDue(p, q, e)
  <2>1. SUFFICES ASSUME p.kind = "full", Taken(p, q) >= 3, NEW k \in OpenPorts,
                        k[1] \in ToSet(q.targets), Linkable(k[1])
                 PROVE  HasRow(e, "service", p.org, k) \/ (q.step = "port" /\ ToCome(q.todo, "service", k))
    BY DEF ServicesDue
  <2>2. HasRow(d, "service", p.org, k) \/ (r.step = "port" /\ ToCome(r.todo, "service", k))
    BY <1>2, <1>3, <2>1 DEF ServicesDue
  <2>3. CASE HasRow(d, "service", p.org, k)
    <3>1. PICK i : RowAt(d, "service", i, p.org, k) BY <2>3 DEF HasRow
    <3>2. RowAt(e, "service", i, p.org, k) BY <3>1, <1>6, RowStays
    <3> QED BY <3>2 DEF HasRow
  <2>4. CASE r.step = "port" /\ ToCome(r.todo, "service", k) BY <2>4, <2>1, <1>2 DEF Carries
  <2> QED BY <2>2, <2>3, <2>4
<1>10. Swept(p, q, e, more)
  <2>1. SUFFICES ASSUME p.kind = "full", Sorted(p, q), p.org \notin more,
                        NEW i \in 1..Len(e["subdomain"]), Meant(e, i, p)
                 PROVE  Aimed(q.targets, e["subdomain"][i].key)
    BY DEF Swept
  <2>2. /\ Sorted(p, r) /\ p.org \notin orgs BY <2>1, <1>3
  <2>3. r.step \notin NameSteps /\ Taken(p, r) >= Due(p) BY <1>2, <2>1, <2>2, WaysAre
  <2>4. HasKey(d, e["subdomain"][i].key) BY <1>2, <2>1, <2>3 DEF NamesDue, Meant
  <2>5. i \in 1..Len(d["subdomain"]) BY <2>4 DEF Settles
  <2>6. Under(d, i, p) BY <2>1, <2>5, UnderBefore DEF Meant
  <2>7. /\ e["subdomain"][i].key = d["subdomain"][i].key /\ e["subdomain"][i].org = d["subdomain"][i].org
        /\ d["subdomain"][i].gone => e["subdomain"][i].gone
    BY <1>6, <2>5 DEF Grows, Settles
  <2>8. Meant(d, i, p) BY <2>1, <2>6, <2>7 DEF Meant
  <2>9. Aimed(r.targets, d["subdomain"][i].key) BY <1>2, <2>1, <2>2, <2>5, <2>8 DEF Swept
  <2> QED BY <2>7, <2>9
<1> QED BY <1>4, <1>5, <1>8, <1>9, <1>10 DEF Doing

\* An operation is over: what is left is ready, and so is all that is to come
\* but what the operation was about.
LEMMA Passed ==
    ASSUME NEW r, DOMAIN r = ScanFields, Ready(r), r.todo # <<>>, NEW k, NEW id,
           \/ k = 0 /\ id \in Nat \ {NoRow}
           \/ k = 0 /\ id = NoRow /\ r.todo[1].table \in LogTables
           \/ k = r.todo[1].skip /\ id = NoRow /\ r.todo[1].table \in UniqueTables \cup LinkedTables
    PROVE  LET q == Past(r, k, id)
           IN /\ Ready(q)
              /\ \A t, key : ToCome(r.todo, t, key) /\ t \notin LogTables =>
                    ToCome(q.todo, t, key) \/ (r.todo[1].table = t /\ r.todo[1].key = key)
<1> DEFINE x == r.todo
           o == x[1]
           at == <<o.table, o.key>>
           q == Past(r, k, id)
           y == SubSeq(x, k + 2, Len(x))
           A == DOMAIN r.ids
           B == DOMAIN q.ids
<1>1. IsSeq(x) /\ \A i \in 1..Len(x) : SturdyAt(x, A, i) BY DEF Ready, Sturdy
<1>2. Len(x) \in Nat /\ Len(x) # 0 /\ Head(x) = o BY <1>1, SeqIs
<1>3. /\ q.todo = y
      /\ q.ids = IF id = NoRow THEN r.ids
                 ELSE [z \in A \cup {at} |-> IF z = at THEN id ELSE r.ids[z]]
  BY <1>2 DEF Past, ScanFields
<1>4. SturdyAt(x, A, 1) BY <1>1, <1>2
<1> HIDE DEF q
<1>5. k \in Nat /\ \A j \in 2..(k + 1) : x[j].table \in LogTables
  <2>1. CASE k = 0 BY <2>1
  <2>2. CASE k = o.skip /\ o.table \in UniqueTables \cup LinkedTables
    <3>1. o.skip \in Nat /\ \A j \in (1 + 1)..(1 + o.skip) : x[j].table \in LogTables
      BY <1>4, <2>2 DEF SturdyAt
    <3> QED BY <3>1, <2>2
  <2> QED BY <2>1, <2>2
<1>6. /\ IsSeq(y) /\ Len(y) = IF k + 2 <= Len(x) THEN Len(x) - k - 1 ELSE 0
      /\ \A i \in 1..Len(y) : i + k + 1 \in 1..Len(x) /\ y[i] = x[i + k + 1]
  BY <1>1, <1>5, RestIs
<1>7. Len(y) \in Nat BY <1>2, <1>5, <1>6
<1>8. A \subseteq B /\ (o.table \notin LogTables \cup UniqueTables \cup LinkedTables => at \in B)
  <2>1. CASE id = NoRow
    <3>1. B = A BY <1>3, <2>1
    <3> QED BY <2>1, <3>1
  <2>2. CASE id # NoRow
    <3>1. q.ids = [z \in A \cup {at} |-> IF z = at THEN id ELSE r.ids[z]] BY <1>3, <2>2
    <3>2. B = A \cup {at} BY <3>1
    <3> HIDE DEF at
    <3> QED BY <3>2
  <2> QED BY <2>1, <2>2
<1>9. o.table \in UniqueTables \cup LinkedTables => o.table \notin {"host", "domain"} /\ o.table \notin LogTables
  BY DEF UniqueTables, LinkedTables, LogTables
<1> HIDE DEF x, y, A, B
<1>10. ASSUME NEW i \in 1..Len(y) PROVE SturdyAt(y, B, i)
  <2> DEFINE h == i + k + 1
  <2>1. h \in 1..Len(x) /\ y[i] = x[h] /\ h \in Nat BY <1>6, <1>5, <1>7
  <2>2. SturdyAt(x, A, h) BY <1>1, <2>1
  <2>3. h = i + k + 1 OBVIOUS
  <2> HIDE DEF h
  <2>4. ASSUME x[h].skip \in Nat, h + x[h].skip <= Len(x),
               \A j \in (h + 1)..(h + x[h].skip) : x[j].table \in LogTables
        PROVE  i + x[h].skip <= Len(y) /\ \A j \in (i + 1)..(i + x[h].skip) : y[j].table \in LogTables
    <3>1. i + x[h].skip <= Len(y) BY <2>1, <2>3, <2>4, <1>2, <1>5, <1>6
    <3>2. ASSUME NEW j \in (i + 1)..(i + x[h].skip) PROVE y[j].table \in LogTables
      <4>1. j \in 1..Len(y) /\ j + k + 1 \in (h + 1)..(h + x[h].skip)
        BY <3>1, <2>1, <2>3, <2>4, <1>5, <1>7
      <4> QED BY <4>1, <2>4, <1>6
    <3> QED BY <3>1, <3>2
  <2>5. ASSUME NEW key, key \in A \/ \E j \in 1..(h - 1) : Makes(x[j], key)
        PROVE  key \in B \/ \E j \in 1..(i - 1) : Makes(y[j], key)
    <3>1. CASE key \in A BY <3>1, <1>8
    <3>2. CASE \E j \in 1..(h - 1) : Makes(x[j], key)
      <4>1. PICK j \in 1..(h - 1) : Makes(x[j], key) BY <3>2
      <4>2. CASE j = 1
        <5>1. o.table \in {"host", "domain"} /\ at = key BY <4>1, <4>2 DEF Makes, x
        <5>2. o.table \notin LogTables \cup UniqueTables \cup LinkedTables
          BY <5>1, <1>9 DEF LogTables
        <5>3. at \in B BY <5>2, <1>8
        <5> QED BY <5>1, <5>3
      <4>3. CASE j \in 2..(k + 1)
        <5>1. x[j].table \in LogTables BY <4>3, <1>5
        <5> QED BY <5>1, <4>1 DEF Makes, LogTables
      <4>4. CASE j > k + 1
        <5>1. j - k - 1 \in 1..(i - 1) /\ j - k - 1 \in 1..Len(y) /\ (j - k - 1) + k + 1 = j
          BY <4>1, <4>4, <2>1, <2>3, <1>5, <1>7
        <5>2. y[j - k - 1] = x[j] BY <5>1, <1>6
        <5> QED BY <4>1, <5>1, <5>2
      <4> QED BY <4>1, <4>2, <4>3, <4>4, <2>1, <1>5
    <3> QED BY <2>5, <3>1, <3>2
  <2> QED BY <2>1, <2>2, <2>4, <2>5 DEF SturdyAt
<1>11. Sturdy(q.todo, DOMAIN q.ids) BY <1>3, <1>6, <1>10 DEF Sturdy, B
<1>12. \A z \in DOMAIN q.ids : q.ids[z] # Dangling
  <2>1. \A z \in A : r.ids[z] # Dangling BY DEF Ready, A
  <2>2. id # NoRow => id # Dangling BY DEF NoRow, Dangling
  <2> HIDE DEF at
  <2> QED BY <1>3, <2>1, <2>2 DEF A
<1>13. ASSUME NEW t, NEW key, ToCome(x, t, key), t \notin LogTables, ~(o.table = t /\ o.key = key)
       PROVE  ToCome(y, t, key)
  <2>1. PICK i \in 1..Len(x) : x[i].table = t /\ x[i].key = key BY <1>13 DEF ToCome
  <2>2. i # 1 BY <1>13, <2>1 DEF x
  <2>3. i \notin 2..(k + 1) BY <1>13, <2>1, <1>5
  <2>4. i - k - 1 \in 1..Len(y) /\ (i - k - 1) + k + 1 = i BY <2>1, <2>2, <2>3, <1>2, <1>5, <1>6
  <2>5. y[i - k - 1] = x[i] BY <2>4, <1>6
  <2> QED BY <2>1, <2>4, <2>5 DEF ToCome
<1> QED BY <1>3, <1>11, <1>12, <1>13 DEF Ready, x, q

\* What statements leave as it was settles, and so does what they write to logs.
LEMMA SameSettles ==
    ASSUME NEW d, NEW e, RowsAre(d), \A t \in Keyed : e[t] = d[t]
    PROVE  Settles(d, e)
<1>1. Grows(d, e) BY TablesAre DEF Grows
<1>2. OnlyNamesGo(d) => OnlyNamesGo(e) BY DEF OnlyNamesGo
<1>3. "subdomain" \in Keyed BY DEF Keyed, Tables, LogTables
<1> QED BY <1>1, <1>2, <1>3 DEF Settles

\* An insert of a row whose key, if it is a name, is new.
LEMMA AppendSettles ==
    ASSUME NEW d, NEW e, RowsAre(d), NEW t \in Keyed, NEW row, Inserted(d, e, t, row), Grows(d, e),
           row.gone = FALSE, t = "subdomain" => ~HasKey(d, row.key)
    PROVE  Settles(d, e)
<1>1. \A u \in Keyed : \A i \in 1..Len(e[u]) :
         \/ i \in 1..Len(d[u]) /\ e[u][i] = d[u][i]
         \/ u = t /\ e[u][i] = row
  <2>1. TAKE u \in Keyed
  <2>2. u # t => e[u] = d[u] BY DEF Inserted, Keyed
  <2>3. Len(d[u]) \in Nat BY TablesAre
  <2>4. CASE u = t
    <3>1. ASSUME NEW i \in 1..Len(e[t]), i \notin 1..Len(d[t]) PROVE e[t][i] = row
      <4>1. i = Len(d[t]) + 1 BY <3>1, <2>3, <2>4 DEF Inserted
      <4> QED BY <4>1 DEF Inserted
    <3> QED BY <3>1, <2>4 DEF Inserted
  <2> QED BY <2>2, <2>4
<1>2. OnlyNamesGo(d) => OnlyNamesGo(e) BY <1>1 DEF OnlyNamesGo
<1>3. "subdomain" \in Keyed BY DEF Keyed, Tables, LogTables
<1>4. ASSUME NEW i \in 1..Len(d["subdomain"]) PROVE e["subdomain"][i] = d["subdomain"][i]
  BY <1>3 DEF Inserted, Keyed
<1>5. ASSUME NEW i \in 1..Len(e["subdomain"]), i \notin 1..Len(d["subdomain"])
      PROVE  ~HasKey(d, e["subdomain"][i].key)
  BY <1>1, <1>3, <1>5
<1> QED BY <1>2, <1>4, <1>5 DEF Settles

\* A change of a row that keeps the link of a name, and deletes only names.
LEMMA EditSettles ==
    ASSUME NEW d, NEW e, RowsAre(d), NEW t \in Keyed, NEW k, NEW row, Edited(d, e, t, k, row), Grows(d, e),
           t = "subdomain" => row.link = d[t][k].link, t # "subdomain" => row.gone = d[t][k].gone
    PROVE  Settles(d, e)
<1>1. \A u \in Keyed : Len(e[u]) = Len(d[u]) /\ (u # t => e[u] = d[u]) BY DEF Edited, Keyed
<1>2. \A i \in 1..Len(d[t]) : e[t][i] = IF i = k THEN row ELSE d[t][i] BY DEF Edited
<1>3. "subdomain" \in Keyed BY DEF Keyed, Tables, LogTables
<1>4. OnlyNamesGo(d) => OnlyNamesGo(e)
  <2>1. SUFFICES ASSUME OnlyNamesGo(d), NEW u \in Keyed \ {"subdomain"}, NEW i \in 1..Len(e[u])
                 PROVE  e[u][i].gone = FALSE
    BY DEF OnlyNamesGo
  <2>2. i \in 1..Len(d[u]) /\ d[u][i].gone = FALSE BY <1>1, <2>1 DEF OnlyNamesGo
  <2>3. e[u][i].gone = d[u][i].gone BY <1>1, <1>2, <2>2
  <2> QED BY <2>2, <2>3
<1>5. ASSUME NEW i \in 1..Len(d["subdomain"])
      PROVE  /\ e["subdomain"][i].link = d["subdomain"][i].link
             /\ d["subdomain"][i].gone => e["subdomain"][i].gone
  <2>1. CASE t = "subdomain" BY <1>2, <2>1 DEF Edited
  <2>2. CASE t # "subdomain" BY <1>1, <1>3, <2>2
  <2> QED BY <2>1, <2>2
<1> QED BY <1>1, <1>3, <1>4, <1>5 DEF Settles

-----------------------------------------------------------------------------
\* What every action makes of it.

\* A scan that nothing happens to stays whole, and all that are whole after a
\* step are whole in the next state.
LEMMA OthersWhole ==
    ASSUME EInv, WInv, Settles(db, db'), together \subseteq together', NEW x \in Scans
    PROVE  WholeIs(plan[x], scan[x], db', together')
<1> DEFINE r == scan[x]
<1>1. Sound(db, together) /\ WholeIs(plan[x], r, db, together) BY DEF EInv, WInv
<1> HIDE DEF r
<1>2. Carries(plan[x], r, r, db') BY DEF Carries
<1>3. WholeIs(plan[x], r, db', together') BY <1>1, <1>2, WholeOn
<1> QED BY <1>3 DEF r
LEMMA AllWhole ==
    ASSUME WInv, plan' = plan, foreignKeys' = foreignKeys, Settles(db, db'),
           \A x \in Scans : WholeIs(plan[x], scan'[x], db', together')
    PROVE  WInv'
<1>1. OnlyNamesGo(db') BY DEF WInv, Settles
<1>2. ASSUME NEW x \in Scans PROVE WholeIs(plan[x], scan[x], db, together)'
  <2>1. WholeIs(plan[x], scan'[x], db', together') OBVIOUS
  <2>2. \A t : Linkable(t)' <=> Linkable(t) BY DEF Linkable
  <2>3. ServicesDue(plan[x], scan[x], db)' <=> ServicesDue(plan[x], scan'[x], db')
    BY <2>2 DEF ServicesDue, Taken, ToCome, HasRow, RowAt
  <2> QED BY <2>1, <2>3 DEF WholeIs, Doing
<1> QED BY <1>1, <1>2 DEF WInv

\* One scan does something that leaves it whole, and leaves the others so.
LEMMA OneScanWhole ==
    ASSUME EInv, WInv, plan' = plan, foreignKeys' = foreignKeys, NEW s \in Scans, NEW q,
           scan' = [scan EXCEPT ![s] = q], Settles(db, db'), together \subseteq together',
           WholeIs(plan[s], q, db', together')
    PROVE  WInv'
<1>1. DOMAIN scan = Scans BY DEF EInv
<1>2. ASSUME NEW x \in Scans PROVE WholeIs(plan[x], scan'[x], db', together')
  <2>1. CASE x = s BY <2>1, <1>1
  <2>2. CASE x # s
    <3>1. scan'[x] = scan[x] BY <2>2, <1>1
    <3>2. WholeIs(plan[x], scan[x], db', together') BY OthersWhole
    <3> QED BY <3>1, <3>2
  <2> QED BY <2>1, <2>2
<1> QED BY <1>2, AllWhole

\* A scan that something has happened to is not looked at any more.
LEMMA HurtWhole ==
    ASSUME EInv, WInv, plan' = plan, foreignKeys' = foreignKeys, NEW s \in Scans, NEW q,
           scan' = [scan EXCEPT ![s] = q], db' = db, together' = together, ~Unhurt(q)
    PROVE  WInv'
<1>1. RowsAre(db) BY DEF EInv, Sound
<1>2. Settles(db, db') BY <1>1, SameSettles
<1>3. WholeIs(plan[s], q, db', together') BY DEF WholeIs
<1> QED BY <1>2, <1>3, OneScanWhole

\* The scan goes on past k operations.
Passes(r, k, id, e, org) ==
    LET o == r.todo[1]
    IN r.step \in NameSteps \cup {"port"} /\ Ready(r) =>
         /\ \/ k = 0 /\ id \in Nat \ {NoRow}
            \/ k = 0 /\ id = NoRow /\ o.table \in LogTables
            \/ k = o.skip /\ id = NoRow /\ o.table \in UniqueTables \cup LinkedTables
         /\ o.table = "subdomain" => HasKey(e, o.key)
         /\ o.table = "service" /\ Linkable(o.key[1]) => HasRow(e, "service", org, o.key)
LEMMA OnwardWhole ==
    ASSUME EInv, WInv, plan' = plan, foreignKeys' = foreignKeys, together' = together,
           NEW s \in Scans, Settles(db, db'), scan[s].todo # <<>>, NEW k, NEW id, Onward(s, k, id),
           Passes(scan[s], k, id, db', Org(s))
    PROVE  WInv'
<1> DEFINE r == scan[s]
           p == plan[s]
           q == Past(r, k, id)
<1>1. DOMAIN r = ScanFields /\ Sound(db, together) /\ p.org = Org(s) BY DEF EInv, ScanIs, Org
<1>2. /\ q.step = r.step /\ q.steps = r.steps /\ q.targets = r.targets /\ q.status = r.status
      /\ q.trouble = r.trouble /\ q.cancelled = r.cancelled
  BY <1>1 DEF Past, ScanFields
<1>3. Unhurt(q) => Unhurt(r) BY <1>2 DEF Unhurt
<1>4. WholeIs(p, r, db, together) BY DEF WInv
<1>5. scan' = [scan EXCEPT ![s] = q] BY DEF Onward
<1>6. Carries(p, r, q, db')
  <2>1. SUFFICES ASSUME r.step \in NameSteps \cup {"port"}, Ready(r)
                 PROVE  /\ Ready(q)
                        /\ \A n : ToCome(r.todo, "subdomain", n) =>
                              ToCome(q.todo, "subdomain", n) \/ HasKey(db', n)
                        /\ \A h \in OpenPorts : ToCome(r.todo, "service", h) /\ Linkable(h[1]) =>
                              ToCome(q.todo, "service", h) \/ HasRow(db', "service", p.org, h)
    BY DEF Carries
  <2> DEFINE o == r.todo[1]
  <2>2. /\ \/ k = 0 /\ id \in Nat \ {NoRow}
           \/ k = 0 /\ id = NoRow /\ o.table \in LogTables
           \/ k = o.skip /\ id = NoRow /\ o.table \in UniqueTables \cup LinkedTables
        /\ o.table = "subdomain" => HasKey(db', o.key)
        /\ o.table = "service" /\ Linkable(o.key[1]) => HasRow(db', "service", Org(s), o.key)
    BY <2>1 DEF Passes
  <2> HIDE DEF r, q
  <2>3. /\ Ready(Past(r, k, id))
        /\ \A t, key : ToCome(r.todo, t, key) /\ t \notin LogTables =>
              ToCome(Past(r, k, id).todo, t, key) \/ (o.table = t /\ o.key = key)
    BY <1>1, <2>1, <2>2, Passed DEF r
  <2>4. q = Past(r, k, id) BY DEF q
  <2>5. "subdomain" \notin LogTables /\ "service" \notin LogTables BY DEF LogTables
  <2> HIDE DEF p, o
  <2> QED BY <1>1, <2>2, <2>3, <2>4, <2>5
<1> HIDE DEF q, r, p
<1>7. WholeIs(p, q, db', together') BY <1>1, <1>2, <1>3, <1>4, <1>6, WholeOn
<1> QED BY <1>5, <1>7, OneScanWhole DEF p

\* The parent of a name, or of a service of an address, is in hand.
LEMMA ParentInHand ==
    ASSUME NEW p, NEW r, NEW d, ScanIs(p, r, d), RowsAre(d), Ready(r), r.todo # <<>>, Needs(r.todo[1])
    PROVE  LinkIn(r, r.todo[1]) \notin {NoRow, Dangling}
<1> DEFINE o == r.todo[1]
           key == ParentOf(o)
<1>1. IsSeq(r.todo) /\ 1 \in 1..Len(r.todo) BY FirstOp
<1>2. SturdyAt(r.todo, DOMAIN r.ids, 1) BY <1>1 DEF Ready, Sturdy
<1>3. key \in DOMAIN r.ids
  <2>1. key \in DOMAIN r.ids \/ \E j \in 1..(1 - 1) : Makes(r.todo[j], key) BY <1>2 DEF SturdyAt
  <2> HIDE DEF key
  <2> QED BY <2>1
<1>4. LinkIn(r, o) = r.ids[key] /\ r.ids[key] # Dangling BY <1>3 DEF LinkIn, Ready
<1>5. key[1] \in Keyed /\ RowAt(d, key[1], r.ids[key], p.org, key[2]) BY <1>3, <1>4 DEF ScanIs, IdsAre
<1>6. r.ids[key] \in 1..Len(d[key[1]]) /\ Len(d[key[1]]) \in Nat BY <1>5, TablesAre DEF RowAt
<1> HIDE DEF key
<1>7. r.ids[key] # NoRow BY <1>6 DEF NoRow
<1> QED BY <1>4, <1>7

\* FirstOrCreate writes.
LEMMA WriteWhole ==
    ASSUME EInv, WInv, NEW s \in Scans, WriteRow(s)
    PROVE  WInv'
<1> DEFINE r == scan[s]
           p == plan[s]
           o == r.todo[1]
           t == o.table
           link == LinkOf(s, o)
           found == r.found
<1>1. /\ plan' = plan /\ together' = together /\ foreignKeys' = foreignKeys
      /\ r.todo # <<>> /\ r.phase = "write"
  BY DEF WriteRow, Busy
<1>2. ScanIs(p, r, db) /\ RowsAre(db) BY DEF EInv, Sound
<1>3. Now1(s) = o /\ SoundOp(o) BY <1>1, <1>2, FirstOp DEF Now1
<1>4. /\ o.do = "upsert" /\ t \in Keyed
      /\ found = NoRow \/ RowAt(db, t, found, Org(s), o.key)
  <2>1. o.do = "upsert" /\ (found = NoRow \/ RowAt(db, t, found, p.org, o.key))
    BY <1>1, <1>2 DEF ScanIs, FoundIs
  <2> QED BY <2>1, <1>3 DEF SoundOp, Keyed, Org
<1>5. ASSUME NEW i, NEW e, RowAt(e, t, i, Org(s), o.key)
      PROVE  /\ t = "subdomain" => HasKey(e, o.key)
             /\ t = "service" => HasRow(e, "service", Org(s), o.key)
  <2>1. t = "subdomain" => HasKey(e, o.key) BY <1>5 DEF RowAt, HasKey
  <2>2. t = "service" => HasRow(e, "service", Org(s), o.key) BY <1>5 DEF HasRow
  <2> QED BY <2>1, <2>2
<1>6. ASSUME NEW i \in Nat \ {NoRow}, NEW e, RowAt(e, t, i, Org(s), o.key)
      PROVE  Passes(r, 0, i, e, Org(s))
  <2>1. /\ t = "subdomain" => HasKey(e, o.key)
        /\ t = "service" => HasRow(e, "service", Org(s), o.key)
    BY <1>5, <1>6
  <2> QED BY <2>1 DEF Passes
<1>7. CASE found # NoRow
  <2>1. /\ db' = IF t = "service" /\ r.step = "port" /\ link # NoRow /\ ~db["service"][found].gone
                 THEN [db EXCEPT !["service"][found].link = link] ELSE db
        /\ Onward(s, 0, found)
    BY <1>3, <1>7 DEF WriteRow
  <2>2. RowAt(db, t, found, Org(s), o.key) BY <1>4, <1>7
  <2>3. Settles(db, db')
    <3>1. CASE t = "service" /\ r.step = "port" /\ link # NoRow /\ ~db["service"][found].gone
      <4> DEFINE d == db["service"]
                 q == [d[found] EXCEPT !.link = link]
      <4>1. found \in 1..Len(d) BY <2>2, <3>1 DEF RowAt
      <4>2. found \in DOMAIN d /\ RowIs("service", d[found])
        BY <1>2, <1>4, <3>1, <4>1, TablesAre DEF RowsAre
      <4>3. q.org = d[found].org /\ q.key = d[found].key /\ q.gone = d[found].gone
        BY <4>2 DEF RowIs, RowFields
      <4>4. db' = [db EXCEPT !["service"] = [@ EXCEPT ![found] = q]] BY <2>1, <3>1
      <4> HIDE DEF q
      <4>5. "service" \in Keyed /\ "service" # "subdomain" BY <1>4, <3>1
      <4>6. Edited(db, db', "service", found, q) BY <1>2, <4>2, <4>3, <4>4, <4>5, EditIs
      <4>7. Grows(db, db') BY <1>2, <4>5, <4>6, EditGrows
      <4> QED BY <1>2, <4>3, <4>5, <4>6, <4>7, EditSettles
    <3>2. CASE ~(t = "service" /\ r.step = "port" /\ link # NoRow /\ ~db["service"][found].gone)
      <4>1. db' = db BY <2>1, <3>2
      <4> QED BY <1>2, <4>1, SameSettles
    <3> QED BY <3>1, <3>2
  <2>4. RowAt(db', t, found, Org(s), o.key)
    <3>1. Grows(db, db') BY <2>3 DEF Settles
    <3> QED BY <1>4, <2>2, <3>1, RowStays
  <2>5. found \in Nat \ {NoRow}
    <3>1. found \in 1..Len(db[t]) /\ Len(db[t]) \in Nat BY <1>2, <1>4, <2>2, TablesAre DEF RowAt
    <3> QED BY <1>7, <3>1
  <2>6. Passes(r, 0, found, db', Org(s)) BY <1>6, <2>4, <2>5
  <2> QED BY <1>1, <2>1, <2>3, <2>6, OnwardWhole
<1>8. CASE found = NoRow /\ ~Refused(s, o)
  <2> DEFINE n == Len(db[t])
             row == NewRow(s, o)
  <2>1. db' = [db EXCEPT ![t] = Append(@, row)] /\ Onward(s, 0, n + 1)
    BY <1>3, <1>8 DEF WriteRow
  <2>2. row.org = Org(s) /\ row.key = o.key /\ row.gone = FALSE BY DEF NewRow
  <2> HIDE DEF row
  <2>3. Inserted(db, db', t, row) BY <1>2, <1>4, <2>1, AppendIs
  <2>4. Grows(db, db') BY <1>2, <1>4, <2>3, AppendGrows
  <2>5. t = "subdomain" => ~HasKey(db, row.key)
    <3>1. SUFFICES ASSUME t = "subdomain" PROVE ~HasKey(db, o.key) BY <2>2
    <3>2. \A q \in ToSet(db["subdomain"]) : q.key # o.key
      BY <1>8, <3>1 DEF Refused, UniqueTables
    <3>3. DOMAIN db["subdomain"] = 1..Len(db["subdomain"]) BY <1>2, <1>4, <3>1, TablesAre
    <3> QED BY <3>2, <3>3 DEF HasKey, ToSet
  <2>6. Settles(db, db') BY <1>2, <1>4, <2>2, <2>3, <2>4, <2>5, AppendSettles
  <2>7. n \in Nat /\ Len(db'[t]) = n + 1 /\ db'[t][n + 1] = row BY <2>3 DEF Inserted
  <2> HIDE DEF n
  <2>8. RowAt(db', t, n + 1, Org(s), o.key) BY <2>2, <2>7 DEF RowAt
  <2>9. n + 1 \in Nat \ {NoRow} BY <2>7 DEF NoRow
  <2>10. Passes(r, 0, n + 1, db', Org(s)) BY <1>6, <2>8, <2>9
  <2> QED BY <1>1, <2>1, <2>6, <2>10, OnwardWhole
<1>9. CASE found = NoRow /\ Refused(s, o)
  <2> DEFINE id == IF t = "service" /\ r.step = "web" THEN Dangling ELSE NoRow
  <2>1. db' = db /\ Onward(s, o.skip, id) BY <1>3, <1>9 DEF WriteRow, Fails
  <2>2. Settles(db, db') BY <1>2, <2>1, SameSettles
  <2>3. ASSUME r.step \in NameSteps \cup {"port"}, Ready(r)
        PROVE  /\ id = NoRow /\ t \in UniqueTables \cup LinkedTables
               /\ t = "subdomain" => HasKey(db', o.key)
               /\ ~(t = "service" /\ Linkable(o.key[1]))
    <3>1. id = NoRow BY <2>3 DEF NameSteps
    <3>2. t \in UniqueTables \cup LinkedTables BY <1>9 DEF Refused
    <3>3. LinkOf(s, o) = LinkIn(r, o) BY DEF LinkOf, LinkIn
    <3>4. Needs(o) => LinkOf(s, o) \notin {NoRow, Dangling} BY <1>1, <1>2, <2>3, <3>3, ParentInHand
    <3>5. ASSUME t = "subdomain" PROVE HasKey(db, o.key)
      <4>1. Needs(o) BY <3>5 DEF Needs
      <4>2. \E q \in ToSet(db["subdomain"]) : q.key = o.key BY <1>9, <3>4, <3>5, <4>1 DEF Refused
      <4>3. DOMAIN db["subdomain"] = 1..Len(db["subdomain"]) BY <1>2, <1>4, <3>5, TablesAre
      <4> QED BY <4>2, <4>3 DEF HasKey, ToSet
    <3>6. ASSUME t = "service", Linkable(o.key[1]) PROVE FALSE
      <4>1. t \notin UniqueTables BY <3>6 DEF UniqueTables
      <4>2. foreignKeys /\ LinkOf(s, o) \in {NoRow, Dangling} BY <1>9, <4>1 DEF Refused
      <4>3. Needs(o) BY <3>6, <4>2 DEF Needs, Linkable
      <4> QED BY <3>4, <4>2, <4>3
    <3> QED BY <2>1, <3>1, <3>2, <3>5, <3>6
  <2> HIDE DEF id
  <2>4. Passes(r, o.skip, id, db', Org(s)) BY <2>3 DEF Passes
  <2> QED BY <1>1, <2>1, <2>2, <2>4, OnwardWhole
<1> QED BY <1>7, <1>8, <1>9

\* An insert into a log.
LEMMA CreateWhole ==
    ASSUME EInv, WInv, NEW s \in Scans, CreateRow(s)
    PROVE  WInv'
<1> DEFINE r == scan[s]
           o == r.todo[1]
<1>1. /\ plan' = plan /\ together' = together /\ foreignKeys' = foreignKeys /\ r.todo # <<>>
      /\ Onward(s, 0, NoRow)
  BY DEF CreateRow, Busy
<1>2. ScanIs(plan[s], r, db) /\ RowsAre(db) BY DEF EInv, Sound
<1>3. Now1(s) = o BY <1>1, <1>2, FirstOp DEF Now1
<1>4. /\ o.table \in LogTables \/ o.do = "shots"
      /\ db' = IF o.do = "shots" THEN db ELSE [db EXCEPT ![o.table] = @ \cup {NewRow(s, o)}]
  BY <1>3 DEF CreateRow
<1>5. \A t \in Keyed : db'[t] = db[t]
  <2>1. \A t \in Keyed : t \notin LogTables BY DEF Keyed
  <2> HIDE DEF o
  <2> QED BY <1>4, <2>1
<1>6. Settles(db, db') BY <1>2, <1>5, SameSettles
<1>7. Passes(r, 0, NoRow, db', Org(s))
  <2>1. ASSUME Ready(r) PROVE o.table \in LogTables
    <3>1. 1 \in 1..Len(r.todo) BY <1>1, <1>2, FirstOp
    <3>2. SturdyAt(r.todo, DOMAIN r.ids, 1) BY <2>1, <3>1 DEF Ready, Sturdy
    <3> QED BY <1>4, <3>2 DEF SturdyAt
  <2>2. "subdomain" \notin LogTables /\ "service" \notin LogTables BY DEF LogTables
  <2> HIDE DEF r
  <2> QED BY <2>1, <2>2 DEF Passes
<1> QED BY <1>1, <1>6, <1>7, OnwardWhole

\* FirstOrCreate looks.
LEMMA LookWhole ==
    ASSUME EInv, WInv, NEW s \in Scans, LookUp(s)
    PROVE  WInv'
<1> DEFINE r == scan[s]
           p == plan[s]
           o == r.todo[1]
<1>1. /\ plan' = plan /\ db' = db /\ together' = together /\ foreignKeys' = foreignKeys
      /\ r.todo # <<>>
  BY DEF LookUp, Busy
<1>2. ScanIs(p, r, db) /\ RowsAre(db) /\ Sound(db, together) BY DEF EInv, Sound
<1>3. Now1(s) = o BY <1>1, <1>2, FirstOp DEF Now1
<1>4. \E found \in IF LinkOf(s, o) = Dangling /\ o.table = "tech" THEN {NoRow}
                   ELSE FirstOf(RowsOf(o.table, Org(s), o.key)) :
         IF o.do = "find" THEN Onward(s, IF found # NoRow THEN o.spare ELSE 0, found)
         ELSE scan' = [scan EXCEPT ![s].phase = "write", ![s].found = found]
  BY <1>3 DEF LookUp
<1>5. PICK found : IF o.do = "find" THEN Onward(s, IF found # NoRow THEN o.spare ELSE 0, found)
                   ELSE scan' = [scan EXCEPT ![s].phase = "write", ![s].found = found]
  BY <1>4
<1>6. Settles(db, db') BY <1>1, <1>2, SameSettles
<1>7. CASE o.do = "find"
  <2> DEFINE k == IF found # NoRow THEN o.spare ELSE 0
  <2>1. Onward(s, k, found) BY <1>5, <1>7
  <2>2. ASSUME Ready(r) PROVE FALSE
    <3>1. 1 \in 1..Len(r.todo) BY <1>1, <1>2, FirstOp
    <3>2. SturdyAt(r.todo, DOMAIN r.ids, 1) BY <2>2, <3>1 DEF Ready, Sturdy
    <3> QED BY <1>7, <3>2 DEF SturdyAt
  <2> HIDE DEF k
  <2>3. Passes(r, k, found, db', Org(s)) BY <2>2 DEF Passes
  <2> QED BY <1>1, <1>6, <2>1, <2>3, OnwardWhole
<1>8. CASE o.do # "find"
  <2> DEFINE q == [[r EXCEPT !.phase = "write"] EXCEPT !.found = found]
  <2>1. scan' = [scan EXCEPT ![s] = q] BY <1>5, <1>8 DEF EInv
  <2>2. DOMAIN r = ScanFields BY <1>2 DEF ScanIs
  <2>3. /\ q.todo = r.todo /\ q.status = r.status /\ q.steps = r.steps /\ q.step = r.step
        /\ q.targets = r.targets /\ q.ids = r.ids /\ q.trouble = r.trouble
        /\ q.cancelled = r.cancelled
    BY <2>2 DEF ScanFields
  <2> HIDE DEF q
  <2>4. Unhurt(q) => Unhurt(r) BY <2>3 DEF Unhurt
  <2>5. WholeIs(p, r, db, together) BY DEF WInv
  <2>6. Carries(p, r, q, db') BY <2>3 DEF Carries, Ready
  <2> HIDE DEF r
  <2>7. WholeIs(p, q, db', together') BY <1>1, <1>2, <1>6, <2>3, <2>4, <2>5, <2>6, WholeOn
  <2> QED BY <1>1, <1>6, <2>1, <2>7, OneScanWhole
<1> QED BY <1>7, <1>8

\* A failed statement, a cancellation, and the step that one cuts short.
LEMMA FaultWhole ==
    ASSUME EInv, WInv, NEW s \in Scans, Fault(s)
    PROVE  WInv'
<1> DEFINE id == IF Now1(s).table = "service" /\ scan[s].step = "web" /\ Now1(s).do = "upsert"
                 THEN Dangling ELSE NoRow
           q == Past(scan[s], Now1(s).skip, id)
           x == [q EXCEPT !.trouble = TRUE]
<1>1. /\ plan' = plan /\ db' = db /\ together' = together /\ foreignKeys' = foreignKeys
      /\ scan' = [scan EXCEPT ![s] = x]
  BY DEF Fault
<1>2. DOMAIN scan[s] = ScanFields BY DEF EInv, ScanIs
<1> HIDE DEF id
<1>3. DOMAIN q = ScanFields BY <1>2 DEF Past
<1> HIDE DEF q
<1>4. x.trouble = TRUE BY <1>3 DEF ScanFields
<1> HIDE DEF x
<1> QED BY <1>1, <1>4, HurtWhole DEF Unhurt
LEMMA CancelWhole ==
    ASSUME EInv, WInv, NEW s \in Scans, CancelRun(s)
    PROVE  WInv'
<1> DEFINE x == [scan[s] EXCEPT !.cancelled = TRUE]
<1>1. /\ plan' = plan /\ db' = db /\ together' = together /\ foreignKeys' = foreignKeys
      /\ scan' = [scan EXCEPT ![s] = x]
  BY DEF CancelRun
<1>2. DOMAIN scan[s] = ScanFields BY DEF EInv, ScanIs
<1>3. x.cancelled = TRUE BY <1>2 DEF ScanFields
<1> HIDE DEF x
<1> QED BY <1>1, <1>3, HurtWhole DEF Unhurt
LEMMA CutWhole ==
    ASSUME EInv, WInv, NEW s \in Scans, CutShort(s)
    PROVE  WInv'
<1> DEFINE y == Those(scan[s].todo, LAMBDA o : o.sure)
           x == [scan[s] EXCEPT !.todo = y]
<1>1. /\ plan' = plan /\ db' = db /\ together' = together /\ foreignKeys' = foreignKeys
      /\ scan[s].cancelled
  BY DEF CutShort
<1>2. scan' = [scan EXCEPT ![s] = x] BY DEF CutShort
<1> HIDE DEF y
<1>3. DOMAIN scan[s] = ScanFields BY DEF EInv, ScanIs
<1>4. x.cancelled = scan[s].cancelled BY <1>3 DEF ScanFields
<1> HIDE DEF x
<1> QED BY <1>1, <1>2, <1>4, HurtWhole DEF Unhurt

\* The worker takes the scan: nothing is due yet.
LEMMA StartWhole ==
    ASSUME EInv, WInv, NEW s \in Scans, StartScan(s)
    PROVE  WInv'
<1> DEFINE r == scan[s]
           p == plan[s]
           status == IF p.targets = <<>> THEN "failed" ELSE "running"
           x == [[[r EXCEPT !.status = status] EXCEPT !.steps = StepsOf(p.kind)]
                  EXCEPT !.targets = p.targets]
<1>1. ScanIs(p, r, db) /\ r.status = "pending" /\ RowsAre(db) BY DEF EInv, StartScan, Sound
<1>2. scan' = [scan EXCEPT ![s] = x] BY DEF StartScan, targetsFromPayload, EInv
<1>3. /\ plan' = plan /\ db' = db /\ foreignKeys' = foreignKeys /\ together \subseteq together'
  BY DEF StartScan
<1>4. DOMAIN r = ScanFields BY <1>1 DEF ScanIs
<1>5. /\ x.status = status /\ x.steps = StepsOf(p.kind) /\ x.step = r.step /\ x.targets = p.targets
  BY <1>4 DEF ScanFields
<1>6. Idle(x) BY <1>1, <1>5 DEF ScanIs, Going, Idle
<1> HIDE DEF x
<1>7. x.status # "completed" BY <1>5
<1> DEFINE y == StepsOf(p.kind)
<1>8. IsSeq(y) /\ Len(y) \in Nat
  <2>1. CASE p.kind = "full"
    <3> DEFINE z == <<"network", "subdomain", "port", "dns", "web">>
    <3>1. z \in [1..5 -> StepNames] BY DEF StepNames
    <3>2. y = z BY <2>1 DEF StepsOf
    <3> HIDE DEF z, y
    <3>3. 5 \in Nat OBVIOUS
    <3>4. IsSeq(z) /\ Len(z) = 5 BY <3>1, <3>3, FunctionIsSeq
    <3> QED BY <3>2, <3>4
  <2>2. CASE p.kind # "full"
    <3>1. y = <<p.kind>> BY <2>2 DEF StepsOf
    <3> HIDE DEF y, p
    <3> QED BY <3>1, One1
  <2> QED BY <2>1, <2>2
<1>9. Taken(p, x) = 0
  <2> HIDE DEF y
  <2>1. Taken(p, x) = Len(y) - Len(y) BY <1>5 DEF Taken, y
  <2> QED BY <2>1, <1>8
<1>10. Due(p) \in {1, 2} BY DEF Due
<1>11. WayIs(p, x) BY <1>5, <1>6, <1>7, <1>8, <1>9 DEF WayIs
<1>12. x.step \notin NameSteps \cup {"port"}
  BY <1>6, IdleHasNone DEF NameSteps, StepNames
<1>13. NamesDue(p, x, db') BY <1>9, <1>10 DEF NamesDue
<1>14. ServicesDue(p, x, db') BY <1>9 DEF ServicesDue
<1>15. Swept(p, x, db', together') BY <1>9, <1>10 DEF Swept, Sorted
<1>16. WholeIs(p, x, db', together') BY <1>11, <1>12, <1>13, <1>14, <1>15 DEF WholeIs, Doing
<1>17. Settles(db, db') BY <1>1, <1>3, SameSettles
<1> QED BY <1>2, <1>3, <1>16, <1>17, OneScanWhole

\* A user deletes a subdomain, or settles a finding.
LEMMA EditsWhole ==
    ASSUME EInv, WInv, plan' = plan, foreignKeys' = foreignKeys, scan' = scan, together' = together,
           Settles(db, db')
    PROVE  WInv'
<1>1. \A x \in Scans : WholeIs(plan[x], scan[x], db', together') BY OthersWhole
<1> QED BY <1>1, AllWhole
LEMMA DeleteWhole ==
    ASSUME EInv, WInv, BulkDeleteSubdomains
    PROVE  WInv'
<1>1. PICK i \in DOMAIN db["subdomain"] :
         /\ db' = [db EXCEPT !["subdomain"][i].gone = TRUE]
         /\ plan' = plan /\ scan' = scan /\ together' = together /\ foreignKeys' = foreignKeys
  BY DEF BulkDeleteSubdomains
<1> DEFINE d == db["subdomain"]
           r == [d[i] EXCEPT !.gone = TRUE]
<1>2. "subdomain" \in Keyed BY DEF Keyed, Tables, LogTables
<1>3. RowsAre(db) /\ i \in 1..Len(d) BY <1>2, TablesAre DEF EInv, Sound
<1>4. RowIs("subdomain", d[i]) BY <1>2, <1>3 DEF EInv, Sound, RowsAre
<1>5. r.org = d[i].org /\ r.key = d[i].key /\ r.link = d[i].link /\ r.gone
  BY <1>4 DEF RowIs, RowFields
<1>6. db' = [db EXCEPT !["subdomain"] = [@ EXCEPT ![i] = r]] BY <1>1
<1> HIDE DEF r
<1>7. Edited(db, db', "subdomain", i, r) BY <1>1, <1>2, <1>3, <1>5, <1>6, EditIs
<1>8. Grows(db, db') BY <1>2, <1>3, <1>7, EditGrows
<1>9. Settles(db, db') BY <1>2, <1>3, <1>5, <1>7, <1>8, EditSettles
<1> QED BY <1>1, <1>9, EditsWhole
LEMMA IgnoreWhole ==
    ASSUME EInv, WInv, BulkIgnoreFindings
    PROVE  WInv'
<1>1. PICK i \in DOMAIN db["finding"] :
         /\ db' = [db EXCEPT !["finding"][i].status = "false_positive"]
         /\ plan' = plan /\ scan' = scan /\ together' = together /\ foreignKeys' = foreignKeys
  BY DEF BulkIgnoreFindings
<1> DEFINE d == db["finding"]
           r == [d[i] EXCEPT !.status = "false_positive"]
<1>2. "finding" \in Keyed BY DEF Keyed, Tables, LogTables
<1>3. RowsAre(db) /\ i \in 1..Len(d) BY <1>2, TablesAre DEF EInv, Sound
<1>4. RowIs("finding", d[i]) BY <1>2, <1>3 DEF EInv, Sound, RowsAre
<1>5. r.org = d[i].org /\ r.key = d[i].key /\ r.gone = d[i].gone
  BY <1>4 DEF RowIs, RowFields
<1>6. db' = [db EXCEPT !["finding"] = [@ EXCEPT ![i] = r]] BY <1>1
<1> HIDE DEF r
<1>7. Edited(db, db', "finding", i, r) BY <1>1, <1>2, <1>3, <1>5, <1>6, EditIs
<1>8. Grows(db, db') BY <1>2, <1>3, <1>7, EditGrows
<1>9. Settles(db, db') BY <1>2, <1>3, <1>5, <1>7, <1>8, EditSettles
<1> QED BY <1>1, <1>9, EditsWhole

\* What a step begins with can be carried out, and in it is to come what the
\* step is for.
LEMMA BeginsReady ==
    ASSUME NEW s, NEW step, NEW targets, NEW visits, IsSeq(targets), ToSet(targets) \subseteq DOMAIN Bare,
           step = "scheduled" => targets # <<>>
    PROVE  LET x == StepOps(s, step, targets, visits)
           IN /\ step \in NameSteps \cup {"port"} => Sturdy(x, {})
              /\ step = "subdomain" =>
                    \A t \in ToSet(targets) : \A n \in Resolving[Bare[t]] \cup Chained[Bare[t]] :
                       ToCome(x, "subdomain", n)
              /\ step = "scheduled" => \A n \in Resolving[Bare[targets[1]]] : ToCome(x, "subdomain", n)
              /\ step = "port" =>
                    \A q \in OpenPorts : q[1] \in ToSet(targets) => ToCome(x, "service", q)
<1>1. CASE step = "subdomain"
  <2>1. /\ Sturdy(runSubdomain(s, targets), {})
        /\ \A i \in 1..Len(targets) :
              \A n \in Resolving[Bare[targets[i]]] \cup Chained[Bare[targets[i]]] :
                 ToCome(runSubdomain(s, targets), "subdomain", n)
    BY SubdomainReady
  <2>2. DOMAIN targets = 1..Len(targets) BY SeqIs
  <2>3. \A t \in ToSet(targets) : \E i \in 1..Len(targets) : t = targets[i] BY <2>2 DEF ToSet
  <2>4. StepOps(s, step, targets, visits) = runSubdomain(s, targets) BY <1>1 DEF StepOps
  <2> QED BY <1>1, <2>1, <2>3, <2>4
<1>2. CASE step = "scheduled"
  <2>1. Len(targets) \in Nat /\ DOMAIN targets = 1..Len(targets) /\ Len(targets) # 0 BY <1>2, SeqIs
  <2>2. targets[1] \in DOMAIN Bare BY <2>1 DEF ToSet
  <2> DEFINE domain == Bare[targets[1]]
  <2>3. domain \in DOMAIN Bare BY <2>2, ScanExecutionAssumption
  <2>4. StepOps(s, step, targets, visits) = handleSubdomainScan(domain)
    BY <1>2 DEF StepOps, normalizeDomain
  <2> HIDE DEF domain
  <2>5. /\ Sturdy(handleSubdomainScan(domain), {})
        /\ \A n \in Resolving[domain] : ToCome(handleSubdomainScan(domain), "subdomain", n)
    BY <2>3, ScheduledReady
  <2> QED BY <1>2, <2>4, <2>5 DEF domain
<1>3. CASE step = "port"
  <2>1. StepOps(s, step, targets, visits) = runPort(s, targets) BY <1>3 DEF StepOps
  <2>2. /\ Sturdy(runPort(s, targets), {})
        /\ \A q \in OpenPorts : q[1] \in ToSet(targets) => ToCome(runPort(s, targets), "service", q)
    BY PortReady
  <2> QED BY <1>3, <2>1, <2>2
<1> QED BY <1>1, <1>2, <1>3 DEF NameSteps

\* A step begins: what was found before it is on record, and what it is for is
\* to come.
LEMMA Begins ==
    ASSUME NEW s, NEW p, NEW r, NEW d, NEW orgs, NEW v, Doing(p, r, d, orgs), Idle(r), RouteIs(p, r),
           r.steps # <<>>, p.kind = "scheduled" => r.targets # <<>>,
           NEW x, x.step = r.steps[1], x.steps = SubSeq(r.steps, 2, Len(r.steps)), x.ids = <<>>,
           x.targets = r.targets, x.status = "running", x.todo = StepOps(s, x.step, r.targets, v)
    PROVE  Doing(p, x, d, orgs)
<1> DEFINE k == Taken(p, r)
           way == StepsOf(p.kind)
           step == r.steps[1]
<1>1. /\ WayIs(p, r) /\ NamesDue(p, r, d) /\ ServicesDue(p, r, d) /\ Swept(p, r, d, orgs)
  BY DEF Doing
<1>2. /\ IsSeq(r.steps) /\ IsSeq(r.targets) /\ ToSet(r.targets) \subseteq DOMAIN Bare
      /\ \A i \in 1..Len(r.steps) : r.steps[i] \in StepNames /\ (r.steps[i] = "scheduled" => p.kind = "scheduled")
  BY DEF RouteIs
<1>3. Len(r.steps) \in Nat /\ Len(r.steps) # 0 BY <1>2, SeqIs
<1>4. k \in 0..Len(way) /\ k = Len(way) - Len(r.steps) /\ \A i \in 1..Len(r.steps) : r.steps[i] = way[k + i]
  BY <1>1 DEF WayIs, Taken
<1>5. step \in StepNames /\ (step = "scheduled" => p.kind = "scheduled") /\ step = way[k + 1]
  <2>1. 1 \in 1..Len(r.steps) BY <1>3
  <2>2. r.steps[1] \in StepNames /\ (r.steps[1] = "scheduled" => p.kind = "scheduled") BY <1>2, <2>1
  <2>3. r.steps[1] = way[k + 1] BY <1>4, <2>1
  <2> HIDE DEF way, k
  <2> QED BY <2>2, <2>3
<1>6. \/ /\ p.kind = "full" /\ Len(way) = 5 /\ way[1] = "network" /\ way[2] = "subdomain"
         /\ way[3] = "port" /\ way[4] = "dns" /\ way[5] = "web"
      \/ p.kind # "full" /\ Len(way) = 1 /\ way[1] = p.kind
  BY StepsAre
<1> HIDE DEF way, k, step
<1>7. k \in Nat /\ k + 1 \in 0..Len(way) BY <1>3, <1>4, <1>6
<1>8. x.step = step BY DEF step
<1>9. ~Idle(x)
  <2>1. x.step \in StepNames BY <1>5, <1>8
  <2> QED BY <2>1, IdleHasNone
<1>10. /\ IsSeq(x.steps) /\ Len(x.steps) = Len(r.steps) - 1
       /\ \A i \in 1..Len(x.steps) : i + 1 \in 1..Len(r.steps) /\ x.steps[i] = r.steps[i + 1]
  <2> DEFINE y == SubSeq(r.steps, 0 + 2, Len(r.steps))
  <2>1. /\ IsSeq(y) /\ Len(y) = IF 0 + 2 <= Len(r.steps) THEN Len(r.steps) - 0 - 1 ELSE 0
        /\ \A i \in 1..Len(y) : i + 0 + 1 \in 1..Len(r.steps) /\ y[i] = r.steps[i + 0 + 1]
    <3>1. IsSeq(r.steps) /\ 0 \in Nat BY <1>2
    <3> QED BY <3>1, RestIs, Zenon
  <2>2. x.steps = y OBVIOUS
  <2> HIDE DEF y
  <2>3. Len(y) \in Nat BY <2>1, SeqIs
  <2>4. Len(y) = Len(r.steps) - 1 BY <2>1, <1>3
  <2>5. ASSUME NEW i \in 1..Len(y) PROVE i + 1 \in 1..Len(r.steps) /\ y[i] = r.steps[i + 1]
    <3>1. i + 0 + 1 = i + 1 BY <2>3
    <3> QED BY <3>1, <2>1
  <2> QED BY <2>1, <2>2, <2>4, <2>5
<1>11. Taken(p, x) = k + 1
  <2> DEFINE m == Len(way)
             n == Len(r.steps)
  <2>1. Taken(p, x) = m - (n - 1) BY <1>10 DEF Taken, way
  <2>2. m \in Nat /\ n \in Nat /\ k = m - n BY <1>3, <1>4, <1>6
  <2> HIDE DEF m, n
  <2> QED BY <2>1, <2>2
<1>12. Due(p) = IF p.kind = "full" THEN 2 ELSE 1 BY DEF Due
<1>13. (Sorted(p, x) <=> k >= Due(p)) /\ (Sorted(p, r) <=> k >= Due(p))
  BY <1>7, <1>9, <1>11, <1>12 DEF Sorted, k
<1>14. WayIs(p, x)
  <2>1. \A i \in 1..Len(x.steps) : x.steps[i] = way[(k + 1) + i]
    <3>1. TAKE i \in 1..Len(x.steps)
    <3>2. i + 1 \in 1..Len(r.steps) /\ x.steps[i] = r.steps[i + 1] BY <1>10
    <3>3. r.steps[i + 1] = way[k + (i + 1)] BY <3>2, <1>4
    <3>4. k + (i + 1) = (k + 1) + i BY <1>7, <3>2
    <3> QED BY <3>2, <3>3, <3>4
  <2>2. p.kind \in NameSteps \cup {"full"} /\ ~Sorted(p, x) => x.targets = p.targets
    BY <1>1, <1>13 DEF WayIs
  <2>3. x.step = way[k + 1] /\ k + 1 >= 1 BY <1>5, <1>7, <1>8
  <2>4. x.status # "completed" OBVIOUS
  <2> QED BY <1>7, <1>10, <1>11, <2>1, <2>2, <2>3, <2>4 DEF WayIs, way
<1>15. step = "scheduled" => r.targets # <<>> BY <1>5
<1>16. /\ step \in NameSteps \cup {"port"} => Sturdy(x.todo, {})
       /\ step = "subdomain" =>
             \A t \in ToSet(r.targets) : \A n \in Resolving[Bare[t]] \cup Chained[Bare[t]] :
                ToCome(x.todo, "subdomain", n)
       /\ step = "scheduled" => \A n \in Resolving[Bare[r.targets[1]]] : ToCome(x.todo, "subdomain", n)
       /\ step = "port" => \A q \in OpenPorts : q[1] \in ToSet(r.targets) => ToCome(x.todo, "service", q)
  <2>1. x.todo = StepOps(s, step, r.targets, v) BY <1>8
  <2> DEFINE targets == r.targets
  <2>2. IsSeq(targets) /\ ToSet(targets) \subseteq DOMAIN Bare /\ (step = "scheduled" => targets # <<>>)
    BY <1>2, <1>15
  <2> HIDE DEF targets
  <2>3. /\ step \in NameSteps \cup {"port"} => Sturdy(StepOps(s, step, targets, v), {})
        /\ step = "subdomain" =>
              \A t \in ToSet(targets) : \A n \in Resolving[Bare[t]] \cup Chained[Bare[t]] :
                 ToCome(StepOps(s, step, targets, v), "subdomain", n)
        /\ step = "scheduled" =>
              \A n \in Resolving[Bare[targets[1]]] : ToCome(StepOps(s, step, targets, v), "subdomain", n)
        /\ step = "port" => \A q \in OpenPorts :
              q[1] \in ToSet(targets) => ToCome(StepOps(s, step, targets, v), "service", q)
    BY <2>2, BeginsReady
  <2> QED BY <2>1, <2>3 DEF targets
<1>17. x.step \in NameSteps \cup {"port"} => Ready(x)
  <2>1. DOMAIN <<>> = {}
    <3>1. IsSeq(<<>>) /\ Len(<<>>) = 0 BY EmptySeq DEF IsSeq
    <3> QED BY <3>1, SeqIs
  <2>2. DOMAIN x.ids = {} BY <2>1
  <2> QED BY <1>8, <1>16, <2>2 DEF Ready
<1>18. r.step \notin NameSteps \cup {"port"} BY IdleHasNone DEF NameSteps, StepNames
<1>19. NamesDue(p, x, d)
  <2>1. SUFFICES ASSUME k + 1 >= Due(p), NEW n \in NamesOf(p)
                 PROVE  HasKey(d, n) \/ (x.step \in NameSteps /\ ToCome(x.todo, "subdomain", n))
    BY <1>11 DEF NamesDue
  <2>2. CASE k >= Due(p) BY <2>2, <1>1, <1>18 DEF NamesDue, k
  <2>3. CASE ~(k >= Due(p))
    <3>1. k + 1 = Due(p) BY <2>1, <2>3, <1>7, <1>12
    <3>2. p.kind \in {"subdomain", "full", "scheduled"} BY <2>1 DEF NamesOf
    <3>3. r.targets = p.targets BY <1>1, <1>13, <2>3, <3>2 DEF WayIs, NameSteps
    <3>4. CASE p.kind = "scheduled"
      <4>1. step = "scheduled" BY <3>1, <3>4, <1>5, <1>6, <1>12
      <4>2. n \in Resolving[Bare[p.targets[1]]] BY <2>1, <3>4 DEF NamesOf, normalizeDomain
      <4> QED BY <4>1, <4>2, <3>3, <1>8, <1>16 DEF NameSteps
    <3>5. CASE p.kind # "scheduled"
      <4>1. step = "subdomain" BY <3>1, <3>2, <3>5, <1>5, <1>6, <1>12
      <4>2. PICK t \in ToSet(p.targets) : n \in Resolving[Bare[t]] \cup Chained[Bare[t]]
        BY <2>1, <3>2, <3>5 DEF NamesOf, normalizeDomain
      <4> QED BY <4>1, <4>2, <3>3, <1>8, <1>16 DEF NameSteps
    <3> QED BY <3>4, <3>5
  <2> QED BY <2>2, <2>3
<1>20. ServicesDue(p, x, d)
  <2>1. SUFFICES ASSUME p.kind = "full", k + 1 >= 3, NEW q \in OpenPorts,
                        q[1] \in ToSet(r.targets), Linkable(q[1])
                 PROVE  HasRow(d, "service", p.org, q) \/ (x.step = "port" /\ ToCome(x.todo, "service", q))
    BY <1>11 DEF ServicesDue
  <2>2. CASE k >= 3 BY <2>1, <2>2, <1>1, <1>18 DEF ServicesDue, k
  <2>3. CASE ~(k >= 3)
    <3>1. k + 1 = 3 BY <2>1, <2>3, <1>7
    <3>2. step = "port" BY <2>1, <3>1, <1>5, <1>6
    <3> QED BY <2>1, <3>2, <1>8, <1>16
  <2> QED BY <2>2, <2>3
<1>21. Swept(p, x, d, orgs) BY <1>1, <1>13 DEF Swept
<1> QED BY <1>14, <1>17, <1>19, <1>20, <1>21 DEF Doing

\* The next step of the scan begins, or the scan is over.
LEMMA NextWhole ==
    ASSUME EInv, WInv, NEW s \in Scans, NextStep(s)
    PROVE  WInv'
<1> DEFINE r == scan[s]
           p == plan[s]
<1>1. /\ plan' = plan /\ db' = db /\ together' = together /\ foreignKeys' = foreignKeys
      /\ r.status = "running" /\ r.todo = <<>> /\ Idle(r)
  BY DEF NextStep, Idle
<1>2. DOMAIN r = ScanFields /\ RouteIs(p, r) BY <1>1, IdleIs
<1>3. RowsAre(db) /\ Sound(db, together) BY DEF EInv, Sound
<1>4. Settles(db, db') BY <1>1, <1>3, SameSettles
<1>5. WholeIs(p, r, db, together) BY DEF WInv
<1>6. CASE r.steps = <<>> \/ (p.kind = "full" /\ r.cancelled)
  <2> DEFINE status == IF r.steps = <<>> THEN "completed" ELSE "cancelled"
             x == [r EXCEPT !.status = status]
  <2>1. scan' = [scan EXCEPT ![s] = x] BY <1>6 DEF NextStep
  <2>2. /\ x.status = status /\ x.todo = r.todo /\ x.step = r.step /\ x.ids = r.ids
        /\ x.steps = r.steps /\ x.targets = r.targets /\ x.trouble = r.trouble
        /\ x.cancelled = r.cancelled
    BY <1>2 DEF ScanFields
  <2> HIDE DEF x
  <2>3. CASE r.steps = <<>>
    <3>1. Unhurt(x) => Unhurt(r) BY <1>1, <2>2 DEF Unhurt
    <3>2. Carries(p, r, x, db') BY <2>2 DEF Carries, Ready
    <3>3. x.steps = <<>> /\ Idle(x) BY <1>1, <2>2, <2>3 DEF Idle
    <3> HIDE DEF r, p
    <3>4. WholeIs(p, x, db', together') BY <1>1, <1>3, <1>4, <1>5, <2>2, <3>1, <3>2, <3>3, WholeOn
    <3> QED BY <1>1, <1>4, <2>1, <3>4, OneScanWhole DEF p
  <2>4. CASE r.steps # <<>>
    <3>1. ~Unhurt(x) BY <2>2, <2>4 DEF Unhurt
    <3> QED BY <1>1, <2>1, <3>1, HurtWhole
  <2> QED BY <2>3, <2>4
<1>7. CASE ~(r.steps = <<>> \/ (p.kind = "full" /\ r.cancelled))
  <2> DEFINE step == Head(r.steps)
             next(v) == [[[[r EXCEPT !.step = step] EXCEPT !.steps = Tail(r.steps)]
                           EXCEPT !.ids = <<>>] EXCEPT !.todo = StepOps(s, step, r.targets, v)]
  <2>1. \E v \in Visits(s) : scan' = [scan EXCEPT ![s] = next(v)]
    BY <1>7 DEF NextStep, EInv
  <2>2. PICK v \in Visits(s) : scan' = [scan EXCEPT ![s] = next(v)] BY <2>1
  <2> DEFINE x == next(v)
  <2>3. /\ x.status = "running" /\ x.step = step
        /\ x.todo = StepOps(s, step, r.targets, v) /\ x.ids = <<>> /\ x.steps = Tail(r.steps)
        /\ x.targets = r.targets /\ x.trouble = r.trouble /\ x.cancelled = r.cancelled
    BY <1>1, <1>2 DEF ScanFields
  <2>4. scan' = [scan EXCEPT ![s] = x] BY <2>2
  <2> HIDE DEF x
  <2>5. IsSeq(r.steps) /\ Len(r.steps) \in Nat /\ Len(r.steps) # 0 /\ step = r.steps[1]
    BY <1>2, <1>7, SeqIs DEF RouteIs
  <2>6. SubSeq(r.steps, 2, Len(r.steps)) = Tail(r.steps) BY <2>5 DEF IsSeq
  <2>7. p.kind = "scheduled" => r.targets # <<>> BY <1>1, <1>2 DEF RouteIs
  <2>8. r.steps # <<>> BY <1>7
  <2> HIDE DEF r, p, step
  <2>9. ASSUME Unhurt(x) PROVE Doing(p, x, db', together')
    <3>1. Unhurt(r) BY <1>1, <2>3, <2>9 DEF Unhurt
    <3>2. Doing(p, r, db, together) BY <3>1, <1>5 DEF WholeIs
    <3>3. /\ x.step = r.steps[1] /\ x.steps = SubSeq(r.steps, 2, Len(r.steps))
          /\ x.todo = StepOps(s, x.step, r.targets, v)
      BY <2>3, <2>5, <2>6
    <3>4. Doing(p, x, db, together) BY <1>1, <1>2, <2>3, <2>7, <2>8, <3>2, <3>3, Begins
    <3> QED BY <1>1, <3>4
  <2>10. WholeIs(p, x, db', together') BY <2>9 DEF WholeIs
  <2> QED BY <1>1, <1>4, <2>4, <2>10, OneScanWhole DEF p
<1> QED BY <1>6, <1>7

\* The smaller of two numbers.
LEMMA SmallerOf ==
    ASSUME NEW a \in Nat, NEW b \in Nat
    PROVE  Min({a, b}) \in {a, b}
<1>1. \E x \in {a, b} : \A y \in {a, b} : x =< y BY SMT
<1> DEFINE m == CHOOSE x \in {a, b} : \A y \in {a, b} : x =< y
<1>2. m \in {a, b} BY <1>1
<1> QED BY <1>2 DEF Min

\* Among the targets with the names on record is every name on record under one
\* of their domains, or they are as many as there may be: with no other scan of
\* the organization there is one row of a domain, whichever First picks.
LEMMA ExpansionAims ==
    ASSUME EInv, OnlyNamesGo(db), NEW s \in Scans, scan[s].targets = plan[s].targets,
           Org(s) \notin together, NEW targets \in expandTargetsWithDiscoveredSubdomains(s),
           NEW i \in 1..Len(db["subdomain"]), Meant(db, i, plan[s])
    PROVE  Aimed(targets, db["subdomain"][i].key)
<1> DEFINE own == Distinct(s)
           names == {normalizeDomain(t) : t \in ToSet(scan[s].targets)}
           old == {normalizeDomain(t) : t \in ToSet(own)}
           new(root) == OnRecord(s, root) \ old
           room(root) == Min({IF Len(own) >= MaxExpanded THEN 0 ELSE MaxExpanded - Len(own),
                              Cardinality(new(root))})
           row == db["subdomain"][i]
<1>1. /\ IsSeq(own) /\ \A root : IsFiniteSet(OnRecord(s, root)) BY OwnAndFound
<1>2. PICK root, S : /\ root \in Roots(s) /\ S \subseteq new(root)
                     /\ Cardinality(S) = room(root) /\ targets = own \o SetToSeq(S)
  BY DEF expandTargetsWithDiscoveredSubdomains, Expansions
<1>3. Sound(db, together) /\ RowsAre(db) BY DEF EInv, Sound
<1>4. "subdomain" \in Keyed /\ "domain" \in Keyed /\ "domain" \notin UniqueTables /\ "domain" # "tech"
  BY DEF Keyed, Tables, LogTables, UniqueTables
<1>5. row.org = Org(s) /\ ~row.gone BY DEF Meant, Org
<1>6. PICK t \in ToSet(plan[s].targets) : RowAt(db, "domain", row.link, Org(s), normalizeDomain(t))
  BY DEF Meant, Under, Org
<1>7. IsFiniteSet(new(root)) BY <1>1, FS_Subset
<1>8. row.key \in OnRecord(s, root)
  <2> DEFINE d == db["domain"]
             n0 == normalizeDomain(t)
             link == row.link
  <2>1. DOMAIN d = 1..Len(d) /\ Len(d) \in Nat BY <1>3, <1>4, TablesAre
  <2>2. link \in 1..Len(d) /\ d[link].org = Org(s) /\ d[link].key = n0 BY <1>6 DEF RowAt
  <2>3. \A k \in DOMAIN d : ~d[k].gone BY <1>4, <2>1 DEF OnlyNamesGo
  <2>4. n0 \in names OBVIOUS
  <2> HIDE DEF names
  <2>5. root[n0] \in FirstOf(RowsOf("domain", Org(s), n0)) /\ DOMAIN root = names
    BY <1>2, <2>4 DEF Roots, names
  <2> HIDE DEF n0, link
  <2>6. link \in RowsOf("domain", Org(s), n0) BY <2>1, <2>2, <2>3 DEF RowsOf
  <2>7. root[n0] \in RowsOf("domain", Org(s), n0) BY <2>5, <2>6 DEF FirstOf
  <2>8. root[n0] \in DOMAIN d /\ d[root[n0]].org = Org(s) /\ d[root[n0]].key = n0
    BY <2>7 DEF RowsOf
  <2>9. link = root[n0] \/ MayMeet("domain", d[link], d[root[n0]], together)
    BY <1>3, <1>4, <2>1, <2>2, <2>8 DEF Sound, TwinFree
  <2>10. ~MayMeet("domain", d[link], d[root[n0]], together)
    BY <1>4, <2>1, <2>2, <2>3, <2>8 DEF MayMeet
  <2>11. link = root[n0] /\ link # NoRow BY <2>2, <2>9, <2>10 DEF NoRow
  <2>12. i \in DOMAIN db["subdomain"] BY <1>3, <1>4, TablesAre
  <2>13. row \in ToSet(db["subdomain"]) BY <2>12 DEF ToSet
  <2> HIDE DEF row
  <2> QED BY <1>5, <2>4, <2>5, <2>11, <2>13 DEF OnRecord, link
<1> DEFINE y == SetToSeq(S)
           free == IF Len(own) >= MaxExpanded THEN 0 ELSE MaxExpanded - Len(own)
           key == row.key
<1>9. IsFiniteSet(S) BY <1>2, <1>7, FS_Subset
<1>10. /\ IsSeq(y) /\ Len(y) = Cardinality(S) /\ Cardinality(S) \in Nat BY <1>9, SetsAsSeqs, InSomeOrder
<1>11. Len(own) \in Nat /\ DOMAIN own = 1..Len(own) BY <1>1, SeqIs
<1>12. targets = own \o y BY <1>2
<1>13. Cardinality(new(root)) \in Nat BY <1>7, FS_CardinalityType
<1>14. free \in Nat /\ MaxExpanded \in Nat BY <1>11, ScanExecutionAssumption
<1>15. Cardinality(S) \in {free, Cardinality(new(root))} BY <1>2, <1>13, <1>14, SmallerOf
<1>16. S \subseteq new(root) BY <1>2
<1>24. MaxExpanded \in Nat /\ free = IF Len(own) >= MaxExpanded THEN 0 ELSE MaxExpanded - Len(own)
  BY <1>14
<1>23. key \in old => \E u \in ToSet(own) : key = normalizeDomain(u) OBVIOUS
<1>25. key \notin old => key \in new(root) BY <1>8
<1> HIDE DEF own, y, new, room, row, key, free, old
<1>17. /\ IsSeq(targets) /\ Len(targets) = Len(own) + Len(y)
       /\ \A k \in 1..(Len(own) + Len(y)) :
             targets[k] = IF k <= Len(own) THEN own[k] ELSE y[k - Len(own)]
  BY <1>1, <1>10, <1>12, Joined
<1>18. Len(y) \in Nat /\ DOMAIN targets = 1..Len(targets) BY <1>10, <1>17, SeqIs
<1>19. CASE key \in old
  <2>1. PICK u \in ToSet(own) : key = normalizeDomain(u) BY <1>19, <1>23
  <2>2. PICK k \in 1..Len(own) : u = own[k] BY <1>11 DEF ToSet
  <2>3. k \in DOMAIN targets /\ targets[k] = u BY <2>2, <1>11, <1>17, <1>18
  <2>4. u \in ToSet(targets) BY <2>3 DEF ToSet
  <2> QED BY <2>1, <2>4 DEF Aimed, key, row
<1>20. CASE key \notin old /\ Cardinality(S) = Cardinality(new(root))
  <2>1. S = new(root) BY <1>7, <1>16, <1>20, FS_Subset
  <2>2. key \in S BY <1>20, <1>25, <2>1
  <2>3. PICK k \in 1..Cardinality(S) : y[k] = key BY <1>9, <2>2, Everyone DEF y
  <2>4. Len(own) + k \in 1..(Len(own) + Len(y)) /\ ~(Len(own) + k <= Len(own)) /\ (Len(own) + k) - Len(own) = k
    BY <2>3, <1>10, <1>11
  <2>5. Len(own) + k \in DOMAIN targets /\ targets[Len(own) + k] = key BY <2>3, <2>4, <1>17, <1>18
  <2>6. key \in ToSet(targets) BY <2>5 DEF ToSet
  <2> QED BY <2>6 DEF Aimed, key, row
<1>21. CASE Cardinality(S) = free
  <2>1. Len(targets) >= MaxExpanded BY <1>21, <1>10, <1>11, <1>17, <1>24
  <2> QED BY <2>1 DEF Aimed
<1> QED BY <1>15, <1>19, <1>20, <1>21

\* The step ends with nothing to come, and that of the names, of a full scan,
\* with what the following steps are aimed at.
LEMMA EndWhole ==
    ASSUME EInv, WInv, NEW s \in Scans, EndStep(s)
    PROVE  WInv'
<1> DEFINE r == scan[s]
           p == plan[s]
<1>1. /\ plan' = plan /\ db' = db /\ together' = together /\ foreignKeys' = foreignKeys
      /\ r.todo = <<>> /\ ~Idle(r)
  BY DEF EndStep, Idle
<1>2. DOMAIN r = ScanFields BY <1>1, IdleIs
<1>3. RowsAre(db) BY DEF EInv, Sound
<1>4. Settles(db, db') BY <1>1, <1>3, SameSettles
<1>5. PICK targets \in IF p.kind = "full" /\ r.step = "subdomain"
                       THEN expandTargetsWithDiscoveredSubdomains(s) ELSE {r.targets} :
         scan' = [scan EXCEPT ![s].step = "", ![s].targets = targets]
  BY DEF EndStep
<1> DEFINE x == [[r EXCEPT !.step = ""] EXCEPT !.targets = targets]
<1>6. scan' = [scan EXCEPT ![s] = x] BY <1>5 DEF EInv
<1>7. /\ x.todo = <<>> /\ x.status = r.status /\ x.steps = r.steps /\ Idle(x)
      /\ x.targets = targets /\ x.trouble = r.trouble /\ x.cancelled = r.cancelled
  BY <1>1, <1>2 DEF ScanFields, Idle
<1>8. targets = r.targets \/ (p.kind = "full" /\ r.step = "subdomain"
                              /\ targets \in expandTargetsWithDiscoveredSubdomains(s))
  BY <1>5
<1>19. p.kind = "full" /\ r.step = "subdomain" => targets \in expandTargetsWithDiscoveredSubdomains(s)
  BY <1>5
<1>20. OnlyNamesGo(db) BY DEF WInv
<1> HIDE DEF x
<1>9. ASSUME Unhurt(x) PROVE Doing(p, x, db, together)
  <2>1. Doing(p, r, db, together) BY <1>7, <1>9 DEF Unhurt, WInv, WholeIs
  <2>2. /\ WayIs(p, r) /\ NamesDue(p, r, db) /\ ServicesDue(p, r, db) /\ Swept(p, r, db, together)
    BY <2>1 DEF Doing
  <2>3. \A t, key : ~ToCome(r.todo, t, key)
    <3>1. IsSeq(<<>>) /\ Len(<<>>) = 0 BY EmptySeq DEF IsSeq
    <3> HIDE DEF r
    <3> QED BY <1>1, <3>1 DEF ToCome
  <2>4. x.step \notin NameSteps \cup {"port"} BY <1>7, IdleHasNone DEF NameSteps, StepNames
  <2> DEFINE k == Taken(p, r)
  <2>5. Taken(p, x) = k BY <1>7 DEF Taken
  <2> HIDE DEF r, p
  <2>6. /\ k \in Nat
        /\ (p.kind = "full" /\ r.step = "subdomain") => k = 2
    BY <2>2, WaysAre
  <2>7. Due(p) = IF p.kind = "full" THEN 2 ELSE 1 BY DEF Due
  <2>8. (Sorted(p, x) <=> k >= Due(p)) /\ (Sorted(p, r) <=> k > Due(p))
    <3>1. (Sorted(p, x) <=> k > Due(p) \/ k = Due(p)) /\ (Sorted(p, r) <=> k > Due(p))
      BY <1>1, <1>7, <2>5 DEF Sorted
    <3> HIDE DEF k
    <3> QED BY <3>1, <2>6, <2>7
  <2>9. WayIs(p, x)
    <3>1. x.status # "completed" BY <1>1, <1>7, <2>2 DEF WayIs
    <3>2. p.kind \in NameSteps \cup {"full"} /\ ~Sorted(p, x) => x.targets = p.targets
      <4>1. p.kind = "full" /\ r.step = "subdomain" => Sorted(p, x) BY <2>6, <2>7, <2>8
      <4>2. Sorted(p, r) => Sorted(p, x) BY <2>6, <2>7, <2>8
      <4> QED BY <1>7, <1>8, <2>2, <4>1, <4>2 DEF WayIs
    <3> QED BY <1>7, <2>2, <2>5, <3>1, <3>2 DEF WayIs
  <2>10. NamesDue(p, x, db) BY <2>2, <2>3, <2>5 DEF NamesDue
  <2>11. ServicesDue(p, x, db)
    <3>1. CASE targets = r.targets BY <3>1, <1>7, <2>2, <2>3, <2>5 DEF ServicesDue
    <3>2. CASE p.kind = "full" /\ r.step = "subdomain" BY <3>2, <2>5, <2>6 DEF ServicesDue
    <3> QED BY <3>1, <3>2, <1>8
  <2>12. Swept(p, x, db, together)
    <3>1. SUFFICES ASSUME p.kind = "full", Sorted(p, x), p.org \notin together,
                          NEW i \in 1..Len(db["subdomain"]), Meant(db, i, p)
                   PROVE  Aimed(targets, db["subdomain"][i].key)
      BY <1>7 DEF Swept
    <3>2. CASE r.step = "subdomain"
      <4>1. targets \in expandTargetsWithDiscoveredSubdomains(s) BY <1>19, <3>1, <3>2
      <4>2. ~Sorted(p, r) BY <2>6, <2>7, <2>8, <3>1, <3>2
      <4>3. r.targets = p.targets BY <2>2, <3>1, <4>2 DEF WayIs
      <4> QED BY <1>20, <3>1, <4>1, <4>3, ExpansionAims DEF r, p, Org
    <3>3. CASE r.step # "subdomain"
      <4>1. targets = r.targets BY <1>8, <3>3
      <4>2. k # 2
        <5> DEFINE way == StepsOf(p.kind)
        <5>1. Len(way) = 5 /\ way[2] = "subdomain" BY <3>1, StepsAre
        <5>2. r.step = way[k] BY <1>1, <2>2 DEF WayIs
        <5> HIDE DEF way, k
        <5> QED BY <5>1, <5>2, <3>3
      <4>3. Sorted(p, r) BY <2>6, <2>7, <2>8, <3>1, <4>2
      <4> QED BY <2>2, <3>1, <4>1, <4>3 DEF Swept
    <3> QED BY <3>2, <3>3
  <2> QED BY <2>4, <2>9, <2>10, <2>11, <2>12 DEF Doing
<1>10. WholeIs(p, x, db', together') BY <1>1, <1>9 DEF WholeIs
<1> QED BY <1>1, <1>4, <1>6, <1>10, OneScanWhole

-----------------------------------------------------------------------------
\* So it is with every state.

\* No scan has begun, and nothing is on record.
LEMMA WholeBegins == ExecutionInit => WInv
<1> SUFFICES ASSUME ExecutionInit PROVE WInv
  OBVIOUS
<1>1. /\ scan = [s \in Scans |-> NoScan]
      /\ db = [t \in Tables |-> IF t \in LogTables THEN {} ELSE <<>>]
  BY DEF ExecutionInit
<1>2. Len(<<>>) = 0 BY EmptySeq
<1>3. \A t \in Keyed : db[t] = <<>> BY <1>1 DEF Keyed
<1>4. OnlyNamesGo(db) BY <1>2, <1>3 DEF OnlyNamesGo
<1>5. \A s \in Scans : scan[s].status = "pending" BY <1>1 DEF NoScan
<1>6. \A s \in Scans : ~Unhurt(scan[s]) BY <1>5 DEF Unhurt
<1> QED BY <1>4, <1>6 DEF WInv, WholeIs

\* Every step keeps it.
LEMMA WholeGoesOn ==
    ASSUME EInv, WInv, [ExecutionNext]_executionVars
    PROVE  WInv'
<1>1. CASE UNCHANGED executionVars
  <2>1. /\ plan' = plan /\ db' = db /\ scan' = scan /\ together' = together /\ foreignKeys' = foreignKeys
    BY <1>1 DEF executionVars
  <2>2. RowsAre(db) BY DEF EInv, Sound
  <2>3. Settles(db, db') BY <2>1, <2>2, SameSettles
  <2> QED BY <2>1, <2>3, EditsWhole
<1>2. ASSUME NEW s \in Scans, ScanStep(s) PROVE WInv'
  <2>1. CASE StartScan(s) BY <2>1, StartWhole
  <2>2. CASE NextStep(s) BY <2>2, NextWhole
  <2>3. CASE EndStep(s) BY <2>3, EndWhole
  <2>4. CASE CutShort(s) BY <2>4, CutWhole
  <2>5. CASE LookUp(s) BY <2>5, LookWhole
  <2>6. CASE WriteRow(s) BY <2>6, WriteWhole
  <2>7. CASE CreateRow(s) BY <2>7, CreateWhole
  <2>8. CASE Fault(s) BY <2>8, FaultWhole
  <2>9. CASE CancelRun(s) BY <2>9, CancelWhole
  <2> QED BY <1>2, <2>1, <2>2, <2>3, <2>4, <2>5, <2>6, <2>7, <2>8, <2>9 DEF ScanStep
<1>3. CASE BulkDeleteSubdomains BY <1>3, DeleteWhole
<1>4. CASE BulkIgnoreFindings BY <1>4, IgnoreWhole
<1> QED BY <1>1, <1>2, <1>3, <1>4 DEF ExecutionNext

\* The induction of what scans leave behind: as long as no statement of a scan
\* fails and nobody cancels it, each name its name step found and each port its
\* port step found is on record or one of the statements still to come, whatever
\* other scans insert in between and users delete.
THEOREM WholeInductive == ExecutionSpec => [](EInv /\ WInv)
<1>1. ExecutionInit => EInv /\ WInv BY ExecutionBegins, WholeBegins
<1>2. EInv /\ WInv /\ [ExecutionNext]_executionVars => (EInv /\ WInv)'
  BY ExecutionGoesOn, WholeGoesOn
<1> QED BY <1>1, <1>2, PTL DEF ExecutionSpec

\* A scan that ended well has nothing to come.
LEMMA EndedWhole ==
    ASSUME EInv, WInv, NEW s \in Scans, Smooth(s)
    PROVE  LET p == plan[s]
               r == scan[s]
           IN /\ \A n \in NamesOf(p) : HasKey(db, n)
              /\ p.kind = "full" => \A q \in OpenPorts :
                    q[1] \in ToSet(r.targets) /\ Linkable(q[1]) => HasRow(db, "service", p.org, q)
              /\ p.kind = "full" /\ p.org \notin together => \A i \in 1..Len(db["subdomain"]) :
                    Meant(db, i, p) => Aimed(r.targets, db["subdomain"][i].key)
<1> DEFINE p == plan[s]
           r == scan[s]
<1>1. r.status = "completed" /\ Unhurt(r) BY DEF Smooth, Unhurt
<1>2. Doing(p, r, db, together) BY <1>1 DEF WInv, WholeIs
<1> HIDE DEF p, r
<1>3. /\ WayIs(p, r) /\ NamesDue(p, r, db) /\ ServicesDue(p, r, db) /\ Swept(p, r, db, together)
  BY <1>2 DEF Doing
<1>4. r.steps = <<>> /\ Idle(r) BY <1>1, <1>3 DEF WayIs
<1>5. r.step \notin NameSteps /\ r.step # "port" BY <1>4, IdleHasNone DEF NameSteps, StepNames
<1>6. Taken(p, r) = Len(StepsOf(p.kind))
  <2>1. Len(<<>>) = 0 BY EmptySeq
  <2>2. Len(StepsOf(p.kind)) \in Nat
    <3> DEFINE way == StepsOf(p.kind)
    <3>1. Len(way) = 5 \/ Len(way) = 1 BY StepsAre
    <3> QED BY <3>1
  <2> QED BY <1>4, <2>1, <2>2 DEF Taken
<1>7. IF p.kind = "full" THEN Taken(p, r) = 5 /\ Due(p) = 2 ELSE Taken(p, r) = 1 /\ Due(p) = 1
  <2> DEFINE way == StepsOf(p.kind)
  <2>1. IF p.kind = "full" THEN Len(way) = 5 ELSE Len(way) = 1 BY StepsAre
  <2> QED BY <1>6, <2>1 DEF Due
<1>8. Taken(p, r) >= Due(p) /\ (p.kind = "full" => Taken(p, r) >= 3 /\ Sorted(p, r))
  BY <1>7 DEF Sorted
<1>9. \A n \in NamesOf(p) : HasKey(db, n) BY <1>3, <1>5, <1>8 DEF NamesDue
<1>10. p.kind = "full" => \A q \in OpenPorts :
          q[1] \in ToSet(r.targets) /\ Linkable(q[1]) => HasRow(db, "service", p.org, q)
  BY <1>3, <1>5, <1>8 DEF ServicesDue
<1>11. p.kind = "full" /\ p.org \notin together => \A i \in 1..Len(db["subdomain"]) :
          Meant(db, i, p) => Aimed(r.targets, db["subdomain"][i].key)
  BY <1>3, <1>8 DEF Swept
<1> QED BY <1>9, <1>10, <1>11 DEF p, r

\* The inductive invariant says that scans are whole.
LEMMA WholeScans ==
    ASSUME EInv, WInv
    PROVE  ScansAreWhole
<1> DEFINE d == db["subdomain"]
<1>1. RowsAre(db) /\ OnlyNamesGo(db) BY DEF EInv, Sound, WInv
<1>2. "subdomain" \in Keyed /\ "service" \in Keyed /\ "domain" \in Keyed BY DEF Keyed, Tables, LogTables
<1>3. DOMAIN d = 1..Len(d) /\ \A i \in 1..Len(d) : d[i].gone \in BOOLEAN
  BY <1>1, <1>2, TablesAre DEF RowsAre, RowIs
<1>4. \A s \in Scans : FoundNames(s) = NamesOf(plan[s]) BY DEF FoundNames, NamesOf
<1>5. FoundIsStored
  <2>1. SUFFICES ASSUME NEW s \in Scans, Smooth(s), NEW n \in FoundNames(s)
                 PROVE  Stored("subdomain", Org(s), n) \/ \E r \in ToSet(d) :
                                                             r.key = n /\ (r.gone \/ r.org # Org(s))
    BY DEF FoundIsStored
  <2>2. HasKey(db, n) BY <2>1, <1>4, EndedWhole
  <2>3. PICK i \in 1..Len(d) : d[i].key = n BY <2>2 DEF HasKey
  <2>4. d[i] \in ToSet(d) BY <2>3, <1>3 DEF ToSet
  <2>5. CASE d[i].gone \/ d[i].org # Org(s) BY <2>3, <2>4, <2>5
  <2>6. CASE ~(d[i].gone \/ d[i].org # Org(s))
    <3>1. i \in RowsOf("subdomain", Org(s), n) BY <2>3, <2>6, <1>3 DEF RowsOf
    <3> QED BY <3>1 DEF Stored
  <2> QED BY <2>5, <2>6
<1>6. SweepIsFull
  <2>1. SUFFICES ASSUME NEW s \in Scans, Smooth(s), plan[s].kind = "full"
                 PROVE  /\ \A r \in ToSet(d) :
                              /\ r.key \in FoundNames(s) /\ r.org = Org(s) /\ ~r.gone
                              /\ Org(s) \notin together
                              /\ \E t \in ToSet(plan[s].targets) :
                                    r.link \in RowsOf("domain", Org(s), normalizeDomain(t))
                              => \/ \E t \in ToSet(scan[s].targets) : r.key \in {t, normalizeDomain(t)}
                                 \/ Len(scan[s].targets) >= MaxExpanded
                        /\ \A p \in OpenPorts : p[1] \in ToSet(scan[s].targets) /\ Linkable(p[1]) =>
                              Stored("service", Org(s), p)
    BY DEF SweepIsFull
  <2>2. /\ \A q \in OpenPorts : q[1] \in ToSet(scan[s].targets) /\ Linkable(q[1]) =>
              HasRow(db, "service", Org(s), q)
        /\ Org(s) \notin together => \A i \in 1..Len(d) :
              Meant(db, i, plan[s]) => Aimed(scan[s].targets, d[i].key)
    BY <2>1, EndedWhole DEF Org
  <2>3. ASSUME NEW r \in ToSet(d), r.key \in FoundNames(s), r.org = Org(s), ~r.gone,
               Org(s) \notin together, NEW t \in ToSet(plan[s].targets),
               r.link \in RowsOf("domain", Org(s), normalizeDomain(t))
        PROVE  Aimed(scan[s].targets, r.key)
    <3>1. PICK i \in 1..Len(d) : r = d[i] BY <1>3 DEF ToSet
    <3>2. DOMAIN db["domain"] = 1..Len(db["domain"]) BY <1>1, <1>2, TablesAre
    <3>3. RowAt(db, "domain", r.link, Org(s), normalizeDomain(t)) BY <2>3, <3>2 DEF RowsOf, RowAt
    <3>4. Under(db, i, plan[s]) BY <3>1, <3>3 DEF Under, Org
    <3>5. Meant(db, i, plan[s]) BY <2>3, <3>1, <3>4, <1>4 DEF Meant, Org
    <3> QED BY <2>2, <2>3, <3>1, <3>5
  <2>4. ASSUME NEW q \in OpenPorts, HasRow(db, "service", Org(s), q) PROVE Stored("service", Org(s), q)
    <3>1. PICK i : RowAt(db, "service", i, Org(s), q) BY <2>4 DEF HasRow
    <3>2. i \in DOMAIN db["service"] /\ i \in 1..Len(db["service"])
      BY <3>1, <1>1, <1>2, TablesAre DEF RowAt
    <3>3. "service" \in Keyed \ {"subdomain"} BY <1>2
    <3>4. db["service"][i].gone = FALSE BY <1>1, <3>2, <3>3 DEF OnlyNamesGo
    <3>5. i \in RowsOf("service", Org(s), q) BY <3>1, <3>2, <3>4 DEF RowsOf, RowAt
    <3> QED BY <3>5 DEF Stored
  <2> QED BY <2>2, <2>3, <2>4 DEF Aimed
<1> QED BY <1>5, <1>6 DEF ScansAreWhole

\* A scan that completed without a failed statement or a cancellation has
\* stored every name it found, unless the unique index of subdomains held it
\* for a deleted row or another organization; a full scan has aimed at all of
\* them that are on record under its domains (expandTargetsWithDiscovered-
\* Subdomains, up to the cap) and stored every open port of its targets.
THEOREM ScansAreAlwaysWhole == ExecutionSpec => []ScansAreWhole
<1>1. EInv /\ WInv => ScansAreWhole BY WholeScans
<1> QED BY <1>1, WholeInductive, PTL

-----------------------------------------------------------------------------
\* What a visit that loses requests reports.

\* Every finding of the one is in the other under its title and detail.
Also(these, those) ==
    \A f \in these : \E g \in those : g.title = f.title /\ g.detail = f.detail

LEMMA AlsoAll ==
    ASSUME NEW A, NEW B, NEW C, NEW D, Also(A, B), Also(C, D)
    PROVE  Also(A \cup C, B \cup D)
BY DEF Also

\* Failed requests only take probes away.
LEMMA ProbesLessen ==
    ASSUME NEW page, NEW v, NEW w, Calm(w)
    PROVE  /\ \A c : Fetched(w, c)
           /\ \A c : Hits(page, v, c) \subseteq Hits(page, w, c)
           /\ \A c, fact : Said(page, v, c, fact) => Said(page, w, c, fact)
           /\ \A c, title, sev : Also(First(page, v, c, title, sev), First(page, w, c, title, sev))
           /\ \A c, title, sev : Also(Every(page, v, c, title, sev), Every(page, w, c, title, sev))
<1>1. \A c : Fetched(w, c) BY DEF Fetched, Calm
<1>2. \A c : Hits(page, v, c) \subseteq Hits(page, w, c) BY <1>1 DEF Hits, Calm
<1>3. \A c, fact : Said(page, v, c, fact) => Said(page, w, c, fact) BY <1>1 DEF Said
<1>4. ASSUME NEW c, NEW title, NEW sev
      PROVE  Also(First(page, v, c, title, sev), First(page, w, c, title, sev))
  <2>1. \A a : /\ Issue(title, "", sev, a).title = title
               /\ Issue(title, "", sev, a).detail = ""
    BY DEF Issue
  <2>2. Hits(page, v, c) # {} => Hits(page, w, c) # {} BY <1>2
  <2> QED BY <2>1, <2>2 DEF First, One, Also
<1>5. ASSUME NEW c, NEW title, NEW sev
      PROVE  Also(Every(page, v, c, title, sev), Every(page, w, c, title, sev))
  BY <1>2 DEF Every, Also
<1> QED BY <1>1, <1>2, <1>3, <1>4, <1>5

LEMMA LessSaid ==
    ASSUME NEW P, NEW Q, NEW f, P \in BOOLEAN, Q \in BOOLEAN, P => Q
    PROVE  Also(One(P, f), One(Q, f))
BY DEF Also, One

LEMMA VisitsLessen ==
    ASSUME NEW page, NEW v, NEW w, Calm(w)
    PROVE  /\ Also(checkSSTI(page, v), checkSSTI(page, w))
           /\ Also(checkGraphQLIntrospection(page, v), checkGraphQLIntrospection(page, w))
           /\ Also(checkOpenRedirect(page, v), checkOpenRedirect(page, w))
           /\ Also(checkSSRFDNSRebinding(page, v), checkSSRFDNSRebinding(page, w))
           /\ Also(checkPathTraversal(page, v), checkPathTraversal(page, w))
           /\ Also(checkPrototypePollution(page, v), checkPrototypePollution(page, w))
           /\ Also(checkDefaultCredentials(page, v), checkDefaultCredentials(page, w))
           /\ Also(checkSQLInjection(page, v), checkSQLInjection(page, w))
           /\ Also(checkCommandInjection(page, v), checkCommandInjection(page, w))
           /\ Also(checkCRLFInjection(page, v), checkCRLFInjection(page, w))
           /\ Also(checkXXE(page, v), checkXXE(page, w))
           /\ Also(checkHTTPRequestSmuggling(page, v), checkHTTPRequestSmuggling(page, w))
           /\ Also(checkHTTP2Downgrade(page, v), checkHTTP2Downgrade(page, w))
           /\ Also(checkHostHeaderInjection(page, v), checkHostHeaderInjection(page, w))
           /\ Also(checkCSRF(page, v), checkCSRF(page, w))
           /\ Also(checkMIMEConfusion(page, v), checkMIMEConfusion(page, w))
           /\ Also(checkSubresourceIntegrity(page, v), checkSubresourceIntegrity(page, w))
           /\ Also(checkHTTP2RapidReset(page, v), checkHTTP2RapidReset(page, w))
           /\ Also(checkRedirect(page, v), checkRedirect(page, w))
           /\ Also(checkDirectoryListing(page, v), checkDirectoryListing(page, w))
           /\ Also(checkCORS(page, v), checkCORS(page, w))
           /\ Also(checkSensitivePaths(page, v), checkSensitivePaths(page, w))
           /\ Also(checkHTTPMethods(page, v), checkHTTPMethods(page, w))
           /\ Also(checkCORSWildcardCredentials(page, v), checkCORSWildcardCredentials(page, w))
           /\ Also(checkJWT(page, v), checkJWT(page, w))
           /\ Also(checkCachePoisoning(page, v), checkCachePoisoning(page, w))
           /\ Also(checkSecretsInResponse(page, v), checkSecretsInResponse(page, w))
           /\ Also(checkSubdomainTakeoverBody(page, v), checkSubdomainTakeoverBody(page, w))
           /\ Also(checkMassAssignmentIDOR(page, v), checkMassAssignmentIDOR(page, w))
           /\ Also(checkTimingBlindSQLi(page, v), checkTimingBlindSQLi(page, w))
           /\ Also(checkOAuthOIDC(page, v), checkOAuthOIDC(page, w))
<1>1. \A c : Fetched(w, c) BY ProbesLessen
<1>2. \A c : Hits(page, v, c) \subseteq Hits(page, w, c) BY ProbesLessen
<1>3. \A c, fact : Said(page, v, c, fact) => Said(page, w, c, fact) BY ProbesLessen
<1>4. \A c, title, sev : Also(First(page, v, c, title, sev), First(page, w, c, title, sev))
  BY ProbesLessen
<1>5. \A c, title, sev : Also(Every(page, v, c, title, sev), Every(page, w, c, title, sev))
  BY ProbesLessen
<1>6. Also(checkSSTI(page, v), checkSSTI(page, w)) BY <1>4 DEF checkSSTI
<1>7. Also(checkGraphQLIntrospection(page, v), checkGraphQLIntrospection(page, w))
  BY <1>4 DEF checkGraphQLIntrospection
<1>8. Also(checkOpenRedirect(page, v), checkOpenRedirect(page, w)) BY <1>4 DEF checkOpenRedirect
<1>9. Also(checkSSRFDNSRebinding(page, v), checkSSRFDNSRebinding(page, w))
  BY <1>4 DEF checkSSRFDNSRebinding
<1>10. Also(checkPathTraversal(page, v), checkPathTraversal(page, w)) BY <1>4 DEF checkPathTraversal
<1>11. Also(checkPrototypePollution(page, v), checkPrototypePollution(page, w))
  BY <1>4 DEF checkPrototypePollution
<1>12. Also(checkDefaultCredentials(page, v), checkDefaultCredentials(page, w))
  BY <1>4 DEF checkDefaultCredentials
<1>13. Also(checkSQLInjection(page, v), checkSQLInjection(page, w)) BY <1>4 DEF checkSQLInjection
<1>14. Also(checkCommandInjection(page, v), checkCommandInjection(page, w))
  BY <1>4 DEF checkCommandInjection
<1>15. Also(checkCRLFInjection(page, v), checkCRLFInjection(page, w)) BY <1>4 DEF checkCRLFInjection
<1>16. Also(checkXXE(page, v), checkXXE(page, w)) BY <1>4 DEF checkXXE
<1>17. Also(checkHTTPRequestSmuggling(page, v), checkHTTPRequestSmuggling(page, w))
  BY <1>3 DEF checkHTTPRequestSmuggling, One, Also
<1>18. Also(checkHTTP2Downgrade(page, v), checkHTTP2Downgrade(page, w))
  BY <1>3 DEF checkHTTP2Downgrade, One, Also
<1>19. Also(checkHostHeaderInjection(page, v), checkHostHeaderInjection(page, w))
  BY <1>3 DEF checkHostHeaderInjection, One, Also
<1>20. Also(checkCSRF(page, v), checkCSRF(page, w)) BY <1>3 DEF checkCSRF, One, Also
<1>21. Also(checkMIMEConfusion(page, v), checkMIMEConfusion(page, w)) BY <1>3 DEF checkMIMEConfusion, One, Also
<1>22. Also(checkSubresourceIntegrity(page, v), checkSubresourceIntegrity(page, w))
  BY <1>3 DEF checkSubresourceIntegrity, One, Also
<1>23. Also(checkHTTP2RapidReset(page, v), checkHTTP2RapidReset(page, w))
  BY <1>3 DEF checkHTTP2RapidReset, One, Also
<1>24. Also(checkRedirect(page, v), checkRedirect(page, w)) BY <1>3 DEF checkRedirect, One, Also
<1>25. Also(checkDirectoryListing(page, v), checkDirectoryListing(page, w))
  BY <1>5 DEF checkDirectoryListing
<1>26. Also(checkCORS(page, v), checkCORS(page, w)) BY <1>1, <1>3 DEF checkCORS, Said, One, Also
<1>27. Also(checkSensitivePaths(page, v), checkSensitivePaths(page, w))
  BY <1>2 DEF checkSensitivePaths, Every, Also, Issue
<1>28. Also(checkHTTPMethods(page, v), checkHTTPMethods(page, w)) BY <1>2, <1>3 DEF checkHTTPMethods, One, Also
<1>29. Also(checkCORSWildcardCredentials(page, v), checkCORSWildcardCredentials(page, w))
  BY <1>1 DEF checkCORSWildcardCredentials, One, Also
<1>30. Also(checkJWT(page, v), checkJWT(page, w)) BY <1>1 DEF checkJWT, One, Also
<1>31. Also(checkCachePoisoning(page, v), checkCachePoisoning(page, w))
  BY <1>2 DEF checkCachePoisoning, One, Also
<1>32. Also(checkSecretsInResponse(page, v), checkSecretsInResponse(page, w))
  BY <1>2 DEF checkSecretsInResponse, Also, Issue
<1>33. Also(checkSubdomainTakeoverBody(page, v), checkSubdomainTakeoverBody(page, w))
  BY <1>1 DEF checkSubdomainTakeoverBody, Also
<1>34. Also(checkMassAssignmentIDOR(page, v), checkMassAssignmentIDOR(page, w))
  <2>1. Also(One(Said(page, v, "mass assignment", "fields reflected"),
                 Issue("Potential Mass Assignment Vulnerability", "", "high", Here)),
             One(Said(page, w, "mass assignment", "fields reflected"),
                 Issue("Potential Mass Assignment Vulnerability", "", "high", Here)))
    BY <1>3 DEF One, Also
  <2> QED BY <1>4, <2>1, AlsoAll DEF checkMassAssignmentIDOR
<1>35. Also(checkTimingBlindSQLi(page, v), checkTimingBlindSQLi(page, w))
  <2>1. \A X : Also({}, X) BY DEF Also
  <2>2. Also(First(page, v, "slow", "Blind SQL Injection (Time-Based)", "critical"),
             First(page, w, "slow", "Blind SQL Injection (Time-Based)", "critical"))
    BY <1>4
  <2>3. Fetched(w, "base time") BY <1>1
  <2> QED BY <2>1, <2>2, <2>3 DEF checkTimingBlindSQLi
<1>36. Also(checkOAuthOIDC(page, v), checkOAuthOIDC(page, w))
  <2> DEFINE said(x, fact) == {"oidc", fact} \subseteq page.facts /\ Fetched(x, "oidc")
             note(x, fact, title, sev) == One(said(x, fact), Issue(title, "", sev, <<"oidc">>))
  <2>1. \A fact, title, sev : Also(note(v, fact, title, sev), note(w, fact, title, sev))
    BY <1>1 DEF One, Also
  <2>2. \A x : checkOAuthOIDC(page, x) =
          note(x, "implicit", "OAuth: Implicit Flow Enabled in OIDC Discovery", "medium")
          \cup note(x, "password", "OAuth: Resource Owner Password Credentials Grant Enabled", "high")
          \cup note(x, "jwks", "OAuth: JWKS Endpoint Publicly Accessible", "info")
          \cup First(page, x, "callback unfollowed",
                     "OAuth: Open Redirect via redirect_uri Parameter", "high")
    BY DEF checkOAuthOIDC
  <2> HIDE DEF note
  <2>3. Also(First(page, v, "callback unfollowed",
                   "OAuth: Open Redirect via redirect_uri Parameter", "high"),
             First(page, w, "callback unfollowed",
                   "OAuth: Open Redirect via redirect_uri Parameter", "high"))
    BY <1>4
  <2> DEFINE a(x) == note(x, "implicit", "OAuth: Implicit Flow Enabled in OIDC Discovery", "medium")
             b(x) == note(x, "password",
                          "OAuth: Resource Owner Password Credentials Grant Enabled", "high")
             c(x) == note(x, "jwks", "OAuth: JWKS Endpoint Publicly Accessible", "info")
             d(x) == First(page, x, "callback unfollowed",
                           "OAuth: Open Redirect via redirect_uri Parameter", "high")
  <2>4. /\ Also(a(v), a(w)) /\ Also(b(v), b(w)) /\ Also(c(v), c(w)) /\ Also(d(v), d(w))
    BY <2>1, <2>3
  <2>5. \A x : checkOAuthOIDC(page, x) = a(x) \cup b(x) \cup c(x) \cup d(x) BY <2>2
  <2> HIDE DEF a, b, c, d
  <2> QED BY <2>4, <2>5 DEF Also
<1> QED BY <1>6, <1>7, <1>8, <1>9, <1>10, <1>11, <1>12, <1>13, <1>14, <1>15, <1>16, <1>17,
           <1>18, <1>19, <1>20, <1>21, <1>22, <1>23, <1>24, <1>25, <1>26, <1>27, <1>28, <1>29,
           <1>30, <1>31, <1>32, <1>33, <1>34, <1>35, <1>36

\* An older version of an interface is one of two: which the current one is
\* when a probe of an older list fails does not matter.
LEMMA VersionsLessen ==
    ASSUME NEW page, NEW v, NEW w, Calm(w),
           \A h \in page.hits : h[1] = "version" => h[2] \in 1..8
    PROVE  Also(checkAPIVersioning(page, v), checkAPIVersioning(page, w))
<1>1. PICK A : A = Hits(page, v, "version") OBVIOUS
<1>2. PICK B : B = Hits(page, w, "version") OBVIOUS
<1>3. A \subseteq B BY <1>1, <1>2, ProbesLessen
<1>4. B \subseteq 1..8 /\ B \subseteq Nat BY <1>2 DEF Hits
<1>5. PICK a : a = IF A = {} THEN 0 ELSE Min(A) OBVIOUS
<1>6. PICK b : b = IF B = {} THEN 0 ELSE Min(B) OBVIOUS
<1>7. \A C, n : C \subseteq Nat /\ n \in C => \E m \in C : \A k \in C : m <= k
  <2> SUFFICES ASSUME NEW C, NEW n, C \subseteq Nat, n \in C PROVE \E m \in C : \A k \in C : m <= k
    OBVIOUS
  <2> QED BY LeastOf
<1>8. \A C : C \subseteq Nat /\ C # {} => Min(C) \in C /\ \A k \in C : Min(C) <= k
  <2> SUFFICES ASSUME NEW C, C \subseteq Nat, C # {} PROVE Min(C) \in C /\ \A k \in C : Min(C) <= k
    OBVIOUS
  <2>1. \E m \in C : \A k \in C : m <= k BY <1>7
  <2> QED BY <2>1 DEF Min
<1>9. ASSUME NEW m \in A, <<m, a>> \in SortsBefore PROVE <<m, b>> \in SortsBefore
  <2>1. a \in A /\ b \in B /\ b <= a /\ b <= m /\ a <= m
    <3>1. A # {} /\ B # {} /\ A \subseteq Nat BY <1>3, <1>4
    <3>2. a \in A /\ \A k \in A : a <= k BY <3>1, <1>5, <1>8
    <3>3. b \in B /\ \A k \in B : b <= k BY <3>1, <1>4, <1>6, <1>8
    <3> QED BY <3>2, <3>3, <1>3
  <2>2. a \in Nat /\ b \in Nat /\ m \in Nat BY <2>1, <1>3, <1>4
  <2>3. m \in 7..8 /\ a \in 1..6
    BY <1>9, <2>1, <2>2 DEF SortsBefore
  <2>4. b \in 1..6 BY <2>1, <2>3, <1>4
  <2> QED BY <2>3, <2>4 DEF SortsBefore
<1>10. /\ checkAPIVersioning(page, v) =
             {Issue("Legacy API Version Accessible", VersionPaths[n], "medium", <<"version", n>>) :
                n \in {m \in A : <<m, a>> \in SortsBefore}}
       /\ checkAPIVersioning(page, w) =
             {Issue("Legacy API Version Accessible", VersionPaths[n], "medium", <<"version", n>>) :
                n \in {m \in B : <<m, b>> \in SortsBefore}}
  BY <1>1, <1>2, <1>5, <1>6 DEF checkAPIVersioning
<1>11. checkAPIVersioning(page, v) \subseteq checkAPIVersioning(page, w) BY <1>3, <1>9, <1>10
<1> QED BY <1>11 DEF Also

\* What else a failed request may talk about.
LEMMA OthersLessen ==
    ASSUME NEW page, NEW v, NEW w, Calm(w), IsFiniteSet(page.debug),
           page.debug = {} \/ w.debug \in page.debug
    PROVE  \A f : \/ f \in checkInformationDisclosure(page, v)
                 \/ f \in checkReflectedXSS(page, v)
                 \/ f \in checkRateLimiting(page, v)
                 \/ f \in checkWebSocketEndpoints(page, v)
                 \/ f \in checkSecurityDisclosurePolicy(page, v)
              => \/ f.title \in FailureTalks \cup Restless(page)
                 \/ f \in checkInformationDisclosure(page, w)
                 \/ \E g \in checkWebSocketEndpoints(page, w) :
                       g.title = f.title /\ g.detail = f.detail
<1>1. \A c : Hits(page, v, c) \subseteq Hits(page, w, c) BY ProbesLessen
<1>2. ASSUME NEW f \in checkInformationDisclosure(page, v)
      PROVE  f.title \in Restless(page) \/ f \in checkInformationDisclosure(page, w)
  <2>1. ASSUME NEW d \in page.debug \cap {v.debug}, d # w.debug,
               f = Issue("Debug/Error Information Disclosed", d, "medium", Here)
        PROVE  f.title \in Restless(page)
    <3>1. d \in page.debug /\ w.debug \in page.debug BY <2>1
    <3>2. Cardinality(page.debug) \in Nat BY FS_CardinalityType
    <3>3. Cardinality(page.debug) # 0 BY <3>1, FS_EmptySet
    <3>4. ASSUME Cardinality(page.debug) = 1 PROVE FALSE
      <4>1. PICK x : page.debug = {x} BY <3>4, FS_Singleton
      <4>2. d = x /\ w.debug = x BY <3>1, <4>1
      <4>3. d # w.debug BY <2>1
      <4> QED BY <4>2, <4>3
    <3>5. Cardinality(page.debug) > 1 BY <3>2, <3>3, <3>4
    <3>6. f.title = "Debug/Error Information Disclosed" BY <2>1 DEF Issue
    <3> QED BY <3>5, <3>6 DEF Restless
  <2>2. ASSUME NEW d \in page.debug \cap {v.debug}, d = w.debug,
               f = Issue("Debug/Error Information Disclosed", d, "medium", Here)
        PROVE  f \in checkInformationDisclosure(page, w)
    BY <2>2 DEF checkInformationDisclosure
  <2>3. CASE \A d \in page.debug \cap {v.debug} :
               f # Issue("Debug/Error Information Disclosed", d, "medium", Here)
    <3>1. f \in checkInformationDisclosure(page, w) BY <1>2, <2>3 DEF checkInformationDisclosure
    <3> QED BY <3>1
  <2> QED BY <2>1, <2>2, <2>3
<1>3. ASSUME NEW f \in checkWebSocketEndpoints(page, v)
      PROVE  \/ f.title \in FailureTalks
             \/ \E g \in checkWebSocketEndpoints(page, w) :
                   g.title = f.title /\ g.detail = f.detail
  <2>1. PICK A, B : /\ A = Hits(page, v, "websocket") \cap Hits(page, v, "any origin")
                    /\ B = Hits(page, w, "websocket") \cap Hits(page, w, "any origin")
    OBVIOUS
  <2>2. A \subseteq B
    <3>1. /\ Hits(page, v, "websocket") \subseteq Hits(page, w, "websocket")
          /\ Hits(page, v, "any origin") \subseteq Hits(page, w, "any origin")
      BY <1>1
    <3> QED BY <2>1, <3>1
  <2> DEFINE foreign(n) == Issue("WebSocket Cross-Origin Access (Missing Origin Validation)", "",
                                 "high", <<"websocket", n>>)
             open(n) == Issue("WebSocket Endpoint Discovered", "", "info", <<"websocket", n>>)
  <2>3. /\ \A n \in B : foreign(n) \in checkWebSocketEndpoints(page, w)
        /\ (\E n \in A : f = foreign(n)) \/ (\E n : f = open(n))
    BY <2>1, <1>3 DEF checkWebSocketEndpoints
  <2>4. \A n : open(n).title = "WebSocket Endpoint Discovered" BY DEF Issue
  <2> HIDE DEF foreign, open
  <2> QED BY <2>2, <2>3, <2>4 DEF FailureTalks
<1>4. \A a, s, e : /\ Issue("Reflected XSS", "", s, a).title = "Reflected XSS"
                  /\ Issue("No Rate Limiting on Login Endpoint", "", s, a).title
                       = "No Rate Limiting on Login Endpoint"
                  /\ Issue("Missing security.txt (No Vulnerability Disclosure Policy)", "", s, a).title
                       = "Missing security.txt (No Vulnerability Disclosure Policy)"
  BY DEF Issue
<1>5. \A f \in checkReflectedXSS(page, v) : f.title \in Restless(page)
  BY <1>4 DEF checkReflectedXSS, One, Restless
<1>6. \A f \in checkRateLimiting(page, v) : f.title \in FailureTalks
  BY <1>4 DEF checkRateLimiting, One, FailureTalks
<1>7. \A f \in checkSecurityDisclosurePolicy(page, v) : f.title \in FailureTalks
  BY <1>4 DEF checkSecurityDisclosurePolicy, One, FailureTalks
<1> QED BY <1>2, <1>3, <1>5, <1>6, <1>7

\* Whatever requests fail, a finding of the visit is one of the page under the
\* same title when none does, but for what FailureTalks and Restless name.
THEOREM NoFalseAlarms ==
    ASSUME NEW page, NEW v, NEW w, Calm(w), IsFiniteSet(page.debug),
           page.debug = {} \/ w.debug \in page.debug,
           \A h \in page.hits : h[1] = "version" => h[2] \in 1..8
    PROVE  NoFalseAlarm(page, v, w)
<1>1. Fetched(w, "base") BY ProbesLessen
<1> DEFINE Fine(f) == \/ f.title \in FailureTalks \cup Restless(page)
                      \/ \E g \in Check(page, w) : g.title = f.title /\ g.detail = f.detail
<1>2. \A X : Also(X, Check(page, w)) => \A f \in X : Fine(f) BY DEF Also
<1>3. /\ checkSecurityHeaders(page) \subseteq Check(page, w)
      /\ checkTLS(page) \subseteq Check(page, w)
      /\ checkInformationDisclosure(page, w) \subseteq Check(page, w)
      /\ checkClickjacking(page) \subseteq Check(page, w)
      /\ checkCORS(page, w) \subseteq Check(page, w)
      /\ checkSensitivePaths(page, w) \subseteq Check(page, w)
      /\ checkHTTPMethods(page, w) \subseteq Check(page, w)
      /\ checkCookies(page) \subseteq Check(page, w)
      /\ checkCaching(page) \subseteq Check(page, w)
      /\ checkRedirect(page, w) \subseteq Check(page, w)
      /\ checkCORSWildcardCredentials(page, w) \subseteq Check(page, w)
      /\ checkHTTPRequestSmuggling(page, w) \subseteq Check(page, w)
      /\ checkSSTI(page, w) \subseteq Check(page, w)
      /\ checkJWT(page, w) \subseteq Check(page, w)
      /\ checkGraphQLIntrospection(page, w) \subseteq Check(page, w)
      /\ checkOpenRedirect(page, w) \subseteq Check(page, w)
      /\ checkSSRFDNSRebinding(page, w) \subseteq Check(page, w)
      /\ checkPathTraversal(page, w) \subseteq Check(page, w)
      /\ checkSubdomainTakeover(page) \subseteq Check(page, w)
      /\ checkPrototypePollution(page, w) \subseteq Check(page, w)
      /\ checkDOMXSSSinks(page) \subseteq Check(page, w)
      /\ checkHTTP2Downgrade(page, w) \subseteq Check(page, w)
      /\ checkCachePoisoning(page, w) \subseteq Check(page, w)
      /\ checkHostHeaderInjection(page, w) \subseteq Check(page, w)
      /\ checkMassAssignmentIDOR(page, w) \subseteq Check(page, w)
      /\ checkReflectedXSS(page, w) \subseteq Check(page, w)
      /\ checkCSRF(page, w) \subseteq Check(page, w)
      /\ checkRateLimiting(page, w) \subseteq Check(page, w)
      /\ checkDefaultCredentials(page, w) \subseteq Check(page, w)
      /\ checkDirectoryListing(page, w) \subseteq Check(page, w)
      /\ checkWebSocketEndpoints(page, w) \subseteq Check(page, w)
      /\ checkSecretsInResponse(page, w) \subseteq Check(page, w)
      /\ checkTechVulnerabilities(page) \subseteq Check(page, w)
      /\ checkSQLInjection(page, w) \subseteq Check(page, w)
      /\ checkCommandInjection(page, w) \subseteq Check(page, w)
      /\ checkCRLFInjection(page, w) \subseteq Check(page, w)
      /\ checkXXE(page, w) \subseteq Check(page, w)
      /\ checkSecurityDisclosurePolicy(page, w) \subseteq Check(page, w)
      /\ checkMIMEConfusion(page, w) \subseteq Check(page, w)
      /\ checkSubresourceIntegrity(page, w) \subseteq Check(page, w)
      /\ checkOAuthOIDC(page, w) \subseteq Check(page, w)
      /\ checkHTTP2RapidReset(page, w) \subseteq Check(page, w)
      /\ checkSubdomainTakeoverBody(page, w) \subseteq Check(page, w)
      /\ checkTimingBlindSQLi(page, w) \subseteq Check(page, w)
      /\ checkAPIVersioning(page, w) \subseteq Check(page, w)
  BY <1>1 DEF Check
<1>4. \A A, B : Also(A, B) /\ B \subseteq Check(page, w) => Also(A, Check(page, w)) BY DEF Also
<1>5. \A A : A \subseteq Check(page, w) => Also(A, Check(page, w)) BY DEF Also
<1> HIDE DEF Fine
<1>6. /\ \A f \in checkSecurityHeaders(page) : Fine(f)
      /\ \A f \in checkTLS(page) : Fine(f)
      /\ \A f \in checkClickjacking(page) : Fine(f)
      /\ \A f \in checkCookies(page) : Fine(f)
      /\ \A f \in checkCaching(page) : Fine(f)
      /\ \A f \in checkSubdomainTakeover(page) : Fine(f)
      /\ \A f \in checkDOMXSSSinks(page) : Fine(f)
      /\ \A f \in checkTechVulnerabilities(page) : Fine(f)
  BY <1>2, <1>3, <1>5
<1>7. /\ \A f \in checkSSTI(page, v) : Fine(f)
      /\ \A f \in checkGraphQLIntrospection(page, v) : Fine(f)
      /\ \A f \in checkOpenRedirect(page, v) : Fine(f)
      /\ \A f \in checkSSRFDNSRebinding(page, v) : Fine(f)
      /\ \A f \in checkPathTraversal(page, v) : Fine(f)
      /\ \A f \in checkPrototypePollution(page, v) : Fine(f)
      /\ \A f \in checkDefaultCredentials(page, v) : Fine(f)
      /\ \A f \in checkSQLInjection(page, v) : Fine(f)
      /\ \A f \in checkCommandInjection(page, v) : Fine(f)
      /\ \A f \in checkCRLFInjection(page, v) : Fine(f)
      /\ \A f \in checkXXE(page, v) : Fine(f)
      /\ \A f \in checkHTTPRequestSmuggling(page, v) : Fine(f)
      /\ \A f \in checkHTTP2Downgrade(page, v) : Fine(f)
      /\ \A f \in checkHostHeaderInjection(page, v) : Fine(f)
      /\ \A f \in checkCSRF(page, v) : Fine(f)
      /\ \A f \in checkMIMEConfusion(page, v) : Fine(f)
      /\ \A f \in checkSubresourceIntegrity(page, v) : Fine(f)
      /\ \A f \in checkHTTP2RapidReset(page, v) : Fine(f)
      /\ \A f \in checkRedirect(page, v) : Fine(f)
      /\ \A f \in checkDirectoryListing(page, v) : Fine(f)
      /\ \A f \in checkCORS(page, v) : Fine(f)
      /\ \A f \in checkSensitivePaths(page, v) : Fine(f)
      /\ \A f \in checkHTTPMethods(page, v) : Fine(f)
      /\ \A f \in checkCORSWildcardCredentials(page, v) : Fine(f)
      /\ \A f \in checkJWT(page, v) : Fine(f)
      /\ \A f \in checkCachePoisoning(page, v) : Fine(f)
      /\ \A f \in checkSecretsInResponse(page, v) : Fine(f)
      /\ \A f \in checkSubdomainTakeoverBody(page, v) : Fine(f)
      /\ \A f \in checkMassAssignmentIDOR(page, v) : Fine(f)
      /\ \A f \in checkTimingBlindSQLi(page, v) : Fine(f)
      /\ \A f \in checkOAuthOIDC(page, v) : Fine(f)
  BY <1>2, <1>3, <1>4, VisitsLessen
<1>8. \A f \in checkAPIVersioning(page, v) : Fine(f) BY <1>2, <1>3, <1>4, VersionsLessen
<1>9. /\ \A f \in checkInformationDisclosure(page, v) : Fine(f)
      /\ \A f \in checkReflectedXSS(page, v) : Fine(f)
      /\ \A f \in checkRateLimiting(page, v) : Fine(f)
      /\ \A f \in checkWebSocketEndpoints(page, v) : Fine(f)
      /\ \A f \in checkSecurityDisclosurePolicy(page, v) : Fine(f)
  <2>1. \A f : f.title \in FailureTalks \cup Restless(page) => Fine(f) BY DEF Fine
  <2>2. \A f \in Check(page, w) : Fine(f) BY DEF Fine
  <2>3. \A f : (\E g \in Check(page, w) : g.title = f.title /\ g.detail = f.detail) => Fine(f)
    BY DEF Fine
  <2>4. /\ checkInformationDisclosure(page, w) \subseteq Check(page, w)
        /\ checkWebSocketEndpoints(page, w) \subseteq Check(page, w)
    BY <1>3
  <2>5. ASSUME NEW f, \/ f \in checkInformationDisclosure(page, v)
                     \/ f \in checkReflectedXSS(page, v)
                     \/ f \in checkRateLimiting(page, v)
                     \/ f \in checkWebSocketEndpoints(page, v)
                     \/ f \in checkSecurityDisclosurePolicy(page, v)
        PROVE  Fine(f)
    <3>1. \/ f.title \in FailureTalks \cup Restless(page)
          \/ f \in checkInformationDisclosure(page, w)
          \/ \E g \in checkWebSocketEndpoints(page, w) :
                g.title = f.title /\ g.detail = f.detail
      BY <2>5, OthersLessen
    <3> QED BY <3>1, <2>1, <2>2, <2>3, <2>4
  <2> QED BY <2>5
<1>10. ASSUME NEW f \in Check(page, v) PROVE Fine(f)
  BY <1>6, <1>7, <1>8, <1>9, <1>10 DEF Check
<1> QED BY <1>10 DEF Fine, NoFalseAlarm

-----------------------------------------------------------------------------
\* No finding hides another.

\* The titles of each severity, and the severity of any title: a few checks
\* take it from a table or from the page.
CriticalTitles ==
    {"Expired TLS Certificate", "Server-Side Template Injection (SSTI)",
     "JWT None-Algorithm Accepted", "Server-Side Request Forgery (SSRF)",
     "Path Traversal / Local File Inclusion (LFI)",
     "CORS: Arbitrary Origin Reflected with Credentials", "Default Credentials Accepted",
     "SQL Injection (Error-Based)", "OS Command Injection", "XML External Entity (XXE) Injection",
     "Blind SQL Injection (Time-Based)"}
MediumTitles ==
    {"Debug/Error Information Disclosed", "Clickjacking: No Frame Embedding Protection",
     "CORS: Wildcard Access-Control-Allow-Origin", "Dangerous Methods Listed in Allow Header",
     "Cookie Missing Secure Flag", "Cookie Missing HttpOnly Flag",
     "HTTP Redirect Does Not Target HTTPS", "GraphQL Introspection Exposed", "Open Redirect",
     "HTTP/2 Cleartext (h2c) Upgrade Accepted", "Directory Listing Enabled",
     "Missing Subresource Integrity (SRI)", "OAuth: Implicit Flow Enabled in OIDC Discovery",
     "Legacy API Version Accessible"}
LowTitles ==
    {"Deprecated X-XSS-Protection Header", "Server Version Disclosure",
     "ASP.NET Version Disclosure", "Cookie Missing SameSite Attribute", "MIME Sniffing Risk"}
InfoTitles ==
    {"Technology Disclosure via X-Powered-By", "No Cache-Control Headers",
     "WebSocket Endpoint Discovered", "Missing security.txt (No Vulnerability Disclosure Policy)",
     "OAuth: JWKS Endpoint Publicly Accessible"}
HighTitles ==
    {"TLS Certificate Expiring Soon", "Self-Signed TLS Certificate", "Sensitive path",
     "HTTP Not Redirected to HTTPS", "CORS: Wildcard Origin with Credentials",
     "Potential HTTP Request Smuggling (TE header reflected)", "Potential Subdomain Takeover",
     "Prototype Pollution", "DOM-Based XSS Sink Pattern", "Web Cache Poisoning via Unkeyed Header",
     "Host Header Injection", "Host Header Injection via Redirect",
     "Potential IDOR (Insecure Direct Object Reference)",
     "Potential Mass Assignment Vulnerability", "Reflected XSS", "Missing CSRF Token in Form",
     "No Rate Limiting on Login Endpoint",
     "WebSocket Cross-Origin Access (Missing Origin Validation)", "Secret Leaked in HTTP Response",
     "Known Vulnerable Technology", "CRLF Injection",
     "OAuth: Open Redirect via redirect_uri Parameter",
     "OAuth: Resource Owner Password Credentials Grant Enabled",
     "Potential HTTP/2 Rapid Reset (CVE-2023-44487)", "Subdomain Takeover: Unclaimed Resource"}
Severity(page, title, detail) ==
    IF title \in CriticalTitles THEN "critical"
    ELSE IF title \in MediumTitles THEN "medium"
    ELSE IF title \in LowTitles THEN "low"
    ELSE IF title \in InfoTitles THEN "info"
    ELSE IF title = "Missing Security Header" THEN HeaderSeverity[detail]
    ELSE IF title = "Deprecated protocol" THEN VersionSeverity[detail]
    ELSE IF title = "Dangerous HTTP Method Allowed" THEN MethodSeverity[detail]
    ELSE IF title = "CORS: Arbitrary Origin Reflected" /\ "acac" \in page.facts THEN "critical"
    ELSE "high"
Rated(page, f) == f = Issue(f.title, f.detail, Severity(page, f.title, f.detail), f.at)
AllRated(page, X) == \A f \in X : Rated(page, f)


\* A finding has the severity of its title.
LEMMA TitlesRated ==
    ASSUME NEW page
    PROVE  \A d, a : /\ \A t \in CriticalTitles : Rated(page, Issue(t, d, "critical", a))
                     /\ \A t \in MediumTitles : Rated(page, Issue(t, d, "medium", a))
                     /\ \A t \in LowTitles : Rated(page, Issue(t, d, "low", a))
                     /\ \A t \in InfoTitles : Rated(page, Issue(t, d, "info", a))
                     /\ \A t \in HighTitles : Rated(page, Issue(t, d, "high", a))
                     /\ Rated(page, Issue("Missing Security Header", d, HeaderSeverity[d], a))
                     /\ Rated(page, Issue("Deprecated protocol", d, VersionSeverity[d], a))
                     /\ Rated(page, Issue("Dangerous HTTP Method Allowed", d, MethodSeverity[d], a))
                     /\ Rated(page, Issue("CORS: Arbitrary Origin Reflected", d,
                                          IF "acac" \in page.facts THEN "critical" ELSE "high", a))
<1>1. \A t, d, s, a : Severity(page, t, d) = s => Rated(page, Issue(t, d, s, a))
  BY DEF Rated, Issue
<1>2. \A t \in MediumTitles : t \notin CriticalTitles BY DEF CriticalTitles, MediumTitles
<1>3. \A t \in LowTitles : t \notin CriticalTitles /\ t \notin MediumTitles
  BY DEF CriticalTitles, MediumTitles, LowTitles
<1>4. \A t \in InfoTitles : t \notin CriticalTitles /\ t \notin MediumTitles /\ t \notin LowTitles
  BY DEF CriticalTitles, MediumTitles, LowTitles, InfoTitles
<1> DEFINE None4(t) == /\ t \notin CriticalTitles /\ t \notin MediumTitles
                       /\ t \notin LowTitles /\ t \notin InfoTitles
           Special == {"Missing Security Header", "Deprecated protocol",
                       "Dangerous HTTP Method Allowed", "CORS: Arbitrary Origin Reflected"}
<1>5. \A t \in HighTitles : t \notin CriticalTitles BY DEF CriticalTitles, HighTitles
<1>6. \A t \in HighTitles : t \notin MediumTitles BY DEF MediumTitles, HighTitles
<1>7. \A t \in HighTitles : t \notin LowTitles /\ t \notin InfoTitles
  BY DEF LowTitles, InfoTitles, HighTitles
<1>8. \A t \in HighTitles : t \notin Special BY DEF HighTitles
<1>9. \A t \in Special : None4(t) BY DEF CriticalTitles, MediumTitles, LowTitles, InfoTitles
<1>10. \A d : /\ \A t \in CriticalTitles : Severity(page, t, d) = "critical"
              /\ \A t \in MediumTitles : Severity(page, t, d) = "medium"
              /\ \A t \in LowTitles : Severity(page, t, d) = "low"
              /\ \A t \in InfoTitles : Severity(page, t, d) = "info"
  BY <1>2, <1>3, <1>4 DEF Severity
<1>11. \A d : \A t \in HighTitles : Severity(page, t, d) = "high"
  BY <1>5, <1>6, <1>7, <1>8 DEF Severity
<1>12. \A d : /\ Severity(page, "Missing Security Header", d) = HeaderSeverity[d]
              /\ Severity(page, "Deprecated protocol", d) = VersionSeverity[d]
              /\ Severity(page, "Dangerous HTTP Method Allowed", d) = MethodSeverity[d]
              /\ Severity(page, "CORS: Arbitrary Origin Reflected", d)
                   = IF "acac" \in page.facts THEN "critical" ELSE "high"
  BY <1>9 DEF Severity
<1> HIDE DEF Special
<1>13. TAKE d, a
<1>14. \A t \in CriticalTitles : Rated(page, Issue(t, d, "critical", a)) BY <1>1, <1>10
<1>15. \A t \in MediumTitles : Rated(page, Issue(t, d, "medium", a)) BY <1>1, <1>10
<1>16. \A t \in LowTitles : Rated(page, Issue(t, d, "low", a)) BY <1>1, <1>10
<1>17. \A t \in InfoTitles : Rated(page, Issue(t, d, "info", a)) BY <1>1, <1>10
<1>18. \A t \in HighTitles : Rated(page, Issue(t, d, "high", a)) BY <1>1, <1>11
<1>19. Rated(page, Issue("Missing Security Header", d, HeaderSeverity[d], a)) BY <1>1, <1>12
<1>20. Rated(page, Issue("Deprecated protocol", d, VersionSeverity[d], a)) BY <1>1, <1>12
<1>21. Rated(page, Issue("Dangerous HTTP Method Allowed", d, MethodSeverity[d], a)) BY <1>1, <1>12
<1>22. Rated(page, Issue("CORS: Arbitrary Origin Reflected", d,
                         IF "acac" \in page.facts THEN "critical" ELSE "high", a))
  BY <1>1, <1>12
<1> QED BY <1>14, <1>15, <1>16, <1>17, <1>18, <1>19, <1>20, <1>21, <1>22

\* One, Note, First and Every report findings of their title and severity.
LEMMA ReportsRated ==
    ASSUME NEW page, NEW v
    PROVE  /\ \A c, f : Rated(page, f) => AllRated(page, One(c, f))
           /\ \A c, t, s : (\A a : Rated(page, Issue(t, "", s, a)))
                 => /\ AllRated(page, First(page, v, c, t, s))
                    /\ AllRated(page, Every(page, v, c, t, s))
                    /\ AllRated(page, Note(page, c, t, s))
           /\ \A X, Y : AllRated(page, X) /\ AllRated(page, Y) => AllRated(page, X \cup Y)
<1>1. \A c, f : Rated(page, f) => AllRated(page, One(c, f)) BY DEF AllRated, One
<1>2. \A X, Y : AllRated(page, X) /\ AllRated(page, Y) => AllRated(page, X \cup Y) BY DEF AllRated
<1>3. \A c, t, s : (\A a : Rated(page, Issue(t, "", s, a)))
                     => /\ AllRated(page, First(page, v, c, t, s))
                        /\ AllRated(page, Note(page, c, t, s))
  BY <1>1 DEF First, Note
<1>4. \A c, t, s : (\A a : Rated(page, Issue(t, "", s, a))) => AllRated(page, Every(page, v, c, t, s))
  BY DEF AllRated, Every
<1> QED BY <1>1, <1>2, <1>3, <1>4


\* Every finding of every check has the severity of its title.
LEMMA ChecksRated ==
    ASSUME NEW page, NEW v
    PROVE  AllRated(page, Check(page, v))
<1>1. \A d, a : /\ \A t \in CriticalTitles : Rated(page, Issue(t, d, "critical", a))
                /\ \A t \in MediumTitles : Rated(page, Issue(t, d, "medium", a))
                /\ \A t \in LowTitles : Rated(page, Issue(t, d, "low", a))
                /\ \A t \in InfoTitles : Rated(page, Issue(t, d, "info", a))
                /\ \A t \in HighTitles : Rated(page, Issue(t, d, "high", a))
  BY TitlesRated

<1>2. AllRated(page, checkSecurityHeaders(page))
  <2>1. \A d, a : Rated(page, Issue("Deprecated X-XSS-Protection Header", d, "low", a))
    <3>1. "Deprecated X-XSS-Protection Header" \in LowTitles BY DEF LowTitles
    <3> QED BY <3>1, <1>1
  <2>2. AllRated(page, {Issue("Missing Security Header", h, HeaderSeverity[h], Here) :
                          h \in DOMAIN HeaderSeverity \ page.headers})
    <3>1. \A h : Rated(page, Issue("Missing Security Header", h, HeaderSeverity[h], Here))
      BY TitlesRated
    <3> QED BY <3>1 DEF AllRated
  <2>3. AllRated(page, Note(page, "x-xss-protection", "Deprecated X-XSS-Protection Header", "low"))
    BY <2>1, ReportsRated
  <2> QED BY <2>2, <2>3, ReportsRated DEF checkSecurityHeaders
<1>3. AllRated(page, checkTLS(page))
  <2>1. \A d, a : Rated(page, Issue("Expired TLS Certificate", d, "critical", a))
    <3>1. "Expired TLS Certificate" \in CriticalTitles BY DEF CriticalTitles
    <3> QED BY <3>1, <1>1
  <2>2. \A d, a : Rated(page, Issue("TLS Certificate Expiring Soon", d, "high", a))
    <3>1. "TLS Certificate Expiring Soon" \in HighTitles BY DEF HighTitles
    <3> QED BY <3>1, <1>1
  <2>3. \A d, a : Rated(page, Issue("Self-Signed TLS Certificate", d, "high", a))
    <3>1. "Self-Signed TLS Certificate" \in HighTitles BY DEF HighTitles
    <3> QED BY <3>1, <1>1
  <2>4. AllRated(page, {Issue("Deprecated protocol", u, VersionSeverity[u], Here) :
                          u \in DOMAIN VersionSeverity \cap {page.tls}})
    <3>1. \A u : Rated(page, Issue("Deprecated protocol", u, VersionSeverity[u], Here))
      BY TitlesRated
    <3> QED BY <3>1 DEF AllRated
  <2>5. AllRated(page, Note(page, "self-signed", "Self-Signed TLS Certificate", "high"))
    BY <2>3, ReportsRated
  <2>6. /\ AllRated(page, One(page.cert = "expired",
                              Issue("Expired TLS Certificate", "", "critical", Here)))
        /\ AllRated(page, One(page.cert = "expiring",
                              Issue("TLS Certificate Expiring Soon", "", "high", Here)))
    BY <2>1, <2>2, ReportsRated
  <2>7. AllRated(page, {}) BY DEF AllRated
  <2> QED BY <2>4, <2>5, <2>6, <2>7, ReportsRated DEF checkTLS
<1>4. AllRated(page, checkInformationDisclosure(page, v))
  <2>1. \A d, a : Rated(page, Issue("Server Version Disclosure", d, "low", a))
    <3>1. "Server Version Disclosure" \in LowTitles BY DEF LowTitles
    <3> QED BY <3>1, <1>1
  <2>2. \A d, a : Rated(page, Issue("Technology Disclosure via X-Powered-By", d, "info", a))
    <3>1. "Technology Disclosure via X-Powered-By" \in InfoTitles BY DEF InfoTitles
    <3> QED BY <3>1, <1>1
  <2>3. \A d, a : Rated(page, Issue("ASP.NET Version Disclosure", d, "low", a))
    <3>1. "ASP.NET Version Disclosure" \in LowTitles BY DEF LowTitles
    <3> QED BY <3>1, <1>1
  <2>4. \A d, a : Rated(page, Issue("Debug/Error Information Disclosed", d, "medium", a))
    <3>1. "Debug/Error Information Disclosed" \in MediumTitles BY DEF MediumTitles
    <3> QED BY <3>1, <1>1
  <2>5. AllRated(page, {Issue("Debug/Error Information Disclosed", d, "medium", Here) :
                          d \in page.debug \cap {v.debug}})
    BY <2>4 DEF AllRated
  <2>6. /\ AllRated(page, Note(page, "server version", "Server Version Disclosure", "low"))
        /\ AllRated(page, Note(page, "x-powered-by", "Technology Disclosure via X-Powered-By", "info"))
        /\ AllRated(page, Note(page, "x-aspnet-version", "ASP.NET Version Disclosure", "low"))
    BY <2>1, <2>2, <2>3, ReportsRated
  <2> QED BY <2>5, <2>6, ReportsRated DEF checkInformationDisclosure
<1>5. AllRated(page, checkClickjacking(page))
  <2>1. \A d, a : Rated(page, Issue("Clickjacking: No Frame Embedding Protection", d, "medium", a))
    <3>1. "Clickjacking: No Frame Embedding Protection" \in MediumTitles BY DEF MediumTitles
    <3> QED BY <3>1, <1>1
  <2> QED BY <2>1, ReportsRated DEF checkClickjacking
<1>6. AllRated(page, checkCORS(page, v))
  <2>1. \A d, a : Rated(page, Issue("CORS: Wildcard Access-Control-Allow-Origin", d, "medium", a))
    <3>1. "CORS: Wildcard Access-Control-Allow-Origin" \in MediumTitles BY DEF MediumTitles
    <3> QED BY <3>1, <1>1
  <2>2. AllRated(page, {Issue("CORS: Wildcard Access-Control-Allow-Origin", "", "medium", Here)})
    BY <2>1 DEF AllRated
  <2>3. \A c : AllRated(page, One(c, Issue("CORS: Arbitrary Origin Reflected", "",
                                 IF "acac" \in page.facts THEN "critical" ELSE "high", Here)))
    BY ReportsRated, TitlesRated
  <2> QED BY <2>2, <2>3 DEF checkCORS
<1>7. AllRated(page, checkSensitivePaths(page, v))
  <2>1. \A d, a : Rated(page, Issue("Sensitive path", d, "high", a))
    <3>1. "Sensitive path" \in HighTitles BY DEF HighTitles
    <3> QED BY <3>1, <1>1
  <2> QED BY <2>1, ReportsRated DEF checkSensitivePaths, AllRated
<1>8. AllRated(page, checkHTTPMethods(page, v))
  <2>1. \A d, a : Rated(page, Issue("Dangerous Methods Listed in Allow Header", d, "medium", a))
    <3>1. "Dangerous Methods Listed in Allow Header" \in MediumTitles BY DEF MediumTitles
    <3> QED BY <3>1, <1>1
  <2>2. AllRated(page, {Issue("Dangerous HTTP Method Allowed", m, MethodSeverity[m], Here) :
                          m \in DOMAIN MethodSeverity \cap Hits(page, v, "method")})
    <3>1. \A m : Rated(page, Issue("Dangerous HTTP Method Allowed", m, MethodSeverity[m], Here))
      BY TitlesRated
    <3> QED BY <3>1 DEF AllRated
  <2>3. \A c : AllRated(page, One(c, Issue("Dangerous Methods Listed in Allow Header", "",
                                          "medium", Here)))
    BY <2>1, ReportsRated
  <2> QED BY <2>2, <2>3, ReportsRated DEF checkHTTPMethods
<1>9. AllRated(page, checkCookies(page))
  <2>1. \A d, a : Rated(page, Issue("Cookie Missing Secure Flag", d, "medium", a))
    <3>1. "Cookie Missing Secure Flag" \in MediumTitles BY DEF MediumTitles
    <3> QED BY <3>1, <1>1
  <2>2. \A d, a : Rated(page, Issue("Cookie Missing HttpOnly Flag", d, "medium", a))
    <3>1. "Cookie Missing HttpOnly Flag" \in MediumTitles BY DEF MediumTitles
    <3> QED BY <3>1, <1>1
  <2>3. \A d, a : Rated(page, Issue("Cookie Missing SameSite Attribute", d, "low", a))
    <3>1. "Cookie Missing SameSite Attribute" \in LowTitles BY DEF LowTitles
    <3> QED BY <3>1, <1>1
  <2> QED BY <2>1, <2>2, <2>3 DEF checkCookies, AllRated
<1>10. AllRated(page, checkCaching(page))
  <2>1. \A d, a : Rated(page, Issue("No Cache-Control Headers", d, "info", a))
    <3>1. "No Cache-Control Headers" \in InfoTitles BY DEF InfoTitles
    <3> QED BY <3>1, <1>1
  <2> QED BY <2>1, ReportsRated DEF checkCaching
<1>11. AllRated(page, checkRedirect(page, v))
  <2>1. \A d, a : Rated(page, Issue("HTTP Not Redirected to HTTPS", d, "high", a))
    <3>1. "HTTP Not Redirected to HTTPS" \in HighTitles BY DEF HighTitles
    <3> QED BY <3>1, <1>1
  <2>2. \A d, a : Rated(page, Issue("HTTP Redirect Does Not Target HTTPS", d, "medium", a))
    <3>1. "HTTP Redirect Does Not Target HTTPS" \in MediumTitles BY DEF MediumTitles
    <3> QED BY <3>1, <1>1
  <2> QED BY <2>1, <2>2, ReportsRated DEF checkRedirect
<1>12. AllRated(page, checkCORSWildcardCredentials(page, v))
  <2>1. \A d, a : Rated(page, Issue("CORS: Arbitrary Origin Reflected with Credentials", d, "critical", a))
    <3>1. "CORS: Arbitrary Origin Reflected with Credentials" \in CriticalTitles BY DEF CriticalTitles
    <3> QED BY <3>1, <1>1
  <2>2. \A d, a : Rated(page, Issue("CORS: Wildcard Origin with Credentials", d, "high", a))
    <3>1. "CORS: Wildcard Origin with Credentials" \in HighTitles BY DEF HighTitles
    <3> QED BY <3>1, <1>1
  <2> QED BY <2>1, <2>2, ReportsRated DEF checkCORSWildcardCredentials, AllRated
<1>13. AllRated(page, checkHTTPRequestSmuggling(page, v))
  <2>1. \A d, a : Rated(page, Issue("Potential HTTP Request Smuggling (TE header reflected)", d, "high", a))
    <3>1. "Potential HTTP Request Smuggling (TE header reflected)" \in HighTitles BY DEF HighTitles
    <3> QED BY <3>1, <1>1
  <2> QED BY <2>1, ReportsRated DEF checkHTTPRequestSmuggling
<1>14. AllRated(page, checkSSTI(page, v))
  <2>1. \A d, a : Rated(page, Issue("Server-Side Template Injection (SSTI)", d, "critical", a))
    <3>1. "Server-Side Template Injection (SSTI)" \in CriticalTitles BY DEF CriticalTitles
    <3> QED BY <3>1, <1>1
  <2> QED BY <2>1, ReportsRated DEF checkSSTI
<1>15. AllRated(page, checkJWT(page, v))
  <2>1. \A d, a : Rated(page, Issue("JWT None-Algorithm Accepted", d, "critical", a))
    <3>1. "JWT None-Algorithm Accepted" \in CriticalTitles BY DEF CriticalTitles
    <3> QED BY <3>1, <1>1
  <2> QED BY <2>1, ReportsRated DEF checkJWT
<1>16. AllRated(page, checkGraphQLIntrospection(page, v))
  <2>1. \A d, a : Rated(page, Issue("GraphQL Introspection Exposed", d, "medium", a))
    <3>1. "GraphQL Introspection Exposed" \in MediumTitles BY DEF MediumTitles
    <3> QED BY <3>1, <1>1
  <2> QED BY <2>1, ReportsRated DEF checkGraphQLIntrospection
<1>17. AllRated(page, checkOpenRedirect(page, v))
  <2>1. \A d, a : Rated(page, Issue("Open Redirect", d, "medium", a))
    <3>1. "Open Redirect" \in MediumTitles BY DEF MediumTitles
    <3> QED BY <3>1, <1>1
  <2> QED BY <2>1, ReportsRated DEF checkOpenRedirect
<1>18. AllRated(page, checkSSRFDNSRebinding(page, v))
  <2>1. \A d, a : Rated(page, Issue("Server-Side Request Forgery (SSRF)", d, "critical", a))
    <3>1. "Server-Side Request Forgery (SSRF)" \in CriticalTitles BY DEF CriticalTitles
    <3> QED BY <3>1, <1>1
  <2> QED BY <2>1, ReportsRated DEF checkSSRFDNSRebinding
<1>19. AllRated(page, checkPathTraversal(page, v))
  <2>1. \A d, a : Rated(page, Issue("Path Traversal / Local File Inclusion (LFI)", d, "critical", a))
    <3>1. "Path Traversal / Local File Inclusion (LFI)" \in CriticalTitles BY DEF CriticalTitles
    <3> QED BY <3>1, <1>1
  <2> QED BY <2>1, ReportsRated DEF checkPathTraversal
<1>20. AllRated(page, checkSubdomainTakeover(page))
  <2>1. \A d, a : Rated(page, Issue("Potential Subdomain Takeover", d, "high", a))
    <3>1. "Potential Subdomain Takeover" \in HighTitles BY DEF HighTitles
    <3> QED BY <3>1, <1>1
  <2> QED BY <2>1 DEF checkSubdomainTakeover, AllRated
<1>21. AllRated(page, checkPrototypePollution(page, v))
  <2>1. \A d, a : Rated(page, Issue("Prototype Pollution", d, "high", a))
    <3>1. "Prototype Pollution" \in HighTitles BY DEF HighTitles
    <3> QED BY <3>1, <1>1
  <2> QED BY <2>1, ReportsRated DEF checkPrototypePollution
<1>22. AllRated(page, checkDOMXSSSinks(page))
  <2>1. \A d, a : Rated(page, Issue("DOM-Based XSS Sink Pattern", d, "high", a))
    <3>1. "DOM-Based XSS Sink Pattern" \in HighTitles BY DEF HighTitles
    <3> QED BY <3>1, <1>1
  <2> QED BY <2>1 DEF checkDOMXSSSinks, AllRated
<1>23. AllRated(page, checkHTTP2Downgrade(page, v))
  <2>1. \A d, a : Rated(page, Issue("HTTP/2 Cleartext (h2c) Upgrade Accepted", d, "medium", a))
    <3>1. "HTTP/2 Cleartext (h2c) Upgrade Accepted" \in MediumTitles BY DEF MediumTitles
    <3> QED BY <3>1, <1>1
  <2> QED BY <2>1, ReportsRated DEF checkHTTP2Downgrade
<1>24. AllRated(page, checkCachePoisoning(page, v))
  <2>1. \A d, a : Rated(page, Issue("Web Cache Poisoning via Unkeyed Header", d, "high", a))
    <3>1. "Web Cache Poisoning via Unkeyed Header" \in HighTitles BY DEF HighTitles
    <3> QED BY <3>1, <1>1
  <2> QED BY <2>1, ReportsRated DEF checkCachePoisoning
<1>25. AllRated(page, checkHostHeaderInjection(page, v))
  <2>1. \A d, a : Rated(page, Issue("Host Header Injection", d, "high", a))
    <3>1. "Host Header Injection" \in HighTitles BY DEF HighTitles
    <3> QED BY <3>1, <1>1
  <2>2. \A d, a : Rated(page, Issue("Host Header Injection via Redirect", d, "high", a))
    <3>1. "Host Header Injection via Redirect" \in HighTitles BY DEF HighTitles
    <3> QED BY <3>1, <1>1
  <2> QED BY <2>1, <2>2, ReportsRated DEF checkHostHeaderInjection
<1>26. AllRated(page, checkMassAssignmentIDOR(page, v))
  <2>1. \A d, a : Rated(page, Issue("Potential IDOR (Insecure Direct Object Reference)", d, "high", a))
    <3>1. "Potential IDOR (Insecure Direct Object Reference)" \in HighTitles BY DEF HighTitles
    <3> QED BY <3>1, <1>1
  <2>2. \A d, a : Rated(page, Issue("Potential Mass Assignment Vulnerability", d, "high", a))
    <3>1. "Potential Mass Assignment Vulnerability" \in HighTitles BY DEF HighTitles
    <3> QED BY <3>1, <1>1
  <2> QED BY <2>1, <2>2, ReportsRated DEF checkMassAssignmentIDOR
<1>27. AllRated(page, checkReflectedXSS(page, v))
  <2>1. \A d, a : Rated(page, Issue("Reflected XSS", d, "high", a))
    <3>1. "Reflected XSS" \in HighTitles BY DEF HighTitles
    <3> QED BY <3>1, <1>1
  <2> QED BY <2>1, ReportsRated DEF checkReflectedXSS
<1>28. AllRated(page, checkCSRF(page, v))
  <2>1. \A d, a : Rated(page, Issue("Missing CSRF Token in Form", d, "high", a))
    <3>1. "Missing CSRF Token in Form" \in HighTitles BY DEF HighTitles
    <3> QED BY <3>1, <1>1
  <2> QED BY <2>1, ReportsRated DEF checkCSRF
<1>29. AllRated(page, checkRateLimiting(page, v))
  <2>1. \A d, a : Rated(page, Issue("No Rate Limiting on Login Endpoint", d, "high", a))
    <3>1. "No Rate Limiting on Login Endpoint" \in HighTitles BY DEF HighTitles
    <3> QED BY <3>1, <1>1
  <2> QED BY <2>1, ReportsRated DEF checkRateLimiting
<1>30. AllRated(page, checkDefaultCredentials(page, v))
  <2>1. \A d, a : Rated(page, Issue("Default Credentials Accepted", d, "critical", a))
    <3>1. "Default Credentials Accepted" \in CriticalTitles BY DEF CriticalTitles
    <3> QED BY <3>1, <1>1
  <2> QED BY <2>1, ReportsRated DEF checkDefaultCredentials
<1>31. AllRated(page, checkDirectoryListing(page, v))
  <2>1. \A d, a : Rated(page, Issue("Directory Listing Enabled", d, "medium", a))
    <3>1. "Directory Listing Enabled" \in MediumTitles BY DEF MediumTitles
    <3> QED BY <3>1, <1>1
  <2> QED BY <2>1, ReportsRated DEF checkDirectoryListing
<1>32. AllRated(page, checkWebSocketEndpoints(page, v))
  <2>1. \A d, a : Rated(page, Issue("WebSocket Cross-Origin Access (Missing Origin Validation)", d, "high", a))
    <3>1. "WebSocket Cross-Origin Access (Missing Origin Validation)" \in HighTitles BY DEF HighTitles
    <3> QED BY <3>1, <1>1
  <2>2. \A d, a : Rated(page, Issue("WebSocket Endpoint Discovered", d, "info", a))
    <3>1. "WebSocket Endpoint Discovered" \in InfoTitles BY DEF InfoTitles
    <3> QED BY <3>1, <1>1
  <2> QED BY <2>1, <2>2 DEF checkWebSocketEndpoints, AllRated
<1>33. AllRated(page, checkSecretsInResponse(page, v))
  <2>1. \A d, a : Rated(page, Issue("Secret Leaked in HTTP Response", d, "high", a))
    <3>1. "Secret Leaked in HTTP Response" \in HighTitles BY DEF HighTitles
    <3> QED BY <3>1, <1>1
  <2> QED BY <2>1 DEF checkSecretsInResponse, AllRated
<1>34. AllRated(page, checkTechVulnerabilities(page))
  <2>1. \A d, a : Rated(page, Issue("Known Vulnerable Technology", d, "high", a))
    <3>1. "Known Vulnerable Technology" \in HighTitles BY DEF HighTitles
    <3> QED BY <3>1, <1>1
  <2> QED BY <2>1 DEF checkTechVulnerabilities, AllRated
<1>35. AllRated(page, checkSQLInjection(page, v))
  <2>1. \A d, a : Rated(page, Issue("SQL Injection (Error-Based)", d, "critical", a))
    <3>1. "SQL Injection (Error-Based)" \in CriticalTitles BY DEF CriticalTitles
    <3> QED BY <3>1, <1>1
  <2> QED BY <2>1, ReportsRated DEF checkSQLInjection
<1>36. AllRated(page, checkCommandInjection(page, v))
  <2>1. \A d, a : Rated(page, Issue("OS Command Injection", d, "critical", a))
    <3>1. "OS Command Injection" \in CriticalTitles BY DEF CriticalTitles
    <3> QED BY <3>1, <1>1
  <2> QED BY <2>1, ReportsRated DEF checkCommandInjection
<1>37. AllRated(page, checkCRLFInjection(page, v))
  <2>1. \A d, a : Rated(page, Issue("CRLF Injection", d, "high", a))
    <3>1. "CRLF Injection" \in HighTitles BY DEF HighTitles
    <3> QED BY <3>1, <1>1
  <2> QED BY <2>1, ReportsRated DEF checkCRLFInjection
<1>38. AllRated(page, checkXXE(page, v))
  <2>1. \A d, a : Rated(page, Issue("XML External Entity (XXE) Injection", d, "critical", a))
    <3>1. "XML External Entity (XXE) Injection" \in CriticalTitles BY DEF CriticalTitles
    <3> QED BY <3>1, <1>1
  <2> QED BY <2>1, ReportsRated DEF checkXXE
<1>39. AllRated(page, checkSecurityDisclosurePolicy(page, v))
  <2>1. \A d, a : Rated(page, Issue("Missing security.txt (No Vulnerability Disclosure Policy)", d, "info", a))
    <3>1. "Missing security.txt (No Vulnerability Disclosure Policy)" \in InfoTitles BY DEF InfoTitles
    <3> QED BY <3>1, <1>1
  <2> QED BY <2>1, ReportsRated DEF checkSecurityDisclosurePolicy
<1>40. AllRated(page, checkMIMEConfusion(page, v))
  <2>1. \A d, a : Rated(page, Issue("MIME Sniffing Risk", d, "low", a))
    <3>1. "MIME Sniffing Risk" \in LowTitles BY DEF LowTitles
    <3> QED BY <3>1, <1>1
  <2> QED BY <2>1, ReportsRated DEF checkMIMEConfusion
<1>41. AllRated(page, checkSubresourceIntegrity(page, v))
  <2>1. \A d, a : Rated(page, Issue("Missing Subresource Integrity (SRI)", d, "medium", a))
    <3>1. "Missing Subresource Integrity (SRI)" \in MediumTitles BY DEF MediumTitles
    <3> QED BY <3>1, <1>1
  <2> QED BY <2>1, ReportsRated DEF checkSubresourceIntegrity
<1>42. AllRated(page, checkOAuthOIDC(page, v))
  <2>1. \A d, a : Rated(page, Issue("OAuth: Implicit Flow Enabled in OIDC Discovery", d, "medium", a))
    <3>1. "OAuth: Implicit Flow Enabled in OIDC Discovery" \in MediumTitles BY DEF MediumTitles
    <3> QED BY <3>1, <1>1
  <2>2. \A d, a : Rated(page, Issue("OAuth: Resource Owner Password Credentials Grant Enabled", d, "high", a))
    <3>1. "OAuth: Resource Owner Password Credentials Grant Enabled" \in HighTitles BY DEF HighTitles
    <3> QED BY <3>1, <1>1
  <2>3. \A d, a : Rated(page, Issue("OAuth: JWKS Endpoint Publicly Accessible", d, "info", a))
    <3>1. "OAuth: JWKS Endpoint Publicly Accessible" \in InfoTitles BY DEF InfoTitles
    <3> QED BY <3>1, <1>1
  <2>4. \A d, a : Rated(page, Issue("OAuth: Open Redirect via redirect_uri Parameter", d, "high", a))
    <3>1. "OAuth: Open Redirect via redirect_uri Parameter" \in HighTitles BY DEF HighTitles
    <3> QED BY <3>1, <1>1
  <2> QED BY <2>1, <2>2, <2>3, <2>4, ReportsRated DEF checkOAuthOIDC
<1>43. AllRated(page, checkHTTP2RapidReset(page, v))
  <2>1. \A d, a : Rated(page, Issue("Potential HTTP/2 Rapid Reset (CVE-2023-44487)", d, "high", a))
    <3>1. "Potential HTTP/2 Rapid Reset (CVE-2023-44487)" \in HighTitles BY DEF HighTitles
    <3> QED BY <3>1, <1>1
  <2> QED BY <2>1, ReportsRated DEF checkHTTP2RapidReset
<1>44. AllRated(page, checkSubdomainTakeoverBody(page, v))
  <2>1. \A d, a : Rated(page, Issue("Subdomain Takeover: Unclaimed Resource", d, "high", a))
    <3>1. "Subdomain Takeover: Unclaimed Resource" \in HighTitles BY DEF HighTitles
    <3> QED BY <3>1, <1>1
  <2> QED BY <2>1 DEF checkSubdomainTakeoverBody, AllRated
<1>45. AllRated(page, checkTimingBlindSQLi(page, v))
  <2>1. \A d, a : Rated(page, Issue("Blind SQL Injection (Time-Based)", d, "critical", a))
    <3>1. "Blind SQL Injection (Time-Based)" \in CriticalTitles BY DEF CriticalTitles
    <3> QED BY <3>1, <1>1
  <2>2. AllRated(page, {}) BY DEF AllRated
  <2>3. AllRated(page, First(page, v, "slow", "Blind SQL Injection (Time-Based)", "critical"))
    BY <2>1, ReportsRated
  <2> QED BY <2>2, <2>3 DEF checkTimingBlindSQLi
<1>46. AllRated(page, checkAPIVersioning(page, v))
  <2>1. \A d, a : Rated(page, Issue("Legacy API Version Accessible", d, "medium", a))
    <3>1. "Legacy API Version Accessible" \in MediumTitles BY DEF MediumTitles
    <3> QED BY <3>1, <1>1
  <2> QED BY <2>1 DEF checkAPIVersioning, AllRated
<1>47. ASSUME NEW f \in Check(page, v) PROVE Rated(page, f)
  BY <1>47, <1>2, <1>3, <1>4, <1>5, <1>6, <1>7, <1>8, <1>9, <1>10, <1>11, <1>12, <1>13, <1>14, <1>15, <1>16, <1>17, <1>18, <1>19, <1>20, <1>21, <1>22, <1>23, <1>24, <1>25, <1>26, <1>27, <1>28, <1>29, <1>30, <1>31, <1>32, <1>33, <1>34, <1>35, <1>36, <1>37, <1>38, <1>39, <1>40, <1>41, <1>42, <1>43, <1>44, <1>45, <1>46 DEF Check, AllRated
<1> QED BY <1>47 DEF AllRated

\* No two findings of a visit are stored as one row, whatever the page answers
\* and whichever requests fail: web.Run stores a finding under its title and
\* URL, and those two determine the rest.
THEOREM RowsAreApart ==
    ASSUME NEW page, NEW v
    PROVE  OneRowEach(page, v)
<1>1. \A f \in Check(page, v) : Rated(page, f) BY ChecksRated DEF AllRated
<1>2. \A f, g : Rated(page, f) /\ Rated(page, g) /\ Key(f) = Key(g) => f = g
  <2>1. \A f, g : Key(f) = Key(g) => f.title = g.title /\ f.detail = g.detail /\ f.at = g.at
    BY DEF Key
  <2> QED BY <2>1 DEF Rated
<1> QED BY <1>1, <1>2 DEF OneRowEach

-----------------------------------------------------------------------------
\* The samples of MCScans.

\* A page as the samples have them.
IsSample(page) ==
    /\ IsFiniteSet(page.debug) /\ (page.debug = {} \/ Whole.debug \in page.debug)
    /\ \A h \in page.hits : h[1] = "version" => h[2] \in 1..8

\* Every page of the samples has its older versions among the paths of the list.
LEMMA PagesAre == \A page \in Pages : IsSample(page)
<1>1. \A h \in AllHits : h[1] = "version" => h[2] \in 1..8
  <2>1. \A h \in Probed \X {1, 2} : h[1] \in Probed OBVIOUS
  <2>2. "version" \notin Probed BY DEF Probed
  <2>3. \A h \in {"version"} \X (1..8) : h[2] \in 1..8 OBVIOUS
  <2>4. \A h \in {"method"} \X {"TRACE", "PUT"} : h[1] # "version" OBVIOUS
  <2>5. \A h \in {<<"path", 3>>, <<"forbidden", 1>>, <<"forbidden", 3>>} : h[1] # "version" OBVIOUS
  <2>6. \A s : <<"secret", s>>[1] # "version" OBVIOUS
  <2> HIDE DEF Probed
  <2> QED BY <2>1, <2>2, <2>3, <2>4, <2>5, <2>6 DEF AllHits
<1>2. /\ Loud.hits = AllHits /\ Loud.debug = {"trace", "dump"}
      /\ Quiet.hits = AllHits /\ Quiet.debug = {}
  BY DEF Loud, Quiet
<1>3. Whole.debug = "trace" BY DEF Whole, Visit
<1>4. IsFiniteSet({"trace", "dump"}) /\ IsFiniteSet({"trace"}) /\ IsFiniteSet({})
  <2>1. IsFiniteSet({"trace"}) /\ IsFiniteSet({}) BY FS_Singleton, FS_EmptySet
  <2>2. IsFiniteSet({"trace"} \cup {"dump"}) BY <2>1, FS_AddElement
  <2>3. {"trace"} \cup {"dump"} = {"trace", "dump"} OBVIOUS
  <2> QED BY <2>1, <2>2, <2>3
<1>5. \A page : page.hits \subseteq AllHits /\ page.debug \in {{"trace", "dump"}, {}, {"trace"}}
                 => IsSample(page)
  <2>1. \A D : D \in {{"trace", "dump"}, {}, {"trace"}}
               => IsFiniteSet(D) /\ (D = {} \/ "trace" \in D)
    BY <1>4
  <2> QED BY <1>1, <1>3, <2>1 DEF IsSample
<1> HIDE DEF AllHits
<1>6. \A F : [Loud EXCEPT !.facts = F].hits = AllHits
             /\ [Loud EXCEPT !.facts = F].debug = {"trace", "dump"}
  BY DEF Loud
<1>7. \A g : Minus(g).hits \subseteq AllHits /\ Minus(g).debug = {"trace", "dump"}
  BY DEF Minus, Loud
<1>8. [Quiet EXCEPT !.debug = {"trace"}].hits = AllHits
      /\ [Quiet EXCEPT !.debug = {"trace"}].debug = {"trace"}
  BY DEF Quiet, Loud
<1>9. ASSUME NEW page \in Pages
      PROVE  page.hits \subseteq AllHits /\ page.debug \in {{"trace", "dump"}, {}, {"trace"}}
  <2>1. \/ \E F : page = [Loud EXCEPT !.facts = F]
        \/ \E g : page = Minus(g)
        \/ page = Quiet
        \/ page = [Quiet EXCEPT !.debug = {"trace"}]
    BY DEF Pages
  <2>2. CASE \E F : page = [Loud EXCEPT !.facts = F] BY <2>2, <1>6
  <2>3. CASE \E g : page = Minus(g) BY <2>3, <1>7
  <2>4. CASE page = Quiet BY <2>4, <1>2
  <2>5. CASE page = [Quiet EXCEPT !.debug = {"trace"}] BY <2>5, <1>8
  <2> QED BY <2>1, <2>2, <2>3, <2>4, <2>5
<1> QED BY <1>5, <1>9

\* Whatever a page of the samples is, its visits are as Check says.
LEMMA SamplesAre ==
    ASSUME NEW page \in Pages, NEW v \in Flawed(page)
    PROVE  /\ NoFalseAlarm(page, v, Whole)
           /\ v.lost \cup v.missed = {} => SaysTheSame(page, Whole, v)
           /\ OneRowEach(page, v)
<1>1. IsSample(page) BY PagesAre
<1>2. Calm(Whole) BY DEF Calm, Whole, Visit
<1>3. v.debug \in Debugs(page) BY DEF Flawed, Visit
<1>4. page.debug = {} \/ {Whole.debug, v.debug} \subseteq page.debug
  BY <1>1, <1>3 DEF IsSample, Debugs
<1>5. NoFalseAlarm(page, v, Whole) BY <1>1, <1>2, NoFalseAlarms DEF IsSample
<1>6. v.lost \cup v.missed = {} => SaysTheSame(page, Whole, v)
  <2>1. SUFFICES ASSUME v.lost \cup v.missed = {} PROVE SaysTheSame(page, Whole, v) OBVIOUS
  <2>2. Calm(v) BY <2>1 DEF Calm
  <2>3. IsFiniteSet(page.debug) BY <1>1 DEF IsSample
  <2> QED BY <1>2, <1>4, <2>2, <2>3, CalmVisitsAgree
<1>7. OneRowEach(page, v) BY RowsAreApart
<1> QED BY <1>5, <1>6, <1>7

\* A failed request of SecurityChecker.Check is never taken for a finding, two
\* full visits say the same, and no finding is stored over another: of every
\* sample, by what NoFalseAlarms, CalmVisitsAgree and RowsAreApart say of every
\* page and visit.
THEOREM ChecksAreAlwaysHonest == ScansSpec => []ChecksAreHonest
<1> DEFINE SInv == part = "checks" => sample \in Samples
<1>1. ScansInit => SInv BY DEF ScansInit
<1>2. SInv /\ [ScansNext]_scansVars => SInv'
  <2>1. [ScansNext]_scansVars => part' = part /\ sample' = sample BY DEF ScansNext, scansVars
  <2> QED BY <2>1
<1>3. SInv => ChecksAreHonest
  <2>1. SUFFICES ASSUME part = "checks", sample \in Samples PROVE ChecksAreHonest
    BY DEF ChecksAreHonest
  <2>2. PICK p \in Pages : \E v \in Flawed(p) : sample = [page |-> p, visit |-> v]
    BY <2>1 DEF Samples
  <2>3. PICK v \in Flawed(p) : sample = [page |-> p, visit |-> v] BY <2>2
  <2>4. sample.page = p /\ sample.visit = v BY <2>3
  <2> QED BY <2>4, SamplesAre DEF ChecksAreHonest
<1> QED BY <1>1, <1>2, <1>3, PTL DEF ScansSpec

-----------------------------------------------------------------------------
\* Types.

\* What a producer is at, and what the two channels hold, before and after a
\* cancellation; what the rest of the pipeline is.
ProducerIs(r) ==
    /\ DOMAIN r = {"pc", "send", "left", "tries"}
    /\ r.pc \in {"free", "probing", "sending", "query", "returned"}
ChannelIs(c, cap) == IsSeq(c) /\ Len(c) <= cap
PTInv ==
    /\ scanner \in AllScanners
    /\ ChannelIs(inbox, InCap) /\ ChannelIs(outbox, OutCap)
    /\ feeder \in {"feeding", "sending", "done", "closed"}
    /\ DOMAIN producer = Producers /\ \A w \in Producers : ProducerIs(producer[w])
    /\ consumer \in {"reading", "busy", "done"}
    /\ stopped \in BOOLEAN

\* A channel with room takes one more, and one that is not empty gives one.
LEMMA ChannelMoves ==
    ASSUME NEW c, NEW cap \in Nat, ChannelIs(c, cap)
    PROVE  /\ \A x : Len(c) < cap => ChannelIs(Append(c, x), cap)
           /\ c # <<>> => ChannelIs(Tail(c), cap)
<1>1. IsSeq(c) /\ Len(c) \in Nat /\ Len(c) <= cap BY SeqIs DEF ChannelIs
<1>2. ASSUME NEW x, Len(c) < cap PROVE ChannelIs(Append(c, x), cap)
  <2>1. c \in Seq(ToSet(c) \cup {x}) BY <1>1, SeqMonotonic DEF IsSeq
  <2>2. /\ Append(c, x) \in Seq(ToSet(c) \cup {x}) /\ Len(Append(c, x)) = Len(c) + 1
    BY <2>1, AppendProperties
  <2>3. IsSeq(Append(c, x)) BY <2>2, AnySeq
  <2> QED BY <1>1, <1>2, <2>2, <2>3 DEF ChannelIs
<1>3. ASSUME c # <<>> PROVE ChannelIs(Tail(c), cap)
  <2>1. c \in Seq(ToSet(c)) BY <1>1 DEF IsSeq
  <2>2. Tail(c) \in Seq(ToSet(c)) /\ Len(Tail(c)) = Len(c) - 1 BY <2>1, <1>3, HeadTailProperties
  <2>3. IsSeq(Tail(c)) BY <2>2, AnySeq
  <2> QED BY <1>1, <2>2, <2>3 DEF ChannelIs
<1> QED BY <1>2, <1>3

\* What a producer becomes is one again.
LEMMA ProducersMove ==
    ASSUME NEW w \in Producers, NEW r, PTInv, WorkerBecomes(w, r), ProducerIs(r)
    PROVE  DOMAIN producer' = Producers /\ \A z \in Producers : ProducerIs(producer'[z])
<1>1. DOMAIN producer' = Producers /\ \A z \in Producers : producer'[z] = IF z = w THEN r ELSE producer[z]
  BY DEF WorkerBecomes, PTInv
<1> QED BY <1>1 DEF PTInv

\* The records that producers become.
LEMMA ProducersAre ==
    /\ ProducerIs(Free) /\ ProducerIs(Returned)
    /\ \A x : ProducerIs([Free EXCEPT !.pc = "probing", !.left = x]) /\ ProducerIs([Free EXCEPT !.pc = "query"])
    /\ \A r, x, y : ProducerIs(r) =>
         /\ ProducerIs([r EXCEPT !.left = x]) /\ ProducerIs([r EXCEPT !.send = x])
         /\ ProducerIs([r EXCEPT !.tries = x])
         /\ ProducerIs([r EXCEPT !.pc = "probing"])
         /\ ProducerIs([r EXCEPT !.pc = "probing", !.left = x])
         /\ ProducerIs([r EXCEPT !.pc = "sending", !.send = x, !.left = y])
BY DEF ProducerIs, Free, Returned

\* Each step of the pipeline.
LEMMA ProducerTypes ==
    ASSUME PTInv, NEW w \in Producers, Take(w) \/ Probe(w) \/ Send(w) \/ Query(w)
    PROVE  PTInv'
<1> DEFINE r == producer[w]
<1>1. ProducerIs(r) BY DEF PTInv
<1>2. InCap \in Nat /\ OutCap \in Nat BY ScannerPipelineAssumption
<1>3. CASE Take(w)
  <2>1. PICK x : WorkerBecomes(w, x) /\ ProducerIs(x) BY <1>3, ProducersAre DEF Take
  <2>2. ChannelIs(inbox', InCap) BY <1>2, <1>3, ChannelMoves DEF Take, PTInv
  <2>3. UNCHANGED <<scanner, stopped, feeder, outbox, consumer>> BY <1>3 DEF Take
  <2>4. DOMAIN producer' = Producers /\ \A z \in Producers : ProducerIs(producer'[z])
    BY <2>1, ProducersMove
  <2> QED BY <2>2, <2>3, <2>4 DEF PTInv
<1>4. CASE Probe(w)
  <2>1. PICK found : IF found = <<>> \/ ~Fresh(found)
            THEN WorkerBecomes(w, IF Tail(r.left) # <<>> THEN [r EXCEPT !.left = Tail(@)]
                               ELSE IF w \in Pool THEN Free ELSE Returned)
            ELSE WorkerBecomes(w, [r EXCEPT !.pc = "sending", !.send = found, !.left = Tail(@)])
    BY <1>4 DEF Probe
  <2> HIDE DEF r
  <2>2. PICK x : WorkerBecomes(w, x) /\ ProducerIs(x) BY <1>1, <2>1, ProducersAre
  <2>3. UNCHANGED <<scanner, stopped, feeder, inbox, outbox, consumer>> BY <1>4 DEF Probe
  <2>4. DOMAIN producer' = Producers /\ \A z \in Producers : ProducerIs(producer'[z])
    BY <2>2, ProducersMove
  <2> QED BY <2>3, <2>4 DEF PTInv
<1>5. CASE Send(w)
  <2>1. \A dropped : ProducerIs(After(w, dropped)) BY <1>1, ProducersAre DEF After
  <2>2. PICK x : WorkerBecomes(w, x) /\ ProducerIs(x) BY <1>5, <2>1 DEF Send
  <2>3. ChannelIs(outbox', OutCap)
    <3>1. ChannelIs(outbox, OutCap) BY DEF PTInv
    <3>2. outbox' = outbox \/ (Len(outbox) < OutCap /\ \E y : outbox' = Append(outbox, y))
      BY <1>5 DEF Send
    <3> QED BY <1>2, <3>1, <3>2, ChannelMoves
  <2>4. UNCHANGED <<scanner, stopped, feeder, inbox, consumer>> BY <1>5 DEF Send
  <2>5. DOMAIN producer' = Producers /\ \A z \in Producers : ProducerIs(producer'[z])
    BY <2>2, ProducersMove
  <2> QED BY <2>3, <2>4, <2>5 DEF PTInv
<1>6. CASE Query(w)
  <2>1. PICK order, last : \/ WorkerBecomes(w, IF order = <<>> THEN Returned
                                     ELSE [r EXCEPT !.pc = "probing", !.left = order])
                     \/ WorkerBecomes(w, IF last \/ stopped THEN Returned
                                     ELSE [r EXCEPT !.tries = @ + 1])
    BY <1>6 DEF Query
  <2> HIDE DEF r
  <2>2. PICK x : WorkerBecomes(w, x) /\ ProducerIs(x) BY <1>1, <2>1, ProducersAre
  <2>3. UNCHANGED <<scanner, stopped, feeder, inbox, outbox, consumer>> BY <1>6 DEF Query
  <2>4. DOMAIN producer' = Producers /\ \A z \in Producers : ProducerIs(producer'[z])
    BY <2>2, ProducersMove
  <2> QED BY <2>3, <2>4 DEF PTInv
<1> QED BY <1>3, <1>4, <1>5, <1>6

LEMMA PipelineTypes ==
    /\ PipelineInit => PTInv
    /\ PTInv /\ [PipelineNext]_pipelineVars => PTInv'
    /\ PTInv => PipelineTypeOK
<1>0. InCap \in Nat /\ OutCap \in Nat BY ScannerPipelineAssumption
<1>1. ASSUME PipelineInit PROVE PTInv
  <2>1. ChannelIs(<<>>, InCap) /\ ChannelIs(<<>>, OutCap)
    <3>1. <<>> \in Seq({}) /\ Len(<<>>) = 0 BY EmptySeq
    <3>2. IsSeq(<<>>) BY <3>1, AnySeq
    <3> QED BY <1>0, <3>1, <3>2 DEF ChannelIs
  <2>2. /\ DOMAIN producer = Producers
        /\ \A w \in Producers : producer[w] \in {Free, [Free EXCEPT !.pc = "query"], Returned}
    BY <1>1 DEF PipelineInit
  <2>3. \A w \in Producers : ProducerIs(producer[w]) BY <2>2, ProducersAre
  <2>4. scanner \in AllScanners BY <1>1, ScannerPipelineAssumption DEF PipelineInit
  <2>5. inbox = <<>> /\ outbox = <<>> /\ feeder = "feeding" /\ consumer = "reading" /\ stopped = FALSE
    BY <1>1 DEF PipelineInit
  <2> QED BY <2>1, <2>2, <2>3, <2>4, <2>5 DEF PTInv
<1>2. ASSUME PTInv, [PipelineNext]_pipelineVars PROVE PTInv'
  <2>1. CASE UNCHANGED pipelineVars BY <1>2, <2>1 DEF PTInv, pipelineVars
  <2>2. ASSUME NEW w \in Producers, Take(w) \/ Probe(w) \/ Send(w) \/ Query(w) PROVE PTInv'
    BY <1>2, <2>2, ProducerTypes
  <2>3. CASE Feed \/ HandOver
    <3>1. /\ UNCHANGED <<scanner, stopped, producer, outbox, consumer>>
          /\ feeder' \in {feeder, "done", "feeding"}
          /\ inbox' = inbox \/ (Len(inbox) < InCap /\ \E x : inbox' = Append(inbox, x))
      BY <2>3 DEF Feed, FeedPorts, FeedDomains, FeedURLs, FeedWords, FeedAs, HandOver, FeederHands
    <3>2. ChannelIs(inbox', InCap) BY <1>0, <1>2, <3>1, ChannelMoves DEF PTInv
    <3> QED BY <1>2, <3>1, <3>2 DEF PTInv
  <2>4. CASE Tick \/ CloseInbox \/ Store \/ CancelScan
    <3>1. /\ UNCHANGED <<scanner, producer, inbox, outbox>>
          /\ feeder' \in {feeder, "done", "sending", "closed"}
          /\ consumer' \in {consumer, "reading"} /\ stopped' \in {stopped, TRUE}
      BY <2>4 DEF Tick, CloseInbox, Store, CancelScan
    <3> QED BY <1>2, <3>1 DEF PTInv
  <2>5. CASE Receive
    <3>1. /\ UNCHANGED <<scanner, stopped, producer, inbox, feeder>>
          /\ consumer' \in {"busy", "done"}
          /\ outbox' = outbox \/ (outbox # <<>> /\ outbox' = Tail(outbox))
      BY <2>5 DEF Receive
    <3>2. ChannelIs(outbox', OutCap) BY <1>0, <1>2, <3>1, ChannelMoves DEF PTInv
    <3> QED BY <1>2, <3>1, <3>2 DEF PTInv
  <2> QED BY <1>2, <2>1, <2>2, <2>3, <2>4, <2>5 DEF PipelineNext, PipelineStep
<1>3. PTInv => PipelineTypeOK BY DEF PTInv, PipelineTypeOK, ProducerIs, ChannelIs
<1> QED BY <1>1, <1>2, <1>3

\* What EInv does not say of the scans and the upsets.
XInv ==
    /\ foreignKeys \in BOOLEAN /\ upsets \in 0..MaxUpsets
    /\ \A s \in Scans : scan[s].status \in {"pending", "running", "completed", "cancelled", "failed"}
    /\ together \subseteq {Org(s) : s \in Scans}

LEMMA ExecutionTypes ==
    /\ ExecutionInit => XInv
    /\ EInv /\ XInv /\ [ExecutionNext]_executionVars => XInv'
    /\ EInv /\ XInv => ExecutionTypeOK
<1>0. MaxUpsets \in Nat BY ScanExecutionAssumption
<1>1. ASSUME ExecutionInit PROVE XInv
  <2>1. foreignKeys \in BOOLEAN /\ upsets = 0 /\ together = {} BY <1>1 DEF ExecutionInit
  <2>2. \A s \in Scans : scan[s].status = "pending" BY <1>1 DEF ExecutionInit, NoScan
  <2> QED BY <1>0, <2>1, <2>2 DEF XInv
<1>2. ASSUME EInv, XInv, [ExecutionNext]_executionVars PROVE XInv'
  <2> DEFINE Known == {"pending", "running", "completed", "cancelled", "failed"}
  <2>1. DOMAIN scan = Scans /\ \A s \in Scans : DOMAIN scan[s] = ScanFields BY <1>2 DEF EInv, ScanIs
  <2>2. plan' = plan /\ foreignKeys' = foreignKeys
    BY <1>2 DEF ExecutionNext, ScanStep, StartScan, NextStep, EndStep, CutShort, LookUp, WriteRow,
                CreateRow, Fault, CancelRun, BulkDeleteSubdomains, BulkIgnoreFindings, executionVars
  <2>3. upsets' \in 0..MaxUpsets
    <3>1. upsets' = upsets \/ Upset
      BY <1>2 DEF ExecutionNext, ScanStep, StartScan, NextStep, EndStep, CutShort, LookUp, WriteRow,
                  CreateRow, Fault, CancelRun, BulkDeleteSubdomains, BulkIgnoreFindings, executionVars
    <3> QED BY <1>0, <1>2, <3>1 DEF Upset, XInv
  <2>4. together' \subseteq {Org(s) : s \in Scans}
    <3>1. together' = together \/ \E s \in Scans : together' \subseteq together \cup {Org(s)}
      BY <1>2 DEF ExecutionNext, ScanStep, StartScan, NextStep, EndStep, CutShort, LookUp, WriteRow,
                  CreateRow, Fault, CancelRun, BulkDeleteSubdomains, BulkIgnoreFindings, executionVars
    <3> QED BY <1>2, <3>1 DEF XInv
  <2>5. ASSUME NEW s \in Scans PROVE scan'[s].status \in Known
    <3>0. scan[s].status \in Known BY <1>2 DEF XInv
    <3>1. CASE scan' = scan BY <3>0, <3>1
    <3>2. \A r : DOMAIN r = ScanFields =>
             /\ \A y : [r EXCEPT !.todo = y].status = r.status
             /\ \A k, id : Past(r, k, id).status = r.status /\ DOMAIN Past(r, k, id) = ScanFields
      BY DEF ScanFields, Past
    <3>3. ASSUME NEW x \in Scans, ScanStep(x), scan' # scan
          PROVE  /\ \A z \in Scans \ {x} : scan'[z] = scan[z]
                 /\ scan'[x].status \in Known \cup {scan[x].status}
      <4>1. DOMAIN scan[x] = ScanFields BY <2>1
      <4>2. CASE StartScan(x) BY <2>1, <4>1, <4>2 DEF StartScan, ScanFields
      <4>3. CASE NextStep(x)
        <5>1. \/ \E v \in {"completed", "cancelled"} : scan' = [scan EXCEPT ![x].status = v]
              \/ \E a, b : scan' = [scan EXCEPT ![x].step = a, ![x].steps = Tail(@),
                                              ![x].ids = <<>>, ![x].todo = b]
          <6>1. CASE scan[x].steps = <<>> \/ (plan[x].kind = "full" /\ scan[x].cancelled)
            <7>1. scan' = [scan EXCEPT ![x].status =
                             IF scan[x].steps = <<>> THEN "completed" ELSE "cancelled"]
              BY <4>3, <6>1 DEF NextStep
            <7> QED BY <7>1
          <6>2. CASE ~(scan[x].steps = <<>> \/ (plan[x].kind = "full" /\ scan[x].cancelled))
            <7>1. PICK visits :
                     scan' = [scan EXCEPT ![x].step = Head(scan[x].steps), ![x].steps = Tail(@),
                                ![x].ids = <<>>,
                                ![x].todo = StepOps(x, Head(scan[x].steps), scan[x].targets, visits)]
              BY <4>3, <6>2 DEF NextStep
            <7> QED BY <7>1
          <6> QED BY <6>1, <6>2
        <5>2. ASSUME NEW a, NEW b,
                     scan' = [scan EXCEPT ![x].step = a, ![x].steps = Tail(@), ![x].ids = <<>>,
                                          ![x].todo = b]
              PROVE  /\ \A z \in Scans \ {x} : scan'[z] = scan[z]
                     /\ scan'[x].status = scan[x].status
          BY <2>1, <4>1, <5>2 DEF ScanFields
        <5>3. ASSUME NEW v \in {"completed", "cancelled"}, scan' = [scan EXCEPT ![x].status = v]
              PROVE  /\ \A z \in Scans \ {x} : scan'[z] = scan[z]
                     /\ scan'[x].status \in Known
          BY <2>1, <4>1, <5>3 DEF ScanFields
        <5> QED BY <5>1, <5>2, <5>3
      <4>4. CASE EndStep(x)
        <5>1. PICK t : scan' = [scan EXCEPT ![x].step = "", ![x].targets = t] BY <4>4 DEF EndStep
        <5> QED BY <2>1, <4>1, <5>1 DEF ScanFields
      <4>5. CASE CutShort(x) BY <2>1, <4>1, <4>5 DEF CutShort, ScanFields
      <4>6. ASSUME NEW k, NEW id, Onward(x, k, id)
            PROVE  /\ \A z \in Scans \ {x} : scan'[z] = scan[z]
                   /\ scan'[x].status = scan[x].status
        BY <2>1, <3>2, <4>1, <4>6 DEF Onward
      <4>7. CASE LookUp(x)
        <5>1. \/ \E k, id : Onward(x, k, id)
              \/ \E f : scan' = [scan EXCEPT ![x].phase = "write", ![x].found = f]
          BY <4>7 DEF LookUp
        <5>2. ASSUME NEW f, scan' = [scan EXCEPT ![x].phase = "write", ![x].found = f]
              PROVE  /\ \A z \in Scans \ {x} : scan'[z] = scan[z]
                     /\ scan'[x].status = scan[x].status
          BY <2>1, <4>1, <5>2 DEF ScanFields
        <5> QED BY <4>6, <5>1, <5>2
      <4>8. CASE WriteRow(x)
        <5>1. \E k, id : Onward(x, k, id) BY <4>8 DEF WriteRow, Fails
        <5> QED BY <4>6, <5>1
      <4>9. CASE CreateRow(x)
        <5>1. \E k, id : Onward(x, k, id) BY <4>9 DEF CreateRow
        <5> QED BY <4>6, <5>1
      <4>10. CASE Fault(x)
        <5>1. PICK k, id : scan' = [scan EXCEPT ![x] = [Past(scan[x], k, id) EXCEPT !.trouble = TRUE]]
          BY <4>10 DEF Fault
        <5>2. PICK p : p = Past(scan[x], k, id) /\ DOMAIN p = ScanFields /\ p.status = scan[x].status
          BY <3>2, <4>1
        <5>3. scan' = [scan EXCEPT ![x] = [p EXCEPT !.trouble = TRUE]] BY <5>1, <5>2
        <5> QED BY <2>1, <5>2, <5>3 DEF ScanFields
      <4>11. CASE CancelRun(x) BY <2>1, <4>1, <4>11 DEF CancelRun, ScanFields
      <4> QED BY <3>3, <4>2, <4>3, <4>4, <4>5, <4>7, <4>8, <4>9, <4>10, <4>11 DEF ScanStep
    <3>4. scan' = scan \/ \E x \in Scans : ScanStep(x)
      BY <1>2 DEF ExecutionNext, BulkDeleteSubdomains, BulkIgnoreFindings, executionVars
    <3>5. CASE scan' # scan
      <4>1. PICK x \in Scans : ScanStep(x) BY <3>4, <3>5
      <4>2. /\ \A z \in Scans \ {x} : scan'[z] = scan[z]
            /\ scan'[x].status \in Known \cup {scan[x].status}
        BY <3>3, <3>5, <4>1
      <4>3. scan[x].status \in Known BY <1>2 DEF XInv
      <4> QED BY <3>0, <4>2, <4>3
    <3> QED BY <3>1, <3>5
  <2>6. \A s \in Scans : Org(s)' = Org(s) BY <2>2 DEF Org
  <2> QED BY <1>2, <2>2, <2>3, <2>4, <2>5, <2>6 DEF XInv
<1>3. ASSUME EInv, XInv PROVE ExecutionTypeOK
  <2>1. RowsAre(db) BY <1>3 DEF EInv, Sound
  <2>2. \A t \in Tables \ LogTables : \A i \in DOMAIN db[t] :
          db[t][i].link \in Nat \cup {Dangling} /\ db[t][i].gone \in BOOLEAN
    <3>1. \A t \in Keyed : DOMAIN db[t] = 1..Len(db[t]) BY <2>1, SeqIs DEF RowsAre
    <3> QED BY <2>1, <3>1 DEF RowsAre, RowIs, Keyed
  <2>3. \A s \in Scans : /\ scan[s].phase \in {"look", "write"}
                         /\ scan[s].phase = "write" => scan[s].todo # <<>>
    BY <1>3 DEF EInv, ScanIs, FoundIs
  <2>4. DOMAIN db = Tables BY <2>1 DEF RowsAre
  <2>5. plan \in Plans /\ DOMAIN scan = Scans BY <1>3 DEF EInv
  <2> QED BY <1>3, <2>2, <2>3, <2>4, <2>5 DEF ExecutionTypeOK, XInv
<1> QED BY <1>1, <1>2, <1>3

\* Every state of the built-in scans is of its types: the goroutines and the
\* channels of a scanner within their capacities, cancelled or not, and the
\* tables and the scans that write them.
THEOREM ScansTypes == ScansSpec => []ScansTypeOK
<1> DEFINE STInv == /\ part \in {"pipeline", "execution", "checks"}
                    /\ part = "pipeline" => PTInv
                    /\ part = "execution" => EInv /\ XInv
                    /\ part = "checks" => sample \in Samples
<1>1. ScansInit => STInv BY PipelineTypes, ExecutionBegins, ExecutionTypes DEF ScansInit
<1>2. ASSUME STInv, [ScansNext]_scansVars PROVE STInv'
  <2>1. part' = part /\ sample' = sample BY <1>2 DEF ScansNext, scansVars
  <2>2. part = "pipeline" => [PipelineNext]_pipelineVars BY <1>2 DEF ScansNext, scansVars
  <2>3. part = "execution" => [ExecutionNext]_executionVars BY <1>2 DEF ScansNext, scansVars
  <2>4. part = "pipeline" => PTInv' BY <1>2, <2>2, PipelineTypes
  <2>5. part = "execution" => EInv' /\ XInv' BY <1>2, <2>3, ExecutionGoesOn, ExecutionTypes
  <2> QED BY <1>2, <2>1, <2>4, <2>5
<1>3. STInv => ScansTypeOK BY PipelineTypes, ExecutionTypes DEF ScansTypeOK
<1> QED BY <1>1, <1>2, <1>3, PTL DEF ScansSpec

===============================================================================
