--------------------------- MODULE JobQueueProofs ---------------------------
(***************************************************************************)
(* Proofs about JobQueue, for any set of jobs, workers and types, any      *)
(* buffer size, retry limit and number of starts and outages.              *)
(***************************************************************************)
EXTENDS JobQueue, TLAPS

\* Appending a new element to a repetition-free queue keeps it repetition-free.
LEMMA AppendFacts ==
    ASSUME NEW s \in Seq(Copies), NEW e \in Copies
    PROVE  /\ Append(s, e) \in Seq(Copies)
           /\ Elems(Append(s, e)) = Elems(s) \cup {e}
           /\ NoRepeat(s) /\ e \notin Elems(s) => NoRepeat(Append(s, e))
  <1>1. Append(s, e) \in Seq(Copies) /\ Len(Append(s, e)) = Len(s) + 1
    OBVIOUS
  <1>2. \A i \in 1..Len(s) : Append(s, e)[i] = s[i]
    OBVIOUS
  <1>3. Append(s, e)[Len(s) + 1] = e
    OBVIOUS
  <1>4. Len(s) \in Nat /\ 1..(Len(s) + 1) = 1..Len(s) \cup {Len(s) + 1}
    OBVIOUS
  <1>5. Elems(Append(s, e)) = Elems(s) \cup {e}
    BY <1>1, <1>2, <1>3, <1>4 DEF Elems
  <1>6. NoRepeat(s) /\ e \notin Elems(s) => NoRepeat(Append(s, e))
    BY <1>1, <1>2, <1>3, <1>4 DEF Elems, NoRepeat
  <1>7. QED
    BY <1>1, <1>5, <1>6

\* Taking the oldest element off a repetition-free queue removes exactly that element.
LEMMA TailFacts ==
    ASSUME NEW s \in Seq(Copies), s # <<>>
    PROVE  /\ Head(s) \in Copies /\ Head(s) \in Elems(s) /\ Tail(s) \in Seq(Copies)
           /\ NoRepeat(s) => NoRepeat(Tail(s)) /\ Elems(Tail(s)) = Elems(s) \ {Head(s)}
  <1>1. Len(s) \in Nat /\ Len(s) > 0 /\ Head(s) = s[1] /\ s[1] \in Copies
    OBVIOUS
  <1>2. Tail(s) \in Seq(Copies) /\ Len(Tail(s)) = Len(s) - 1
    OBVIOUS
  <1>3. \A i \in 1..(Len(s) - 1) : Tail(s)[i] = s[i + 1]
    OBVIOUS
  <1>4. Head(s) \in Elems(s)
    BY <1>1 DEF Elems
  <1>5. ASSUME NoRepeat(s) PROVE NoRepeat(Tail(s))
    BY <1>1, <1>2, <1>3, <1>5 DEF NoRepeat
  <1>6. ASSUME NoRepeat(s) PROVE Elems(Tail(s)) = Elems(s) \ {Head(s)}
    <2>1. Elems(Tail(s)) \subseteq Elems(s) \ {Head(s)}
      BY <1>1, <1>2, <1>3, <1>6 DEF NoRepeat, Elems
    <2>2. ASSUME NEW x \in Elems(s) \ {Head(s)} PROVE x \in Elems(Tail(s))
      <3>1. PICK i \in 1..Len(s) : x = s[i]
        BY <2>2 DEF Elems
      <3>2. i # 1 /\ i - 1 \in 1..(Len(s) - 1)
        BY <1>1, <2>2, <3>1
      <3>3. Tail(s)[i - 1] = x
        BY <1>3, <3>1, <3>2
      <3>4. QED
        BY <1>2, <3>2, <3>3 DEF Elems
    <2>3. QED
      BY <2>1, <2>2
  <1>7. QED
    BY <1>1, <1>2, <1>4, <1>5, <1>6

LEMMA EmptyFacts == Elems(<<>>) = {} /\ NoRepeat(<<>>) /\ <<>> \in Seq(Copies)
  BY DEF Elems, NoRepeat

\* What the workers hold after one of them takes a copy up or lets go of it.
LEMMA TakeFacts ==
    ASSUME NEW w \in Workers, NEW c \in Copies, held \in [Workers -> Copies \cup {NoJob}],
           held[w] = NoJob, Take(w, c)
    PROVE  HeldCopies' = HeldCopies \cup {c}
  BY JobQueueAssumption DEF HeldCopies, Take, Copies

LEMMA FreeFacts ==
    ASSUME NEW w \in Workers, held \in [Workers -> Copies \cup {NoJob}], held[w] # NoJob,
           \A u, v \in Workers : held[u] = held[v] /\ held[u] # NoJob => u = v, Free(w)
    PROVE  HeldCopies' = HeldCopies \ {held[w]}
  BY DEF HeldCopies, Free

-----------------------------------------------------------------------------
LEMMA InitIInv == Init => IInv
  <1> SUFFICES ASSUME Init PROVE IInv
    OBVIOUS
  <1>1. HeldCopies = {}
    BY DEF Init, HeldCopies
  <1>2. TypeOK
    BY JobQueueAssumption, EmptyFacts DEF Init, TypeOK, Phases, PCs, Outcomes
  <1>3. OnePlace
    BY <1>1, EmptyFacts DEF Init, OnePlace, Busy
  <1>4. RetryBudget /\ ExhaustedHasSink
    BY JobQueueAssumption DEF Init, RetryBudget, ExhaustedHasSink
  <1>5. WorkerFacts /\ HistoryFacts /\ PhaseFacts
    BY DEF Init, WorkerFacts, HistoryFacts, PhaseFacts
  <1>6. QED
    BY <1>2, <1>3, <1>4, <1>5 DEF IInv

-----------------------------------------------------------------------------
\* Steps of main() and of the environment leave the queue, the workers' hands and the
\* history alone.
LEMMA MainPreserves ==
    ASSUME IInv, Boot \/ SetDLQ \/ (\E t \in Types : Register(t)) \/ Serve \/ StopCancel
                 \/ StopWait \/ RedisFails \/ RedisRecovers
    PROVE  IInv'
  <1> USE DEF svcVars, redisVars, wkVars, histVars
  <1>1. UNCHANGED <<list, chan, held, attempt, sink, histVars>> /\ HeldCopies' = HeldCopies
    BY DEF Boot, SetDLQ, Register, Serve, StopCancel, StopWait, RedisFails, RedisRecovers,
           HeldCopies
  <1>2. UNCHANGED pc \/ (Boot /\ pc' = [w \in Workers |-> "top"])
    BY DEF Boot, SetDLQ, Register, Serve, StopCancel, StopWait, RedisFails, RedisRecovers
  <1>3. Boot => \A w \in Workers : pc[w] = "off"
    BY DEF Boot, IInv, PhaseFacts
  <1>4. TypeOK'
    <2>1. (phase \in Phases /\ mode \in {"memory", "redis"} /\ handlers \subseteq Types)'
      BY DEF IInv, TypeOK, Phases, Boot, SetDLQ, Register, Serve, StopCancel, StopWait,
             RedisFails, RedisRecovers
    <2>2. (boots \in 0..MaxBoots)'
      <3>1. boots' = boots \/ (boots < MaxBoots /\ boots' = boots + 1)
        BY DEF Boot, SetDLQ, Register, Serve, StopCancel, StopWait, RedisFails, RedisRecovers
      <3>2. QED
        BY <3>1, JobQueueAssumption DEF IInv, TypeOK
    <2>3. (outages \in 0..MaxOutages)'
      <3>1. outages' = outages \/ (outages < MaxOutages /\ outages' = outages + 1)
        BY DEF Boot, SetDLQ, Register, Serve, StopCancel, StopWait, RedisFails, RedisRecovers
      <3>2. QED
        BY <3>1, JobQueueAssumption DEF IInv, TypeOK
    <2>4. redisUp' \in BOOLEAN
      BY DEF IInv, TypeOK, Boot, SetDLQ, Register, Serve, StopCancel, StopWait,
             RedisFails, RedisRecovers
    <2>5. pc' \in [Workers -> PCs]
      BY <1>2 DEF IInv, TypeOK, PCs
    <2>6. QED
      BY <1>1, <2>1, <2>2, <2>3, <2>4, <2>5 DEF IInv, TypeOK
  <1>5. OnePlace'
    BY <1>1, <1>2, <1>3 DEF IInv, OnePlace, Busy
  <1>6. RetryBudget' /\ ExhaustedHasSink'
    BY <1>1, <1>2 DEF IInv, RetryBudget, ExhaustedHasSink
  <1>7. WorkerFacts'
    BY <1>1, <1>2 DEF IInv, WorkerFacts
  <1>8. HistoryFacts'
    BY <1>1 DEF IInv, HistoryFacts, Boot, SetDLQ, Register, Serve, StopCancel, StopWait,
                RedisFails, RedisRecovers
  <1>9. PhaseFacts'
    BY <1>1, <1>2, <1>3 DEF IInv, PhaseFacts, Boot, SetDLQ, Register, Serve, StopCancel,
                            StopWait, RedisFails, RedisRecovers
  <1>10. QED
    BY <1>4, <1>5, <1>6, <1>7, <1>8, <1>9 DEF IInv

\* The end of the process settles what was in memory and keeps the Redis list.
LEMMA EndPreserves ==
    ASSUME IInv, Exit \/ Crash
    PROVE  IInv'
  <1> USE DEF redisVars
  <1>1. PICK reason \in {"shutdown", "crash"} : ProcessEnds(reason)
    BY DEF Exit, Crash
  <1> USE <1>1 DEF ProcessEnds
  <1>2. HeldCopies' = {}
    BY DEF HeldCopies
  <1>3. Elems(chan)' = {} /\ NoRepeat(chan)'
    BY EmptyFacts DEF Elems, NoRepeat
  <1>4. TypeOK'
    BY EmptyFacts, JobQueueAssumption DEF IInv, TypeOK, Phases, PCs, Outcomes, Losses
  <1>5. OnePlace'
    <2>1. Elems(list)' = Elems(list) /\ NoRepeat(list)' = NoRepeat(list)
      BY DEF Elems, NoRepeat
    <2>2. \A u, w \in Workers : (held[u] = held[w] /\ held[u] # NoJob => u = w)'
      OBVIOUS
    <2>3. \A w \in Workers : (held[w] # NoJob <=> pc[w] \in Busy)'
      BY DEF Busy
    <2>4. \A c \in Copies :
            /\ (outcome[c] = "none" /\ c \in made)' <=> c \in Elems(list)
            /\ outcome'[c] # "none" => c \in made'
      BY DEF IInv, OnePlace, TypeOK
    <2>5. QED
      BY <1>2, <1>3, <2>1, <2>2, <2>3, <2>4 DEF IInv, OnePlace
  <1>6. RetryBudget' /\ ExhaustedHasSink'
    BY DEF IInv, RetryBudget, ExhaustedHasSink, TypeOK
  <1>7. WorkerFacts'
    BY DEF WorkerFacts
  <1>8. HistoryFacts'
    BY <1>2 DEF IInv, HistoryFacts, HeldCopies, TypeOK
  <1>9. PhaseFacts'
    BY DEF PhaseFacts
  <1>10. QED
    BY <1>4, <1>5, <1>6, <1>7, <1>8, <1>9 DEF IInv

-----------------------------------------------------------------------------
\* A sink call settles one copy, as dead with the number of attempts given or as lost.
LEMMA SinkFacts ==
    ASSUME NEW c \in Copies, NEW n \in Nat, TypeOK, DeadLetter(c, n) \/ Settle(c, "nosink")
    PROVE  \E result \in Outcomes \ {"none", "done"} :
              /\ outcome' = [outcome EXCEPT ![c] = result]
              /\ result = "dead" => recorded' = [recorded EXCEPT ![c] = n]
              /\ result # "dead" => recorded' = recorded
              /\ DeadLetter(c, n) => result # "nosink"
              /\ recorded' \in [Copies -> Nat]
  <1>1. {"dead", "dbfail", "nosink"} \subseteq Outcomes \ {"none", "done"}
    BY DEF Outcomes, Losses
  <1>2. CASE DeadLetter(c, n)
    BY <1>1, <1>2 DEF DeadLetter, TypeOK
  <1>3. CASE ~DeadLetter(c, n) /\ Settle(c, "nosink")
    BY <1>1, <1>3 DEF Settle, TypeOK
  <1>4. QED
    BY <1>2, <1>3

\* Offering a new copy to the channel puts it there or has it turned away, and touches
\* no other copy.
LEMMA OfferFacts ==
    ASSUME IInv, HasSink, NEW x \in Copies, x \notin Elems(chan), EnqueueInMemory(x)
    PROVE  \/ /\ chan' \in Seq(Copies) /\ NoRepeat(chan')
              /\ Elems(chan') = Elems(chan) \cup {x}
              /\ UNCHANGED <<outcome, recorded>>
           \/ /\ chan' = chan
              /\ outcome' \in [Copies -> Outcomes] /\ recorded' \in [Copies -> Nat]
              /\ outcome'[x] \in {"dead", "dbfail"}
              /\ outcome'[x] = "dead" => recorded'[x] = 0
              /\ \A c \in Copies \ {x} : outcome'[c] = outcome[c] /\ recorded'[c] = recorded[c]
  <1>1. CASE chan' = Append(chan, x) /\ UNCHANGED <<outcome, recorded>>
    <2>1. chan \in Seq(Copies) /\ NoRepeat(chan)
      BY DEF IInv, TypeOK, OnePlace
    <2>2. QED
      BY <1>1, <2>1, AppendFacts
  <1>2. CASE DeadLetter(x, 0) /\ UNCHANGED chan
    <2>1. outcome \in [Copies -> Outcomes] /\ recorded \in [Copies -> Nat]
      BY DEF IInv, TypeOK
    <2>2. QED
      BY <1>2, <2>1 DEF DeadLetter, Outcomes, Losses
  <1>3. QED
    BY <1>1, <1>2 DEF EnqueueInMemory, SinkIfAny

\* How one call of Enqueue moves its two possible copies: some wait, some are turned away.
Enqueued(a, b, waiting, gone) ==
    /\ waiting \cap gone = {} /\ a \in waiting \cup gone
    /\ made' = made \cup waiting \cup gone
    /\ list' \in Seq(Copies) /\ chan' \in Seq(Copies)
    /\ NoRepeat(list') /\ NoRepeat(chan') /\ Elems(list') \cap Elems(chan') = {}
    /\ Elems(list') \cup Elems(chan') = Elems(list) \cup Elems(chan) \cup waiting
    /\ outcome' \in [Copies -> Outcomes] /\ recorded' \in [Copies -> Nat]
    /\ \A c \in Copies \ gone : outcome'[c] = outcome[c] /\ recorded'[c] = recorded[c]
    /\ \A c \in gone : /\ outcome'[c] \in {"dead", "dbfail"}
                       /\ outcome'[c] = "dead" => recorded'[c] = 0

LEMMA EnqueueShape ==
    ASSUME IInv, HasSink, NEW a \in Copies, NEW b \in Copies, a # b,
           a \notin Elems(list) \cup Elems(chan), b \notin Elems(list) \cup Elems(chan),
           \/ list' = Append(list, a) /\ Born({a}) /\ UNCHANGED <<chan, outcome, recorded>>
           \/ /\ list' = Append(Append(list, a), b) /\ Born({a, b})
              /\ UNCHANGED <<chan, outcome, recorded>>
           \/ EnqueueInMemory(a) /\ Born({a}) /\ UNCHANGED list
           \/ list' = Append(list, a) /\ EnqueueInMemory(b) /\ Born({a, b})
    PROVE  \E waiting, gone \in SUBSET {a, b} : Enqueued(a, b, waiting, gone)
  <1>1. /\ list \in Seq(Copies) /\ chan \in Seq(Copies)
        /\ NoRepeat(list) /\ NoRepeat(chan) /\ Elems(list) \cap Elems(chan) = {}
        /\ outcome \in [Copies -> Outcomes] /\ recorded \in [Copies -> Nat]
    BY DEF IInv, TypeOK, OnePlace
  <1>2. /\ Append(list, a) \in Seq(Copies) /\ NoRepeat(Append(list, a))
        /\ Elems(Append(list, a)) = Elems(list) \cup {a}
    BY <1>1, AppendFacts
  <1>3. /\ Append(Append(list, a), b) \in Seq(Copies)
        /\ NoRepeat(Append(Append(list, a), b))
        /\ Elems(Append(Append(list, a), b)) = Elems(list) \cup {a, b}
    <2>1. PICK one : one = Append(list, a)
      OBVIOUS
    <2>2. one \in Seq(Copies) /\ NoRepeat(one) /\ Elems(one) = Elems(list) \cup {a}
      BY <1>2, <2>1
    <2>3. b \notin Elems(one)
      BY <2>2
    <2>4. /\ Append(one, b) \in Seq(Copies) /\ NoRepeat(Append(one, b))
          /\ Elems(Append(one, b)) = Elems(one) \cup {b}
      BY <2>2, <2>3, AppendFacts
    <2>5. QED
      BY <2>1, <2>2, <2>4
  <1>4. CASE list' = Append(list, a) /\ Born({a}) /\ UNCHANGED <<chan, outcome, recorded>>
    <2>1. Enqueued(a, b, {a}, {})
      BY <1>1, <1>2, <1>4 DEF Enqueued, Born
    <2>2. QED
      BY <2>1
  <1>5. CASE /\ list' = Append(Append(list, a), b) /\ Born({a, b})
             /\ UNCHANGED <<chan, outcome, recorded>>
    <2>1. Enqueued(a, b, {a, b}, {})
      BY <1>1, <1>3, <1>5 DEF Enqueued, Born
    <2>2. QED
      BY <2>1
  <1>6. CASE EnqueueInMemory(a) /\ Born({a}) /\ UNCHANGED list
    <2>1. Enqueued(a, b, {a}, {}) \/ Enqueued(a, b, {}, {a})
      BY <1>1, <1>6, OfferFacts DEF Enqueued, Born
    <2>2. QED
      BY <2>1
  <1>7. CASE list' = Append(list, a) /\ EnqueueInMemory(b) /\ Born({a, b})
    <2>1. CASE chan' = chan
      <3>1. b \notin Elems(chan')
        BY <2>1
      <3>2. Enqueued(a, b, {a}, {b})
        BY <1>1, <1>2, <1>7, <2>1, <3>1, OfferFacts DEF Enqueued, Born
      <3>3. QED
        BY <3>2
    <2>2. CASE Elems(chan') = Elems(chan) \cup {b} /\ UNCHANGED <<outcome, recorded>>
      <3>1. Enqueued(a, b, {a, b}, {})
        BY <1>1, <1>2, <1>7, <2>2, OfferFacts DEF Enqueued, Born
      <3>2. QED
        BY <3>1
    <2>3. QED
      BY <1>7, <2>1, <2>2, OfferFacts
  <1>8. QED
    BY <1>4, <1>5, <1>6, <1>7

LEMMA EnqueuePreserves ==
    ASSUME IInv, NEW j \in Jobs, Enqueue(j)
    PROVE  IInv'
  <1>1. PICK a, b : a = <<j, 1>> /\ b = <<j, 2>>
    OBVIOUS
  <1>2. a \in Copies /\ b \in Copies /\ a # b
    BY <1>1 DEF Copies
  <1>3. a \notin made /\ b \notin made
    BY <1>1, <1>2 DEF Enqueue, IInv, HistoryFacts
  <1>4. /\ outcome[a] = "none" /\ outcome[b] = "none"
        /\ a \notin Elems(list) \cup Elems(chan) \cup HeldCopies
        /\ b \notin Elems(list) \cup Elems(chan) \cup HeldCopies
        /\ runs[a] = 0 /\ runs[b] = 0
    BY <1>2, <1>3 DEF IInv, OnePlace, HistoryFacts
  <1>5. /\ UNCHANGED <<svcVars, redisVars, wkVars, runs>> /\ HeldCopies' = HeldCopies
        /\ HasSink /\ Serving
    BY DEF Enqueue, HeldCopies, wkVars, Serving, HasSink
  <1>6. PICK waiting, gone \in SUBSET {a, b} : Enqueued(a, b, waiting, gone)
    BY <1>1, <1>2, <1>4, <1>5, EnqueueShape
    DEF Enqueue, PushStored, PushStoredTwice, PushFailed
  <1> USE DEF Enqueued
  <1>7. TypeOK'
    BY <1>2, <1>5, <1>6 DEF IInv, TypeOK, svcVars, redisVars, wkVars
  <1>8. OnePlace'
    <2>1. \A c \in Copies :
            (outcome'[c] = "none" /\ c \in made') <=>
                c \in Elems(list') \cup Elems(chan') \cup HeldCopies'
      BY <1>2, <1>3, <1>4, <1>5, <1>6 DEF IInv, OnePlace
    <2>2. \A c \in Copies : outcome'[c] # "none" => c \in made'
      BY <1>6 DEF IInv, OnePlace
    <2>3. HeldCopies' \cap (Elems(list') \cup Elems(chan')) = {}
      BY <1>4, <1>5, <1>6 DEF IInv, OnePlace
    <2>4. /\ \A u, w \in Workers : held'[u] = held'[w] /\ held'[u] # NoJob => u = w
          /\ \A w \in Workers : held'[w] # NoJob <=> pc'[w] \in Busy
      BY <1>5 DEF IInv, OnePlace, wkVars
    <2>5. NoRepeat(list') /\ NoRepeat(chan') /\ Elems(list') \cap Elems(chan') = {}
      BY <1>6
    <2>6. /\ NoRepeat(list)' /\ NoRepeat(chan)'
          /\ Elems(list)' = Elems(list') /\ Elems(chan)' = Elems(chan')
      BY <2>5 DEF NoRepeat, Elems
    <2> HIDE DEF Enqueued
    <2>7. QED
      BY <2>1, <2>2, <2>3, <2>4, <2>5, <2>6 DEF OnePlace
  <1>9. RetryBudget' /\ ExhaustedHasSink'
    <2>1. ASSUME NEW c \in Copies
          PROVE  /\ runs'[c] <= MaxRetry + 1
                 /\ outcome'[c] = "dead" => recorded'[c] = runs'[c] /\ runs'[c] \in {0, MaxRetry + 1}
                 /\ outcome'[c] = "done" => runs'[c] > 0
                 /\ outcome'[c] = "nosink" => runs'[c] = 0
      <3>1. runs'[c] = runs[c] /\ runs[c] <= MaxRetry + 1
        BY <1>5 DEF IInv, RetryBudget
      <3>2. CASE c \in gone
        <4>1. runs[c] = 0
          BY <1>4, <3>2
        <4>2. outcome'[c] \in {"dead", "dbfail"} /\ (outcome'[c] = "dead" => recorded'[c] = 0)
          BY <1>6, <3>2
        <4> QED
          BY <3>1, <4>1, <4>2
      <3>3. CASE c \notin gone
        <4>1. outcome'[c] = outcome[c] /\ recorded'[c] = recorded[c]
          BY <1>6, <3>3
        <4> QED
          BY <3>1, <4>1 DEF IInv, RetryBudget, ExhaustedHasSink
      <3> QED
        BY <3>2, <3>3
    <2>2. \A w \in Workers : pc'[w] \in {"run", "backoff", "sink"} => sink'[w]
      BY <1>5 DEF IInv, ExhaustedHasSink, wkVars
    <2> QED
      BY <2>1, <2>2 DEF RetryBudget, ExhaustedHasSink
  <1>10. WorkerFacts' /\ PhaseFacts'
    BY <1>5 DEF IInv, WorkerFacts, PhaseFacts, svcVars, wkVars, Serving
  <1>11. HistoryFacts'
    <2>1. \A c \in Copies \ HeldCopies' : outcome'[c] = "none" => runs'[c] = 0
      BY <1>4, <1>5, <1>6 DEF IInv, HistoryFacts
    <2>2. \A k \in Jobs : <<k, 2>> \in made' => <<k, 1>> \in made'
      BY <1>1, <1>6 DEF IInv, HistoryFacts
    <2>3. QED
      BY <1>5, <2>1, <2>2 DEF IInv, HistoryFacts, svcVars
  <1>12. QED
    BY <1>7, <1>8, <1>9, <1>10, <1>11 DEF IInv

-----------------------------------------------------------------------------
\* The worker loop.

LEMMA LoopHeadPreserves ==
    ASSUME IInv, NEW w \in Workers, LoopHead(w)
    PROVE  IInv'
  <1>1. /\ UNCHANGED <<svcVars, redisVars, list, chan, held, attempt, sink, histVars>>
        /\ HeldCopies' = HeldCopies
        /\ pc[w] = "top" /\ pc' = [pc EXCEPT ![w] = pc'[w]] /\ pc'[w] \in {"recv", "exited"}
        /\ phase # "down" /\ (CtxDone <=> pc'[w] = "exited")
    BY DEF LoopHead, GoTo, HeldCopies, IInv, TypeOK, PhaseFacts
  <1> USE <1>1 DEF svcVars, redisVars, histVars
  <1>2. TypeOK'
    BY DEF IInv, TypeOK, PCs
  <1>3. OnePlace'
    BY DEF IInv, OnePlace, TypeOK, Busy
  <1>4. RetryBudget' /\ ExhaustedHasSink' /\ WorkerFacts'
    BY DEF IInv, RetryBudget, ExhaustedHasSink, WorkerFacts, TypeOK
  <1>5. HistoryFacts' /\ PhaseFacts'
    BY DEF IInv, HistoryFacts, PhaseFacts, TypeOK, CtxDone
  <1>6. QED
    BY <1>2, <1>3, <1>4, <1>5 DEF IInv

\* A receive moves the oldest copy from a queue into the worker's hands.
LEMMA RecvPreserves ==
    ASSUME IInv, NEW w \in Workers, RecvRedis(w) \/ RecvMemory(w)
    PROVE  IInv'
  <1> USE DEF svcVars, redisVars, histVars
  <1>1. /\ pc[w] = "recv" /\ held[w] = NoJob /\ phase \notin {"down", "drained"}
        /\ list \in Seq(Copies) /\ chan \in Seq(Copies)
        /\ held \in [Workers -> Copies \cup {NoJob}] /\ pc \in [Workers -> PCs]
        /\ NoRepeat(list) /\ NoRepeat(chan)
        /\ UNCHANGED <<svcVars, redisVars, attempt, sink, made, runs, recorded>>
    BY DEF RecvRedis, RecvMemory, IInv, TypeOK, OnePlace, Busy, PhaseFacts
  <1>2. CASE /\ UNCHANGED <<list, chan, held, outcome>>
             /\ GoTo(w, "top") \/ GoTo(w, "exited")
    <2>1. pc' = [pc EXCEPT ![w] = pc'[w]] /\ pc'[w] \in {"top", "exited"} /\ HeldCopies' = HeldCopies
      BY <1>1, <1>2 DEF GoTo, HeldCopies
    <2>2. TypeOK'
      BY <1>1, <1>2, <2>1 DEF IInv, TypeOK, PCs
    <2>3. OnePlace'
      BY <1>1, <1>2, <2>1 DEF IInv, OnePlace, Busy
    <2>4. RetryBudget' /\ ExhaustedHasSink' /\ WorkerFacts'
      BY <1>1, <1>2, <2>1 DEF IInv, RetryBudget, ExhaustedHasSink, WorkerFacts
    <2>5. HistoryFacts' /\ PhaseFacts'
      BY <1>1, <1>2, <2>1 DEF IInv, HistoryFacts, PhaseFacts
    <2>6. QED
      BY <2>2, <2>3, <2>4, <2>5 DEF IInv
  <1>3. ASSUME NEW c \in Copies,
               list' \in Seq(Copies), chan' \in Seq(Copies),
               NoRepeat(list'), NoRepeat(chan'),
               \/ c \in Elems(list) /\ Elems(list') = Elems(list) \ {c} /\ chan' = chan
               \/ c \in Elems(chan) /\ Elems(chan') = Elems(chan) \ {c} /\ list' = list,
               Take(w, c), GoTo(w, "lookup"), UNCHANGED outcome
        PROVE  IInv'
    <2>1. HeldCopies' = HeldCopies \cup {c} /\ NoJob \notin Copies
      BY <1>1, <1>3, TakeFacts, JobQueueAssumption DEF Copies
    <2>2. /\ c \notin HeldCopies /\ c \in made /\ outcome[c] = "none" /\ runs[c] = 0
          /\ Elems(list) \cap Elems(chan) = {}
      BY <1>3 DEF IInv, OnePlace, HistoryFacts
    <2>3. /\ held' = [held EXCEPT ![w] = c] /\ pc' = [pc EXCEPT ![w] = "lookup"]
      BY <1>3 DEF Take, GoTo
    <2>4. TypeOK'
      BY <1>1, <1>3, <2>3 DEF IInv, TypeOK, PCs
    <2>5. OnePlace'
      <3>1. \A u, v \in Workers : held'[u] = held'[v] /\ held'[u] # NoJob => u = v
        BY <1>1, <2>2, <2>3 DEF IInv, OnePlace, HeldCopies
      <3>2. \A u \in Workers : held'[u] # NoJob <=> pc'[u] \in Busy
        BY <1>1, <2>1, <2>3 DEF IInv, OnePlace, Busy
      <3>3. /\ Elems(list') \cap Elems(chan') = {}
            /\ HeldCopies' \cap (Elems(list') \cup Elems(chan')) = {}
            /\ Elems(list') \cup Elems(chan') \cup HeldCopies' =
                  Elems(list) \cup Elems(chan) \cup HeldCopies
        <4>1. HeldCopies \cap (Elems(list) \cup Elems(chan)) = {}
          BY DEF IInv, OnePlace
        <4>2. CASE c \in Elems(list) /\ Elems(list') = Elems(list) \ {c} /\ chan' = chan
          BY <4>1, <4>2, <1>3, <2>1, <2>2
        <4>3. CASE c \in Elems(chan) /\ Elems(chan') = Elems(chan) \ {c} /\ list' = list
          BY <4>1, <4>3, <1>3, <2>1, <2>2
        <4>4. QED
          BY <4>2, <4>3, <1>3
      <3>4. QED
        BY <1>1, <1>3, <3>1, <3>2, <3>3 DEF IInv, OnePlace
    <2>6. RetryBudget' /\ ExhaustedHasSink'
      BY <1>1, <1>3, <2>3 DEF IInv, RetryBudget, ExhaustedHasSink
    <2>7. WorkerFacts'
      BY <1>1, <2>2, <2>3 DEF IInv, WorkerFacts
    <2>8. HistoryFacts' /\ PhaseFacts'
      BY <1>1, <1>3, <2>1, <2>3 DEF IInv, HistoryFacts, PhaseFacts
    <2>9. QED
      BY <2>4, <2>5, <2>6, <2>7, <2>8 DEF IInv
  <1>4. CASE list # <<>> /\ Take(w, Head(list)) /\ list' = Tail(list) /\ GoTo(w, "lookup")
             /\ UNCHANGED <<chan, outcome>>
    BY <1>1, <1>3, <1>4, TailFacts
  <1>5. CASE chan # <<>> /\ Take(w, Head(chan)) /\ chan' = Tail(chan) /\ GoTo(w, "lookup")
             /\ UNCHANGED <<list, outcome>>
    BY <1>1, <1>3, <1>5, TailFacts
  <1>6. CASE /\ list # <<>> /\ outcome' = [outcome EXCEPT ![Head(list)] = "replylost"]
             /\ list' = Tail(list) /\ GoTo(w, "top") /\ UNCHANGED <<chan, held>>
    <2>1. PICK c \in Copies :
             /\ c \in Elems(list) /\ outcome' = [outcome EXCEPT ![c] = "replylost"]
             /\ list' \in Seq(Copies) /\ NoRepeat(list') /\ Elems(list') = Elems(list) \ {c}
      BY <1>1, <1>6, TailFacts
    <2>2. pc' = [pc EXCEPT ![w] = "top"] /\ HeldCopies' = HeldCopies
      BY <1>6 DEF GoTo, HeldCopies
    <2>3. /\ c \notin HeldCopies /\ c \notin Elems(chan) /\ c \in made /\ runs[c] = 0
      BY <2>1 DEF IInv, OnePlace, HistoryFacts
    <2>4. TypeOK'
      BY <1>1, <1>6, <2>1, <2>2 DEF IInv, TypeOK, PCs, Outcomes, Losses
    <2>5. OnePlace'
      <3>1. \A u \in Workers : held'[u] # NoJob <=> pc'[u] \in Busy
        BY <1>1, <1>6, <2>2 DEF IInv, OnePlace, Busy
      <3>2. \A x \in Copies : outcome'[x] = IF x = c THEN "replylost" ELSE outcome[x]
        BY <2>1 DEF IInv, TypeOK
      <3>3. QED
        BY <1>1, <1>6, <2>1, <2>2, <2>3, <3>1, <3>2 DEF IInv, OnePlace
    <2>6. RetryBudget' /\ ExhaustedHasSink' /\ WorkerFacts'
      BY <1>1, <1>6, <2>1, <2>2, <2>3
      DEF IInv, TypeOK, RetryBudget, ExhaustedHasSink, WorkerFacts
    <2>7. HistoryFacts' /\ PhaseFacts'
      BY <1>1, <1>6, <2>1, <2>2 DEF IInv, TypeOK, HistoryFacts, PhaseFacts
    <2>8. QED
      BY <2>4, <2>5, <2>6, <2>7 DEF IInv
  <1>7. QED
    BY <1>2, <1>4, <1>5, <1>6 DEF RecvRedis, RecvMemory, histVars

\* A worker that starts an attempt keeps its copy and counts one more run.
LEMMA StartPreserves ==
    ASSUME IInv, NEW w \in Workers, NEW n \in 0..MaxRetry, StartRun(w, n),
           pc[w] \in {"lookup", "backoff"},
           runs[held[w]] = n, sink' = [sink EXCEPT ![w] = TRUE],
           UNCHANGED <<svcVars, redisVars, list, chan, held, made, outcome, recorded>>
    PROVE  IInv'
  <1> USE DEF svcVars, redisVars
  <1>1. PICK c : c = held[w]
    OBVIOUS
  <1>2. /\ c \in Copies /\ held[w] = c /\ c # NoJob /\ HeldCopies' = HeldCopies /\ c \in HeldCopies
        /\ outcome[c] = "none" /\ runs[c] = n
        /\ \A u \in Workers \ {w} : held[u] # c
    <2>1. held[w] # NoJob /\ NoJob \notin Copies
      BY JobQueueAssumption DEF IInv, OnePlace, Busy, Copies
    <2>2. QED
      BY <1>1, <2>1 DEF IInv, TypeOK, OnePlace, HeldCopies
  <1>3. /\ pc' = [pc EXCEPT ![w] = "run"] /\ attempt' = [attempt EXCEPT ![w] = n]
        /\ runs' = [runs EXCEPT ![c] = n + 1]
    BY <1>1, <1>2 DEF StartRun, GoTo
  <1>4. TypeOK'
    BY <1>2, <1>3, JobQueueAssumption DEF IInv, TypeOK, PCs
  <1>5. OnePlace'
    BY <1>2, <1>3 DEF IInv, OnePlace, TypeOK, Busy
  <1>6. RetryBudget' /\ ExhaustedHasSink'
    BY <1>2, <1>3, JobQueueAssumption DEF IInv, RetryBudget, ExhaustedHasSink, TypeOK
  <1>7. WorkerFacts'
    BY <1>2, <1>3, JobQueueAssumption DEF IInv, WorkerFacts, TypeOK, OnePlace, Busy
  <1>8. HistoryFacts' /\ PhaseFacts'
    BY <1>2, <1>3 DEF IInv, HistoryFacts, PhaseFacts, TypeOK
  <1>9. QED
    BY <1>4, <1>5, <1>6, <1>7, <1>8 DEF IInv

\* A worker that lets go of its copy leaves it settled: done after a run, dead with the
\* attempts it had, or lost.
LEMMA SettlePreserves ==
    ASSUME IInv, NEW w \in Workers, pc[w] \in Busy, NEW result \in Outcomes \ {"none"},
           NEW label \in {"top", "exited"}, GoTo(w, label), Free(w),
           outcome' = [outcome EXCEPT ![held[w]] = result],
           recorded' \in [Copies -> Nat],
           \A c \in Copies \ {held[w]} : recorded'[c] = recorded[c],
           result = "dead" => /\ recorded'[held[w]] = runs[held[w]]
                              /\ runs[held[w]] \in {0, MaxRetry + 1},
           result = "done" => runs[held[w]] > 0,
           result = "nosink" => runs[held[w]] = 0,
           UNCHANGED <<svcVars, redisVars, list, chan, made, runs>>
    PROVE  IInv'
  <1> USE DEF svcVars, redisVars
  <1>1. PICK c : c = held[w]
    OBVIOUS
  <1>2. /\ c \in Copies /\ c # NoJob /\ c \in HeldCopies /\ c \in made
        /\ c \notin Elems(list) \cup Elems(chan)
        /\ HeldCopies' = HeldCopies \ {c}
        /\ phase \notin {"down", "drained"}
    <2>1. held[w] # NoJob /\ NoJob \notin Copies
      BY JobQueueAssumption DEF IInv, OnePlace, Copies
    <2>2. c \in Copies /\ c # NoJob /\ c \in HeldCopies
      BY <1>1, <2>1 DEF IInv, TypeOK, HeldCopies
    <2>3. HeldCopies' = HeldCopies \ {c}
      BY <1>1, <2>1, FreeFacts DEF IInv, TypeOK, OnePlace
    <2>4. c \in made /\ c \notin Elems(list) \cup Elems(chan)
      BY <2>2 DEF IInv, OnePlace
    <2>5. QED
      BY <2>2, <2>3, <2>4 DEF IInv, PhaseFacts, Busy
  <1>3. /\ pc' = [pc EXCEPT ![w] = label] /\ held' = [held EXCEPT ![w] = NoJob]
        /\ attempt' = [attempt EXCEPT ![w] = 0] /\ sink' = [sink EXCEPT ![w] = FALSE]
        /\ outcome' = [outcome EXCEPT ![c] = result]
    BY <1>1 DEF GoTo, Free
  <1>4. TypeOK'
    <2>1. (pc \in [Workers -> PCs] /\ held \in [Workers -> Copies \cup {NoJob}])'
      BY <1>3 DEF IInv, TypeOK, PCs
    <2>2. (attempt \in [Workers -> 0..MaxRetry] /\ sink \in [Workers -> BOOLEAN])'
      BY <1>3, JobQueueAssumption DEF IInv, TypeOK
    <2>3. outcome' \in [Copies -> Outcomes]
      BY <1>2, <1>3 DEF IInv, TypeOK
    <2>4. QED
      BY <2>1, <2>2, <2>3 DEF IInv, TypeOK
  <1>5. OnePlace'
    <2>1. \A u, v \in Workers : held'[u] = held'[v] /\ held'[u] # NoJob => u = v
      BY <1>3 DEF IInv, TypeOK, OnePlace
    <2>2. \A u \in Workers : held'[u] # NoJob <=> pc'[u] \in Busy
      BY <1>3 DEF IInv, TypeOK, OnePlace, Busy
    <2>3. \A x \in Copies : outcome'[x] = IF x = c THEN result ELSE outcome[x]
      BY <1>3 DEF IInv, TypeOK
    <2>4. QED
      BY <1>2, <2>1, <2>2, <2>3 DEF IInv, OnePlace
  <1>6. RetryBudget' /\ ExhaustedHasSink'
    BY <1>1, <1>2, <1>3 DEF IInv, RetryBudget, ExhaustedHasSink, TypeOK
  <1>7. WorkerFacts'
    BY <1>3 DEF IInv, WorkerFacts, TypeOK
  <1>8. HistoryFacts' /\ PhaseFacts'
    BY <1>2, <1>3 DEF IInv, HistoryFacts, PhaseFacts, TypeOK
  <1>9. QED
    BY <1>4, <1>5, <1>6, <1>7, <1>8 DEF IInv

LEMMA LookupPreserves ==
    ASSUME IInv, NEW w \in Workers, Lookup(w)
    PROVE  IInv'
  <1>1. /\ pc[w] = "lookup" /\ held[w] \in Copies /\ runs[held[w]] = 0
        /\ pc[w] \in Busy
    BY JobQueueAssumption
    DEF Lookup, IInv, WorkerFacts, TypeOK, OnePlace, Busy, HasSink
  <1>2. CASE TypeOf[held[w][1]] \in handlers
    <2>1. HasSink
      BY <1>2 DEF IInv, HistoryFacts, HasSink
    <2>2. QED
      BY <1>1, <1>2, <2>1, StartPreserves, JobQueueAssumption DEF Lookup
  <1>3. CASE TypeOf[held[w][1]] \notin handlers
    <2>1. PICK result \in Outcomes \ {"none", "done"} :
              /\ outcome' = [outcome EXCEPT ![held[w]] = result]
              /\ result = "dead" => recorded' = [recorded EXCEPT ![held[w]] = 0]
              /\ result # "dead" => recorded' = recorded
              /\ recorded' \in [Copies -> Nat]
      <3>1. (DeadLetter(held[w], 0) \/ Settle(held[w], "nosink")) /\ TypeOK
        BY <1>3 DEF Lookup, IInv, SinkIfAny
      <3>2. QED
        BY <1>1, <3>1, SinkFacts
    <2>2. /\ \A c \in Copies \ {held[w]} : recorded'[c] = recorded[c]
          /\ result = "dead" => recorded'[held[w]] = runs[held[w]]
      BY <1>1, <2>1 DEF IInv, TypeOK
    <2>3. QED
      BY <1>1, <1>3, <2>1, <2>2, SettlePreserves DEF Lookup
  <1>4. QED
    BY <1>2, <1>3

LEMMA HandlerPreserves ==
    ASSUME IInv, NEW w \in Workers, HandlerSucceeds(w) \/ HandlerFails(w)
    PROVE  IInv'
  <1>1. /\ pc[w] = "run" /\ pc[w] \in Busy /\ held[w] \in Copies
        /\ runs[held[w]] = attempt[w] + 1 /\ attempt[w] \in 0..MaxRetry
    BY JobQueueAssumption
    DEF HandlerSucceeds, HandlerFails, IInv, WorkerFacts, TypeOK, OnePlace, Busy
  <1>2. CASE HandlerSucceeds(w)
    <2>1. "done" \in Outcomes \ {"none"} /\ recorded \in [Copies -> Nat]
      BY DEF Outcomes, Losses, IInv, TypeOK
    <2>2. runs[held[w]] > 0
      BY <1>1, JobQueueAssumption
    <2>3. QED
      BY <1>1, <1>2, <2>1, <2>2, SettlePreserves DEF HandlerSucceeds, Settle
  <1>3. CASE HandlerFails(w)
    <2>1. /\ UNCHANGED <<svcVars, redisVars, list, chan, held, attempt, sink, histVars>>
          /\ HeldCopies' = HeldCopies
          /\ pc' = [pc EXCEPT ![w] = pc'[w]]
          /\ \/ pc'[w] = "backoff" /\ attempt[w] < MaxRetry
             \/ pc'[w] = "sink" /\ attempt[w] = MaxRetry
      BY <1>1, <1>3, JobQueueAssumption DEF HandlerFails, GoTo, HeldCopies, IInv, TypeOK
    <2> USE <2>1 DEF svcVars, redisVars, histVars
    <2>2. TypeOK'
      BY DEF IInv, TypeOK, PCs
    <2>3. OnePlace'
      BY <1>1 DEF IInv, OnePlace, TypeOK, Busy
    <2>4. RetryBudget' /\ ExhaustedHasSink'
      BY <1>1 DEF IInv, RetryBudget, ExhaustedHasSink, TypeOK
    <2>5. WorkerFacts'
      BY <1>1 DEF IInv, WorkerFacts, TypeOK
    <2>6. HistoryFacts' /\ PhaseFacts'
      BY <1>1 DEF IInv, HistoryFacts, PhaseFacts, TypeOK
    <2>7. QED
      BY <2>2, <2>3, <2>4, <2>5, <2>6 DEF IInv
  <1>4. QED
    BY <1>2, <1>3

LEMMA BackoffPreserves ==
    ASSUME IInv, NEW w \in Workers, BackoffElapsed(w) \/ BackoffCancelled(w)
    PROVE  IInv'
  <1>1. /\ pc[w] = "backoff" /\ pc[w] \in Busy /\ held[w] \in Copies /\ sink[w]
        /\ runs[held[w]] = attempt[w] + 1 /\ attempt[w] \in 0..MaxRetry
        /\ attempt[w] < MaxRetry /\ sink \in [Workers -> BOOLEAN]
    BY JobQueueAssumption
    DEF BackoffElapsed, BackoffCancelled, IInv, WorkerFacts, TypeOK, OnePlace, Busy,
        ExhaustedHasSink
  <1>2. CASE BackoffElapsed(w)
    <2>1. attempt[w] + 1 \in 0..MaxRetry
      BY <1>1, JobQueueAssumption
    <2>2. sink' = [sink EXCEPT ![w] = TRUE]
      BY <1>1, <1>2 DEF BackoffElapsed
    <2>3. QED
      BY <1>1, <1>2, <2>1, <2>2, StartPreserves DEF BackoffElapsed
  <1>3. CASE BackoffCancelled(w)
    <2>1. "shutdown" \in Outcomes \ {"none"} /\ recorded \in [Copies -> Nat]
      BY DEF Outcomes, Losses, IInv, TypeOK
    <2>2. QED
      BY <1>1, <1>3, <2>1, SettlePreserves DEF BackoffCancelled, Settle
  <1>4. QED
    BY <1>2, <1>3

LEMMA CallSinkPreserves ==
    ASSUME IInv, NEW w \in Workers, CallSink(w)
    PROVE  IInv'
  <1>1. /\ pc[w] = "sink" /\ pc[w] \in Busy /\ held[w] \in Copies /\ sink[w]
        /\ runs[held[w]] = attempt[w] + 1 /\ attempt[w] = MaxRetry
        /\ attempt[w] + 1 \in Nat
    BY JobQueueAssumption
    DEF CallSink, IInv, WorkerFacts, TypeOK, OnePlace, Busy, ExhaustedHasSink
  <1>2. DeadLetter(held[w], attempt[w] + 1) /\ TypeOK
    BY <1>1 DEF CallSink, IInv, SinkIfAny
  <1>3. PICK result \in Outcomes \ {"none", "done"} :
            /\ outcome' = [outcome EXCEPT ![held[w]] = result]
            /\ result = "dead" => recorded' = [recorded EXCEPT ![held[w]] = attempt[w] + 1]
            /\ result # "dead" => recorded' = recorded
            /\ result # "nosink"
            /\ recorded' \in [Copies -> Nat]
    BY <1>1, <1>2, SinkFacts
  <1>4. /\ \A c \in Copies \ {held[w]} : recorded'[c] = recorded[c]
        /\ result = "dead" => recorded'[held[w]] = runs[held[w]]
    BY <1>1, <1>3 DEF IInv, TypeOK
  <1>5. QED
    BY <1>1, <1>3, <1>4, SettlePreserves DEF CallSink

-----------------------------------------------------------------------------
LEMMA StepIInv == IInv /\ [Next]_vars => IInv'
  <1> SUFFICES ASSUME IInv, [Next]_vars PROVE IInv'
    OBVIOUS
  <1>1. CASE Boot \/ SetDLQ \/ (\E t \in Types : Register(t)) \/ Serve \/ StopCancel
             \/ StopWait \/ RedisFails \/ RedisRecovers
    BY <1>1, MainPreserves
  <1>2. CASE Exit \/ Crash
    BY <1>2, EndPreserves
  <1>3. ASSUME NEW j \in Jobs, Enqueue(j) PROVE IInv'
    BY <1>3, EnqueuePreserves
  <1>4. ASSUME NEW w \in Workers, WorkerStep(w) PROVE IInv'
    BY <1>4, LoopHeadPreserves, RecvPreserves, LookupPreserves, HandlerPreserves,
       BackoffPreserves, CallSinkPreserves DEF WorkerStep
  <1>5. CASE UNCHANGED vars
    BY <1>5 DEF vars, svcVars, redisVars, wkVars, histVars, IInv, TypeOK, OnePlace,
                RetryBudget, ExhaustedHasSink, WorkerFacts, HistoryFacts, PhaseFacts,
                HeldCopies
  <1>6. QED
    BY <1>1, <1>2, <1>3, <1>4, <1>5 DEF Next

\* The inductive invariant holds in every reachable state.
THEOREM Inductive == Spec => []IInv
  BY InitIInv, StepIInv, PTL DEF Spec

\* The variables keep their types; in particular no worker's loop counter passes MaxRetry.
THEOREM TypeCorrect == Spec => []TypeOK
  <1>1. IInv => TypeOK
    BY DEF IInv
  <1>2. QED
    BY <1>1, Inductive, PTL

\* Every copy that came to exist is in exactly one place until it leaves with an outcome.
THEOREM OnePlaceHolds == Spec => []OnePlace
  <1>1. IInv => OnePlace
    BY DEF IInv
  <1>2. QED
    BY <1>1, Inductive, PTL

\* No copy is run more than MaxRetry + 1 times, and a FailedJob row records its true runs.
THEOREM RetryBudgetHolds == Spec => []RetryBudget
  <1>1. IInv => RetryBudget
    BY DEF IInv
  <1>2. QED
    BY <1>1, Inductive, PTL

\* A job that used up its retries always reaches a dead-letter sink.
THEOREM ExhaustedHasSinkHolds == Spec => []ExhaustedHasSink
  <1>1. IInv => ExhaustedHasSink
    BY DEF IInv
  <1>2. QED
    BY <1>1, Inductive, PTL

\* After Stop has returned, and while the process is down, no worker holds a job.
THEOREM StoppedIsQuietHolds == Spec => []StoppedIsQuiet
  <1>1. IInv => StoppedIsQuiet
    BY DEF IInv, StoppedIsQuiet, PhaseFacts, OnePlace, Busy, HeldCopies
  <1>2. QED
    BY <1>1, Inductive, PTL

-----------------------------------------------------------------------------
(***************************************************************************)
(* JobQueue implements JobDelivery, for any jobs, workers and bounds: the  *)
(* initial states of the queue are initial states of JobDelivery under the *)
(* mapping StateOf, and every step of the queue, taken in a state of the   *)
(* inductive invariant above, is a step of JobDelivery or leaves the       *)
(* mapped state alone.  ScanLifecycle and ScanExecution use the queue      *)
(* through JobDelivery, so what they show rests on this.                   *)
(***************************************************************************)
Waiting == Elems(list) \cup Elems(chan)

\* What a step of JobDelivery sees of a step of the queue.
Mapped == [c \in Copies |-> StateOf(c)]

\* Where a copy stands in JobDelivery.
LEMMA StateFacts ==
    ASSUME IInv, NEW c \in Copies
    PROVE  /\ StateOf(c) \in {"absent", "waiting", "active", "done", "dead", "lost"}
           /\ c \notin made => StateOf(c) = "absent"
           /\ c \in HeldCopies => StateOf(c) = "active" /\ outcome[c] = "none"
           /\ c \in Waiting => StateOf(c) = "waiting" /\ outcome[c] = "none"
  <1>1. outcome[c] \in Outcomes
    BY DEF IInv, TypeOK
  <1>2. /\ (outcome[c] = "none" /\ c \in made) <=> c \in Waiting \cup HeldCopies
        /\ outcome[c] # "none" => c \in made
        /\ HeldCopies \cap Waiting = {}
    BY DEF IInv, OnePlace, Waiting
  <1>3. "none" \notin Losses \cup {"done", "dead"}
    BY DEF Losses
  <1>4. QED
    BY <1>1, <1>2, <1>3 DEF StateOf, Waiting, Outcomes

\* Where it stands after a step.
LEMMA StateAfter ==
    ASSUME IInv', NEW c \in Copies
    PROVE  /\ outcome'[c] \in Losses => StateOf(c)' = "lost"
           /\ outcome'[c] \in {"done", "dead"} => StateOf(c)' = outcome'[c]
           /\ c \in HeldCopies' => StateOf(c)' = "active"
           /\ c \in Waiting' => StateOf(c)' = "waiting"
           /\ /\ outcome'[c] = outcome[c] /\ (c \in HeldCopies' <=> c \in HeldCopies)
              /\ (c \in Waiting' <=> c \in Waiting)
              => StateOf(c)' = StateOf(c)
  <1>1. c \in Waiting' \cup HeldCopies' => outcome'[c] = "none"
    BY DEF IInv, OnePlace, Waiting
  <1>2. ~(c \in Waiting' /\ c \in HeldCopies')
    BY DEF IInv, OnePlace, Waiting
  <1>3. outcome'[c] \in Losses => StateOf(c)' = "lost"
    BY <1>1 DEF StateOf, Losses, Waiting
  <1>4. outcome'[c] \in {"done", "dead"} => StateOf(c)' = outcome'[c]
    BY <1>1 DEF StateOf, Losses, Waiting
  <1>5. c \in HeldCopies' => StateOf(c)' = "active"
    BY <1>1, <1>2 DEF StateOf, Losses, Waiting
  <1>6. c \in Waiting' => StateOf(c)' = "waiting"
    BY <1>1, <1>2 DEF StateOf, Losses, Waiting
  <1>7. ASSUME outcome'[c] = outcome[c], c \in HeldCopies' <=> c \in HeldCopies,
               c \in Waiting' <=> c \in Waiting
        PROVE  StateOf(c)' = StateOf(c)
    BY <1>7 DEF StateOf, Waiting
  <1>8. QED
    BY <1>3, <1>4, <1>5, <1>6, <1>7

\* A step that moves no copy is invisible.
LEMMA Invisible ==
    ASSUME UNCHANGED <<list, chan, held, outcome, runs>>
    PROVE  UNCHANGED <<Mapped, runs>>
  BY DEF Mapped, StateOf, HeldCopies

-----------------------------------------------------------------------------
\* The process ends: what was in memory is lost, what is in Redis waits on.
LEMMA EndLoses ==
    ASSUME IInv, IInv', Exit \/ Crash
    PROVE  \E gone \in SUBSET Copies : Delivery!Lose(gone)
  <1> DEFINE gone == Elems(chan) \cup HeldCopies
  <1>1. PICK reason \in Losses : ProcessEnds(reason)
    BY DEF Exit, Crash, Losses
  <1>2. gone \subseteq Copies
    <2>1. Elems(chan) \subseteq Copies
      <3>1. chan \in Seq(Copies)
        BY DEF IInv, TypeOK
      <3> QED
        BY <3>1 DEF Elems
    <2>2. HeldCopies \subseteq Copies
      <3>1. held \in [Workers -> Copies \cup {NoJob}]
        BY DEF IInv, TypeOK
      <3> QED
        BY <3>1 DEF HeldCopies
    <2> QED
      BY <2>1, <2>2
  <1>3. HeldCopies' = {} /\ Elems(chan') = {} /\ list' = list /\ runs' = runs
    BY <1>1, EmptyFacts DEF ProcessEnds, HeldCopies
  <1>4. \A c \in Copies : outcome'[c] = IF c \in gone THEN reason ELSE outcome[c]
    BY <1>1 DEF ProcessEnds
  <1>5. \A c \in Copies : StateOf(c)' = IF c \in gone THEN "lost" ELSE StateOf(c)
    BY <1>1, <1>3, <1>4, StateAfter DEF Waiting
  <1>6. \A c \in gone : StateOf(c) \in {"waiting", "active"}
    BY <1>2, StateFacts DEF Waiting
  <1>7. Delivery!Lose(gone)
    BY <1>2, <1>3, <1>5, <1>6 DEF Delivery!Lose
  <1>8. QED
    BY <1>2, <1>7

\* Enqueue brings one or two copies into being.
LEMMA EnqueueSubmits ==
    ASSUME IInv, IInv', NEW j \in Jobs, Enqueue(j)
    PROVE  \E new \in SUBSET Copies : Delivery!Submit(new)
  <1>1. PICK a, b : a = <<j, 1>> /\ b = <<j, 2>>
    OBVIOUS
  <1>2. a \in Copies /\ b \in Copies /\ a # b
    BY <1>1 DEF Copies
  <1>3. a \notin made /\ b \notin made
    BY <1>1, <1>2 DEF Enqueue, IInv, HistoryFacts
  <1>4. /\ a \notin Waiting \cup HeldCopies /\ b \notin Waiting \cup HeldCopies
        /\ outcome[a] = "none" /\ outcome[b] = "none"
    BY <1>2, <1>3 DEF IInv, OnePlace, Waiting
  <1>5. HasSink /\ HeldCopies' = HeldCopies /\ runs' = runs
    BY DEF Enqueue, HeldCopies, wkVars, Serving, HasSink
  <1>6. PICK waiting, gone \in SUBSET {a, b} : Enqueued(a, b, waiting, gone)
    BY <1>1, <1>2, <1>4, <1>5, EnqueueShape
    DEF Enqueue, PushStored, PushStoredTwice, PushFailed, Waiting
  <1> DEFINE new == waiting \cup gone
             to == [c \in new |-> StateOf(c)']
  <1>7. new \subseteq Copies /\ \A c \in new : StateOf(c) = "absent"
    BY <1>2, <1>3, StateFacts
  <1>8. /\ Waiting' = Waiting \cup waiting
        /\ \A c \in Copies \ gone : outcome'[c] = outcome[c]
        /\ \A c \in gone : outcome'[c] \in {"dead", "dbfail"}
    BY <1>6 DEF Enqueued, Waiting
  <1>9. \A c \in Copies \ new : StateOf(c)' = StateOf(c)
    BY <1>5, <1>8, StateAfter
  <1>10. \A c \in new : StateOf(c)' \in {"waiting", "dead", "lost"}
    <2>1. \A c \in gone : StateOf(c)' \in {"dead", "lost"}
      BY <1>7, <1>8, StateAfter DEF Losses
    <2>2. \A c \in waiting : StateOf(c)' = "waiting"
      <3>1. \A c \in waiting : c \in Copies /\ c \in Waiting'
        BY <1>2, <1>4, <1>5, <1>6, <1>8 DEF Enqueued
      <3>2. QED
        BY <3>1, StateAfter
    <2>3. QED
      BY <2>1, <2>2
  <1>11. Delivery!Submit(new)
    <2>1. to \in [new -> {"waiting", "dead", "lost"}]
      BY <1>10
    <2>2. [c \in Copies |-> StateOf(c)'] = [c \in Copies |-> IF c \in new THEN to[c] ELSE StateOf(c)]
      BY <1>9
    <2> HIDE DEF to, new
    <2>3. QED
      BY <2>1, <2>2, <1>5, <1>7 DEF Delivery!Submit
  <1>12. QED
    BY <1>7, <1>11

-----------------------------------------------------------------------------
\* The oldest copy of a queue goes to a worker, or its reply to nobody.
LEMMA RecvTakes ==
    ASSUME IInv, IInv', NEW w \in Workers, RecvRedis(w) \/ RecvMemory(w)
    PROVE  \/ UNCHANGED <<list, chan, held, outcome, runs>>
           \/ \E c \in Copies : Delivery!TakeUp(c) \/ Delivery!Lose({c})
  <1>1. /\ list \in Seq(Copies) /\ chan \in Seq(Copies) /\ NoRepeat(list) /\ NoRepeat(chan)
        /\ held \in [Workers -> Copies \cup {NoJob}] /\ held[w] = NoJob
        /\ outcome \in [Copies -> Outcomes] /\ Elems(list) \cap Elems(chan) = {}
        /\ runs' = runs
    BY DEF RecvRedis, RecvMemory, IInv, TypeOK, OnePlace, Busy, histVars
  <1>2. ASSUME NEW c \in Copies, c \in Waiting, Waiting' = Waiting \ {c}, Take(w, c), outcome' = outcome
        PROVE  Delivery!TakeUp(c)
    <2>1. HeldCopies' = HeldCopies \cup {c}
      BY <1>1, <1>2, TakeFacts
    <2>2. outcome[c] = "none" /\ StateOf(c) = "waiting"
      BY <1>2, StateFacts
    <2>3. StateOf(c)' = "active"
      BY <1>2, <2>1, <2>2, StateAfter
    <2>4. \A d \in Copies \ {c} : StateOf(d)' = StateOf(d)
      BY <1>2, <2>1, StateAfter
    <2>5. QED
      BY <1>1, <2>2, <2>3, <2>4 DEF Delivery!TakeUp, Delivery!Move
  <1>3. ASSUME NEW c \in Copies, c \in Waiting, Waiting' = Waiting \ {c}, held' = held,
               outcome' = [outcome EXCEPT ![c] = "replylost"]
        PROVE  Delivery!Lose({c})
    <2>1. HeldCopies' = HeldCopies /\ c \notin HeldCopies
      BY <1>3 DEF HeldCopies, IInv, OnePlace, Waiting
    <2>2. StateOf(c) = "waiting"
      BY <1>3, StateFacts
    <2>3. StateOf(c)' = "lost"
      BY <1>1, <1>3, StateAfter DEF Losses
    <2>4. \A d \in Copies \ {c} : StateOf(d)' = StateOf(d)
      BY <1>1, <1>3, <2>1, StateAfter
    <2>5. QED
      BY <1>1, <2>2, <2>3, <2>4 DEF Delivery!Lose
  <1>4. CASE list # <<>> /\ Take(w, Head(list)) /\ list' = Tail(list) /\ UNCHANGED <<chan, outcome>>
    <2>1. Head(list) \in Copies /\ Head(list) \in Waiting /\ Waiting' = Waiting \ {Head(list)}
      BY <1>1, <1>4, TailFacts DEF Waiting
    <2>2. QED
      BY <1>2, <1>4, <2>1
  <1>5. CASE /\ list # <<>> /\ outcome' = [outcome EXCEPT ![Head(list)] = "replylost"]
             /\ list' = Tail(list) /\ UNCHANGED <<chan, held>>
    <2>1. Head(list) \in Copies /\ Head(list) \in Waiting /\ Waiting' = Waiting \ {Head(list)}
      BY <1>1, <1>5, TailFacts DEF Waiting
    <2>2. QED
      BY <1>3, <1>5, <2>1
  <1>6. CASE chan # <<>> /\ Take(w, Head(chan)) /\ chan' = Tail(chan) /\ UNCHANGED <<list, outcome>>
    <2>1. Head(chan) \in Copies /\ Head(chan) \in Waiting /\ Waiting' = Waiting \ {Head(chan)}
      BY <1>1, <1>6, TailFacts DEF Waiting
    <2>2. QED
      BY <1>2, <1>6, <2>1
  <1>7. QED
    BY <1>1, <1>4, <1>5, <1>6 DEF RecvRedis, RecvMemory, histVars

\* What a busy worker holds is active.
LEMMA HeldIsActive ==
    ASSUME IInv, NEW w \in Workers, pc[w] \in Busy
    PROVE  /\ held[w] \in Copies /\ held[w] \in HeldCopies /\ held[w] # NoJob
           /\ StateOf(held[w]) = "active"
           /\ runs[held[w]] \in 0..(MaxRetry + 1)
           /\ held[w] \notin Waiting
  <1>1. held[w] # NoJob /\ held[w] \in Copies \cup {NoJob}
    BY DEF IInv, TypeOK, OnePlace
  <1>2. held[w] \in HeldCopies
    BY <1>1 DEF HeldCopies
  <1>3. runs[held[w]] \in Nat /\ runs[held[w]] <= MaxRetry + 1
    BY <1>1 DEF IInv, TypeOK, RetryBudget
  <1>4. QED
    BY <1>1, <1>2, <1>3, StateFacts, JobQueueAssumption DEF IInv, OnePlace, Waiting

\* A handler call is a try within the budget.
LEMMA StartTries ==
    ASSUME IInv, NEW w \in Workers, pc[w] \in Busy, NEW n, StartRun(w, n),
           runs[held[w]] < MaxRetry + 1, UNCHANGED <<list, chan, held, outcome>>
    PROVE  Delivery!Try(held[w])
  <1>1. held[w] \in Copies /\ StateOf(held[w]) = "active"
    BY HeldIsActive
  <1>2. \A c \in Copies : StateOf(c)' = StateOf(c)
    BY DEF StateOf, HeldCopies
  <1>3. QED
    BY <1>1, <1>2 DEF Delivery!Try, StartRun

\* A worker that lets go of its copy ends it: done, dead-lettered, or lost.
LEMMA FreeEnds ==
    ASSUME IInv, IInv', NEW w \in Workers, pc[w] \in Busy, Free(w), NEW result \in Outcomes \ {"none"},
           outcome' = [outcome EXCEPT ![held[w]] = result], UNCHANGED <<list, chan, runs>>,
           result = "done" => runs[held[w]] > 0,
           result = "dead" => runs[held[w]] \in {0, MaxRetry + 1}
    PROVE  \E c \in Copies : Delivery!Finish(c) \/ Delivery!GiveUp(c) \/ Delivery!Lose({c})
  <1>1. PICK c : c = held[w]
    OBVIOUS
  <1>2. c \in Copies /\ c \notin Waiting /\ c # NoJob /\ StateOf(c) = "active"
    BY <1>1, HeldIsActive
  <1>3. HeldCopies' = HeldCopies \ {c}
    BY <1>1, <1>2, FreeFacts DEF IInv, TypeOK, OnePlace
  <1>4. \A d \in Copies : outcome'[d] = IF d = c THEN result ELSE outcome[d]
    BY <1>1, <1>2 DEF IInv, TypeOK
  <1>5. \A d \in Copies \ {c} : StateOf(d)' = StateOf(d)
    BY <1>3, <1>4, StateAfter DEF Waiting
  <1>6. CASE result \in {"done", "dead"}
    <2>1. StateOf(c)' = result
      BY <1>2, <1>4, <1>6, StateAfter
    <2>2. Delivery!Finish(c) \/ Delivery!GiveUp(c)
      BY <1>1, <1>2, <1>5, <1>6, <2>1 DEF Delivery!Finish, Delivery!GiveUp, Delivery!Move
    <2>3. QED
      BY <1>2, <2>2
  <1>7. CASE result \in Losses
    <2>1. StateOf(c)' = "lost"
      BY <1>2, <1>4, <1>7, StateAfter
    <2>2. Delivery!Lose({c})
      BY <1>2, <1>5, <2>1 DEF Delivery!Lose
    <2>3. QED
      BY <1>2, <2>2
  <1>8. QED
    BY <1>6, <1>7 DEF Outcomes

\* A busy worker's steps.
LEMMA WorkerDelivers ==
    ASSUME IInv, IInv', NEW w \in Workers, WorkerStep(w)
    PROVE  \/ UNCHANGED <<list, chan, held, outcome, runs>>
           \/ \E c \in Copies : \/ Delivery!TakeUp(c) \/ Delivery!Try(c) \/ Delivery!Finish(c)
                                \/ Delivery!GiveUp(c) \/ Delivery!Lose({c})
  <1>1. CASE LoopHead(w) \/ HandlerFails(w)
    BY <1>1 DEF LoopHead, HandlerFails, histVars
  <1>2. CASE RecvRedis(w) \/ RecvMemory(w)
    BY <1>2, RecvTakes
  <1>3. CASE Lookup(w)
    <2>1. pc[w] \in Busy /\ held[w] \in Copies /\ runs[held[w]] = 0
      BY <1>3, HeldIsActive DEF Lookup, Busy, IInv, WorkerFacts
    <2>2. CASE TypeOf[held[w][1]] \in handlers
      <3>1. Delivery!Try(held[w])
        BY <1>3, <2>1, <2>2, StartTries, JobQueueAssumption DEF Lookup
      <3>2. QED
        BY <2>1, <3>1
    <2>3. CASE TypeOf[held[w][1]] \notin handlers
      <3>1. (DeadLetter(held[w], 0) \/ Settle(held[w], "nosink")) /\ TypeOK
        BY <1>3, <2>3 DEF Lookup, IInv, SinkIfAny
      <3>2. PICK result \in Outcomes \ {"none", "done"} : outcome' = [outcome EXCEPT ![held[w]] = result]
        BY <2>1, <3>1, SinkFacts
      <3>3. QED
        BY <1>3, <2>1, <2>3, <3>2, FreeEnds DEF Lookup
    <2>4. QED
      BY <2>2, <2>3
  <1>4. CASE HandlerSucceeds(w)
    <2>1. pc[w] \in Busy /\ runs[held[w]] = attempt[w] + 1 /\ attempt[w] \in 0..MaxRetry
      BY <1>4 DEF HandlerSucceeds, Busy, IInv, WorkerFacts, TypeOK
    <2>2. runs[held[w]] > 0 /\ "done" \in Outcomes \ {"none"}
      BY <2>1, JobQueueAssumption DEF Outcomes
    <2>3. QED
      BY <1>4, <2>1, <2>2, FreeEnds DEF HandlerSucceeds, Settle
  <1>5. CASE BackoffElapsed(w)
    <2>1. pc[w] \in Busy /\ runs[held[w]] = attempt[w] + 1 /\ attempt[w] < MaxRetry
          /\ attempt[w] \in 0..MaxRetry
      BY <1>5 DEF BackoffElapsed, Busy, IInv, WorkerFacts, TypeOK
    <2>2. runs[held[w]] < MaxRetry + 1 /\ held[w] \in Copies
      BY <2>1, HeldIsActive, JobQueueAssumption
    <2>3. Delivery!Try(held[w])
      BY <1>5, <2>1, <2>2, StartTries DEF BackoffElapsed
    <2>4. QED
      BY <2>2, <2>3
  <1>6. CASE BackoffCancelled(w)
    <2>1. pc[w] \in Busy /\ "shutdown" \in Outcomes \ {"none"}
      BY <1>6 DEF BackoffCancelled, Busy, Outcomes, Losses
    <2>2. QED
      BY <1>6, <2>1, FreeEnds DEF BackoffCancelled, Settle
  <1>7. CASE CallSink(w)
    <2>1. /\ pc[w] \in Busy /\ held[w] \in Copies /\ sink[w] /\ TypeOK
          /\ runs[held[w]] = MaxRetry + 1 /\ attempt[w] + 1 \in Nat
      BY <1>7, HeldIsActive, JobQueueAssumption
      DEF CallSink, Busy, IInv, WorkerFacts, ExhaustedHasSink, TypeOK
    <2>2. DeadLetter(held[w], attempt[w] + 1)
      BY <1>7, <2>1 DEF CallSink, SinkIfAny
    <2>3. PICK result \in Outcomes \ {"none", "done"} : outcome' = [outcome EXCEPT ![held[w]] = result]
      BY <2>1, <2>2, SinkFacts
    <2>4. QED
      BY <1>7, <2>1, <2>3, FreeEnds DEF CallSink
  <1>8. QED
    BY <1>1, <1>2, <1>3, <1>4, <1>5, <1>6, <1>7 DEF WorkerStep

-----------------------------------------------------------------------------
LEMMA InitDelivers == Init => Delivery!Init
  <1> SUFFICES ASSUME Init PROVE Delivery!Init
    OBVIOUS
  <1>1. HeldCopies = {} /\ Elems(list) = {} /\ Elems(chan) = {}
    BY EmptyFacts DEF Init, HeldCopies
  <1>2. \A c \in Copies : StateOf(c) = "absent"
    BY <1>1 DEF Init, StateOf, Losses
  <1>3. runs = [c \in Copies |-> 0]
    BY DEF Init
  <1>4. QED
    BY <1>2, <1>3 DEF Delivery!Init

LEMMA StepDelivers == IInv /\ [Next]_vars => [Delivery!Next]_<<Mapped, runs>>
  <1> SUFFICES ASSUME IInv, [Next]_vars PROVE Delivery!Next \/ UNCHANGED <<Mapped, runs>>
    OBVIOUS
  <1>0. IInv'
    BY StepIInv
  <1>1. CASE Boot \/ SetDLQ \/ (\E t \in Types : Register(t)) \/ Serve \/ StopCancel
             \/ StopWait \/ RedisFails \/ RedisRecovers \/ UNCHANGED vars
    <2>1. UNCHANGED <<list, chan, held, outcome, runs>>
      BY <1>1 DEF Boot, SetDLQ, Register, Serve, StopCancel, StopWait, RedisFails, RedisRecovers,
                  vars, wkVars, histVars
    <2>2. QED
      BY <2>1, Invisible
  <1>2. CASE Exit \/ Crash
    BY <1>0, <1>2, EndLoses DEF Delivery!Next
  <1>3. ASSUME NEW j \in Jobs, Enqueue(j) PROVE Delivery!Next
    BY <1>0, <1>3, EnqueueSubmits DEF Delivery!Next
  <1>4. ASSUME NEW w \in Workers, WorkerStep(w) PROVE Delivery!Next \/ UNCHANGED <<Mapped, runs>>
    <2>1. CASE UNCHANGED <<list, chan, held, outcome, runs>>
      BY <2>1, Invisible
    <2>2. ASSUME NEW c \in Copies, Delivery!Lose({c}) PROVE Delivery!Next
      <3>1. {c} \in SUBSET Copies
        OBVIOUS
      <3>2. QED
        BY <2>2, <3>1 DEF Delivery!Next
    <2>3. QED
      BY <1>0, <1>4, <2>1, <2>2, WorkerDelivers DEF Delivery!Next
  <1>5. QED
    BY <1>1, <1>2, <1>3, <1>4 DEF Next

\* The queue implements JobDelivery: a copy is taken up once, tried within its budget by the
\* worker that took it, and nothing happens to it after it has left the queue.
THEOREM QueueImplementsDelivery == Spec => ImplementsDelivery
  <1>1. Init => Delivery!Init
    BY InitDelivers
  <1>2. IInv /\ [Next]_vars => [Delivery!Next]_<<Mapped, runs>>
    BY StepDelivers
  <1>3. QED
    BY <1>1, <1>2, Inductive, PTL DEF Spec, ImplementsDelivery, Delivery!Spec, Mapped
=============================================================================
