------------------------------ MODULE JobQueue ------------------------------
(***************************************************************************)
(* The background job queue of internal/queue/queue.go, with the part of   *)
(* cmd/server/main.go that decides when it may be used: New starts the     *)
(* workers, then main installs the dead-letter sink, registers the         *)
(* handlers and only then opens the HTTP server and the scheduler, the     *)
(* producers.  Shutdown cancels the queue while HTTP still accepts.        *)
(*                                                                         *)
(* A job is a member of Jobs and is enqueued at most once (its id is a     *)
(* fresh uuid).  What moves through the queue are COPIES of it: <<j, 1>>   *)
(* is the one the caller handed over, <<j, 2>> the one an LPUSH whose      *)
(* reply was lost leaves behind (the client retries, or Enqueue falls back *)
(* to memory although Redis did store the job).                            *)
(*                                                                         *)
(* Payload, priority (never read by the code), timings and logging are     *)
(* left out.  Redis is external: a list that survives the process, and an  *)
(* up/down flag the environment moves.                                     *)
(***************************************************************************)
EXTENDS Naturals, Sequences

CONSTANTS Jobs,         \* jobs the producers may enqueue
          Workers,      \* worker goroutines (cfg.Workers, 5 when unset)
          Types,        \* job types RegisterAll registers
          TypeOf,       \* the type of each job
          BufferSize,   \* capacity of the in-memory channel
          MaxRetry,     \* job.MaxRetry (3 when the caller leaves it 0)
          NoJob,        \* the zero Job of an idle worker
          MaxBoots,     \* bound: process starts
          MaxOutages    \* bound: times Redis goes down

ASSUME JobQueueAssumption ==
    /\ TypeOf \in [Jobs -> Types]
    /\ BufferSize \in Nat \ {0}
    /\ MaxRetry \in Nat
    /\ NoJob \notin Jobs \X {1, 2}
    /\ MaxBoots \in Nat
    /\ MaxOutages \in Nat

VARIABLES phase,     \* how far main() has come
          mode,      \* q.redis # nil ("redis") or nil ("memory")
          handlers,  \* keys of q.handlers
          redisUp,   \* the Redis server answers
          list,      \* the Redis list rayyan:queue:jobs, oldest first
          chan,      \* q.inMemory, oldest first
          pc,        \* where each worker is in its loop
          held,      \* the worker's local variable job
          attempt,   \* the worker's loop counter
          sink,      \* the worker's local dlq is non-nil
          boots, outages,
          made,      \* history: copies that came to exist
          outcome,   \* history: how a copy left the queue
          runs,      \* history: handler calls made for a copy
          recorded   \* Attempts column of the copy's FailedJob row

svcVars   == <<phase, mode, handlers, boots>>
redisVars == <<redisUp, outages>>
wkVars    == <<pc, held, attempt, sink>>
histVars  == <<made, outcome, runs, recorded>>
vars      == <<svcVars, redisVars, list, chan, wkVars, histVars>>

Copies == Jobs \X {1, 2}

Phases   == {"down", "boot", "wired", "serving", "stopping", "drained"}
PCs      == {"off", "top", "recv", "lookup", "run", "backoff", "sink", "exited"}
Losses   == {"nosink", "dbfail", "shutdown", "crash", "replylost"}
Outcomes == {"none", "done", "dead"} \cup Losses

Serving == phase \in {"serving", "stopping", "drained"}
CtxDone == phase \in {"stopping", "drained"}
HasSink == phase \notin {"down", "boot"}

Elems(s)   == {s[i] : i \in 1..Len(s)}
HeldCopies == {held[w] : w \in Workers} \ {NoJob}

-----------------------------------------------------------------------------
\* The sink of main.go writes a FailedJob row; when the insert fails it only logs.
DeadLetter(c, attempts) ==
    \/ /\ outcome' = [outcome EXCEPT ![c] = "dead"]
       /\ recorded' = [recorded EXCEPT ![c] = attempts]
    \/ /\ outcome' = [outcome EXCEPT ![c] = "dbfail"]
       /\ UNCHANGED recorded

Settle(c, result) ==
    /\ outcome' = [outcome EXCEPT ![c] = result]
    /\ UNCHANGED recorded

\* if sink != nil { sink(job, err) }
SinkIfAny(present, c, attempts) ==
    IF present THEN DeadLetter(c, attempts) ELSE Settle(c, "nosink")

-----------------------------------------------------------------------------
\* Startup and shutdown, main.go.

\* queue.New: a process starts with Redis reachable (client) or not (nil client).
Boot ==
    /\ phase = "down" /\ boots < MaxBoots
    /\ phase' = "boot" /\ boots' = boots + 1
    /\ mode' \in IF redisUp THEN {"redis", "memory"} ELSE {"memory"}
    /\ pc' = [w \in Workers |-> "top"]
    /\ UNCHANGED <<handlers, redisVars, list, chan, held, attempt, sink, histVars>>

SetDLQ ==
    /\ phase = "boot"
    /\ phase' = "wired"
    /\ UNCHANGED <<mode, handlers, boots, redisVars, list, chan, wkVars, histVars>>

\* The same start-up with the handlers registered before SetDLQ (mutant).
RegisterEarly(t) ==
    /\ phase \in {"boot", "wired"} /\ t \notin handlers
    /\ handlers' = handlers \cup {t}
    /\ UNCHANGED <<phase, mode, boots, redisVars, list, chan, wkVars, histVars>>

Register(t) ==
    /\ phase = "wired" /\ t \notin handlers
    /\ handlers' = handlers \cup {t}
    /\ UNCHANGED <<phase, mode, boots, redisVars, list, chan, wkVars, histVars>>

Serve ==
    /\ phase = "wired" /\ handlers = Types
    /\ phase' = "serving"
    /\ UNCHANGED <<mode, handlers, boots, redisVars, list, chan, wkVars, histVars>>

StopCancel ==
    /\ phase = "serving"
    /\ phase' = "stopping"
    /\ UNCHANGED <<mode, handlers, boots, redisVars, list, chan, wkVars, histVars>>

\* Stop without q.wg.Wait() (mutant).
StopNoWait ==
    /\ phase = "stopping"
    /\ phase' = "drained"
    /\ UNCHANGED <<mode, handlers, boots, redisVars, list, chan, wkVars, histVars>>

\* q.wg.Wait()
StopWait ==
    /\ phase = "stopping" /\ \A w \in Workers : pc[w] = "exited"
    /\ phase' = "drained"
    /\ UNCHANGED <<mode, handlers, boots, redisVars, list, chan, wkVars, histVars>>

\* The process is gone, and with it the channel and what the workers held.
ProcessEnds(reason) ==
    /\ phase' = "down"
    /\ outcome' = [c \in Copies |-> IF c \in Elems(chan) \cup HeldCopies
                                    THEN reason ELSE outcome[c]]
    /\ chan' = <<>>
    /\ pc' = [w \in Workers |-> "off"]
    /\ held' = [w \in Workers |-> NoJob]
    /\ attempt' = [w \in Workers |-> 0]
    /\ sink' = [w \in Workers |-> FALSE]
    /\ handlers' = {}
    /\ UNCHANGED <<mode, boots, redisVars, list, made, runs, recorded>>

Exit  == phase = "drained" /\ ProcessEnds("shutdown")
Crash == phase \notin {"down", "drained"} /\ ProcessEnds("crash")

RedisFails ==
    /\ redisUp /\ outages < MaxOutages
    /\ redisUp' = FALSE /\ outages' = outages + 1
    /\ UNCHANGED <<svcVars, list, chan, wkVars, histVars>>

RedisRecovers ==
    /\ ~redisUp
    /\ redisUp' = TRUE
    /\ UNCHANGED <<svcVars, outages, list, chan, wkVars, histVars>>

-----------------------------------------------------------------------------
\* Enqueue.

Born(cs) == made' = made \cup cs

\* select { case q.inMemory <- job: default: sink(...) }
EnqueueInMemory(c) ==
    \/ /\ Len(chan) < BufferSize
       /\ chan' = Append(chan, c)
       /\ UNCHANGED <<outcome, recorded>>
    \/ /\ Len(chan) >= BufferSize
       /\ SinkIfAny(HasSink, c, 0)
       /\ UNCHANGED chan

PushStored(j) ==
    /\ redisUp
    /\ list' = Append(list, <<j, 1>>)
    /\ Born({<<j, 1>>})
    /\ UNCHANGED <<chan, outcome, recorded>>

\* The reply was lost and the client pushed again.
PushStoredTwice(j) ==
    /\ redisUp
    /\ list' = Append(Append(list, <<j, 1>>), <<j, 2>>)
    /\ Born({<<j, 1>>, <<j, 2>>})
    /\ UNCHANGED <<chan, outcome, recorded>>

\* LPUSH returned an error: fall through to memory, whether or not Redis stored it.
PushFailed(j) ==
    \/ /\ EnqueueInMemory(<<j, 1>>)
       /\ Born({<<j, 1>>})
       /\ UNCHANGED list
    \/ /\ redisUp
       /\ list' = Append(list, <<j, 1>>)
       /\ EnqueueInMemory(<<j, 2>>)
       /\ Born({<<j, 1>>, <<j, 2>>})

Enqueue(j) ==
    /\ Serving /\ <<j, 1>> \notin made
    /\ \/ mode = "redis" /\ (PushStored(j) \/ PushStoredTwice(j) \/ PushFailed(j))
       \/ mode = "memory" /\ EnqueueInMemory(<<j, 1>>) /\ Born({<<j, 1>>}) /\ UNCHANGED list
    /\ UNCHANGED <<svcVars, redisVars, wkVars, runs>>

-----------------------------------------------------------------------------
\* The worker loop.

GoTo(w, label) == pc' = [pc EXCEPT ![w] = label]
Take(w, c)     == held' = [held EXCEPT ![w] = c]

\* The end of an iteration: job, the loop counter and the local sink go out of scope.
Free(w) ==
    /\ held' = [held EXCEPT ![w] = NoJob]
    /\ attempt' = [attempt EXCEPT ![w] = 0]
    /\ sink' = [sink EXCEPT ![w] = FALSE]

\* The loop without its first select (mutant).
LoopHeadBlind(w) ==
    /\ pc[w] = "top"
    /\ GoTo(w, "recv")
    /\ UNCHANGED <<svcVars, redisVars, list, chan, held, attempt, sink, histVars>>

LoopHead(w) ==
    /\ pc[w] = "top"
    /\ GoTo(w, IF CtxDone THEN "exited" ELSE "recv")
    /\ UNCHANGED <<svcVars, redisVars, list, chan, held, attempt, sink, histVars>>

\* BRPOP: the oldest job; or the server removed it and the reply was lost; or nothing.
RecvRedis(w) ==
    /\ pc[w] = "recv" /\ mode = "redis"
    /\ \/ /\ redisUp /\ list # <<>>
          /\ Take(w, Head(list)) /\ list' = Tail(list)
          /\ GoTo(w, "lookup")
          /\ UNCHANGED outcome
       \/ /\ redisUp /\ list # <<>>
          /\ outcome' = [outcome EXCEPT ![Head(list)] = "replylost"]
          /\ list' = Tail(list)
          /\ GoTo(w, "top")
          /\ UNCHANGED held
       \/ /\ ~redisUp \/ list = <<>> \/ CtxDone
          /\ GoTo(w, "top")
          /\ UNCHANGED <<held, list, outcome>>
    /\ UNCHANGED <<svcVars, redisVars, chan, attempt, sink, made, runs, recorded>>

\* The timer case returns instead of going round (mutant).
RecvMemoryOnce(w) ==
    /\ pc[w] = "recv" /\ mode = "memory"
    /\ \/ /\ chan # <<>>
          /\ Take(w, Head(chan)) /\ chan' = Tail(chan)
          /\ GoTo(w, "lookup")
       \/ (CtxDone \/ chan = <<>>) /\ GoTo(w, "exited") /\ UNCHANGED <<held, chan>>
    /\ UNCHANGED <<svcVars, redisVars, list, attempt, sink, histVars>>

\* select over the channel, ctx.Done and a one second timer.
RecvMemory(w) ==
    /\ pc[w] = "recv" /\ mode = "memory"
    /\ \/ /\ chan # <<>>
          /\ Take(w, Head(chan)) /\ chan' = Tail(chan)
          /\ GoTo(w, "lookup")
       \/ CtxDone /\ GoTo(w, "exited") /\ UNCHANGED <<held, chan>>
       \/ chan = <<>> /\ GoTo(w, "top") /\ UNCHANGED <<held, chan>>
    /\ UNCHANGED <<svcVars, redisVars, list, attempt, sink, histVars>>

StartRun(w, n) ==
    /\ attempt' = [attempt EXCEPT ![w] = n]
    /\ runs' = [runs EXCEPT ![held[w]] = @ + 1]
    /\ GoTo(w, "run")

\* Handler and sink are read together under RLock; the sink read here is the one used.
Lookup(w) ==
    /\ pc[w] = "lookup"
    /\ IF TypeOf[held[w][1]] \in handlers
       THEN /\ StartRun(w, 0)
            /\ sink' = [sink EXCEPT ![w] = HasSink]
            /\ UNCHANGED <<held, outcome, recorded>>
       ELSE /\ SinkIfAny(HasSink, held[w], 0)
            /\ Free(w) /\ GoTo(w, "top")
            /\ UNCHANGED runs
    /\ UNCHANGED <<svcVars, redisVars, list, chan, made>>

\* The retry loop without its break (mutant).
HandlerSucceedsNoBreak(w) ==
    /\ pc[w] = "run"
    /\ Settle(held[w], "done")
    /\ GoTo(w, IF attempt[w] < MaxRetry THEN "backoff" ELSE "sink")
    /\ UNCHANGED <<svcVars, redisVars, list, chan, held, attempt, sink, made, runs>>

HandlerSucceeds(w) ==
    /\ pc[w] = "run"
    /\ Settle(held[w], "done")
    /\ Free(w) /\ GoTo(w, "top")
    /\ UNCHANGED <<svcVars, redisVars, list, chan, made, runs>>

\* The loop bound off by one: one attempt too many (mutant).
HandlerFailsLate(w) ==
    /\ pc[w] = "run"
    /\ GoTo(w, IF attempt[w] <= MaxRetry THEN "backoff" ELSE "sink")
    /\ UNCHANGED <<svcVars, redisVars, list, chan, held, attempt, sink, histVars>>

\* A retry that also puts the job back on the channel (mutant).
HandlerFailsRequeues(w) ==
    /\ pc[w] = "run"
    /\ GoTo(w, IF attempt[w] < MaxRetry THEN "backoff" ELSE "sink")
    /\ chan' = IF Len(chan) < BufferSize THEN Append(chan, held[w]) ELSE chan
    /\ UNCHANGED <<svcVars, redisVars, list, held, attempt, sink, histVars>>

\* An error, a panic (recovered into an error) or the 30 minute deadline.
HandlerFails(w) ==
    /\ pc[w] = "run"
    /\ GoTo(w, IF attempt[w] < MaxRetry THEN "backoff" ELSE "sink")
    /\ UNCHANGED <<svcVars, redisVars, list, chan, held, attempt, sink, histVars>>

\* The timer; select may choose it although the context is done as well.
BackoffElapsed(w) ==
    /\ pc[w] = "backoff"
    /\ StartRun(w, attempt[w] + 1)
    /\ UNCHANGED <<svcVars, redisVars, list, chan, held, sink, made, outcome, recorded>>

\* case <-q.ctx.Done(): return -- the job is in nobody's hands any more.
BackoffCancelled(w) ==
    /\ pc[w] = "backoff" /\ CtxDone
    /\ Settle(held[w], "shutdown")
    /\ Free(w) /\ GoTo(w, "exited")
    /\ UNCHANGED <<svcVars, redisVars, list, chan, made, runs>>

CallSink(w) ==
    /\ pc[w] = "sink"
    /\ SinkIfAny(sink[w], held[w], attempt[w] + 1)
    /\ Free(w) /\ GoTo(w, "top")
    /\ UNCHANGED <<svcVars, redisVars, list, chan, made, runs>>

WorkerStep(w) ==
    \/ LoopHead(w) \/ RecvRedis(w) \/ RecvMemory(w) \/ Lookup(w)
    \/ HandlerSucceeds(w) \/ HandlerFails(w)
    \/ BackoffElapsed(w) \/ BackoffCancelled(w) \/ CallSink(w)

-----------------------------------------------------------------------------
Init ==
    /\ phase = "down" /\ mode = "memory" /\ handlers = {} /\ boots = 0
    /\ redisUp = TRUE /\ outages = 0
    /\ list = <<>> /\ chan = <<>>
    /\ pc = [w \in Workers |-> "off"]
    /\ held = [w \in Workers |-> NoJob]
    /\ attempt = [w \in Workers |-> 0]
    /\ sink = [w \in Workers |-> FALSE]
    /\ made = {}
    /\ outcome = [c \in Copies |-> "none"]
    /\ runs = [c \in Copies |-> 0]
    /\ recorded = [c \in Copies |-> 0]

Next ==
    \/ Boot \/ SetDLQ \/ Serve \/ StopCancel \/ StopWait \/ Exit \/ Crash
    \/ \E t \in Types : Register(t)
    \/ RedisFails \/ RedisRecovers
    \/ \E j \in Jobs : Enqueue(j)
    \/ \E w \in Workers : WorkerStep(w)

\* Goroutines that can run do run, a handler returns (its context expires after 30
\* minutes), main() goes on, and Redis comes back.  Nobody has to enqueue, stop or crash.
Fairness ==
    /\ \A w \in Workers : WF_vars(WorkerStep(w))
    /\ WF_vars(SetDLQ) /\ WF_vars(Serve) /\ WF_vars(StopWait) /\ WF_vars(Exit)
    /\ \A t \in Types : WF_vars(Register(t))
    /\ WF_vars(RedisRecovers)

Spec     == Init /\ [][Next]_vars
FairSpec == Spec /\ Fairness

-----------------------------------------------------------------------------
TypeOK ==
    /\ phase \in Phases /\ mode \in {"memory", "redis"}
    /\ handlers \subseteq Types /\ boots \in 0..MaxBoots
    /\ redisUp \in BOOLEAN /\ outages \in 0..MaxOutages
    /\ list \in Seq(Copies) /\ chan \in Seq(Copies)
    /\ pc \in [Workers -> PCs]
    /\ held \in [Workers -> Copies \cup {NoJob}]
    /\ attempt \in [Workers -> 0..MaxRetry]
    /\ sink \in [Workers -> BOOLEAN]
    /\ made \subseteq Copies
    /\ outcome \in [Copies -> Outcomes]
    /\ runs \in [Copies -> Nat] /\ recorded \in [Copies -> Nat]

\* No element occurs twice in the sequence.
NoRepeat(s) == \A i, k \in 1..Len(s) : s[i] = s[k] => i = k

Busy == {"lookup", "run", "backoff", "sink"}

\* Every copy that came to exist is in exactly one place -- the channel, the Redis list,
\* one worker's hands -- until it leaves with an outcome; nothing is handed to two workers,
\* put back after it settled, or forgotten without a reason.
OnePlace ==
    /\ NoRepeat(list) /\ NoRepeat(chan)
    /\ \A u, w \in Workers : held[u] = held[w] /\ held[u] # NoJob => u = w
    /\ \A w \in Workers : held[w] # NoJob <=> pc[w] \in Busy
    /\ Elems(list) \cap Elems(chan) = {}
    /\ HeldCopies \cap (Elems(list) \cup Elems(chan)) = {}
    /\ \A c \in Copies :
         /\ (outcome[c] = "none" /\ c \in made)
                <=> c \in Elems(list) \cup Elems(chan) \cup HeldCopies
         /\ outcome[c] # "none" => c \in made

\* A copy is run at most MaxRetry + 1 times in all, over every worker and restart, and the
\* Attempts written to its FailedJob row is the number of runs it really had: none, when it
\* was turned away at a full buffer or for want of a handler, or the whole retry budget.
RetryBudget ==
    \A c \in Copies :
        /\ runs[c] <= MaxRetry + 1
        /\ outcome[c] = "dead" => /\ recorded[c] = runs[c]
                                  /\ runs[c] \in {0, MaxRetry + 1}
        /\ outcome[c] = "done" => runs[c] > 0

\* main.go: "so exhausted jobs are never silently dropped".  A job that used up its retries
\* was looked up after SetDLQ, so the worker holds a sink; a copy dropped without one was
\* never run.
ExhaustedHasSink ==
    /\ \A w \in Workers : pc[w] \in {"run", "backoff", "sink"} => sink[w]
    /\ \A c \in Copies : outcome[c] = "nosink" => runs[c] = 0

\* Stop returns only when no worker touches a job, and none is touched before the next start.
StoppedIsQuiet ==
    phase \in {"drained", "down"} => HeldCopies = {} /\ \A w \in Workers : pc[w] \in {"off", "exited"}

\* Where the local variables of a worker and the history stand to each other; with the
\* invariants above this is preserved by every step.
WorkerFacts ==
    \A w \in Workers :
        /\ pc[w] = "lookup" => runs[held[w]] = 0
        /\ pc[w] \in {"run", "backoff", "sink"} => runs[held[w]] = attempt[w] + 1
        /\ pc[w] = "backoff" => attempt[w] < MaxRetry
        /\ pc[w] = "sink" => attempt[w] = MaxRetry

HistoryFacts ==
    /\ \A c \in Copies \ HeldCopies : outcome[c] = "none" => runs[c] = 0
    /\ \A j \in Jobs : <<j, 2>> \in made => <<j, 1>> \in made
    /\ handlers # {} => phase \notin {"down", "boot"}

PhaseFacts ==
    /\ phase = "down" => chan = <<>> /\ \A w \in Workers : pc[w] = "off"
    /\ phase # "down" => \A w \in Workers : pc[w] # "off"
    /\ phase = "drained" => \A w \in Workers : pc[w] = "exited"

IInv == /\ TypeOK /\ OnePlace /\ RetryBudget /\ ExhaustedHasSink
        /\ WorkerFacts /\ HistoryFacts /\ PhaseFacts

\* The queue implements JobDelivery: a copy is taken up once, tried within its budget by the
\* one worker that took it, never goes back to waiting, and once it has left the queue
\* nothing more happens to it -- no late run, no second FailedJob row.
StateOf(c) == CASE outcome[c] \in Losses          -> "lost"
                [] outcome[c] \in {"done", "dead"} -> outcome[c]
                [] c \in HeldCopies                -> "active"
                [] c \in Elems(list) \cup Elems(chan) -> "waiting"
                [] OTHER                           -> "absent"

Delivery == INSTANCE JobDelivery WITH
    Items <- Copies, Budget <- MaxRetry + 1,
    state <- [c \in Copies |-> StateOf(c)], tries <- runs

ImplementsDelivery == Delivery!Spec

\* A copy that waits where the current mode's workers look is handled -- run to an outcome
\* or turned away -- unless the process ends first.
InReach(c) == IF mode = "redis" THEN c \in Elems(list) ELSE c \in Elems(chan)

WaitingIsHandled ==
    \A c \in Copies :
        InReach(c) /\ phase # "down" ~> outcome[c] # "none" \/ CtxDone \/ phase = "down"

\* The comment in Enqueue: "Redis unavailable -- fall through to in-memory if possible".
\* A job that fell through is expected to be run like any other.
FallbackIsHandled ==
    \A c \in Copies :
        (mode = "redis" /\ c \in Elems(chan)) ~> (outcome[c] # "none" \/ CtxDone)

\* Shutdown does not hang: Stop returns and the process exits.
StopReturns == (phase = "stopping") ~> (phase = "down")
=============================================================================
