------------------------------ MODULE ToolsProofs ------------------------------
(***************************************************************************)
(* Proofs about ToolWorkflow, for any jobs, orders, tools and limits: the  *)
(* slots of the rate limiters are counted right through every change of    *)
(* the limits, and a workflow that is done has left on record all it did.  *)
(* And about MCTools: the types of workflows and queue together.           *)
(***************************************************************************)
EXTENDS MCTools, FiniteSetTheorems, SequenceTheorems, WellFoundedInduction, TLAPS

Limiters == [cap : Nat, spaced : BOOLEAN, held : Int, resting : BOOLEAN]

\* There is a generation of limits of every tool from the start.
LimitersAre ==
    /\ limiter \in [Tools -> Seq(Limiters)]
    /\ \A t \in Tools : limiter[t] # <<>>

\* The record of a workflow keeps its fields. (What they hold is not said:
\* nothing below depends on which tools a workflow is given.)
IsRecord(r) ==
    r \in [pc : {r.pc}, stages : {r.stages}, todo : {r.todo}, wants : {r.wants},
           holds : {r.holds}, results : {r.results}, err : {r.err}, log : {r.log}]
RunsAre == /\ run = [j \in Jobs |-> run[j]]
           /\ \A j \in Jobs : IsRecord(run[j])

\* How many slots a job holds follows from where it stands; two only for the
\* tools whose wrapper asks again, the second one being the last it wanted.
None(r) == r.holds = <<>>
One(r) == r.holds = <<r.holds[1]>>
Two(r) == r.holds = <<r.holds[1], r.holds[2]>>
AsksAgain(r) == Head(r.todo) \in {"sqlmap", "commix"}
Placed(r) ==
    \/ r.pc \in {"idle", "stage", "tool", "done"} /\ None(r)
    \/ r.pc = "wait" /\ (None(r) \/ (One(r) /\ AsksAgain(r)))
    \/ /\ r.pc = "space"
       /\ \/ One(r) /\ r.holds[1] = r.wants
          \/ Two(r) /\ r.holds[2] = r.wants /\ AsksAgain(r)
    \/ r.pc = "check" /\ One(r)
    \/ r.pc = "exec" /\ (One(r) \/ (Two(r) /\ r.holds[2] = r.wants))
    \/ r.pc \in {"save", "row", "log"} /\ (None(r) \/ One(r))
HoldsAre == \A j \in Jobs : Placed(run[j])

\* What a job wants or holds is a limiter that is there.
Named(r) ==
    Head(r.todo) \in Tools =>
       /\ r.pc \in {"wait", "space"} => r.wants \in DOMAIN limiter[Head(r.todo)]
       /\ \A i \in DOMAIN r.holds : r.holds[i] \in DOMAIN limiter[Head(r.todo)]
NamesAre == \A j \in Jobs : run[j].pc \notin {"idle", "stage", "tool", "done"} => Named(run[j])

\* Every slot is counted once, and none is given beyond the cap.
Counted(l, slots) ==
    /\ l.held = Cardinality(slots)
    /\ l.cap > 0 => l.held <= l.cap
SlotsAreCounted ==
    \A t \in Tools : \A g \in DOMAIN limiter[t] : Counted(limiter[t][g], HeldSlots(t, g))

IInv == LimitersAre /\ RunsAre /\ HoldsAre /\ NamesAre /\ SlotsAreCounted

-----------------------------------------------------------------------------
\* What is finite.
LEMMA SlotsAreFinite ==
    ASSUME NEW t, NEW g
    PROVE  IsFiniteSet(HeldSlots(t, g)) /\ Cardinality(HeldSlots(t, g)) \in Nat
  <1>1. IsFiniteSet(Jobs \X {1, 2})
    <2>1. IsFiniteSet({1, 2})
      <3>1. IsFiniteSet({1})
        BY FS_Singleton
      <3>2. IsFiniteSet({1} \cup {2})
        BY <3>1, FS_AddElement
      <3>3. {1} \cup {2} = {1, 2}
        OBVIOUS
      <3> QED
        BY <3>2, <3>3
    <2> QED
      BY <2>1, FS_Product, ToolsAssumption DEF ToolsAssumption
  <1>2. HeldSlots(t, g) \subseteq Jobs \X {1, 2}
    BY DEF HeldSlots
  <1> QED
    BY <1>1, <1>2, FS_Subset, FS_CardinalityType

\* A limiter is changed in its place: the others of its tool, and of other
\* tools, stay; where there is no such tool, nothing changes.
Changed(t, g, l) == limiter' = [limiter EXCEPT ![t] = [limiter[t] EXCEPT ![g] = l]]
LEMMA OneLimiter ==
    ASSUME LimitersAre, NEW t, NEW g, NEW l,
           t \in Tools => g \in DOMAIN limiter[t] /\ l \in Limiters,
           Changed(t, g, l)
    PROVE  /\ LimitersAre'
           /\ \A u \in Tools : /\ DOMAIN limiter'[u] = DOMAIN limiter[u]
                               /\ Newest(u)' = Newest(u)
           /\ \A u \in Tools : \A h \in DOMAIN limiter[u] :
                 limiter'[u][h] = IF u = t /\ h = g THEN l ELSE limiter[u][h]
  <1>1. CASE t \notin Tools
    <2>1. limiter' = limiter
      BY <1>1 DEF LimitersAre, Changed
    <2> QED
      BY <1>1, <2>1 DEF LimitersAre, Newest
  <1>2. CASE t \in Tools
    <2> DEFINE s == [limiter[t] EXCEPT ![g] = l]
    <2>1. limiter[t] \in Seq(Limiters) /\ g \in 1..Len(limiter[t]) /\ l \in Limiters
      BY <1>2 DEF LimitersAre
    <2>2. /\ s \in Seq(Limiters) /\ Len(s) = Len(limiter[t]) /\ s[g] = l
          /\ \A h \in 1..Len(limiter[t]) : h # g => s[h] = limiter[t][h]
      BY <2>1, ExceptSeq
    <2>3. s # <<>> /\ DOMAIN s = DOMAIN limiter[t]
      BY <2>1, <2>2
    <2>4. /\ limiter'[t] = s
          /\ \A u \in Tools : u # t => limiter'[u] = limiter[u]
      BY <1>2 DEF LimitersAre, Changed
    <2>5. LimitersAre'
      BY <1>2, <2>2, <2>3, <2>4 DEF LimitersAre, Changed
    <2> HIDE DEF s
    <2> QED
      BY <1>2, <2>1, <2>2, <2>3, <2>4, <2>5 DEF Newest
  <1> QED
    BY <1>1, <1>2

LEMMA AppendedOnce ==
    ASSUME NEW a, NEW b
    PROVE  Append(<<a>>, b) = <<a, b>>
  <1> DEFINE p == Append(<<a>>, b)
             q == <<a, b>>
  <1>1. /\ <<a>> \in Seq({a, b}) /\ Len(<<a>>) = 1
        /\ q \in Seq({a, b}) /\ Len(q) = 2 /\ q[1] = a /\ q[2] = b
    OBVIOUS
  <1>2. p \in Seq({a, b}) /\ Len(p) = 2 /\ p[1] = a /\ p[2] = b
    BY <1>1, AppendProperties
  <1> HIDE DEF p, q
  <1>3. \A i \in 1..2 : p[i] = q[i]
    BY <1>1, <1>2
  <1> QED
    BY <1>1, <1>2, <1>3, SeqEqual DEF p, q

LEMMA FirstOnly ==
    ASSUME NEW a, NEW s, NEW b, s = <<a>> \/ s = <<a, b>>
    PROVE  SubSeq(s, 1, 1) = <<a>>
  <1> DEFINE p == SubSeq(s, 1, 1)
             q == <<a>>
  <1>1. q \in Seq({a}) /\ Len(q) = 1 /\ q[1] = a /\ s[1] = a
    OBVIOUS
  <1>2. p \in Seq({a}) /\ Len(p) = 1 /\ p[1] = a
    BY <1>1, SubSeqProperties
  <1> HIDE DEF p, q
  <1>3. \A i \in 1..1 : p[i] = q[i]
    BY <1>1, <1>2
  <1> QED
    BY <1>1, <1>2, <1>3, SeqEqual DEF p, q

\* A limiter that is there is a record.
LEMMA LimiterIs ==
    ASSUME LimitersAre, NEW t \in Tools, NEW g \in DOMAIN limiter[t]
    PROVE  limiter[t][g] \in Limiters
  BY DEF LimitersAre

LEMMA FreedIs ==
    ASSUME NEW l \in Limiters
    PROVE  Freed(l) \in Limiters /\ Freed(l).cap = l.cap /\ Freed(l).held = l.held - 1
  <1>1. PICK b \in BOOLEAN : b = l.spaced
    BY DEF Limiters
  <1>2. PICK h \in Int : h = l.held - 1
    BY DEF Limiters
  <1>3. Freed(l) = [l EXCEPT !.held = h, !.resting = b]
    BY <1>1, <1>2 DEF Freed
  <1>4. [l EXCEPT !.held = h, !.resting = b] \in Limiters
    BY DEF Limiters
  <1>5. Freed(l).cap = l.cap /\ Freed(l).held = l.held - 1
    BY <1>2, <1>3 DEF Limiters
  <1> QED
    BY <1>3, <1>4, <1>5

\* The records of the jobs.
LEMMA OneRun ==
    ASSUME RunsAre, NEW j \in Jobs, NEW r, IsRecord(r), run' = [run EXCEPT ![j] = r]
    PROVE  RunsAre' /\ run'[j] = r /\ \A k \in Jobs \ {j} : run'[k] = run[k]
  BY DEF RunsAre

\* Slots are the same when the job that moves keeps what it holds.
LEMMA SameSlots ==
    ASSUME NEW j \in Jobs, \A k \in Jobs \ {j} : run'[k] = run[k],
           run'[j].holds = run[j].holds,
           run'[j].todo = run[j].todo \/ run[j].holds = <<>>,
           NEW t, NEW g
    PROVE  HeldSlots(t, g)' = HeldSlots(t, g)
  <1>1. ASSUME NEW slot \in Jobs \X {1, 2}
        PROVE  slot \in HeldSlots(t, g)' <=> slot \in HeldSlots(t, g)
    <2>0. slot[1] \in Jobs
      OBVIOUS
    <2>1. CASE slot[1] # j
      BY <2>0, <2>1 DEF HeldSlots, Current
    <2>2. CASE slot[1] = j /\ run[j].holds = <<>>
      BY <2>0, <2>2 DEF HeldSlots
    <2>3. CASE slot[1] = j /\ run'[j].todo = run[j].todo
      BY <2>0, <2>3 DEF HeldSlots, Current
    <2> QED
      BY <2>1, <2>2, <2>3
  <1> QED
    BY <1>1, HeldSlots(t, g) \subseteq Jobs \X {1, 2}, HeldSlots(t, g)' \subseteq Jobs \X {1, 2}
       DEF HeldSlots

\* A job takes slot g of the tool it runs as its n-th: it is one more of that
\* limiter's slots, and no other's.
LEMMA TakenSlot ==
    ASSUME NEW j \in Jobs, NEW n \in {1, 2}, NEW c, Current(j) = c, NEW g,
           \A k \in Jobs \ {j} : run'[k] = run[k],
           run'[j].todo = run[j].todo,
           n \in DOMAIN run'[j].holds, run'[j].holds[n] = g, n \notin DOMAIN run[j].holds,
           \A i \in {1, 2} \ {n} :
              /\ i \in DOMAIN run'[j].holds <=> i \in DOMAIN run[j].holds
              /\ i \in DOMAIN run[j].holds => run'[j].holds[i] = run[j].holds[i]
    PROVE  /\ Cardinality(HeldSlots(c, g)') = Cardinality(HeldSlots(c, g)) + 1
           /\ \A t, h : ~(t = c /\ h = g) => HeldSlots(t, h)' = HeldSlots(t, h)
  <1>0. Current(j)' = c
    BY DEF Current
  <1>1. ASSUME NEW slot \in Jobs \X {1, 2}, NEW t, NEW h, slot # <<j, n>>
        PROVE  slot \in HeldSlots(t, h)' <=> slot \in HeldSlots(t, h)
    <2>0. slot[1] \in Jobs /\ slot[2] \in {1, 2} /\ slot = <<slot[1], slot[2]>>
      OBVIOUS
    <2>1. CASE slot[1] # j
      BY <2>0, <2>1 DEF HeldSlots, Current
    <2>2. CASE slot[1] = j /\ slot[2] # n
      BY <2>0, <2>2 DEF HeldSlots, Current
    <2> QED
      BY <1>1, <2>0, <2>1, <2>2
  <1>2. \A t, h : /\ HeldSlots(t, h) \subseteq Jobs \X {1, 2}
                  /\ HeldSlots(t, h)' \subseteq Jobs \X {1, 2}
    BY DEF HeldSlots
  <1>3. \A t, h : <<j, n>> \notin HeldSlots(t, h)
    BY DEF HeldSlots
  <1>4. \A t, h : <<j, n>> \in HeldSlots(t, h)' <=> (t = c /\ h = g)
    BY <1>0 DEF HeldSlots
  <1>5. HeldSlots(c, g)' = HeldSlots(c, g) \cup {<<j, n>>}
    BY <1>0, <1>1, <1>2, <1>4
  <1>6. ASSUME NEW t, NEW h, ~(t = c /\ h = g)
        PROVE  HeldSlots(t, h)' = HeldSlots(t, h)
    <2>1. \A slot \in Jobs \X {1, 2} : slot \in HeldSlots(t, h)' <=> slot \in HeldSlots(t, h)
      BY <1>1, <1>3, <1>4, <1>6
    <2> QED
      BY <1>2, <2>1
  <1>7. IsFiniteSet(HeldSlots(c, g)) /\ <<j, n>> \notin HeldSlots(c, g)
    BY <1>3, SlotsAreFinite
  <1>8. Cardinality(HeldSlots(c, g) \cup {<<j, n>>}) = Cardinality(HeldSlots(c, g)) + 1
    BY <1>7, FS_AddElement
  <1> QED
    BY <1>5, <1>6, <1>8

\* A job gives back its n-th slot, g of the tool it runs, and holds no other or
\* goes on with that tool: it is one less of that limiter's slots, and no other's.
LEMMA FreedSlot ==
    ASSUME NEW j \in Jobs, NEW n \in {1, 2}, NEW c, Current(j) = c, NEW g,
           \A k \in Jobs \ {j} : run'[k] = run[k],
           run'[j].todo = run[j].todo \/ run'[j].holds = <<>>,
           n \in DOMAIN run[j].holds, run[j].holds[n] = g, n \notin DOMAIN run'[j].holds,
           \A i \in {1, 2} \ {n} :
              /\ i \in DOMAIN run'[j].holds <=> i \in DOMAIN run[j].holds
              /\ i \in DOMAIN run[j].holds => run'[j].holds[i] = run[j].holds[i]
    PROVE  /\ Cardinality(HeldSlots(c, g)') = Cardinality(HeldSlots(c, g)) - 1
           /\ \A t, h : ~(t = c /\ h = g) => HeldSlots(t, h)' = HeldSlots(t, h)
  <1>1. ASSUME NEW slot \in Jobs \X {1, 2}, NEW t, NEW h, slot # <<j, n>>
        PROVE  slot \in HeldSlots(t, h)' <=> slot \in HeldSlots(t, h)
    <2>0. slot[1] \in Jobs /\ slot[2] \in {1, 2} /\ slot = <<slot[1], slot[2]>>
      OBVIOUS
    <2>1. CASE slot[1] # j
      BY <2>0, <2>1 DEF HeldSlots, Current
    <2>2. CASE slot[1] = j /\ slot[2] # n /\ run'[j].todo = run[j].todo
      BY <2>0, <2>2 DEF HeldSlots, Current
    <2>3. CASE slot[1] = j /\ slot[2] # n /\ run'[j].holds = <<>>
      <3>1. slot[2] \notin DOMAIN run'[j].holds /\ slot[2] \notin DOMAIN run[j].holds
        BY <2>0, <2>3
      <3> QED
        BY <2>3, <3>1 DEF HeldSlots
    <2> QED
      BY <1>1, <2>0, <2>1, <2>2, <2>3
  <1>2. \A t, h : /\ HeldSlots(t, h) \subseteq Jobs \X {1, 2}
                  /\ HeldSlots(t, h)' \subseteq Jobs \X {1, 2}
    BY DEF HeldSlots
  <1>3. \A t, h : <<j, n>> \notin HeldSlots(t, h)'
    BY DEF HeldSlots
  <1>4. \A t, h : <<j, n>> \in HeldSlots(t, h) <=> (t = c /\ h = g)
    BY DEF HeldSlots
  <1>5. HeldSlots(c, g)' = HeldSlots(c, g) \ {<<j, n>>}
    <2>1. \A slot \in Jobs \X {1, 2} :
             slot \in HeldSlots(c, g)' <=> (slot \in HeldSlots(c, g) /\ slot # <<j, n>>)
      BY <1>1, <1>3
    <2> QED
      BY <1>2, <2>1
  <1>6. ASSUME NEW t, NEW h, ~(t = c /\ h = g)
        PROVE  HeldSlots(t, h)' = HeldSlots(t, h)
    <2>1. \A slot \in Jobs \X {1, 2} : slot \in HeldSlots(t, h)' <=> slot \in HeldSlots(t, h)
      BY <1>1, <1>3, <1>4, <1>6
    <2> QED
      BY <1>2, <2>1
  <1>7. IsFiniteSet(HeldSlots(c, g))
    BY SlotsAreFinite
  <1>8. Cardinality(HeldSlots(c, g) \ {<<j, n>>}) = Cardinality(HeldSlots(c, g)) - 1
    <2>1. <<j, n>> \in HeldSlots(c, g)
      BY <1>4
    <2> QED
      BY <1>7, <2>1, FS_RemoveElement
  <1> QED
    BY <1>5, <1>6, <1>8

-----------------------------------------------------------------------------
\* A step of a job that takes no slot and gives none back.
LEMMA QuietStep ==
    ASSUME IInv, NEW j \in Jobs, NEW n, IsRecord(n), run' = [run EXCEPT ![j] = n],
           limiter' = limiter,
           n.holds = run[j].holds, n.todo = run[j].todo \/ run[j].holds = <<>>,
           Placed(n), n.pc \notin {"idle", "stage", "tool", "done"} => Named(n)
    PROVE  IInv'
  <1>1. RunsAre' /\ run'[j] = n /\ \A k \in Jobs \ {j} : run'[k] = run[k]
    BY OneRun DEF IInv
  <1>2. LimitersAre'
    BY DEF IInv, LimitersAre
  <1>3. HoldsAre'
    BY <1>1 DEF IInv, HoldsAre, Placed, None, One, Two, AsksAgain
  <1>4. NamesAre'
    BY <1>1 DEF IInv, NamesAre, Named
  <1>5. SlotsAreCounted'
    <2>1. \A t, g : HeldSlots(t, g)' = HeldSlots(t, g)
      BY <1>1, SameSlots
    <2> QED
      BY <2>1 DEF IInv, SlotsAreCounted, Counted
  <1> QED
    BY <1>1, <1>2, <1>3, <1>4, <1>5 DEF IInv

\* What is known of the job that moves.
LEMMA JobIs ==
    ASSUME IInv, NEW j \in Jobs
    PROVE  /\ IsRecord(run[j]) /\ Placed(run[j])
           /\ run[j].pc \notin {"idle", "stage", "tool", "done"} => Named(run[j])
           /\ run = [k \in Jobs |-> run[k]]
  BY DEF IInv, RunsAre, HoldsAre, NamesAre

LEMMA RunWorkflowKeeps ==
    ASSUME IInv, NEW j \in Jobs, RunWorkflow(j)
    PROVE  IInv'
  <1> DEFINE r == run[j]
             n == [r EXCEPT !.pc = "stage", !.stages = workflowStages[order[j].workflow]]
  <1>1. limiter' = limiter /\ run' = [run EXCEPT ![j] = n]
    BY JobIs DEF RunWorkflow, OnlyRun
  <1>2. r.pc = "idle" /\ None(r)
    BY JobIs DEF RunWorkflow, Placed
  <1>3. IsRecord(n) /\ n.pc = "stage" /\ n.holds = r.holds
    BY JobIs DEF IsRecord
  <1>4. Placed(n)
    BY <1>2, <1>3 DEF Placed, None
  <1> QED
    BY <1>1, <1>2, <1>3, <1>4, QuietStep DEF None

LEMMA NextStageKeeps ==
    ASSUME IInv, NEW j \in Jobs, NextStage(j)
    PROVE  IInv'
  <1> DEFINE r == run[j]
  <1>1. r.pc = "stage" /\ None(r) /\ limiter' = limiter
    BY JobIs DEF NextStage, OnlyRun, Placed
  <1>2. \E n : /\ IsRecord(n) /\ run' = [run EXCEPT ![j] = n]
               /\ n.pc \in {"stage", "tool", "done"} /\ n.holds = r.holds
    <2> DEFINE category == Head(r.stages)
               ready == InstalledTools(workflowToolOrder[category])
               chosen == IF RunAll(order[j].workflow, category) THEN ready
                         ELSE SubSeq(ready, 1, 1)
               over == [r EXCEPT !.pc = "done"]
               skip == [r EXCEPT !.stages = Tail(@), !.log = Append(@, Skipped(category))]
               takes == [r EXCEPT !.pc = "tool", !.todo = chosen, !.stages = Tail(@)]
    <2>1. run' \in {[run EXCEPT ![j] = n] : n \in {over, skip, takes}}
      BY <1>1, JobIs DEF NextStage
    <2> HIDE DEF chosen, category
    <2>2. IsRecord(over) /\ over.pc = "done" /\ over.holds = r.holds
      BY JobIs DEF IsRecord
    <2>3. IsRecord(skip) /\ skip.pc = r.pc /\ skip.holds = r.holds
      BY JobIs DEF IsRecord
    <2>4. IsRecord(takes) /\ takes.pc = "tool" /\ takes.holds = r.holds
      BY JobIs DEF IsRecord
    <2> HIDE DEF over, skip, takes
    <2> QED
      BY <1>1, <2>1, <2>2, <2>3, <2>4
  <1>3. PICK n : /\ IsRecord(n) /\ run' = [run EXCEPT ![j] = n]
                 /\ n.pc \in {"stage", "tool", "done"} /\ n.holds = r.holds
    BY <1>2
  <1>4. Placed(n)
    BY <1>1, <1>3 DEF Placed, None
  <1> QED
    BY <1>1, <1>3, <1>4, QuietStep DEF None

\* A generation of limits that is the newest is there.
LEMMA NewestIsThere ==
    ASSUME LimitersAre, NEW t \in Tools
    PROVE  Newest(t) \in DOMAIN limiter[t]
  <1>1. limiter[t] \in Seq(Limiters) /\ limiter[t] # <<>>
    BY DEF LimitersAre
  <1> QED
    BY <1>1, EmptySeq, LenProperties DEF Newest

LEMMA NextToolKeeps ==
    ASSUME IInv, NEW j \in Jobs, NextTool(j)
    PROVE  IInv'
  <1> DEFINE r == run[j]
             t == Current(j)
             back == [r EXCEPT !.pc = "stage"]
             unfit == [r EXCEPT !.pc = "row", !.results = <<>>, !.err = FALSE]
             asks == [r EXCEPT !.pc = "wait", !.wants = Newest(t)]
  <1>1. r.pc = "tool" /\ r.holds = <<>> /\ limiter' = limiter
    BY JobIs DEF NextTool, OnlyRun, Placed, None
  <1>2. run' \in {[run EXCEPT ![j] = n] : n \in {back, unfit, asks}}
    BY <1>1, JobIs DEF NextTool
  <1>3. /\ IsRecord(back) /\ back.pc = "stage" /\ back.holds = <<>> /\ back.todo = r.todo
        /\ IsRecord(unfit) /\ unfit.pc = "row" /\ unfit.holds = <<>> /\ unfit.todo = r.todo
        /\ IsRecord(asks) /\ asks.pc = "wait" /\ asks.holds = <<>> /\ asks.todo = r.todo
        /\ asks.wants = Newest(t)
    BY <1>1, JobIs DEF IsRecord
  <1>4. t = Head(r.todo)
    BY DEF Current
  <1>5. t \in Tools => Newest(t) \in DOMAIN limiter[t]
    BY NewestIsThere DEF IInv
  <1> HIDE DEF t, back, unfit, asks
  <1>6. PICK n \in {back, unfit, asks} : run' = [run EXCEPT ![j] = n]
    BY <1>2
  <1>7. IsRecord(n) /\ n.holds = r.holds /\ n.todo = r.todo
    BY <1>1, <1>3
  <1>8. Placed(n)
    BY <1>3 DEF Placed, None
  <1>9. n.pc # "stage" => Named(n)
    BY <1>3, <1>4, <1>5 DEF Named
  <1> QED
    BY <1>1, <1>6, <1>7, <1>8, <1>9, QuietStep

LEMMA PassSpacingKeeps ==
    ASSUME IInv, NEW j \in Jobs, PassSpacing(j)
    PROVE  IInv'
  <1> DEFINE r == run[j]
             next == CASE Current(j) = "jwt_tool" /\ ~order[j].token -> "row"
                       [] Len(r.holds) = 2 -> "exec"
                       [] OTHER -> "check"
             n == [r EXCEPT !.pc = next, !.results = <<>>, !.err = FALSE]
  <1>0. /\ r.pc = "space" /\ limiter' = limiter
        /\ run' = [run EXCEPT ![j].pc = next, ![j].results = <<>>, ![j].err = FALSE]
    BY DEF PassSpacing, OnlyRun
  <1> HIDE DEF next
  <1>1. r.pc = "space" /\ limiter' = limiter /\ run' = [run EXCEPT ![j] = n]
    BY <1>0, JobIs
  <1>2. Named(r) /\ \/ One(r) /\ r.holds[1] = r.wants
                    \/ Two(r) /\ r.holds[2] = r.wants /\ AsksAgain(r)
    BY <1>1, JobIs DEF Placed
  <1>3. /\ One(r) => Len(r.holds) = 1 /\ next \in {"row", "check"}
        /\ Two(r) /\ AsksAgain(r) => next = "exec"
    <2>1. One(r) => Len(r.holds) = 1
      BY DEF One
    <2>2. Two(r) => Len(r.holds) = 2
      BY DEF Two
    <2>3. AsksAgain(r) => Current(j) # "jwt_tool"
      BY DEF AsksAgain, Current
    <2> QED
      BY <2>1, <2>2, <2>3 DEF next
  <1>4. /\ IsRecord(n) /\ n.pc = next /\ n.holds = r.holds /\ n.todo = r.todo
        /\ n.wants = r.wants
    BY JobIs DEF IsRecord
  <1> HIDE DEF n
  <1>5. Placed(n) /\ Named(n)
    BY <1>2, <1>3, <1>4 DEF Placed, None, One, Two, Named
  <1> QED
    BY <1>1, <1>4, <1>5, QuietStep

LEMMA CheckToolKeeps ==
    ASSUME IInv, NEW j \in Jobs, CheckTool(j)
    PROVE  IInv'
  <1> DEFINE r == run[j]
             t == Current(j)
             gone == [r EXCEPT !.pc = AfterRun(t), !.err = TRUE]
             again == [r EXCEPT !.pc = "wait", !.wants = Newest(t)]
             goes == [r EXCEPT !.pc = "exec"]
  <1>1. /\ r.pc = "check" /\ limiter' = limiter
        /\ \/ run' = [run EXCEPT ![j] = gone]
           \/ run' = [run EXCEPT ![j] = again] /\ t \in {"sqlmap", "commix"}
           \/ run' = [run EXCEPT ![j] = goes]
    <2>1. /\ r.pc = "check" /\ limiter' = limiter
          /\ \/ run' = [run EXCEPT ![j].pc = AfterRun(t), ![j].err = TRUE]
             \/ /\ run' = [run EXCEPT ![j].pc = "wait", ![j].wants = Newest(t)]
                /\ t \in {"sqlmap", "commix"}
             \/ run' = [run EXCEPT ![j].pc = "exec"]
      BY DEF CheckTool, OnlyRun
    <2> QED
      BY <2>1, JobIs
  <1>2. One(r) /\ Named(r)
    BY <1>1, JobIs DEF Placed
  <1>3. AfterRun(t) \in {"save", "row"}
    BY DEF AfterRun
  <1>4. /\ IsRecord(gone) /\ gone.pc \in {"save", "row"}
        /\ gone.holds = r.holds /\ gone.todo = r.todo
        /\ IsRecord(again) /\ again.pc = "wait" /\ again.wants = Newest(t)
        /\ again.holds = r.holds /\ again.todo = r.todo
        /\ IsRecord(goes) /\ goes.pc = "exec" /\ goes.holds = r.holds /\ goes.todo = r.todo
    BY <1>3, JobIs DEF IsRecord
  <1>5. t \in Tools => Newest(t) \in DOMAIN limiter[t]
    BY NewestIsThere DEF IInv
  <1>6. t = Head(r.todo)
    BY DEF Current
  <1> HIDE DEF t, gone, again, goes
  <1>7. PICK n : /\ run' = [run EXCEPT ![j] = n]
                 /\ n \in {gone, goes} \/ (n = again /\ t \in {"sqlmap", "commix"})
    BY <1>1
  <1>8. Placed(n) /\ Named(n)
    BY <1>2, <1>4, <1>5, <1>6, <1>7 DEF Placed, None, One, Two, AsksAgain, Named
  <1> QED
    BY <1>1, <1>4, <1>7, <1>8, QuietStep

\* Saving and the row of results leave the slots alone.
LEMMA StoringKeeps ==
    ASSUME IInv, NEW j \in Jobs, SaveAssets(j) \/ PersistRow(j)
    PROVE  IInv'
  <1>1. PICK next \in {"save", "row", "log"} :
           /\ run[j].pc \in {"save", "row"} /\ limiter' = limiter
           /\ run' = [run EXCEPT ![j].pc = next]
    BY DEF SaveAssets, PersistRow, registryVars
  <1> DEFINE n == [run[j] EXCEPT !.pc = next]
  <1>2. /\ run' = [run EXCEPT ![j] = n]
        /\ IsRecord(n) /\ n.pc = next /\ n.holds = run[j].holds /\ n.todo = run[j].todo
    BY <1>1, JobIs DEF IsRecord
  <1> HIDE DEF n
  <1>3. (None(run[j]) \/ One(run[j])) /\ Named(run[j])
    BY <1>1, JobIs DEF Placed
  <1>4. Placed(n) /\ Named(n)
    BY <1>2, <1>3 DEF Placed, None, One, Named
  <1> QED
    BY <1>1, <1>2, <1>4, QuietStep

\* A step of a job that changes one limiter of the tool it runs: what is left
\* to show is how the job stands after it, and that this limiter is counted.
Goes(j, n) ==
    /\ IsRecord(n) /\ run' = [run EXCEPT ![j] = n] /\ Placed(n)
    /\ n.pc \notin {"idle", "stage", "tool", "done"} => Named(n)
Slot(c, g, l) ==
    /\ c \in Tools => g \in DOMAIN limiter[c] /\ l \in Limiters
    /\ Changed(c, g, l)
    /\ c \in Tools => Counted(l, HeldSlots(c, g)')
    /\ \A t, h : ~(t = c /\ h = g) => HeldSlots(t, h)' = HeldSlots(t, h)
LEMMA SlotStep ==
    ASSUME IInv, NEW j \in Jobs, NEW n, Goes(j, n), NEW c, NEW g, NEW l, Slot(c, g, l)
    PROVE  IInv'
  <1> USE DEF Goes, Slot
  <1>1. RunsAre' /\ run'[j] = n /\ \A k \in Jobs \ {j} : run'[k] = run[k]
    BY OneRun DEF IInv
  <1>0. LimitersAre
    BY DEF IInv
  <1>2. /\ LimitersAre'
        /\ \A u \in Tools : DOMAIN limiter'[u] = DOMAIN limiter[u]
        /\ \A u \in Tools : \A h \in DOMAIN limiter[u] :
              limiter'[u][h] = IF u = c /\ h = g THEN l ELSE limiter[u][h]
    BY <1>0, OneLimiter
  <1>3. HoldsAre'
    BY <1>1 DEF IInv, HoldsAre, Placed, None, One, Two, AsksAgain
  <1>4. NamesAre'
    BY <1>1, <1>2 DEF IInv, NamesAre, Named
  <1>5. SlotsAreCounted'
    <2> SUFFICES ASSUME NEW t \in Tools, NEW h \in DOMAIN limiter'[t]
                 PROVE  Counted(limiter'[t][h], HeldSlots(t, h)')
      BY DEF SlotsAreCounted, Counted
    <2>1. CASE t = c /\ h = g
      BY <1>2, <2>1
    <2>2. CASE ~(t = c /\ h = g)
      <3>1. h \in DOMAIN limiter[t] /\ limiter'[t][h] = limiter[t][h]
        BY <1>2, <2>2
      <3>2. HeldSlots(t, h)' = HeldSlots(t, h)
        BY <2>2
      <3> QED
        BY <3>1, <3>2 DEF IInv, SlotsAreCounted
    <2> QED
      BY <2>1, <2>2
  <1> QED
    BY <1>1, <1>2, <1>3, <1>4, <1>5 DEF IInv

LEMMA AcquireSlotKeeps ==
    ASSUME IInv, NEW j \in Jobs, AcquireSlot(j)
    PROVE  IInv'
  <1> DEFINE r == run[j]
  <1>0. PICK c, w, i : c = Current(j) /\ w = r.wants /\ i = Len(r.holds) + 1
    OBVIOUS
  <1> DEFINE l == [limiter[c][w] EXCEPT !.held = @ + 1]
             n == [r EXCEPT !.pc = "space", !.holds = Append(@, w)]
  <1>1. /\ r.pc = "wait" /\ HasRoom(limiter[c][w])
        /\ Changed(c, w, l)
        /\ run' = [run EXCEPT ![j] = n]
    BY <1>0, JobIs DEF AcquireSlot, Changed
  <1>2. Named(r) /\ (None(r) \/ (One(r) /\ AsksAgain(r)))
    BY <1>1, JobIs DEF Placed
  <1>3. c = Head(r.todo)
    BY <1>0 DEF Current
  <1>4. c \in Tools => w \in DOMAIN limiter[c] /\ limiter[c][w] \in Limiters
    BY <1>0, <1>1, <1>2, <1>3, LimiterIs DEF Named, IInv
  <1>5. /\ IsRecord(n) /\ n.pc = "space" /\ n.holds = Append(r.holds, w)
        /\ n.todo = r.todo /\ n.wants = w
    BY <1>0, JobIs DEF IsRecord
  <1> HIDE DEF n
  <1>6. \/ None(r) /\ i = 1 /\ n.holds = <<w>>
        \/ One(r) /\ AsksAgain(r) /\ i = 2 /\ n.holds = <<r.holds[1], w>>
    <2>1. CASE None(r)
      BY <1>0, <1>5, <2>1 DEF None
    <2>2. CASE One(r) /\ AsksAgain(r)
      <3>1. PICK a : r.holds = <<a>> /\ a = r.holds[1]
        BY <2>2 DEF One
      <3>2. Len(<<a>>) = 1
        OBVIOUS
      <3>3. Append(<<a>>, w) = <<a, w>>
        BY AppendedOnce
      <3> QED
        BY <1>0, <1>5, <2>2, <3>1, <3>2, <3>3
    <2> QED
      BY <1>2, <2>1, <2>2
  <1>7. Placed(n) /\ Named(n)
    BY <1>2, <1>3, <1>4, <1>5, <1>6 DEF Placed, None, One, Two, AsksAgain, Named
  <1>8. /\ Cardinality(HeldSlots(c, w)') = Cardinality(HeldSlots(c, w)) + 1
        /\ \A t, h : ~(t = c /\ h = w) => HeldSlots(t, h)' = HeldSlots(t, h)
    <2>1. run'[j] = n /\ \A k \in Jobs \ {j} : run'[k] = run[k]
      BY <1>1, <1>5, OneRun DEF IInv
    <2>2. i \in {1, 2} /\ i \in DOMAIN n.holds /\ n.holds[i] = w /\ i \notin DOMAIN r.holds
      BY <1>6 DEF None, One
    <2>3. \A k \in {1, 2} \ {i} : /\ k \in DOMAIN n.holds <=> k \in DOMAIN r.holds
                                  /\ k \in DOMAIN r.holds => n.holds[k] = r.holds[k]
      <3>1. CASE None(r) /\ i = 1 /\ n.holds = <<w>>
        BY <3>1 DEF None
      <3>2. CASE One(r) /\ i = 2 /\ n.holds = <<r.holds[1], w>>
        <4>1. PICK a : r.holds = <<a>> /\ n.holds = <<a, w>>
          BY <3>2 DEF One
        <4> QED
          BY <3>2, <4>1
      <3> QED
        BY <1>6, <3>1, <3>2
    <2>4. Current(j) = c /\ run'[j].todo = run[j].todo
      BY <1>0, <1>5, <2>1
    <2>5. /\ i \in DOMAIN run'[j].holds /\ run'[j].holds[i] = w /\ i \notin DOMAIN run[j].holds
          /\ \A k \in {1, 2} \ {i} :
               /\ k \in DOMAIN run'[j].holds <=> k \in DOMAIN run[j].holds
               /\ k \in DOMAIN run[j].holds => run'[j].holds[k] = run[j].holds[k]
      BY <2>1, <2>2, <2>3
    <2>6. i \in {1, 2} /\ \A k \in Jobs \ {j} : run'[k] = run[k]
      BY <2>1, <2>2
    <2> HIDE DEF l, n, r
    <2> QED
      BY <2>4, <2>5, <2>6, TakenSlot
  <1>9. c \in Tools => l \in Limiters /\ Counted(l, HeldSlots(c, w)')
    <2> SUFFICES ASSUME c \in Tools
                 PROVE  l \in Limiters /\ Counted(l, HeldSlots(c, w)')
      OBVIOUS
    <2>1. Counted(limiter[c][w], HeldSlots(c, w))
      BY <1>4 DEF IInv, SlotsAreCounted
    <2>2. /\ l \in Limiters /\ l.cap = limiter[c][w].cap
          /\ l.held = limiter[c][w].held + 1
      BY <1>4 DEF Limiters
    <2> QED
      BY <1>1, <1>4, <1>8, <2>1, <2>2 DEF Counted, HasRoom, Limiters
  <1> HIDE DEF l
  <1>10. Goes(j, n)
    BY <1>1, <1>5, <1>7 DEF Goes
  <1>11. Slot(c, w, l)
    BY <1>1, <1>4, <1>8, <1>9 DEF Slot
  <1> QED
    BY <1>10, <1>11, SlotStep

\* A slot is given back, and the rest of its limiter starts.
LEMMA GivenBack ==
    ASSUME IInv, NEW j \in Jobs, NEW n, IsRecord(n), run' = [run EXCEPT ![j] = n],
           NEW c, c = Current(j), NEW g, NEW i \in {1, 2}, Changed(c, g, Freed(limiter[c][g])),
           Placed(n), n.pc \notin {"idle", "stage", "tool", "done"} => Named(n),
           Named(run[j]), n.todo = run[j].todo \/ n.holds = <<>>,
           i \in DOMAIN run[j].holds, run[j].holds[i] = g, i \notin DOMAIN n.holds,
           \A k \in {1, 2} \ {i} : /\ k \in DOMAIN n.holds <=> k \in DOMAIN run[j].holds
                                   /\ k \in DOMAIN run[j].holds => n.holds[k] = run[j].holds[k]
    PROVE  IInv'
  <1> DEFINE l == Freed(limiter[c][g])
  <1>1. run'[j] = n /\ \A k \in Jobs \ {j} : run'[k] = run[k]
    BY OneRun DEF IInv
  <1>2. c \in Tools => g \in DOMAIN limiter[c] /\ limiter[c][g] \in Limiters
    BY LimiterIs DEF Named, IInv, Current
  <1>3. /\ Cardinality(HeldSlots(c, g)') = Cardinality(HeldSlots(c, g)) - 1
        /\ \A t, h : ~(t = c /\ h = g) => HeldSlots(t, h)' = HeldSlots(t, h)
    BY <1>1, FreedSlot
  <1>4. c \in Tools => l \in Limiters /\ Counted(l, HeldSlots(c, g)')
    <2> SUFFICES ASSUME c \in Tools
                 PROVE  l \in Limiters /\ Counted(l, HeldSlots(c, g)')
      OBVIOUS
    <2>1. Counted(limiter[c][g], HeldSlots(c, g))
      BY <1>2 DEF IInv, SlotsAreCounted
    <2>2. /\ l \in Limiters /\ l.cap = limiter[c][g].cap
          /\ l.held = limiter[c][g].held - 1
      BY <1>2, FreedIs
    <2> QED
      BY <1>2, <1>3, <2>1, <2>2 DEF Counted, Limiters
  <1>5. Changed(c, g, l)
    OBVIOUS
  <1> HIDE DEF l
  <1>6. Goes(j, n)
    BY DEF Goes
  <1>7. Slot(c, g, l)
    BY <1>2, <1>3, <1>4, <1>5 DEF Slot
  <1> QED
    BY <1>6, <1>7, SlotStep

LEMMA RunBinaryKeeps ==
    ASSUME IInv, NEW j \in Jobs, RunBinary(j)
    PROVE  IInv'
  <1> DEFINE r == run[j]
  <1>0. PICK c : c = Current(j)
    OBVIOUS
  <1>1. PICK out :
           LET got == Run(c, order[j].target, order[j].creds, out, 9)
           IN /\ r.pc = "exec"
              /\ run' = [run EXCEPT ![j].pc = AfterRun(c), ![j].holds = SubSeq(@, 1, 1),
                             ![j].results = Report(c, got),
                             ![j].err = c \in Members("cloud") /\ CloudFails(c, got)]
              /\ limiter' = IF Len(r.holds) = 2
                            THEN [limiter EXCEPT ![c][r.wants] = Freed(@)] ELSE limiter
    BY <1>0 DEF RunBinary
  <1> DEFINE got == Run(c, order[j].target, order[j].creds, out, 9)
             found == Report(c, got)
             failed == c \in Members("cloud") /\ CloudFails(c, got)
             n == [r EXCEPT !.pc = AfterRun(c), !.holds = SubSeq(@, 1, 1),
                            !.results = found, !.err = failed]
  <1> HIDE DEF found, failed
  <1>2. /\ run' = [run EXCEPT ![j] = n] /\ IsRecord(n) /\ n.pc = AfterRun(c)
        /\ n.holds = SubSeq(r.holds, 1, 1) /\ n.todo = r.todo
    BY <1>1, JobIs DEF IsRecord, found, failed
  <1>3. AfterRun(c) \in {"save", "row"}
    BY DEF AfterRun
  <1>4. Named(r) /\ (One(r) \/ (Two(r) /\ r.holds[2] = r.wants))
    BY <1>1, JobIs DEF Placed
  <1> HIDE DEF n
  <1>5. n.holds = <<r.holds[1]>>
    <2>1. PICK a, b : r.holds = <<a>> \/ r.holds = <<a, b>>
      BY <1>4 DEF One, Two
    <2>2. r.holds[1] = a
      BY <2>1
    <2> QED
      BY <1>2, <2>1, <2>2, FirstOnly
  <1>6. Placed(n) /\ Named(n)
    <2>1. One(n)
      BY <1>5 DEF One
    <2>2. DOMAIN n.holds = {1} /\ 1 \in DOMAIN r.holds /\ n.holds[1] = r.holds[1]
      BY <1>4, <1>5 DEF One, Two
    <2> QED
      BY <1>2, <1>3, <1>4, <2>1, <2>2 DEF Placed, Named
  <1>7. CASE One(r)
    <2>1. Len(r.holds) = 1 /\ r.holds = n.holds /\ limiter' = limiter
      BY <1>1, <1>5, <1>7 DEF One
    <2> QED
      BY <1>1, <1>2, <1>6, <2>1, QuietStep
  <1>8. CASE Two(r) /\ r.holds[2] = r.wants
    <2>1. PICK g : g = r.wants
      OBVIOUS
    <2>2. Len(r.holds) = 2
      BY <1>8 DEF Two
    <2>3. Changed(c, g, Freed(limiter[c][g]))
      BY <1>1, <2>1, <2>2 DEF Changed
    <2>4. /\ 2 \in DOMAIN r.holds /\ r.holds[2] = g /\ 2 \notin DOMAIN n.holds
          /\ 1 \in DOMAIN r.holds /\ 1 \in DOMAIN n.holds /\ n.holds[1] = r.holds[1]
      BY <1>5, <1>8, <2>1 DEF Two
    <2> QED
      BY <1>0, <1>2, <1>4, <1>6, <2>3, <2>4, GivenBack
  <1> QED
    BY <1>4, <1>7, <1>8

LEMMA FinishToolKeeps ==
    ASSUME IInv, NEW j \in Jobs, FinishTool(j)
    PROVE  IInv'
  <1> DEFINE r == run[j]
  <1>0. PICK c, g : c = Current(j) /\ g = r.holds[1]
    OBVIOUS
  <1>1. PICK entry :
           /\ r.pc = "log"
           /\ limiter' = IF r.holds = <<>> THEN limiter
                         ELSE [limiter EXCEPT ![c][r.holds[1]] = Freed(@)]
           /\ run' = [run EXCEPT ![j].pc = "tool", ![j].todo = Tail(@), ![j].holds = <<>>,
                                 ![j].log = Append(@, entry)]
    BY <1>0 DEF FinishTool
  <1> DEFINE n == [r EXCEPT !.pc = "tool", !.todo = Tail(@), !.holds = <<>>,
                            !.log = Append(@, entry)]
  <1>2. run' = [run EXCEPT ![j] = n] /\ IsRecord(n) /\ n.pc = "tool" /\ n.holds = <<>>
    BY <1>1, JobIs DEF IsRecord
  <1> HIDE DEF n
  <1>3. Named(r) /\ (None(r) \/ One(r))
    BY <1>1, JobIs DEF Placed
  <1>4. Placed(n)
    BY <1>2 DEF Placed, None
  <1>5. CASE None(r)
    <2>1. limiter' = limiter /\ r.holds = <<>>
      BY <1>1, <1>5 DEF None
    <2> QED
      BY <1>2, <1>4, <2>1, QuietStep
  <1>6. CASE One(r)
    <2>1. r.holds # <<>> /\ 1 \in DOMAIN r.holds /\ 2 \notin DOMAIN r.holds
      BY <1>6 DEF One
    <2>2. Changed(c, g, Freed(limiter[c][g]))
      BY <1>0, <1>1, <2>1 DEF Changed
    <2>3. 1 \notin DOMAIN n.holds /\ 2 \notin DOMAIN n.holds
      BY <1>2
    <2> QED
      BY <1>0, <1>2, <1>3, <1>4, <2>1, <2>2, <2>3, GivenBack
  <1> QED
    BY <1>3, <1>5, <1>6

-----------------------------------------------------------------------------
\* While no job moves, the slots are those that were, and they stay within
\* limiters that only grow.
LEMMA NoJobMoves ==
    ASSUME IInv, run' = run, LimitersAre',
           \A t \in Tools : DOMAIN limiter[t] \subseteq DOMAIN limiter'[t]
    PROVE  /\ RunsAre' /\ HoldsAre' /\ NamesAre'
           /\ \A t, g : HeldSlots(t, g)' = HeldSlots(t, g)
  <1>1. RunsAre' /\ HoldsAre'
    BY DEF IInv, RunsAre, HoldsAre
  <1>2. NamesAre'
    BY DEF IInv, NamesAre, Named
  <1>3. \A t, g : HeldSlots(t, g)' = HeldSlots(t, g)
    BY DEF HeldSlots, Current
  <1> QED
    BY <1>1, <1>2, <1>3

\* A slot that is held is of a limiter that is there.
LEMMA HeldIsThere ==
    ASSUME IInv, NEW t \in Tools, NEW g, HeldSlots(t, g) # {}
    PROVE  g \in DOMAIN limiter[t]
  <1>1. PICK j \in Jobs, i \in {1, 2} :
           i \in DOMAIN run[j].holds /\ run[j].holds[i] = g /\ Current(j) = t
    BY DEF HeldSlots
  <1>2. ~None(run[j])
    BY <1>1 DEF None
  <1>3. Named(run[j])
    BY <1>2, JobIs DEF Placed
  <1> QED
    BY <1>1, <1>3 DEF Named, Current

LEMMA RestOverKeeps ==
    ASSUME IInv, NEW t \in Tools, NEW g \in DOMAIN limiter[t], RestOver(t, g)
    PROVE  IInv'
  <1>0. PICK l : l = [limiter[t][g] EXCEPT !.resting = FALSE]
    OBVIOUS
  <1>1. run' = run /\ Changed(t, g, l)
    BY <1>0 DEF RestOver, jobVars, Changed
  <1>2. limiter[t][g] \in Limiters
    BY LimiterIs DEF IInv
  <1>3. l \in Limiters /\ l.cap = limiter[t][g].cap /\ l.held = limiter[t][g].held
    BY <1>0, <1>2 DEF Limiters
  <1>4. LimitersAre
    BY DEF IInv
  <1>5. /\ LimitersAre'
        /\ \A u \in Tools : DOMAIN limiter'[u] = DOMAIN limiter[u]
        /\ \A u \in Tools : \A h \in DOMAIN limiter[u] :
              limiter'[u][h] = IF u = t /\ h = g THEN l ELSE limiter[u][h]
    BY <1>1, <1>3, <1>4, OneLimiter
  <1>6. /\ RunsAre' /\ HoldsAre' /\ NamesAre'
        /\ \A u, h : HeldSlots(u, h)' = HeldSlots(u, h)
    BY <1>1, <1>5, NoJobMoves
  <1>7. SlotsAreCounted'
    BY <1>3, <1>5, <1>6 DEF IInv, SlotsAreCounted, Counted
  <1> QED
    BY <1>5, <1>6, <1>7 DEF IInv

\* A new limiter has no slot taken: no job holds one of a limiter that is not there.
LEMMA SetRateLimitsKeeps ==
    ASSUME IInv, NEW t \in Tools, NEW limit \in Limits, SetRateLimits(t, limit)
    PROVE  IInv'
  <1>1. run' = run /\ limiter' = [limiter EXCEPT ![t] = Append(limiter[t], limit)]
    BY DEF SetRateLimits, OnlyRegistry, jobVars
  <1>2. limit \in Limiters /\ limit.held = 0 /\ limit.cap \in Nat
    <2>1. limit \in [cap : Nat, spaced : BOOLEAN, held : {0}, resting : {FALSE}]
      BY ToolsAssumption DEF ToolsAssumption
    <2>2. [cap : Nat, spaced : BOOLEAN, held : {0}, resting : {FALSE}] \subseteq Limiters
      <3>1. {0} \subseteq Int /\ {FALSE} \subseteq BOOLEAN
        OBVIOUS
      <3> QED
        BY <3>1, Zenon DEF Limiters
    <2> QED
      BY <2>1, <2>2
  <1> DEFINE s == Append(limiter[t], limit)
  <1>3. limiter \in [Tools -> Seq(Limiters)]
    BY DEF IInv, LimitersAre
  <1>4. /\ s \in Seq(Limiters) /\ s # <<>> /\ Len(s) = Len(limiter[t]) + 1
        /\ \A g \in 1..Len(limiter[t]) : s[g] = limiter[t][g]
        /\ s[Len(limiter[t]) + 1] = limit
    BY <1>2, <1>3, AppendProperties
  <1>5. limiter'[t] = s /\ \A u \in Tools \ {t} : limiter'[u] = limiter[u]
    BY <1>1, <1>3
  <1>6. LimitersAre'
    BY <1>1, <1>3, <1>4, <1>5 DEF IInv, LimitersAre
  <1>7. /\ DOMAIN limiter[t] = 1..Len(limiter[t]) /\ Len(limiter[t]) \in Nat
        /\ DOMAIN limiter'[t] = 1..(Len(limiter[t]) + 1)
    BY <1>3, <1>4, <1>5
  <1> HIDE DEF s
  <1>8. /\ RunsAre' /\ HoldsAre' /\ NamesAre'
        /\ \A u, h : HeldSlots(u, h)' = HeldSlots(u, h)
    <2>1. \A u \in Tools : DOMAIN limiter[u] \subseteq DOMAIN limiter'[u]
      BY <1>5, <1>7
    <2> QED
      BY <1>1, <1>6, <2>1, NoJobMoves
  <1>9. HeldSlots(t, Len(limiter[t]) + 1) = {}
    <2>1. Len(limiter[t]) + 1 \notin DOMAIN limiter[t]
      BY <1>7
    <2> QED
      BY <2>1, HeldIsThere
  <1>10. SlotsAreCounted'
    <2> SUFFICES ASSUME NEW u \in Tools, NEW h \in DOMAIN limiter'[u]
                 PROVE  Counted(limiter'[u][h], HeldSlots(u, h)')
      BY DEF SlotsAreCounted, Counted
    <2>1. CASE u = t /\ h = Len(limiter[t]) + 1
      <3>1. limiter'[u][h] = limit /\ Cardinality(HeldSlots(u, h)) = 0
        BY <1>4, <1>5, <1>9, <2>1, FS_EmptySet
      <3> QED
        BY <1>2, <1>8, <3>1 DEF Counted
    <2>2. CASE ~(u = t /\ h = Len(limiter[t]) + 1)
      <3>1. h \in DOMAIN limiter[u] /\ limiter'[u][h] = limiter[u][h]
        BY <1>4, <1>5, <1>7, <2>2
      <3>2. HeldSlots(u, h)' = HeldSlots(u, h)
        BY <1>8
      <3> QED
        BY <3>1, <3>2 DEF IInv, SlotsAreCounted
    <2> QED
      BY <2>1, <2>2
  <1> QED
    BY <1>6, <1>8, <1>10 DEF IInv

\* Where no job holds a slot, limiters with none taken are right.
LEMMA FreshLimiters ==
    ASSUME \A j \in Jobs : None(run[j])
    PROVE  /\ \A t, g : Cardinality(HeldSlots(t, g)) = 0
           /\ \A t : /\ <<Default(t)>> \in Seq(Limiters)
                     /\ Default(t).held = 0 /\ Default(t).cap \in Nat
  <1>1. \A t, g : HeldSlots(t, g) = {}
    BY DEF HeldSlots, None
  <1>2. \A t : Default(t) \in Limiters /\ Default(t).held = 0 /\ Default(t).cap \in Nat
    BY DEF Default, Limit, Limiters
  <1> QED
    BY <1>1, <1>2, FS_EmptySet

\* At the start, and after a restart, the limiters are new and no slot is held.
LEMMA InitHolds ==
    ASSUME WorkflowInit
    PROVE  IInv
  <1>1. run = [j \in Jobs |-> NotRun] /\ limiter = [t \in Tools |-> <<Default(t)>>]
    BY DEF WorkflowInit
  <1>2. \A j \in Jobs : run[j].pc = "idle" /\ None(run[j])
    BY <1>1 DEF NotRun, None
  <1>3. RunsAre /\ HoldsAre /\ NamesAre
    BY <1>1, <1>2 DEF RunsAre, IsRecord, NotRun, HoldsAre, Placed, NamesAre
  <1>4. LimitersAre
    BY <1>1, <1>2, FreshLimiters DEF LimitersAre
  <1>5. SlotsAreCounted
    <2> SUFFICES ASSUME NEW t \in Tools, NEW g \in DOMAIN limiter[t]
                 PROVE  Counted(limiter[t][g], HeldSlots(t, g))
      BY DEF SlotsAreCounted
    <2>1. limiter[t][g] = Default(t)
      BY <1>1
    <2> QED
      BY <1>2, <2>1, FreshLimiters DEF Counted
  <1> QED
    BY <1>3, <1>4, <1>5 DEF IInv

LEMMA RestartKeeps ==
    ASSUME IInv, Restart
    PROVE  IInv'
  <1>1. run' = run /\ limiter' = [t \in Tools |-> <<Default(t)>>]
    BY DEF Restart, RegisterAll, OnlyRegistry, jobVars
  <1>2. \A j \in Jobs : run[j].pc \in {"idle", "done"} /\ None(run[j])
    BY JobIs DEF Restart, Placed
  <1>3. RunsAre' /\ HoldsAre' /\ NamesAre'
    BY <1>1, <1>2 DEF IInv, RunsAre, HoldsAre, NamesAre
  <1>4. LimitersAre'
    BY <1>1, <1>2, FreshLimiters DEF LimitersAre
  <1>5. SlotsAreCounted'
    <2> SUFFICES ASSUME NEW t \in Tools, NEW g \in DOMAIN limiter'[t]
                 PROVE  Counted(limiter'[t][g], HeldSlots(t, g)')
      BY DEF SlotsAreCounted, Counted
    <2>1. limiter'[t][g] = Default(t)
      BY <1>1
    <2>2. HeldSlots(t, g)' = HeldSlots(t, g)
      BY <1>1 DEF HeldSlots, Current
    <2> QED
      BY <1>2, <2>1, <2>2, FreshLimiters DEF Counted
  <1> QED
    BY <1>3, <1>4, <1>5 DEF IInv

\* Everything else leaves the jobs and the limiters alone.
LEMMA StutterKeeps ==
    ASSUME IInv, run' = run, limiter' = limiter
    PROVE  IInv'
  <1>1. LimitersAre'
    BY DEF IInv, LimitersAre
  <1>2. /\ RunsAre' /\ HoldsAre' /\ NamesAre'
        /\ \A t, g : HeldSlots(t, g)' = HeldSlots(t, g)
    BY <1>1, NoJobMoves
  <1>3. SlotsAreCounted'
    BY <1>2 DEF IInv, SlotsAreCounted, Counted
  <1> QED
    BY <1>1, <1>2, <1>3 DEF IInv

LEMMA StepKeeps ==
    ASSUME IInv, [WorkflowNext]_workflowVars
    PROVE  IInv'
  <1>1. ASSUME NEW j \in Jobs, JobStep(j)
        PROVE  IInv'
    BY <1>1, RunWorkflowKeeps, NextStageKeeps, NextToolKeeps, AcquireSlotKeeps, PassSpacingKeeps,
       CheckToolKeeps, RunBinaryKeeps, StoringKeeps, FinishToolKeeps DEF JobStep
  <1>2. ASSUME NEW t \in Tools, AdminStep(t)
        PROVE  IInv'
    <2>1. ASSUME NEW b \in BOOLEAN, SetEnabled(t, b)
          PROVE  IInv'
      BY <2>1, StutterKeeps DEF SetEnabled, OnlyRegistry, jobVars
    <2>2. CASE DiskChange(t)
      BY <2>2, StutterKeeps DEF DiskChange, OnlyRegistry, jobVars
    <2> QED
      BY <1>2, <2>1, <2>2, SetRateLimitsKeeps DEF AdminStep
  <1>3. CASE CheckStep
    <2>1. ASSUME NEW t \in Tools, Verify(t)
          PROVE  IInv'
      BY <2>1, StutterKeeps DEF Verify, OnlyRegistry, jobVars
    <2>2. CASE StartupPersist
      BY <2>2, StutterKeeps DEF StartupPersist, jobVars
    <2>3. CASE SyncRegistryFromDB
      BY <2>3, StutterKeeps DEF SyncRegistryFromDB, OnlyRegistry, jobVars
    <2>4. CASE HealthEnd
      BY <2>4, StutterKeeps DEF HealthEnd, OnlyRegistry, jobVars
    <2> QED
      BY <1>3, <2>1, <2>2, <2>3, <2>4 DEF CheckStep
  <1>4. CASE ServerStep
    <2>1. CASE HealthStart
      BY <2>1, StutterKeeps DEF HealthStart, OnlyRegistry, jobVars
    <2> QED
      BY <1>4, <2>1, RestartKeeps DEF ServerStep
  <1>5. CASE TimeStep
    BY <1>5, RestOverKeeps DEF TimeStep
  <1>6. CASE UNCHANGED workflowVars
    BY <1>6, StutterKeeps DEF workflowVars, registryVars, jobVars
  <1> QED
    BY <1>1, <1>2, <1>3, <1>4, <1>5, <1>6 DEF WorkflowNext

\* In every state of every behaviour, what the parts above say is so.
THEOREM ToolsInductive == WorkflowSpec => []IInv
  <1>1. WorkflowInit => IInv
    BY InitHolds
  <1>2. IInv /\ [WorkflowNext]_workflowVars => IInv'
    BY StepKeeps
  <1> QED
    BY <1>1, <1>2, PTL DEF WorkflowSpec

\* The tools that run on the newest limits hold a slot of it each.
LEMMA RunningHold ==
    ASSUME IInv, NEW t \in Tools, NEW g \in DOMAIN limiter[t], limiter[t][g].cap > 0
    PROVE  Cardinality(Running(t, g)) <= limiter[t][g].cap
  <1> DEFINE S == Running(t, g)
             T == HeldSlots(t, g)
             f == [j \in S |-> <<j, 1>>]
  <1>1. \A j \in S : <<j, 1>> \in T
    <2> SUFFICES ASSUME NEW j \in S
                 PROVE  <<j, 1>> \in T
      OBVIOUS
    <2>1. One(run[j]) \/ Two(run[j])
      BY JobIs DEF Running, Placed
    <2>2. 1 \in DOMAIN run[j].holds
      BY <2>1 DEF One, Two
    <2> QED
      BY <2>2 DEF Running, HeldSlots
  <1>2. f \in Injection(S, T)
    <2>1. f \in [S -> T]
      BY <1>1
    <2>2. \A j, k \in S : f[j] = f[k] => j = k
      OBVIOUS
    <2> HIDE DEF f
    <2> QED
      BY <2>1, <2>2 DEF Injection, IsInjective
  <1>3. Cardinality(S) <= Cardinality(T)
    BY <1>2, SlotsAreFinite, FS_Injection
  <1>4. Cardinality(T) <= limiter[t][g].cap
    BY DEF IInv, SlotsAreCounted, Counted
  <1>5. IsFiniteSet(S) /\ Cardinality(S) \in Nat
    BY <1>2, SlotsAreFinite, FS_Injection, FS_CardinalityType
  <1>6. limiter[t][g].cap \in Nat
    BY LimiterIs DEF IInv, Limiters
  <1> QED
    BY <1>3, <1>4, <1>5, <1>6, SlotsAreFinite

\* SlotsHold, for any jobs, tools and changes of the limits: what a limiter
\* counts is who holds it, no limiter is over its cap, nobody holds one between
\* two tools, and no more run on the newest limits than these allow.
THEOREM SlotsHoldAlways == WorkflowSpec => []SlotsHold
  <1>1. IInv => SlotsHold
    <2> SUFFICES ASSUME IInv
                 PROVE  SlotsHold
      OBVIOUS
    <2>1. \A t \in Tools : \A g \in DOMAIN limiter[t] :
             /\ limiter[t][g].held = Cardinality(HeldSlots(t, g))
             /\ limiter[t][g].cap > 0 => limiter[t][g].held <= limiter[t][g].cap
      BY DEF IInv, SlotsAreCounted, Counted
    <2>2. ASSUME NEW j \in Jobs
          PROVE  /\ Len(run[j].holds) <= 2
                 /\ run[j].pc \in {"idle", "stage", "tool", "done"} => run[j].holds = <<>>
      <3>1. None(run[j]) \/ One(run[j]) \/ Two(run[j])
        BY JobIs DEF Placed
      <3>2. Len(run[j].holds) \in {0, 1, 2}
        <4>1. None(run[j]) => Len(run[j].holds) = 0
          BY DEF None
        <4>2. One(run[j]) => Len(run[j].holds) = 1
          BY DEF One
        <4>3. Two(run[j]) => Len(run[j].holds) = 2
          BY DEF Two
        <4> QED
          BY <3>1, <4>1, <4>2, <4>3
      <3>3. Len(run[j].holds) <= 2
        <4> DEFINE m == Len(run[j].holds)
        <4>1. m \in {0, 1, 2}
          BY <3>2
        <4> HIDE DEF m
        <4>2. m <= 2
          BY <4>1
        <4> QED
          BY <4>2 DEF m
      <3>4. run[j].pc \in {"idle", "stage", "tool", "done"} => None(run[j])
        BY JobIs DEF Placed
      <3> QED
        BY <3>3, <3>4 DEF None
    <2>3. \A t \in Tools : LET l == limiter[t][Newest(t)] IN
             l.cap > 0 => Cardinality(Running(t, Newest(t))) <= l.cap
      BY RunningHold, NewestIsThere DEF IInv
    <2> QED
      BY <2>1, <2>2, <2>3 DEF SlotsHold
  <1> QED
    BY <1>1, ToolsInductive, PTL

-----------------------------------------------------------------------------
\* What a workflow leaves behind, while it is under way. A job has begun the
\* stages that are no longer in its list.
IsSeq(x) == x \in Seq(ToSet(x))
StagesFor(j) == workflowStages[order[j].workflow]
Begun(j) == Len(StagesFor(j)) - Len(run[j].stages)
Idle(j) == run[j].pc = "idle"
Between(j) == run[j].pc \in {"stage", "done"}
AtTool(j) == run[j].pc \notin {"idle", "stage", "done"}
Noted(j) == Opened(run[j].log, order[j].workflow, Len(run[j].log))

\* What is left is the rest of the stages of the workflow, and what is noted
\* belongs to the stages that were begun.
Onwards(j) ==
    /\ IsSeq(run[j].stages) /\ IsSeq(run[j].log) /\ Len(run[j].stages) <= Len(StagesFor(j))
    /\ \A i \in 1..Len(run[j].stages) : run[j].stages[i] = StagesFor(j)[Begun(j) + i]
    /\ \A i \in 1..Len(run[j].log) :
          /\ Opened(run[j].log, order[j].workflow, i) \in 1..Begun(j)
          /\ run[j].log[i].stage = StagesFor(j)[Opened(run[j].log, order[j].workflow, i)]

\* Between two stages, all that were begun are noted. At a stage, its tools
\* are of its category, and the first of them opens it.
AtStage(j) ==
    /\ IsSeq(run[j].todo) /\ Begun(j) \in 1..Len(StagesFor(j))
    /\ \A i \in 1..Len(run[j].todo) : run[j].todo[i] \in Members(StagesFor(j)[Begun(j)])
    /\ run[j].pc = "tool" \/ run[j].todo # <<>>
    /\ Len(run[j].todo) <= 1 \/ RunAll(order[j].workflow, StagesFor(j)[Begun(j)])
    /\ \/ Noted(j) = Begun(j) - 1 /\ run[j].todo # <<>>
       \/ /\ Noted(j) = Begun(j)
          /\ run[j].todo = <<>> \/ RunAll(order[j].workflow, StagesFor(j)[Begun(j)])
StageIs(j) ==
    /\ Idle(j) => run[j].log = <<>>
    /\ ~Idle(j) => Onwards(j)
    /\ Between(j) => Noted(j) = Begun(j)
    /\ AtTool(j) => AtStage(j)
    /\ run[j].pc = "done" => run[j].stages = <<>>

\* A row of results was tried, and not yet noted, when its tool is about to be.
RowTried(j) == run[j].pc = "log" \/ (run[j].pc = "save" /\ Late(Current(j)))
Status(j) == IF run[j].err THEN "error" ELSE "ok"
RowsAre(j) ==
    /\ IsSeq(outcomes[j])
    /\ Cardinality(OfTools(run[j].log)) + (IF RowTried(j) THEN 1 ELSE 0)
          \in Len(outcomes[j])..(Len(outcomes[j]) + failures)
    /\ \A i \in 1..Len(outcomes[j]) :
          \/ \E k \in OfTools(run[j].log) : /\ run[j].log[k].tool = outcomes[j][i].tool
                                            /\ run[j].log[k].status = outcomes[j][i].status
          \/ /\ RowTried(j)
             /\ outcomes[j][i].tool = Current(j) /\ outcomes[j][i].status = Status(j)

\* A CMS scanner is past its guard, and has results, only after a row of
\* fingerprinting that found something.
Scanners == {"wpscan", "droopescan"}
Fingerprints(j) == Fingerprinted(outcomes[j], Len(outcomes[j]))
PastGuard(j) ==
    /\ Current(j) \in Scanners
    /\ \/ run[j].pc \in {"wait", "space", "check", "exec"}
       \/ run[j].pc = "row" /\ run[j].results # <<>>
CMSIs(j) ==
    /\ \A i \in 1..Len(outcomes[j]) :
          outcomes[j][i].tool \in Scanners /\ outcomes[j][i].items # {} =>
              Fingerprinted(outcomes[j], i - 1)
    /\ PastGuard(j) => Fingerprints(j)

\* What rows say was found is stored, or an upsert failed; or it is about to
\* be, where the row comes first. A run that failed has no results.
Found(j) == ToSet([i \in DOMAIN run[j].results |-> run[j].results[i].item])
HasAll(j, c, items) ==
    c \in DOMAIN Wanted => \A x \in items, table \in Wanted[c] :
                              Asset(table, j, x) \in stored \/ failures > 0
BackedRow(j, row) ==
    \/ HasAll(j, CategoryOf(row.tool), row.items)
    \/ run[j].pc = "save" /\ Late(Current(j)) /\ row.tool = Current(j) /\ row.items = Found(j)
BackedIs(j) ==
    /\ \A i \in 1..Len(outcomes[j]) : BackedRow(j, outcomes[j][i])
    /\ run[j].pc = "check" => run[j].results = <<>>
    /\ run[j].pc \in {"save", "row"} /\ run[j].err => run[j].results = <<>>
    /\ run[j].pc = "save" => Early(Current(j)) \/ Late(Current(j))
    /\ run[j].pc = "row" /\ Early(Current(j)) => HasAll(j, CategoryOf(Current(j)), Found(j))

AssetsHang ==
    /\ \A a \in stored : a.table = "history" => [a EXCEPT !.table = "service"] \in stored
    /\ \A a \in stored : a.table = "service" =>
          [a EXCEPT !.table = "host"] \in stored \/ failures > 0
StoreIs == failures \in Nat /\ AssetsHang

JobIsTold(j) == StageIs(j) /\ RowsAre(j) /\ CMSIs(j) /\ BackedIs(j)
ToldInv ==
    /\ order \in WorkflowOrders /\ outcomes = [j \in Jobs |-> outcomes[j]]
    /\ StoreIs /\ \A j \in Jobs : JobIsTold(j)

-----------------------------------------------------------------------------
\* Sequences, whatever they are of.
LEMMA ListIs ==
    ASSUME NEW n \in Nat, NEW T, NEW f \in [1..n -> T]
    PROVE  IsSeq(f) /\ Len(f) = n /\ DOMAIN f = 1..n
  <1>1. f \in [1..n -> ToSet(f)]
    BY DEF ToSet
  <1>2. f \in Seq(ToSet(f))
    BY <1>1, SeqDef
  <1> QED
    BY <1>1, <1>2, LenProperties DEF IsSeq

LEMMA ListOf ==
    ASSUME NEW S, NEW x \in Seq(S)
    PROVE  IsSeq(x)
  BY ListIs, LenProperties

LEMMA SeqIs ==
    ASSUME NEW x, IsSeq(x)
    PROVE  /\ Len(x) \in Nat /\ DOMAIN x = 1..Len(x)
           /\ x = <<>> <=> Len(x) = 0
           /\ x # <<>> => Head(x) = x[1]
  <1>1. x \in Seq(ToSet(x))
    BY DEF IsSeq
  <1> QED
    BY <1>1, EmptySeq, LenProperties

LEMMA NothingIs == IsSeq(<<>>) /\ Len(<<>>) = 0
  BY ListOf, EmptySeq

LEMMA AppendIs ==
    ASSUME NEW x, IsSeq(x), NEW e
    PROVE  /\ IsSeq(Append(x, e)) /\ Len(Append(x, e)) = Len(x) + 1
           /\ \A i \in 1..Len(x) : Append(x, e)[i] = x[i]
           /\ Append(x, e)[Len(x) + 1] = e
  <1> DEFINE S == ToSet(x) \cup {e}
  <1>1. x \in Seq(S) /\ e \in S
    <2>1. x \in Seq(ToSet(x)) /\ ToSet(x) \subseteq S
      BY DEF IsSeq
    <2> HIDE DEF S
    <2> QED
      BY <2>1, SeqMonotonic DEF S
  <1> HIDE DEF S
  <1>2. /\ Append(x, e) \in Seq(S) /\ Len(Append(x, e)) = Len(x) + 1
        /\ \A i \in 1..Len(x) : Append(x, e)[i] = x[i]
        /\ Append(x, e)[Len(x) + 1] = e
    BY <1>1, AppendProperties
  <1> QED
    BY <1>2, ListOf

LEMMA TailIs ==
    ASSUME NEW x, IsSeq(x), x # <<>>
    PROVE  /\ IsSeq(Tail(x)) /\ Len(Tail(x)) = Len(x) - 1
           /\ \A i \in 1..Len(Tail(x)) : i + 1 \in 1..Len(x) /\ Tail(x)[i] = x[i + 1]
  <1>1. x \in Seq(ToSet(x))
    BY DEF IsSeq
  <1>2. /\ Tail(x) \in Seq(ToSet(x)) /\ Len(Tail(x)) = Len(x) - 1
        /\ \A i \in 1..Len(Tail(x)) : Tail(x)[i] = x[i + 1]
    BY <1>1, HeadTailProperties
  <1>3. Len(x) \in Nat
    BY SeqIs
  <1>4. \A i \in 1..Len(Tail(x)) : i + 1 \in 1..Len(x)
    BY <1>2, <1>3
  <1> QED
    BY <1>2, <1>4, ListOf

\* The first of a list, alone.
LEMMA FirstIs ==
    ASSUME NEW x, IsSeq(x), x # <<>>
    PROVE  IsSeq(SubSeq(x, 1, 1)) /\ Len(SubSeq(x, 1, 1)) = 1 /\ SubSeq(x, 1, 1)[1] = x[1]
  <1>1. x \in Seq(ToSet(x)) /\ Len(x) \in Nat /\ Len(x) # 0
    BY SeqIs DEF IsSeq
  <1>2. x[1] \in ToSet(x)
    BY <1>1, SeqIs DEF ToSet
  <1>3. \A i \in 1..1 : x[i] \in ToSet(x)
    BY <1>2
  <1>4. /\ SubSeq(x, 1, 1) \in Seq(ToSet(x))
        /\ Len(SubSeq(x, 1, 1)) = 1
        /\ SubSeq(x, 1, 1)[1] = x[1]
    BY <1>3, SubSeqProperties
  <1> QED
    BY <1>4, ListOf

-----------------------------------------------------------------------------
\* The lists of tools and of stages.
LEMMA CategoriesAre ==
    DOMAIN workflowToolOrder =
        {"subdomain", "dns", "network", "web", "content", "vulnerability", "waf", "smb",
         "origin_ip", "injection", "secrets", "fingerprint", "js_analysis", "auth", "params",
         "takeover", "screenshot", "cloud"}
  BY DEF workflowToolOrder

LEMMA MembersAre ==
    /\ Members("subdomain") = {"subfinder", "amass", "assetfinder", "findomain"}
    /\ Members("dns") = {"dnsx", "dnsrecon", "dnsenum", "dnstwist"}
    /\ Members("network") = {"nmap", "naabu", "rustscan", "masscan"}
    /\ Members("web") = {"httpx", "katana", "hakrawler", "gau", "waybackurls"}
    /\ Members("content") = {"ffuf", "feroxbuster", "gobuster", "dirsearch"}
    /\ Members("vulnerability") = {"nuclei", "nikto", "testssl.sh", "wpscan", "droopescan"}
    /\ Members("waf") = {"wafw00f"}
    /\ Members("smb") = {"smbclient", "enum4linux-ng", "crackmapexec"}
    /\ Members("origin_ip") = {"cloudflair", "hakoriginfinder", "cloakquest3r"}
    /\ Members("injection") = {"sqlmap", "dalfox", "xsstrike", "commix", "tplmap", "crlfuzz",
                               "smuggler", "h2csmuggler", "ssrfmap", "gopherus"}
    /\ Members("secrets") = {"trufflehog", "gitleaks"}
    /\ Members("fingerprint") = {"whatweb", "wappalyzer"}
    /\ Members("js_analysis") = {"linkfinder", "secretfinder", "retire", "snyk"}
    /\ Members("auth") = {"jwt_tool", "corsy"}
    /\ Members("params") = {"arjun", "paramspider"}
    /\ Members("takeover") = {"subjack", "subzy", "nuclei-takeover", "dns-takeover-check"}
    /\ Members("screenshot") = {"gowitness", "aquatone"}
    /\ Members("cloud") = {"aws", "az", "gcloud"}
  <1> USE DEF Members, workflowToolOrder, ToSet
  <1>1. Members("subdomain") = {"subfinder", "amass", "assetfinder", "findomain"}
    OBVIOUS
  <1>2. Members("dns") = {"dnsx", "dnsrecon", "dnsenum", "dnstwist"}
    OBVIOUS
  <1>3. Members("network") = {"nmap", "naabu", "rustscan", "masscan"}
    OBVIOUS
  <1>4. Members("web") = {"httpx", "katana", "hakrawler", "gau", "waybackurls"}
    OBVIOUS
  <1>5. Members("content") = {"ffuf", "feroxbuster", "gobuster", "dirsearch"}
    OBVIOUS
  <1>6. Members("vulnerability") = {"nuclei", "nikto", "testssl.sh", "wpscan", "droopescan"}
    OBVIOUS
  <1>7. Members("waf") = {"wafw00f"}
    OBVIOUS
  <1>8. Members("smb") = {"smbclient", "enum4linux-ng", "crackmapexec"}
    OBVIOUS
  <1>9. Members("origin_ip") = {"cloudflair", "hakoriginfinder", "cloakquest3r"}
    OBVIOUS
  <1>10. Members("injection") = {"sqlmap", "dalfox", "xsstrike", "commix", "tplmap", "crlfuzz",
                                 "smuggler", "h2csmuggler", "ssrfmap", "gopherus"}
    OBVIOUS
  <1>11. Members("secrets") = {"trufflehog", "gitleaks"}
    OBVIOUS
  <1>12. Members("fingerprint") = {"whatweb", "wappalyzer"}
    OBVIOUS
  <1>13. Members("js_analysis") = {"linkfinder", "secretfinder", "retire", "snyk"}
    OBVIOUS
  <1>14. Members("auth") = {"jwt_tool", "corsy"}
    OBVIOUS
  <1>15. Members("params") = {"arjun", "paramspider"}
    OBVIOUS
  <1>16. Members("takeover") = {"subjack", "subzy", "nuclei-takeover", "dns-takeover-check"}
    OBVIOUS
  <1>17. Members("screenshot") = {"gowitness", "aquatone"}
    OBVIOUS
  <1>18. Members("cloud") = {"aws", "az", "gcloud"}
    OBVIOUS
  <1> HIDE DEF Members, workflowToolOrder, ToSet
  <1> QED
    BY <1>1, <1>2, <1>3, <1>4, <1>5, <1>6, <1>7, <1>8, <1>9, <1>10, <1>11, <1>12, <1>13, <1>14,
       <1>15, <1>16, <1>17, <1>18

\* A tool is of one category, and is there.
LEMMA OneCategory ==
    ASSUME NEW c \in DOMAIN workflowToolOrder, NEW d \in DOMAIN workflowToolOrder,
           NEW t \in Members(c), t \in Members(d)
    PROVE  c = d
  BY CategoriesAre, MembersAre

LEMMA CategoryIs ==
    ASSUME NEW c \in DOMAIN workflowToolOrder, NEW t \in Members(c)
    PROVE  CategoryOf(t) = c
  <1>1. \E d \in DOMAIN workflowToolOrder : t \in Members(d)
    OBVIOUS
  <1>2. CategoryOf(t) \in DOMAIN workflowToolOrder /\ t \in Members(CategoryOf(t))
    BY <1>1 DEF CategoryOf
  <1> QED
    BY <1>2, OneCategory

LEMMA ToolIs ==
    ASSUME NEW c \in DOMAIN workflowToolOrder, NEW t \in Members(c)
    PROVE  t # NoTool
  BY CategoriesAre, MembersAre DEF NoTool

LEMMA LeastOf ==
    ASSUME NEW T, T \subseteq Nat, T # {}
    PROVE  \E x \in T : \A y \in T : x <= y
  <1> DEFINE R == OpToRel(<, Nat)
  <1>1. IsWellFoundedOn(R, Nat)
    BY NatLessThanWellFounded
  <1>2. \A x, y \in Nat : x < y => <<x, y>> \in R
    BY DEF OpToRel
  <1> HIDE DEF R
  <1>3. PICK x \in T : \A y \in T : ~ (<<y, x>> \in R)
    BY <1>1, WFMin
  <1>4. \A y \in T : ~(y < x)
    BY <1>2, <1>3
  <1> QED
    BY <1>3, <1>4

\* The installed tools of a list, one name of it at a time.
LEMMA InstalledSteps ==
    ASSUME NEW names, IsSeq(names)
    PROVE  \E g : /\ \A i \in 0..Len(names) :
                        g[i] = IF i = 0 THEN <<>>
                               ELSE IF Ready(names[i]) THEN Append(g[i - 1], names[i])
                                                       ELSE g[i - 1]
                  /\ InstalledTools(names) = g[Len(names)]
  <1> DEFINE n == Len(names)
             Next1(g, i) == IF i = 0 THEN <<>>
                            ELSE IF Ready(names[i]) THEN Append(g[i - 1], names[i])
                                                    ELSE g[i - 1]
             Def(g, m) == g = [i \in 0..m |-> Next1(g, i)]
             Fit == {m \in 0..n : \E g : Def(g, m)}
             Bad == (0..n) \ Fit
  <1>0. n \in Nat
    BY SeqIs
  <1>1. Bad = {}
    <2>1. SUFFICES ASSUME Bad # {}
                   PROVE  FALSE
      OBVIOUS
    <2>2. PICK m \in Bad : \A k \in Bad : m <= k
      <3> HIDE DEF Fit
      <3>1. Bad \subseteq Nat
        OBVIOUS
      <3> HIDE DEF Bad
      <3> QED
        BY <2>1, <3>1, LeastOf
    <2>a. m \in 0..n /\ m \notin Fit
      <3> HIDE DEF Fit, n
      <3> QED
        BY <2>2
    <2>3. m # 0
      <3> DEFINE h == [i \in 0..0 |-> <<>>]
      <3>1. h = [i \in 0..0 |-> Next1(h, i)]
        OBVIOUS
      <3>2. Def(h, 0)
        BY <3>1
      <3> HIDE DEF Def, h
      <3>3. 0 \in 0..n
        BY <1>0
      <3> QED
        BY <2>a, <3>2, <3>3
    <2>4. m - 1 \in Fit
      <3>1. m \in 0..n /\ m # 0 /\ m - 1 \in 0..n /\ ~(m <= m - 1)
        <4> HIDE DEF Fit, n
        <4> QED
          BY <1>0, <2>a, <2>3
      <3> HIDE DEF Fit, n
      <3> QED
        BY <2>2, <3>1
    <2>5. PICK g : Def(g, m - 1)
      <3> HIDE DEF Def
      <3> QED
        BY <2>4
    <2> DEFINE h == [i \in 0..m |-> Next1(g, i)]
    <2>b. m \in Nat /\ m # 0
      <3> HIDE DEF Fit, n
      <3> QED
        BY <1>0, <2>a, <2>3
    <2>6. \A i \in 0..(m - 1) : h[i] = g[i]
      <3>1. TAKE i \in 0..(m - 1)
      <3>2. i \in 0..m
        BY <2>b
      <3>3. h[i] = Next1(g, i)
        BY <3>2
      <3>4. g[i] = Next1(g, i)
        BY <2>5
      <3> QED
        BY <3>3, <3>4
    <2>7. \A i \in 0..m : i # 0 => i - 1 \in 0..(m - 1)
      BY <2>b
    <2>8. \A i \in 0..m : Next1(g, i) = Next1(h, i)
      <3>1. \A i \in 0..m : i # 0 => h[i - 1] = g[i - 1]
        <4> HIDE DEF h
        <4> QED
          BY <2>6, <2>7
      <3> HIDE DEF h
      <3> QED
        BY <3>1
    <2>9. Def(h, m)
      BY <2>8
    <2>10. m \in Fit
      <3> HIDE DEF Def, h
      <3> QED
        BY <2>9, <2>a
    <2> QED
      BY <2>10, <2>a
  <1>2. PICK g0 : Def(g0, n)
    <2>1. n \in 0..n
      BY <1>0
    <2>2. n \in Fit
      <3> HIDE DEF Fit
      <3> QED
        BY <1>1, <2>1
    <2> HIDE DEF Def
    <2> QED
      BY <2>2
  <1> DEFINE g == CHOOSE g : Def(g, n)
  <1>3. Def(g, n)
    BY <1>2
  <1>4. InstalledTools(names) = g[n]
    BY DEF InstalledTools
  <1> HIDE DEF g
  <1>5. \A i \in 0..n : g[i] = Next1(g, i)
    BY <1>3
  <1> QED
    BY <1>4, <1>5

\* They are of the list.
LEMMA InstalledAre ==
    ASSUME NEW names, IsSeq(names)
    PROVE  /\ IsSeq(InstalledTools(names))
           /\ \A i \in 1..Len(InstalledTools(names)) : InstalledTools(names)[i] \in ToSet(names)
  <1> DEFINE Good(x) == IsSeq(x) /\ \A i \in 1..Len(x) : x[i] \in ToSet(names)
             n == Len(names)
  <1>0. n \in Nat /\ \A i \in 1..n : names[i] \in ToSet(names)
    BY SeqIs DEF ToSet
  <1>1. PICK g : /\ \A i \in 0..n :
                       g[i] = IF i = 0 THEN <<>>
                              ELSE IF Ready(names[i]) THEN Append(g[i - 1], names[i])
                                                      ELSE g[i - 1]
                 /\ InstalledTools(names) = g[n]
    BY InstalledSteps
  <1>2. Good(<<>>)
    BY NothingIs
  <1>3. ASSUME NEW x, Good(x), NEW t \in ToSet(names)
        PROVE  Good(Append(x, t))
    <2>1. /\ IsSeq(Append(x, t)) /\ Len(Append(x, t)) = Len(x) + 1 /\ Len(x) \in Nat
          /\ \A i \in 1..Len(x) : Append(x, t)[i] = x[i]
          /\ Append(x, t)[Len(x) + 1] = t
      BY <1>3, AppendIs, SeqIs
    <2>2. ASSUME NEW i \in 1..Len(Append(x, t))
          PROVE  Append(x, t)[i] \in ToSet(names)
      <3>1. i \in 1..Len(x) \/ i = Len(x) + 1
        BY <2>1
      <3> QED
        BY <1>3, <2>1, <3>1
    <2> QED
      BY <2>1, <2>2
  <1> HIDE DEF Good
  <1> DEFINE Bad == {i \in 0..n : ~Good(g[i])}
  <1>4. Bad = {}
    <2>1. SUFFICES ASSUME Bad # {}
                   PROVE  FALSE
      OBVIOUS
    <2>2. Bad \subseteq Nat
      OBVIOUS
    <2>3. PICK m \in Bad : \A k \in Bad : m <= k
      <3> HIDE DEF Bad
      <3> QED
        BY <2>1, <2>2, LeastOf
    <2>4. m \in 0..n /\ ~Good(g[m])
      OBVIOUS
    <2>5. m # 0
      BY <1>1, <1>2, <2>4
    <2>6. m \in 1..n /\ m - 1 \in 0..n /\ m - 1 \notin Bad
      <3> HIDE DEF Bad, n
      <3> QED
        BY <1>0, <2>3, <2>4, <2>5
    <2>7. Good(g[m - 1]) /\ names[m] \in ToSet(names)
      BY <1>0, <2>6
    <2>8. g[m] = Append(g[m - 1], names[m]) \/ g[m] = g[m - 1]
      BY <1>1, <2>4, <2>5
    <2> QED
      BY <1>3, <2>4, <2>7, <2>8
  <1>5. n \in 0..n
    BY <1>0
  <1>6. Good(g[n])
    BY <1>4, <1>5
  <1> QED
    BY <1>1, <1>6 DEF Good

-----------------------------------------------------------------------------
\* The workflows: a category a stage, and the stages that run all their tools
\* follow on others.
StagesFit(w) ==
    /\ IsSeq(workflowStages[w])
    /\ \A i \in 1..Len(workflowStages[w]) : workflowStages[w][i] \in DOMAIN workflowToolOrder
    /\ \A i \in 2..Len(workflowStages[w]) :
          RunAll(w, workflowStages[w][i]) => workflowStages[w][i - 1] # workflowStages[w][i]

LEMMA StagesAre ==
    ASSUME NEW w \in DOMAIN workflowStages
    PROVE  StagesFit(w)
  <1> DEFINE S == workflowStages[w]
             Names == {"subdomain", "dns", "network", "web", "content", "vulnerability", "smb",
                       "injection", "secrets", "fingerprint", "js_analysis", "auth", "params",
                       "takeover", "screenshot", "cloud"}
  <1>1. S \in Seq(Names)
    <2>1. workflowStages["external_asm"] \in Seq(Names)
      BY DEF workflowStages
    <2>2. workflowStages["bug_bounty"] \in Seq(Names)
      BY DEF workflowStages
    <2>3. workflowStages["internal_assessment"] \in Seq(Names)
      BY DEF workflowStages
    <2>4. workflowStages["dns_assessment"] \in Seq(Names)
      BY DEF workflowStages
    <2>5. workflowStages["web_assessment"] \in Seq(Names)
      BY DEF workflowStages
    <2>6. workflowStages["web_full"] \in Seq(Names)
      BY DEF workflowStages
    <2>7. workflowStages["api_audit"] \in Seq(Names)
      BY DEF workflowStages
    <2>8. workflowStages["js_recon"] \in Seq(Names)
      BY DEF workflowStages
    <2>9. workflowStages["cms_detect"] \in Seq(Names)
      BY DEF workflowStages
    <2>10. workflowStages["injection_suite"] \in Seq(Names)
      BY DEF workflowStages
    <2>11. workflowStages["git_secrets"] \in Seq(Names)
      BY DEF workflowStages
    <2>12. workflowStages["takeover_scan"] \in Seq(Names)
      BY DEF workflowStages
    <2>13. workflowStages["nuclei_full_scan"] \in Seq(Names)
      BY DEF workflowStages
    <2>14. workflowStages["screenshot"] \in Seq(Names)
      BY DEF workflowStages
    <2>15. workflowStages["cloud_enum"] \in Seq(Names)
      BY DEF workflowStages
    <2>16. DOMAIN workflowStages =
              {"external_asm", "bug_bounty", "internal_assessment", "dns_assessment",
               "web_assessment", "web_full", "api_audit", "js_recon", "cms_detect",
               "injection_suite", "git_secrets", "takeover_scan", "nuclei_full_scan",
               "screenshot", "cloud_enum"}
      BY DEF workflowStages
    <2> HIDE DEF Names
    <2> QED
      BY <2>1, <2>2, <2>3, <2>4, <2>5, <2>6, <2>7, <2>8, <2>9, <2>10,
         <2>11, <2>12, <2>13, <2>14, <2>15, <2>16
  <1>2. IsSeq(S) /\ \A i \in 1..Len(S) : S[i] \in Names
    BY <1>1, ListOf, ElementOfSeq
  <1>3. Names \subseteq DOMAIN workflowToolOrder
    BY CategoriesAre
  <1>4. ASSUME NEW i \in 2..Len(S), RunAll(w, S[i])
        PROVE  S[i - 1] # S[i]
    <2>1. w \in {"injection_suite", "takeover_scan"}
      BY <1>4 DEF RunAll
    <2>2. CASE w = "injection_suite"
      <3>1. S = <<"injection">>
        BY <2>2 DEF workflowStages
      <3>2. Len(S) = 1
        BY <3>1
      <3> HIDE DEF S
      <3> QED
        BY <3>2
    <2>3. CASE w = "takeover_scan"
      <3>1. S = <<"subdomain", "dns", "takeover">>
        BY <2>3 DEF workflowStages
      <3> HIDE DEF S
      <3>2. Len(S) = 3 /\ S[1] = "subdomain" /\ S[2] = "dns" /\ S[3] = "takeover"
        BY <3>1
      <3>3. i \in {2, 3}
        BY <3>2
      <3>4. CASE i = 2
        <4>1. i - 1 = 1
          BY <3>4
        <4> QED
          BY <3>2, <3>4, <4>1
      <3>5. CASE i = 3
        <4>1. i - 1 = 2
          BY <3>5
        <4> QED
          BY <3>2, <3>5, <4>1
      <3> QED
        BY <3>3, <3>4, <3>5
    <2> QED
      BY <2>1, <2>2, <2>3
  <1> HIDE DEF S, Names
  <1> QED
    BY <1>2, <1>3, <1>4 DEF StagesFit, S

-----------------------------------------------------------------------------
\* How many stages have been opened is told by each entry and the one before.
LEMMA OpenedIs ==
    ASSUME NEW log, NEW w, NEW n \in Nat
    PROVE  /\ Opened(log, w, n) \in Nat
           /\ Opened(log, w, 0) = 0
           /\ Opened(log, w, n + 1)
                 = Opened(log, w, n) + (IF Opens(log, w, n + 1) THEN 1 ELSE 0)
  <1> DEFINE S(m) == {i \in 1..m : Opens(log, w, i)}
  <1>1. IsFiniteSet(1..n) /\ S(n) \subseteq 1..n
    BY FS_Interval
  <1>2. IsFiniteSet(S(n)) /\ Cardinality(S(n)) \in Nat
    <2> HIDE DEF S
    <2> QED
      BY <1>1, FS_Subset, FS_CardinalityType
  <1>3. S(0) = {}
    OBVIOUS
  <1>4. n + 1 \notin S(n)
    OBVIOUS
  <1>5. S(n + 1) = IF Opens(log, w, n + 1) THEN S(n) \cup {n + 1} ELSE S(n)
    <2>1. 1..(n + 1) = 1..n \cup {n + 1}
      OBVIOUS
    <2> QED
      BY <2>1
  <1> HIDE DEF S
  <1>6. Cardinality(S(n) \cup {n + 1}) = Cardinality(S(n)) + 1
    BY <1>2, <1>4, FS_AddElement
  <1>7. Cardinality(S(0)) = 0
    BY <1>3, FS_EmptySet
  <1>8. Cardinality(S(n + 1)) = Cardinality(S(n)) + (IF Opens(log, w, n + 1) THEN 1 ELSE 0)
    BY <1>2, <1>5, <1>6
  <1> QED
    BY <1>2, <1>7, <1>8 DEF Opened, S

\* What an entry opens depends on it and what is before it.
LEMMA OpenedStays ==
    ASSUME NEW log, IsSeq(log), NEW e, NEW w, NEW i \in 0..Len(log)
    PROVE  Opened(Append(log, e), w, i) = Opened(log, w, i)
  <1> DEFINE more == Append(log, e)
  <1>1. Len(log) \in Nat /\ \A k \in 1..Len(log) : more[k] = log[k]
    BY AppendIs, SeqIs
  <1> HIDE DEF more
  <1>2. ASSUME NEW k \in 1..i
        PROVE  Opens(more, w, k) <=> Opens(log, w, k)
    <2>1. k \in 1..Len(log) /\ (k > 1 => k - 1 \in 1..Len(log))
      BY <1>1
    <2>2. more[k] = log[k] /\ (k > 1 => more[k - 1] = log[k - 1])
      BY <1>1, <2>1
    <2> QED
      BY <2>2 DEF Opens
  <1>3. {k \in 1..i : Opens(more, w, k)} = {k \in 1..i : Opens(log, w, k)}
    BY <1>2
  <1> QED
    BY <1>3 DEF Opened, more

\* The entries of tools, one more with each of them.
LEMMA ToolEntries ==
    ASSUME NEW log, IsSeq(log), NEW e
    PROVE  /\ OfTools(log) \subseteq 1..Len(log) /\ Cardinality(OfTools(log)) \in Nat
           /\ OfTools(Append(log, e))
                 = IF e.tool # NoTool THEN OfTools(log) \cup {Len(log) + 1} ELSE OfTools(log)
           /\ Cardinality(OfTools(Append(log, e)))
                 = Cardinality(OfTools(log)) + (IF e.tool # NoTool THEN 1 ELSE 0)
  <1> DEFINE more == Append(log, e)
             n == Len(log)
  <1>1. /\ n \in Nat /\ DOMAIN log = 1..n
        /\ \A k \in 1..n : more[k] = log[k]
        /\ more[n + 1] = e /\ DOMAIN more = 1..(n + 1)
    <2>1. IsSeq(more) /\ Len(more) = n + 1
      BY AppendIs
    <2> HIDE DEF more
    <2>2. DOMAIN more = 1..(n + 1)
      BY <2>1, SeqIs
    <2> QED
      BY <2>2, AppendIs, SeqIs DEF more
  <1> HIDE DEF more, n
  <1>2. OfTools(log) \subseteq 1..n
    BY <1>1 DEF OfTools
  <1>3. IsFiniteSet(OfTools(log)) /\ Cardinality(OfTools(log)) \in Nat
    <2>1. IsFiniteSet(1..n)
      BY <1>1, FS_Interval
    <2>2. IsFiniteSet(OfTools(log))
      BY <1>2, <2>1, FS_Subset
    <2> QED
      BY <2>2, FS_CardinalityType
  <1>4. OfTools(more) = IF e.tool # NoTool THEN OfTools(log) \cup {n + 1} ELSE OfTools(log)
    <2>1. 1..(n + 1) = 1..n \cup {n + 1}
      BY <1>1
    <2>2. \A k \in 1..n : more[k].tool # NoTool <=> log[k].tool # NoTool
      BY <1>1
    <2> QED
      BY <1>1, <2>1, <2>2 DEF OfTools
  <1>5. n + 1 \notin OfTools(log)
    BY <1>1, <1>2
  <1>6. Cardinality(OfTools(log) \cup {n + 1}) = Cardinality(OfTools(log)) + 1
    BY <1>3, <1>5, FS_AddElement
  <1>7. Cardinality(OfTools(more)) = Cardinality(OfTools(log)) + (IF e.tool # NoTool THEN 1 ELSE 0)
    BY <1>3, <1>4, <1>6
  <1> QED
    BY <1>2, <1>3, <1>4, <1>7 DEF more, n

-----------------------------------------------------------------------------
\* What a step does to the run of its job, field by field.
Keeps(j) ==
    /\ run'[j].stages = run[j].stages /\ run'[j].todo = run[j].todo
    /\ run'[j].log = run[j].log
KeepsAll(j) == Keeps(j) /\ run'[j].results = run[j].results /\ run'[j].err = run[j].err

LEMMA RunWorkflowMoves ==
    ASSUME IInv, NEW j \in Jobs, RunWorkflow(j)
    PROVE  /\ run[j].pc = "idle" /\ run'[j].pc = "stage"
           /\ run'[j].stages = StagesFor(j) /\ run'[j].log = run[j].log
  BY JobIs DEF RunWorkflow, StagesFor, IsRecord

LEMMA NextStageMoves ==
    ASSUME IInv, NEW j \in Jobs, NextStage(j)
    PROVE  LET category == Head(run[j].stages)
               ready == InstalledTools(workflowToolOrder[category])
           IN /\ run[j].pc = "stage"
              /\ \/ /\ run[j].stages = <<>> /\ run'[j].pc = "done" /\ Keeps(j)
                 \/ /\ run[j].stages # <<>> /\ run'[j].pc = "stage"
                    /\ run'[j].stages = Tail(run[j].stages)
                    /\ run'[j].log = Append(run[j].log, Skipped(category))
                 \/ /\ run[j].stages # <<>> /\ ready # <<>> /\ run'[j].pc = "tool"
                    /\ run'[j].stages = Tail(run[j].stages) /\ run'[j].log = run[j].log
                    /\ run'[j].todo = IF RunAll(order[j].workflow, category) THEN ready
                                      ELSE SubSeq(ready, 1, 1)
  <1> DEFINE category == Head(run[j].stages)
             ready == InstalledTools(workflowToolOrder[category])
             chosen == IF RunAll(order[j].workflow, category) THEN ready ELSE SubSeq(ready, 1, 1)
             entry == Skipped(category)
  <1>1. /\ run[j].pc = "stage"
        /\ IF run[j].stages = <<>> THEN run' = [run EXCEPT ![j].pc = "done"]
           ELSE run' = IF ready = <<>>
                       THEN [run EXCEPT ![j].stages = Tail(@), ![j].log = Append(@, entry)]
                       ELSE [run EXCEPT ![j].pc = "tool", ![j].todo = chosen,
                                        ![j].stages = Tail(@)]
    BY DEF NextStage
  <1>2. IsRecord(run[j]) /\ run = [k \in Jobs |-> run[k]]
    BY JobIs
  <1> HIDE DEF chosen, entry, ready, category
  <1>3. CASE run[j].stages = <<>>
    <2>1. run'[j].pc = "done" /\ Keeps(j)
      BY <1>1, <1>2, <1>3 DEF Keeps, IsRecord
    <2> QED
      BY <1>1, <1>3, <2>1
  <1>4. CASE run[j].stages # <<>> /\ ready = <<>>
    <2>a. run' = [run EXCEPT ![j].stages = Tail(@), ![j].log = Append(@, entry)]
      BY <1>1, <1>4
    <2>1. /\ run'[j].pc = "stage" /\ run'[j].stages = Tail(run[j].stages)
          /\ run'[j].log = Append(run[j].log, entry)
      BY <1>1, <1>2, <2>a DEF IsRecord
    <2> QED
      BY <1>1, <1>4, <2>1 DEF entry, category
  <1>5. CASE run[j].stages # <<>> /\ ready # <<>>
    <2>a. run' = [run EXCEPT ![j].pc = "tool", ![j].todo = chosen, ![j].stages = Tail(@)]
      BY <1>1, <1>5
    <2>1. /\ run'[j].pc = "tool" /\ run'[j].stages = Tail(run[j].stages)
          /\ run'[j].log = run[j].log /\ run'[j].todo = chosen
      BY <1>2, <2>a DEF IsRecord
    <2> QED
      BY <1>1, <1>5, <2>1 DEF chosen, ready, category
  <1> QED
    BY <1>3, <1>4, <1>5

LEMMA NextToolMoves ==
    ASSUME IInv, NEW j \in Jobs, NextTool(j)
    PROVE  /\ run[j].pc = "tool" /\ Keeps(j)
           /\ \/ run[j].todo = <<>> /\ run'[j].pc = "stage"
              \/ /\ run[j].todo # <<>> /\ run'[j].pc = "row"
                 /\ run'[j].results = <<>> /\ run'[j].err = FALSE
              \/ run[j].todo # <<>> /\ ~Unsuited(j, Current(j)) /\ run'[j].pc = "wait"
  <1>1. /\ run[j].pc = "tool"
        /\ \/ run[j].todo = <<>> /\ run' = [run EXCEPT ![j].pc = "stage"]
           \/ /\ run[j].todo # <<>>
              /\ run' = [run EXCEPT ![j].pc = "row", ![j].results = <<>>, ![j].err = FALSE]
           \/ /\ run[j].todo # <<>> /\ ~Unsuited(j, Current(j))
              /\ run' = [run EXCEPT ![j].pc = "wait", ![j].wants = Newest(Current(j))]
    BY DEF NextTool
  <1>2. IsRecord(run[j]) /\ run = [k \in Jobs |-> run[k]]
    BY JobIs
  <1>3. CASE run[j].todo = <<>> /\ run' = [run EXCEPT ![j].pc = "stage"]
    <2>1. Keeps(j) /\ run'[j].pc = "stage"
      BY <1>2, <1>3 DEF Keeps, IsRecord
    <2> QED
      BY <1>1, <1>3, <2>1
  <1>4. CASE /\ run[j].todo # <<>>
             /\ run' = [run EXCEPT ![j].pc = "row", ![j].results = <<>>, ![j].err = FALSE]
    <2>1. Keeps(j) /\ run'[j].pc = "row" /\ run'[j].results = <<>> /\ run'[j].err = FALSE
      BY <1>2, <1>4 DEF Keeps, IsRecord
    <2> QED
      BY <1>1, <1>4, <2>1
  <1>5. CASE /\ run[j].todo # <<>> /\ ~Unsuited(j, Current(j))
             /\ run' = [run EXCEPT ![j].pc = "wait", ![j].wants = Newest(Current(j))]
    <2>1. Keeps(j) /\ run'[j].pc = "wait"
      BY <1>2, <1>5 DEF Keeps, IsRecord
    <2> QED
      BY <1>1, <1>5, <2>1
  <1> QED
    BY <1>1, <1>3, <1>4, <1>5

LEMMA AcquireSlotMoves ==
    ASSUME IInv, NEW j \in Jobs, AcquireSlot(j)
    PROVE  run[j].pc = "wait" /\ run'[j].pc = "space" /\ KeepsAll(j)
  BY JobIs DEF AcquireSlot, Keeps, KeepsAll, IsRecord

LEMMA PassSpacingMoves ==
    ASSUME IInv, NEW j \in Jobs, PassSpacing(j)
    PROVE  /\ run[j].pc = "space" /\ run'[j].pc \in {"row", "exec", "check"} /\ Keeps(j)
           /\ run'[j].results = <<>> /\ run'[j].err = FALSE
  <1> DEFINE next == CASE Current(j) = "jwt_tool" /\ ~order[j].token -> "row"
                       [] Len(run[j].holds) = 2 -> "exec"
                       [] OTHER -> "check"
  <1>1. /\ run[j].pc = "space"
        /\ run' = [run EXCEPT ![j].pc = next, ![j].results = <<>>, ![j].err = FALSE]
    BY DEF PassSpacing
  <1>2. next \in {"row", "exec", "check"}
    OBVIOUS
  <1> HIDE DEF next
  <1>3. /\ run'[j].pc = next /\ Keeps(j)
        /\ run'[j].results = <<>> /\ run'[j].err = FALSE
    BY <1>1, JobIs DEF Keeps, IsRecord
  <1> QED
    BY <1>1, <1>2, <1>3

LEMMA CheckToolMoves ==
    ASSUME IInv, NEW j \in Jobs, CheckTool(j)
    PROVE  /\ run[j].pc = "check" /\ Keeps(j) /\ run'[j].results = run[j].results
           /\ run'[j].pc \in {"wait", "exec"} \/ run'[j].pc = AfterRun(Current(j))
  <1> DEFINE c == Current(j)
  <1>1. /\ run[j].pc = "check"
        /\ \/ run' = [run EXCEPT ![j].pc = AfterRun(c), ![j].err = TRUE]
           \/ run' = [run EXCEPT ![j].pc = "wait", ![j].wants = Newest(c)]
           \/ run' = [run EXCEPT ![j].pc = "exec"]
    BY DEF CheckTool
  <1>2. IsRecord(run[j]) /\ run = [k \in Jobs |-> run[k]]
    BY JobIs
  <1> HIDE DEF c
  <1>3. CASE run' = [run EXCEPT ![j].pc = AfterRun(c), ![j].err = TRUE]
    <2>1. Keeps(j) /\ run'[j].results = run[j].results /\ run'[j].pc = AfterRun(c)
      BY <1>2, <1>3 DEF Keeps, IsRecord
    <2> QED
      BY <1>1, <2>1 DEF c
  <1>4. CASE run' = [run EXCEPT ![j].pc = "wait", ![j].wants = Newest(c)]
    <2>1. Keeps(j) /\ run'[j].results = run[j].results /\ run'[j].pc = "wait"
      BY <1>2, <1>4 DEF Keeps, IsRecord
    <2> QED
      BY <1>1, <2>1
  <1>5. CASE run' = [run EXCEPT ![j].pc = "exec"]
    <2>1. Keeps(j) /\ run'[j].results = run[j].results /\ run'[j].pc = "exec"
      BY <1>2, <1>5 DEF Keeps, IsRecord
    <2> QED
      BY <1>1, <2>1
  <1> QED
    BY <1>1, <1>3, <1>4, <1>5

LEMMA SaveAssetsMoves ==
    ASSUME IInv, NEW j \in Jobs, SaveAssets(j)
    PROVE  /\ run[j].pc = "save" /\ KeepsAll(j)
           /\ run'[j].pc = IF Early(Current(j)) THEN "row" ELSE "log"
  <1> DEFINE next == IF Early(Current(j)) THEN "row" ELSE "log"
  <1>1. run[j].pc = "save" /\ run' = [run EXCEPT ![j].pc = next]
    BY DEF SaveAssets
  <1> HIDE DEF next
  <1>2. KeepsAll(j) /\ run'[j].pc = next
    BY <1>1, JobIs DEF Keeps, KeepsAll, IsRecord
  <1> QED
    BY <1>1, <1>2 DEF next

LEMMA PersistRowMoves ==
    ASSUME IInv, NEW j \in Jobs, PersistRow(j)
    PROVE  /\ run[j].pc = "row" /\ KeepsAll(j)
           /\ run'[j].pc = IF Late(Current(j)) THEN "save" ELSE "log"
  <1> DEFINE next == IF Late(Current(j)) THEN "save" ELSE "log"
  <1>1. run[j].pc = "row" /\ run' = [run EXCEPT ![j].pc = next]
    BY DEF PersistRow
  <1> HIDE DEF next
  <1>2. KeepsAll(j) /\ run'[j].pc = next
    BY <1>1, JobIs DEF Keeps, KeepsAll, IsRecord
  <1> QED
    BY <1>1, <1>2 DEF next

LEMMA FinishToolMoves ==
    ASSUME IInv, NEW j \in Jobs, FinishTool(j)
    PROVE  /\ run[j].pc = "log" /\ run'[j].pc = "tool"
           /\ run'[j].stages = run[j].stages /\ run'[j].todo = Tail(run[j].todo)
           /\ run'[j].log = Append(run[j].log, [stage |-> CategoryOf(Current(j)),
                                                tool |-> Current(j), status |-> Status(j)])
  <1> DEFINE entry == [stage |-> CategoryOf(Current(j)), tool |-> Current(j),
                       status |-> Status(j)]
  <1>1. /\ run[j].pc = "log"
        /\ run' = [run EXCEPT ![j].pc = "tool", ![j].todo = Tail(@), ![j].holds = <<>>,
                              ![j].log = Append(@, entry)]
    BY DEF FinishTool, Status
  <1> HIDE DEF entry
  <1>2. /\ run'[j].pc = "tool" /\ run'[j].stages = run[j].stages
        /\ run'[j].todo = Tail(run[j].todo) /\ run'[j].log = Append(run[j].log, entry)
    BY <1>1, JobIs DEF IsRecord
  <1> QED
    BY <1>1, <1>2 DEF entry

\* A tool of the clouds that fails has nothing to report.
LEMMA CloudReports ==
    ASSUME NEW t \in Members("cloud"), NEW out
    PROVE  Report(t, out) = CloudReport(t, out)
  <1>1. t \in {"aws", "az", "gcloud"}
    BY MembersAre
  <1>2. /\ t \notin Members("subdomain") \cup Extra /\ t \notin Members("dns")
        /\ t \notin Members("network") /\ t \notin Members("web") /\ t \notin Members("content")
        /\ t \notin Members("smb") /\ t \notin Members("origin_ip")
        /\ t \notin Members("secrets") /\ t \notin Members("fingerprint")
    BY <1>1, MembersAre DEF Extra
  <1>3. /\ t \notin Members("js_analysis") /\ t \notin Members("auth")
        /\ t \notin Members("params") /\ t \notin Members("takeover")
    BY <1>1, MembersAre
  <1>4. /\ t \notin {"nuclei", "nikto", "testssl.sh"} /\ t # "wpscan" /\ t # "droopescan"
        /\ t # "wafw00f" /\ t \notin {"sqlmap", "dalfox"}
        /\ t \notin {"xsstrike", "commix", "tplmap", "crlfuzz"}
        /\ t \notin {"smuggler", "h2csmuggler", "ssrfmap", "gopherus"}
        /\ t # "gowitness" /\ t # "aquatone"
    BY <1>1
  <1> QED
    BY <1>2, <1>3, <1>4 DEF Report

LEMMA RunBinaryMoves ==
    ASSUME IInv, NEW j \in Jobs, RunBinary(j)
    PROVE  /\ run[j].pc = "exec" /\ Keeps(j) /\ run'[j].pc = AfterRun(Current(j))
           /\ run'[j].err => run'[j].results = <<>>
  <1>0. PICK t : t = Current(j)
    OBVIOUS
  <1>1. PICK out :
           LET got == Run(t, order[j].target, order[j].creds, out, 9)
           IN /\ run[j].pc = "exec"
              /\ run' = [run EXCEPT ![j].pc = AfterRun(t), ![j].holds = SubSeq(@, 1, 1),
                             ![j].results = Report(t, got),
                             ![j].err = t \in Members("cloud") /\ CloudFails(t, got)]
    BY <1>0 DEF RunBinary
  <1> DEFINE got == Run(t, order[j].target, order[j].creds, out, 9)
             found == Report(t, got)
             failed == t \in Members("cloud") /\ CloudFails(t, got)
  <1>2. failed => found = <<>>
    BY CloudReports DEF CloudFails
  <1>3. /\ run[j].pc = "exec"
        /\ run' = [run EXCEPT ![j].pc = AfterRun(t), ![j].holds = SubSeq(@, 1, 1),
                              ![j].results = found, ![j].err = failed]
    BY <1>1
  <1> HIDE DEF found, failed
  <1>4. /\ run'[j].pc = AfterRun(t) /\ Keeps(j)
        /\ run'[j].results = found /\ run'[j].err = failed
    BY <1>3, JobIs DEF Keeps, IsRecord
  <1> QED
    BY <1>0, <1>2, <1>3, <1>4

-----------------------------------------------------------------------------
\* What every step leaves of what was before.
Grows ==
    /\ order' = order /\ failures' \in Nat /\ failures <= failures'
    /\ stored \subseteq stored'

LEMMA FailuresCount ==
    ASSUME failures \in Nat, NEW b \in BOOLEAN, WriteFault(b)
    PROVE  /\ failures' \in Nat /\ failures <= failures'
           /\ failures' = failures + (IF b THEN 1 ELSE 0)
  BY DEF WriteFault

\* A job leaves the others alone.
LEMMA JobFrame ==
    ASSUME IInv, ToldInv, NEW j \in Jobs, JobStep(j)
    PROVE  /\ Grows /\ outcomes' = [k \in Jobs |-> outcomes'[k]]
           /\ \A k \in Jobs \ {j} : run'[k] = run[k] /\ outcomes'[k] = outcomes[k]
  <1>0. /\ failures \in Nat /\ outcomes = [k \in Jobs |-> outcomes[k]]
        /\ run = [k \in Jobs |-> run[k]]
    BY JobIs DEF ToldInv, StoreIs
  <1>1. CASE SaveAssets(j)
    <2>1. PICK lost : WriteFault(lost # {}) /\ stored \subseteq stored'
      BY <1>1 DEF SaveAssets
    <2>2. failures' \in Nat /\ failures <= failures'
      BY <1>0, <2>1, FailuresCount
    <2>3. order' = order /\ outcomes' = outcomes
      BY <1>1 DEF SaveAssets
    <2>4. \A k \in Jobs \ {j} : run'[k] = run[k]
      BY <1>0, <1>1 DEF SaveAssets
    <2> QED
      BY <1>0, <2>1, <2>2, <2>3, <2>4 DEF Grows
  <1>2. CASE PersistRow(j)
    <2> DEFINE row == ToolRow(Current(j), run[j].results, run[j].err)
    <2>1. PICK fails \in BOOLEAN :
             /\ WriteFault(fails)
             /\ outcomes' = IF fails THEN outcomes ELSE [outcomes EXCEPT ![j] = Append(@, row)]
      BY <1>2 DEF PersistRow
    <2> HIDE DEF row
    <2>2. failures' \in Nat /\ failures <= failures'
      BY <1>0, <2>1, FailuresCount
    <2>3. order' = order /\ stored' = stored
      BY <1>2 DEF PersistRow
    <2>4. \A k \in Jobs \ {j} : run'[k] = run[k]
      BY <1>0, <1>2 DEF PersistRow
    <2>5. \A k \in Jobs \ {j} : outcomes'[k] = outcomes[k]
      BY <1>0, <2>1
    <2>6. outcomes' = [k \in Jobs |-> outcomes'[k]]
      BY <1>0, <2>1
    <2> QED
      BY <2>2, <2>3, <2>4, <2>5, <2>6 DEF Grows
  <1>3. ASSUME UNCHANGED <<order, outcomes, stored, failures>>,
               \A k \in Jobs \ {j} : run'[k] = run[k]
        PROVE  /\ Grows /\ outcomes' = [k \in Jobs |-> outcomes'[k]]
               /\ \A k \in Jobs \ {j} : run'[k] = run[k] /\ outcomes'[k] = outcomes[k]
    BY <1>0, <1>3 DEF Grows
  <1>4. CASE RunWorkflow(j)
    <2>1. \A k \in Jobs \ {j} : run'[k] = run[k]
      BY <1>0, <1>4 DEF RunWorkflow
    <2> QED
      BY <1>3, <1>4, <2>1 DEF RunWorkflow, OnlyRun
  <1>5. CASE NextStage(j)
    <2>1. \E n : run' = [run EXCEPT ![j] = n]
      <3>1. IsRecord(run[j])
        BY JobIs
      <3> QED
        BY <1>5 DEF NextStage
    <2>2. \A k \in Jobs \ {j} : run'[k] = run[k]
      BY <1>0, <2>1
    <2> QED
      BY <1>3, <1>5, <2>2 DEF NextStage, OnlyRun
  <1>6. CASE NextTool(j)
    <2>1. \A k \in Jobs \ {j} : run'[k] = run[k]
      BY <1>0, <1>6 DEF NextTool
    <2> QED
      BY <1>3, <1>6, <2>1 DEF NextTool, OnlyRun
  <1>7. CASE AcquireSlot(j)
    <2>1. \A k \in Jobs \ {j} : run'[k] = run[k]
      BY <1>0, <1>7 DEF AcquireSlot
    <2> QED
      BY <1>3, <1>7, <2>1 DEF AcquireSlot
  <1>8. CASE PassSpacing(j)
    <2>1. \A k \in Jobs \ {j} : run'[k] = run[k]
      BY <1>0, <1>8 DEF PassSpacing
    <2> QED
      BY <1>3, <1>8, <2>1 DEF PassSpacing, OnlyRun
  <1>9. CASE CheckTool(j)
    <2>1. \E n : run' = [run EXCEPT ![j] = n]
      BY <1>9 DEF CheckTool
    <2>2. \A k \in Jobs \ {j} : run'[k] = run[k]
      BY <1>0, <2>1
    <2> QED
      BY <1>3, <1>9, <2>2 DEF CheckTool, OnlyRun
  <1>10. CASE RunBinary(j)
    <2>0. PICK t : t = Current(j)
      OBVIOUS
    <2>1. PICK out :
             LET got == Run(t, order[j].target, order[j].creds, out, 9)
             IN run' = [run EXCEPT ![j].pc = AfterRun(t), ![j].holds = SubSeq(@, 1, 1),
                            ![j].results = Report(t, got),
                            ![j].err = t \in Members("cloud") /\ CloudFails(t, got)]
      BY <1>10, <2>0 DEF RunBinary
    <2> DEFINE got == Run(t, order[j].target, order[j].creds, out, 9)
               found == Report(t, got)
               failed == t \in Members("cloud") /\ CloudFails(t, got)
    <2>3. run' = [run EXCEPT ![j].pc = AfterRun(t), ![j].holds = SubSeq(@, 1, 1),
                             ![j].results = found, ![j].err = failed]
      BY <2>1
    <2> HIDE DEF found, failed
    <2>2. \A k \in Jobs \ {j} : run'[k] = run[k]
      BY <1>0, <2>3
    <2> QED
      BY <1>3, <1>10, <2>2 DEF RunBinary
  <1>11. CASE FinishTool(j)
    <2>1. \A k \in Jobs \ {j} : run'[k] = run[k]
      BY <1>0, <1>11 DEF FinishTool
    <2> QED
      BY <1>3, <1>11, <2>1 DEF FinishTool
  <1> QED
    BY <1>1, <1>2, <1>4, <1>5, <1>6, <1>7, <1>8, <1>9, <1>10, <1>11 DEF JobStep

-----------------------------------------------------------------------------
\* What stays as it is when little changes.
LEMMA HasAllKept ==
    ASSUME Grows, failures \in Nat, NEW j, NEW c, NEW items, HasAll(j, c, items)
    PROVE  HasAll(j, c, items)'
  <1>1. SUFFICES ASSUME c \in DOMAIN Wanted, NEW x \in items, NEW table \in Wanted[c]
                 PROVE  Asset(table, j, x)' \in stored' \/ failures' > 0
    BY DEF HasAll
  <1>2. Asset(table, j, x) \in stored \/ failures > 0
    BY <1>1 DEF HasAll
  <1>3. Asset(table, j, x)' = Asset(table, j, x)
    BY DEF Asset, Grows
  <1>4. stored \subseteq stored' /\ failures' \in Nat /\ failures <= failures'
    BY DEF Grows
  <1> QED
    BY <1>2, <1>3, <1>4

LEMMA OnwardsKept ==
    ASSUME order' = order, NEW j, Onwards(j),
           run'[j].stages = run[j].stages, run'[j].log = run[j].log
    PROVE  Onwards(j)' /\ Begun(j)' = Begun(j) /\ Noted(j)' = Noted(j)
  <1>1. StagesFor(j)' = StagesFor(j) /\ order'[j].workflow = order[j].workflow
    BY DEF StagesFor
  <1>2. Begun(j)' = Begun(j) /\ Noted(j)' = Noted(j)
    BY <1>1 DEF Begun, Noted
  <1> QED
    BY <1>1, <1>2 DEF Onwards

LEMMA StageKept ==
    ASSUME order' = order, NEW j, Keeps(j), AtTool(j), AtTool(j)', StageIs(j),
           run[j].todo # <<>>
    PROVE  StageIs(j)'
  <1>1. Onwards(j) /\ AtStage(j)
    BY DEF StageIs, AtTool, Idle
  <1>2. Onwards(j)' /\ Begun(j)' = Begun(j) /\ Noted(j)' = Noted(j)
    BY <1>1, OnwardsKept DEF Keeps
  <1>3. StagesFor(j)' = StagesFor(j) /\ order'[j].workflow = order[j].workflow
    BY DEF StagesFor
  <1>4. run'[j].todo = run[j].todo
    BY DEF Keeps
  <1>5. AtStage(j)'
    BY <1>1, <1>2, <1>3, <1>4 DEF AtStage
  <1> QED
    BY <1>2, <1>5 DEF StageIs, AtTool, Idle, Between

LEMMA RowsKept ==
    ASSUME Grows, failures \in Nat, NEW j, outcomes'[j] = outcomes[j],
           run'[j].log = run[j].log, RowsAre(j), RowTried(j)' <=> RowTried(j),
           RowTried(j) => Current(j)' = Current(j) /\ Status(j)' = Status(j)
    PROVE  RowsAre(j)'
  <1>1. IsSeq(outcomes[j]) /\ Len(outcomes[j]) \in Nat
    BY SeqIs DEF RowsAre
  <1> DEFINE tried == IF RowTried(j) THEN 1 ELSE 0
             n == Cardinality(OfTools(run[j].log)) + tried
  <1>2. n \in Len(outcomes[j])..(Len(outcomes[j]) + failures)
    BY DEF RowsAre
  <1>3. n' = n
    OBVIOUS
  <1>4. n' \in Len(outcomes'[j])..(Len(outcomes'[j]) + failures')
    <2> HIDE DEF n
    <2>1. failures' \in Nat /\ failures <= failures'
      BY DEF Grows
    <2> QED
      BY <1>1, <1>2, <1>3, <2>1
  <1>5. \A i \in 1..Len(outcomes[j]) :
          \/ \E k \in OfTools(run[j].log) : /\ run[j].log[k].tool = outcomes[j][i].tool
                                            /\ run[j].log[k].status = outcomes[j][i].status
          \/ /\ RowTried(j)
             /\ outcomes[j][i].tool = Current(j) /\ outcomes[j][i].status = Status(j)
    BY DEF RowsAre
  <1>6. \A i \in 1..Len(outcomes'[j]) :
          \/ \E k \in OfTools(run'[j].log) : /\ run'[j].log[k].tool = outcomes'[j][i].tool
                                             /\ run'[j].log[k].status = outcomes'[j][i].status
          \/ /\ RowTried(j)'
             /\ outcomes'[j][i].tool = Current(j)' /\ outcomes'[j][i].status = Status(j)'
    <2> HIDE DEF RowTried
    <2> QED
      BY <1>5
  <1> HIDE DEF RowTried
  <1> QED
    BY <1>1, <1>4, <1>6 DEF RowsAre

LEMMA CMSKept ==
    ASSUME NEW j, outcomes'[j] = outcomes[j], CMSIs(j), PastGuard(j)' => PastGuard(j)
    PROVE  CMSIs(j)'
  BY DEF CMSIs, Fingerprints

\* The rows of before stay backed when none waits for its assets any more.
LEMMA BackedKept ==
    ASSUME Grows, failures \in Nat, NEW j, outcomes'[j] = outcomes[j], BackedIs(j),
           run[j].pc # "save"
    PROVE  (\A i \in 1..Len(outcomes[j]) : BackedRow(j, outcomes[j][i]))'
  <1>1. SUFFICES ASSUME NEW i \in 1..Len(outcomes[j])
                 PROVE  BackedRow(j, outcomes[j][i])'
    OBVIOUS
  <1>2. PICK row : row = outcomes[j][i]
    OBVIOUS
  <1>3. HasAll(j, CategoryOf(row.tool), row.items)
    BY <1>1, <1>2 DEF BackedIs, BackedRow
  <1>4. HasAll(j, CategoryOf(row.tool), row.items)'
    BY <1>3, HasAllKept
  <1>5. BackedRow(j, row)'
    BY <1>4 DEF BackedRow
  <1>6. outcomes'[j][i] = row
    BY <1>2
  <1> QED
    BY <1>5, <1>6

-----------------------------------------------------------------------------
\* What is stored before the row of results, or after it, and what is not.
LEMMA WantedIs ==
    /\ DOMAIN Wanted = {"network", "fingerprint", "takeover", "cloud"}
    /\ Wanted["network"] = {"service", "host", "history", "range"}
    /\ Wanted["fingerprint"] = {"technology"} /\ Wanted["takeover"] = {"takeover"}
    /\ Wanted["cloud"] = {"cloud"}
  BY DEF Wanted

LEMMA EarlyOrLate ==
    ASSUME NEW t
    PROVE  /\ Early(t) => ~Late(t)
           /\ ~Early(t) /\ ~Late(t) => CategoryOf(t) \notin DOMAIN Wanted
           /\ AfterRun(t) = "save" => Early(t)
           /\ AfterRun(t) = "row" => ~Early(t)
           /\ AfterRun(t) \in {"save", "row"}
  BY WantedIs DEF Early, Late, AfterRun

LEMMA ScannersAre ==
    ASSUME NEW t \in Scanners
    PROVE  ~Early(t) /\ ~Late(t)
  <1>1. t \in Members("vulnerability") /\ "vulnerability" \in DOMAIN workflowToolOrder
    BY MembersAre, CategoriesAre DEF Scanners
  <1>2. CategoryOf(t) = "vulnerability"
    BY <1>1, CategoryIs
  <1> QED
    BY <1>2 DEF Early, Late

\* A job that has no results has found nothing.
LEMMA NothingFound ==
    ASSUME NEW j, run[j].results = <<>>
    PROVE  Found(j) = {}
  BY DEF Found, ToSet

-----------------------------------------------------------------------------
\* The steps of the other jobs, and of the registry.
LEMMA OthersKept ==
    ASSUME Grows, failures \in Nat, NEW k \in Jobs, run'[k] = run[k],
           outcomes'[k] = outcomes[k], JobIsTold(k)
    PROVE  JobIsTold(k)'
  <1>0. order' = order
    BY DEF Grows
  <1>1. StageIs(k) /\ RowsAre(k) /\ CMSIs(k) /\ BackedIs(k)
    BY DEF JobIsTold
  <1>2. /\ Current(k)' = Current(k) /\ Status(k)' = Status(k) /\ (RowTried(k)' <=> RowTried(k))
        /\ (PastGuard(k)' <=> PastGuard(k)) /\ Found(k)' = Found(k)
    BY DEF Current, Status, RowTried, PastGuard, Found
  <1>3. StageIs(k)'
    <2>1. StagesFor(k)' = StagesFor(k) /\ Begun(k)' = Begun(k) /\ Noted(k)' = Noted(k)
      BY <1>0 DEF StagesFor, Begun, Noted
    <2>2. /\ Idle(k)' <=> Idle(k)
          /\ Between(k)' <=> Between(k)
          /\ AtTool(k)' <=> AtTool(k)
      BY DEF Idle, Between, AtTool
    <2>3. Onwards(k)' <=> Onwards(k)
      BY <1>0, <2>1 DEF Onwards
    <2>4. AtStage(k)' <=> AtStage(k)
      BY <1>0, <2>1 DEF AtStage
    <2> QED
      BY <1>1, <2>1, <2>2, <2>3, <2>4 DEF StageIs
  <1>4. RowsAre(k)'
    BY <1>1, <1>2, RowsKept
  <1>5. CMSIs(k)'
    BY <1>1, <1>2, CMSKept
  <1>6. BackedIs(k)'
    <2>1. ASSUME NEW i \in 1..Len(outcomes[k])
          PROVE  BackedRow(k, outcomes[k][i])'
      <3>1. PICK row : row = outcomes[k][i]
        OBVIOUS
      <3>2. BackedRow(k, row)
        BY <1>1, <2>1, <3>1 DEF BackedIs
      <3>3. HasAll(k, CategoryOf(row.tool), row.items)
              => HasAll(k, CategoryOf(row.tool), row.items)'
        BY HasAllKept
      <3>4. BackedRow(k, row)'
        BY <1>2, <3>2, <3>3 DEF BackedRow
      <3>5. outcomes'[k][i] = row
        BY <3>1
      <3> QED
        BY <3>4, <3>5
    <2>2. run[k].pc = "row" /\ Early(Current(k)) => HasAll(k, CategoryOf(Current(k)), Found(k))'
      <3>1. PICK c, items : c = CategoryOf(Current(k)) /\ items = Found(k)
        OBVIOUS
      <3>2. HasAll(k, c, items) => HasAll(k, c, items)'
        BY HasAllKept
      <3>3. run[k].pc = "row" /\ Early(Current(k)) => HasAll(k, c, items)
        BY <1>1, <3>1 DEF BackedIs
      <3>4. c = CategoryOf(Current(k))' /\ items = Found(k)'
        BY <1>2, <3>1
      <3> QED
        BY <3>2, <3>3, <3>4
    <2>3. /\ run[k].pc = "check" => run[k].results = <<>>
          /\ run[k].pc \in {"save", "row"} /\ run[k].err => run[k].results = <<>>
          /\ run[k].pc = "save" => Early(Current(k)) \/ Late(Current(k))
      BY <1>1 DEF BackedIs
    <2> QED
      BY <1>2, <2>1, <2>2, <2>3 DEF BackedIs
  <1> QED
    BY <1>3, <1>4, <1>5, <1>6 DEF JobIsTold

-----------------------------------------------------------------------------
\* The steps that write neither a row nor an entry.
QuietlyTold(j) ==
    /\ outcomes'[j] = outcomes[j] /\ run'[j].log = run[j].log
    /\ run[j].pc \notin {"save", "log"} /\ run'[j].pc # "log"
    /\ PastGuard(j)' => Fingerprints(j)
    /\ run'[j].pc = "check" => run'[j].results = <<>>
    /\ run'[j].pc \in {"save", "row"} /\ run'[j].err => run'[j].results = <<>>
    /\ run'[j].pc = "save" => Early(Current(j))'
    /\ run'[j].pc = "row" => run'[j].results = <<>> \/ ~Early(Current(j))'

LEMMA QuietKept ==
    ASSUME Grows, failures \in Nat, NEW j, JobIsTold(j), StageIs(j)', QuietlyTold(j)
    PROVE  JobIsTold(j)'
  <1>1. StageIs(j) /\ RowsAre(j) /\ CMSIs(j) /\ BackedIs(j)
    BY DEF JobIsTold
  <1>2. ~RowTried(j) /\ ~RowTried(j)'
    <2>1. run'[j].pc = "save" => Early(Current(j)')
      BY DEF QuietlyTold
    <2>2. Early(Current(j)') => ~Late(Current(j)')
      BY EarlyOrLate
    <2> QED
      BY <2>1, <2>2 DEF QuietlyTold, RowTried
  <1>3. RowsAre(j)'
    BY <1>1, <1>2, RowsKept DEF QuietlyTold
  <1>4. CMSIs(j)'
    BY <1>1 DEF CMSIs, Fingerprints, QuietlyTold
  <1>5. BackedIs(j)'
    <2>1. (\A i \in 1..Len(outcomes[j]) : BackedRow(j, outcomes[j][i]))'
      BY <1>1, BackedKept DEF QuietlyTold
    <2>2. run'[j].pc = "row" /\ Early(Current(j))' =>
             HasAll(j, CategoryOf(Current(j)), Found(j))'
      <3>1. SUFFICES ASSUME run'[j].pc = "row", Early(Current(j))'
                     PROVE  HasAll(j, CategoryOf(Current(j)), Found(j))'
        OBVIOUS
      <3>2. run'[j].results = <<>>
        BY <3>1 DEF QuietlyTold
      <3>3. Found(j)' = {}
        BY <3>2 DEF Found, ToSet
      <3> QED
        BY <3>3 DEF HasAll
    <2> QED
      BY <2>1, <2>2 DEF BackedIs, QuietlyTold
  <1> QED
    BY <1>1, <1>3, <1>4, <1>5 DEF JobIsTold

LEMMA RunWorkflowTold ==
    ASSUME IInv, ToldInv, NEW j \in Jobs, RunWorkflow(j)
    PROVE  JobIsTold(j)'
  <1>1. /\ run[j].pc = "idle" /\ run'[j].pc = "stage"
        /\ run'[j].stages = StagesFor(j) /\ run'[j].log = run[j].log
    BY RunWorkflowMoves
  <1>2. Grows /\ failures \in Nat /\ JobIsTold(j)
    BY JobFrame DEF JobStep, ToldInv, StoreIs
  <1>3. order' = order /\ outcomes' = outcomes
    BY DEF RunWorkflow, OnlyRun
  <1>4. run[j].log = <<>>
    BY <1>1, <1>2 DEF JobIsTold, StageIs, Idle
  <1>5. IsSeq(StagesFor(j)) /\ Len(StagesFor(j)) \in Nat /\ StagesFor(j)' = StagesFor(j)
    <2>1. order[j].workflow \in DOMAIN workflowStages
      BY ToolsAssumption DEF ToldInv
    <2>2. IsSeq(StagesFor(j))
      BY <2>1, StagesAre DEF StagesFit, StagesFor
    <2> QED
      BY <1>3, <2>2, SeqIs DEF StagesFor
  <1>6. Begun(j)' = 0
    BY <1>1, <1>5 DEF Begun
  <1>7. Noted(j)' = 0
    <2>1. Len(run'[j].log) = 0
      BY <1>1, <1>4, NothingIs
    <2>2. Opened(run'[j].log, order'[j].workflow, 0) = 0
      BY OpenedIs
    <2> QED
      BY <2>1, <2>2 DEF Noted
  <1>8. Onwards(j)'
    <2>1. IsSeq(run'[j].log) /\ Len(run'[j].log) = 0
      BY <1>1, <1>4, NothingIs
    <2>2. \A i \in 1..Len(run'[j].stages) : run'[j].stages[i] = StagesFor(j)'[Begun(j)' + i]
      BY <1>1, <1>5, <1>6
    <2> QED
      BY <1>1, <1>5, <2>1, <2>2 DEF Onwards
  <1>9. StageIs(j)'
    BY <1>1, <1>6, <1>7, <1>8 DEF StageIs, Idle, Between, AtTool
  <1>10. QuietlyTold(j)
    BY <1>1, <1>3 DEF QuietlyTold, PastGuard
  <1> QED
    BY <1>2, <1>9, <1>10, QuietKept

\* A CMS scanner that is not turned away has what it waits for.
LEMMA GuardPassed ==
    ASSUME NEW j, IsSeq(outcomes[j]), NEW t \in Scanners, ~Unsuited(j, t)
    PROVE  Fingerprints(j)
  <1>1. t = "wpscan" \/ t = "droopescan"
    BY DEF Scanners
  <1>2. t \notin Members("secrets")
    BY <1>1, MembersAre
  <1>3. PICK names : Detected(j, names)
    BY <1>1, <1>2 DEF Unsuited
  <1>4. DOMAIN outcomes[j] = 1..Len(outcomes[j])
    BY SeqIs
  <1> QED
    BY <1>3, <1>4 DEF Detected, Fingerprints, Fingerprinted

LEMMA NextToolTold ==
    ASSUME IInv, ToldInv, NEW j \in Jobs, NextTool(j)
    PROVE  JobIsTold(j)'
  <1>1. /\ run[j].pc = "tool" /\ Keeps(j)
        /\ \/ run[j].todo = <<>> /\ run'[j].pc = "stage"
           \/ /\ run[j].todo # <<>> /\ run'[j].pc = "row"
              /\ run'[j].results = <<>> /\ run'[j].err = FALSE
           \/ run[j].todo # <<>> /\ ~Unsuited(j, Current(j)) /\ run'[j].pc = "wait"
    BY NextToolMoves
  <1>2. Grows /\ failures \in Nat /\ JobIsTold(j)
    BY JobFrame DEF JobStep, ToldInv, StoreIs
  <1>3. order' = order /\ outcomes' = outcomes /\ Current(j)' = Current(j)
    BY <1>1 DEF NextTool, OnlyRun, Keeps, Current
  <1>4. StageIs(j) /\ RowsAre(j) /\ AtTool(j)
    BY <1>1, <1>2 DEF JobIsTold, AtTool
  <1>5. CASE run[j].todo = <<>> /\ run'[j].pc = "stage"
    <2>1. Onwards(j) /\ AtStage(j)
      BY <1>4 DEF StageIs, AtTool, Idle
    <2>2. Onwards(j)' /\ Begun(j)' = Begun(j) /\ Noted(j)' = Noted(j)
      BY <1>1, <1>3, <2>1, OnwardsKept DEF Keeps
    <2>3. Noted(j) = Begun(j)
      BY <1>5, <2>1 DEF AtStage
    <2>4. StageIs(j)'
      BY <1>5, <2>2, <2>3 DEF StageIs, Idle, Between, AtTool
    <2>5. QuietlyTold(j)
      BY <1>1, <1>3, <1>5 DEF QuietlyTold, PastGuard, Keeps
    <2> QED
      BY <1>2, <2>4, <2>5, QuietKept
  <1>6. CASE /\ run[j].todo # <<>> /\ run'[j].pc = "row"
             /\ run'[j].results = <<>> /\ run'[j].err = FALSE
    <2>1. AtTool(j)'
      BY <1>6 DEF AtTool
    <2>2. StageIs(j)'
      BY <1>1, <1>3, <1>4, <1>6, <2>1, StageKept
    <2>3. QuietlyTold(j)
      BY <1>1, <1>3, <1>6 DEF QuietlyTold, PastGuard, Keeps
    <2> QED
      BY <1>2, <2>2, <2>3, QuietKept
  <1>7. CASE run[j].todo # <<>> /\ ~Unsuited(j, Current(j)) /\ run'[j].pc = "wait"
    <2>1. AtTool(j)'
      BY <1>7 DEF AtTool
    <2>2. StageIs(j)'
      BY <1>1, <1>3, <1>4, <1>7, <2>1, StageKept
    <2>3. Current(j) \in Scanners => Fingerprints(j)
      BY <1>4, <1>7, GuardPassed DEF RowsAre
    <2>4. PastGuard(j)' => Fingerprints(j)
      BY <1>3, <2>3 DEF PastGuard
    <2>5. QuietlyTold(j)
      BY <1>1, <1>3, <1>7, <2>4 DEF QuietlyTold, Keeps
    <2> QED
      BY <1>2, <2>2, <2>5, QuietKept
  <1> QED
    BY <1>1, <1>5, <1>6, <1>7

-----------------------------------------------------------------------------
\* The steps of a tool that runs.
LEMMA ToolGoesOn ==
    ASSUME order' = order, NEW j, Keeps(j), StageIs(j),
           run[j].pc \notin {"idle", "stage", "done", "tool"},
           run'[j].pc \notin {"idle", "stage", "done"}
    PROVE  StageIs(j)' /\ Current(j)' = Current(j)
  <1>1. AtTool(j) /\ AtTool(j)'
    BY DEF AtTool
  <1>2. run[j].todo # <<>>
    BY <1>1 DEF StageIs, AtStage
  <1> QED
    BY <1>1, <1>2, StageKept DEF Keeps, Current

LEMMA AcquireSlotTold ==
    ASSUME IInv, ToldInv, NEW j \in Jobs, AcquireSlot(j)
    PROVE  JobIsTold(j)'
  <1>1. run[j].pc = "wait" /\ run'[j].pc = "space" /\ Keeps(j)
    BY AcquireSlotMoves DEF KeepsAll
  <1>2. Grows /\ failures \in Nat /\ JobIsTold(j)
    BY JobFrame DEF JobStep, ToldInv, StoreIs
  <1>3. order' = order /\ outcomes' = outcomes
    BY DEF AcquireSlot
  <1>4. StageIs(j)' /\ Current(j)' = Current(j)
    BY <1>1, <1>2, <1>3, ToolGoesOn DEF JobIsTold
  <1>5. PastGuard(j)' => Fingerprints(j)
    BY <1>1, <1>2, <1>4 DEF PastGuard, JobIsTold, CMSIs
  <1>6. QuietlyTold(j)
    BY <1>1, <1>3, <1>5 DEF QuietlyTold, Keeps
  <1> QED
    BY <1>2, <1>4, <1>6, QuietKept

LEMMA PassSpacingTold ==
    ASSUME IInv, ToldInv, NEW j \in Jobs, PassSpacing(j)
    PROVE  JobIsTold(j)'
  <1>1. /\ run[j].pc = "space" /\ run'[j].pc \in {"row", "exec", "check"} /\ Keeps(j)
        /\ run'[j].results = <<>> /\ run'[j].err = FALSE
    BY PassSpacingMoves
  <1>2. Grows /\ failures \in Nat /\ JobIsTold(j)
    BY JobFrame DEF JobStep, ToldInv, StoreIs
  <1>3. order' = order /\ outcomes' = outcomes
    BY DEF PassSpacing, OnlyRun
  <1>4. StageIs(j)' /\ Current(j)' = Current(j)
    BY <1>1, <1>2, <1>3, ToolGoesOn DEF JobIsTold
  <1>5. PastGuard(j)' => Fingerprints(j)
    BY <1>1, <1>2, <1>4 DEF PastGuard, JobIsTold, CMSIs
  <1>6. QuietlyTold(j)
    BY <1>1, <1>3, <1>5 DEF QuietlyTold, Keeps
  <1> QED
    BY <1>2, <1>4, <1>6, QuietKept

LEMMA CheckToolTold ==
    ASSUME IInv, ToldInv, NEW j \in Jobs, CheckTool(j)
    PROVE  JobIsTold(j)'
  <1>1. /\ run[j].pc = "check" /\ Keeps(j) /\ run'[j].results = run[j].results
        /\ run'[j].pc \in {"wait", "exec"} \/ run'[j].pc = AfterRun(Current(j))
    BY CheckToolMoves
  <1>2. Grows /\ failures \in Nat /\ JobIsTold(j)
    BY JobFrame DEF JobStep, ToldInv, StoreIs
  <1>3. order' = order /\ outcomes' = outcomes
    BY DEF CheckTool, OnlyRun
  <1>4. /\ run'[j].pc \in {"wait", "exec", "save", "row"}
        /\ run'[j].pc = "save" => Early(Current(j))
    BY <1>1, EarlyOrLate
  <1>5. StageIs(j)' /\ Current(j)' = Current(j)
    BY <1>1, <1>2, <1>3, <1>4, ToolGoesOn DEF JobIsTold
  <1>6. run'[j].results = <<>>
    BY <1>1, <1>2 DEF JobIsTold, BackedIs
  <1>7. PastGuard(j)' => Fingerprints(j)
    BY <1>1, <1>2, <1>5 DEF PastGuard, JobIsTold, CMSIs
  <1>8. QuietlyTold(j)
    BY <1>1, <1>3, <1>4, <1>5, <1>6, <1>7 DEF QuietlyTold, Keeps
  <1> QED
    BY <1>2, <1>5, <1>8, QuietKept

LEMMA RunBinaryTold ==
    ASSUME IInv, ToldInv, NEW j \in Jobs, RunBinary(j)
    PROVE  JobIsTold(j)'
  <1>1. /\ run[j].pc = "exec" /\ Keeps(j) /\ run'[j].pc = AfterRun(Current(j))
        /\ run'[j].err => run'[j].results = <<>>
    BY RunBinaryMoves
  <1>2. Grows /\ failures \in Nat /\ JobIsTold(j)
    BY JobFrame DEF JobStep, ToldInv, StoreIs
  <1>3. order' = order /\ outcomes' = outcomes
    BY DEF RunBinary
  <1>4. /\ run'[j].pc \in {"save", "row"}
        /\ run'[j].pc = "save" => Early(Current(j))
        /\ run'[j].pc = "row" => ~Early(Current(j))
    BY <1>1, EarlyOrLate
  <1>5. StageIs(j)' /\ Current(j)' = Current(j)
    BY <1>1, <1>2, <1>3, <1>4, ToolGoesOn DEF JobIsTold
  <1>6. PastGuard(j)' => Fingerprints(j)
    BY <1>1, <1>2, <1>5 DEF PastGuard, JobIsTold, CMSIs
  <1>7. QuietlyTold(j)
    BY <1>1, <1>3, <1>4, <1>5, <1>6 DEF QuietlyTold, Keeps
  <1> QED
    BY <1>2, <1>5, <1>7, QuietKept

-----------------------------------------------------------------------------
\* The steps of the harvest of a tool.
LEMMA PersistRowTold ==
    ASSUME IInv, ToldInv, NEW j \in Jobs, PersistRow(j)
    PROVE  JobIsTold(j)'
  <1>1. /\ run[j].pc = "row" /\ Keeps(j) /\ run'[j].results = run[j].results
        /\ run'[j].err = run[j].err
        /\ run'[j].pc = IF Late(Current(j)) THEN "save" ELSE "log"
    BY PersistRowMoves DEF KeepsAll
  <1>2. Grows /\ failures \in Nat /\ JobIsTold(j)
    BY JobFrame DEF JobStep, ToldInv, StoreIs
  <1>3. PICK row : row = ToolRow(Current(j), run[j].results, run[j].err)
    OBVIOUS
  <1>4. PICK fails \in BOOLEAN :
           /\ WriteFault(fails)
           /\ outcomes' = IF fails THEN outcomes ELSE [outcomes EXCEPT ![j] = Append(@, row)]
    BY <1>3 DEF PersistRow
  <1>5. /\ row.tool = Current(j) /\ row.items = Found(j) /\ row.status = Status(j)
    BY <1>3 DEF ToolRow, Found, Status
  <1>6. StageIs(j) /\ RowsAre(j) /\ CMSIs(j) /\ BackedIs(j) /\ order' = order
    BY <1>2 DEF JobIsTold, Grows
  <1>7. StageIs(j)' /\ Current(j)' = Current(j)
    BY <1>1, <1>6, ToolGoesOn
  <1>8. /\ RowTried(j)' /\ ~RowTried(j) /\ Status(j)' = Status(j) /\ Found(j)' = Found(j)
        /\ ~PastGuard(j)'
    BY <1>1, <1>7 DEF RowTried, Status, Found, PastGuard
  <1> DEFINE rows == outcomes[j]
             more == Append(rows, row)
             log == run[j].log
             n == Len(rows)
  <1>9. IsSeq(rows) /\ n \in Nat
    BY <1>6, SeqIs DEF RowsAre
  <1>10. /\ IsSeq(more) /\ Len(more) = n + 1
         /\ \A i \in 1..n : more[i] = rows[i]
         /\ more[n + 1] = row
    BY <1>9, AppendIs
  <1>11. \/ fails /\ outcomes'[j] = rows /\ failures' = failures + 1
         \/ ~fails /\ outcomes'[j] = more /\ failures' = failures
    <2>1. failures' = failures + (IF fails THEN 1 ELSE 0)
      BY <1>2, <1>4, FailuresCount
    <2>2. outcomes = [k \in Jobs |-> outcomes[k]]
      BY DEF ToldInv
    <2> QED
      BY <1>2, <1>4, <2>1, <2>2
  <1>12. /\ Cardinality(OfTools(log)) \in n..(n + failures)
         /\ \A i \in 1..n : \E k \in OfTools(log) : /\ log[k].tool = rows[i].tool
                                                     /\ log[k].status = rows[i].status
    <2>1. Cardinality(OfTools(log)) \in Nat
      BY <1>1, <1>6, ToolEntries DEF StageIs, Idle, Onwards
    <2>2. Cardinality(OfTools(log)) + (IF RowTried(j) THEN 1 ELSE 0) \in n..(n + failures)
      BY <1>6 DEF RowsAre
    <2>3. Cardinality(OfTools(log)) \in n..(n + failures)
      BY <1>8, <2>1, <2>2
    <2>4. ASSUME NEW i \in 1..n
          PROVE  \E k \in OfTools(log) : /\ log[k].tool = rows[i].tool
                                         /\ log[k].status = rows[i].status
      BY <1>6, <1>8 DEF RowsAre
    <2> QED
      BY <2>3, <2>4
  <1>13. run'[j].log = log
    BY <1>1 DEF Keeps
  <1>14. (\A i \in 1..n : BackedRow(j, rows[i]))' \/ ~fails
    <2>1. CASE fails
      <3>1. outcomes'[j] = outcomes[j]
        BY <1>11, <2>1
      <3> QED
        BY <1>1, <1>2, <1>6, <3>1, BackedKept
    <2> QED
      BY <2>1
  <1>15. ASSUME NEW i \in 1..n, NEW x, x = rows[i]
         PROVE  BackedRow(j, x)'
    <2>1. HasAll(j, CategoryOf(x.tool), x.items)
      BY <1>1, <1>6, <1>15 DEF BackedIs, BackedRow
    <2>2. HasAll(j, CategoryOf(x.tool), x.items)'
      BY <1>2, <2>1, HasAllKept
    <2> QED
      BY <2>2 DEF BackedRow
  <1>16. BackedRow(j, row)'
    <2>1. CASE Late(Current(j))
      BY <1>1, <1>5, <1>7, <1>8, <2>1 DEF BackedRow
    <2>2. CASE Early(Current(j))
      <3>1. HasAll(j, CategoryOf(row.tool), row.items)
        BY <1>1, <1>5, <1>6, <2>2 DEF BackedIs
      <3>2. HasAll(j, CategoryOf(row.tool), row.items)'
        BY <1>2, <3>1, HasAllKept
      <3> QED
        BY <3>2 DEF BackedRow
    <2>3. CASE ~Early(Current(j)) /\ ~Late(Current(j))
      <3>1. CategoryOf(row.tool) \notin DOMAIN Wanted
        BY <1>5, <2>3, EarlyOrLate
      <3> QED
        BY <3>1 DEF BackedRow, HasAll
    <2> QED
      BY <2>1, <2>2, <2>3
  <1>17. /\ run'[j].pc # "check" /\ run'[j].pc # "row"
         /\ run'[j].pc = "save" => Late(Current(j))'
         /\ run'[j].err => run'[j].results = <<>>
    BY <1>1, <1>6, <1>7 DEF BackedIs
  <1>18. CASE fails
    <2>1. outcomes'[j] = rows /\ failures' = failures + 1
      BY <1>11, <1>18
    <2>2. RowsAre(j)'
      <3>1. Cardinality(OfTools(log)) + 1 \in n..(n + failures')
        <4> HIDE DEF n, log
        <4> QED
          BY <1>2, <1>9, <1>12, <2>1
      <3> QED
        BY <1>8, <1>9, <1>12, <1>13, <2>1, <3>1 DEF RowsAre
    <2>3. CMSIs(j)'
      BY <1>6, <1>8, <2>1, CMSKept
    <2>4. BackedIs(j)'
      BY <1>14, <1>17, <1>18, <2>1 DEF BackedIs
    <2> QED
      BY <1>7, <2>2, <2>3, <2>4 DEF JobIsTold
  <1>19. CASE ~fails
    <2>1. outcomes'[j] = more /\ failures' = failures
      BY <1>11, <1>19
    <2> HIDE DEF more
    <2>2. RowsAre(j)'
      <3>1. Cardinality(OfTools(log)) + 1 \in (n + 1)..(n + 1 + failures')
        <4> HIDE DEF n, log
        <4> QED
          BY <1>2, <1>9, <1>12, <2>1
      <3>2. ASSUME NEW i \in 1..(n + 1)
            PROVE  \/ \E k \in OfTools(log) : /\ log[k].tool = more[i].tool
                                              /\ log[k].status = more[i].status
                   \/ more[i].tool = Current(j) /\ more[i].status = Status(j)
        <4>1. CASE i = n + 1
          BY <1>5, <1>10, <4>1
        <4>2. CASE i \in 1..n
          BY <1>10, <1>12, <4>2
        <4> QED
          BY <1>9, <4>1, <4>2
      <3> QED
        BY <1>7, <1>8, <1>10, <1>13, <2>1, <3>1, <3>2 DEF RowsAre
    <2>3. CMSIs(j)'
      <3>1. ASSUME NEW i \in 1..(n + 1), more[i].tool \in Scanners, more[i].items # {}
            PROVE  Fingerprinted(more, i - 1)
        <4>1. \A m \in 0..n : Fingerprinted(rows, m) => Fingerprinted(more, m)
          BY <1>9, <1>10 DEF Fingerprinted
        <4>2. CASE i = n + 1
          <5>1. Current(j) \in Scanners /\ Found(j) # {}
            BY <1>5, <1>10, <3>1, <4>2
          <5>2. run[j].results # <<>>
            BY <5>1, NothingFound
          <5>3. Fingerprinted(rows, n)
            BY <1>1, <1>6, <5>1, <5>2 DEF CMSIs, PastGuard, Fingerprints
          <5> QED
            BY <1>9, <4>1, <4>2, <5>3
        <4>3. CASE i \in 1..n
          <5>1. Fingerprinted(rows, i - 1)
            BY <1>6, <1>10, <3>1, <4>3 DEF CMSIs
          <5>2. i - 1 \in 0..n
            BY <1>9, <4>3
          <5> QED
            BY <4>1, <5>1, <5>2
        <4> QED
          BY <1>9, <4>2, <4>3
      <3> QED
        BY <1>8, <1>10, <2>1, <3>1 DEF CMSIs
    <2>4. BackedIs(j)'
      <3>1. ASSUME NEW i \in 1..(n + 1), NEW x, x = more[i]
            PROVE  BackedRow(j, x)'
        <4>1. CASE i = n + 1
          BY <1>10, <1>16, <3>1, <4>1
        <4>2. CASE i \in 1..n
          BY <1>10, <1>15, <3>1, <4>2
        <4> QED
          BY <1>9, <4>1, <4>2
      <3>2. ASSUME NEW i \in 1..Len(outcomes'[j])
            PROVE  BackedRow(j, outcomes[j][i])'
        <4>1. i \in 1..(n + 1)
          BY <1>10, <2>1, <3>2
        <4>2. PICK x : x = more[i]
          OBVIOUS
        <4>3. BackedRow(j, x)'
          BY <3>1, <4>1, <4>2
        <4>4. outcomes'[j][i] = x
          BY <2>1, <4>2
        <4> QED
          BY <4>3, <4>4
      <3> QED
        BY <1>17, <3>2 DEF BackedIs
    <2> QED
      BY <1>7, <2>2, <2>3, <2>4 DEF JobIsTold
  <1> QED
    BY <1>18, <1>19

-----------------------------------------------------------------------------
\* An entry goes with the stage at hand: it opens it, unless one before it did
\* and the stage runs all its tools.
LEMMA EntryFits ==
    ASSUME NEW log, IsSeq(log), NEW e, NEW w, StagesFit(w), NEW b \in 1..Len(workflowStages[w]),
           \A i \in 1..Len(log) : /\ Opened(log, w, i) \in 1..b
                                  /\ log[i].stage = workflowStages[w][Opened(log, w, i)],
           e.stage = workflowStages[w][b],
           \/ Opened(log, w, Len(log)) = b - 1
           \/ Opened(log, w, Len(log)) = b /\ RunAll(w, workflowStages[w][b])
    PROVE  LET more == Append(log, e)
           IN /\ Opened(more, w, Len(more)) = b
              /\ \A i \in 1..Len(more) : /\ Opened(more, w, i) \in 1..b
                                         /\ more[i].stage = workflowStages[w][Opened(more, w, i)]
  <1> DEFINE more == Append(log, e)
             n == Len(log)
             S == workflowStages[w]
  <1>1. n \in Nat /\ b \in Nat /\ 1 <= b
    BY SeqIs DEF StagesFit
  <1>2. /\ Len(more) = n + 1 /\ more[n + 1] = e
        /\ \A i \in 1..n : more[i] = log[i]
    BY AppendIs
  <1>3. \A i \in 0..n : Opened(more, w, i) = Opened(log, w, i)
    BY OpenedStays
  <1>4. Opened(more, w, n + 1) = Opened(more, w, n) + (IF Opens(more, w, n + 1) THEN 1 ELSE 0)
    BY <1>1, OpenedIs
  <1>5. Opened(more, w, n) = Opened(log, w, n)
    BY <1>1, <1>3
  <1> HIDE DEF more
  <1>6. Opened(more, w, n + 1) = b
    <2>1. CASE Opened(log, w, n) = b - 1
      <3>1. Opens(more, w, n + 1)
        <4>1. SUFFICES ASSUME n + 1 > 1, RunAll(w, e.stage)
                       PROVE  more[n].stage # e.stage
          BY <1>1, <1>2 DEF Opens
        <4>2. n \in 1..n
          BY <1>1, <4>1
        <4>3. Opened(log, w, n) \in 1..b /\ log[n].stage = S[Opened(log, w, n)]
          BY <4>2
        <4>4. more[n].stage = S[b - 1] /\ b \in 2..Len(S)
          BY <1>1, <1>2, <2>1, <4>2, <4>3
        <4>5. S[b - 1] # S[b]
          BY <4>1, <4>4 DEF StagesFit
        <4> QED
          BY <4>4, <4>5
      <3> QED
        BY <1>1, <1>4, <1>5, <2>1, <3>1
    <2>2. CASE Opened(log, w, n) = b /\ RunAll(w, S[b])
      <3>1. n # 0
        <4>1. Opened(log, w, 0) = 0
          BY OpenedIs
        <4> QED
          BY <1>1, <2>2, <4>1
      <3>2. n \in 1..n
        BY <1>1, <3>1
      <3>3. more[n].stage = S[b]
        BY <1>2, <2>2, <3>2
      <3>4. ~Opens(more, w, n + 1)
        BY <1>1, <1>2, <2>2, <3>1, <3>3 DEF Opens
      <3> QED
        BY <1>1, <1>4, <1>5, <2>2, <3>4
    <2> QED
      BY <2>1, <2>2
  <1>7. ASSUME NEW i \in 1..(n + 1)
        PROVE  Opened(more, w, i) \in 1..b /\ more[i].stage = S[Opened(more, w, i)]
    <2>1. CASE i = n + 1
      BY <1>1, <1>2, <1>6, <2>1
    <2>2. CASE i \in 1..n
      <3>1. Opened(more, w, i) = Opened(log, w, i) /\ more[i] = log[i]
        BY <1>1, <1>2, <1>3, <2>2
      <3> QED
        BY <2>2, <3>1
    <2> QED
      BY <1>1, <2>1, <2>2
  <1> QED
    BY <1>2, <1>6, <1>7 DEF more

LEMMA FinishToolTold ==
    ASSUME IInv, ToldInv, NEW j \in Jobs, FinishTool(j)
    PROVE  JobIsTold(j)'
  <1>0. PICK e : e = [stage |-> CategoryOf(Current(j)), tool |-> Current(j),
                      status |-> Status(j)]
    OBVIOUS
  <1>1. /\ run[j].pc = "log" /\ run'[j].pc = "tool"
        /\ run'[j].stages = run[j].stages /\ run'[j].todo = Tail(run[j].todo)
        /\ run'[j].log = Append(run[j].log, e)
    BY <1>0, FinishToolMoves
  <1>2. Grows /\ failures \in Nat /\ JobIsTold(j)
    BY JobFrame DEF JobStep, ToldInv, StoreIs
  <1>3. order' = order /\ outcomes' = outcomes /\ failures' = failures
    BY DEF FinishTool
  <1>4. StageIs(j) /\ RowsAre(j) /\ CMSIs(j) /\ BackedIs(j)
    BY <1>2 DEF JobIsTold
  <1>5. Onwards(j) /\ AtStage(j) /\ run[j].todo # <<>>
    BY <1>1, <1>4 DEF StageIs, AtTool, Idle, AtStage
  <1> DEFINE log == run[j].log
             more == run'[j].log
             todo == run[j].todo
             w == order[j].workflow
             S == StagesFor(j)
             b == Begun(j)
  <1>6. StagesFit(w)
    <2>1. w \in DOMAIN workflowStages
      BY ToolsAssumption DEF ToldInv
    <2> QED
      BY <2>1, StagesAre
  <1>7. S = workflowStages[w] /\ S' = S /\ b' = b
    BY <1>1, <1>3 DEF StagesFor, Begun
  <1>8. b \in 1..Len(S) /\ IsSeq(log) /\ IsSeq(todo)
    BY <1>5 DEF AtStage, Onwards
  <1>9. /\ Len(todo) \in Nat /\ Len(todo) # 0 /\ Head(todo) = todo[1]
        /\ IsSeq(Tail(todo)) /\ Len(Tail(todo)) = Len(todo) - 1
        /\ \A i \in 1..Len(Tail(todo)) : i + 1 \in 1..Len(todo) /\ Tail(todo)[i] = todo[i + 1]
    BY <1>5, <1>8, SeqIs, TailIs
  <1>10. Current(j) \in Members(S[b]) /\ S[b] \in DOMAIN workflowToolOrder
    <2>1. 1 \in 1..Len(todo)
      BY <1>9
    <2>2. todo[1] \in Members(S[b])
      BY <1>5, <2>1 DEF AtStage
    <2> QED
      BY <1>6, <1>7, <1>8, <1>9, <2>2 DEF Current, StagesFit
  <1>11. e.stage = S[b] /\ e.tool = Current(j) /\ e.status = Status(j) /\ e.tool # NoTool
    BY <1>0, <1>10, CategoryIs, ToolIs
  <1>12. \/ Opened(log, w, Len(log)) = b - 1
         \/ Opened(log, w, Len(log)) = b /\ RunAll(w, S[b])
    BY <1>5 DEF AtStage, Noted
  <1>13. \A i \in 1..Len(log) : /\ Opened(log, w, i) \in 1..b
                                /\ log[i].stage = S[Opened(log, w, i)]
    BY <1>5 DEF Onwards
  <1>14. /\ Opened(more, w, Len(more)) = b
         /\ \A i \in 1..Len(more) : /\ Opened(more, w, i) \in 1..b
                                    /\ more[i].stage = S[Opened(more, w, i)]
    <2> HIDE DEF log, w, S, b
    <2>1. more = Append(log, e)
      BY <1>1 DEF log
    <2> HIDE DEF more
    <2> QED
      BY <1>6, <1>7, <1>8, <1>11, <1>12, <1>13, <2>1, EntryFits
  <1>15. IsSeq(more) /\ Len(more) = Len(log) + 1 /\ more[Len(log) + 1] = e
         /\ \A i \in 1..Len(log) : more[i] = log[i]
    BY <1>1, <1>8, AppendIs
  <1>16. StageIs(j)'
    <2>1. Onwards(j)'
      <3>1. IsSeq(run'[j].stages) /\ Len(run'[j].stages) <= Len(S')
        BY <1>1, <1>5, <1>7 DEF Onwards
      <3>2. \A i \in 1..Len(run'[j].stages) : run'[j].stages[i] = S'[b' + i]
        BY <1>1, <1>5, <1>7 DEF Onwards
      <3> QED
        BY <1>3, <1>7, <1>14, <1>15, <3>1, <3>2 DEF Onwards
    <2>2. Noted(j)' = Begun(j)'
      BY <1>3, <1>7, <1>14 DEF Noted
    <2>3. \A i \in 1..Len(run'[j].todo) : run'[j].todo[i] \in Members(S'[b'])
      <3>1. \A i \in 1..Len(todo) : todo[i] \in Members(S[b])
        BY <1>5 DEF AtStage
      <3> QED
        BY <1>1, <1>7, <1>9, <3>1
    <2>4. Len(todo) <= 1 \/ RunAll(w, S[b])
      BY <1>5 DEF AtStage
    <2>5. run'[j].todo = <<>> \/ RunAll(w, S[b])
      <3>1. Len(todo) <= 1 => Len(Tail(todo)) = 0
        <4>1. Len(todo) \in Nat /\ Len(todo) # 0 /\ Len(Tail(todo)) = Len(todo) - 1
          BY <1>9
        <4> HIDE DEF todo
        <4> QED
          BY <4>1
      <3>2. Len(Tail(todo)) = 0 => Tail(todo) = <<>>
        BY <1>9, SeqIs
      <3> QED
        BY <1>1, <2>4, <3>1, <3>2
    <2>6. Len(run'[j].todo) <= 1 \/ RunAll(w, S[b])
      BY <2>5, NothingIs
    <2>7. AtStage(j)'
      BY <1>1, <1>3, <1>7, <1>8, <1>9, <2>2, <2>3, <2>5, <2>6 DEF AtStage
    <2> QED
      BY <1>1, <2>1, <2>7 DEF StageIs, Idle, Between, AtTool
  <1>17. RowTried(j) /\ ~RowTried(j)' /\ ~PastGuard(j)'
    BY <1>1 DEF RowTried, PastGuard
  <1>18. RowsAre(j)'
    <2> DEFINE rows == outcomes[j]
               c == Cardinality(OfTools(log))
    <2>1. c \in Nat /\ Cardinality(OfTools(more)) = c + 1
      BY <1>1, <1>8, <1>11, ToolEntries
    <2>2. OfTools(more) = OfTools(log) \cup {Len(log) + 1} /\ OfTools(log) \subseteq 1..Len(log)
      BY <1>1, <1>8, <1>11, ToolEntries
    <2>3. c + 1 \in Len(rows)..(Len(rows) + failures) /\ IsSeq(rows)
      BY <1>4, <1>17 DEF RowsAre
    <2>4. ASSUME NEW i \in 1..Len(rows)
          PROVE  \E k \in OfTools(more) : /\ more[k].tool = rows[i].tool
                                          /\ more[k].status = rows[i].status
      <3>1. CASE \E k \in OfTools(log) : /\ log[k].tool = rows[i].tool
                                         /\ log[k].status = rows[i].status
        <4>1. PICK k \in OfTools(log) : /\ log[k].tool = rows[i].tool
                                        /\ log[k].status = rows[i].status
          BY <3>1
        <4>2. more[k] = log[k] /\ k \in OfTools(more)
          BY <1>15, <2>2
        <4> QED
          BY <4>1, <4>2
      <3>2. CASE rows[i].tool = Current(j) /\ rows[i].status = Status(j)
        <4>1. Len(log) + 1 \in OfTools(more)
          BY <2>2
        <4> QED
          BY <1>11, <1>15, <3>2, <4>1
      <3> QED
        BY <1>4, <3>1, <3>2 DEF RowsAre
    <2>5. Cardinality(OfTools(more)) + (IF RowTried(j)' THEN 1 ELSE 0)
             \in Len(rows)..(Len(rows) + failures)
      <3> HIDE DEF c, more, rows
      <3> QED
        BY <1>17, <2>1, <2>3
    <2> HIDE DEF log
    <2> QED
      BY <1>3, <2>3, <2>4, <2>5 DEF RowsAre
  <1>19. CMSIs(j)'
    BY <1>3, <1>4, <1>17, CMSKept
  <1>20. BackedIs(j)'
    <2>1. (\A i \in 1..Len(outcomes[j]) : BackedRow(j, outcomes[j][i]))'
      BY <1>1, <1>2, <1>3, <1>4, BackedKept
    <2> QED
      BY <1>1, <2>1 DEF BackedIs
  <1> QED
    BY <1>16, <1>18, <1>19, <1>20 DEF JobIsTold

\* Every category has its list.
LEMMA ToolListsAre ==
    ASSUME NEW c \in DOMAIN workflowToolOrder
    PROVE  IsSeq(workflowToolOrder[c])
  <1>1. workflowToolOrder["subdomain"] \in
         Seq({"subfinder", "amass", "assetfinder", "findomain"})
    BY DEF workflowToolOrder
  <1>2. workflowToolOrder["dns"] \in
         Seq({"dnsx", "dnsrecon", "dnsenum", "dnstwist"})
    BY DEF workflowToolOrder
  <1>3. workflowToolOrder["network"] \in
         Seq({"nmap", "naabu", "rustscan", "masscan"})
    BY DEF workflowToolOrder
  <1>4. workflowToolOrder["web"] \in
         Seq({"httpx", "katana", "hakrawler", "gau", "waybackurls"})
    BY DEF workflowToolOrder
  <1>5. workflowToolOrder["content"] \in
         Seq({"ffuf", "feroxbuster", "gobuster", "dirsearch"})
    BY DEF workflowToolOrder
  <1>6. workflowToolOrder["vulnerability"] \in
         Seq({"nuclei", "nikto", "testssl.sh", "wpscan", "droopescan"})
    BY DEF workflowToolOrder
  <1>7. workflowToolOrder["waf"] \in
         Seq({"wafw00f"})
    BY DEF workflowToolOrder
  <1>8. workflowToolOrder["smb"] \in
         Seq({"smbclient", "enum4linux-ng", "crackmapexec"})
    BY DEF workflowToolOrder
  <1>9. workflowToolOrder["origin_ip"] \in
         Seq({"cloudflair", "hakoriginfinder", "cloakquest3r"})
    BY DEF workflowToolOrder
  <1>10. workflowToolOrder["injection"] \in
         Seq({"sqlmap", "dalfox", "xsstrike", "commix", "tplmap", "crlfuzz",
             "smuggler", "h2csmuggler", "ssrfmap", "gopherus"})
    BY DEF workflowToolOrder
  <1>11. workflowToolOrder["secrets"] \in
         Seq({"trufflehog", "gitleaks"})
    BY DEF workflowToolOrder
  <1>12. workflowToolOrder["fingerprint"] \in
         Seq({"whatweb", "wappalyzer"})
    BY DEF workflowToolOrder
  <1>13. workflowToolOrder["js_analysis"] \in
         Seq({"linkfinder", "secretfinder", "retire", "snyk"})
    BY DEF workflowToolOrder
  <1>14. workflowToolOrder["auth"] \in
         Seq({"jwt_tool", "corsy"})
    BY DEF workflowToolOrder
  <1>15. workflowToolOrder["params"] \in
         Seq({"arjun", "paramspider"})
    BY DEF workflowToolOrder
  <1>16. workflowToolOrder["takeover"] \in
         Seq({"subjack", "subzy", "nuclei-takeover", "dns-takeover-check"})
    BY DEF workflowToolOrder
  <1>17. workflowToolOrder["screenshot"] \in
         Seq({"gowitness", "aquatone"})
    BY DEF workflowToolOrder
  <1>18. workflowToolOrder["cloud"] \in
         Seq({"aws", "az", "gcloud"})
    BY DEF workflowToolOrder
  <1> QED
    BY <1>1, <1>2, <1>3, <1>4, <1>5, <1>6, <1>7, <1>8, <1>9, <1>10, <1>11, <1>12, <1>13, <1>14,
       <1>15, <1>16, <1>17, <1>18, CategoriesAre, ListOf

-----------------------------------------------------------------------------
\* The head of the engine's loop.
LEMMA StageOver ==
    ASSUME ToldInv, NEW j \in Jobs, StageIs(j), run[j].pc = "stage", order' = order,
           run[j].stages # <<>>, run'[j].stages = Tail(run[j].stages)
    PROVE  /\ StagesFit(order[j].workflow) /\ IsSeq(run'[j].stages)
           /\ StagesFor(j)' = StagesFor(j) /\ Begun(j)' = Begun(j) + 1 /\ Begun(j) \in Nat
           /\ Begun(j)' \in 1..Len(StagesFor(j))
           /\ Head(run[j].stages) = StagesFor(j)[Begun(j)']
           /\ Len(run'[j].stages) <= Len(StagesFor(j))
           /\ \A i \in 1..Len(run'[j].stages) :
                 run'[j].stages[i] = StagesFor(j)[Begun(j)' + i]
           /\ Noted(j) = Begun(j)
           /\ IsSeq(run[j].log) /\ Len(run[j].log) \in Nat
           /\ \A i \in 1..Len(run[j].log) :
                 /\ Opened(run[j].log, order[j].workflow, i) \in 1..Begun(j)
                 /\ run[j].log[i].stage = StagesFor(j)[Opened(run[j].log, order[j].workflow, i)]
  <1> DEFINE left == run[j].stages
             S == StagesFor(j)
             b == Begun(j)
  <1>1. StagesFit(order[j].workflow)
    <2>1. order[j].workflow \in DOMAIN workflowStages
      BY ToolsAssumption DEF ToldInv
    <2> QED
      BY <2>1, StagesAre
  <1>2. S' = S /\ IsSeq(S) /\ Len(S) \in Nat
    BY <1>1, SeqIs DEF StagesFor, StagesFit
  <1>3. Onwards(j) /\ Noted(j) = b
    BY DEF StageIs, Idle, Between
  <1>4. /\ IsSeq(left) /\ Len(left) \in Nat /\ Len(left) # 0 /\ Head(left) = left[1]
        /\ Len(left) <= Len(S)
    BY <1>3, SeqIs DEF Onwards
  <1>5. /\ IsSeq(Tail(left)) /\ Len(Tail(left)) = Len(left) - 1
        /\ \A i \in 1..Len(Tail(left)) : i + 1 \in 1..Len(left) /\ Tail(left)[i] = left[i + 1]
    BY <1>4, TailIs
  <1>6. b = Len(S) - Len(left) /\ b' = Len(S) - Len(Tail(left))
    BY <1>2 DEF Begun
  <1>7. /\ b \in Nat /\ b' = b + 1 /\ b' \in 1..Len(S) /\ 1 \in 1..Len(left)
        /\ Len(Tail(left)) <= Len(S)
    <2>1. PICK p, q, r, x, y : /\ p = Len(S) /\ q = Len(left) /\ r = Len(Tail(left))
                               /\ x = b /\ y = b'
      OBVIOUS
    <2>2. /\ p \in Nat /\ q \in Nat /\ q # 0 /\ q <= p /\ r = q - 1 /\ x = p - q /\ y = p - r
      BY <1>2, <1>4, <1>5, <1>6, <2>1
    <2>3. x \in Nat /\ y = x + 1 /\ y \in 1..p /\ 1 \in 1..q /\ r <= p
      BY <2>2
    <2> QED
      BY <2>1, <2>3
  <1>8. \A i \in 1..Len(left) : left[i] = S[b + i]
    BY <1>3 DEF Onwards
  <1>9. Head(left) = S[b']
    BY <1>4, <1>7, <1>8
  <1>10. \A i \in 1..Len(Tail(left)) : Tail(left)[i] = S[b' + i]
    <2>1. SUFFICES ASSUME NEW i \in 1..Len(Tail(left))
                   PROVE  Tail(left)[i] = S[b' + i]
      OBVIOUS
    <2>2. Tail(left)[i] = S[b + (i + 1)]
      BY <1>5, <1>8
    <2>3. b + (i + 1) = b' + i
      <3>1. i \in Int /\ b \in Int /\ b' = b + 1
        BY <1>7
      <3> QED
        BY <3>1
    <2> QED
      BY <2>2, <2>3
  <1>11. /\ IsSeq(run[j].log) /\ Len(run[j].log) \in Nat
         /\ \A i \in 1..Len(run[j].log) :
               /\ Opened(run[j].log, order[j].workflow, i) \in 1..b
               /\ run[j].log[i].stage = S[Opened(run[j].log, order[j].workflow, i)]
    BY <1>3, SeqIs DEF Onwards
  <1> QED
    BY <1>1, <1>2, <1>3, <1>5, <1>7, <1>9, <1>10, <1>11

\* A category without a tool is noted as skipped.
LEMMA StageSkipped ==
    ASSUME IInv, ToldInv, NEW j \in Jobs, NextStage(j), run[j].pc = "stage",
           run[j].stages # <<>>, run'[j].pc = "stage", run'[j].stages = Tail(run[j].stages),
           run'[j].log = Append(run[j].log, Skipped(Head(run[j].stages)))
    PROVE  JobIsTold(j)'
  <1>1. Grows /\ failures \in Nat /\ JobIsTold(j)
    BY JobFrame DEF JobStep, ToldInv, StoreIs
  <1>2. order' = order /\ outcomes' = outcomes /\ failures' = failures
    BY DEF NextStage, OnlyRun
  <1>3. StageIs(j) /\ RowsAre(j) /\ CMSIs(j) /\ BackedIs(j)
    BY <1>1 DEF JobIsTold
  <1> DEFINE log == run[j].log
             more == run'[j].log
             w == order[j].workflow
             S == StagesFor(j)
             b == Begun(j)
  <1>4. /\ StagesFit(w) /\ IsSeq(run'[j].stages)
        /\ S' = S /\ b' = b + 1 /\ b \in Nat /\ b' \in 1..Len(S)
        /\ Head(run[j].stages) = S[b']
        /\ Len(run'[j].stages) <= Len(S)
        /\ \A i \in 1..Len(run'[j].stages) : run'[j].stages[i] = S[b' + i]
        /\ Opened(log, w, Len(log)) = b
        /\ IsSeq(log) /\ Len(log) \in Nat
        /\ \A i \in 1..Len(log) : Opened(log, w, i) \in 1..b /\ log[i].stage = S[Opened(log, w, i)]
    BY <1>2, <1>3, StageOver DEF Noted
  <1>5. PICK e : e = Skipped(Head(run[j].stages))
    OBVIOUS
  <1>6. e.stage = S[b'] /\ e.tool = NoTool
    BY <1>4, <1>5 DEF Skipped
  <1>7. more = Append(log, e)
    BY <1>5
  <1>8. PICK c : c = b'
    OBVIOUS
  <1>9. S = workflowStages[w]
    BY DEF StagesFor
  <1>10. /\ Opened(more, w, Len(more)) = c
         /\ \A i \in 1..Len(more) : Opened(more, w, i) \in 1..c /\ more[i].stage = S[Opened(more, w, i)]
    <2>1. \A i \in 1..Len(log) : Opened(log, w, i) \in 1..c /\ log[i].stage = S[Opened(log, w, i)]
      <3>1. b \in Nat /\ c = b + 1
        BY <1>4, <1>8
      <3>2. \A i \in 1..Len(log) : Opened(log, w, i) \in 1..b /\ log[i].stage = S[Opened(log, w, i)]
        BY <1>4
      <3> HIDE DEF log, w, S, b
      <3> QED
        BY <3>1, <3>2
    <2>2. Opened(log, w, Len(log)) = c - 1 /\ c \in 1..Len(S) /\ e.stage = S[c]
      <3> HIDE DEF log, w, S, b
      <3> QED
        BY <1>4, <1>6, <1>8
    <2> HIDE DEF log, w, S, b, more
    <2> QED
      BY <1>4, <1>7, <1>9, <2>1, <2>2, EntryFits
  <1>11. IsSeq(more) /\ Len(more) = Len(log) + 1 /\ \A i \in 1..Len(log) : more[i] = log[i]
    BY <1>4, <1>7, AppendIs
  <1>12. StageIs(j)'
    <2>1. Onwards(j)'
      BY <1>2, <1>4, <1>8, <1>10, <1>11 DEF Onwards
    <2>2. Noted(j)' = Begun(j)'
      BY <1>2, <1>8, <1>10 DEF Noted
    <2> QED
      BY <2>1, <2>2 DEF StageIs, Idle, Between, AtTool
  <1>13. ~RowTried(j) /\ ~RowTried(j)' /\ ~PastGuard(j)'
    BY DEF RowTried, PastGuard
  <1>14. RowsAre(j)'
    <2>1. OfTools(more) = OfTools(log) /\ OfTools(log) \subseteq 1..Len(log)
      <3>1. /\ OfTools(log) \subseteq 1..Len(log)
            /\ OfTools(Append(log, e)) = IF e.tool # NoTool THEN OfTools(log) \cup {Len(log) + 1}
                                        ELSE OfTools(log)
        BY <1>4, ToolEntries
      <3> HIDE DEF log, more
      <3> QED
        BY <1>6, <1>7, <3>1
    <2>2. \A k \in OfTools(log) : more[k] = log[k]
      BY <1>11, <2>1
    <2> QED
      BY <1>2, <1>3, <1>13, <2>1, <2>2 DEF RowsAre
  <1>15. CMSIs(j)'
    BY <1>2, <1>3, <1>13, CMSKept
  <1>16. BackedIs(j)'
    <2>1. (\A i \in 1..Len(outcomes[j]) : BackedRow(j, outcomes[j][i]))'
      BY <1>1, <1>2, <1>3, BackedKept
    <2> QED
      BY <2>1 DEF BackedIs
  <1> QED
    BY <1>12, <1>14, <1>15, <1>16 DEF JobIsTold

\* A category with tools is begun with all of them, or with the first.
LEMMA StageStarted ==
    ASSUME IInv, ToldInv, NEW j \in Jobs, NextStage(j), run[j].pc = "stage",
           run[j].stages # <<>>, run'[j].pc = "tool", run'[j].stages = Tail(run[j].stages),
           run'[j].log = run[j].log,
           LET category == Head(run[j].stages)
               ready == InstalledTools(workflowToolOrder[category])
           IN /\ ready # <<>>
              /\ run'[j].todo = IF RunAll(order[j].workflow, category) THEN ready
                                ELSE SubSeq(ready, 1, 1)
    PROVE  JobIsTold(j)'
  <1>1. Grows /\ failures \in Nat /\ JobIsTold(j)
    BY JobFrame DEF JobStep, ToldInv, StoreIs
  <1>2. order' = order /\ outcomes' = outcomes
    BY DEF NextStage, OnlyRun
  <1> DEFINE log == run[j].log
             w == order[j].workflow
             S == StagesFor(j)
             b == Begun(j)
  <1>4. /\ StagesFit(w) /\ IsSeq(run'[j].stages)
        /\ S' = S /\ b' = b + 1 /\ b \in Nat /\ b' \in 1..Len(S)
        /\ Head(run[j].stages) = S[b']
        /\ Len(run'[j].stages) <= Len(S)
        /\ \A i \in 1..Len(run'[j].stages) : run'[j].stages[i] = S[b' + i]
        /\ Opened(log, w, Len(log)) = b
        /\ IsSeq(log) /\ Len(log) \in Nat
        /\ \A i \in 1..Len(log) : Opened(log, w, i) \in 1..b /\ log[i].stage = S[Opened(log, w, i)]
    BY <1>1, <1>2, StageOver DEF Noted, JobIsTold
  <1>5. PICK c, category : c = b' /\ category = Head(run[j].stages)
    OBVIOUS
  <1>6. category = S[c] /\ category \in DOMAIN workflowToolOrder
    BY <1>4, <1>5 DEF StagesFit, StagesFor
  <1>7. PICK ready : ready = InstalledTools(workflowToolOrder[category])
    OBVIOUS
  <1>8. IsSeq(ready) /\ \A i \in 1..Len(ready) : ready[i] \in Members(category)
    <2>1. IsSeq(workflowToolOrder[category])
      BY <1>6, ToolListsAre
    <2> QED
      BY <1>7, <2>1, InstalledAre DEF Members
  <1>9. /\ ready # <<>>
        /\ \/ RunAll(w, category) /\ run'[j].todo = ready
           \/ run'[j].todo = SubSeq(ready, 1, 1)
    BY <1>5, <1>7
  <1>10. /\ IsSeq(run'[j].todo) /\ run'[j].todo # <<>>
         /\ \A i \in 1..Len(run'[j].todo) : run'[j].todo[i] \in Members(category)
         /\ Len(run'[j].todo) <= 1 \/ RunAll(w, category)
    <2>1. CASE RunAll(w, category) /\ run'[j].todo = ready
      BY <1>8, <1>9, <2>1
    <2>2. CASE run'[j].todo = SubSeq(ready, 1, 1)
      <3>1. PICK one : one = SubSeq(ready, 1, 1)
        OBVIOUS
      <3>2. IsSeq(one) /\ Len(one) = 1 /\ one[1] = ready[1]
        BY <1>8, <1>9, <3>1, FirstIs
      <3>3. 1 \in 1..Len(ready)
        BY <1>8, <1>9, SeqIs
      <3>4. one # <<>>
        <4>1. IsSeq(one) /\ Len(one) # 0
          BY <3>2
        <4> QED
          BY <4>1, SeqIs
      <3>5. ready[1] \in Members(category)
        BY <1>8, <3>3
      <3>6. \A i \in 1..Len(one) : one[i] \in Members(category)
        BY <3>2, <3>5
      <3>7. run'[j].todo = one
        BY <2>2, <3>1
      <3>8. Len(one) <= 1
        BY <3>2
      <3> QED
        BY <3>2, <3>4, <3>6, <3>7, <3>8
    <2> QED
      BY <1>9, <2>1, <2>2
  <1>11. StageIs(j)'
    <2>1. \A i \in 1..Len(log) : Opened(log, w, i) \in 1..c /\ log[i].stage = S[Opened(log, w, i)]
      <3> HIDE DEF log, w, S, b
      <3>1. b \in Nat /\ c = b + 1
        BY <1>4, <1>5
      <3> QED
        BY <1>4, <3>1
    <2>2. Onwards(j)'
      BY <1>2, <1>4, <1>5, <2>1 DEF Onwards
    <2>3. Noted(j)' = b /\ b = c - 1
      BY <1>2, <1>4, <1>5 DEF Noted
    <2>4. AtStage(j)'
      BY <1>2, <1>4, <1>5, <1>6, <1>10, <2>3 DEF AtStage
    <2> QED
      BY <2>2, <2>4 DEF StageIs, Idle, Between, AtTool
  <1>12. QuietlyTold(j)
    BY <1>2 DEF QuietlyTold, PastGuard
  <1> QED
    BY <1>1, <1>11, <1>12, QuietKept

LEMMA NextStageTold ==
    ASSUME IInv, ToldInv, NEW j \in Jobs, NextStage(j)
    PROVE  JobIsTold(j)'
  <1> DEFINE category == Head(run[j].stages)
             ready == InstalledTools(workflowToolOrder[category])
             chosen == IF RunAll(order[j].workflow, category) THEN ready ELSE SubSeq(ready, 1, 1)
             Over == run[j].stages = <<>> /\ run'[j].pc = "done" /\ Keeps(j)
             Skips == /\ run[j].stages # <<>> /\ run'[j].pc = "stage"
                      /\ run'[j].stages = Tail(run[j].stages)
                      /\ run'[j].log = Append(run[j].log, Skipped(category))
             Opening == /\ run[j].stages # <<>> /\ ready # <<>> /\ run'[j].pc = "tool"
                       /\ run'[j].stages = Tail(run[j].stages) /\ run'[j].log = run[j].log
                       /\ run'[j].todo = chosen
  <1>1. run[j].pc = "stage" /\ (Over \/ Skips \/ Opening)
    BY NextStageMoves
  <1>2. CASE Over
    <2>1. Grows /\ failures \in Nat /\ JobIsTold(j)
      BY JobFrame DEF JobStep, ToldInv, StoreIs
    <2>2. order' = order /\ outcomes' = outcomes
      BY DEF NextStage, OnlyRun
    <2>3. run'[j].pc = "done" /\ Keeps(j) /\ run[j].stages = <<>> /\ run[j].pc = "stage"
      BY <1>1, <1>2
    <2>4. Onwards(j) /\ Noted(j) = Begun(j)
      BY <2>1, <2>3 DEF JobIsTold, StageIs, Idle, Between
    <2>5. Onwards(j)' /\ Begun(j)' = Begun(j) /\ Noted(j)' = Noted(j)
      BY <2>2, <2>3, <2>4, OnwardsKept DEF Keeps
    <2>6. StageIs(j)'
      BY <2>3, <2>4, <2>5 DEF StageIs, Idle, Between, AtTool, Keeps
    <2>7. QuietlyTold(j)
      BY <2>2, <2>3 DEF QuietlyTold, PastGuard, Keeps
    <2> QED
      BY <2>1, <2>6, <2>7, QuietKept
  <1>3. CASE Skips
    BY <1>1, <1>3, StageSkipped
  <1>4. CASE Opening
    BY <1>1, <1>4, StageStarted
  <1> QED
    BY <1>1, <1>2, <1>3, <1>4

-----------------------------------------------------------------------------
\* What a stage function stores besides its row.
LEMMA HarvestIs ==
    ASSUME NEW j
    PROVE  LET c == CategoryOf(Current(j))
               items == Found(j)
           IN /\ run[j].err => Harvest(j) = {}
              /\ ~run[j].err =>
                    /\ c = "network" => Harvest(j) = HostsOf(j, items) \cup ServicesOf(j, items)
                    /\ c = "fingerprint" => Harvest(j) = persistTechnology(j, items)
                    /\ c = "takeover" => Harvest(j) = persistTakeover(j, items)
                    /\ c = "screenshot" => Harvest(j) = Shots(j, items)
                    /\ c = "cloud" => Harvest(j) = CloudAssetsOf(j, items)
                    /\ c \notin {"network", "fingerprint", "takeover", "screenshot", "cloud"} =>
                          Harvest(j) = {}
  <1> DEFINE c == CategoryOf(Current(j))
             items == Found(j)
             hosts == HostsOf(j, items) \cup ServicesOf(j, items)
             techs == persistTechnology(j, items)
             takes == persistTakeover(j, items)
             shots == Shots(j, items)
             cloud == CloudAssetsOf(j, items)
  <1>1. Harvest(j) = IF run[j].err THEN {}
                     ELSE CASE c = "network" -> hosts
                            [] c = "fingerprint" -> techs
                            [] c = "takeover" -> takes
                            [] c = "screenshot" -> shots
                            [] c = "cloud" -> cloud
                            [] OTHER -> {}
    BY DEF Harvest, Found
  <1> HIDE DEF c, hosts, techs, takes, shots, cloud
  <1>2. /\ run[j].err => Harvest(j) = {}
        /\ ~run[j].err =>
              /\ c = "network" => Harvest(j) = hosts
              /\ c = "fingerprint" => Harvest(j) = techs
              /\ c = "takeover" => Harvest(j) = takes
              /\ c = "screenshot" => Harvest(j) = shots
              /\ c = "cloud" => Harvest(j) = cloud
              /\ c \notin {"network", "fingerprint", "takeover", "screenshot", "cloud"} =>
                    Harvest(j) = {}
    BY <1>1
  <1> QED
    BY <1>2 DEF c, hosts, techs, takes, shots, cloud

\* All that is wanted of what was found is in it.
LEMMA HarvestHasAll ==
    ASSUME NEW j, CategoryOf(Current(j)) \in DOMAIN Wanted, ~run[j].err, NEW x \in Found(j),
           NEW table \in Wanted[CategoryOf(Current(j))]
    PROVE  Asset(table, j, x) \in Harvest(j)
  <1>1. CASE CategoryOf(Current(j)) = "network"
    <2>1. Harvest(j) = HostsOf(j, Found(j)) \cup ServicesOf(j, Found(j))
      BY <1>1, HarvestIs
    <2>2. table \in {"service", "host", "history", "range"}
      BY <1>1, WantedIs
    <2> QED
      BY <2>1, <2>2 DEF HostsOf, ServicesOf
  <1>2. CASE CategoryOf(Current(j)) = "fingerprint"
    <2>1. Harvest(j) = persistTechnology(j, Found(j)) /\ table = "technology"
      BY <1>2, HarvestIs, WantedIs
    <2> QED
      BY <2>1 DEF persistTechnology
  <1>3. CASE CategoryOf(Current(j)) = "takeover"
    <2>1. Harvest(j) = persistTakeover(j, Found(j)) /\ table = "takeover"
      BY <1>3, HarvestIs, WantedIs
    <2> QED
      BY <2>1 DEF persistTakeover
  <1>4. CASE CategoryOf(Current(j)) = "cloud"
    <2>1. Harvest(j) = CloudAssetsOf(j, Found(j)) /\ table = "cloud"
      BY <1>4, HarvestIs, WantedIs
    <2> QED
      BY <2>1 DEF CloudAssetsOf
  <1> QED
    BY <1>1, <1>2, <1>3, <1>4, WantedIs

\* A service, or a line of its history, comes with its host.
LEMMA HarvestTables ==
    ASSUME NEW j, NEW a \in Harvest(j), a.table \in {"history", "service"}
    PROVE  /\ \E x : a = Asset(a.table, j, x)
           /\ [a EXCEPT !.table = "service"] \in Harvest(j)
           /\ [a EXCEPT !.table = "host"] \in Harvest(j)
  <1>1. ~run[j].err
    BY HarvestIs
  <1>2. CategoryOf(Current(j)) = "network"
    <2>1. CASE CategoryOf(Current(j)) = "fingerprint"
      <3>1. a \in persistTechnology(j, Found(j))
        BY <1>1, <2>1, HarvestIs
      <3>2. a.table = "technology"
        BY <3>1 DEF persistTechnology, Asset
      <3> QED
        BY <3>2
    <2>2. CASE CategoryOf(Current(j)) = "takeover"
      <3>1. a \in persistTakeover(j, Found(j))
        BY <1>1, <2>2, HarvestIs
      <3>2. a.table = "takeover"
        BY <3>1 DEF persistTakeover, Asset
      <3> QED
        BY <3>2
    <2>3. CASE CategoryOf(Current(j)) = "screenshot"
      <3>1. a \in Shots(j, Found(j))
        BY <1>1, <2>3, HarvestIs
      <3>2. PICK x : a = Asset("shot", j, x)
        BY <3>1 DEF Shots
      <3>3. a.table = "shot"
        BY <3>2 DEF Asset
      <3> QED
        BY <3>3
    <2>4. CASE CategoryOf(Current(j)) = "cloud"
      <3>1. a \in CloudAssetsOf(j, Found(j))
        BY <1>1, <2>4, HarvestIs
      <3>2. a.table = "cloud"
        BY <3>1 DEF CloudAssetsOf, Asset
      <3> QED
        BY <3>2
    <2>5. CASE CategoryOf(Current(j)) \notin
                  {"network", "fingerprint", "takeover", "screenshot", "cloud"}
      BY <1>1, <2>5, HarvestIs
    <2> QED
      BY <2>1, <2>2, <2>3, <2>4, <2>5
  <1>3. Harvest(j) = HostsOf(j, Found(j)) \cup ServicesOf(j, Found(j))
    BY <1>1, <1>2, HarvestIs
  <1>4. PICK x \in Found(j) : a \in {Asset("host", j, x), Asset("range", j, x),
                                     Asset("service", j, x), Asset("history", j, x)}
    BY <1>3 DEF HostsOf, ServicesOf
  <1>5. a = Asset(a.table, j, x)
    BY <1>4 DEF Asset
  <1>6. /\ [a EXCEPT !.table = "service"] = Asset("service", j, x)
        /\ [a EXCEPT !.table = "host"] = Asset("host", j, x)
    BY <1>5 DEF Asset
  <1>7. Asset("service", j, x) \in Harvest(j) /\ Asset("host", j, x) \in Harvest(j)
    BY <1>3 DEF HostsOf, ServicesOf
  <1> QED
    BY <1>5, <1>6, <1>7

\* A step that loses nothing stores all; one that does is counted.
LEMMA SavedIs ==
    ASSUME failures \in Nat, NEW j, SaveAssets(j)
    PROVE  \E lost : /\ stored' = stored \cup Without(Harvest(j), lost)
                     /\ lost = {} \/ failures' > 0
                     /\ failures' \in Nat /\ failures <= failures'
  <1>1. PICK lost : /\ WriteFault(lost # {})
                    /\ stored' = stored \cup Without(Harvest(j), lost)
    BY DEF SaveAssets
  <1>2. /\ failures' \in Nat /\ failures <= failures'
        /\ failures' = failures + (IF lost # {} THEN 1 ELSE 0)
    BY <1>1, FailuresCount
  <1>3. lost = {} \/ failures' > 0
    BY <1>2
  <1> QED
    BY <1>1, <1>2, <1>3

LEMMA SavedHasAll ==
    ASSUME IInv, failures \in Nat, NEW j, SaveAssets(j), run[j].err => Found(j) = {},
           NEW c, c = CategoryOf(Current(j)), NEW items, items = Found(j)
    PROVE  HasAll(j, c, items)'
  <1>1. PICK lost : /\ stored' = stored \cup Without(Harvest(j), lost)
                    /\ lost = {} \/ failures' > 0
    BY SavedIs
  <1>2. SUFFICES ASSUME c \in DOMAIN Wanted, NEW x \in items, NEW table \in Wanted[c]
                 PROVE  Asset(table, j, x)' \in stored' \/ failures' > 0
    BY DEF HasAll
  <1>3. Asset(table, j, x)' = Asset(table, j, x)
    BY DEF SaveAssets, Asset
  <1>4. Asset(table, j, x) \in Harvest(j)
    <2>1. ~run[j].err
      BY <1>2
    <2> QED
      BY <1>2, <2>1, HarvestHasAll
  <1>5. CASE lost = {}
    <2>1. Without(Harvest(j), lost) = Harvest(j)
      BY <1>5 DEF Without
    <2> QED
      BY <1>1, <1>3, <1>4, <2>1
  <1> QED
    BY <1>1, <1>5

LEMMA StoreKept ==
    ASSUME StoreIs, NEW j, SaveAssets(j)
    PROVE  StoreIs'
  <1>1. PICK lost : /\ stored' = stored \cup Without(Harvest(j), lost)
                    /\ lost = {} \/ failures' > 0
                    /\ failures' \in Nat /\ failures <= failures'
    BY SavedIs DEF StoreIs
  <1>2. failures \in Nat /\ AssetsHang
    BY DEF StoreIs
  <1>3. ASSUME NEW a \in stored', a.table = "history"
        PROVE  [a EXCEPT !.table = "service"] \in stored'
    <2>1. CASE a \in stored
      BY <1>1, <1>2, <1>3, <2>1 DEF AssetsHang
    <2>2. CASE a \in Without(Harvest(j), lost)
      <3>1. a \in Harvest(j)
        BY <2>2 DEF Without
      <3>a. \E x : a = Asset(a.table, j, x)
        BY <1>3, <3>1, HarvestTables
      <3>2. PICK x : a = Asset("history", j, x)
        BY <1>3, <3>a
      <3> DEFINE s == [a EXCEPT !.table = "service"]
      <3>3. s \in Harvest(j)
        BY <1>3, <3>1, HarvestTables
      <3>4. s.table = "service" /\ [s EXCEPT !.table = "history"] = a
        <4>1. s = [table |-> "service", org |-> order[j].org, item |-> x]
          BY <3>2 DEF Asset
        <4>2. a = [table |-> "history", org |-> order[j].org, item |-> x]
          BY <3>2 DEF Asset
        <4> HIDE DEF s
        <4> QED
          BY <4>1, <4>2
      <3> HIDE DEF s
      <3>5. s \notin lost
        BY <2>2, <3>4 DEF Without
      <3>6. \A y : s # [y EXCEPT !.table = "history"] /\ s # [y EXCEPT !.table = "range"]
        <4>1. SUFFICES ASSUME NEW y, s = [y EXCEPT !.table = "history"]
                                       \/ s = [y EXCEPT !.table = "range"]
                       PROVE  FALSE
          OBVIOUS
        <4>2. "table" \in DOMAIN s /\ DOMAIN s = DOMAIN y
          BY <3>2, <4>1 DEF s, Asset
        <4> QED
          BY <3>4, <4>1, <4>2
      <3>7. s \in Without(Harvest(j), lost)
        BY <3>3, <3>5, <3>6 DEF Without
      <3> QED
        BY <1>1, <3>7 DEF s
    <2> QED
      BY <1>1, <2>1, <2>2
  <1>4. ASSUME NEW a \in stored', a.table = "service"
        PROVE  [a EXCEPT !.table = "host"] \in stored' \/ failures' > 0
    <2>1. CASE a \in stored
      BY <1>1, <1>2, <1>4, <2>1 DEF AssetsHang
    <2>2. CASE a \in Without(Harvest(j), lost) /\ lost = {}
      <3>1. Without(Harvest(j), lost) = Harvest(j)
        BY <2>2 DEF Without
      <3>2. [a EXCEPT !.table = "host"] \in Harvest(j)
        BY <1>4, <2>2, <3>1, HarvestTables
      <3> QED
        BY <1>1, <3>1, <3>2
    <2> QED
      BY <1>1, <2>1, <2>2
  <1> QED
    BY <1>1, <1>3, <1>4 DEF StoreIs, AssetsHang

LEMMA SaveAssetsTold ==
    ASSUME IInv, ToldInv, NEW j \in Jobs, SaveAssets(j)
    PROVE  JobIsTold(j)'
  <1>1. /\ run[j].pc = "save" /\ Keeps(j) /\ run'[j].results = run[j].results
        /\ run'[j].err = run[j].err
        /\ run'[j].pc = IF Early(Current(j)) THEN "row" ELSE "log"
    BY SaveAssetsMoves DEF KeepsAll
  <1>2. Grows /\ failures \in Nat /\ JobIsTold(j)
    BY JobFrame DEF JobStep, ToldInv, StoreIs
  <1>3. order' = order /\ outcomes' = outcomes
    BY DEF SaveAssets
  <1>4. StageIs(j) /\ RowsAre(j) /\ CMSIs(j) /\ BackedIs(j)
    BY <1>2 DEF JobIsTold
  <1>5. StageIs(j)' /\ Current(j)' = Current(j)
    BY <1>1, <1>3, <1>4, ToolGoesOn
  <1>6. /\ Early(Current(j)) => ~Late(Current(j))
        /\ Early(Current(j)) \/ Late(Current(j))
        /\ run[j].err => run[j].results = <<>>
        /\ run[j].err => Found(j) = {}
    BY <1>1, <1>4, EarlyOrLate, NothingFound DEF BackedIs
  <1>7. Status(j)' = Status(j) /\ Found(j)' = Found(j) /\ (RowTried(j)' <=> RowTried(j))
    BY <1>1, <1>5, <1>6 DEF Status, Found, RowTried
  <1>8. RowsAre(j)'
    BY <1>1, <1>2, <1>3, <1>4, <1>5, <1>7, RowsKept DEF Keeps
  <1>9. ~PastGuard(j)'
    <2>1. Current(j) \in Scanners => ~Early(Current(j))
      BY ScannersAre
    <2> QED
      BY <1>1, <1>5, <2>1 DEF PastGuard
  <1>10. CMSIs(j)'
    BY <1>3, <1>4, <1>9, CMSKept
  <1>11. PICK c, items : c = CategoryOf(Current(j)) /\ items = Found(j)
    OBVIOUS
  <1>12. HasAll(j, c, items)'
    BY <1>2, <1>6, <1>11, SavedHasAll
  <1>13. ASSUME NEW i \in 1..Len(outcomes[j])
         PROVE  BackedRow(j, outcomes[j][i])'
    <2>1. PICK row : row = outcomes[j][i]
      OBVIOUS
    <2>2. BackedRow(j, row)
      BY <1>4, <1>13, <2>1 DEF BackedIs
    <2>3. BackedRow(j, row)'
      <3>1. CASE HasAll(j, CategoryOf(row.tool), row.items)
        <4>1. HasAll(j, CategoryOf(row.tool), row.items)'
          BY <1>2, <3>1, HasAllKept
        <4> QED
          BY <4>1 DEF BackedRow
      <3>2. CASE row.tool = Current(j) /\ row.items = Found(j)
        <4>1. CategoryOf(row.tool) = c /\ row.items = items
          BY <1>11, <3>2
        <4>2. HasAll(j, CategoryOf(row.tool), row.items)'
          BY <1>12, <4>1
        <4> QED
          BY <4>2 DEF BackedRow
      <3>3. \/ HasAll(j, CategoryOf(row.tool), row.items)
            \/ row.tool = Current(j) /\ row.items = Found(j)
        BY <2>2 DEF BackedRow
      <3> QED
        BY <3>1, <3>2, <3>3
    <2>4. outcomes'[j][i] = row
      BY <1>3, <2>1
    <2> QED
      BY <2>3, <2>4
  <1>14. HasAll(j, CategoryOf(Current(j)), Found(j))'
    <2>1. c = CategoryOf(Current(j)') /\ items = Found(j)'
      BY <1>5, <1>7, <1>11
    <2> QED
      BY <1>12, <2>1
  <1>15. BackedIs(j)'
    BY <1>1, <1>3, <1>6, <1>13, <1>14 DEF BackedIs
  <1> QED
    BY <1>5, <1>8, <1>10, <1>15 DEF JobIsTold

-----------------------------------------------------------------------------
\* All that happens leaves the tale whole.
LEMMA StoreStays ==
    ASSUME StoreIs, Grows, stored' = stored
    PROVE  StoreIs'
  <1>1. failures \in Nat /\ failures' \in Nat /\ failures <= failures'
    BY DEF StoreIs, Grows
  <1>2. /\ \A a \in stored : a.table = "history" => [a EXCEPT !.table = "service"] \in stored
        /\ \A a \in stored : a.table = "service" =>
              [a EXCEPT !.table = "host"] \in stored \/ failures > 0
    BY DEF StoreIs, AssetsHang
  <1>3. failures > 0 => failures' > 0
    BY <1>1
  <1> QED
    BY <1>1, <1>2, <1>3 DEF StoreIs, AssetsHang

LEMMA JobStepTold ==
    ASSUME IInv, ToldInv, NEW j \in Jobs, JobStep(j)
    PROVE  ToldInv'
  <1>1. /\ Grows /\ outcomes' = [k \in Jobs |-> outcomes'[k]]
        /\ \A k \in Jobs \ {j} : run'[k] = run[k] /\ outcomes'[k] = outcomes[k]
    BY JobFrame
  <1>2. JobIsTold(j)'
    BY RunWorkflowTold, NextStageTold, NextToolTold, AcquireSlotTold, PassSpacingTold,
       CheckToolTold, RunBinaryTold, SaveAssetsTold, PersistRowTold, FinishToolTold DEF JobStep
  <1>3. /\ StoreIs /\ failures \in Nat /\ \A k \in Jobs : JobIsTold(k)
        /\ order \in WorkflowOrders
    BY DEF ToldInv, StoreIs
  <1>4. \A k \in Jobs \ {j} : JobIsTold(k)'
    BY <1>1, <1>3, OthersKept
  <1>5. StoreIs'
    <2>1. CASE SaveAssets(j)
      BY <1>3, <2>1, StoreKept
    <2>2. CASE ~SaveAssets(j)
      <3>1. stored' = stored
        BY <2>2 DEF JobStep, RunWorkflow, NextStage, NextTool, AcquireSlot, PassSpacing, CheckTool,
                    RunBinary, PersistRow, FinishTool, OnlyRun
      <3> QED
        BY <1>1, <1>3, <3>1, StoreStays
    <2> QED
      BY <2>1, <2>2
  <1>6. order' \in WorkflowOrders
    BY <1>1, <1>3 DEF Grows
  <1> QED
    BY <1>1, <1>2, <1>4, <1>5, <1>6 DEF ToldInv

\* No step of the registry, of the server or of time is told of.
LEMMA NoJobTold ==
    ASSUME ToldInv, UNCHANGED jobVars, failures' \in Nat, failures <= failures'
    PROVE  ToldInv'
  <1>1. /\ order' = order /\ outcomes' = outcomes /\ stored' = stored
        /\ \A k \in Jobs : run'[k] = run[k] /\ outcomes'[k] = outcomes[k]
    BY DEF jobVars
  <1>2. Grows
    BY <1>1 DEF Grows
  <1>3. /\ StoreIs /\ failures \in Nat /\ \A k \in Jobs : JobIsTold(k)
        /\ order \in WorkflowOrders /\ outcomes = [k \in Jobs |-> outcomes[k]]
    BY DEF ToldInv, StoreIs
  <1>4. \A k \in Jobs : JobIsTold(k)'
    BY <1>1, <1>2, <1>3, OthersKept
  <1>5. StoreIs'
    BY <1>1, <1>2, <1>3, StoreStays
  <1> QED
    BY <1>1, <1>3, <1>4, <1>5 DEF ToldInv

LEMMA StepTold ==
    ASSUME IInv, ToldInv, [WorkflowNext]_workflowVars
    PROVE  ToldInv'
  <1>0. failures \in Nat
    BY DEF ToldInv, StoreIs
  <1>1. ASSUME NEW j \in Jobs, JobStep(j)
        PROVE  ToldInv'
    BY <1>1, JobStepTold
  <1>2. ASSUME UNCHANGED <<jobVars, failures>>
        PROVE  ToldInv'
    BY <1>0, <1>2, NoJobTold
  <1>3. ASSUME NEW t \in Tools, AdminStep(t)
        PROVE  ToldInv'
    BY <1>2, <1>3 DEF AdminStep, SetEnabled, SetRateLimits, DiskChange, OnlyRegistry
  <1>4. CASE CheckStep
    <2>1. ASSUME NEW t \in Tools, Verify(t)
          PROVE  ToldInv'
      BY <1>2, <2>1 DEF Verify, OnlyRegistry
    <2>2. CASE StartupPersist
      <3>1. UNCHANGED jobVars /\ failures' \in Nat /\ failures <= failures'
        BY <1>0, <2>2 DEF StartupPersist
      <3> QED
        BY <3>1, NoJobTold
    <2>3. CASE SyncRegistryFromDB
      BY <1>2, <2>3 DEF SyncRegistryFromDB, OnlyRegistry
    <2>4. CASE HealthEnd
      BY <1>2, <2>4 DEF HealthEnd, OnlyRegistry
    <2> QED
      BY <1>4, <2>1, <2>2, <2>3, <2>4 DEF CheckStep
  <1>5. CASE ServerStep
    BY <1>2, <1>5 DEF ServerStep, HealthStart, Restart, OnlyRegistry
  <1>6. CASE TimeStep
    BY <1>2, <1>6 DEF TimeStep, RestOver
  <1>7. CASE UNCHANGED workflowVars
    BY <1>2, <1>7 DEF workflowVars, registryVars, jobVars
  <1> QED
    BY <1>1, <1>3, <1>4, <1>5, <1>6, <1>7 DEF WorkflowNext

LEMMA InitTold ==
    ASSUME WorkflowInit
    PROVE  ToldInv
  <1>1. /\ order \in WorkflowOrders /\ run = [j \in Jobs |-> NotRun]
        /\ outcomes = [j \in Jobs |-> <<>>] /\ stored = {} /\ failures = 0
    BY DEF WorkflowInit
  <1>2. StoreIs
    BY <1>1 DEF StoreIs, AssetsHang
  <1>3. outcomes = [j \in Jobs |-> outcomes[j]]
    BY <1>1
  <1>4. ASSUME NEW j \in Jobs
        PROVE  JobIsTold(j)
    <2>1. run[j].pc = "idle" /\ run[j].log = <<>> /\ outcomes[j] = <<>>
      BY <1>1 DEF NotRun
    <2>2. IsSeq(<<>>) /\ Len(<<>>) = 0
      BY NothingIs
    <2>3. StageIs(j)
      BY <2>1 DEF StageIs, Idle, Between, AtTool
    <2>4. RowsAre(j)
      <3>1. OfTools(run[j].log) = {}
        BY <2>1, <2>2, SeqIs DEF OfTools
      <3>2. Cardinality(OfTools(run[j].log)) = 0
        BY <3>1, FS_EmptySet
      <3>3. ~RowTried(j)
        BY <2>1 DEF RowTried
      <3>4. IsSeq(outcomes[j]) /\ Len(outcomes[j]) = 0
        BY <2>1, <2>2
      <3> QED
        BY <1>1, <3>2, <3>3, <3>4 DEF RowsAre
    <2>5. Len(outcomes[j]) = 0
      BY <2>1, <2>2
    <2>6. CMSIs(j)
      BY <2>1, <2>5 DEF CMSIs, PastGuard
    <2>7. BackedIs(j)
      BY <2>1, <2>5 DEF BackedIs
    <2> QED
      BY <2>3, <2>4, <2>6, <2>7 DEF JobIsTold
  <1> QED
    BY <1>1, <1>2, <1>3, <1>4 DEF ToldInv

\* What is told of a workflow while it is under way, at every step of it: its
\* entries, its rows and what it stored fit the stages and the tools behind it.
THEOREM ToldInductive == WorkflowSpec => []ToldInv
  <1>1. WorkflowInit => ToldInv
    BY InitTold
  <1>2. IInv /\ ToldInv /\ [WorkflowNext]_workflowVars => ToldInv'
    BY StepTold
  <1> QED
    BY <1>1, <1>2, ToolsInductive, PTL DEF WorkflowSpec

\* WorkflowIsTold, for any jobs, orders and tools: a workflow that is done
\* has an entry for each of its stages in their order, a row of results for
\* each entry of a tool unless its insert failed, reports of the CMS scanners
\* only after a CMS was seen, and every asset its rows speak of in the tables
\* unless an upsert failed.
THEOREM WorkflowIsToldAlways == WorkflowSpec => []WorkflowIsTold
  <1>1. ToldInv => WorkflowIsTold
    <2> SUFFICES ASSUME ToldInv
                 PROVE  WorkflowIsTold
      OBVIOUS
    <2>1. ASSUME NEW j \in Jobs, run[j].pc = "done"
          PROVE  /\ Onwards(j) /\ Noted(j) = Begun(j) /\ Begun(j) = Len(StagesFor(j))
                 /\ RowsAre(j) /\ CMSIs(j) /\ ~RowTried(j) /\ BackedIs(j)
      <3>1. StageIs(j) /\ RowsAre(j) /\ CMSIs(j) /\ BackedIs(j)
        BY DEF ToldInv, JobIsTold
      <3>2. Onwards(j) /\ Noted(j) = Begun(j) /\ run[j].stages = <<>>
        BY <2>1, <3>1 DEF StageIs, Idle, Between
      <3>3. Begun(j) = Len(StagesFor(j))
        <4>1. order[j].workflow \in DOMAIN workflowStages
          BY ToolsAssumption DEF ToldInv
        <4>2. IsSeq(StagesFor(j))
          BY <4>1, StagesAre DEF StagesFit, StagesFor
        <4>3. Len(StagesFor(j)) \in Nat /\ Len(run[j].stages) = 0
          BY <3>2, <4>2, SeqIs, NothingIs
        <4> QED
          BY <4>3 DEF Begun
      <3>4. ~RowTried(j)
        BY <2>1 DEF RowTried
      <3> QED
        BY <3>1, <3>2, <3>3, <3>4
    <2>2. EveryStageTold
      <3> SUFFICES ASSUME NEW j \in Jobs, run[j].pc = "done"
                   PROVE  LET log == run[j].log
                              rows == outcomes[j]
                              workflow == order[j].workflow
                              stages == workflowStages[workflow]
                          IN /\ Opened(log, workflow, Len(log)) = Len(stages)
                             /\ \A i \in DOMAIN log : log[i].stage = stages[Opened(log, workflow, i)]
                             /\ Cardinality(OfTools(log)) \in Len(rows)..(Len(rows) + failures)
                             /\ \A i \in DOMAIN rows :
                                  /\ \E k \in OfTools(log) :
                                        log[k].tool = rows[i].tool /\ log[k].status = rows[i].status
                                  /\ rows[i].tool \in {"wpscan", "droopescan"} /\ rows[i].items # {} =>
                                        Fingerprinted(rows, i - 1)
        BY DEF EveryStageTold
      <3> DEFINE log == run[j].log
                 rows == outcomes[j]
                 w == order[j].workflow
      <3>1. /\ Onwards(j) /\ Noted(j) = Begun(j) /\ Begun(j) = Len(StagesFor(j))
            /\ RowsAre(j) /\ CMSIs(j) /\ ~RowTried(j)
        BY <2>1
      <3>2. IsSeq(log) /\ IsSeq(rows)
        BY <3>1 DEF Onwards, RowsAre
      <3>3. DOMAIN log = 1..Len(log) /\ DOMAIN rows = 1..Len(rows)
        BY <3>2, SeqIs
      <3>4. Opened(log, w, Len(log)) = Len(workflowStages[w])
        BY <3>1 DEF Noted, StagesFor
      <3>5. \A i \in 1..Len(log) : log[i].stage = workflowStages[w][Opened(log, w, i)]
        BY <3>1 DEF Onwards, StagesFor
      <3>6. Cardinality(OfTools(log)) \in Len(rows)..(Len(rows) + failures)
        <4>1. Cardinality(OfTools(log)) \in Nat
          BY <3>2, ToolEntries
        <4>2. Cardinality(OfTools(log)) + (IF RowTried(j) THEN 1 ELSE 0)
                 \in Len(rows)..(Len(rows) + failures)
          BY <3>1 DEF RowsAre
        <4> QED
          BY <3>1, <4>1, <4>2
      <3>7. \A i \in 1..Len(rows) : \E k \in OfTools(log) :
               log[k].tool = rows[i].tool /\ log[k].status = rows[i].status
        BY <3>1 DEF RowsAre
      <3>8. \A i \in 1..Len(rows) :
               rows[i].tool \in {"wpscan", "droopescan"} /\ rows[i].items # {} =>
                  Fingerprinted(rows, i - 1)
        BY <3>1 DEF CMSIs, Scanners
      <3> QED
        BY <3>3, <3>4, <3>5, <3>6, <3>7, <3>8
    <2>3. AssetsAreBacked
      <3>1. ASSUME NEW j \in Jobs, run[j].pc = "done", NEW i \in DOMAIN outcomes[j],
                   CategoryOf(outcomes[j][i].tool) \in DOMAIN Wanted,
                   NEW x \in outcomes[j][i].items,
                   NEW table \in Wanted[CategoryOf(outcomes[j][i].tool)]
            PROVE  Asset(table, j, x) \in stored \/ failures > 0
        <4>1. IsSeq(outcomes[j]) /\ BackedIs(j)
          BY <2>1, <3>1 DEF RowsAre
        <4>2. i \in 1..Len(outcomes[j])
          BY <3>1, <4>1, SeqIs
        <4>3. HasAll(j, CategoryOf(outcomes[j][i].tool), outcomes[j][i].items)
          BY <3>1, <4>1, <4>2 DEF BackedIs, BackedRow
        <4> QED
          BY <3>1, <4>3 DEF HasAll
      <3>2. AssetsHang
        BY DEF ToldInv, StoreIs
      <3> QED
        BY <3>1, <3>2 DEF AssetsAreBacked, AssetsHang
    <2> QED
      BY <2>2, <2>3 DEF WorkflowIsTold
  <1> QED
    BY <1>1, ToldInductive, PTL

-----------------------------------------------------------------------------
(***************************************************************************)
(* Types, of the workflows and of the queue that delivers them.            *)
(***************************************************************************)

\* The pass over the tools, at rest or at one of its points.
CheckIs ==
    check \in [kind : {"none", "startup", "sync", "health"}, todo : SUBSET Tools, before : SUBSET Tools]
LogIs(j) == \A i \in 1..Len(run[j].log) : run[j].log[i].status \in Statuses

\* The registry, beside the limiters: what is registered, installed, checked.
RegistryIs ==
    /\ tool = [t \in Tools |-> tool[t]] /\ disk \subseteq Tools /\ CheckIs
    /\ changes \in 0..MaxChanges /\ failures \in 0..MaxFailures

LEMMA CheckGoesOn ==
    ASSUME RegistryIs
    PROVE  /\ \A t \in Tools : Verify(t) => RegistryIs'
           /\ StartupPersist => RegistryIs'
           /\ SyncRegistryFromDB => RegistryIs'
           /\ HealthStart => RegistryIs'
           /\ HealthEnd => RegistryIs'
<1>0. MaxChanges \in Nat /\ MaxFailures \in Nat BY ToolsAssumption
<1>1. Change => changes' \in 0..MaxChanges BY <1>0 DEF Change, RegistryIs
<1>2. ASSUME NEW t \in Tools, Verify(t) PROVE RegistryIs'
  <2>1. tool' = [x \in Tools |-> tool'[x]] /\ disk' = disk /\ failures' = failures
    BY <1>2 DEF Verify, OnlyRegistry, RegistryIs
  <2>2. changes' \in 0..MaxChanges BY <1>1, <1>2 DEF Verify, RegistryIs
  <2>3. CheckIs'
    <3>1. check' = check \/ check' = [check EXCEPT !.todo = @ \ {t}] BY <1>2 DEF Verify
    <3> QED BY <3>1 DEF CheckIs, RegistryIs
  <2> QED BY <2>1, <2>2, <2>3 DEF RegistryIs
<1>3. ASSUME StartupPersist PROVE RegistryIs'
  <2>1. tool' = tool /\ disk' = disk /\ changes' = changes BY <1>3 DEF StartupPersist
  <2>2. failures' \in 0..MaxFailures
    <3>1. PICK fails \in BOOLEAN : /\ failures + (IF fails THEN 1 ELSE 0) <= MaxFailures
                                   /\ failures' = failures + (IF fails THEN 1 ELSE 0)
      BY <1>3 DEF StartupPersist
    <3> QED BY <1>0, <3>1 DEF RegistryIs
  <2>3. CheckIs'
    <3>1. check' = [check EXCEPT !.kind = "sync"] BY <1>3 DEF StartupPersist
    <3> QED BY <3>1 DEF CheckIs, RegistryIs
  <2> QED BY <2>1, <2>2, <2>3 DEF RegistryIs
<1>4. NoCheck \in [kind : {"none", "startup", "sync", "health"}, todo : SUBSET Tools, before : SUBSET Tools]
  BY DEF NoCheck
<1>5. ASSUME SyncRegistryFromDB PROVE RegistryIs'
  <2>1. /\ tool' = [x \in Tools |-> tool'[x]] /\ disk' = disk
        /\ changes' = changes /\ failures' = failures
    BY <1>5 DEF SyncRegistryFromDB, OnlyRegistry
  <2>2. CheckIs' BY <1>4, <1>5 DEF SyncRegistryFromDB, CheckIs
  <2> QED BY <2>1, <2>2 DEF RegistryIs
<1>6. ASSUME HealthStart PROVE RegistryIs'
  <2>1. tool' = tool /\ disk' = disk /\ failures' = failures
    BY <1>6 DEF HealthStart, OnlyRegistry
  <2>2. changes' \in 0..MaxChanges BY <1>1, <1>6 DEF HealthStart
  <2>3. CheckIs'
    <3>1. check' = [kind |-> "health", todo |-> Tools, before |-> {x \in Tools : tool[x].found}]
      BY <1>6 DEF HealthStart
    <3> QED BY <3>1 DEF CheckIs
  <2> QED BY <2>1, <2>2, <2>3 DEF RegistryIs
<1>7. ASSUME HealthEnd PROVE RegistryIs'
  <2>1. /\ tool' = tool /\ disk' = disk /\ changes' = changes /\ failures' = failures
    BY <1>7 DEF HealthEnd, OnlyRegistry
  <2>2. CheckIs' BY <1>4, <1>7 DEF HealthEnd, CheckIs
  <2> QED BY <2>1, <2>2 DEF RegistryIs
<1> QED BY <1>2, <1>3, <1>5, <1>6, <1>7

LEMMA ServerGoesOn ==
    ASSUME RegistryIs
    PROVE  /\ \A t \in Tools : AdminStep(t) => RegistryIs'
           /\ Restart => RegistryIs'
           /\ \A j \in Jobs : JobStep(j) => RegistryIs'
           /\ TimeStep => RegistryIs'
           /\ UNCHANGED workflowVars => RegistryIs'
<1>0. MaxChanges \in Nat /\ MaxFailures \in Nat BY ToolsAssumption
<1>1. Change => changes' \in 0..MaxChanges BY <1>0 DEF Change, RegistryIs
<1>2. ASSUME NEW t \in Tools, AdminStep(t) PROVE RegistryIs'
  <2>1. ASSUME NEW b \in BOOLEAN, SetEnabled(t, b) PROVE RegistryIs'
    <3>1. tool' = [x \in Tools |-> tool'[x]] BY <2>1 DEF SetEnabled, RegistryIs
    <3>2. disk' = disk /\ check' = check /\ failures' = failures
      BY <2>1 DEF SetEnabled, OnlyRegistry
    <3> QED BY <1>1, <2>1, <3>1, <3>2 DEF SetEnabled, RegistryIs, CheckIs
  <2>2. ASSUME NEW limit \in Limits, SetRateLimits(t, limit) PROVE RegistryIs'
    <3>1. tool' = tool /\ disk' = disk /\ check' = check /\ failures' = failures
      BY <2>2 DEF SetRateLimits, OnlyRegistry
    <3> QED BY <1>1, <2>2, <3>1 DEF SetRateLimits, RegistryIs, CheckIs
  <2>3. ASSUME DiskChange(t) PROVE RegistryIs'
    <3>1. tool' = tool /\ check' = check /\ failures' = failures
      BY <2>3 DEF DiskChange, OnlyRegistry
    <3>2. disk' \subseteq Tools BY <2>3 DEF DiskChange, RegistryIs
    <3> QED BY <1>1, <2>3, <3>1, <3>2 DEF DiskChange, RegistryIs, CheckIs
  <2> QED BY <1>2, <2>1, <2>2, <2>3 DEF AdminStep
<1>3. ASSUME Restart PROVE RegistryIs'
  <2>1. tool' = [x \in Tools |-> tool'[x]] BY <1>3 DEF Restart, RegisterAll
  <2>2. disk' = disk /\ failures' = failures BY <1>3 DEF Restart, OnlyRegistry
  <2>3. changes' \in 0..MaxChanges BY <1>1, <1>3 DEF Restart
  <2>4. CheckIs' BY <1>3 DEF Restart, StartupCheck, CheckIs
  <2> QED BY <2>1, <2>2, <2>3, <2>4 DEF RegistryIs
<1>4. ASSUME NEW j \in Jobs, JobStep(j) PROVE RegistryIs'
  <2>1. tool' = tool /\ disk' = disk /\ check' = check /\ changes' = changes
    BY <1>4 DEF JobStep, RunWorkflow, NextStage, NextTool, AcquireSlot, PassSpacing, CheckTool,
       RunBinary, SaveAssets, PersistRow, FinishTool, OnlyRun, registryVars
  <2>2. failures' \in 0..MaxFailures
    <3>1. \A b \in BOOLEAN : WriteFault(b) => failures' \in 0..MaxFailures
      BY <1>0 DEF WriteFault, RegistryIs
    <3>2. CASE SaveAssets(j) BY <3>1, <3>2 DEF SaveAssets
    <3>3. CASE PersistRow(j) BY <3>1, <3>3 DEF PersistRow
    <3>4. SaveAssets(j) \/ PersistRow(j) \/ failures' = failures
      BY <1>4 DEF JobStep, RunWorkflow, NextStage, NextTool, AcquireSlot, PassSpacing, CheckTool,
         RunBinary, FinishTool, OnlyRun
    <3> QED BY <3>2, <3>3, <3>4 DEF RegistryIs
  <2> QED BY <2>1, <2>2 DEF RegistryIs, CheckIs
<1>5. ASSUME TimeStep PROVE RegistryIs'
  <2>1. tool' = tool /\ disk' = disk /\ check' = check /\ changes' = changes /\ failures' = failures
    BY <1>5 DEF TimeStep, RestOver
  <2> QED BY <2>1 DEF RegistryIs, CheckIs
<1>6. ASSUME UNCHANGED workflowVars PROVE RegistryIs'
  <2>1. tool' = tool /\ disk' = disk /\ check' = check /\ changes' = changes /\ failures' = failures
    BY <1>6 DEF workflowVars, registryVars
  <2> QED BY <2>1 DEF RegistryIs, CheckIs
<1> QED BY <1>2, <1>3, <1>4, <1>5, <1>6

\* What is noted of a tool or a stage is one of the three.
LEMMA NotesGoOn ==
    ASSUME IInv, ToldInv, [WorkflowNext]_workflowVars, \A j \in Jobs : LogIs(j)
    PROVE  \A j \in Jobs : LogIs(j)'
<1>1. SUFFICES ASSUME NEW k \in Jobs PROVE LogIs(k)' OBVIOUS
<1>2. run'[k].log = run[k].log => LogIs(k)' BY DEF LogIs
<1>3. ASSUME NEW e, run'[k].log = Append(run[k].log, e), e.status \in Statuses, IsSeq(run[k].log)
      PROVE  LogIs(k)'
  <2>1. Len(run[k].log) \in Nat BY <1>3, SeqIs
  <2>2. /\ Len(run'[k].log) = Len(run[k].log) + 1
        /\ \A i \in 1..Len(run[k].log) : run'[k].log[i] = run[k].log[i]
        /\ run'[k].log[Len(run[k].log) + 1] = e
    BY <1>3, AppendIs
  <2>3. ASSUME NEW i \in 1..Len(run'[k].log) PROVE run'[k].log[i].status \in Statuses
    <3>1. i \in 1..Len(run[k].log) \/ i = Len(run[k].log) + 1 BY <2>1, <2>2
    <3> QED BY <1>3, <2>2, <3>1 DEF LogIs
  <2> QED BY <2>3 DEF LogIs
<1>4. ASSUME NEW j \in Jobs, JobStep(j) PROVE LogIs(k)'
  <2>1. CASE k # j BY <1>2, <1>4, <2>1, JobFrame
  <2>2. CASE k = j
    <3>1. CASE NextStage(k)
      <4>1. CASE run'[k].log = run[k].log BY <1>2, <4>1
      <4>2. CASE run'[k].log = Append(run[k].log, Skipped(Head(run[k].stages)))
        <5>1. IsSeq(run[k].log)
          <6>1. run[k].pc = "stage" BY <3>1 DEF NextStage
          <6> QED BY <6>1 DEF ToldInv, JobIsTold, StageIs, Idle, Onwards
        <5>2. Skipped(Head(run[k].stages)).status \in Statuses BY DEF Skipped, Statuses
        <5> QED BY <1>3, <4>2, <5>1, <5>2
      <4> QED BY <3>1, <4>1, <4>2, NextStageMoves DEF Keeps
    <3>2. CASE FinishTool(k)
      <4> DEFINE e == [stage |-> CategoryOf(Current(k)), tool |-> Current(k), status |-> Status(k)]
      <4>1. run'[k].log = Append(run[k].log, e) /\ run[k].pc = "log" BY <3>2, FinishToolMoves
      <4>2. IsSeq(run[k].log) BY <4>1 DEF ToldInv, JobIsTold, StageIs, Idle, Onwards
      <4>3. e.status \in Statuses BY DEF Status, Statuses
      <4> QED BY <1>3, <4>1, <4>2, <4>3
    <3>3. CASE RunWorkflow(k) BY <1>2, <3>3, RunWorkflowMoves
    <3>4. CASE NextTool(k) BY <1>2, <3>4, NextToolMoves DEF Keeps
    <3>5. CASE AcquireSlot(k) BY <1>2, <3>5, AcquireSlotMoves DEF Keeps, KeepsAll
    <3>6. CASE PassSpacing(k) BY <1>2, <3>6, PassSpacingMoves DEF Keeps, KeepsAll
    <3>7. CASE CheckTool(k) BY <1>2, <3>7, CheckToolMoves DEF Keeps, KeepsAll
    <3>8. CASE RunBinary(k) BY <1>2, <3>8, RunBinaryMoves DEF Keeps
    <3>9. CASE SaveAssets(k) BY <1>2, <3>9, SaveAssetsMoves DEF Keeps, KeepsAll
    <3>10. CASE PersistRow(k) BY <1>2, <3>10, PersistRowMoves DEF Keeps, KeepsAll
    <3> QED BY <1>4, <2>2, <3>1, <3>2, <3>3, <3>4, <3>5, <3>6, <3>7, <3>8, <3>9, <3>10 DEF JobStep
  <2> QED BY <2>1, <2>2
<1>5. ASSUME NEW t \in Tools, AdminStep(t) PROVE run' = run
  BY <1>5 DEF AdminStep, SetEnabled, SetRateLimits, DiskChange, OnlyRegistry, jobVars
<1>6. ASSUME CheckStep PROVE run' = run
  BY <1>6 DEF CheckStep, Verify, StartupPersist, SyncRegistryFromDB, HealthEnd, OnlyRegistry, jobVars
<1>7. ASSUME ServerStep PROVE run' = run
  BY <1>7 DEF ServerStep, HealthStart, Restart, OnlyRegistry, jobVars
<1>8. ASSUME TimeStep PROVE run' = run BY <1>8 DEF TimeStep, RestOver, jobVars
<1>9. ASSUME UNCHANGED workflowVars PROVE run' = run BY <1>9 DEF workflowVars, jobVars
<1> QED BY <1>2, <1>4, <1>5, <1>6, <1>7, <1>8, <1>9 DEF WorkflowNext

-----------------------------------------------------------------------------
\* The queue of MCTools, and what JobQueueProofs says of it.
Delivered == INSTANCE JobQueueProofs WITH
    Jobs <- Queued, Types <- {job}, TypeOf <- [x \in Queued |-> job],
    BufferSize <- 1, MaxRetry <- 1, MaxBoots <- 1, MaxOutages <- 1

LEMMA QueueIs == Delivered!JobQueueAssumption
<1>1. [x \in Queued |-> job] \in [Queued -> {job}] OBVIOUS
<1> QED BY <1>1, MCToolsAssumption DEF Delivered!JobQueueAssumption

LEMMA QueueTypes == Delivered!IInv => Queue!TypeOK
BY DEF Delivered!IInv, Delivered!TypeOK, Queue!TypeOK, Delivered!Copies, Queue!Copies,
   Delivered!Phases, Queue!Phases, Delivered!PCs, Queue!PCs, Delivered!Outcomes, Queue!Outcomes,
   Delivered!Losses, Queue!Losses

LEMMA QueueBegins == Queue!Init => Delivered!IInv
<1>1. Queue!Init => Delivered!Init
  BY DEF Queue!Init, Delivered!Init, Queue!Copies, Delivered!Copies
<1> QED BY <1>1, QueueIs, Delivered!InitIInv

LEMMA QueueSteps == [Queue!Next]_queueVars => [Delivered!Next]_Delivered!vars
<1> USE DEF Queue!Copies, Delivered!Copies, Queue!vars, Delivered!vars, Queue!svcVars, Delivered!svcVars,
      Queue!redisVars, Delivered!redisVars, Queue!wkVars, Delivered!wkVars, Queue!histVars, Delivered!histVars,
      Queue!Serving, Delivered!Serving, Queue!CtxDone, Delivered!CtxDone, Queue!HasSink, Delivered!HasSink,
      Queue!Elems, Delivered!Elems, Queue!HeldCopies, Delivered!HeldCopies,
      Queue!DeadLetter, Delivered!DeadLetter, Queue!Settle, Delivered!Settle,
      Queue!SinkIfAny, Delivered!SinkIfAny, Queue!ProcessEnds, Delivered!ProcessEnds,
      Queue!Born, Delivered!Born, Queue!EnqueueInMemory, Delivered!EnqueueInMemory,
      Queue!GoTo, Delivered!GoTo, Queue!Take, Delivered!Take, Queue!Free, Delivered!Free,
      Queue!StartRun, Delivered!StartRun
<1>1. Queue!Boot => Delivered!Boot BY DEF Queue!Boot, Delivered!Boot
<1>2. Queue!SetDLQ => Delivered!SetDLQ BY DEF Queue!SetDLQ, Delivered!SetDLQ
<1>3. Queue!Serve => Delivered!Serve BY DEF Queue!Serve, Delivered!Serve
<1>4. Queue!StopCancel => Delivered!StopCancel BY DEF Queue!StopCancel, Delivered!StopCancel
<1>5. Queue!StopWait => Delivered!StopWait BY DEF Queue!StopWait, Delivered!StopWait
<1>6. Queue!Exit => Delivered!Exit BY DEF Queue!Exit, Delivered!Exit
<1>7. Queue!Crash => Delivered!Crash BY DEF Queue!Crash, Delivered!Crash
<1>8. \A t \in {job} : Queue!Register(t) => Delivered!Register(t) BY DEF Queue!Register, Delivered!Register
<1>9. Queue!RedisFails => Delivered!RedisFails BY DEF Queue!RedisFails, Delivered!RedisFails
<1>10. Queue!RedisRecovers => Delivered!RedisRecovers BY DEF Queue!RedisRecovers, Delivered!RedisRecovers
<1>11. ASSUME NEW j \in Queued PROVE Queue!Enqueue(j) => Delivered!Enqueue(j)
  BY DEF Queue!Enqueue, Delivered!Enqueue, Queue!PushStored, Delivered!PushStored,
     Queue!PushStoredTwice, Delivered!PushStoredTwice, Queue!PushFailed, Delivered!PushFailed
<1>12. ASSUME NEW w \in Workers PROVE Queue!WorkerStep(w) => Delivered!WorkerStep(w)
  <2>1. Queue!LoopHead(w) => Delivered!LoopHead(w) BY DEF Queue!LoopHead, Delivered!LoopHead
  <2>2. Queue!RecvRedis(w) => Delivered!RecvRedis(w) BY DEF Queue!RecvRedis, Delivered!RecvRedis
  <2>3. Queue!RecvMemory(w) => Delivered!RecvMemory(w) BY DEF Queue!RecvMemory, Delivered!RecvMemory
  <2>4. Queue!Lookup(w) => Delivered!Lookup(w) BY DEF Queue!Lookup, Delivered!Lookup
  <2>5. Queue!HandlerSucceeds(w) => Delivered!HandlerSucceeds(w)
    BY DEF Queue!HandlerSucceeds, Delivered!HandlerSucceeds
  <2>6. Queue!HandlerFails(w) => Delivered!HandlerFails(w) BY DEF Queue!HandlerFails, Delivered!HandlerFails
  <2>7. Queue!BackoffElapsed(w) => Delivered!BackoffElapsed(w)
    BY DEF Queue!BackoffElapsed, Delivered!BackoffElapsed
  <2>8. Queue!BackoffCancelled(w) => Delivered!BackoffCancelled(w)
    BY DEF Queue!BackoffCancelled, Delivered!BackoffCancelled
  <2>9. Queue!CallSink(w) => Delivered!CallSink(w) BY DEF Queue!CallSink, Delivered!CallSink
  <2> QED BY <2>1, <2>2, <2>3, <2>4, <2>5, <2>6, <2>7, <2>8, <2>9 DEF Queue!WorkerStep,
             Delivered!WorkerStep
<1>13. Queue!Next => Delivered!Next
  BY <1>1, <1>2, <1>3, <1>4, <1>5, <1>6, <1>7, <1>8, <1>9, <1>10, <1>11, <1>12
  DEF Queue!Next, Delivered!Next
<1>14. UNCHANGED queueVars => UNCHANGED Delivered!vars BY DEF queueVars
<1> QED BY <1>13, <1>14

\* Every variable of the tools' run keeps its type: the registry, the passes over
\* it and the notes of the workflows (WorkflowEngine.Run, Registry), and the queue
\* that delivers them (jobs.Queue), in the behaviours of each.
THEOREM ToolsTypes == ToolsSpec => []ToolsTypeOK
<1> DEFINE TInv == /\ part \in {"workflow", "reports", "queue"} /\ Delivered!IInv
                   /\ part = "workflow" => /\ IInv /\ ToldInv /\ RegistryIs
                                           /\ \A j \in Jobs : LogIs(j)
<1>1. ToolsInit => TInv
  <2> SUFFICES ASSUME ToolsInit PROVE TInv OBVIOUS
  <2>1. Delivered!IInv BY QueueBegins DEF ToolsInit
  <2>2. ASSUME part = "workflow" PROVE IInv /\ ToldInv /\ RegistryIs /\ \A j \in Jobs : LogIs(j)
    <3>1. /\ WorkflowInit BY <2>2 DEF ToolsInit
    <3>2. IInv /\ ToldInv BY <3>1, InitHolds, InitTold
    <3>3. RegistryIs
      <4>1. tool = [t \in Tools |-> tool[t]] /\ disk \subseteq Tools /\ changes = 0 /\ failures = 0
        BY <3>1, ToolsAssumption DEF WorkflowInit
      <4>2. CheckIs BY <3>1 DEF WorkflowInit, CheckIs, NoCheck
      <4>3. 0 \in 0..MaxChanges /\ 0 \in 0..MaxFailures BY ToolsAssumption
      <4> QED BY <4>1, <4>2, <4>3 DEF RegistryIs
    <3>4. \A j \in Jobs : LogIs(j)
      <4>1. \A j \in Jobs : run[j].log = <<>> BY <3>1 DEF WorkflowInit, NotRun
      <4>2. Len(<<>>) = 0 BY NothingIs
      <4> QED BY <4>1, <4>2 DEF LogIs
    <3> QED BY <3>2, <3>3, <3>4
  <2> QED BY <2>1, <2>2 DEF ToolsInit
<1>2. TInv /\ [ToolsNext]_toolsVars => TInv'
  <2> SUFFICES ASSUME TInv, [ToolsNext]_toolsVars PROVE TInv' OBVIOUS
  <2>1. part' = part BY DEF ToolsNext, toolsVars
  <2>2. Delivered!IInv'
    <3>1. [Queue!Next]_queueVars BY DEF ToolsNext, toolsVars
    <3>2. [Delivered!Next]_Delivered!vars BY <3>1, QueueSteps
    <3> QED BY <3>2, QueueIs, Delivered!StepIInv
  <2>3. part = "workflow" => [WorkflowNext]_workflowVars
    <3>1. {"sqlmap", "dalfox"} \subseteq Tools BY MCToolsAssumption
    <3> QED BY <3>1 DEF ToolsNext, toolsVars, WorkflowNext
  <2>4. ASSUME part = "workflow" PROVE (IInv /\ ToldInv /\ RegistryIs /\ \A j \in Jobs : LogIs(j))'
    <3>1. /\ [WorkflowNext]_workflowVars /\ IInv /\ ToldInv /\ RegistryIs /\ \A j \in Jobs : LogIs(j)
      BY <2>3, <2>4
    <3>2. IInv' BY <3>1, StepKeeps
    <3>3. ToldInv' BY <3>1, StepTold
    <3>4. (\A j \in Jobs : LogIs(j))' BY <3>1, NotesGoOn
    <3>5. RegistryIs'
      BY <3>1, CheckGoesOn, ServerGoesOn DEF WorkflowNext, CheckStep, ServerStep
    <3> QED BY <3>2, <3>3, <3>4, <3>5
  <2> QED BY <2>1, <2>2, <2>4
<1>3. TInv => ToolsTypeOK
  <2> SUFFICES ASSUME TInv PROVE ToolsTypeOK OBVIOUS
  <2>1. ASSUME part = "workflow" PROVE WorkflowTypeOK
    <3>1. IInv /\ ToldInv /\ RegistryIs /\ \A j \in Jobs : LogIs(j) BY <2>1
    <3>2. DOMAIN tool = Tools /\ disk \subseteq Tools BY <3>1 DEF RegistryIs
    <3>3. DOMAIN limiter = Tools BY <3>1 DEF IInv, LimitersAre
    <3>4. check.todo \subseteq Tools /\ check.kind \in {"none", "startup", "sync", "health"}
      BY <3>1 DEF RegistryIs, CheckIs
    <3>5. ASSUME NEW j \in Jobs PROVE \A i \in DOMAIN run[j].log : run[j].log[i].status \in Statuses
      <4>1. IsSeq(run[j].log)
        BY <3>1, NothingIs DEF ToldInv, JobIsTold, StageIs, Onwards
      <4>2. DOMAIN run[j].log = 1..Len(run[j].log) BY <4>1, SeqIs
      <4> QED BY <3>1, <4>2 DEF LogIs
    <3> QED BY <3>1, <3>2, <3>3, <3>4, <3>5 DEF WorkflowTypeOK, RegistryIs
  <2>2. Queue!TypeOK BY QueueTypes
  <2> QED BY <2>1, <2>2 DEF ToolsTypeOK
<1> QED BY <1>1, <1>2, <1>3, PTL DEF ToolsSpec
-----------------------------------------------------------------------------
(***************************************************************************)
(* What the wrappers make of an output.                                    *)
(***************************************************************************)

\* FlattenSeq, one sequence at a time.
LEMMA Flattens ==
    ASSUME NEW n \in Nat, NEW T, NEW q \in [1..n -> T]
    PROVE  \E g : /\ \A i \in 1..n : g[i] = IF i = 1 THEN q[i] ELSE g[i - 1] \o q[i]
                  /\ FlattenSeq(q) = IF n = 0 THEN <<>> ELSE g[n]
<1> DEFINE Piece(g, i) == IF i = 1 THEN q[i] ELSE g[i - 1] \o q[i]
           IsFlat(g, m) == g = [i \in 1..m |-> Piece(g, i)]
           Have == {m \in 0..n : \E g : IsFlat(g, m)}
           Lack == (0..n) \ Have
<1>1. Lack = {}
   <2>1. SUFFICES ASSUME Lack # {} PROVE FALSE OBVIOUS
   <2>2. PICK m \in Lack : \A k \in Lack : m <= k
      <3> HIDE DEF Have
      <3>1. Lack \subseteq Nat OBVIOUS
      <3> HIDE DEF Lack
      <3> QED BY <2>1, <3>1, LeastOf
   <2>3. m # 0
      <3>1. IsFlat([i \in 1..0 |-> Piece(q, i)], 0) OBVIOUS
      <3> QED BY <3>1
   <2>4. m - 1 \in Have
      <3> HIDE DEF Have
      <3> QED BY <2>2, <2>3
   <2>5. PICK g : IsFlat(g, m - 1)
      <3> HIDE DEF IsFlat
      <3> QED BY <2>4
   <2> DEFINE h == [i \in 1..m |-> Piece(g, i)]
   <2>6. \A i \in 1..(m - 1) : h[i] = g[i]
      <3>1. TAKE i \in 1..(m - 1)
      <3>2. i \in 1..m BY <2>2
      <3>3. h[i] = Piece(g, i) BY <3>2
      <3>4. g[i] = Piece(g, i) BY <2>5
      <3> QED BY <3>3, <3>4
   <2>7. \A i \in 1..m : i # 1 => i - 1 \in 1..(m - 1) BY <2>2
   <2>8. \A i \in 1..m : Piece(g, i) = Piece(h, i)
      <3>1. \A i \in 1..m : i # 1 => h[i - 1] = g[i - 1]
         <4> HIDE DEF h
         <4> QED BY <2>6, <2>7
      <3> HIDE DEF h
      <3> QED BY <3>1
   <2>9. IsFlat(h, m) BY <2>8
   <2>10. m \in 0..n BY <2>2
   <2>11. m \in Have BY <2>9, <2>10
   <2> QED BY <2>2, <2>11
<1>2. PICK g0 : IsFlat(g0, n)
   <2>1. n \in Have
      <3> HIDE DEF Have
      <3> QED BY <1>1
   <2> QED BY <2>1
<1>3. Len(q) = n /\ (n = 0 => q = <<>>) BY ListIs, SeqIs
<1> DEFINE g == CHOOSE g : IsFlat(g, n)
<1>4. IsFlat(g, n) BY <1>2
<1>5. n # 0 => FlattenSeq(q) = g[n] BY <1>3 DEF FlattenSeq
<1>6. n = 0 => FlattenSeq(q) = <<>> BY <1>3 DEF FlattenSeq
<1> HIDE DEF g
<1>7. \A i \in 1..n : g[i] = IF i = 1 THEN q[i] ELSE g[i - 1] \o q[i] BY <1>4
<1> QED BY <1>5, <1>6, <1>7

\* It lists what the sequences list, and nothing else.
Lists(r, q, n) == \A i \in 1..n : \A j \in 1..Len(q[i]) : \E k \in 1..Len(r) : r[k] = q[i][j]
LEMMA FlattenIs ==
    ASSUME NEW n \in Nat, NEW S, NEW q \in [1..n -> Seq(S)]
    PROVE  /\ FlattenSeq(q) \in Seq(S)
           /\ Lists(FlattenSeq(q), q, n)
<1>1. PICK g : /\ \A i \in 1..n : g[i] = IF i = 1 THEN q[i] ELSE g[i - 1] \o q[i]
               /\ FlattenSeq(q) = IF n = 0 THEN <<>> ELSE g[n]
   BY Flattens
<1> DEFINE Holds(f, i) == \A j \in 1..Len(q[i]) : \E k \in 1..Len(f) : f[k] = q[i][j]
           Good(m) == g[m] \in Seq(S) /\ \A i \in 1..m : Holds(g[m], i)
           Bad == {m \in 1..n : ~Good(m)}
<1>2. Bad = {}
   <2>1. SUFFICES ASSUME Bad # {} PROVE FALSE OBVIOUS
   <2>2. Bad \subseteq Nat OBVIOUS
   <2>3. PICK m \in Bad : \A k \in Bad : m <= k
      <3> HIDE DEF Bad
      <3> QED BY <2>1, <2>2, LeastOf
   <2>4. m \in 1..n /\ ~Good(m) OBVIOUS
   <2>5. m # 1
      <3> SUFFICES ASSUME m = 1 PROVE FALSE OBVIOUS
      <3>1. g[m] = q[m] /\ q[m] \in Seq(S) BY <1>1, <2>4
      <3>2. \A i \in 1..m : i = m BY <2>4
      <3>3. Holds(q[m], m) OBVIOUS
      <3>4. \A i \in 1..m : Holds(g[m], i)
         <4> HIDE DEF Holds
         <4> QED BY <3>1, <3>2, <3>3
      <3> HIDE DEF Holds
      <3> QED BY <2>4, <3>1, <3>4
   <2>6. m - 1 \in 1..n /\ m - 1 \notin Bad
      <3> HIDE DEF Bad
      <3> QED BY <2>3, <2>4, <2>5
   <2>7. Good(m - 1) BY <2>6
   <2>8. g[m] = g[m - 1] \o q[m] BY <1>1, <2>4, <2>5
   <2>9. PICK x, y, z : x = g[m - 1] /\ y = q[m] /\ z = g[m] OBVIOUS
   <2>10. x \in Seq(S) /\ y \in Seq(S) BY <2>4, <2>7, <2>9
   <2>11. Len(x) \in Nat /\ Len(y) \in Nat BY <2>10, LenProperties
   <2>12. /\ z \in Seq(S) /\ Len(z) = Len(x) + Len(y)
          /\ \A i \in 1..(Len(x) + Len(y)) : z[i] = IF i <= Len(x) THEN x[i] ELSE y[i - Len(x)]
      BY <2>8, <2>9, <2>10, ConcatProperties
   <2>13. ASSUME NEW i \in 1..m PROVE Holds(z, i)
      <3>1. CASE i = m
         <4>1. ASSUME NEW j \in 1..Len(y) PROVE \E k \in 1..Len(z) : z[k] = y[j]
            <5>1. PICK k : k = Len(x) + j OBVIOUS
            <5>2. k \in 1..(Len(x) + Len(y)) /\ ~(k <= Len(x)) /\ k - Len(x) = j BY <2>11, <5>1
            <5>3. z[k] = y[j] BY <2>12, <5>2
            <5> QED BY <2>12, <5>2, <5>3
         <4> QED BY <2>9, <3>1, <4>1
      <3>2. CASE i # m
         <4>1. i \in 1..(m - 1) BY <2>4, <3>2
         <4>2. Holds(x, i) BY <2>7, <2>9, <4>1
         <4>3. \A k \in 1..Len(x) : k \in 1..Len(z) /\ z[k] = x[k] BY <2>11, <2>12
         <4> QED BY <4>2, <4>3
      <3> QED BY <3>1, <3>2
   <2> HIDE DEF Holds
   <2>14. Good(m) BY <2>9, <2>12, <2>13
   <2> QED BY <2>4, <2>14
<1>3. CASE n = 0
   <2>1. FlattenSeq(q) = <<>> BY <1>1, <1>3
   <2>2. FlattenSeq(q) \in Seq(S) BY <2>1, EmptySeq
   <2>3. Lists(FlattenSeq(q), q, n) BY <1>3 DEF Lists
   <2> QED BY <2>2, <2>3
<1>4. CASE n # 0
   <2>1. n \in 1..n BY <1>4
   <2> HIDE DEF Good
   <2>2. Good(n) BY <1>2, <2>1
   <2> USE DEF Good
   <2>3. FlattenSeq(q) = g[n] BY <1>1, <1>4
   <2>4. PICK r : r = FlattenSeq(q) OBVIOUS
   <2>5. Lists(r, q, n) BY <2>2, <2>3, <2>4 DEF Lists
   <2> QED BY <2>2, <2>3, <2>4, <2>5
<1> QED BY <1>3, <1>4

-----------------------------------------------------------------------------
\* What a tool prints, its lines being of L and its items of I. It prints a
\* marker of Telling, an object on a line or a document for findings only.
Telling == {"is vulnerable", "sqlmap identified", "is behind", "[VULN]", "[Vulnerable]"}
Tells(l) == l.json \/ Has(l, Telling)
AllFound(items) == \A k \in DOMAIN items : items[k].says = "found"
OutFields == {"lines", "doc", "rows", "files", "calls"}
IsPrinted(out, L, I) ==
    /\ \A l \in L : l.items \in Seq(I) /\ (Tells(l) => AllFound(l.items))
    /\ DOMAIN out = OutFields /\ out.lines \in Seq(L)
    /\ out.doc.entries \in Seq(I) /\ AllFound(out.doc.entries)
    /\ out.rows \in Seq(I) /\ out.files \in Seq(I)
    /\ \A c \in CallNames : out.calls[c].items \in Seq(I)

\* Results a wrapper of t may give, and how it may rate an item.
Levels == {"", "info", "medium", "high", "critical", "detected"}
Alarms == {"medium", "high", "critical", "detected"}
Fair(t, r) == r.sev \in Alarms => r.says = "found" \/ t \in Credulous
Sevs(I) == Levels \cup {y.sev : y \in I}
Results(I) == {Result(x, s) : x \in I, s \in Sevs(I)}
Denial == [item |-> "none", sev |-> "", says |-> "denied"]
Fine(t, I) == {r \in Results(I) \cup {Denial} : Fair(t, r)}
MayRate(t, items, s) == s \in Levels /\ (s \in Alarms => AllFound(items) \/ t \in Credulous)

LEMMA SameLength ==
    ASSUME NEW I, NEW items \in Seq(I), NEW F, NEW f \in [DOMAIN items -> F]
    PROVE  f \in Seq(F)
<1>1. Len(items) \in Nat /\ DOMAIN items = 1..Len(items) BY LenProperties
<1>2. f \in [1..Len(items) -> F] BY <1>1
<1> QED BY <1>1, <1>2, SeqDef

LEMMA FineResult ==
    ASSUME NEW t, NEW I, NEW x \in I, NEW s \in Sevs(I),
           s \in Alarms => x.says = "found" \/ t \in Credulous
    PROVE  Result(x, s) \in Fine(t, I)
<1>1. PICK r : r = Result(x, s) OBVIOUS
<1>2. r.sev = s /\ r.says = x.says BY <1>1 DEF Result
<1>3. Fair(t, r) BY <1>2 DEF Fair
<1>4. r \in Results(I) BY <1>1 DEF Results
<1>5. r \in Fine(t, I) BY <1>3, <1>4 DEF Fine
<1> QED BY <1>1, <1>5

\* Items all rated the same.
LEMMA FineRated ==
    ASSUME NEW t, NEW I, NEW items \in Seq(I), NEW s, MayRate(t, items, s)
    PROVE  [k \in DOMAIN items |-> Result(items[k], s)] \in Seq(Fine(t, I))
<1>1. \A k \in DOMAIN items : items[k] \in I BY LenProperties
<1>2. ASSUME NEW k \in DOMAIN items PROVE Result(items[k], s) \in Fine(t, I)
   <2>1. s \in Alarms => items[k].says = "found" \/ t \in Credulous BY DEF MayRate, AllFound
   <2>2. s \in Sevs(I) BY DEF MayRate, Sevs
   <2> QED BY <1>1, <2>1, <2>2, FineResult
<1>3. [k \in DOMAIN items |-> Result(items[k], s)] \in [DOMAIN items -> Fine(t, I)] BY <1>2
<1> QED BY <1>3, SameLength

\* Items found, however they are rated.
LEMMA FineFound ==
    ASSUME NEW t, NEW I, NEW items \in Seq(I), AllFound(items), NEW sev,
           \A k \in DOMAIN items : sev[k] \in Sevs(I)
    PROVE  [k \in DOMAIN items |-> Result(items[k], sev[k])] \in Seq(Fine(t, I))
<1>1. \A k \in DOMAIN items : items[k] \in I BY LenProperties
<1>2. ASSUME NEW k \in DOMAIN items PROVE Result(items[k], sev[k]) \in Fine(t, I)
   <2>1. items[k].says = "found" BY DEF AllFound
   <2> QED BY <1>1, <2>1, FineResult
<1>3. [k \in DOMAIN items |-> Result(items[k], sev[k])] \in [DOMAIN items -> Fine(t, I)] BY <1>2
<1> QED BY <1>3, SameLength

LEMMA FineSaid ==
    ASSUME NEW t, NEW I, NEW items \in Seq(I), AllFound(items)
    PROVE  AsSaid(items) \in Seq(Fine(t, I))
<1>1. \A k \in DOMAIN items : items[k] \in I BY LenProperties
<1>2. ASSUME NEW k \in DOMAIN items PROVE Result(items[k], items[k].sev) \in Fine(t, I)
   <2>1. items[k].says = "found" BY DEF AllFound
   <2>2. items[k].sev \in Sevs(I) BY <1>1 DEF Sevs
   <2> QED BY <1>1, <2>1, <2>2, FineResult
<1>3. [k \in DOMAIN items |-> Result(items[k], items[k].sev)] \in [DOMAIN items -> Fine(t, I)]
   BY <1>2
<1>4. [k \in DOMAIN items |-> Result(items[k], items[k].sev)] \in Seq(Fine(t, I))
   BY <1>3, SameLength
<1> QED BY <1>4 DEF AsSaid, Rated

LEMMA FinePlain ==
    ASSUME NEW t, NEW I, NEW items \in Seq(I)
    PROVE  Plain(items) \in Seq(Fine(t, I))
<1>1. MayRate(t, items, "") BY DEF MayRate, Levels, Alarms
<1>2. [k \in DOMAIN items |-> Result(items[k], "")] \in Seq(Fine(t, I)) BY <1>1, FineRated
<1> QED BY <1>2 DEF Plain, Rated

\* Sequences put together.
LEMMA FlatIn ==
    ASSUME NEW P, NEW s \in Seq(P), NEW F, NEW f \in [DOMAIN s -> Seq(F)]
    PROVE  FlattenSeq(f) \in Seq(F)
<1>1. Len(s) \in Nat /\ DOMAIN s = 1..Len(s) BY LenProperties
<1>2. f \in [1..Len(s) -> Seq(F)] BY <1>1
<1> QED BY <1>1, <1>2, FlattenIs

\* The lines a wrapper rates, each as a whole.
LEMMA FineLines ==
    ASSUME NEW t, NEW L, NEW I, \A l \in L : l.items \in Seq(I), NEW s \in Seq(L), NEW f,
           f = [i \in DOMAIN s |-> f[i]],
           \A i \in DOMAIN s :
              \/ f[i] = <<>>
              \/ \E r : MayRate(t, s[i].items, r)
                        /\ f[i] = [k \in DOMAIN s[i].items |-> Result(s[i].items[k], r)]
    PROVE  FlattenSeq(f) \in Seq(Fine(t, I))
<1>1. ASSUME NEW i \in DOMAIN s PROVE f[i] \in Seq(Fine(t, I))
   <2>1. CASE f[i] = <<>> BY <2>1, EmptySeq
   <2>2. ASSUME NEW r, MayRate(t, s[i].items, r),
                f[i] = [k \in DOMAIN s[i].items |-> Result(s[i].items[k], r)]
         PROVE  f[i] \in Seq(Fine(t, I))
      <3>1. s[i] \in L BY LenProperties
      <3>2. s[i].items \in Seq(I) BY <3>1
      <3> QED BY <2>2, <3>2, FineRated
   <2> QED BY <2>1, <2>2
<1>2. f \in [DOMAIN s -> Seq(Fine(t, I))] BY <1>1
<1> QED BY <1>2, FlatIn

\* What is kept of a list is of the list.
LEMMA SiftedIs ==
    ASSUME NEW S, NEW s \in Seq(S), NEW f, f = [i \in DOMAIN s |-> f[i]],
           \A i \in DOMAIN s : f[i] = <<>> \/ f[i] = <<s[i]>>
    PROVE  FlattenSeq(f) \in Seq({s[i] : i \in DOMAIN s})
<1> DEFINE T == {s[i] : i \in DOMAIN s}
<1>1. ASSUME NEW i \in DOMAIN s PROVE f[i] \in Seq(T)
   <2>1. s[i] \in T OBVIOUS
   <2> HIDE DEF T
   <2>2. <<>> \in Seq(T) /\ <<s[i]>> \in Seq(T) BY <2>1, EmptySeq
   <2> QED BY <2>2
<1> HIDE DEF T
<1>2. f \in [DOMAIN s -> Seq(T)] BY <1>1
<1>3. FlattenSeq(f) \in Seq(T) BY <1>2, FlatIn
<1> QED BY <1>3 DEF T

LEMMA LinesSeen ==
    ASSUME NEW out, NEW L, NEW I, IsPrinted(out, L, I)
    PROVE  parseLines(out) \in Seq(L)
<1> DEFINE f == [i \in DOMAIN out.lines |->
                   IF out.lines[i].starts \notin {"", "#"} THEN <<out.lines[i]>> ELSE <<>>]
           T == {out.lines[i] : i \in DOMAIN out.lines}
<1>1. parseLines(out) = FlattenSeq(f) BY DEF parseLines, Sifted
<1>2. out.lines \in Seq(L) BY DEF IsPrinted
<1>3. f = [i \in DOMAIN out.lines |-> f[i]] /\ \A i \in DOMAIN out.lines : f[i] = <<>> \/ f[i] = <<out.lines[i]>>
   OBVIOUS
<1> HIDE DEF f
<1>4. FlattenSeq(f) \in Seq(T) BY <1>2, <1>3, SiftedIs
<1>5. T \subseteq L BY <1>2, LenProperties
<1> HIDE DEF T
<1> QED BY <1>1, <1>4, <1>5, SeqMonotonic

\* And the entries of its document are found, if it is taken for one.
LEMMA EntriesSeen ==
    ASSUME NEW out, NEW L, NEW I, IsPrinted(out, L, I), NEW form
    PROVE  EntriesOf(out, form) \in Seq(I) /\ AllFound(EntriesOf(out, form))
<1>1. <<>> \in Seq(I) /\ AllFound(<<>>) BY EmptySeq DEF AllFound
<1>2. EntriesOf(out, form) = <<>> \/ EntriesOf(out, form) = out.doc.entries
   BY DEF EntriesOf, extractJSON
<1> QED BY <1>1, <1>2 DEF IsPrinted

-----------------------------------------------------------------------------
\* The lines a wrapper keeps, rated as told or as a tool is believed.
MayKeep(t, l, p, s) ==
    /\ s \in Levels /\ (s \in Alarms => Tells(l) \/ t \in Credulous)
    /\ p = [k \in DOMAIN l.items |-> Result(l.items[k], s)]
LEMMA KeptLines ==
    ASSUME NEW t, NEW out, NEW L, NEW I, IsPrinted(out, L, I),
           NEW P \in Seq(L), NEW f,
           f = [i \in DOMAIN P |-> f[i]],
           \A i \in DOMAIN P : f[i] = <<>> \/ \E s : MayKeep(t, P[i], f[i], s)
    PROVE  FlattenSeq(f) \in Seq(Fine(t, I))
<1>1. P \in Seq(L) OBVIOUS
<1>2. \A l \in L : l.items \in Seq(I) /\ (Tells(l) => AllFound(l.items)) BY DEF IsPrinted
<1>3. ASSUME NEW i \in DOMAIN P, NEW s, MayKeep(t, P[i], f[i], s)
      PROVE  MayRate(t, P[i].items, s)
             /\ f[i] = [k \in DOMAIN P[i].items |-> Result(P[i].items[k], s)]
   <2>1. P[i] \in L BY <1>1, LenProperties
   <2> QED BY <1>2, <1>3, <2>1 DEF MayKeep, MayRate
<1>4. \A l \in L : l.items \in Seq(I) BY <1>2
<1>5. \A i \in DOMAIN P :
         \/ f[i] = <<>>
         \/ \E r : MayRate(t, P[i].items, r)
                   /\ f[i] = [k \in DOMAIN P[i].items |-> Result(P[i].items[k], r)]
   BY <1>3
<1> QED BY <1>1, <1>4, <1>5, FineLines

LEMMA JSONFine ==
    ASSUME NEW t, NEW out, NEW L, NEW I, IsPrinted(out, L, I)
    PROVE  JSONLines(out) \in Seq(Fine(t, I))
<1> DEFINE P == parseLines(out)
           f == [i \in DOMAIN P |-> IF P[i].json THEN AsSaid(P[i].items) ELSE <<>>]
<1>1. JSONLines(out) = FlattenSeq(f) BY DEF JSONLines
<1>2. P \in Seq(L) BY LinesSeen
<1> HIDE DEF P
<1>3. ASSUME NEW i \in DOMAIN P PROVE f[i] \in Seq(Fine(t, I))
   <2>1. P[i] \in L BY <1>2, LenProperties
   <2>2. CASE P[i].json
      <3>1. P[i].items \in Seq(I) /\ AllFound(P[i].items) BY <2>1, <2>2 DEF IsPrinted, Tells
      <3> QED BY <2>2, <3>1, FineSaid
   <2>3. CASE ~P[i].json BY <2>3, EmptySeq
   <2> QED BY <2>2, <2>3
<1>4. f \in [DOMAIN P -> Seq(Fine(t, I))] BY <1>3
<1> QED BY <1>1, <1>2, <1>4, FlatIn

\* The wrappers, category by category.
LEMMA SubdomainFine ==
    ASSUME NEW out, NEW L, NEW I, IsPrinted(out, L, I), NEW t \in Members("subdomain") \cup Extra
    PROVE  SubdomainReport(t, out) \in Seq(Fine(t, I))
<1> DEFINE P == parseLines(out)
<1>1. CASE t # "theHarvester"
   <2> DEFINE keep(i) == CASE t = "subfinder" -> (P[i].json /\ "host" \in P[i].words) \/ P[i].starts # "{"
                           [] t = "amass" -> \/ P[i].json /\ "name" \in P[i].words
                                             \/ P[i].starts # "{" /\ "dot" \in P[i].words
                           [] t \in {"assetfinder", "findomain"} -> TRUE
                           [] t \in {"sublist3r", "SubDomainizer"} -> "dot" \in P[i].words /\ ~Bracketed(P[i])
                           [] t = "subbrute" -> "dot" \in P[i].words
              s(i) == ""
              p(i) == [k \in DOMAIN P[i].items |-> Result(P[i].items[k], s(i))]
              f == [i \in DOMAIN P |-> IF keep(i) THEN p(i) ELSE <<>>]
   <2>1. SubdomainReport(t, out) = FlattenSeq(f) BY <1>1 DEF SubdomainReport, Lines, Rated
   <2>2. ASSUME NEW i \in DOMAIN P, keep(i) PROVE MayKeep(t, P[i], p(i), s(i))
      BY <1>1, <2>2 DEF MayKeep, Levels, Alarms
   <2>3. P \in Seq(L) BY LinesSeen
   <2> HIDE DEF keep, s, p, P
   <2>4. \A i \in DOMAIN P : f[i] = <<>> \/ (keep(i) /\ f[i] = p(i)) OBVIOUS
   <2>5. f = [i \in DOMAIN P |-> f[i]] OBVIOUS
   <2> HIDE DEF f
   <2>6. \A i \in DOMAIN P : f[i] = <<>> \/ \E r : MayKeep(t, P[i], f[i], r) BY <2>2, <2>4
   <2>7. FlattenSeq(f) \in Seq(Fine(t, I)) BY <2>3, <2>5, <2>6, KeptLines
   <2> QED BY <2>1, <2>7
<1>2. CASE t = "theHarvester"
   <2> DEFINE keep(i) == InHostSection(P, i) /\ "target" \in P[i].words
              s(i) == ""
              p(i) == [k \in DOMAIN P[i].items |-> Result(P[i].items[k], s(i))]
              f == [i \in DOMAIN P |-> IF keep(i) THEN p(i) ELSE <<>>]
   <2>1. SubdomainReport(t, out) = FlattenSeq(f) BY <1>2 DEF SubdomainReport, Lines, Rated, Plain
   <2>2. ASSUME NEW i \in DOMAIN P, keep(i) PROVE MayKeep(t, P[i], p(i), s(i))
      BY <1>2, <2>2 DEF MayKeep, Levels, Alarms
   <2>3. P \in Seq(L) BY LinesSeen
   <2> HIDE DEF keep, s, p, P
   <2>4. \A i \in DOMAIN P : f[i] = <<>> \/ (keep(i) /\ f[i] = p(i)) OBVIOUS
   <2>5. f = [i \in DOMAIN P |-> f[i]] OBVIOUS
   <2> HIDE DEF f
   <2>6. \A i \in DOMAIN P : f[i] = <<>> \/ \E r : MayKeep(t, P[i], f[i], r) BY <2>2, <2>4
   <2>7. FlattenSeq(f) \in Seq(Fine(t, I)) BY <2>3, <2>5, <2>6, KeptLines
   <2> QED BY <2>1, <2>7
<1> QED BY <1>1, <1>2

LEMMA DNSFine ==
    ASSUME NEW out, NEW L, NEW I, IsPrinted(out, L, I), NEW t \in Members("dns")
    PROVE  DNSReport(t, out) \in Seq(Fine(t, I))
<1> DEFINE P == parseLines(out)
<1>1. CASE t = "dnsx"
   <2>1. DNSReport(t, out) = JSONLines(out) BY <1>1 DEF DNSReport
   <2> QED BY <2>1, JSONFine
<1>2. CASE t \in {"dnsrecon", "dnstwist"}
   <2>1. DNSReport(t, out) = Plain(EntriesOf(out, "array")) BY <1>2 DEF DNSReport
   <2> QED BY <2>1, EntriesSeen, FinePlain
<1>3. CASE t = "dnsenum"
   <2> DEFINE keep(i) == "IN" \in P[i].words
              s(i) == ""
              p(i) == [k \in DOMAIN P[i].items |-> Result(P[i].items[k], s(i))]
              f == [i \in DOMAIN P |-> IF keep(i) THEN p(i) ELSE <<>>]
   <2>1. DNSReport(t, out) = FlattenSeq(f) BY <1>3 DEF DNSReport, Lines, Rated
   <2>2. ASSUME NEW i \in DOMAIN P, keep(i) PROVE MayKeep(t, P[i], p(i), s(i))
      BY <1>3, <2>2 DEF MayKeep, Levels, Alarms
   <2>3. P \in Seq(L) BY LinesSeen
   <2> HIDE DEF keep, s, p, P
   <2>4. \A i \in DOMAIN P : f[i] = <<>> \/ (keep(i) /\ f[i] = p(i)) OBVIOUS
   <2>5. f = [i \in DOMAIN P |-> f[i]] OBVIOUS
   <2> HIDE DEF f
   <2>6. \A i \in DOMAIN P : f[i] = <<>> \/ \E r : MayKeep(t, P[i], f[i], r) BY <2>2, <2>4
   <2>7. FlattenSeq(f) \in Seq(Fine(t, I)) BY <2>3, <2>5, <2>6, KeptLines
   <2> QED BY <2>1, <2>7
<1> QED BY <1>1, <1>2, <1>3, MembersAre

LEMMA NetworkFine ==
    ASSUME NEW out, NEW L, NEW I, IsPrinted(out, L, I), NEW t \in Members("network")
    PROVE  NetworkReport(t, out) \in Seq(Fine(t, I))
<1> DEFINE P == parseLines(out)
<1>1. CASE t = "rustscan"
   <2> DEFINE keep(i) == P[i].starts = "Open " /\ "port" \in P[i].words
              s(i) == ""
              p(i) == [k \in DOMAIN P[i].items |-> Result(P[i].items[k], s(i))]
              f == [i \in DOMAIN P |-> IF keep(i) THEN p(i) ELSE <<>>]
   <2>1. NetworkReport(t, out) = FlattenSeq(f) BY <1>1 DEF NetworkReport, Lines, Rated
   <2>2. ASSUME NEW i \in DOMAIN P, keep(i) PROVE MayKeep(t, P[i], p(i), s(i))
      BY <1>1, <2>2 DEF MayKeep, Levels, Alarms
   <2>3. P \in Seq(L) BY LinesSeen
   <2> HIDE DEF keep, s, p, P
   <2>4. \A i \in DOMAIN P : f[i] = <<>> \/ (keep(i) /\ f[i] = p(i)) OBVIOUS
   <2>5. f = [i \in DOMAIN P |-> f[i]] OBVIOUS
   <2> HIDE DEF f
   <2>6. \A i \in DOMAIN P : f[i] = <<>> \/ \E r : MayKeep(t, P[i], f[i], r) BY <2>2, <2>4
   <2>7. FlattenSeq(f) \in Seq(Fine(t, I)) BY <2>3, <2>5, <2>6, KeptLines
   <2> QED BY <2>1, <2>7
<1>2. CASE t = "masscan"
   <2>1. NetworkReport(t, out) = Plain(EntriesOf(out, "array")) BY <1>2 DEF NetworkReport
   <2> QED BY <2>1, EntriesSeen, FinePlain
<1>3. CASE t = "naabu"
   <2>1. NetworkReport(t, out) = JSONLines(out) BY <1>3 DEF NetworkReport
   <2> QED BY <2>1, JSONFine
<1>4. CASE t = "nmap"
   <2> DEFINE es == out.doc.entries
              f == [i \in DOMAIN es |-> IF "open" \in es[i].more THEN <<es[i]>> ELSE <<>>]
              T == {es[i] : i \in DOMAIN es}
   <2>1. NetworkReport(t, out) = Plain(FlattenSeq(f)) \/ NetworkReport(t, out) = <<>>
      BY <1>4 DEF NetworkReport, Sifted
   <2>2. es \in Seq(I) BY DEF IsPrinted
   <2>3. f = [i \in DOMAIN es |-> f[i]] /\ \A i \in DOMAIN es : f[i] = <<>> \/ f[i] = <<es[i]>>
      OBVIOUS
   <2> HIDE DEF f, es
   <2>4. FlattenSeq(f) \in Seq(T) BY <2>2, <2>3, SiftedIs
   <2>5. T \subseteq I BY <2>2, LenProperties
   <2> HIDE DEF T
   <2>6. FlattenSeq(f) \in Seq(I) BY <2>4, <2>5, SeqMonotonic
   <2> QED BY <2>1, <2>6, FinePlain, EmptySeq
<1> QED BY <1>1, <1>2, <1>3, <1>4, MembersAre

LEMMA WebFine ==
    ASSUME NEW out, NEW L, NEW I, IsPrinted(out, L, I), NEW t \in Members("web")
    PROVE  WebReport(t, out) \in Seq(Fine(t, I))
<1> DEFINE P == parseLines(out)
<1>1. CASE t = "httpx"
   <2>1. WebReport(t, out) = JSONLines(out) BY <1>1 DEF WebReport
   <2> QED BY <2>1, JSONFine
<1>2. CASE t # "httpx"
   <2> DEFINE keep(i) == P[i].starts = "http"
              s(i) == ""
              p(i) == [k \in DOMAIN P[i].items |-> Result(P[i].items[k], s(i))]
              f == [i \in DOMAIN P |-> IF keep(i) THEN p(i) ELSE <<>>]
   <2>1. WebReport(t, out) = FlattenSeq(f) BY <1>2 DEF WebReport, Lines, Rated
   <2>2. ASSUME NEW i \in DOMAIN P, keep(i) PROVE MayKeep(t, P[i], p(i), s(i))
      BY <1>2, <2>2 DEF MayKeep, Levels, Alarms
   <2>3. P \in Seq(L) BY LinesSeen
   <2> HIDE DEF keep, s, p, P
   <2>4. \A i \in DOMAIN P : f[i] = <<>> \/ (keep(i) /\ f[i] = p(i)) OBVIOUS
   <2>5. f = [i \in DOMAIN P |-> f[i]] OBVIOUS
   <2> HIDE DEF f
   <2>6. \A i \in DOMAIN P : f[i] = <<>> \/ \E r : MayKeep(t, P[i], f[i], r) BY <2>2, <2>4
   <2>7. FlattenSeq(f) \in Seq(Fine(t, I)) BY <2>3, <2>5, <2>6, KeptLines
   <2> QED BY <2>1, <2>7
<1> QED BY <1>1, <1>2

LEMMA ContentFine ==
    ASSUME NEW out, NEW L, NEW I, IsPrinted(out, L, I), NEW t \in Members("content")
    PROVE  ContentReport(t, out) \in Seq(Fine(t, I))
<1> DEFINE P == parseLines(out)
<1>1. CASE t \in {"ffuf", "dirsearch"}
   <2>1. ContentReport(t, out) = AsSaid(EntriesOf(out, "object")) BY <1>1 DEF ContentReport
   <2> QED BY <2>1, EntriesSeen, FineSaid
<1>2. CASE t = "feroxbuster"
   <2> DEFINE keep(i) == P[i].json /\ "response" \in P[i].words
              s(i) == ""
              p(i) == [k \in DOMAIN P[i].items |-> Result(P[i].items[k], s(i))]
              f == [i \in DOMAIN P |-> IF keep(i) THEN p(i) ELSE <<>>]
   <2>1. ContentReport(t, out) = FlattenSeq(f) BY <1>2 DEF ContentReport, Lines, Rated
   <2>2. ASSUME NEW i \in DOMAIN P, keep(i) PROVE MayKeep(t, P[i], p(i), s(i))
      BY <1>2, <2>2 DEF MayKeep, Levels, Alarms
   <2>3. P \in Seq(L) BY LinesSeen
   <2> HIDE DEF keep, s, p, P
   <2>4. \A i \in DOMAIN P : f[i] = <<>> \/ (keep(i) /\ f[i] = p(i)) OBVIOUS
   <2>5. f = [i \in DOMAIN P |-> f[i]] OBVIOUS
   <2> HIDE DEF f
   <2>6. \A i \in DOMAIN P : f[i] = <<>> \/ \E r : MayKeep(t, P[i], f[i], r) BY <2>2, <2>4
   <2>7. FlattenSeq(f) \in Seq(Fine(t, I)) BY <2>3, <2>5, <2>6, KeptLines
   <2> QED BY <2>1, <2>7
<1>3. CASE t = "gobuster"
   <2> DEFINE keep(i) == "(Status:" \in P[i].words /\ ~intParse("[Size:" \notin P[i].words).err
              s(i) == ""
              p(i) == [k \in DOMAIN P[i].items |-> Result(P[i].items[k], s(i))]
              f == [i \in DOMAIN P |-> IF keep(i) THEN p(i) ELSE <<>>]
   <2>1. ContentReport(t, out) = FlattenSeq(f) BY <1>3 DEF ContentReport, Lines, Rated
   <2>2. ASSUME NEW i \in DOMAIN P, keep(i) PROVE MayKeep(t, P[i], p(i), s(i))
      BY <1>3, <2>2 DEF MayKeep, Levels, Alarms
   <2>3. P \in Seq(L) BY LinesSeen
   <2> HIDE DEF keep, s, p, P
   <2>4. \A i \in DOMAIN P : f[i] = <<>> \/ (keep(i) /\ f[i] = p(i)) OBVIOUS
   <2>5. f = [i \in DOMAIN P |-> f[i]] OBVIOUS
   <2> HIDE DEF f
   <2>6. \A i \in DOMAIN P : f[i] = <<>> \/ \E r : MayKeep(t, P[i], f[i], r) BY <2>2, <2>4
   <2>7. FlattenSeq(f) \in Seq(Fine(t, I)) BY <2>3, <2>5, <2>6, KeptLines
   <2> QED BY <2>1, <2>7
<1> QED BY <1>1, <1>2, <1>3, MembersAre

-----------------------------------------------------------------------------
LEMMA VulnFine ==
    ASSUME NEW out, NEW L, NEW I, IsPrinted(out, L, I), NEW t \in {"nuclei", "nikto", "testssl.sh"}
    PROVE  VulnReport(t, out) \in Seq(Fine(t, I))
<1> DEFINE P == parseLines(out)
<1>1. CASE t = "nuclei"
   <2>1. VulnReport(t, out) = JSONLines(out) BY <1>1 DEF VulnReport
   <2> QED BY <2>1, JSONFine
<1>2. CASE t = "nikto"
   <2> DEFINE es == EntriesOf(out, "object")
              sev == [k \in DOMAIN es |-> "info"]
   <2>1. VulnReport(t, out) = [k \in DOMAIN es |-> Result(es[k], sev[k])] BY <1>2 DEF VulnReport, Rated
   <2>2. es \in Seq(I) /\ AllFound(es) BY EntriesSeen
   <2> HIDE DEF es
   <2>3. \A k \in DOMAIN es : sev[k] \in Sevs(I)
      <3>1. \A k \in DOMAIN es : es[k] \in I BY <2>2, LenProperties
      <3> QED BY <3>1 DEF Sevs, Levels
   <2> HIDE DEF sev
   <2> QED BY <2>1, <2>2, <2>3, FineFound
<1>3. CASE t = "testssl.sh"
   <2> DEFINE es == EntriesOf(out, "array")
              f == [i \in DOMAIN es |-> IF es[i].sev \notin {"ok", "info"} THEN <<es[i]>> ELSE <<>>]
              T == {es[i] : i \in DOMAIN es}
   <2>1. VulnReport(t, out) = AsSaid(FlattenSeq(f)) BY <1>3 DEF VulnReport, Sifted
   <2>2. es \in Seq(I) /\ AllFound(es) BY EntriesSeen
   <2>3. f = [i \in DOMAIN es |-> f[i]] /\ \A i \in DOMAIN es : f[i] = <<>> \/ f[i] = <<es[i]>>
      OBVIOUS
   <2> HIDE DEF f, es
   <2>4. FlattenSeq(f) \in Seq(T) BY <2>2, <2>3, SiftedIs
   <2>5. T \subseteq I /\ \A x \in T : x.says = "found" BY <2>2, LenProperties DEF AllFound
   <2> HIDE DEF T
   <2>6. FlattenSeq(f) \in Seq(I) BY <2>4, <2>5, SeqMonotonic
   <2>7. AllFound(FlattenSeq(f)) BY <2>4, <2>5, LenProperties DEF AllFound
   <2> QED BY <2>1, <2>6, <2>7, FineSaid
<1> QED BY <1>1, <1>2, <1>3

LEMMA WAFFine ==
    ASSUME NEW out, NEW L, NEW I, IsPrinted(out, L, I), NEW t
    PROVE  WAFReport(out) \in Seq(Fine(t, I))
<1> DEFINE P == parseLines(out)
<1>1. CASE extractJSON(out).form = "none" /\ \E i \in DOMAIN out.lines : "is behind" \in out.lines[i].words
   <2> DEFINE keep(i) == "is behind" \in P[i].words
              s(i) == "detected"
              p(i) == [k \in DOMAIN P[i].items |-> Result(P[i].items[k], s(i))]
              f == [i \in DOMAIN P |-> IF keep(i) THEN p(i) ELSE <<>>]
   <2>1. WAFReport(out) = FlattenSeq(f) BY <1>1 DEF WAFReport, Lines, Rated
   <2>2. ASSUME NEW i \in DOMAIN P, keep(i) PROVE MayKeep(t, P[i], p(i), s(i))
      BY <1>1, <2>2 DEF MayKeep, Levels, Alarms, Tells, Has, Telling
   <2>3. P \in Seq(L) BY LinesSeen
   <2> HIDE DEF keep, s, p, P
   <2>4. \A i \in DOMAIN P : f[i] = <<>> \/ (keep(i) /\ f[i] = p(i)) OBVIOUS
   <2>5. f = [i \in DOMAIN P |-> f[i]] OBVIOUS
   <2> HIDE DEF f
   <2>6. \A i \in DOMAIN P : f[i] = <<>> \/ \E r : MayKeep(t, P[i], f[i], r) BY <2>2, <2>4
   <2>7. FlattenSeq(f) \in Seq(Fine(t, I)) BY <2>3, <2>5, <2>6, KeptLines
   <2> QED BY <2>1, <2>7
<1>2. CASE extractJSON(out).form = "none" /\ ~\E i \in DOMAIN out.lines : "is behind" \in out.lines[i].words
   <2>1. WAFReport(out) = <<Denial>> BY <1>2 DEF WAFReport, Denial
   <2>2. Denial \in Fine(t, I) BY DEF Fine, Fair, Denial, Alarms
   <2> QED BY <2>1, <2>2
<1>3. CASE extractJSON(out).form # "none"
   <2> DEFINE es == EntriesOf(out, "array")
              sev == [k \in DOMAIN es |-> IF es[k].says = "found" THEN "detected" ELSE ""]
   <2>1. WAFReport(out) = [k \in DOMAIN es |-> Result(es[k], sev[k])] BY <1>3 DEF WAFReport, Rated
   <2>2. es \in Seq(I) /\ AllFound(es) BY EntriesSeen
   <2> HIDE DEF es
   <2>3. \A k \in DOMAIN es : sev[k] \in Sevs(I)
      <3>1. \A k \in DOMAIN es : es[k] \in I BY <2>2, LenProperties
      <3> QED BY <3>1 DEF Sevs, Levels
   <2> HIDE DEF sev
   <2> QED BY <2>1, <2>2, <2>3, FineFound
<1> QED BY <1>1, <1>2, <1>3

LEMMA SMBFine ==
    ASSUME NEW out, NEW L, NEW I, IsPrinted(out, L, I), NEW t \in Members("smb")
    PROVE  SMBReport(t, out) \in Seq(Fine(t, I))
<1> DEFINE P == parseLines(out)
<1>1. CASE t = "smbclient"
   <2> DEFINE keep(i) == P[i].starts \in {" ", "\t"}
              s(i) == ""
              p(i) == [k \in DOMAIN P[i].items |-> Result(P[i].items[k], s(i))]
              f == [i \in DOMAIN P |-> IF keep(i) THEN p(i) ELSE <<>>]
   <2>1. SMBReport(t, out) = FlattenSeq(f) BY <1>1 DEF SMBReport, Lines, Rated
   <2>2. ASSUME NEW i \in DOMAIN P, keep(i) PROVE MayKeep(t, P[i], p(i), s(i))
      BY <1>1, <2>2 DEF MayKeep, Levels, Alarms
   <2>3. P \in Seq(L) BY LinesSeen
   <2> HIDE DEF keep, s, p, P
   <2>4. \A i \in DOMAIN P : f[i] = <<>> \/ (keep(i) /\ f[i] = p(i)) OBVIOUS
   <2>5. f = [i \in DOMAIN P |-> f[i]] OBVIOUS
   <2> HIDE DEF f
   <2>6. \A i \in DOMAIN P : f[i] = <<>> \/ \E r : MayKeep(t, P[i], f[i], r) BY <2>2, <2>4
   <2>7. FlattenSeq(f) \in Seq(Fine(t, I)) BY <2>3, <2>5, <2>6, KeptLines
   <2> QED BY <2>1, <2>7
<1>2. CASE t = "enum4linux-ng"
   <2>1. SMBReport(t, out) = Plain(EntriesOf(out, "object")) BY <1>2 DEF SMBReport
   <2> QED BY <2>1, EntriesSeen, FinePlain
<1>3. CASE t = "crackmapexec"
   <2> DEFINE keep(i) == "SMB" \in P[i].words /\ Has(P[i], {"READ", "WRITE", "NO"})
              s(i) == ""
              p(i) == [k \in DOMAIN P[i].items |-> Result(P[i].items[k], s(i))]
              f == [i \in DOMAIN P |-> IF keep(i) THEN p(i) ELSE <<>>]
   <2>1. SMBReport(t, out) = FlattenSeq(f) BY <1>3 DEF SMBReport, Lines, Rated
   <2>2. ASSUME NEW i \in DOMAIN P, keep(i) PROVE MayKeep(t, P[i], p(i), s(i))
      BY <1>3, <2>2 DEF MayKeep, Levels, Alarms
   <2>3. P \in Seq(L) BY LinesSeen
   <2> HIDE DEF keep, s, p, P
   <2>4. \A i \in DOMAIN P : f[i] = <<>> \/ (keep(i) /\ f[i] = p(i)) OBVIOUS
   <2>5. f = [i \in DOMAIN P |-> f[i]] OBVIOUS
   <2> HIDE DEF f
   <2>6. \A i \in DOMAIN P : f[i] = <<>> \/ \E r : MayKeep(t, P[i], f[i], r) BY <2>2, <2>4
   <2>7. FlattenSeq(f) \in Seq(Fine(t, I)) BY <2>3, <2>5, <2>6, KeptLines
   <2> QED BY <2>1, <2>7
<1> QED BY <1>1, <1>2, <1>3, MembersAre

LEMMA OriginFine ==
    ASSUME NEW out, NEW L, NEW I, IsPrinted(out, L, I), NEW t \in Members("origin_ip")
    PROVE  OriginReport(t, out) \in Seq(Fine(t, I))
<1> DEFINE P == parseLines(out)
<1>1. CASE t \in Members("origin_ip")
   <2> DEFINE keep(i) == /\ CASE t = "cloudflair" -> Has(P[i], {"Found origin", "origin IP"})
                              [] t = "hakoriginfinder" -> TRUE
                              [] t = "cloakquest3r" -> Has(P[i], {"Origin", "IP:"})
                         /\ "address" \in P[i].words
              s(i) == ""
              p(i) == [k \in DOMAIN P[i].items |-> Result(P[i].items[k], s(i))]
              f == [i \in DOMAIN P |-> IF keep(i) THEN p(i) ELSE <<>>]
   <2>1. OriginReport(t, out) = FlattenSeq(f) BY <1>1 DEF OriginReport, Lines, Rated
   <2>2. ASSUME NEW i \in DOMAIN P, keep(i) PROVE MayKeep(t, P[i], p(i), s(i))
      BY <1>1, <2>2 DEF MayKeep, Levels, Alarms
   <2>3. P \in Seq(L) BY LinesSeen
   <2> HIDE DEF keep, s, p, P
   <2>4. \A i \in DOMAIN P : f[i] = <<>> \/ (keep(i) /\ f[i] = p(i)) OBVIOUS
   <2>5. f = [i \in DOMAIN P |-> f[i]] OBVIOUS
   <2> HIDE DEF f
   <2>6. \A i \in DOMAIN P : f[i] = <<>> \/ \E r : MayKeep(t, P[i], f[i], r) BY <2>2, <2>4
   <2>7. FlattenSeq(f) \in Seq(Fine(t, I)) BY <2>3, <2>5, <2>6, KeptLines
   <2> QED BY <2>1, <2>7
<1> QED BY <1>1

\* A line of JSON is of something found.
FoundOnes(I) == {r \in Results(I) : \E x \in I : x.says = "found" /\ \E s : r = Result(x, s)}
LEMMA JSONFound ==
    ASSUME NEW out, NEW L, NEW I, IsPrinted(out, L, I)
    PROVE  JSONLines(out) \in Seq(FoundOnes(I))
<1> DEFINE P == parseLines(out)
           f == [i \in DOMAIN P |-> IF P[i].json THEN AsSaid(P[i].items) ELSE <<>>]
<1>1. JSONLines(out) = FlattenSeq(f) BY DEF JSONLines
<1>2. P \in Seq(L) BY LinesSeen
<1> HIDE DEF P
<1>3. ASSUME NEW i \in DOMAIN P PROVE f[i] \in Seq(FoundOnes(I))
   <2>1. P[i] \in L BY <1>2, LenProperties
   <2>2. CASE P[i].json
      <3>1. PICK items : items = P[i].items OBVIOUS
      <3>2. items \in Seq(I) /\ AllFound(items) BY <2>1, <2>2, <3>1 DEF IsPrinted, Tells
      <3>3. \A k \in DOMAIN items : items[k] \in I BY <3>2, LenProperties
      <3>4. ASSUME NEW k \in DOMAIN items PROVE Result(items[k], items[k].sev) \in FoundOnes(I)
         <4>1. items[k] \in I /\ items[k].says = "found" BY <3>2, <3>3 DEF AllFound
         <4>2. Result(items[k], items[k].sev) \in Results(I) BY <4>1 DEF Results, Sevs
         <4> QED BY <4>1, <4>2 DEF FoundOnes
      <3>5. [k \in DOMAIN items |-> Result(items[k], items[k].sev)] \in [DOMAIN items -> FoundOnes(I)]
         BY <3>4
      <3>6. [k \in DOMAIN items |-> Result(items[k], items[k].sev)] \in Seq(FoundOnes(I))
         BY <3>2, <3>5, SameLength
      <3>7. f[i] = [k \in DOMAIN items |-> Result(items[k], items[k].sev)]
         BY <2>2, <3>1 DEF AsSaid, Rated
      <3> QED BY <3>6, <3>7
   <2>3. CASE ~P[i].json BY <2>3, EmptySeq
   <2> QED BY <2>2, <2>3
<1>4. f \in [DOMAIN P -> Seq(FoundOnes(I))] BY <1>3
<1> QED BY <1>1, <1>2, <1>4, FlatIn

LEMMA InjectionFine ==
    ASSUME NEW out, NEW L, NEW I, IsPrinted(out, L, I), NEW t \in {"sqlmap", "dalfox"}
    PROVE  InjectionReport(t, out) \in Seq(Fine(t, I))
<1> DEFINE P == parseLines(out)
<1>1. CASE t = "sqlmap"
   <2> DEFINE js == JSONLines(out)
              parsed == [i \in DOMAIN js |-> [js[i] EXCEPT !.sev = "critical"]]
              keep(i) == Has(P[i], {"is vulnerable", "sqlmap identified"})
              s(i) == "critical"
              p(i) == [k \in DOMAIN P[i].items |-> Result(P[i].items[k], s(i))]
              f == [i \in DOMAIN P |-> IF keep(i) THEN p(i) ELSE <<>>]
   <2>1. InjectionReport(t, out) = parsed \/ InjectionReport(t, out) = FlattenSeq(f)
      BY <1>1 DEF InjectionReport, Lines, Rated
   <2>2. ASSUME NEW i \in DOMAIN P, keep(i) PROVE MayKeep(t, P[i], p(i), s(i))
      BY <1>1, <2>2 DEF MayKeep, Levels, Alarms, Tells, Has, Telling
   <2>3. P \in Seq(L) BY LinesSeen
   <2> HIDE DEF keep, s, p, P, js
   <2>4. \A i \in DOMAIN P : f[i] = <<>> \/ (keep(i) /\ f[i] = p(i)) OBVIOUS
   <2>5. f = [i \in DOMAIN P |-> f[i]] OBVIOUS
   <2> HIDE DEF f
   <2>6. \A i \in DOMAIN P : f[i] = <<>> \/ \E r : MayKeep(t, P[i], f[i], r) BY <2>2, <2>4
   <2>7. FlattenSeq(f) \in Seq(Fine(t, I)) BY <2>3, <2>5, <2>6, KeptLines
   <2>8. parsed \in Seq(Fine(t, I))
      <3>1. js \in Seq(FoundOnes(I)) BY JSONFound DEF js
      <3>2. \A i \in DOMAIN js : js[i] \in FoundOnes(I) BY <3>1, LenProperties
      <3>3. ASSUME NEW i \in DOMAIN js PROVE [js[i] EXCEPT !.sev = "critical"] \in Fine(t, I)
         <4>1. PICK x \in I : x.says = "found" /\ \E r : js[i] = Result(x, r)
            BY <3>2 DEF FoundOnes
         <4>2. [js[i] EXCEPT !.sev = "critical"] = Result(x, "critical") BY <4>1 DEF Result
         <4>3. "critical" \in Sevs(I) BY DEF Sevs, Levels
         <4> QED BY <4>1, <4>2, <4>3, FineResult
      <3>4. parsed \in [DOMAIN js -> Fine(t, I)] BY <3>3
      <3> HIDE DEF parsed
      <3> QED BY <3>1, <3>4, SameLength
   <2> QED BY <2>1, <2>7, <2>8
<1>2. CASE t = "dalfox"
   <2> DEFINE keep(i) == P[i].json
              s(i) == IF "reflected" \in P[i].words THEN "medium" ELSE "high"
              p(i) == [k \in DOMAIN P[i].items |-> Result(P[i].items[k], s(i))]
              f == [i \in DOMAIN P |-> IF keep(i) THEN p(i) ELSE <<>>]
   <2>1. InjectionReport(t, out) = FlattenSeq(f) BY <1>2 DEF InjectionReport, Lines, Rated
   <2>2. ASSUME NEW i \in DOMAIN P, keep(i) PROVE MayKeep(t, P[i], p(i), s(i))
      BY <1>2, <2>2 DEF MayKeep, Levels, Alarms, Tells, Has, Telling
   <2>3. P \in Seq(L) BY LinesSeen
   <2> HIDE DEF keep, s, p, P
   <2>4. \A i \in DOMAIN P : f[i] = <<>> \/ (keep(i) /\ f[i] = p(i)) OBVIOUS
   <2>5. f = [i \in DOMAIN P |-> f[i]] OBVIOUS
   <2> HIDE DEF f
   <2>6. \A i \in DOMAIN P : f[i] = <<>> \/ \E r : MayKeep(t, P[i], f[i], r) BY <2>2, <2>4
   <2>7. FlattenSeq(f) \in Seq(Fine(t, I)) BY <2>3, <2>5, <2>6, KeptLines
   <2> QED BY <2>1, <2>7
<1> QED BY <1>1, <1>2

LEMMA InjectionTextFine ==
    ASSUME NEW out, NEW L, NEW I, IsPrinted(out, L, I), NEW t \in {"xsstrike", "commix", "tplmap", "crlfuzz"}
    PROVE  InjectionTextReport(t, out) \in Seq(Fine(t, I))
<1> DEFINE P == parseLines(out)
<1>1. CASE t = "xsstrike"
   <2> DEFINE keep(i) == "xss" \in P[i].words /\ Has(P[i], {"payload", "vulnerable"})
              s(i) == "high"
              p(i) == [k \in DOMAIN P[i].items |-> Result(P[i].items[k], s(i))]
              f == [i \in DOMAIN P |-> IF keep(i) THEN p(i) ELSE <<>>]
   <2>1. InjectionTextReport(t, out) = FlattenSeq(f) BY <1>1 DEF InjectionTextReport, Lines, Rated
   <2>2. ASSUME NEW i \in DOMAIN P, keep(i) PROVE MayKeep(t, P[i], p(i), s(i))
      BY <1>1, <2>2 DEF MayKeep, Levels, Alarms, Credulous
   <2>3. P \in Seq(L) BY LinesSeen
   <2> HIDE DEF keep, s, p, P
   <2>4. \A i \in DOMAIN P : f[i] = <<>> \/ (keep(i) /\ f[i] = p(i)) OBVIOUS
   <2>5. f = [i \in DOMAIN P |-> f[i]] OBVIOUS
   <2> HIDE DEF f
   <2>6. \A i \in DOMAIN P : f[i] = <<>> \/ \E r : MayKeep(t, P[i], f[i], r) BY <2>2, <2>4
   <2>7. FlattenSeq(f) \in Seq(Fine(t, I)) BY <2>3, <2>5, <2>6, KeptLines
   <2> QED BY <2>1, <2>7
<1>2. CASE t = "commix"
   <2> DEFINE keep(i) == Has(P[i], {"vulnerable", "command injection"})
              s(i) == "critical"
              p(i) == [k \in DOMAIN P[i].items |-> Result(P[i].items[k], s(i))]
              f == [i \in DOMAIN P |-> IF keep(i) THEN p(i) ELSE <<>>]
   <2>1. InjectionTextReport(t, out) = FlattenSeq(f) BY <1>2 DEF InjectionTextReport, Lines, Rated
   <2>2. ASSUME NEW i \in DOMAIN P, keep(i) PROVE MayKeep(t, P[i], p(i), s(i))
      BY <1>2, <2>2 DEF MayKeep, Levels, Alarms, Credulous
   <2>3. P \in Seq(L) BY LinesSeen
   <2> HIDE DEF keep, s, p, P
   <2>4. \A i \in DOMAIN P : f[i] = <<>> \/ (keep(i) /\ f[i] = p(i)) OBVIOUS
   <2>5. f = [i \in DOMAIN P |-> f[i]] OBVIOUS
   <2> HIDE DEF f
   <2>6. \A i \in DOMAIN P : f[i] = <<>> \/ \E r : MayKeep(t, P[i], f[i], r) BY <2>2, <2>4
   <2>7. FlattenSeq(f) \in Seq(Fine(t, I)) BY <2>3, <2>5, <2>6, KeptLines
   <2> QED BY <2>1, <2>7
<1>3. CASE t = "tplmap"
   <2> DEFINE keep(i) == Has(P[i], {"vulnerable", "template injection"})
              s(i) == "critical"
              p(i) == [k \in DOMAIN P[i].items |-> Result(P[i].items[k], s(i))]
              f == [i \in DOMAIN P |-> IF keep(i) THEN p(i) ELSE <<>>]
   <2>1. InjectionTextReport(t, out) = FlattenSeq(f) BY <1>3 DEF InjectionTextReport, Lines, Rated
   <2>2. ASSUME NEW i \in DOMAIN P, keep(i) PROVE MayKeep(t, P[i], p(i), s(i))
      BY <1>3, <2>2 DEF MayKeep, Levels, Alarms, Credulous
   <2>3. P \in Seq(L) BY LinesSeen
   <2> HIDE DEF keep, s, p, P
   <2>4. \A i \in DOMAIN P : f[i] = <<>> \/ (keep(i) /\ f[i] = p(i)) OBVIOUS
   <2>5. f = [i \in DOMAIN P |-> f[i]] OBVIOUS
   <2> HIDE DEF f
   <2>6. \A i \in DOMAIN P : f[i] = <<>> \/ \E r : MayKeep(t, P[i], f[i], r) BY <2>2, <2>4
   <2>7. FlattenSeq(f) \in Seq(Fine(t, I)) BY <2>3, <2>5, <2>6, KeptLines
   <2> QED BY <2>1, <2>7
<1>4. CASE t = "crlfuzz"
   <2> DEFINE keep(i) == Has(P[i], {"vulnerable", "[V]"})
              s(i) == "medium"
              p(i) == [k \in DOMAIN P[i].items |-> Result(P[i].items[k], s(i))]
              f == [i \in DOMAIN P |-> IF keep(i) THEN p(i) ELSE <<>>]
   <2>1. InjectionTextReport(t, out) = FlattenSeq(f) BY <1>4 DEF InjectionTextReport, Lines, Rated
   <2>2. ASSUME NEW i \in DOMAIN P, keep(i) PROVE MayKeep(t, P[i], p(i), s(i))
      BY <1>4, <2>2 DEF MayKeep, Levels, Alarms, Credulous
   <2>3. P \in Seq(L) BY LinesSeen
   <2> HIDE DEF keep, s, p, P
   <2>4. \A i \in DOMAIN P : f[i] = <<>> \/ (keep(i) /\ f[i] = p(i)) OBVIOUS
   <2>5. f = [i \in DOMAIN P |-> f[i]] OBVIOUS
   <2> HIDE DEF f
   <2>6. \A i \in DOMAIN P : f[i] = <<>> \/ \E r : MayKeep(t, P[i], f[i], r) BY <2>2, <2>4
   <2>7. FlattenSeq(f) \in Seq(Fine(t, I)) BY <2>3, <2>5, <2>6, KeptLines
   <2> QED BY <2>1, <2>7
<1> QED BY <1>1, <1>2, <1>3, <1>4

LEMMA SmugglingFine ==
    ASSUME NEW out, NEW L, NEW I, IsPrinted(out, L, I), NEW t \in {"smuggler", "h2csmuggler", "ssrfmap", "gopherus"}
    PROVE  SmugglingReport(t, out) \in Seq(Fine(t, I))
<1> DEFINE P == parseLines(out)
<1>1. CASE t = "smuggler"
   <2> DEFINE keep(i) == Has(P[i], {"vulnerable", "issue found"})
              s(i) == "high"
              p(i) == [k \in DOMAIN P[i].items |-> Result(P[i].items[k], s(i))]
              f == [i \in DOMAIN P |-> IF keep(i) THEN p(i) ELSE <<>>]
   <2>1. SmugglingReport(t, out) = FlattenSeq(f) BY <1>1 DEF SmugglingReport, Lines, Rated
   <2>2. ASSUME NEW i \in DOMAIN P, keep(i) PROVE MayKeep(t, P[i], p(i), s(i))
      BY <1>1, <2>2 DEF MayKeep, Levels, Alarms, Credulous
   <2>3. P \in Seq(L) BY LinesSeen
   <2> HIDE DEF keep, s, p, P
   <2>4. \A i \in DOMAIN P : f[i] = <<>> \/ (keep(i) /\ f[i] = p(i)) OBVIOUS
   <2>5. f = [i \in DOMAIN P |-> f[i]] OBVIOUS
   <2> HIDE DEF f
   <2>6. \A i \in DOMAIN P : f[i] = <<>> \/ \E r : MayKeep(t, P[i], f[i], r) BY <2>2, <2>4
   <2>7. FlattenSeq(f) \in Seq(Fine(t, I)) BY <2>3, <2>5, <2>6, KeptLines
   <2> QED BY <2>1, <2>7
<1>2. CASE t = "h2csmuggler"
   <2> DEFINE keep(i) == Has(P[i], {"vulnerable", "h2c success"})
              s(i) == "high"
              p(i) == [k \in DOMAIN P[i].items |-> Result(P[i].items[k], s(i))]
              f == [i \in DOMAIN P |-> IF keep(i) THEN p(i) ELSE <<>>]
   <2>1. SmugglingReport(t, out) = FlattenSeq(f) BY <1>2 DEF SmugglingReport, Lines, Rated
   <2>2. ASSUME NEW i \in DOMAIN P, keep(i) PROVE MayKeep(t, P[i], p(i), s(i))
      BY <1>2, <2>2 DEF MayKeep, Levels, Alarms, Credulous
   <2>3. P \in Seq(L) BY LinesSeen
   <2> HIDE DEF keep, s, p, P
   <2>4. \A i \in DOMAIN P : f[i] = <<>> \/ (keep(i) /\ f[i] = p(i)) OBVIOUS
   <2>5. f = [i \in DOMAIN P |-> f[i]] OBVIOUS
   <2> HIDE DEF f
   <2>6. \A i \in DOMAIN P : f[i] = <<>> \/ \E r : MayKeep(t, P[i], f[i], r) BY <2>2, <2>4
   <2>7. FlattenSeq(f) \in Seq(Fine(t, I)) BY <2>3, <2>5, <2>6, KeptLines
   <2> QED BY <2>1, <2>7
<1>3. CASE t = "ssrfmap"
   <2> DEFINE keep(i) == Has(P[i], {"vulnerable", "[+] ssrf"})
              s(i) == "critical"
              p(i) == [k \in DOMAIN P[i].items |-> Result(P[i].items[k], s(i))]
              f == [i \in DOMAIN P |-> IF keep(i) THEN p(i) ELSE <<>>]
   <2>1. SmugglingReport(t, out) = FlattenSeq(f) BY <1>3 DEF SmugglingReport, Lines, Rated
   <2>2. ASSUME NEW i \in DOMAIN P, keep(i) PROVE MayKeep(t, P[i], p(i), s(i))
      BY <1>3, <2>2 DEF MayKeep, Levels, Alarms, Credulous
   <2>3. P \in Seq(L) BY LinesSeen
   <2> HIDE DEF keep, s, p, P
   <2>4. \A i \in DOMAIN P : f[i] = <<>> \/ (keep(i) /\ f[i] = p(i)) OBVIOUS
   <2>5. f = [i \in DOMAIN P |-> f[i]] OBVIOUS
   <2> HIDE DEF f
   <2>6. \A i \in DOMAIN P : f[i] = <<>> \/ \E r : MayKeep(t, P[i], f[i], r) BY <2>2, <2>4
   <2>7. FlattenSeq(f) \in Seq(Fine(t, I)) BY <2>3, <2>5, <2>6, KeptLines
   <2> QED BY <2>1, <2>7
<1>4. CASE t = "gopherus"
   <2> DEFINE keep(i) == P[i].starts = "gopher://" \/ "Payload" \in P[i].words
              s(i) == "high"
              p(i) == [k \in DOMAIN P[i].items |-> Result(P[i].items[k], s(i))]
              f == [i \in DOMAIN P |-> IF keep(i) THEN p(i) ELSE <<>>]
   <2>1. SmugglingReport(t, out) = FlattenSeq(f) BY <1>4 DEF SmugglingReport, Lines, Rated
   <2>2. ASSUME NEW i \in DOMAIN P, keep(i) PROVE MayKeep(t, P[i], p(i), s(i))
      BY <1>4, <2>2 DEF MayKeep, Levels, Alarms, Credulous
   <2>3. P \in Seq(L) BY LinesSeen
   <2> HIDE DEF keep, s, p, P
   <2>4. \A i \in DOMAIN P : f[i] = <<>> \/ (keep(i) /\ f[i] = p(i)) OBVIOUS
   <2>5. f = [i \in DOMAIN P |-> f[i]] OBVIOUS
   <2> HIDE DEF f
   <2>6. \A i \in DOMAIN P : f[i] = <<>> \/ \E r : MayKeep(t, P[i], f[i], r) BY <2>2, <2>4
   <2>7. FlattenSeq(f) \in Seq(Fine(t, I)) BY <2>3, <2>5, <2>6, KeptLines
   <2> QED BY <2>1, <2>7
<1> QED BY <1>1, <1>2, <1>3, <1>4

-----------------------------------------------------------------------------
LEMMA FingerprintFine ==
    ASSUME NEW out, NEW L, NEW I, IsPrinted(out, L, I), NEW t \in Members("fingerprint")
    PROVE  FingerprintReport(t, out) \in Seq(Fine(t, I))
<1> DEFINE P == parseLines(out)
<1>1. CASE t = "whatweb"
   <2>1. FingerprintReport(t, out) = JSONLines(out) BY <1>1 DEF FingerprintReport
   <2> QED BY <2>1, JSONFine
<1>2. CASE t # "whatweb"
   <2>1. FingerprintReport(t, out) = Plain(EntriesOf(out, "object") \o EntriesOf(out, "array"))
      BY <1>2 DEF FingerprintReport
   <2>2. EntriesOf(out, "object") \in Seq(I) /\ EntriesOf(out, "array") \in Seq(I) BY EntriesSeen
   <2>3. EntriesOf(out, "object") \o EntriesOf(out, "array") \in Seq(I) BY <2>2, ConcatProperties
   <2> QED BY <2>1, <2>3, FinePlain
<1> QED BY <1>1, <1>2

LEMMA AuthFine ==
    ASSUME NEW out, NEW L, NEW I, IsPrinted(out, L, I), NEW t \in Members("auth")
    PROVE  AuthReport(t, out) \in Seq(Fine(t, I))
<1> DEFINE P == parseLines(out)
<1>1. CASE t = "jwt_tool"
   <2> DEFINE keep(i) == Has(P[i], {"[+]", "vulnerability", "exploit"})
              s(i) == IF Has(P[i], {"none", "weak", "brute", "crack"}) THEN "critical" ELSE "high"
              p(i) == [k \in DOMAIN P[i].items |-> Result(P[i].items[k], s(i))]
              f == [i \in DOMAIN P |-> IF keep(i) THEN p(i) ELSE <<>>]
   <2>1. AuthReport(t, out) = FlattenSeq(f) BY <1>1 DEF AuthReport, Lines, Rated
   <2>2. ASSUME NEW i \in DOMAIN P, keep(i) PROVE MayKeep(t, P[i], p(i), s(i))
      BY <1>1, <2>2 DEF MayKeep, Levels, Alarms, Credulous
   <2>3. P \in Seq(L) BY LinesSeen
   <2> HIDE DEF keep, s, p, P
   <2>4. \A i \in DOMAIN P : f[i] = <<>> \/ (keep(i) /\ f[i] = p(i)) OBVIOUS
   <2>5. f = [i \in DOMAIN P |-> f[i]] OBVIOUS
   <2> HIDE DEF f
   <2>6. \A i \in DOMAIN P : f[i] = <<>> \/ \E r : MayKeep(t, P[i], f[i], r) BY <2>2, <2>4
   <2>7. FlattenSeq(f) \in Seq(Fine(t, I)) BY <2>3, <2>5, <2>6, KeptLines
   <2> QED BY <2>1, <2>7
<1>2. CASE t = "corsy"
   <2> DEFINE keep(i) == Has(P[i], {"vulnerable", "misconfigur", "[+]"})
              s(i) == IF "credential" \in P[i].words THEN "critical" ELSE "high"
              p(i) == [k \in DOMAIN P[i].items |-> Result(P[i].items[k], s(i))]
              f == [i \in DOMAIN P |-> IF keep(i) THEN p(i) ELSE <<>>]
   <2>1. AuthReport(t, out) = FlattenSeq(f) BY <1>2 DEF AuthReport, Lines, Rated
   <2>2. ASSUME NEW i \in DOMAIN P, keep(i) PROVE MayKeep(t, P[i], p(i), s(i))
      BY <1>2, <2>2 DEF MayKeep, Levels, Alarms, Credulous
   <2>3. P \in Seq(L) BY LinesSeen
   <2> HIDE DEF keep, s, p, P
   <2>4. \A i \in DOMAIN P : f[i] = <<>> \/ (keep(i) /\ f[i] = p(i)) OBVIOUS
   <2>5. f = [i \in DOMAIN P |-> f[i]] OBVIOUS
   <2> HIDE DEF f
   <2>6. \A i \in DOMAIN P : f[i] = <<>> \/ \E r : MayKeep(t, P[i], f[i], r) BY <2>2, <2>4
   <2>7. FlattenSeq(f) \in Seq(Fine(t, I)) BY <2>3, <2>5, <2>6, KeptLines
   <2> QED BY <2>1, <2>7
<1> QED BY <1>1, <1>2, MembersAre

LEMMA ParamFine ==
    ASSUME NEW out, NEW L, NEW I, IsPrinted(out, L, I), NEW t \in Members("params")
    PROVE  ParamReport(t, out) \in Seq(Fine(t, I))
<1> DEFINE P == parseLines(out)
<1>1. CASE t = "arjun" /\ EntriesOf(out, "object") # <<>>
   <2>1. ParamReport(t, out) = Plain(EntriesOf(out, "object")) BY <1>1 DEF ParamReport
   <2> QED BY <2>1, EntriesSeen, FinePlain
<1>2. CASE t = "arjun" /\ EntriesOf(out, "object") = <<>>
   <2> DEFINE keep(i) == "[+]" \in P[i].words \/ P[i].starts = "Parameter:"
              s(i) == ""
              p(i) == [k \in DOMAIN P[i].items |-> Result(P[i].items[k], s(i))]
              f == [i \in DOMAIN P |-> IF keep(i) THEN p(i) ELSE <<>>]
   <2>1. ParamReport(t, out) = FlattenSeq(f) BY <1>2 DEF ParamReport, Lines, Rated
   <2>2. ASSUME NEW i \in DOMAIN P, keep(i) PROVE MayKeep(t, P[i], p(i), s(i))
      BY <1>2, <2>2 DEF MayKeep, Levels, Alarms
   <2>3. P \in Seq(L) BY LinesSeen
   <2> HIDE DEF keep, s, p, P
   <2>4. \A i \in DOMAIN P : f[i] = <<>> \/ (keep(i) /\ f[i] = p(i)) OBVIOUS
   <2>5. f = [i \in DOMAIN P |-> f[i]] OBVIOUS
   <2> HIDE DEF f
   <2>6. \A i \in DOMAIN P : f[i] = <<>> \/ \E r : MayKeep(t, P[i], f[i], r) BY <2>2, <2>4
   <2>7. FlattenSeq(f) \in Seq(Fine(t, I)) BY <2>3, <2>5, <2>6, KeptLines
   <2> QED BY <2>1, <2>7
<1>3. CASE t # "arjun"
   <2> DEFINE keep(i) == P[i].starts = "http"
              s(i) == ""
              p(i) == [k \in DOMAIN P[i].items |-> Result(P[i].items[k], s(i))]
              f == [i \in DOMAIN P |-> IF keep(i) THEN p(i) ELSE <<>>]
   <2>1. ParamReport(t, out) = FlattenSeq(f) BY <1>3 DEF ParamReport, Lines, Rated
   <2>2. ASSUME NEW i \in DOMAIN P, keep(i) PROVE MayKeep(t, P[i], p(i), s(i))
      BY <1>3, <2>2 DEF MayKeep, Levels, Alarms
   <2>3. P \in Seq(L) BY LinesSeen
   <2> HIDE DEF keep, s, p, P
   <2>4. \A i \in DOMAIN P : f[i] = <<>> \/ (keep(i) /\ f[i] = p(i)) OBVIOUS
   <2>5. f = [i \in DOMAIN P |-> f[i]] OBVIOUS
   <2> HIDE DEF f
   <2>6. \A i \in DOMAIN P : f[i] = <<>> \/ \E r : MayKeep(t, P[i], f[i], r) BY <2>2, <2>4
   <2>7. FlattenSeq(f) \in Seq(Fine(t, I)) BY <2>3, <2>5, <2>6, KeptLines
   <2> QED BY <2>1, <2>7
<1> QED BY <1>1, <1>2, <1>3

LEMMA SecretFine ==
    ASSUME NEW out, NEW L, NEW I, IsPrinted(out, L, I), NEW t \in Members("secrets")
    PROVE  SecretReport(t, out) \in Seq(Fine(t, I))
<1> DEFINE P == parseLines(out)
<1>1. CASE t = "gitleaks"
   <2> DEFINE es == EntriesOf(out, "array")
              sev == [k \in DOMAIN es |-> IF es[k].more \cap {"verified", "entropy"} # {} THEN "critical" ELSE "high"]
   <2>1. SecretReport(t, out) = [k \in DOMAIN es |-> Result(es[k], sev[k])] BY <1>1 DEF SecretReport, Rated
   <2>2. es \in Seq(I) /\ AllFound(es) BY EntriesSeen
   <2> HIDE DEF es
   <2>3. \A k \in DOMAIN es : sev[k] \in Sevs(I)
      <3>1. \A k \in DOMAIN es : es[k] \in I BY <2>2, LenProperties
      <3> QED BY <3>1 DEF Sevs, Levels
   <2> HIDE DEF sev
   <2> QED BY <2>1, <2>2, <2>3, FineFound
<1>2. CASE t # "gitleaks"
   <2> DEFINE sev(x) == IF x.more \cap {"verified", "entropy"} # {} THEN "critical" ELSE "high"
              p(i) == [k \in DOMAIN P[i].items |-> Result(P[i].items[k], sev(P[i].items[k]))]
              f == [i \in DOMAIN P |-> IF P[i].json THEN p(i) ELSE <<>>]
   <2>1. SecretReport(t, out) = FlattenSeq(f) BY <1>2 DEF SecretReport, Rated
   <2>2. P \in Seq(L) BY LinesSeen
   <2> HIDE DEF P
   <2>3. ASSUME NEW i \in DOMAIN P PROVE f[i] \in Seq(Fine(t, I))
      <3>1. P[i] \in L BY <2>2, LenProperties
      <3>2. CASE P[i].json
         <4>1. PICK items : items = P[i].items OBVIOUS
         <4> DEFINE rate == [k \in DOMAIN items |-> sev(items[k])]
         <4>2. items \in Seq(I) /\ AllFound(items) BY <3>1, <3>2, <4>1 DEF IsPrinted, Tells
         <4>3. \A k \in DOMAIN items : rate[k] \in Sevs(I) BY DEF Sevs, Levels
         <4>4. p(i) = [k \in DOMAIN items |-> Result(items[k], rate[k])] BY <4>1
         <4> HIDE DEF rate, p
         <4>5. p(i) \in Seq(Fine(t, I)) BY <4>2, <4>3, <4>4, FineFound
         <4> QED BY <3>2, <4>5
      <3>3. CASE ~P[i].json BY <3>3, EmptySeq
      <3> QED BY <3>2, <3>3
   <2>4. f \in [DOMAIN P -> Seq(Fine(t, I))] BY <2>3
   <2> HIDE DEF f
   <2> QED BY <2>1, <2>2, <2>4, FlatIn
<1> QED BY <1>1, <1>2

LEMMA WPScanFine ==
    ASSUME NEW out, NEW L, NEW I, IsPrinted(out, L, I), NEW t
    PROVE  WPScanReport(out) \in Seq(Fine(t, I))
<1>1. CASE TRUE
   <2> DEFINE es == EntriesOf(out, "object")
              sev == [k \in DOMAIN es |-> CASE "plugin" \in es[k].more -> "high"
                                         [] "theme" \in es[k].more -> "medium"
                                         [] OTHER -> "info"]
   <2>1. WPScanReport(out) = [k \in DOMAIN es |-> Result(es[k], sev[k])] BY <1>1 DEF WPScanReport, Rated
   <2>2. es \in Seq(I) /\ AllFound(es) BY EntriesSeen
   <2> HIDE DEF es
   <2>3. \A k \in DOMAIN es : sev[k] \in Sevs(I)
      <3>1. \A k \in DOMAIN es : es[k] \in I BY <2>2, LenProperties
      <3> QED BY <3>1 DEF Sevs, Levels
   <2> HIDE DEF sev
   <2> QED BY <2>1, <2>2, <2>3, FineFound
<1> QED BY <1>1

LEMMA DroopescanFine ==
    ASSUME NEW out, NEW L, NEW I, IsPrinted(out, L, I), NEW t
    PROVE  DroopescanReport(out) \in Seq(Fine(t, I))
<1> DEFINE P == parseLines(out)
<1>1. CASE extractJSON(out).form = "none"
   <2> DEFINE keep(i) == Has(P[i], CMSes)
              s(i) == "info"
              p(i) == [k \in DOMAIN P[i].items |-> Result(P[i].items[k], s(i))]
              f == [i \in DOMAIN P |-> IF keep(i) THEN p(i) ELSE <<>>]
   <2>1. DroopescanReport(out) = FlattenSeq(f) BY <1>1 DEF DroopescanReport, Lines, Rated
   <2>2. ASSUME NEW i \in DOMAIN P, keep(i) PROVE MayKeep(t, P[i], p(i), s(i))
      BY <1>1, <2>2 DEF MayKeep, Levels, Alarms
   <2>3. P \in Seq(L) BY LinesSeen
   <2> HIDE DEF keep, s, p, P
   <2>4. \A i \in DOMAIN P : f[i] = <<>> \/ (keep(i) /\ f[i] = p(i)) OBVIOUS
   <2>5. f = [i \in DOMAIN P |-> f[i]] OBVIOUS
   <2> HIDE DEF f
   <2>6. \A i \in DOMAIN P : f[i] = <<>> \/ \E r : MayKeep(t, P[i], f[i], r) BY <2>2, <2>4
   <2>7. FlattenSeq(f) \in Seq(Fine(t, I)) BY <2>3, <2>5, <2>6, KeptLines
   <2> QED BY <2>1, <2>7
<1>2. CASE extractJSON(out).form # "none"
   <2> DEFINE es == EntriesOf(out, "object")
              sev == [k \in DOMAIN es |-> IF "vulnerability" \in es[k].more
                                         THEN IF es[k].sev = "" THEN "medium" ELSE es[k].sev
                                         ELSE "info"]
   <2>1. DroopescanReport(out) = [k \in DOMAIN es |-> Result(es[k], sev[k])] BY <1>2 DEF DroopescanReport, Rated
   <2>2. es \in Seq(I) /\ AllFound(es) BY EntriesSeen
   <2> HIDE DEF es
   <2>3. \A k \in DOMAIN es : sev[k] \in Sevs(I)
      <3>1. \A k \in DOMAIN es : es[k] \in I BY <2>2, LenProperties
      <3> QED BY <3>1 DEF Sevs, Levels
   <2> HIDE DEF sev
   <2> QED BY <2>1, <2>2, <2>3, FineFound
<1> QED BY <1>1, <1>2

-----------------------------------------------------------------------------
LEMMA JSFine ==
    ASSUME NEW out, NEW L, NEW I, IsPrinted(out, L, I), NEW t \in Members("js_analysis")
    PROVE  JSReport(t, out) \in Seq(Fine(t, I))
<1> DEFINE P == parseLines(out)
<1>1. CASE t = "linkfinder"
   <2> DEFINE keep(i) == /\ ~(P[i].starts = "[" /\ "Analyzing" \in P[i].words)
                         /\ P[i].starts \in {"/", "http"} \/ "api" \in P[i].words
              s(i) == ""
              p(i) == [k \in DOMAIN P[i].items |-> Result(P[i].items[k], s(i))]
              f == [i \in DOMAIN P |-> IF keep(i) THEN p(i) ELSE <<>>]
   <2>1. JSReport(t, out) = FlattenSeq(f) BY <1>1 DEF JSReport, Lines, Rated
   <2>2. ASSUME NEW i \in DOMAIN P, keep(i) PROVE MayKeep(t, P[i], p(i), s(i))
      BY <1>1, <2>2 DEF MayKeep, Levels, Alarms
   <2>3. P \in Seq(L) BY LinesSeen
   <2> HIDE DEF keep, s, p, P
   <2>4. \A i \in DOMAIN P : f[i] = <<>> \/ (keep(i) /\ f[i] = p(i)) OBVIOUS
   <2>5. f = [i \in DOMAIN P |-> f[i]] OBVIOUS
   <2> HIDE DEF f
   <2>6. \A i \in DOMAIN P : f[i] = <<>> \/ \E r : MayKeep(t, P[i], f[i], r) BY <2>2, <2>4
   <2>7. FlattenSeq(f) \in Seq(Fine(t, I)) BY <2>3, <2>5, <2>6, KeptLines
   <2> QED BY <2>1, <2>7
<1>2. CASE t = "secretfinder"
   <2> DEFINE keep(i) == P[i].starts = "["
              s(i) == IF Has(P[i], {"api_key", "secret", "token"}) THEN "critical" ELSE "high"
              p(i) == [k \in DOMAIN P[i].items |-> Result(P[i].items[k], s(i))]
              f == [i \in DOMAIN P |-> IF keep(i) THEN p(i) ELSE <<>>]
   <2>1. JSReport(t, out) = FlattenSeq(f) BY <1>2 DEF JSReport, Lines, Rated
   <2>2. ASSUME NEW i \in DOMAIN P, keep(i) PROVE MayKeep(t, P[i], p(i), s(i))
      BY <1>2, <2>2 DEF MayKeep, Levels, Alarms, Credulous
   <2>3. P \in Seq(L) BY LinesSeen
   <2> HIDE DEF keep, s, p, P
   <2>4. \A i \in DOMAIN P : f[i] = <<>> \/ (keep(i) /\ f[i] = p(i)) OBVIOUS
   <2>5. f = [i \in DOMAIN P |-> f[i]] OBVIOUS
   <2> HIDE DEF f
   <2>6. \A i \in DOMAIN P : f[i] = <<>> \/ \E r : MayKeep(t, P[i], f[i], r) BY <2>2, <2>4
   <2>7. FlattenSeq(f) \in Seq(Fine(t, I)) BY <2>3, <2>5, <2>6, KeptLines
   <2> QED BY <2>1, <2>7
<1>3. CASE t = "retire"
   <2>1. JSReport(t, out) = AsSaid(EntriesOf(out, "array")) BY <1>3 DEF JSReport
   <2> QED BY <2>1, EntriesSeen, FineSaid
<1>4. CASE t = "snyk"
   <2>1. JSReport(t, out) = AsSaid(EntriesOf(out, "object")) BY <1>4 DEF JSReport
   <2> QED BY <2>1, EntriesSeen, FineSaid
<1> QED BY <1>1, <1>2, <1>3, <1>4, MembersAre

LEMMA TakeoverFine ==
    ASSUME NEW out, NEW L, NEW I, IsPrinted(out, L, I), NEW t \in Members("takeover")
    PROVE  TakeoverReport(t, out) \in Seq(Fine(t, I))
<1> DEFINE P == parseLines(out)
<1>1. CASE t = "subjack"
   <2> DEFINE keep(i) == P[i].starts = "[" /\ "[Vulnerable]" \in P[i].words
              s(i) == "high"
              p(i) == [k \in DOMAIN P[i].items |-> Result(P[i].items[k], s(i))]
              f == [i \in DOMAIN P |-> IF keep(i) THEN p(i) ELSE <<>>]
   <2>1. TakeoverReport(t, out) = FlattenSeq(f) BY <1>1 DEF TakeoverReport, Lines, Rated
   <2>2. ASSUME NEW i \in DOMAIN P, keep(i) PROVE MayKeep(t, P[i], p(i), s(i))
      BY <1>1, <2>2 DEF MayKeep, Levels, Alarms, Tells, Has, Telling
   <2>3. P \in Seq(L) BY LinesSeen
   <2> HIDE DEF keep, s, p, P
   <2>4. \A i \in DOMAIN P : f[i] = <<>> \/ (keep(i) /\ f[i] = p(i)) OBVIOUS
   <2>5. f = [i \in DOMAIN P |-> f[i]] OBVIOUS
   <2> HIDE DEF f
   <2>6. \A i \in DOMAIN P : f[i] = <<>> \/ \E r : MayKeep(t, P[i], f[i], r) BY <2>2, <2>4
   <2>7. FlattenSeq(f) \in Seq(Fine(t, I)) BY <2>3, <2>5, <2>6, KeptLines
   <2> QED BY <2>1, <2>7
<1>2. CASE t = "subzy"
   <2> DEFINE keep(i) == "[VULN]" \in P[i].words
              s(i) == "high"
              p(i) == [k \in DOMAIN P[i].items |-> Result(P[i].items[k], s(i))]
              f == [i \in DOMAIN P |-> IF keep(i) THEN p(i) ELSE <<>>]
   <2>1. TakeoverReport(t, out) = FlattenSeq(f) BY <1>2 DEF TakeoverReport, Lines, Rated
   <2>2. ASSUME NEW i \in DOMAIN P, keep(i) PROVE MayKeep(t, P[i], p(i), s(i))
      BY <1>2, <2>2 DEF MayKeep, Levels, Alarms, Tells, Has, Telling
   <2>3. P \in Seq(L) BY LinesSeen
   <2> HIDE DEF keep, s, p, P
   <2>4. \A i \in DOMAIN P : f[i] = <<>> \/ (keep(i) /\ f[i] = p(i)) OBVIOUS
   <2>5. f = [i \in DOMAIN P |-> f[i]] OBVIOUS
   <2> HIDE DEF f
   <2>6. \A i \in DOMAIN P : f[i] = <<>> \/ \E r : MayKeep(t, P[i], f[i], r) BY <2>2, <2>4
   <2>7. FlattenSeq(f) \in Seq(Fine(t, I)) BY <2>3, <2>5, <2>6, KeptLines
   <2> QED BY <2>1, <2>7
<1>3. CASE t = "nuclei-takeover"
   <2> DEFINE keep(i) == P[i].json
              s(i) == "high"
              p(i) == [k \in DOMAIN P[i].items |-> Result(P[i].items[k], s(i))]
              f == [i \in DOMAIN P |-> IF keep(i) THEN p(i) ELSE <<>>]
   <2>1. TakeoverReport(t, out) = FlattenSeq(f) BY <1>3 DEF TakeoverReport, Lines, Rated
   <2>2. ASSUME NEW i \in DOMAIN P, keep(i) PROVE MayKeep(t, P[i], p(i), s(i))
      BY <1>3, <2>2 DEF MayKeep, Levels, Alarms, Tells, Has, Telling
   <2>3. P \in Seq(L) BY LinesSeen
   <2> HIDE DEF keep, s, p, P
   <2>4. \A i \in DOMAIN P : f[i] = <<>> \/ (keep(i) /\ f[i] = p(i)) OBVIOUS
   <2>5. f = [i \in DOMAIN P |-> f[i]] OBVIOUS
   <2> HIDE DEF f
   <2>6. \A i \in DOMAIN P : f[i] = <<>> \/ \E r : MayKeep(t, P[i], f[i], r) BY <2>2, <2>4
   <2>7. FlattenSeq(f) \in Seq(Fine(t, I)) BY <2>3, <2>5, <2>6, KeptLines
   <2> QED BY <2>1, <2>7
<1>4. CASE t = "dns-takeover-check"
   <2> DEFINE keep(i) == P[i].json /\ "provider" \in P[i].words
              s(i) == "medium"
              p(i) == [k \in DOMAIN P[i].items |-> Result(P[i].items[k], s(i))]
              f == [i \in DOMAIN P |-> IF keep(i) THEN p(i) ELSE <<>>]
   <2>1. TakeoverReport(t, out) = FlattenSeq(f) BY <1>4 DEF TakeoverReport, Lines, Rated
   <2>2. ASSUME NEW i \in DOMAIN P, keep(i) PROVE MayKeep(t, P[i], p(i), s(i))
      BY <1>4, <2>2 DEF MayKeep, Levels, Alarms, Tells, Has, Telling
   <2>3. P \in Seq(L) BY LinesSeen
   <2> HIDE DEF keep, s, p, P
   <2>4. \A i \in DOMAIN P : f[i] = <<>> \/ (keep(i) /\ f[i] = p(i)) OBVIOUS
   <2>5. f = [i \in DOMAIN P |-> f[i]] OBVIOUS
   <2> HIDE DEF f
   <2>6. \A i \in DOMAIN P : f[i] = <<>> \/ \E r : MayKeep(t, P[i], f[i], r) BY <2>2, <2>4
   <2>7. FlattenSeq(f) \in Seq(Fine(t, I)) BY <2>3, <2>5, <2>6, KeptLines
   <2> QED BY <2>1, <2>7
<1> QED BY <1>1, <1>2, <1>3, <1>4, MembersAre

\* A list of what is kept of another.
LEMMA FewerOf ==
    ASSUME NEW S, NEW s \in Seq(S), NEW f, f = [i \in DOMAIN s |-> f[i]],
           \A i \in DOMAIN s : f[i] = <<>> \/ f[i] = <<s[i]>>
    PROVE  FlattenSeq(f) \in Seq(S)
<1> DEFINE T == {s[i] : i \in DOMAIN s}
<1>1. FlattenSeq(f) \in Seq(T) BY SiftedIs
<1>2. T \subseteq S BY LenProperties
<1> HIDE DEF T
<1> QED BY <1>1, <1>2, SeqMonotonic

LEMMA GowitnessFine ==
    ASSUME NEW out, NEW L, NEW I, IsPrinted(out, L, I), NEW t
    PROVE  GowitnessReport(out) \in Seq(Fine(t, I))
<1> DEFINE P == parseLines(out)
           rows == out.rows
           f == [i \in DOMAIN P |-> IF P[i].json /\ "url" \in P[i].words THEN <<P[i]>> ELSE <<>>]
           g == [i \in DOMAIN rows |-> IF {"url", "file"} \subseteq rows[i].more THEN <<rows[i]>> ELSE <<>>]
           printed == FlattenSeq(f)
           keptRows == FlattenSeq(g)
           h == [i \in DOMAIN printed |-> Plain(printed[i].items)]
<1>1. \/ GowitnessReport(out) = Plain(keptRows) \/ GowitnessReport(out) = FlattenSeq(h)
      \/ GowitnessReport(out) = Plain(out.files)
   BY DEF GowitnessReport, Sifted
<1>2. P \in Seq(L) BY LinesSeen
<1>3. rows \in Seq(I) /\ out.files \in Seq(I) BY DEF IsPrinted
<1> HIDE DEF P, rows
<1>4. f = [i \in DOMAIN P |-> f[i]] /\ \A i \in DOMAIN P : f[i] = <<>> \/ f[i] = <<P[i]>> OBVIOUS
<1>5. g = [i \in DOMAIN rows |-> g[i]] /\ \A i \in DOMAIN rows : g[i] = <<>> \/ g[i] = <<rows[i]>> OBVIOUS
<1> HIDE DEF f, g
<1>6. printed \in Seq(L) /\ keptRows \in Seq(I) BY <1>2, <1>3, <1>4, <1>5, FewerOf
<1> HIDE DEF printed, keptRows
<1>7. ASSUME NEW i \in DOMAIN printed PROVE h[i] \in Seq(Fine(t, I))
   <2>1. printed[i] \in L BY <1>6, LenProperties
   <2>2. printed[i].items \in Seq(I) BY <2>1 DEF IsPrinted
   <2> QED BY <2>2, FinePlain
<1>8. h \in [DOMAIN printed -> Seq(Fine(t, I))] BY <1>7
<1> HIDE DEF h
<1>9. FlattenSeq(h) \in Seq(Fine(t, I)) BY <1>6, <1>8, FlatIn
<1> QED BY <1>1, <1>3, <1>6, <1>9, FinePlain

LEMMA CloudFine ==
    ASSUME NEW out, NEW L, NEW I, IsPrinted(out, L, I), NEW t \in Members("cloud")
    PROVE  CloudReport(t, out) \in Seq(Fine(t, I))
<1> DEFINE cs == CloudCalls[t]
           f == [i \in DOMAIN cs |-> IF out.calls[cs[i]].ok THEN CloudAssets(out.calls[cs[i]]) ELSE <<>>]
<1>1. CloudReport(t, out) = FlattenSeq(f) BY DEF CloudReport
<1>2. cs \in Seq(CallNames)
   <2>1. t = "aws" \/ t = "az" \/ t = "gcloud" BY MembersAre
   <2>2. CASE t = "aws"
      <3>1. cs = <<"ec2", "s3", "rds", "elb">> BY <2>2 DEF CloudCalls
      <3> QED BY <3>1 DEF CallNames
   <2>3. CASE t = "az"
      <3>1. cs = <<"vm", "storage">> BY <2>3 DEF CloudCalls
      <3> QED BY <3>1 DEF CallNames
   <2>4. CASE t = "gcloud"
      <3>1. cs = <<"compute", "buckets">> BY <2>4 DEF CloudCalls
      <3> QED BY <3>1 DEF CallNames
   <2> QED BY <2>1, <2>2, <2>3, <2>4
<1> HIDE DEF cs
<1>3. ASSUME NEW i \in DOMAIN cs PROVE f[i] \in Seq(Fine(t, I))
   <2>1. cs[i] \in CallNames BY <1>2, LenProperties
   <2>2. out.calls[cs[i]].items \in Seq(I) BY <2>1 DEF IsPrinted
   <2>3. CASE f[i] = <<>> BY <2>3, EmptySeq
   <2>4. CASE f[i] = Plain(out.calls[cs[i]].items) BY <2>2, <2>4, FinePlain
   <2> QED BY <2>3, <2>4 DEF CloudAssets
<1>4. f \in [DOMAIN cs -> Seq(Fine(t, I))] BY <1>3
<1> HIDE DEF f
<1> QED BY <1>1, <1>2, <1>4, FlatIn

-----------------------------------------------------------------------------
AllTools == (UNION {Members(c) : c \in DOMAIN workflowToolOrder}) \cup Extra

\* Every wrapper, by its category.
LEMMA ReportFine ==
    ASSUME NEW out, NEW L, NEW I, IsPrinted(out, L, I), NEW t \in AllTools
    PROVE  Report(t, out) \in Seq(Fine(t, I))
<1> USE DEF Extra
<1>1. CASE t \in Members("subdomain") \cup Extra
   <2>1. Report(t, out) = SubdomainReport(t, out) BY <1>1, MembersAre DEF Report
   <2> QED BY <1>1, <2>1, SubdomainFine
<1>2. CASE t \in Members("dns")
   <2>1. Report(t, out) = DNSReport(t, out) BY <1>2, MembersAre DEF Report
   <2> QED BY <1>2, <2>1, DNSFine
<1>3. CASE t \in Members("network")
   <2>1. Report(t, out) = NetworkReport(t, out) BY <1>3, MembersAre DEF Report
   <2> QED BY <1>3, <2>1, NetworkFine
<1>4. CASE t \in Members("web")
   <2>1. Report(t, out) = WebReport(t, out) BY <1>4, MembersAre DEF Report
   <2> QED BY <1>4, <2>1, WebFine
<1>5. CASE t \in Members("content")
   <2>1. Report(t, out) = ContentReport(t, out) BY <1>5, MembersAre DEF Report
   <2> QED BY <1>5, <2>1, ContentFine
<1>6. CASE t \in {"nuclei", "nikto", "testssl.sh"}
   <2>1. Report(t, out) = VulnReport(t, out) BY <1>6, MembersAre DEF Report
   <2> QED BY <1>6, <2>1, VulnFine
<1>7. CASE t = "wpscan"
   <2>1. Report(t, out) = WPScanReport(out) BY <1>7, MembersAre DEF Report
   <2> QED BY <2>1, WPScanFine
<1>8. CASE t = "droopescan"
   <2>1. Report(t, out) = DroopescanReport(out) BY <1>8, MembersAre DEF Report
   <2> QED BY <2>1, DroopescanFine
<1>9. CASE t = "wafw00f"
   <2>1. Report(t, out) = WAFReport(out) BY <1>9, MembersAre DEF Report
   <2> QED BY <2>1, WAFFine
<1>10. CASE t \in Members("smb")
   <2>1. Report(t, out) = SMBReport(t, out) BY <1>10, MembersAre DEF Report
   <2> QED BY <1>10, <2>1, SMBFine
<1>11. CASE t \in Members("origin_ip")
   <2>1. Report(t, out) = OriginReport(t, out) BY <1>11, MembersAre DEF Report
   <2> QED BY <1>11, <2>1, OriginFine
<1>12. CASE t \in {"sqlmap", "dalfox"}
   <2>1. Report(t, out) = InjectionReport(t, out) BY <1>12, MembersAre DEF Report
   <2> QED BY <1>12, <2>1, InjectionFine
<1>13. CASE t \in {"xsstrike", "commix", "tplmap", "crlfuzz"}
   <2>1. Report(t, out) = InjectionTextReport(t, out) BY <1>13, MembersAre DEF Report
   <2> QED BY <1>13, <2>1, InjectionTextFine
<1>14. CASE t \in {"smuggler", "h2csmuggler", "ssrfmap", "gopherus"}
   <2>1. Report(t, out) = SmugglingReport(t, out) BY <1>14, MembersAre DEF Report
   <2> QED BY <1>14, <2>1, SmugglingFine
<1>15. CASE t \in Members("secrets")
   <2>1. Report(t, out) = SecretReport(t, out) BY <1>15, MembersAre DEF Report
   <2> QED BY <1>15, <2>1, SecretFine
<1>16. CASE t \in Members("fingerprint")
   <2>1. Report(t, out) = FingerprintReport(t, out) BY <1>16, MembersAre DEF Report
   <2> QED BY <1>16, <2>1, FingerprintFine
<1>17. CASE t \in Members("js_analysis")
   <2>1. Report(t, out) = JSReport(t, out) BY <1>17, MembersAre DEF Report
   <2> QED BY <1>17, <2>1, JSFine
<1>18. CASE t \in Members("auth")
   <2>1. Report(t, out) = AuthReport(t, out) BY <1>18, MembersAre DEF Report
   <2> QED BY <1>18, <2>1, AuthFine
<1>19. CASE t \in Members("params")
   <2>1. Report(t, out) = ParamReport(t, out) BY <1>19, MembersAre DEF Report
   <2> QED BY <1>19, <2>1, ParamFine
<1>20. CASE t \in Members("takeover")
   <2>1. Report(t, out) = TakeoverReport(t, out) BY <1>20, MembersAre DEF Report
   <2> QED BY <1>20, <2>1, TakeoverFine
<1>21. CASE t = "gowitness"
   <2>1. Report(t, out) = GowitnessReport(out) BY <1>21, MembersAre DEF Report
   <2> QED BY <2>1, GowitnessFine
<1>22. CASE t = "aquatone"
   <2>1. Report(t, out) = Plain(out.files) BY <1>22, MembersAre DEF Report, AquatoneReport
   <2>2. out.files \in Seq(I) BY DEF IsPrinted
   <2> QED BY <2>1, <2>2, FinePlain
<1>23. CASE t \in Members("cloud")
   <2>1. Report(t, out) = CloudReport(t, out) BY <1>23, MembersAre DEF Report
   <2> QED BY <1>23, <2>1, CloudFine
<1> HIDE DEF Extra
<1>24. PICK c \in DOMAIN workflowToolOrder \cup {"extra"} :
          t \in Extra \/ (c \in DOMAIN workflowToolOrder /\ t \in Members(c))
   BY DEF AllTools
<1>25. CASE t \in Extra BY <1>1, <1>25
<1>26. CASE t \notin Extra
   <2>1. c \in DOMAIN workflowToolOrder /\ t \in Members(c) BY <1>24, <1>26
   <2> QED BY <1>1, <1>2, <1>3, <1>4, <1>5, <1>6, <1>7, <1>8, <1>9, <1>10, <1>11, <1>12, <1>13,
              <1>14, <1>15, <1>16, <1>17, <1>18, <1>19, <1>20, <1>21, <1>22, <1>23, <2>1,
              CategoriesAre, MembersAre
<1> QED BY <1>25, <1>26

LEMMA LesserOf ==
    ASSUME NEW a \in Nat, NEW b \in Nat
    PROVE  Min({a, b}) \in {a, b} /\ Min({a, b}) <= a /\ Min({a, b}) <= b
<1>1. \E x \in {a, b} : \A y \in {a, b} : x <= y OBVIOUS
<1> QED BY <1>1 DEF Min

\* What is cut off, and what is not run at all, prints no other lines.
LEMMA RunIs ==
    ASSUME NEW out, NEW L, NEW I, IsPrinted(out, L, I), NEW cap \in Nat, NEW t, NEW target, NEW creds
    PROVE  IsPrinted(Run(t, target, creds, out, cap), L, I)
<1> DEFINE n == Min({cap, Len(out.lines)})
           cut == SubSeq(out.lines, 1, n)
           some == [out EXCEPT !.lines = cut]
<1>1. out.lines \in Seq(L) /\ DOMAIN out = OutFields BY DEF IsPrinted
<1>2. cut \in Seq(L)
   <2>1. Len(out.lines) \in Nat BY <1>1, LenProperties
   <2>2. n \in Nat /\ n <= Len(out.lines)
      <3>1. n \in {cap, Len(out.lines)} /\ n <= Len(out.lines) BY <2>1, LesserOf
      <3> QED BY <2>1, <3>1
   <2> HIDE DEF n
   <2>3. \A i \in 1..n : out.lines[i] \in L BY <1>1, <2>1, <2>2, LenProperties
   <2> QED BY <2>2, <2>3, SubSeqProperties
<1> HIDE DEF cut
<1>3. /\ DOMAIN some = OutFields /\ some.lines = cut /\ some.doc = out.doc
      /\ some.rows = out.rows /\ some.files = out.files /\ some.calls = out.calls
   BY <1>1 DEF OutFields
<1> HIDE DEF some
<1>4. IsPrinted(some, L, I)
   <2>1. /\ out.doc.entries \in Seq(I) /\ AllFound(out.doc.entries)
         /\ out.rows \in Seq(I) /\ out.files \in Seq(I)
         /\ \A c \in CallNames : out.calls[c].items \in Seq(I)
         /\ \A l \in L : l.items \in Seq(I) /\ (Tells(l) => AllFound(l.items))
      BY DEF IsPrinted
   <2> QED BY <1>2, <1>3, <2>1 DEF IsPrinted
<1>5. IsPrinted(Silence, L, I)
   <2>1. /\ DOMAIN Silence = OutFields /\ Silence.lines = <<>> /\ Silence.doc.entries = <<>>
         /\ Silence.rows = <<>> /\ Silence.files = <<>>
         /\ \A c \in CallNames : Silence.calls[c].items = <<>>
      BY DEF Silence, OutFields, NoDocument
   <2>2. AllFound(<<>>) BY EmptySeq DEF AllFound
   <2>3. <<>> \in Seq(L) /\ <<>> \in Seq(I) BY EmptySeq
   <2>4. \A l \in L : l.items \in Seq(I) /\ (Tells(l) => AllFound(l.items)) BY DEF IsPrinted
   <2> QED BY <2>1, <2>2, <2>3, <2>4 DEF IsPrinted
<1>6. Run(t, target, creds, out, cap) = some \/ Run(t, target, creds, out, cap) = Silence
   BY DEF Run, some, cut
<1> QED BY <1>4, <1>5, <1>6

\* No wrapper invents (tools.go, ParseOutput of every wrapper), whatever a tool
\* prints: any number of lines and entries, markers in any combination, but for
\* the objects and the markers of Telling, that a tool prints for findings only.
\* A result rated medium or worse is about something the tool said it found.
THEOREM ReportsAreAlwaysTrue ==
    ASSUME NEW t \in AllTools, NEW target, NEW creds, NEW out, NEW L, NEW I, IsPrinted(out, L, I)
    PROVE  ReportsAreTrue(t, target, creds, out)
<1>1. PICK r : r = RunTool(t, target, creds, out, 9) OBVIOUS
<1>2. r \in Seq(Fine(t, I))
   <2>1. IsPrinted(Run(t, target, creds, out, 9), L, I)
      <3>1. 9 \in Nat OBVIOUS
      <3> QED BY <3>1, RunIs
   <2> QED BY <1>1, <2>1, ReportFine DEF RunTool
<1>3. \A i \in DOMAIN r : r[i].sev \in Alarms => r[i].says = "found" \/ t \in Credulous
   <2>1. \A i \in DOMAIN r : r[i] \in Fine(t, I) BY <1>2, LenProperties
   <2> QED BY <2>1 DEF Fine, Fair
<1> QED BY <1>1, <1>3 DEF ReportsAreTrue, Alarms

-----------------------------------------------------------------------------
\* What the wrappers make of what a tool that found x prints.
Hears(r) == \E i \in DOMAIN r : r[i].item = "x"
TheLine(j, st, w) == [json |-> j, starts |-> st, words |-> w, items |-> <<Finding("x", {})>>]
Markers == {"dot", "target", "IN", "(Status:", "[Size:", "SMB", "READ", "address", "Found origin",
            "Origin", "xss", "payload", "vulnerable", "Payload", "misconfigur", "vulnerability",
            "[VULN]"}
NameFields == {"host", "name", "response"}

\* Alone, a sequence is what it is flattened to.
LEMMA FlattenOne ==
    ASSUME NEW f, f = [i \in 1..1 |-> f[i]]
    PROVE  FlattenSeq(f) = f[1]
<1> DEFINE T == {f[i] : i \in 1..1}
<1>1. f \in [1..1 -> T] OBVIOUS
<1>2. 1 \in Nat OBVIOUS
<1> HIDE DEF T
<1>3. PICK g : /\ \A i \in 1..1 : g[i] = IF i = 1 THEN f[i] ELSE g[i - 1] \o f[i]
               /\ FlattenSeq(f) = IF 1 = 0 THEN <<>> ELSE g[1]
   BY <1>1, <1>2, Flattens
<1> QED BY <1>3

LEMMA FlattenNone ==
    ASSUME NEW f, f = [i \in 1..0 |-> f[i]]
    PROVE  FlattenSeq(f) = <<>>
<1>1. f \in [1..0 -> {}] /\ 0 \in Nat OBVIOUS
<1>2. PICK g : /\ \A i \in 1..0 : g[i] = IF i = 1 THEN f[i] ELSE g[i - 1] \o f[i]
               /\ FlattenSeq(f) = IF 0 = 0 THEN <<>> ELSE g[0]
   BY <1>1, Flattens
<1> QED BY <1>2

LEMMA FoundHeard ==
    ASSUME NEW more, NEW items, items = <<Finding("x", more)>>, NEW r, NEW sev,
           r = [k \in DOMAIN items |-> Result(items[k], sev[k])]
    PROVE  Hears(r)
<1>1. DOMAIN items = 1..1 /\ items[1].name = "x" BY DEF Finding
<1>2. DOMAIN r = 1..1 /\ r[1].item = "x" BY <1>1 DEF Result
<1> QED BY <1>2 DEF Hears

LEMMA KeptHeard ==
    ASSUME NEW P, NEW l, P = <<l>>, l.items = <<Finding("x", {})>>, NEW f,
           f = [i \in DOMAIN P |-> f[i]], NEW s,
           f[1] = [k \in DOMAIN P[1].items |-> Result(P[1].items[k], s)]
    PROVE  Hears(FlattenSeq(f))
<1>1. f = [i \in 1..1 |-> f[i]] /\ P[1] = l OBVIOUS
<1>2. FlattenSeq(f) = f[1] BY <1>1, FlattenOne
<1> DEFINE items == l.items
           sev == [k \in DOMAIN items |-> s]
<1>3. f[1] = [k \in DOMAIN items |-> Result(items[k], sev[k])] BY <1>1
<1>4. items = <<Finding("x", {})>> OBVIOUS
<1> HIDE DEF items, sev
<1>5. Hears(f[1]) BY <1>3, <1>4, FoundHeard
<1> QED BY <1>2, <1>5

\* A line that is no comment and not empty.
Seen(st) == st \notin {"", "#"}
LEMMA SeenIs ==
    /\ Seen("text") /\ Seen("http") /\ Seen("{") /\ Seen("[") /\ Seen("Open ") /\ Seen("share")
BY Zenon DEF Seen

LEMMA OneLineSeen ==
    ASSUME NEW l, NEW s, s = <<l>>, Seen(l.starts), NEW out, out.lines = s
    PROVE  parseLines(out) = <<l>>
<1>1. DOMAIN s = 1..1 /\ s[1] = l OBVIOUS
<1> DEFINE f == [i \in DOMAIN s |-> IF Seen(s[i].starts) THEN <<s[i]>> ELSE <<>>]
<1>2. parseLines(out) = FlattenSeq(f) BY DEF parseLines, Sifted, Seen
<1>3. f = [i \in 1..1 |-> f[i]] BY <1>1
<1>4. f[1] = <<s[1]>> BY <1>1
<1> HIDE DEF f
<1>5. FlattenSeq(f) = f[1] BY <1>3, FlattenOne
<1> QED BY <1>1, <1>2, <1>4, <1>5

LEMMA LineSeen ==
    ASSUME NEW j, NEW st, NEW w, Seen(st), NEW out, out.lines = <<TheLine(j, st, w)>>
    PROVE  parseLines(out) = <<TheLine(j, st, w)>>
<1>1. PICK l : l = TheLine(j, st, w) OBVIOUS
<1>2. Seen(l.starts) BY <1>1 DEF TheLine
<1>3. out.lines = <<l>> BY <1>1
<1>4. parseLines(out) = <<l>> BY <1>2, <1>3, OneLineSeen
<1> QED BY <1>1, <1>4

LEMMA NoLineSeen ==
    ASSUME NEW out, out.lines = <<>>
    PROVE  parseLines(out) = <<>>
<1> DEFINE f == [i \in DOMAIN out.lines |->
                   IF out.lines[i].starts \notin {"", "#"} THEN <<out.lines[i]>> ELSE <<>>]
<1>1. parseLines(out) = FlattenSeq(f) BY DEF parseLines, Sifted
<1>2. f = [i \in 1..0 |-> f[i]] OBVIOUS
<1> HIDE DEF f
<1> QED BY <1>1, <1>2, FlattenNone

LEMMA TextIs ==
    ASSUME NEW st, NEW w
    PROVE  /\ Text(st, w, "x") = [Silence EXCEPT !.lines = <<TheLine(FALSE, st, w)>>]
           /\ JSONText(w, "x") = [Silence EXCEPT !.lines = <<TheLine(TRUE, "{", w)>>]
           /\ Text(st, w, "x").lines = <<TheLine(FALSE, st, w)>>
           /\ JSONText(w, "x").lines = <<TheLine(TRUE, "{", w)>>
<1>1. Text(st, w, "x") = [Silence EXCEPT !.lines = <<TheLine(FALSE, st, w)>>] BY DEF Text, TheLine
<1>2. JSONText(w, "x") = [Silence EXCEPT !.lines = <<TheLine(TRUE, "{", w)>>] BY DEF JSONText, TheLine
<1>3. "lines" \in DOMAIN Silence BY DEF Silence
<1> QED BY <1>1, <1>2, <1>3

LEMMA DocumentIs ==
    ASSUME NEW form, NEW more
    PROVE  LET out == Document(form, "x", more) IN
           /\ out.doc.form = form /\ out.doc.entries = <<Finding("x", more)>>
           /\ extractJSON(out).form = form
           /\ EntriesOf(out, form) = <<Finding("x", more)>>
           /\ \A other : other # form => EntriesOf(out, other) = <<>>
<1> DEFINE out == Document(form, "x", more)
           d == [form |-> form, entries |-> <<Finding("x", more)>>]
<1>1. out.lines = <<>> /\ out.doc = d BY DEF Document, Silence
<1> HIDE DEF out
<1>2. extractJSON(out) = d BY <1>1 DEF extractJSON
<1>3. out.doc.form = form /\ out.doc.entries = <<Finding("x", more)>> BY <1>1
<1>4. extractJSON(out).form = form /\ extractJSON(out).entries = <<Finding("x", more)>> BY <1>2
<1>5. EntriesOf(out, form) = <<Finding("x", more)>> BY <1>4 DEF EntriesOf
<1>6. \A other : other # form => EntriesOf(out, other) = <<>> BY <1>4 DEF EntriesOf
<1> QED BY <1>3, <1>4, <1>5, <1>6 DEF out

-----------------------------------------------------------------------------
LEMMA PrintsAre ==
    ASSUME NEW t
    PROVE  /\ t \in {"subfinder", "amass", "dnsx", "naabu", "httpx", "feroxbuster", "nuclei", "sqlmap",
                 "dalfox", "trufflehog", "whatweb"} =>
                 Prints(t, "x") = JSONText(NameFields, "x")
           /\ t \in {"dnsrecon", "dnstwist", "masscan", "testssl.sh", "wafw00f", "gitleaks", "retire"} =>
                 Prints(t, "x") = Document("array", "x", {})
           /\ t \in {"ffuf", "dirsearch", "nikto", "enum4linux-ng", "wappalyzer", "arjun", "wpscan",
                 "droopescan", "snyk"} =>
                 Prints(t, "x") = Document("object", "x", {"plugin", "vulnerability"})
           /\ t \in {"nmap"} =>
                 Prints(t, "x") = Document("xml", "x", {"open"})
           /\ t \in {"katana", "hakrawler", "gau", "waybackurls", "paramspider", "linkfinder"} =>
                 Prints(t, "x") = Text("http", {}, "x")
           /\ t \in {"rustscan"} =>
                 Prints(t, "x") = Text("Open ", {"port"}, "x")
           /\ t \in {"secretfinder"} =>
                 Prints(t, "x") = Text("[", {"api_key"}, "x")
           /\ t \in {"smbclient"} =>
                 Prints(t, "x") = Text("share", {"dot"}, "x")
           /\ t \in {"assetfinder", "findomain", "dnsenum", "gobuster", "crackmapexec", "cloudflair",
                 "hakoriginfinder", "cloakquest3r", "xsstrike", "commix", "tplmap", "crlfuzz",
                 "smuggler", "h2csmuggler", "ssrfmap", "gopherus", "jwt_tool", "subzy",
                 "nuclei-takeover", "dns-takeover-check"} =>
                 Prints(t, "x") = Text("text", Markers, "x")
           /\ t \in {"gowitness"} =>
                 Prints(t, "x") = [Silence EXCEPT !.rows = <<Finding("x", {"url", "file"})>>]
           /\ t \in {"aquatone"} =>
                 Prints(t, "x") = [Silence EXCEPT !.files = <<Finding("x", {})>>]
           /\ t \in {"aws", "az", "gcloud"} =>
                 Prints(t, "x") = [Silence EXCEPT !.calls[CloudCalls[t][2]] = [ok |-> TRUE, json |-> TRUE,
                                                           items |-> <<Finding("x", {})>>]]
<1>1. ASSUME t \in {"subfinder", "amass", "dnsx", "naabu", "httpx", "feroxbuster", "nuclei", "sqlmap",
                 "dalfox", "trufflehog", "whatweb"}
      PROVE  Prints(t, "x") = JSONText(NameFields, "x")
   BY <1>1, MembersAre DEF Prints, NameFields, Markers
<1>2. ASSUME t \in {"dnsrecon", "dnstwist", "masscan", "testssl.sh", "wafw00f", "gitleaks", "retire"}
      PROVE  Prints(t, "x") = Document("array", "x", {})
   BY <1>2, MembersAre DEF Prints, NameFields, Markers
<1>3. ASSUME t \in {"ffuf", "dirsearch", "nikto", "enum4linux-ng", "wappalyzer", "arjun", "wpscan",
                 "droopescan", "snyk"}
      PROVE  Prints(t, "x") = Document("object", "x", {"plugin", "vulnerability"})
   BY <1>3, MembersAre DEF Prints, NameFields, Markers
<1>4. ASSUME t \in {"nmap"}
      PROVE  Prints(t, "x") = Document("xml", "x", {"open"})
   BY <1>4, MembersAre DEF Prints, NameFields, Markers
<1>5. ASSUME t \in {"katana", "hakrawler", "gau", "waybackurls", "paramspider", "linkfinder"}
      PROVE  Prints(t, "x") = Text("http", {}, "x")
   BY <1>5, MembersAre DEF Prints, NameFields, Markers
<1>6. ASSUME t \in {"rustscan"}
      PROVE  Prints(t, "x") = Text("Open ", {"port"}, "x")
   BY <1>6, MembersAre DEF Prints, NameFields, Markers
<1>7. ASSUME t \in {"secretfinder"}
      PROVE  Prints(t, "x") = Text("[", {"api_key"}, "x")
   BY <1>7, MembersAre DEF Prints, NameFields, Markers
<1>8. ASSUME t \in {"smbclient"}
      PROVE  Prints(t, "x") = Text("share", {"dot"}, "x")
   BY <1>8, MembersAre DEF Prints, NameFields, Markers
<1>9. ASSUME t \in {"assetfinder", "findomain", "dnsenum", "gobuster", "crackmapexec", "cloudflair",
                 "hakoriginfinder", "cloakquest3r", "xsstrike", "commix", "tplmap", "crlfuzz",
                 "smuggler", "h2csmuggler", "ssrfmap", "gopherus", "jwt_tool", "subzy",
                 "nuclei-takeover", "dns-takeover-check"}
      PROVE  Prints(t, "x") = Text("text", Markers, "x")
   BY <1>9, MembersAre DEF Prints, NameFields, Markers
<1>10. ASSUME t \in {"gowitness"}
      PROVE  Prints(t, "x") = [Silence EXCEPT !.rows = <<Finding("x", {"url", "file"})>>]
   BY <1>10, MembersAre DEF Prints, NameFields, Markers
<1>11. ASSUME t \in {"aquatone"}
      PROVE  Prints(t, "x") = [Silence EXCEPT !.files = <<Finding("x", {})>>]
   BY <1>11, MembersAre DEF Prints, NameFields, Markers
<1>12. ASSUME t \in {"aws", "az", "gcloud"}
      PROVE  Prints(t, "x") = [Silence EXCEPT !.calls[CloudCalls[t][2]] = [ok |-> TRUE, json |-> TRUE,
                                                           items |-> <<Finding("x", {})>>]]
   BY <1>12, MembersAre DEF Prints, NameFields, Markers
<1> QED BY <1>1, <1>2, <1>3, <1>4, <1>5, <1>6, <1>7, <1>8, <1>9, <1>10, <1>11, <1>12

LEMMA ItemsHeard ==
    ASSUME NEW more
    PROVE  Hears(Plain(<<Finding("x", more)>>)) /\ Hears(AsSaid(<<Finding("x", more)>>))
<1>1. PICK items : items = <<Finding("x", more)>> OBVIOUS
<1> DEFINE none == [k \in DOMAIN items |-> ""]
           said == [k \in DOMAIN items |-> items[k].sev]
<1>2. Plain(items) = [k \in DOMAIN items |-> Result(items[k], none[k])] BY DEF Plain, Rated
<1>3. AsSaid(items) = [k \in DOMAIN items |-> Result(items[k], said[k])] BY DEF AsSaid, Rated
<1> HIDE DEF none, said
<1>4. Hears(Plain(items)) BY <1>1, <1>2, FoundHeard
<1>5. Hears(AsSaid(items)) BY <1>1, <1>3, FoundHeard
<1> QED BY <1>1, <1>4, <1>5

LEMMA JSONHeard ==
    ASSUME NEW w
    PROVE  /\ JSONLines(JSONText(w, "x")) = AsSaid(<<Finding("x", {})>>)
           /\ Hears(JSONLines(JSONText(w, "x")))
<1> DEFINE out == JSONText(w, "x")
           P == parseLines(out)
           f == [i \in DOMAIN P |-> IF P[i].json THEN AsSaid(P[i].items) ELSE <<>>]
<1>1. JSONLines(out) = FlattenSeq(f) BY DEF JSONLines
<1>2. PICK l : l = TheLine(TRUE, "{", w) OBVIOUS
<1>3. out.lines = <<TheLine(TRUE, "{", w)>> BY TextIs
<1> HIDE DEF out
<1>4. P = <<l>>
   <2>1. Seen("{") BY SeenIs
   <2> QED BY <1>2, <1>3, <2>1, LineSeen
<1> HIDE DEF P
<1>5. DOMAIN P = 1..1 /\ P[1] = l BY <1>4
<1>6. f = [i \in 1..1 |-> f[i]] BY <1>5
<1>7. f[1] = AsSaid(<<Finding("x", {})>>)
   <2>1. l.json /\ l.items = <<Finding("x", {})>> BY <1>2 DEF TheLine
   <2>2. 1 \in DOMAIN P BY <1>5
   <2>3. P[1].json /\ P[1].items = <<Finding("x", {})>> BY <1>5, <2>1
   <2> QED BY <2>2, <2>3
<1> HIDE DEF f
<1>8. FlattenSeq(f) = AsSaid(<<Finding("x", {})>>) BY <1>6, <1>7, FlattenOne
<1> QED BY <1>1, <1>8, ItemsHeard DEF out

LEMMA SubdomainHeard ==
    ASSUME NEW t \in Members("subdomain"), NEW out, out = Prints(t, "x")
    PROVE  Hears(SubdomainReport(t, out))
<1> DEFINE P == parseLines(out)
<1>1. CASE t \in {"subfinder", "amass"}
   <2> DEFINE keep(i) == CASE t = "subfinder" -> (P[i].json /\ "host" \in P[i].words) \/ P[i].starts # "{"
                           [] t = "amass" -> \/ P[i].json /\ "name" \in P[i].words
                                             \/ P[i].starts # "{" /\ "dot" \in P[i].words
                           [] t \in {"assetfinder", "findomain"} -> TRUE
                           [] t \in {"sublist3r", "SubDomainizer"} -> "dot" \in P[i].words /\ ~Bracketed(P[i])
                           [] t = "subbrute" -> "dot" \in P[i].words
              s(i) == ""
              p(i) == [k \in DOMAIN P[i].items |-> Result(P[i].items[k], s(i))]
              f == [i \in DOMAIN P |-> IF keep(i) THEN p(i) ELSE <<>>]
   <2>1. SubdomainReport(t, out) = FlattenSeq(f) BY <1>1 DEF SubdomainReport, Lines, Rated
   <2>2. out = JSONText(NameFields, "x") BY <1>1, PrintsAre
   <2>3. PICK l : l = TheLine(TRUE, "{", NameFields) OBVIOUS
   <2>4. P = <<l>>
      <3>1. out.lines = <<TheLine(TRUE, "{", NameFields)>> BY <2>2, TextIs
      <3>2. Seen("{") BY SeenIs
      <3> QED BY <2>3, <3>1, <3>2, LineSeen
   <2>5. DOMAIN P = 1..1 /\ P[1] = l BY <2>4
   <2>6. keep(1)
      <3> HIDE DEF P
      <3>1. l.json = TRUE /\ l.starts = "{" /\ l.words = NameFields
         BY <2>3 DEF TheLine
      <3>2. P[1].json = l.json /\ P[1].starts = l.starts /\ P[1].words = l.words BY <2>5
      <3> QED BY <1>1, <3>1, <3>2 DEF Has, Bracketed, Markers, NameFields
   <2> HIDE DEF P, keep, s
   <2>7. f = [i \in DOMAIN P |-> f[i]] OBVIOUS
   <2>8. f[1] = [k \in DOMAIN P[1].items |-> Result(P[1].items[k], s(1))] BY <2>5, <2>6
   <2>9. l.items = <<Finding("x", {})>> BY <2>3 DEF TheLine
   <2> HIDE DEF f
   <2>10. Hears(FlattenSeq(f)) BY <2>4, <2>7, <2>8, <2>9, KeptHeard
   <2> QED BY <2>1, <2>10
<1>2. CASE t \in {"assetfinder", "findomain"}
   <2> DEFINE keep(i) == CASE t = "subfinder" -> (P[i].json /\ "host" \in P[i].words) \/ P[i].starts # "{"
                           [] t = "amass" -> \/ P[i].json /\ "name" \in P[i].words
                                             \/ P[i].starts # "{" /\ "dot" \in P[i].words
                           [] t \in {"assetfinder", "findomain"} -> TRUE
                           [] t \in {"sublist3r", "SubDomainizer"} -> "dot" \in P[i].words /\ ~Bracketed(P[i])
                           [] t = "subbrute" -> "dot" \in P[i].words
              s(i) == ""
              p(i) == [k \in DOMAIN P[i].items |-> Result(P[i].items[k], s(i))]
              f == [i \in DOMAIN P |-> IF keep(i) THEN p(i) ELSE <<>>]
   <2>1. SubdomainReport(t, out) = FlattenSeq(f) BY <1>2 DEF SubdomainReport, Lines, Rated
   <2>2. out = Text("text", Markers, "x") BY <1>2, PrintsAre
   <2>3. PICK l : l = TheLine(FALSE, "text", Markers) OBVIOUS
   <2>4. P = <<l>>
      <3>1. out.lines = <<TheLine(FALSE, "text", Markers)>> BY <2>2, TextIs
      <3>2. Seen("text") BY SeenIs
      <3> QED BY <2>3, <3>1, <3>2, LineSeen
   <2>5. DOMAIN P = 1..1 /\ P[1] = l BY <2>4
   <2>6. keep(1)
      <3> HIDE DEF P
      <3>1. l.json = FALSE /\ l.starts = "text" /\ l.words = Markers
         BY <2>3 DEF TheLine
      <3>2. P[1].json = l.json /\ P[1].starts = l.starts /\ P[1].words = l.words BY <2>5
      <3> QED BY <1>2, <3>1, <3>2 DEF Has, Bracketed, Markers, NameFields
   <2> HIDE DEF P, keep, s
   <2>7. f = [i \in DOMAIN P |-> f[i]] OBVIOUS
   <2>8. f[1] = [k \in DOMAIN P[1].items |-> Result(P[1].items[k], s(1))] BY <2>5, <2>6
   <2>9. l.items = <<Finding("x", {})>> BY <2>3 DEF TheLine
   <2> HIDE DEF f
   <2>10. Hears(FlattenSeq(f)) BY <2>4, <2>7, <2>8, <2>9, KeptHeard
   <2> QED BY <2>1, <2>10
<1> QED BY <1>1, <1>2, MembersAre

LEMMA DNSHeard ==
    ASSUME NEW t \in Members("dns"), NEW out, out = Prints(t, "x")
    PROVE  Hears(DNSReport(t, out))
<1> DEFINE P == parseLines(out)
<1>1. CASE t = "dnsx"
   <2>1. DNSReport(t, out) = JSONLines(out) BY <1>1 DEF DNSReport
   <2>2. out = JSONText(NameFields, "x") BY <1>1, PrintsAre
   <2> QED BY <2>1, <2>2, JSONHeard
<1>2. CASE t \in {"dnsrecon", "dnstwist"}
   <2>1. DNSReport(t, out) = Plain(EntriesOf(out, "array")) BY <1>2 DEF DNSReport
   <2>2. out = Document("array", "x", {}) BY <1>2, PrintsAre
   <2>3. EntriesOf(out, "array") = <<Finding("x", {})>> BY <2>2, DocumentIs
   <2> QED BY <2>1, <2>3, ItemsHeard
<1>3. CASE t = "dnsenum"
   <2> DEFINE keep(i) == "IN" \in P[i].words
              s(i) == ""
              p(i) == [k \in DOMAIN P[i].items |-> Result(P[i].items[k], s(i))]
              f == [i \in DOMAIN P |-> IF keep(i) THEN p(i) ELSE <<>>]
   <2>1. DNSReport(t, out) = FlattenSeq(f) BY <1>3 DEF DNSReport, Lines, Rated
   <2>2. out = Text("text", Markers, "x") BY <1>3, PrintsAre
   <2>3. PICK l : l = TheLine(FALSE, "text", Markers) OBVIOUS
   <2>4. P = <<l>>
      <3>1. out.lines = <<TheLine(FALSE, "text", Markers)>> BY <2>2, TextIs
      <3>2. Seen("text") BY SeenIs
      <3> QED BY <2>3, <3>1, <3>2, LineSeen
   <2>5. DOMAIN P = 1..1 /\ P[1] = l BY <2>4
   <2>6. keep(1)
      <3> HIDE DEF P
      <3>1. l.json = FALSE /\ l.starts = "text" /\ l.words = Markers
         BY <2>3 DEF TheLine
      <3>2. P[1].json = l.json /\ P[1].starts = l.starts /\ P[1].words = l.words BY <2>5
      <3> QED BY <1>3, <3>1, <3>2 DEF Has, Bracketed, Markers, NameFields
   <2> HIDE DEF P, keep, s
   <2>7. f = [i \in DOMAIN P |-> f[i]] OBVIOUS
   <2>8. f[1] = [k \in DOMAIN P[1].items |-> Result(P[1].items[k], s(1))] BY <2>5, <2>6
   <2>9. l.items = <<Finding("x", {})>> BY <2>3 DEF TheLine
   <2> HIDE DEF f
   <2>10. Hears(FlattenSeq(f)) BY <2>4, <2>7, <2>8, <2>9, KeptHeard
   <2> QED BY <2>1, <2>10
<1> QED BY <1>1, <1>2, <1>3, MembersAre

LEMMA NetworkHeard ==
    ASSUME NEW t \in Members("network"), NEW out, out = Prints(t, "x")
    PROVE  Hears(NetworkReport(t, out))
<1> DEFINE P == parseLines(out)
<1>1. CASE t = "nmap"
   <2> DEFINE x == Finding("x", {"open"})
              es == out.doc.entries
              f == [i \in DOMAIN es |-> IF "open" \in es[i].more THEN <<es[i]>> ELSE <<>>]
   <2>1. out = Document("xml", "x", {"open"}) BY <1>1, PrintsAre
   <2>2. es = <<x>> /\ out.doc.form = "xml" BY <2>1, DocumentIs
   <2>3. NetworkReport(t, out) = Plain(FlattenSeq(f)) BY <1>1, <2>2 DEF NetworkReport, Sifted
   <2>4. "open" \in x.more BY DEF Finding
   <2> HIDE DEF es, x
   <2>5. DOMAIN es = 1..1 /\ es[1] = x BY <2>2
   <2>6. f = [i \in 1..1 |-> f[i]] /\ f[1] = <<x>> BY <2>4, <2>5
   <2> HIDE DEF f
   <2>7. FlattenSeq(f) = <<Finding("x", {"open"})>> BY <2>6, FlattenOne DEF x
   <2> QED BY <2>3, <2>7, ItemsHeard
<1>2. CASE t = "naabu"
   <2>1. NetworkReport(t, out) = JSONLines(out) BY <1>2 DEF NetworkReport
   <2>2. out = JSONText(NameFields, "x") BY <1>2, PrintsAre
   <2> QED BY <2>1, <2>2, JSONHeard
<1>3. CASE t = "rustscan"
   <2> DEFINE keep(i) == P[i].starts = "Open " /\ "port" \in P[i].words
              s(i) == ""
              p(i) == [k \in DOMAIN P[i].items |-> Result(P[i].items[k], s(i))]
              f == [i \in DOMAIN P |-> IF keep(i) THEN p(i) ELSE <<>>]
   <2>1. NetworkReport(t, out) = FlattenSeq(f) BY <1>3 DEF NetworkReport, Lines, Rated
   <2>2. out = Text("Open ", {"port"}, "x") BY <1>3, PrintsAre
   <2>3. PICK l : l = TheLine(FALSE, "Open ", {"port"}) OBVIOUS
   <2>4. P = <<l>>
      <3>1. out.lines = <<TheLine(FALSE, "Open ", {"port"})>> BY <2>2, TextIs
      <3>2. Seen("Open ") BY SeenIs
      <3> QED BY <2>3, <3>1, <3>2, LineSeen
   <2>5. DOMAIN P = 1..1 /\ P[1] = l BY <2>4
   <2>6. keep(1)
      <3> HIDE DEF P
      <3>1. l.json = FALSE /\ l.starts = "Open " /\ l.words = {"port"}
         BY <2>3 DEF TheLine
      <3>2. P[1].json = l.json /\ P[1].starts = l.starts /\ P[1].words = l.words BY <2>5
      <3> QED BY <1>3, <3>1, <3>2 DEF Has, Bracketed, Markers, NameFields
   <2> HIDE DEF P, keep, s
   <2>7. f = [i \in DOMAIN P |-> f[i]] OBVIOUS
   <2>8. f[1] = [k \in DOMAIN P[1].items |-> Result(P[1].items[k], s(1))] BY <2>5, <2>6
   <2>9. l.items = <<Finding("x", {})>> BY <2>3 DEF TheLine
   <2> HIDE DEF f
   <2>10. Hears(FlattenSeq(f)) BY <2>4, <2>7, <2>8, <2>9, KeptHeard
   <2> QED BY <2>1, <2>10
<1>4. CASE t = "masscan"
   <2>1. NetworkReport(t, out) = Plain(EntriesOf(out, "array")) BY <1>4 DEF NetworkReport
   <2>2. out = Document("array", "x", {}) BY <1>4, PrintsAre
   <2>3. EntriesOf(out, "array") = <<Finding("x", {})>> BY <2>2, DocumentIs
   <2> QED BY <2>1, <2>3, ItemsHeard
<1> QED BY <1>1, <1>2, <1>3, <1>4, MembersAre

LEMMA WebHeard ==
    ASSUME NEW t \in Members("web"), NEW out, out = Prints(t, "x")
    PROVE  Hears(WebReport(t, out))
<1> DEFINE P == parseLines(out)
<1>1. CASE t = "httpx"
   <2>1. WebReport(t, out) = JSONLines(out) BY <1>1 DEF WebReport
   <2>2. out = JSONText(NameFields, "x") BY <1>1, PrintsAre
   <2> QED BY <2>1, <2>2, JSONHeard
<1>2. CASE t \in {"katana", "hakrawler", "gau", "waybackurls"}
   <2> DEFINE keep(i) == P[i].starts = "http"
              s(i) == ""
              p(i) == [k \in DOMAIN P[i].items |-> Result(P[i].items[k], s(i))]
              f == [i \in DOMAIN P |-> IF keep(i) THEN p(i) ELSE <<>>]
   <2>1. WebReport(t, out) = FlattenSeq(f) BY <1>2 DEF WebReport, Lines, Rated
   <2>2. out = Text("http", {}, "x") BY <1>2, PrintsAre
   <2>3. PICK l : l = TheLine(FALSE, "http", {}) OBVIOUS
   <2>4. P = <<l>>
      <3>1. out.lines = <<TheLine(FALSE, "http", {})>> BY <2>2, TextIs
      <3>2. Seen("http") BY SeenIs
      <3> QED BY <2>3, <3>1, <3>2, LineSeen
   <2>5. DOMAIN P = 1..1 /\ P[1] = l BY <2>4
   <2>6. keep(1)
      <3> HIDE DEF P
      <3>1. l.json = FALSE /\ l.starts = "http" /\ l.words = {}
         BY <2>3 DEF TheLine
      <3>2. P[1].json = l.json /\ P[1].starts = l.starts /\ P[1].words = l.words BY <2>5
      <3> QED BY <1>2, <3>1, <3>2 DEF Has, Bracketed, Markers, NameFields
   <2> HIDE DEF P, keep, s
   <2>7. f = [i \in DOMAIN P |-> f[i]] OBVIOUS
   <2>8. f[1] = [k \in DOMAIN P[1].items |-> Result(P[1].items[k], s(1))] BY <2>5, <2>6
   <2>9. l.items = <<Finding("x", {})>> BY <2>3 DEF TheLine
   <2> HIDE DEF f
   <2>10. Hears(FlattenSeq(f)) BY <2>4, <2>7, <2>8, <2>9, KeptHeard
   <2> QED BY <2>1, <2>10
<1> QED BY <1>1, <1>2, MembersAre

LEMMA ContentHeard ==
    ASSUME NEW t \in Members("content"), NEW out, out = Prints(t, "x")
    PROVE  Hears(ContentReport(t, out))
<1> DEFINE P == parseLines(out)
<1>1. CASE t \in {"ffuf", "dirsearch"}
   <2>1. ContentReport(t, out) = AsSaid(EntriesOf(out, "object")) BY <1>1 DEF ContentReport
   <2>2. out = Document("object", "x", {"plugin", "vulnerability"}) BY <1>1, PrintsAre
   <2>3. EntriesOf(out, "object") = <<Finding("x", {"plugin", "vulnerability"})>> BY <2>2, DocumentIs
   <2> QED BY <2>1, <2>3, ItemsHeard
<1>2. CASE t = "feroxbuster"
   <2> DEFINE keep(i) == P[i].json /\ "response" \in P[i].words
              s(i) == ""
              p(i) == [k \in DOMAIN P[i].items |-> Result(P[i].items[k], s(i))]
              f == [i \in DOMAIN P |-> IF keep(i) THEN p(i) ELSE <<>>]
   <2>1. ContentReport(t, out) = FlattenSeq(f) BY <1>2 DEF ContentReport, Lines, Rated
   <2>2. out = JSONText(NameFields, "x") BY <1>2, PrintsAre
   <2>3. PICK l : l = TheLine(TRUE, "{", NameFields) OBVIOUS
   <2>4. P = <<l>>
      <3>1. out.lines = <<TheLine(TRUE, "{", NameFields)>> BY <2>2, TextIs
      <3>2. Seen("{") BY SeenIs
      <3> QED BY <2>3, <3>1, <3>2, LineSeen
   <2>5. DOMAIN P = 1..1 /\ P[1] = l BY <2>4
   <2>6. keep(1)
      <3> HIDE DEF P
      <3>1. l.json = TRUE /\ l.starts = "{" /\ l.words = NameFields
         BY <2>3 DEF TheLine
      <3>2. P[1].json = l.json /\ P[1].starts = l.starts /\ P[1].words = l.words BY <2>5
      <3> QED BY <1>2, <3>1, <3>2 DEF Has, Bracketed, Markers, NameFields
   <2> HIDE DEF P, keep, s
   <2>7. f = [i \in DOMAIN P |-> f[i]] OBVIOUS
   <2>8. f[1] = [k \in DOMAIN P[1].items |-> Result(P[1].items[k], s(1))] BY <2>5, <2>6
   <2>9. l.items = <<Finding("x", {})>> BY <2>3 DEF TheLine
   <2> HIDE DEF f
   <2>10. Hears(FlattenSeq(f)) BY <2>4, <2>7, <2>8, <2>9, KeptHeard
   <2> QED BY <2>1, <2>10
<1>3. CASE t = "gobuster"
   <2> DEFINE keep(i) == "(Status:" \in P[i].words /\ ~intParse("[Size:" \notin P[i].words).err
              s(i) == ""
              p(i) == [k \in DOMAIN P[i].items |-> Result(P[i].items[k], s(i))]
              f == [i \in DOMAIN P |-> IF keep(i) THEN p(i) ELSE <<>>]
   <2>1. ContentReport(t, out) = FlattenSeq(f) BY <1>3 DEF ContentReport, Lines, Rated
   <2>2. out = Text("text", Markers, "x") BY <1>3, PrintsAre
   <2>3. PICK l : l = TheLine(FALSE, "text", Markers) OBVIOUS
   <2>4. P = <<l>>
      <3>1. out.lines = <<TheLine(FALSE, "text", Markers)>> BY <2>2, TextIs
      <3>2. Seen("text") BY SeenIs
      <3> QED BY <2>3, <3>1, <3>2, LineSeen
   <2>5. DOMAIN P = 1..1 /\ P[1] = l BY <2>4
   <2>6. keep(1)
      <3> HIDE DEF P
      <3>1. l.json = FALSE /\ l.starts = "text" /\ l.words = Markers
         BY <2>3 DEF TheLine
      <3>2. P[1].json = l.json /\ P[1].starts = l.starts /\ P[1].words = l.words BY <2>5
      <3> QED BY <1>3, <3>1, <3>2 DEF intParse, Has, Bracketed, Markers, NameFields
   <2> HIDE DEF P, keep, s
   <2>7. f = [i \in DOMAIN P |-> f[i]] OBVIOUS
   <2>8. f[1] = [k \in DOMAIN P[1].items |-> Result(P[1].items[k], s(1))] BY <2>5, <2>6
   <2>9. l.items = <<Finding("x", {})>> BY <2>3 DEF TheLine
   <2> HIDE DEF f
   <2>10. Hears(FlattenSeq(f)) BY <2>4, <2>7, <2>8, <2>9, KeptHeard
   <2> QED BY <2>1, <2>10
<1> QED BY <1>1, <1>2, <1>3, MembersAre

LEMMA VulnHeard ==
    ASSUME NEW t \in {"nuclei", "nikto", "testssl.sh"}, NEW out, out = Prints(t, "x")
    PROVE  Hears(VulnReport(t, out))
<1>1. CASE t = "nuclei"
   <2>1. VulnReport(t, out) = JSONLines(out) BY <1>1 DEF VulnReport
   <2>2. out = JSONText(NameFields, "x") BY <1>1, PrintsAre
   <2> QED BY <2>1, <2>2, JSONHeard
<1>2. CASE t = "nikto"
   <2> DEFINE es == EntriesOf(out, "object")
              sev == [k \in DOMAIN es |-> "info"]
   <2>1. out = Document("object", "x", {"plugin", "vulnerability"}) BY <1>2, PrintsAre
   <2>2. es = <<Finding("x", {"plugin", "vulnerability"})>> BY <2>1, DocumentIs
   <2>3. extractJSON(out).form = "object" BY <2>1, DocumentIs
   <2>4. VulnReport(t, out) = [k \in DOMAIN es |-> Result(es[k], sev[k])] BY <1>2, <2>3 DEF VulnReport, Rated
   <2> HIDE DEF es, sev
   <2> QED BY <2>2, <2>4, FoundHeard
<1>3. CASE t = "testssl.sh"
   <2> DEFINE x == Finding("x", {})
              es == EntriesOf(out, "array")
              f == [i \in DOMAIN es |-> IF es[i].sev \notin {"ok", "info"} THEN <<es[i]>> ELSE <<>>]
   <2>1. out = Document("array", "x", {}) BY <1>3, PrintsAre
   <2>2. es = <<x>> /\ out.doc.form = "array" BY <2>1, DocumentIs
   <2>3. VulnReport(t, out) = AsSaid(FlattenSeq(f)) BY <1>3, <2>2 DEF VulnReport, Sifted
   <2>4. x.sev \notin {"ok", "info"} BY DEF Finding
   <2> HIDE DEF es, x
   <2>5. DOMAIN es = 1..1 /\ es[1] = x BY <2>2
   <2>6. f = [i \in 1..1 |-> f[i]] /\ f[1] = <<x>> BY <2>4, <2>5
   <2> HIDE DEF f
   <2>7. FlattenSeq(f) = <<Finding("x", {})>> BY <2>6, FlattenOne DEF x
   <2> QED BY <2>3, <2>7, ItemsHeard
<1> QED BY <1>1, <1>2, <1>3

LEMMA WPScanHeard ==
    ASSUME NEW t, t = "wpscan", NEW out, out = Prints(t, "x")
    PROVE  Hears(WPScanReport(out))
<1>1. CASE TRUE
   <2> DEFINE es == EntriesOf(out, "object")
              sev == [k \in DOMAIN es |-> CASE "plugin" \in es[k].more -> "high"
                                         [] "theme" \in es[k].more -> "medium"
                                         [] OTHER -> "info"]
   <2>1. out = Document("object", "x", {"plugin", "vulnerability"}) BY <1>1, PrintsAre
   <2>2. es = <<Finding("x", {"plugin", "vulnerability"})>> BY <2>1, DocumentIs
   <2>3. extractJSON(out).form = "object" BY <2>1, DocumentIs
   <2>4. WPScanReport(out) = [k \in DOMAIN es |-> Result(es[k], sev[k])] BY <1>1, <2>3 DEF WPScanReport, Rated
   <2> HIDE DEF es, sev
   <2> QED BY <2>2, <2>4, FoundHeard
<1> QED BY <1>1

LEMMA DroopescanHeard ==
    ASSUME NEW t, t = "droopescan", NEW out, out = Prints(t, "x")
    PROVE  Hears(DroopescanReport(out))
<1>1. CASE TRUE
   <2> DEFINE es == EntriesOf(out, "object")
              sev == [k \in DOMAIN es |-> IF "vulnerability" \in es[k].more
                                         THEN IF es[k].sev = "" THEN "medium" ELSE es[k].sev
                                         ELSE "info"]
   <2>1. out = Document("object", "x", {"plugin", "vulnerability"}) BY <1>1, PrintsAre
   <2>2. es = <<Finding("x", {"plugin", "vulnerability"})>> BY <2>1, DocumentIs
   <2>3. extractJSON(out).form = "object" BY <2>1, DocumentIs
   <2>4. DroopescanReport(out) = [k \in DOMAIN es |-> Result(es[k], sev[k])] BY <1>1, <2>3 DEF DroopescanReport, Rated
   <2> HIDE DEF es, sev
   <2> QED BY <2>2, <2>4, FoundHeard
<1> QED BY <1>1

LEMMA WAFHeard ==
    ASSUME NEW t, t = "wafw00f", NEW out, out = Prints(t, "x")
    PROVE  Hears(WAFReport(out))
<1>1. CASE TRUE
   <2> DEFINE es == EntriesOf(out, "array")
              sev == [k \in DOMAIN es |-> IF es[k].says = "found" THEN "detected" ELSE ""]
   <2>1. out = Document("array", "x", {}) BY <1>1, PrintsAre
   <2>2. es = <<Finding("x", {})>> BY <2>1, DocumentIs
   <2>3. extractJSON(out).form = "array" BY <2>1, DocumentIs
   <2>4. WAFReport(out) = [k \in DOMAIN es |-> Result(es[k], sev[k])] BY <1>1, <2>3 DEF WAFReport, Rated
   <2> HIDE DEF es, sev
   <2> QED BY <2>2, <2>4, FoundHeard
<1> QED BY <1>1

-----------------------------------------------------------------------------
LEMMA SMBHeard ==
    ASSUME NEW t \in {"enum4linux-ng", "crackmapexec"}, NEW out, out = Prints(t, "x")
    PROVE  Hears(SMBReport(t, out))
<1> DEFINE P == parseLines(out)
<1>1. CASE t = "enum4linux-ng"
   <2>1. SMBReport(t, out) = Plain(EntriesOf(out, "object")) BY <1>1 DEF SMBReport
   <2>2. out = Document("object", "x", {"plugin", "vulnerability"}) BY <1>1, PrintsAre
   <2>3. EntriesOf(out, "object") = <<Finding("x", {"plugin", "vulnerability"})>> BY <2>2, DocumentIs
   <2> QED BY <2>1, <2>3, ItemsHeard
<1>2. CASE t = "crackmapexec"
   <2> DEFINE keep(i) == "SMB" \in P[i].words /\ Has(P[i], {"READ", "WRITE", "NO"})
              s(i) == ""
              p(i) == [k \in DOMAIN P[i].items |-> Result(P[i].items[k], s(i))]
              f == [i \in DOMAIN P |-> IF keep(i) THEN p(i) ELSE <<>>]
   <2>1. SMBReport(t, out) = FlattenSeq(f) BY <1>2 DEF SMBReport, Lines, Rated
   <2>2. out = Text("text", Markers, "x") BY <1>2, PrintsAre
   <2>3. PICK l : l = TheLine(FALSE, "text", Markers) OBVIOUS
   <2>4. P = <<l>>
      <3>1. out.lines = <<TheLine(FALSE, "text", Markers)>> BY <2>2, TextIs
      <3>2. Seen("text") BY SeenIs
      <3> QED BY <2>3, <3>1, <3>2, LineSeen
   <2>5. DOMAIN P = 1..1 /\ P[1] = l BY <2>4
   <2>6. keep(1)
      <3> HIDE DEF P
      <3>1. l.json = FALSE /\ l.starts = "text" /\ l.words = Markers
         BY <2>3 DEF TheLine
      <3>2. P[1].json = l.json /\ P[1].starts = l.starts /\ P[1].words = l.words BY <2>5
      <3> QED BY <1>2, <3>1, <3>2 DEF Has, Bracketed, Markers, NameFields
   <2> HIDE DEF P, keep, s
   <2>7. f = [i \in DOMAIN P |-> f[i]] OBVIOUS
   <2>8. f[1] = [k \in DOMAIN P[1].items |-> Result(P[1].items[k], s(1))] BY <2>5, <2>6
   <2>9. l.items = <<Finding("x", {})>> BY <2>3 DEF TheLine
   <2> HIDE DEF f
   <2>10. Hears(FlattenSeq(f)) BY <2>4, <2>7, <2>8, <2>9, KeptHeard
   <2> QED BY <2>1, <2>10
<1> QED BY <1>1, <1>2

LEMMA OriginHeard ==
    ASSUME NEW t \in Members("origin_ip"), NEW out, out = Prints(t, "x")
    PROVE  Hears(OriginReport(t, out))
<1> DEFINE P == parseLines(out)
<1>1. CASE t \in {"cloudflair", "hakoriginfinder", "cloakquest3r"}
   <2> DEFINE keep(i) == /\ CASE t = "cloudflair" -> Has(P[i], {"Found origin", "origin IP"})
                              [] t = "hakoriginfinder" -> TRUE
                              [] t = "cloakquest3r" -> Has(P[i], {"Origin", "IP:"})
                         /\ "address" \in P[i].words
              s(i) == ""
              p(i) == [k \in DOMAIN P[i].items |-> Result(P[i].items[k], s(i))]
              f == [i \in DOMAIN P |-> IF keep(i) THEN p(i) ELSE <<>>]
   <2>1. OriginReport(t, out) = FlattenSeq(f) BY <1>1 DEF OriginReport, Lines, Rated
   <2>2. out = Text("text", Markers, "x") BY <1>1, PrintsAre
   <2>3. PICK l : l = TheLine(FALSE, "text", Markers) OBVIOUS
   <2>4. P = <<l>>
      <3>1. out.lines = <<TheLine(FALSE, "text", Markers)>> BY <2>2, TextIs
      <3>2. Seen("text") BY SeenIs
      <3> QED BY <2>3, <3>1, <3>2, LineSeen
   <2>5. DOMAIN P = 1..1 /\ P[1] = l BY <2>4
   <2>6. keep(1)
      <3> HIDE DEF P
      <3>1. l.json = FALSE /\ l.starts = "text" /\ l.words = Markers
         BY <2>3 DEF TheLine
      <3>2. P[1].json = l.json /\ P[1].starts = l.starts /\ P[1].words = l.words BY <2>5
      <3> QED BY <1>1, <3>1, <3>2 DEF Has, Bracketed, Markers, NameFields
   <2> HIDE DEF P, keep, s
   <2>7. f = [i \in DOMAIN P |-> f[i]] OBVIOUS
   <2>8. f[1] = [k \in DOMAIN P[1].items |-> Result(P[1].items[k], s(1))] BY <2>5, <2>6
   <2>9. l.items = <<Finding("x", {})>> BY <2>3 DEF TheLine
   <2> HIDE DEF f
   <2>10. Hears(FlattenSeq(f)) BY <2>4, <2>7, <2>8, <2>9, KeptHeard
   <2> QED BY <2>1, <2>10
<1> QED BY <1>1, MembersAre

LEMMA InjectionHeard ==
    ASSUME NEW t \in {"sqlmap", "dalfox"}, NEW out, out = Prints(t, "x")
    PROVE  Hears(InjectionReport(t, out))
<1> DEFINE P == parseLines(out)
<1>1. CASE t = "sqlmap"
   <2> DEFINE js == JSONLines(out)
              parsed == [i \in DOMAIN js |-> [js[i] EXCEPT !.sev = "critical"]]
   <2>1. js = AsSaid(<<Finding("x", {})>>)
      <3>1. out = JSONText(NameFields, "x") BY <1>1, PrintsAre
      <3> QED BY <3>1, JSONHeard
   <2>2. DOMAIN js = 1..1 /\ js[1] = Result(Finding("x", {}), "high")
      <3>1. PICK x : x = Finding("x", {}) OBVIOUS
      <3>2. x.sev = "high" BY <3>1 DEF Finding
      <3>3. js = [k \in DOMAIN <<x>> |-> Result(<<x>>[k], <<x>>[k].sev)] BY <2>1, <3>1 DEF AsSaid, Rated
      <3> HIDE DEF js
      <3>4. DOMAIN js = 1..1 /\ js[1] = Result(x, x.sev) BY <3>3
      <3> QED BY <3>1, <3>2, <3>4
   <2>3. 1 \in DOMAIN js BY <2>2
   <2>4. InjectionReport(t, out) = parsed
      <3>1. parsed # <<>> BY <2>3
      <3> QED BY <1>1, <3>1 DEF InjectionReport
   <2> HIDE DEF js
   <2>5. 1 \in DOMAIN parsed /\ parsed[1] = [Result(Finding("x", {}), "high") EXCEPT !.sev = "critical"]
      BY <2>2, <2>3
   <2>6. parsed[1].item = "x" BY <2>5 DEF Result, Finding
   <2> HIDE DEF parsed
   <2> QED BY <2>4, <2>5, <2>6 DEF Hears
<1>2. CASE t = "dalfox"
   <2> DEFINE keep(i) == P[i].json
              s(i) == IF "reflected" \in P[i].words THEN "medium" ELSE "high"
              p(i) == [k \in DOMAIN P[i].items |-> Result(P[i].items[k], s(i))]
              f == [i \in DOMAIN P |-> IF keep(i) THEN p(i) ELSE <<>>]
   <2>1. InjectionReport(t, out) = FlattenSeq(f) BY <1>2 DEF InjectionReport, Lines, Rated
   <2>2. out = JSONText(NameFields, "x") BY <1>2, PrintsAre
   <2>3. PICK l : l = TheLine(TRUE, "{", NameFields) OBVIOUS
   <2>4. P = <<l>>
      <3>1. out.lines = <<TheLine(TRUE, "{", NameFields)>> BY <2>2, TextIs
      <3>2. Seen("{") BY SeenIs
      <3> QED BY <2>3, <3>1, <3>2, LineSeen
   <2>5. DOMAIN P = 1..1 /\ P[1] = l BY <2>4
   <2>6. keep(1)
      <3> HIDE DEF P
      <3>1. l.json = TRUE /\ l.starts = "{" /\ l.words = NameFields
         BY <2>3 DEF TheLine
      <3>2. P[1].json = l.json /\ P[1].starts = l.starts /\ P[1].words = l.words BY <2>5
      <3> QED BY <1>2, <3>1, <3>2 DEF Has, Bracketed, Markers, NameFields
   <2> HIDE DEF P, keep, s
   <2>7. f = [i \in DOMAIN P |-> f[i]] OBVIOUS
   <2>8. f[1] = [k \in DOMAIN P[1].items |-> Result(P[1].items[k], s(1))] BY <2>5, <2>6
   <2>9. l.items = <<Finding("x", {})>> BY <2>3 DEF TheLine
   <2> HIDE DEF f
   <2>10. Hears(FlattenSeq(f)) BY <2>4, <2>7, <2>8, <2>9, KeptHeard
   <2> QED BY <2>1, <2>10
<1> QED BY <1>1, <1>2

LEMMA InjectionTextHeard ==
    ASSUME NEW t \in {"xsstrike", "commix", "tplmap", "crlfuzz"}, NEW out, out = Prints(t, "x")
    PROVE  Hears(InjectionTextReport(t, out))
<1> DEFINE P == parseLines(out)
<1>1. CASE t = "xsstrike"
   <2> DEFINE keep(i) == "xss" \in P[i].words /\ Has(P[i], {"payload", "vulnerable"})
              s(i) == "high"
              p(i) == [k \in DOMAIN P[i].items |-> Result(P[i].items[k], s(i))]
              f == [i \in DOMAIN P |-> IF keep(i) THEN p(i) ELSE <<>>]
   <2>1. InjectionTextReport(t, out) = FlattenSeq(f) BY <1>1 DEF InjectionTextReport, Lines, Rated
   <2>2. out = Text("text", Markers, "x") BY <1>1, PrintsAre
   <2>3. PICK l : l = TheLine(FALSE, "text", Markers) OBVIOUS
   <2>4. P = <<l>>
      <3>1. out.lines = <<TheLine(FALSE, "text", Markers)>> BY <2>2, TextIs
      <3>2. Seen("text") BY SeenIs
      <3> QED BY <2>3, <3>1, <3>2, LineSeen
   <2>5. DOMAIN P = 1..1 /\ P[1] = l BY <2>4
   <2>6. keep(1)
      <3> HIDE DEF P
      <3>1. l.json = FALSE /\ l.starts = "text" /\ l.words = Markers
         BY <2>3 DEF TheLine
      <3>2. P[1].json = l.json /\ P[1].starts = l.starts /\ P[1].words = l.words BY <2>5
      <3> QED BY <1>1, <3>1, <3>2 DEF Has, Bracketed, Markers, NameFields
   <2> HIDE DEF P, keep, s
   <2>7. f = [i \in DOMAIN P |-> f[i]] OBVIOUS
   <2>8. f[1] = [k \in DOMAIN P[1].items |-> Result(P[1].items[k], s(1))] BY <2>5, <2>6
   <2>9. l.items = <<Finding("x", {})>> BY <2>3 DEF TheLine
   <2> HIDE DEF f
   <2>10. Hears(FlattenSeq(f)) BY <2>4, <2>7, <2>8, <2>9, KeptHeard
   <2> QED BY <2>1, <2>10
<1>2. CASE t = "commix"
   <2> DEFINE keep(i) == Has(P[i], {"vulnerable", "command injection"})
              s(i) == "critical"
              p(i) == [k \in DOMAIN P[i].items |-> Result(P[i].items[k], s(i))]
              f == [i \in DOMAIN P |-> IF keep(i) THEN p(i) ELSE <<>>]
   <2>1. InjectionTextReport(t, out) = FlattenSeq(f) BY <1>2 DEF InjectionTextReport, Lines, Rated
   <2>2. out = Text("text", Markers, "x") BY <1>2, PrintsAre
   <2>3. PICK l : l = TheLine(FALSE, "text", Markers) OBVIOUS
   <2>4. P = <<l>>
      <3>1. out.lines = <<TheLine(FALSE, "text", Markers)>> BY <2>2, TextIs
      <3>2. Seen("text") BY SeenIs
      <3> QED BY <2>3, <3>1, <3>2, LineSeen
   <2>5. DOMAIN P = 1..1 /\ P[1] = l BY <2>4
   <2>6. keep(1)
      <3> HIDE DEF P
      <3>1. l.json = FALSE /\ l.starts = "text" /\ l.words = Markers
         BY <2>3 DEF TheLine
      <3>2. P[1].json = l.json /\ P[1].starts = l.starts /\ P[1].words = l.words BY <2>5
      <3> QED BY <1>2, <3>1, <3>2 DEF Has, Bracketed, Markers, NameFields
   <2> HIDE DEF P, keep, s
   <2>7. f = [i \in DOMAIN P |-> f[i]] OBVIOUS
   <2>8. f[1] = [k \in DOMAIN P[1].items |-> Result(P[1].items[k], s(1))] BY <2>5, <2>6
   <2>9. l.items = <<Finding("x", {})>> BY <2>3 DEF TheLine
   <2> HIDE DEF f
   <2>10. Hears(FlattenSeq(f)) BY <2>4, <2>7, <2>8, <2>9, KeptHeard
   <2> QED BY <2>1, <2>10
<1>3. CASE t = "tplmap"
   <2> DEFINE keep(i) == Has(P[i], {"vulnerable", "template injection"})
              s(i) == "critical"
              p(i) == [k \in DOMAIN P[i].items |-> Result(P[i].items[k], s(i))]
              f == [i \in DOMAIN P |-> IF keep(i) THEN p(i) ELSE <<>>]
   <2>1. InjectionTextReport(t, out) = FlattenSeq(f) BY <1>3 DEF InjectionTextReport, Lines, Rated
   <2>2. out = Text("text", Markers, "x") BY <1>3, PrintsAre
   <2>3. PICK l : l = TheLine(FALSE, "text", Markers) OBVIOUS
   <2>4. P = <<l>>
      <3>1. out.lines = <<TheLine(FALSE, "text", Markers)>> BY <2>2, TextIs
      <3>2. Seen("text") BY SeenIs
      <3> QED BY <2>3, <3>1, <3>2, LineSeen
   <2>5. DOMAIN P = 1..1 /\ P[1] = l BY <2>4
   <2>6. keep(1)
      <3> HIDE DEF P
      <3>1. l.json = FALSE /\ l.starts = "text" /\ l.words = Markers
         BY <2>3 DEF TheLine
      <3>2. P[1].json = l.json /\ P[1].starts = l.starts /\ P[1].words = l.words BY <2>5
      <3> QED BY <1>3, <3>1, <3>2 DEF Has, Bracketed, Markers, NameFields
   <2> HIDE DEF P, keep, s
   <2>7. f = [i \in DOMAIN P |-> f[i]] OBVIOUS
   <2>8. f[1] = [k \in DOMAIN P[1].items |-> Result(P[1].items[k], s(1))] BY <2>5, <2>6
   <2>9. l.items = <<Finding("x", {})>> BY <2>3 DEF TheLine
   <2> HIDE DEF f
   <2>10. Hears(FlattenSeq(f)) BY <2>4, <2>7, <2>8, <2>9, KeptHeard
   <2> QED BY <2>1, <2>10
<1>4. CASE t = "crlfuzz"
   <2> DEFINE keep(i) == Has(P[i], {"vulnerable", "[V]"})
              s(i) == "medium"
              p(i) == [k \in DOMAIN P[i].items |-> Result(P[i].items[k], s(i))]
              f == [i \in DOMAIN P |-> IF keep(i) THEN p(i) ELSE <<>>]
   <2>1. InjectionTextReport(t, out) = FlattenSeq(f) BY <1>4 DEF InjectionTextReport, Lines, Rated
   <2>2. out = Text("text", Markers, "x") BY <1>4, PrintsAre
   <2>3. PICK l : l = TheLine(FALSE, "text", Markers) OBVIOUS
   <2>4. P = <<l>>
      <3>1. out.lines = <<TheLine(FALSE, "text", Markers)>> BY <2>2, TextIs
      <3>2. Seen("text") BY SeenIs
      <3> QED BY <2>3, <3>1, <3>2, LineSeen
   <2>5. DOMAIN P = 1..1 /\ P[1] = l BY <2>4
   <2>6. keep(1)
      <3> HIDE DEF P
      <3>1. l.json = FALSE /\ l.starts = "text" /\ l.words = Markers
         BY <2>3 DEF TheLine
      <3>2. P[1].json = l.json /\ P[1].starts = l.starts /\ P[1].words = l.words BY <2>5
      <3> QED BY <1>4, <3>1, <3>2 DEF Has, Bracketed, Markers, NameFields
   <2> HIDE DEF P, keep, s
   <2>7. f = [i \in DOMAIN P |-> f[i]] OBVIOUS
   <2>8. f[1] = [k \in DOMAIN P[1].items |-> Result(P[1].items[k], s(1))] BY <2>5, <2>6
   <2>9. l.items = <<Finding("x", {})>> BY <2>3 DEF TheLine
   <2> HIDE DEF f
   <2>10. Hears(FlattenSeq(f)) BY <2>4, <2>7, <2>8, <2>9, KeptHeard
   <2> QED BY <2>1, <2>10
<1> QED BY <1>1, <1>2, <1>3, <1>4

LEMMA SmugglingHeard ==
    ASSUME NEW t \in {"smuggler", "h2csmuggler", "ssrfmap", "gopherus"}, NEW out, out = Prints(t, "x")
    PROVE  Hears(SmugglingReport(t, out))
<1> DEFINE P == parseLines(out)
<1>1. CASE t = "smuggler"
   <2> DEFINE keep(i) == Has(P[i], {"vulnerable", "issue found"})
              s(i) == "high"
              p(i) == [k \in DOMAIN P[i].items |-> Result(P[i].items[k], s(i))]
              f == [i \in DOMAIN P |-> IF keep(i) THEN p(i) ELSE <<>>]
   <2>1. SmugglingReport(t, out) = FlattenSeq(f) BY <1>1 DEF SmugglingReport, Lines, Rated
   <2>2. out = Text("text", Markers, "x") BY <1>1, PrintsAre
   <2>3. PICK l : l = TheLine(FALSE, "text", Markers) OBVIOUS
   <2>4. P = <<l>>
      <3>1. out.lines = <<TheLine(FALSE, "text", Markers)>> BY <2>2, TextIs
      <3>2. Seen("text") BY SeenIs
      <3> QED BY <2>3, <3>1, <3>2, LineSeen
   <2>5. DOMAIN P = 1..1 /\ P[1] = l BY <2>4
   <2>6. keep(1)
      <3> HIDE DEF P
      <3>1. l.json = FALSE /\ l.starts = "text" /\ l.words = Markers
         BY <2>3 DEF TheLine
      <3>2. P[1].json = l.json /\ P[1].starts = l.starts /\ P[1].words = l.words BY <2>5
      <3> QED BY <1>1, <3>1, <3>2 DEF Has, Bracketed, Markers, NameFields
   <2> HIDE DEF P, keep, s
   <2>7. f = [i \in DOMAIN P |-> f[i]] OBVIOUS
   <2>8. f[1] = [k \in DOMAIN P[1].items |-> Result(P[1].items[k], s(1))] BY <2>5, <2>6
   <2>9. l.items = <<Finding("x", {})>> BY <2>3 DEF TheLine
   <2> HIDE DEF f
   <2>10. Hears(FlattenSeq(f)) BY <2>4, <2>7, <2>8, <2>9, KeptHeard
   <2> QED BY <2>1, <2>10
<1>2. CASE t = "h2csmuggler"
   <2> DEFINE keep(i) == Has(P[i], {"vulnerable", "h2c success"})
              s(i) == "high"
              p(i) == [k \in DOMAIN P[i].items |-> Result(P[i].items[k], s(i))]
              f == [i \in DOMAIN P |-> IF keep(i) THEN p(i) ELSE <<>>]
   <2>1. SmugglingReport(t, out) = FlattenSeq(f) BY <1>2 DEF SmugglingReport, Lines, Rated
   <2>2. out = Text("text", Markers, "x") BY <1>2, PrintsAre
   <2>3. PICK l : l = TheLine(FALSE, "text", Markers) OBVIOUS
   <2>4. P = <<l>>
      <3>1. out.lines = <<TheLine(FALSE, "text", Markers)>> BY <2>2, TextIs
      <3>2. Seen("text") BY SeenIs
      <3> QED BY <2>3, <3>1, <3>2, LineSeen
   <2>5. DOMAIN P = 1..1 /\ P[1] = l BY <2>4
   <2>6. keep(1)
      <3> HIDE DEF P
      <3>1. l.json = FALSE /\ l.starts = "text" /\ l.words = Markers
         BY <2>3 DEF TheLine
      <3>2. P[1].json = l.json /\ P[1].starts = l.starts /\ P[1].words = l.words BY <2>5
      <3> QED BY <1>2, <3>1, <3>2 DEF Has, Bracketed, Markers, NameFields
   <2> HIDE DEF P, keep, s
   <2>7. f = [i \in DOMAIN P |-> f[i]] OBVIOUS
   <2>8. f[1] = [k \in DOMAIN P[1].items |-> Result(P[1].items[k], s(1))] BY <2>5, <2>6
   <2>9. l.items = <<Finding("x", {})>> BY <2>3 DEF TheLine
   <2> HIDE DEF f
   <2>10. Hears(FlattenSeq(f)) BY <2>4, <2>7, <2>8, <2>9, KeptHeard
   <2> QED BY <2>1, <2>10
<1>3. CASE t = "ssrfmap"
   <2> DEFINE keep(i) == Has(P[i], {"vulnerable", "[+] ssrf"})
              s(i) == "critical"
              p(i) == [k \in DOMAIN P[i].items |-> Result(P[i].items[k], s(i))]
              f == [i \in DOMAIN P |-> IF keep(i) THEN p(i) ELSE <<>>]
   <2>1. SmugglingReport(t, out) = FlattenSeq(f) BY <1>3 DEF SmugglingReport, Lines, Rated
   <2>2. out = Text("text", Markers, "x") BY <1>3, PrintsAre
   <2>3. PICK l : l = TheLine(FALSE, "text", Markers) OBVIOUS
   <2>4. P = <<l>>
      <3>1. out.lines = <<TheLine(FALSE, "text", Markers)>> BY <2>2, TextIs
      <3>2. Seen("text") BY SeenIs
      <3> QED BY <2>3, <3>1, <3>2, LineSeen
   <2>5. DOMAIN P = 1..1 /\ P[1] = l BY <2>4
   <2>6. keep(1)
      <3> HIDE DEF P
      <3>1. l.json = FALSE /\ l.starts = "text" /\ l.words = Markers
         BY <2>3 DEF TheLine
      <3>2. P[1].json = l.json /\ P[1].starts = l.starts /\ P[1].words = l.words BY <2>5
      <3> QED BY <1>3, <3>1, <3>2 DEF Has, Bracketed, Markers, NameFields
   <2> HIDE DEF P, keep, s
   <2>7. f = [i \in DOMAIN P |-> f[i]] OBVIOUS
   <2>8. f[1] = [k \in DOMAIN P[1].items |-> Result(P[1].items[k], s(1))] BY <2>5, <2>6
   <2>9. l.items = <<Finding("x", {})>> BY <2>3 DEF TheLine
   <2> HIDE DEF f
   <2>10. Hears(FlattenSeq(f)) BY <2>4, <2>7, <2>8, <2>9, KeptHeard
   <2> QED BY <2>1, <2>10
<1>4. CASE t = "gopherus"
   <2> DEFINE keep(i) == P[i].starts = "gopher://" \/ "Payload" \in P[i].words
              s(i) == "high"
              p(i) == [k \in DOMAIN P[i].items |-> Result(P[i].items[k], s(i))]
              f == [i \in DOMAIN P |-> IF keep(i) THEN p(i) ELSE <<>>]
   <2>1. SmugglingReport(t, out) = FlattenSeq(f) BY <1>4 DEF SmugglingReport, Lines, Rated
   <2>2. out = Text("text", Markers, "x") BY <1>4, PrintsAre
   <2>3. PICK l : l = TheLine(FALSE, "text", Markers) OBVIOUS
   <2>4. P = <<l>>
      <3>1. out.lines = <<TheLine(FALSE, "text", Markers)>> BY <2>2, TextIs
      <3>2. Seen("text") BY SeenIs
      <3> QED BY <2>3, <3>1, <3>2, LineSeen
   <2>5. DOMAIN P = 1..1 /\ P[1] = l BY <2>4
   <2>6. keep(1)
      <3> HIDE DEF P
      <3>1. l.json = FALSE /\ l.starts = "text" /\ l.words = Markers
         BY <2>3 DEF TheLine
      <3>2. P[1].json = l.json /\ P[1].starts = l.starts /\ P[1].words = l.words BY <2>5
      <3> QED BY <1>4, <3>1, <3>2 DEF Has, Bracketed, Markers, NameFields
   <2> HIDE DEF P, keep, s
   <2>7. f = [i \in DOMAIN P |-> f[i]] OBVIOUS
   <2>8. f[1] = [k \in DOMAIN P[1].items |-> Result(P[1].items[k], s(1))] BY <2>5, <2>6
   <2>9. l.items = <<Finding("x", {})>> BY <2>3 DEF TheLine
   <2> HIDE DEF f
   <2>10. Hears(FlattenSeq(f)) BY <2>4, <2>7, <2>8, <2>9, KeptHeard
   <2> QED BY <2>1, <2>10
<1> QED BY <1>1, <1>2, <1>3, <1>4

LEMMA SecretHeard ==
    ASSUME NEW t \in Members("secrets"), NEW out, out = Prints(t, "x")
    PROVE  Hears(SecretReport(t, out))
<1>1. CASE t = "gitleaks"
   <2> DEFINE es == EntriesOf(out, "array")
              sev == [k \in DOMAIN es |-> IF es[k].more \cap {"verified", "entropy"} # {} THEN "critical" ELSE "high"]
   <2>1. out = Document("array", "x", {}) BY <1>1, PrintsAre
   <2>2. es = <<Finding("x", {})>> BY <2>1, DocumentIs
   <2>3. extractJSON(out).form = "array" BY <2>1, DocumentIs
   <2>4. SecretReport(t, out) = [k \in DOMAIN es |-> Result(es[k], sev[k])] BY <1>1, <2>3 DEF SecretReport, Rated
   <2> HIDE DEF es, sev
   <2> QED BY <2>2, <2>4, FoundHeard
<1> DEFINE P == parseLines(out)
<1>2. CASE t = "trufflehog"
   <2> DEFINE rate(x) == IF x.more \cap {"verified", "entropy"} # {} THEN "critical" ELSE "high"
              p(i) == [k \in DOMAIN P[i].items |-> Result(P[i].items[k], rate(P[i].items[k]))]
              f == [i \in DOMAIN P |-> IF P[i].json THEN p(i) ELSE <<>>]
   <2>1. SecretReport(t, out) = FlattenSeq(f) BY <1>2 DEF SecretReport, Rated
   <2>2. out = JSONText(NameFields, "x") BY <1>2, PrintsAre
   <2>3. PICK l : l = TheLine(TRUE, "{", NameFields) OBVIOUS
   <2>4. P = <<l>>
      <3>1. out.lines = <<TheLine(TRUE, "{", NameFields)>> BY <2>2, TextIs
      <3>2. Seen("{") BY SeenIs
      <3> QED BY <2>3, <3>1, <3>2, LineSeen
   <2> HIDE DEF P, rate
   <2>5. DOMAIN P = 1..1 /\ P[1] = l BY <2>4
   <2>6. l.json /\ l.items = <<Finding("x", {})>> BY <2>3 DEF TheLine
   <2> DEFINE items == l.items
              sev == [k \in DOMAIN items |-> rate(items[k])]
   <2>7. f = [i \in 1..1 |-> f[i]] BY <2>5
   <2>8. f[1] = [k \in DOMAIN items |-> Result(items[k], sev[k])]
      <3>1. f[1] = p(1) BY <2>5, <2>6
      <3> QED BY <2>5, <3>1
   <2> HIDE DEF f, items, sev
   <2>9. items = <<Finding("x", {})>> BY <2>6 DEF items
   <2>10. Hears(f[1]) BY <2>8, <2>9, FoundHeard
   <2>11. FlattenSeq(f) = f[1] BY <2>7, FlattenOne
   <2> QED BY <2>1, <2>10, <2>11
<1> QED BY <1>1, <1>2, MembersAre

LEMMA FingerprintHeard ==
    ASSUME NEW t \in Members("fingerprint"), NEW out, out = Prints(t, "x")
    PROVE  Hears(FingerprintReport(t, out))
<1>1. CASE t = "whatweb"
   <2>1. FingerprintReport(t, out) = JSONLines(out) BY <1>1 DEF FingerprintReport
   <2>2. out = JSONText(NameFields, "x") BY <1>1, PrintsAre
   <2> QED BY <2>1, <2>2, JSONHeard
<1>2. CASE t = "wappalyzer"
   <2> DEFINE es == EntriesOf(out, "object")
              rest == EntriesOf(out, "array")
   <2>1. out = Document("object", "x", {"plugin", "vulnerability"}) BY <1>2, PrintsAre
   <2>2. es = <<Finding("x", {"plugin", "vulnerability"})>> BY <2>1, DocumentIs
   <2>3. rest = <<>> BY <2>1, DocumentIs DEF EntriesOf
   <2>4. FingerprintReport(t, out) = Plain(es \o rest) BY <1>2 DEF FingerprintReport
   <2> HIDE DEF es, rest
   <2>5. es \o rest = es
      <3>1. es \in Seq({Finding("x", {"plugin", "vulnerability"})}) BY <2>2
      <3> QED BY <2>3, <3>1, ConcatEmptySeq
   <2> QED BY <2>2, <2>4, <2>5, ItemsHeard
<1> QED BY <1>1, <1>2, MembersAre

LEMMA JSHeard ==
    ASSUME NEW t \in Members("js_analysis"), NEW out, out = Prints(t, "x")
    PROVE  Hears(JSReport(t, out))
<1> DEFINE P == parseLines(out)
<1>1. CASE t = "linkfinder"
   <2> DEFINE keep(i) == /\ ~(P[i].starts = "[" /\ "Analyzing" \in P[i].words)
                         /\ P[i].starts \in {"/", "http"} \/ "api" \in P[i].words
              s(i) == ""
              p(i) == [k \in DOMAIN P[i].items |-> Result(P[i].items[k], s(i))]
              f == [i \in DOMAIN P |-> IF keep(i) THEN p(i) ELSE <<>>]
   <2>1. JSReport(t, out) = FlattenSeq(f) BY <1>1 DEF JSReport, Lines, Rated
   <2>2. out = Text("http", {}, "x") BY <1>1, PrintsAre
   <2>3. PICK l : l = TheLine(FALSE, "http", {}) OBVIOUS
   <2>4. P = <<l>>
      <3>1. out.lines = <<TheLine(FALSE, "http", {})>> BY <2>2, TextIs
      <3>2. Seen("http") BY SeenIs
      <3> QED BY <2>3, <3>1, <3>2, LineSeen
   <2>5. DOMAIN P = 1..1 /\ P[1] = l BY <2>4
   <2>6. keep(1)
      <3> HIDE DEF P
      <3>1. l.json = FALSE /\ l.starts = "http" /\ l.words = {}
         BY <2>3 DEF TheLine
      <3>2. P[1].json = l.json /\ P[1].starts = l.starts /\ P[1].words = l.words BY <2>5
      <3> QED BY <1>1, <3>1, <3>2 DEF Has, Bracketed, Markers, NameFields
   <2> HIDE DEF P, keep, s
   <2>7. f = [i \in DOMAIN P |-> f[i]] OBVIOUS
   <2>8. f[1] = [k \in DOMAIN P[1].items |-> Result(P[1].items[k], s(1))] BY <2>5, <2>6
   <2>9. l.items = <<Finding("x", {})>> BY <2>3 DEF TheLine
   <2> HIDE DEF f
   <2>10. Hears(FlattenSeq(f)) BY <2>4, <2>7, <2>8, <2>9, KeptHeard
   <2> QED BY <2>1, <2>10
<1>2. CASE t = "secretfinder"
   <2> DEFINE keep(i) == P[i].starts = "["
              s(i) == IF Has(P[i], {"api_key", "secret", "token"}) THEN "critical" ELSE "high"
              p(i) == [k \in DOMAIN P[i].items |-> Result(P[i].items[k], s(i))]
              f == [i \in DOMAIN P |-> IF keep(i) THEN p(i) ELSE <<>>]
   <2>1. JSReport(t, out) = FlattenSeq(f) BY <1>2 DEF JSReport, Lines, Rated
   <2>2. out = Text("[", {"api_key"}, "x") BY <1>2, PrintsAre
   <2>3. PICK l : l = TheLine(FALSE, "[", {"api_key"}) OBVIOUS
   <2>4. P = <<l>>
      <3>1. out.lines = <<TheLine(FALSE, "[", {"api_key"})>> BY <2>2, TextIs
      <3>2. Seen("[") BY SeenIs
      <3> QED BY <2>3, <3>1, <3>2, LineSeen
   <2>5. DOMAIN P = 1..1 /\ P[1] = l BY <2>4
   <2>6. keep(1)
      <3> HIDE DEF P
      <3>1. l.json = FALSE /\ l.starts = "[" /\ l.words = {"api_key"}
         BY <2>3 DEF TheLine
      <3>2. P[1].json = l.json /\ P[1].starts = l.starts /\ P[1].words = l.words BY <2>5
      <3> QED BY <1>2, <3>1, <3>2 DEF Has, Bracketed, Markers, NameFields
   <2> HIDE DEF P, keep, s
   <2>7. f = [i \in DOMAIN P |-> f[i]] OBVIOUS
   <2>8. f[1] = [k \in DOMAIN P[1].items |-> Result(P[1].items[k], s(1))] BY <2>5, <2>6
   <2>9. l.items = <<Finding("x", {})>> BY <2>3 DEF TheLine
   <2> HIDE DEF f
   <2>10. Hears(FlattenSeq(f)) BY <2>4, <2>7, <2>8, <2>9, KeptHeard
   <2> QED BY <2>1, <2>10
<1>3. CASE t = "retire"
   <2>1. JSReport(t, out) = AsSaid(EntriesOf(out, "array")) BY <1>3 DEF JSReport
   <2>2. out = Document("array", "x", {}) BY <1>3, PrintsAre
   <2>3. EntriesOf(out, "array") = <<Finding("x", {})>> BY <2>2, DocumentIs
   <2> QED BY <2>1, <2>3, ItemsHeard
<1>4. CASE t = "snyk"
   <2>1. JSReport(t, out) = AsSaid(EntriesOf(out, "object")) BY <1>4 DEF JSReport
   <2>2. out = Document("object", "x", {"plugin", "vulnerability"}) BY <1>4, PrintsAre
   <2>3. EntriesOf(out, "object") = <<Finding("x", {"plugin", "vulnerability"})>> BY <2>2, DocumentIs
   <2> QED BY <2>1, <2>3, ItemsHeard
<1> QED BY <1>1, <1>2, <1>3, <1>4, MembersAre

LEMMA AuthHeard ==
    ASSUME NEW t, t = "jwt_tool", NEW out, out = Prints(t, "x")
    PROVE  Hears(AuthReport(t, out))
<1> DEFINE P == parseLines(out)
<1>1. CASE t = "jwt_tool"
   <2> DEFINE keep(i) == Has(P[i], {"[+]", "vulnerability", "exploit"})
              s(i) == IF Has(P[i], {"none", "weak", "brute", "crack"}) THEN "critical" ELSE "high"
              p(i) == [k \in DOMAIN P[i].items |-> Result(P[i].items[k], s(i))]
              f == [i \in DOMAIN P |-> IF keep(i) THEN p(i) ELSE <<>>]
   <2>1. AuthReport(t, out) = FlattenSeq(f) BY <1>1 DEF AuthReport, Lines, Rated
   <2>2. out = Text("text", Markers, "x") BY <1>1, PrintsAre
   <2>3. PICK l : l = TheLine(FALSE, "text", Markers) OBVIOUS
   <2>4. P = <<l>>
      <3>1. out.lines = <<TheLine(FALSE, "text", Markers)>> BY <2>2, TextIs
      <3>2. Seen("text") BY SeenIs
      <3> QED BY <2>3, <3>1, <3>2, LineSeen
   <2>5. DOMAIN P = 1..1 /\ P[1] = l BY <2>4
   <2>6. keep(1)
      <3> HIDE DEF P
      <3>1. l.json = FALSE /\ l.starts = "text" /\ l.words = Markers
         BY <2>3 DEF TheLine
      <3>2. P[1].json = l.json /\ P[1].starts = l.starts /\ P[1].words = l.words BY <2>5
      <3> QED BY <1>1, <3>1, <3>2 DEF Has, Bracketed, Markers, NameFields
   <2> HIDE DEF P, keep, s
   <2>7. f = [i \in DOMAIN P |-> f[i]] OBVIOUS
   <2>8. f[1] = [k \in DOMAIN P[1].items |-> Result(P[1].items[k], s(1))] BY <2>5, <2>6
   <2>9. l.items = <<Finding("x", {})>> BY <2>3 DEF TheLine
   <2> HIDE DEF f
   <2>10. Hears(FlattenSeq(f)) BY <2>4, <2>7, <2>8, <2>9, KeptHeard
   <2> QED BY <2>1, <2>10
<1> QED BY <1>1

LEMMA ParamHeard ==
    ASSUME NEW t \in Members("params"), NEW out, out = Prints(t, "x")
    PROVE  Hears(ParamReport(t, out))
<1> DEFINE P == parseLines(out)
<1>1. CASE t = "arjun"
   <2>1. out = Document("object", "x", {"plugin", "vulnerability"}) BY <1>1, PrintsAre
   <2>2. EntriesOf(out, "object") = <<Finding("x", {"plugin", "vulnerability"})>> BY <2>1, DocumentIs
   <2>3. EntriesOf(out, "object") # <<>> BY <2>2
   <2>4. ParamReport(t, out) = Plain(EntriesOf(out, "object")) BY <1>1, <2>3 DEF ParamReport
   <2> QED BY <2>2, <2>4, ItemsHeard
<1>2. CASE t = "paramspider"
   <2> DEFINE keep(i) == P[i].starts = "http"
              s(i) == ""
              p(i) == [k \in DOMAIN P[i].items |-> Result(P[i].items[k], s(i))]
              f == [i \in DOMAIN P |-> IF keep(i) THEN p(i) ELSE <<>>]
   <2>1. ParamReport(t, out) = FlattenSeq(f) BY <1>2 DEF ParamReport, Lines, Rated
   <2>2. out = Text("http", {}, "x") BY <1>2, PrintsAre
   <2>3. PICK l : l = TheLine(FALSE, "http", {}) OBVIOUS
   <2>4. P = <<l>>
      <3>1. out.lines = <<TheLine(FALSE, "http", {})>> BY <2>2, TextIs
      <3>2. Seen("http") BY SeenIs
      <3> QED BY <2>3, <3>1, <3>2, LineSeen
   <2>5. DOMAIN P = 1..1 /\ P[1] = l BY <2>4
   <2>6. keep(1)
      <3> HIDE DEF P
      <3>1. l.json = FALSE /\ l.starts = "http" /\ l.words = {}
         BY <2>3 DEF TheLine
      <3>2. P[1].json = l.json /\ P[1].starts = l.starts /\ P[1].words = l.words BY <2>5
      <3> QED BY <1>2, <3>1, <3>2 DEF Has, Bracketed, Markers, NameFields
   <2> HIDE DEF P, keep, s
   <2>7. f = [i \in DOMAIN P |-> f[i]] OBVIOUS
   <2>8. f[1] = [k \in DOMAIN P[1].items |-> Result(P[1].items[k], s(1))] BY <2>5, <2>6
   <2>9. l.items = <<Finding("x", {})>> BY <2>3 DEF TheLine
   <2> HIDE DEF f
   <2>10. Hears(FlattenSeq(f)) BY <2>4, <2>7, <2>8, <2>9, KeptHeard
   <2> QED BY <2>1, <2>10
<1> QED BY <1>1, <1>2, MembersAre

LEMMA TakeoverHeard ==
    ASSUME NEW t, t = "subzy", NEW out, out = Prints(t, "x")
    PROVE  Hears(TakeoverReport(t, out))
<1> DEFINE P == parseLines(out)
<1>1. CASE t = "subzy"
   <2> DEFINE keep(i) == "[VULN]" \in P[i].words
              s(i) == "high"
              p(i) == [k \in DOMAIN P[i].items |-> Result(P[i].items[k], s(i))]
              f == [i \in DOMAIN P |-> IF keep(i) THEN p(i) ELSE <<>>]
   <2>1. TakeoverReport(t, out) = FlattenSeq(f) BY <1>1 DEF TakeoverReport, Lines, Rated
   <2>2. out = Text("text", Markers, "x") BY <1>1, PrintsAre
   <2>3. PICK l : l = TheLine(FALSE, "text", Markers) OBVIOUS
   <2>4. P = <<l>>
      <3>1. out.lines = <<TheLine(FALSE, "text", Markers)>> BY <2>2, TextIs
      <3>2. Seen("text") BY SeenIs
      <3> QED BY <2>3, <3>1, <3>2, LineSeen
   <2>5. DOMAIN P = 1..1 /\ P[1] = l BY <2>4
   <2>6. keep(1)
      <3> HIDE DEF P
      <3>1. l.json = FALSE /\ l.starts = "text" /\ l.words = Markers
         BY <2>3 DEF TheLine
      <3>2. P[1].json = l.json /\ P[1].starts = l.starts /\ P[1].words = l.words BY <2>5
      <3> QED BY <1>1, <3>1, <3>2 DEF Has, Bracketed, Markers, NameFields
   <2> HIDE DEF P, keep, s
   <2>7. f = [i \in DOMAIN P |-> f[i]] OBVIOUS
   <2>8. f[1] = [k \in DOMAIN P[1].items |-> Result(P[1].items[k], s(1))] BY <2>5, <2>6
   <2>9. l.items = <<Finding("x", {})>> BY <2>3 DEF TheLine
   <2> HIDE DEF f
   <2>10. Hears(FlattenSeq(f)) BY <2>4, <2>7, <2>8, <2>9, KeptHeard
   <2> QED BY <2>1, <2>10
<1> QED BY <1>1

-----------------------------------------------------------------------------
LEMMA StoreHeard ==
    ASSUME NEW out
    PROVE  /\ out = [Silence EXCEPT !.rows = <<Finding("x", {"url", "file"})>>]
              => Hears(GowitnessReport(out))
           /\ out = [Silence EXCEPT !.files = <<Finding("x", {})>>] => Hears(AquatoneReport(out))
<1>1. ASSUME out = [Silence EXCEPT !.rows = <<Finding("x", {"url", "file"})>>]
      PROVE  Hears(GowitnessReport(out))
   <2>1. PICK x : x = Finding("x", {"url", "file"}) OBVIOUS
   <2>2. PICK rows : rows = <<x>> OBVIOUS
   <2>3. out.rows = rows
      <3>1. "rows" \in DOMAIN Silence BY DEF Silence
      <3> QED BY <1>1, <2>1, <2>2, <3>1
   <2> DEFINE g == [i \in DOMAIN rows |-> IF {"url", "file"} \subseteq rows[i].more THEN <<rows[i]>> ELSE <<>>]
   <2>4. DOMAIN rows = 1..1 /\ rows[1] = x BY <2>2
   <2>5. {"url", "file"} \subseteq x.more BY <2>1 DEF Finding
   <2>6. g = [i \in 1..1 |-> g[i]] /\ g[1] = <<x>> BY <2>4, <2>5
   <2>7. Sifted(out.rows, LAMBDA r : {"url", "file"} \subseteq r.more) = FlattenSeq(g)
      BY <2>3 DEF Sifted
   <2> HIDE DEF g
   <2>8. FlattenSeq(g) = <<x>> BY <2>6, FlattenOne
   <2>9. GowitnessReport(out) = Plain(<<x>>)
      <3>1. Sifted(out.rows, LAMBDA r : {"url", "file"} \subseteq r.more) = <<x>> BY <2>7, <2>8
      <3>2. <<x>> # <<>> OBVIOUS
      <3> QED BY <3>1, <3>2 DEF GowitnessReport
   <2> QED BY <2>1, <2>9, ItemsHeard
<1>2. ASSUME out = [Silence EXCEPT !.files = <<Finding("x", {})>>]
      PROVE  Hears(AquatoneReport(out))
   <2>1. "files" \in DOMAIN Silence BY DEF Silence
   <2>2. out.files = <<Finding("x", {})>> BY <1>2, <2>1
   <2> QED BY <2>2, ItemsHeard DEF AquatoneReport
<1> QED BY <1>1, <1>2

\* Of a list of sequences, what each lists is listed.
LEMMA PieceHeard ==
    ASSUME NEW n \in Nat, NEW S, NEW f \in [1..n -> Seq(S)], NEW i \in 1..n, Hears(f[i])
    PROVE  Hears(FlattenSeq(f))
<1>1. PICK j \in DOMAIN f[i] : f[i][j].item = "x" BY DEF Hears
<1>2. f[i] \in Seq(S) OBVIOUS
<1>3. j \in 1..Len(f[i]) BY <1>2, LenProperties
<1>4. PICK k \in 1..Len(FlattenSeq(f)) : FlattenSeq(f)[k] = f[i][j]
   <2>1. Lists(FlattenSeq(f), f, n) BY FlattenIs
   <2> QED BY <1>3, <2>1 DEF Lists
<1>5. FlattenSeq(f) \in Seq(S) BY FlattenIs
<1>6. k \in DOMAIN FlattenSeq(f) BY <1>5, LenProperties
<1> QED BY <1>1, <1>4, <1>6 DEF Hears

LEMMA CloudHeard ==
    ASSUME NEW t \in {"aws", "az", "gcloud"}, NEW out,
           out = [Silence EXCEPT !.calls[CloudCalls[t][2]] = [ok |-> TRUE, json |-> TRUE,
                                                         items |-> <<Finding("x", {})>>]]
    PROVE  Hears(CloudReport(t, out))
<1> DEFINE cs == CloudCalls[t]
           f == [i \in DOMAIN cs |-> IF out.calls[cs[i]].ok THEN CloudAssets(out.calls[cs[i]]) ELSE <<>>]
           R == Plain(<<Finding("x", {})>>)
           S == {R[i] : i \in DOMAIN R}
<1>1. CloudReport(t, out) = FlattenSeq(f) BY DEF CloudReport
<1>2. PICK n \in Nat : DOMAIN cs = 1..n /\ 2 \in 1..n /\ \A i \in 1..n : cs[i] \in CallNames
   <2>1. CASE t = "aws"
      <3>1. cs = <<"ec2", "s3", "rds", "elb">> BY <2>1 DEF CloudCalls
      <3>2. DOMAIN cs = 1..4 /\ \A i \in 1..4 : cs[i] \in CallNames BY <3>1 DEF CallNames
      <3> QED BY <3>2
   <2>2. CASE t = "az"
      <3>1. cs = <<"vm", "storage">> BY <2>2 DEF CloudCalls
      <3>2. DOMAIN cs = 1..2 /\ \A i \in 1..2 : cs[i] \in CallNames BY <3>1 DEF CallNames
      <3> QED BY <3>2
   <2>3. CASE t = "gcloud"
      <3>1. cs = <<"compute", "buckets">> BY <2>3 DEF CloudCalls
      <3>2. DOMAIN cs = 1..2 /\ \A i \in 1..2 : cs[i] \in CallNames BY <3>1 DEF CallNames
      <3> QED BY <3>2
   <2> QED BY <2>1, <2>2, <2>3
<1>3. PICK call : call = [ok |-> TRUE, json |-> TRUE, items |-> <<Finding("x", {})>>] OBVIOUS
<1>4. PICK none : none = [ok |-> FALSE, json |-> TRUE, items |-> <<>>] OBVIOUS
<1>5. out.calls = [[c \in CallNames |-> none] EXCEPT ![cs[2]] = call]
   <2>1. Silence.calls = [c \in CallNames |-> none] /\ "calls" \in DOMAIN Silence
      BY <1>4 DEF Silence
   <2>2. out.calls = [Silence.calls EXCEPT ![cs[2]] = call] BY <1>3, <2>1
   <2> QED BY <2>1, <2>2
<1>6. cs[2] \in CallNames BY <1>2
<1> HIDE DEF cs
<1>7. \A i \in 1..n : out.calls[cs[i]] = IF cs[i] = cs[2] THEN call ELSE none BY <1>2, <1>5, <1>6
<1>8. ~none.ok /\ call.ok /\ CloudAssets(call) = R BY <1>3, <1>4 DEF CloudAssets
<1>9. \A i \in 1..n : f[i] = IF cs[i] = cs[2] THEN R ELSE <<>> BY <1>2, <1>7, <1>8
<1>10. R \in Seq(S)
   <2>1. PICK items : items = <<Finding("x", {})>> OBVIOUS
   <2>2. R = [k \in DOMAIN items |-> Result(items[k], "")] BY <2>1 DEF Plain, Rated
   <2>3. R = [k \in DOMAIN items |-> R[k]] BY <2>2
   <2>4. items \in Seq({Finding("x", {})}) BY <2>1
   <2> HIDE DEF R
   <2>5. R \in [DOMAIN items -> S] BY <2>3
   <2> HIDE DEF S
   <2> QED BY <2>4, <2>5, SameLength
<1> HIDE DEF S
<1>11. f \in [1..n -> Seq(S)]
   <2>1. <<>> \in Seq(S) BY EmptySeq
   <2>2. f = [i \in 1..n |-> f[i]] BY <1>2
   <2>3. \A i \in 1..n : f[i] \in Seq(S)
      <3> HIDE DEF R, f
      <3> QED BY <1>9, <1>10, <2>1
   <2> HIDE DEF f
   <2> QED BY <2>2, <2>3
<1>12. Hears(f[2])
   <2>1. f[2] = R BY <1>2, <1>9
   <2> HIDE DEF f
   <2> QED BY <2>1, ItemsHeard
<1> HIDE DEF f, R
<1>13. Hears(FlattenSeq(f)) BY <1>2, <1>11, <1>12, PieceHeard
<1> QED BY <1>1, <1>13

\* Every tool but those that are deaf.
Offered == UNION {Members(c) : c \in DOMAIN workflowToolOrder}
LEMMA ReportHeard ==
    ASSUME NEW t \in Offered \ Deaf, NEW out, out = Prints(t, "x")
    PROVE  Hears(Report(t, out))
<1>1. CASE t \in Members("subdomain")
   <2>1. Report(t, out) = SubdomainReport(t, out) BY <1>1, MembersAre DEF Report
   <2> QED BY <1>1, <2>1, SubdomainHeard
<1>2. CASE t \in Members("dns")
   <2>1. Report(t, out) = DNSReport(t, out) BY <1>2, MembersAre DEF Report
   <2> QED BY <1>2, <2>1, DNSHeard
<1>3. CASE t \in Members("network")
   <2>1. Report(t, out) = NetworkReport(t, out) BY <1>3, MembersAre DEF Report
   <2> QED BY <1>3, <2>1, NetworkHeard
<1>4. CASE t \in Members("web")
   <2>1. Report(t, out) = WebReport(t, out) BY <1>4, MembersAre DEF Report
   <2> QED BY <1>4, <2>1, WebHeard
<1>5. CASE t \in Members("content")
   <2>1. Report(t, out) = ContentReport(t, out) BY <1>5, MembersAre DEF Report
   <2> QED BY <1>5, <2>1, ContentHeard
<1>6. CASE t \in {"nuclei", "nikto", "testssl.sh"}
   <2>1. Report(t, out) = VulnReport(t, out) BY <1>6, MembersAre DEF Report
   <2> QED BY <1>6, <2>1, VulnHeard
<1>7. CASE t \in {"wpscan"}
   <2>1. Report(t, out) = WPScanReport(out) BY <1>7, MembersAre DEF Report
   <2> QED BY <1>7, <2>1, WPScanHeard
<1>8. CASE t \in {"droopescan"}
   <2>1. Report(t, out) = DroopescanReport(out) BY <1>8, MembersAre DEF Report
   <2> QED BY <1>8, <2>1, DroopescanHeard
<1>9. CASE t \in {"wafw00f"}
   <2>1. Report(t, out) = WAFReport(out) BY <1>9, MembersAre DEF Report
   <2> QED BY <1>9, <2>1, WAFHeard
<1>10. CASE t \in {"enum4linux-ng", "crackmapexec"}
   <2>1. Report(t, out) = SMBReport(t, out) BY <1>10, MembersAre DEF Report
   <2> QED BY <1>10, <2>1, SMBHeard
<1>11. CASE t \in Members("origin_ip")
   <2>1. Report(t, out) = OriginReport(t, out) BY <1>11, MembersAre DEF Report
   <2> QED BY <1>11, <2>1, OriginHeard
<1>12. CASE t \in {"sqlmap", "dalfox"}
   <2>1. Report(t, out) = InjectionReport(t, out) BY <1>12, MembersAre DEF Report
   <2> QED BY <1>12, <2>1, InjectionHeard
<1>13. CASE t \in {"xsstrike", "commix", "tplmap", "crlfuzz"}
   <2>1. Report(t, out) = InjectionTextReport(t, out) BY <1>13, MembersAre DEF Report
   <2> QED BY <1>13, <2>1, InjectionTextHeard
<1>14. CASE t \in {"smuggler", "h2csmuggler", "ssrfmap", "gopherus"}
   <2>1. Report(t, out) = SmugglingReport(t, out) BY <1>14, MembersAre DEF Report
   <2> QED BY <1>14, <2>1, SmugglingHeard
<1>15. CASE t \in Members("secrets")
   <2>1. Report(t, out) = SecretReport(t, out) BY <1>15, MembersAre DEF Report
   <2> QED BY <1>15, <2>1, SecretHeard
<1>16. CASE t \in Members("fingerprint")
   <2>1. Report(t, out) = FingerprintReport(t, out) BY <1>16, MembersAre DEF Report
   <2> QED BY <1>16, <2>1, FingerprintHeard
<1>17. CASE t \in Members("js_analysis")
   <2>1. Report(t, out) = JSReport(t, out) BY <1>17, MembersAre DEF Report
   <2> QED BY <1>17, <2>1, JSHeard
<1>18. CASE t \in {"jwt_tool"}
   <2>1. Report(t, out) = AuthReport(t, out) BY <1>18, MembersAre DEF Report
   <2> QED BY <1>18, <2>1, AuthHeard
<1>19. CASE t \in Members("params")
   <2>1. Report(t, out) = ParamReport(t, out) BY <1>19, MembersAre DEF Report
   <2> QED BY <1>19, <2>1, ParamHeard
<1>20. CASE t \in {"subzy"}
   <2>1. Report(t, out) = TakeoverReport(t, out) BY <1>20, MembersAre DEF Report
   <2> QED BY <1>20, <2>1, TakeoverHeard
<1>21. CASE t = "gowitness"
   <2>1. Report(t, out) = GowitnessReport(out) BY <1>21, MembersAre DEF Report
   <2> QED BY <1>21, <2>1, PrintsAre, StoreHeard
<1>22. CASE t = "aquatone"
   <2>1. Report(t, out) = AquatoneReport(out) BY <1>22, MembersAre DEF Report
   <2> QED BY <1>22, <2>1, PrintsAre, StoreHeard
<1>23. CASE t \in Members("cloud")
   <2>1. Report(t, out) = CloudReport(t, out) BY <1>23, MembersAre DEF Report
   <2>2. t \in {"aws", "az", "gcloud"} BY <1>23, MembersAre
   <2>3. out = [Silence EXCEPT !.calls[CloudCalls[t][2]] = [ok |-> TRUE, json |-> TRUE,
                                                       items |-> <<Finding("x", {})>>]]
      BY <2>2, PrintsAre
   <2> QED BY <2>1, <2>2, <2>3, CloudHeard
<1>24. PICK c \in DOMAIN workflowToolOrder : t \in Members(c) BY DEF Offered
<1>25. t \notin {"corsy", "smbclient", "subjack", "nuclei-takeover", "dns-takeover-check"} BY DEF Deaf
<1> QED BY <1>1, <1>2, <1>3, <1>4, <1>5, <1>6, <1>7, <1>8, <1>9, <1>10, <1>11, <1>12, <1>13,
           <1>14, <1>15, <1>16, <1>17, <1>18, <1>19, <1>20, <1>21, <1>22, <1>23, <1>24, <1>25,
           CategoriesAre, MembersAre

-----------------------------------------------------------------------------
\* What a tool prints for one finding is not cut off.
IsShort(o) == /\ o = [k \in OutFields |-> o[k]]
              /\ o.lines = <<>> \/ \E l : o.lines = <<l>>

LEMMA SilenceIs ==
    /\ IsShort(Silence) /\ Silence = [k \in OutFields |-> Silence[k]] /\ DOMAIN Silence = OutFields
    /\ Silence.lines = <<>> /\ {"lines", "doc", "rows", "files", "calls"} = OutFields
BY DEF IsShort, Silence, OutFields

LEMMA ChangedIs ==
    ASSUME NEW S, S = [k \in OutFields |-> S[k]], NEW k \in OutFields, NEW v
    PROVE  LET o == [S EXCEPT ![k] = v]
           IN o = [m \in OutFields |-> o[m]] /\ o[k] = v /\ \A m \in OutFields \ {k} : o[m] = S[m]
OBVIOUS

LEMMA PrintsShort ==
    ASSUME NEW t \in Offered \ {"corsy", "subjack"}
    PROVE  IsShort(Prints(t, "x"))
<1>1. PICK S : S = Silence OBVIOUS
<1>2. S = [k \in OutFields |-> S[k]] /\ S.lines = <<>> BY <1>1, SilenceIs
<1>3. "lines" \in OutFields /\ "doc" \in OutFields /\ "rows" \in OutFields /\ "files" \in OutFields
      /\ "calls" \in OutFields
   BY SilenceIs
<1>4. ASSUME NEW o, NEW k \in OutFields \ {"lines"}, NEW v, o = [S EXCEPT ![k] = v]
      PROVE  IsShort(o)
   <2>1. o = [m \in OutFields |-> o[m]] /\ o["lines"] = S["lines"] BY <1>2, <1>3, <1>4, ChangedIs
   <2> QED BY <1>2, <2>1 DEF IsShort
<1>5. ASSUME NEW o, NEW l, o = [S EXCEPT !["lines"] = <<l>>]
      PROVE  IsShort(o)
   <2>1. o = [m \in OutFields |-> o[m]] /\ o["lines"] = <<l>> BY <1>2, <1>3, <1>5, ChangedIs
   <2> QED BY <2>1 DEF IsShort
<1>6. \A st, w : IsShort(Text(st, w, "x")) /\ IsShort(JSONText(w, "x"))
   <2>1. TAKE st, w
   <2>2. IsShort(Text(st, w, "x"))
      <3>1. PICK l : l = TheLine(FALSE, st, w) OBVIOUS
      <3>2. Text(st, w, "x") = [S EXCEPT !["lines"] = <<l>>] BY <1>1, <3>1, TextIs
      <3> QED BY <1>5, <3>2
   <2>3. IsShort(JSONText(w, "x"))
      <3>1. PICK l : l = TheLine(TRUE, "{", w) OBVIOUS
      <3>2. JSONText(w, "x") = [S EXCEPT !["lines"] = <<l>>] BY <1>1, <3>1, TextIs
      <3> QED BY <1>5, <3>2
   <2> QED BY <2>2, <2>3
<1>7. \A form, more : IsShort(Document(form, "x", more))
   <2>1. TAKE form, more
   <2> QED BY <1>1, <1>3, <1>4 DEF Document
<1>8. \A v : IsShort([Silence EXCEPT !.rows = v]) /\ IsShort([Silence EXCEPT !.files = v])
   <2>1. TAKE v
   <2>2. IsShort([S EXCEPT !["rows"] = v]) BY <1>3, <1>4
   <2>3. IsShort([S EXCEPT !["files"] = v]) BY <1>3, <1>4
   <2> QED BY <1>1, <2>2, <2>3
<1> DEFINE Called(c, v) == [Silence EXCEPT !.calls[c] = v]
<1>9. \A c, v : IsShort(Called(c, v))
   <2>1. TAKE c, v
   <2>2. IsShort([S EXCEPT !["calls"] = [S.calls EXCEPT ![c] = v]]) BY <1>3, <1>4
   <2>3. [S EXCEPT !["calls"] = [S.calls EXCEPT ![c] = v]] = Called(c, v)
      BY <1>1
   <2> QED BY <2>2, <2>3
<1>10. PICK c \in DOMAIN workflowToolOrder : t \in Members(c) BY DEF Offered
<1>11. ASSUME t \in {"subfinder", "amass", "dnsx", "naabu", "httpx", "feroxbuster", "nuclei", "sqlmap",
                 "dalfox", "trufflehog", "whatweb"}
       PROVE  IsShort(Prints(t, "x"))
   <2>1. Prints(t, "x") = JSONText(NameFields, "x") BY <1>11, PrintsAre
   <2> QED BY <1>6, <2>1
<1>12. ASSUME t \in {"dnsrecon", "dnstwist", "masscan", "testssl.sh", "wafw00f", "gitleaks", "retire"}
       PROVE  IsShort(Prints(t, "x"))
   <2>1. Prints(t, "x") = Document("array", "x", {}) BY <1>12, PrintsAre
   <2> QED BY <1>7, <2>1
<1>13. ASSUME t \in {"ffuf", "dirsearch", "nikto", "enum4linux-ng", "wappalyzer", "arjun", "wpscan",
                 "droopescan", "snyk"}
       PROVE  IsShort(Prints(t, "x"))
   <2>1. Prints(t, "x") = Document("object", "x", {"plugin", "vulnerability"}) BY <1>13, PrintsAre
   <2> QED BY <1>7, <2>1
<1>14. ASSUME t \in {"nmap"}
       PROVE  IsShort(Prints(t, "x"))
   <2>1. Prints(t, "x") = Document("xml", "x", {"open"}) BY <1>14, PrintsAre
   <2> QED BY <1>7, <2>1
<1>15. ASSUME t \in {"katana", "hakrawler", "gau", "waybackurls", "paramspider", "linkfinder"}
       PROVE  IsShort(Prints(t, "x"))
   <2>1. Prints(t, "x") = Text("http", {}, "x") BY <1>15, PrintsAre
   <2> QED BY <1>6, <2>1
<1>16. ASSUME t \in {"rustscan"}
       PROVE  IsShort(Prints(t, "x"))
   <2>1. Prints(t, "x") = Text("Open ", {"port"}, "x") BY <1>16, PrintsAre
   <2> QED BY <1>6, <2>1
<1>17. ASSUME t \in {"secretfinder"}
       PROVE  IsShort(Prints(t, "x"))
   <2>1. Prints(t, "x") = Text("[", {"api_key"}, "x") BY <1>17, PrintsAre
   <2> QED BY <1>6, <2>1
<1>18. ASSUME t \in {"smbclient"}
       PROVE  IsShort(Prints(t, "x"))
   <2>1. Prints(t, "x") = Text("share", {"dot"}, "x") BY <1>18, PrintsAre
   <2> QED BY <1>6, <2>1
<1>19. ASSUME t \in {"assetfinder", "findomain", "dnsenum", "gobuster", "crackmapexec", "cloudflair",
                 "hakoriginfinder", "cloakquest3r", "xsstrike", "commix", "tplmap", "crlfuzz",
                 "smuggler", "h2csmuggler", "ssrfmap", "gopherus", "jwt_tool", "subzy",
                 "nuclei-takeover", "dns-takeover-check"}
       PROVE  IsShort(Prints(t, "x"))
   <2>1. Prints(t, "x") = Text("text", Markers, "x") BY <1>19, PrintsAre
   <2> QED BY <1>6, <2>1
<1>20. ASSUME t \in {"gowitness"}
       PROVE  IsShort(Prints(t, "x"))
   <2>1. Prints(t, "x") = [Silence EXCEPT !.rows = <<Finding("x", {"url", "file"})>>] BY <1>20, PrintsAre
   <2> QED BY <1>8, <2>1
<1>21. ASSUME t \in {"aquatone"}
       PROVE  IsShort(Prints(t, "x"))
   <2>1. Prints(t, "x") = [Silence EXCEPT !.files = <<Finding("x", {})>>] BY <1>21, PrintsAre
   <2> QED BY <1>8, <2>1
<1>22. ASSUME t \in {"aws", "az", "gcloud"}
       PROVE  IsShort(Prints(t, "x"))
   <2>1. Prints(t, "x") = [Silence EXCEPT !.calls[CloudCalls[t][2]] = [ok |-> TRUE, json |-> TRUE,
                                                           items |-> <<Finding("x", {})>>]] BY <1>22, PrintsAre
   <2>2. PICK d, v : d = CloudCalls[t][2] /\ v = [ok |-> TRUE, json |-> TRUE, items |-> <<Finding("x", {})>>]
      OBVIOUS
   <2>3. Prints(t, "x") = Called(d, v) BY <2>1, <2>2
   <2> HIDE DEF Called
   <2> QED BY <1>9, <2>3
<1> QED BY <1>10, <1>11, <1>12, <1>13, <1>14, <1>15, <1>16, <1>17, <1>18, <1>19, <1>20, <1>21,
           <1>22, CategoriesAre, MembersAre

LEMMA CutIs ==
    ASSUME NEW o, IsShort(o)
    PROVE  [o EXCEPT !.lines = SubSeq(@, 1, Min({1, Len(@)}))] = o
<1>1. SubSeq(o.lines, 1, Min({1, Len(o.lines)})) = o.lines
   <2>1. CASE o.lines = <<>>
      <3>1. Len(o.lines) = 0 BY <2>1
      <3>2. 0 \in Nat /\ 1 \in Nat OBVIOUS
      <3>3. Min({1, 0}) \in {1, 0} /\ Min({1, 0}) <= 0 BY <3>2, LesserOf
      <3>4. Min({1, 0}) = 0 BY <3>3
      <3>5. SubSeq(<<>>, 1, 0) = <<>> BY SubSeqEmpty
      <3> QED BY <2>1, <3>1, <3>4, <3>5
   <2>2. ASSUME NEW l, o.lines = <<l>> PROVE SubSeq(o.lines, 1, Min({1, Len(o.lines)})) = o.lines
      <3>1. Len(o.lines) = 1 BY <2>2
      <3>2. Min({1, 1}) = 1
         <4>1. 1 \in Nat OBVIOUS
         <4>2. Min({1, 1}) \in {1, 1} BY <4>1, LesserOf
         <4> QED BY <4>2
      <3>3. SubSeq(<<l>>, 1, 1) = <<l>> BY FirstOnly
      <3> QED BY <2>2, <3>1, <3>2, <3>3
   <2> QED BY <2>1, <2>2 DEF IsShort
<1>2. o = [k \in OutFields |-> o[k]] BY DEF IsShort
<1> QED BY <1>1, <1>2

LEMMA KeepsNone ==
    ASSUME NEW P, P = <<>> \/ \E l : P = <<l>>, NEW f, f = [i \in DOMAIN P |-> <<>>]
    PROVE  ~Hears(FlattenSeq(f))
<1>1. FlattenSeq(f) = <<>>
   <2>1. CASE P = <<>>
      <3>1. f = [i \in 1..0 |-> f[i]] BY <2>1
      <3> QED BY <3>1, FlattenNone
   <2>2. ASSUME NEW l, P = <<l>> PROVE FlattenSeq(f) = <<>>
      <3>1. DOMAIN P = 1..1 BY <2>2
      <3>2. f = [i \in 1..1 |-> f[i]] /\ f[1] = <<>> BY <3>1
      <3> QED BY <3>2, FlattenOne
   <2> QED BY <2>1, <2>2
<1>2. DOMAIN <<>> = {} OBVIOUS
<1> QED BY <1>1, <1>2 DEF Hears

\* A run prints what the tool does, or nothing.
LEMMA RunShort ==
    ASSUME NEW t, NEW target, NEW creds, IsShort(Prints(t, "x"))
    PROVE  LET o == Run(t, target, creds, Prints(t, "x"), 1)
           IN /\ ValidateArgs(t, target, creds) /\ t # "subjack" => o = Prints(t, "x")
              /\ o = Prints(t, "x") \/ o = Silence
BY CutIs DEF Run

LEMMA RunDeaf ==
    ASSUME NEW t \in {"corsy", "subjack"}, NEW target, NEW creds, NEW o
    PROVE  Run(t, target, creds, o, 1) = Silence
BY DEF Run, ValidateArgs

LEMMA DeafHear ==
    ASSUME NEW t \in Deaf, NEW target, NEW creds, NEW o, o = Run(t, target, creds, Prints(t, "x"), 1)
    PROVE  ~Hears(Report(t, o))
<1> DEFINE P == parseLines(o)
<1>1. CASE t = "corsy"
   <2> DEFINE keep(i) == Has(P[i], {"vulnerable", "misconfigur", "[+]"})
              s(i) == IF "credential" \in P[i].words THEN "critical" ELSE "high"
              p(i) == [k \in DOMAIN P[i].items |-> Result(P[i].items[k], s(i))]
              f == [i \in DOMAIN P |-> IF keep(i) THEN p(i) ELSE <<>>]
   <2>1. Report(t, o) = FlattenSeq(f)
      <3>1. Report(t, o) = AuthReport(t, o) BY <1>1, MembersAre DEF Report
      <3>2. AuthReport(t, o) = FlattenSeq(f) BY <1>1 DEF AuthReport, Lines, Rated
      <3> QED BY <3>1, <3>2
   <2>2. P = <<>>
      <3>1. o = Silence BY <1>1, RunDeaf
      <3> QED BY <3>1, SilenceIs, NoLineSeen
   <2>3. \A i \in DOMAIN P : ~keep(i)
      <3>1. DOMAIN P = {} BY <2>2
      <3> HIDE DEF P, keep
      <3> QED BY <3>1
   <2> HIDE DEF P, keep
   <2>4. f = [i \in DOMAIN P |-> <<>>] BY <2>3
   <2> HIDE DEF f
   <2>5. ~Hears(FlattenSeq(f)) BY <2>2, <2>4, KeepsNone
   <2> QED BY <2>1, <2>5
<1>2. CASE t = "subjack"
   <2> DEFINE keep(i) == P[i].starts = "[" /\ "[Vulnerable]" \in P[i].words
              s(i) == "high"
              p(i) == [k \in DOMAIN P[i].items |-> Result(P[i].items[k], s(i))]
              f == [i \in DOMAIN P |-> IF keep(i) THEN p(i) ELSE <<>>]
   <2>1. Report(t, o) = FlattenSeq(f)
      <3>1. Report(t, o) = TakeoverReport(t, o) BY <1>2, MembersAre DEF Report
      <3>2. TakeoverReport(t, o) = FlattenSeq(f) BY <1>2 DEF TakeoverReport, Lines, Rated
      <3> QED BY <3>1, <3>2
   <2>2. P = <<>>
      <3>1. o = Silence BY <1>2, RunDeaf
      <3> QED BY <3>1, SilenceIs, NoLineSeen
   <2>3. \A i \in DOMAIN P : ~keep(i)
      <3>1. DOMAIN P = {} BY <2>2
      <3> HIDE DEF P, keep
      <3> QED BY <3>1
   <2> HIDE DEF P, keep
   <2>4. f = [i \in DOMAIN P |-> <<>>] BY <2>3
   <2> HIDE DEF f
   <2>5. ~Hears(FlattenSeq(f)) BY <2>2, <2>4, KeepsNone
   <2> QED BY <2>1, <2>5
<1>3. CASE t = "smbclient"
   <2> DEFINE keep(i) == P[i].starts \in {" ", "\t"}
              s(i) == ""
              p(i) == [k \in DOMAIN P[i].items |-> Result(P[i].items[k], s(i))]
              f == [i \in DOMAIN P |-> IF keep(i) THEN p(i) ELSE <<>>]
   <2>1. Report(t, o) = FlattenSeq(f)
      <3>1. Report(t, o) = SMBReport(t, o) BY <1>3, MembersAre DEF Report
      <3>2. SMBReport(t, o) = FlattenSeq(f) BY <1>3 DEF SMBReport, Lines, Rated
      <3> QED BY <3>1, <3>2
   <2>2. PICK l : l = TheLine(FALSE, "share", {"dot"}) OBVIOUS
   <2>3. P = <<>> \/ P = <<l>>
      <3>1. Prints(t, "x") = Text("share", {"dot"}, "x") BY <1>3, PrintsAre
      <3>2. t \in Offered \ {"corsy", "subjack"} BY <1>3, CategoriesAre, MembersAre DEF Offered
      <3>3. o = Prints(t, "x") \/ o = Silence BY <3>2, PrintsShort, RunShort
      <3>4. CASE o = Silence BY <3>4, SilenceIs, NoLineSeen
      <3>5. CASE o = Prints(t, "x")
         <4>1. o = Text("share", {"dot"}, "x") BY <3>1, <3>5
         <4>2. o.lines = <<TheLine(FALSE, "share", {"dot"})>> BY <4>1, TextIs
         <4>3. Seen("share") BY SeenIs
         <4> QED BY <2>2, <4>2, <4>3, LineSeen
      <3> QED BY <3>3, <3>4, <3>5
   <2>4. \A i \in DOMAIN P : ~keep(i)
      <3>1. ~l.json /\ l.starts = "share" BY <2>2 DEF TheLine
      <3> HIDE DEF P
      <3>2. \A i \in DOMAIN P : P[i] = l BY <2>3
      <3> QED BY <3>1, <3>2
   <2> HIDE DEF P, keep
   <2>5. f = [i \in DOMAIN P |-> <<>>] BY <2>4
   <2> HIDE DEF f
   <2>6. ~Hears(FlattenSeq(f)) BY <2>3, <2>5, KeepsNone
   <2> QED BY <2>1, <2>6
<1>4. CASE t = "nuclei-takeover"
   <2> DEFINE keep(i) == P[i].json
              s(i) == "high"
              p(i) == [k \in DOMAIN P[i].items |-> Result(P[i].items[k], s(i))]
              f == [i \in DOMAIN P |-> IF keep(i) THEN p(i) ELSE <<>>]
   <2>1. Report(t, o) = FlattenSeq(f)
      <3>1. Report(t, o) = TakeoverReport(t, o) BY <1>4, MembersAre DEF Report
      <3>2. TakeoverReport(t, o) = FlattenSeq(f) BY <1>4 DEF TakeoverReport, Lines, Rated
      <3> QED BY <3>1, <3>2
   <2>2. PICK l : l = TheLine(FALSE, "text", Markers) OBVIOUS
   <2>3. P = <<>> \/ P = <<l>>
      <3>1. Prints(t, "x") = Text("text", Markers, "x") BY <1>4, PrintsAre
      <3>2. t \in Offered \ {"corsy", "subjack"} BY <1>4, CategoriesAre, MembersAre DEF Offered
      <3>3. o = Prints(t, "x") \/ o = Silence BY <3>2, PrintsShort, RunShort
      <3>4. CASE o = Silence BY <3>4, SilenceIs, NoLineSeen
      <3>5. CASE o = Prints(t, "x")
         <4>1. o = Text("text", Markers, "x") BY <3>1, <3>5
         <4>2. o.lines = <<TheLine(FALSE, "text", Markers)>> BY <4>1, TextIs
         <4>3. Seen("text") BY SeenIs
         <4> QED BY <2>2, <4>2, <4>3, LineSeen
      <3> QED BY <3>3, <3>4, <3>5
   <2>4. \A i \in DOMAIN P : ~keep(i)
      <3>1. ~l.json /\ l.starts = "text" BY <2>2 DEF TheLine
      <3> HIDE DEF P
      <3>2. \A i \in DOMAIN P : P[i] = l BY <2>3
      <3> QED BY <3>1, <3>2
   <2> HIDE DEF P, keep
   <2>5. f = [i \in DOMAIN P |-> <<>>] BY <2>4
   <2> HIDE DEF f
   <2>6. ~Hears(FlattenSeq(f)) BY <2>3, <2>5, KeepsNone
   <2> QED BY <2>1, <2>6
<1>5. CASE t = "dns-takeover-check"
   <2> DEFINE keep(i) == P[i].json /\ "provider" \in P[i].words
              s(i) == "medium"
              p(i) == [k \in DOMAIN P[i].items |-> Result(P[i].items[k], s(i))]
              f == [i \in DOMAIN P |-> IF keep(i) THEN p(i) ELSE <<>>]
   <2>1. Report(t, o) = FlattenSeq(f)
      <3>1. Report(t, o) = TakeoverReport(t, o) BY <1>5, MembersAre DEF Report
      <3>2. TakeoverReport(t, o) = FlattenSeq(f) BY <1>5 DEF TakeoverReport, Lines, Rated
      <3> QED BY <3>1, <3>2
   <2>2. PICK l : l = TheLine(FALSE, "text", Markers) OBVIOUS
   <2>3. P = <<>> \/ P = <<l>>
      <3>1. Prints(t, "x") = Text("text", Markers, "x") BY <1>5, PrintsAre
      <3>2. t \in Offered \ {"corsy", "subjack"} BY <1>5, CategoriesAre, MembersAre DEF Offered
      <3>3. o = Prints(t, "x") \/ o = Silence BY <3>2, PrintsShort, RunShort
      <3>4. CASE o = Silence BY <3>4, SilenceIs, NoLineSeen
      <3>5. CASE o = Prints(t, "x")
         <4>1. o = Text("text", Markers, "x") BY <3>1, <3>5
         <4>2. o.lines = <<TheLine(FALSE, "text", Markers)>> BY <4>1, TextIs
         <4>3. Seen("text") BY SeenIs
         <4> QED BY <2>2, <4>2, <4>3, LineSeen
      <3> QED BY <3>3, <3>4, <3>5
   <2>4. \A i \in DOMAIN P : ~keep(i)
      <3>1. ~l.json /\ l.starts = "text" BY <2>2 DEF TheLine
      <3> HIDE DEF P
      <3>2. \A i \in DOMAIN P : P[i] = l BY <2>3
      <3> QED BY <3>1, <3>2
   <2> HIDE DEF P, keep
   <2>5. f = [i \in DOMAIN P |-> <<>>] BY <2>4
   <2> HIDE DEF f
   <2>6. ~Hears(FlattenSeq(f)) BY <2>3, <2>5, KeepsNone
   <2> QED BY <2>1, <2>6
<1> QED BY <1>1, <1>2, <1>3, <1>4, <1>5 DEF Deaf

\* What a tool finds is reported (ParseOutput and Run of every wrapper, types.Run):
\* by every tool but those of Deaf, whatever the target and the credentials, if
\* they pass the validation; and by those of Deaf never, validated or not.
THEOREM ReportsAreAlwaysHeard ==
    ASSUME NEW target, NEW creds
    PROVE  ReportsAreHeard(target, creds)
<1>1. ASSUME NEW t \in Offered, t \in Deaf \/ ValidateArgs(t, target, creds)
      PROVE  Told(t, "x", target, creds) <=> t \notin Deaf
   <2>1. PICK o : o = Run(t, target, creds, Prints(t, "x"), 1) OBVIOUS
   <2>2. Told(t, "x", target, creds) <=> Hears(Report(t, o)) BY <2>1 DEF Told, Hears, RunTool
   <2>3. CASE t \in Deaf BY <2>1, <2>2, <2>3, DeafHear
   <2>4. CASE t \notin Deaf
      <3>1. t \in Offered \ {"corsy", "subjack"} /\ t # "subjack" BY <2>4 DEF Deaf
      <3>2. o = Prints(t, "x") BY <1>1, <2>1, <2>4, <3>1, PrintsShort, RunShort
      <3>3. Hears(Report(t, o)) BY <2>4, <3>2, ReportHeard
      <3> QED BY <2>2, <2>4, <3>3
   <2> QED BY <2>3, <2>4
<1> QED BY <1>1 DEF ReportsAreHeard, Offered

\* The samples are printed.
Says == {"found", "denied", "noise"}
IsSample(l, st, w, s) == l = Line(st, w, s) /\ s \in Says /\ (s = "found" \/ w \in Denials)

LEMMA PrintedIs ==
    ASSUME NEW l \in Printed \cup {Hosts}
    PROVE  \E st, w, s : IsSample(l, st, w, s)
<1>1. CASE l \in {Line(st, w, "found") : st \in Starts, w \in WordSets}
   <2>1. PICK st \in Starts, w \in WordSets : l = Line(st, w, "found")
      BY <1>1
   <2>2. IsSample(l, st, w, "found") BY <2>1 DEF IsSample, Says
   <2> QED BY <2>2
<1>2. CASE l \in {Line(st, w, s) : st \in Starts, w \in Denials, s \in {"denied", "noise"}}
   <2>1. PICK st \in Starts, w \in Denials, s \in {"denied", "noise"} : l = Line(st, w, s)
      BY <1>2
   <2>2. IsSample(l, st, w, s) BY <2>1 DEF IsSample, Says
   <2> QED BY <2>2
<1>3. CASE l = Hosts
   <2>1. {"Hosts found"} \in Denials BY DEF Denials
   <2>2. IsSample(l, "text", {"Hosts found"}, "noise") BY <1>3, <2>1 DEF IsSample, Says, Hosts
   <2> QED BY <2>2
<1> QED BY <1>1, <1>2, <1>3 DEF Printed

LEMMA OutIs ==
    ASSUME NEW out \in Outs
    PROVE  \E ls \in Listings, d \in Docs : out = [Silence EXCEPT !.lines = ls, !.doc = d]
<1>1. Outs = {Shown(ls, d) : ls \in Listings, d \in Docs} BY DEF Outs
<1>2. \E ls \in Listings, d \in Docs : out = Shown(ls, d) BY <1>1
<1> QED BY <1>2 DEF Shown

LEMMA ThingsIn ==
    ASSUME NEW I, NEW x \in I, NEW s, s = <<x>> \/ s = <<>>
    PROVE  s \in Seq(I) /\ (x.says = "found" => AllFound(s))
<1>1. CASE s = <<x>>
   <2>1. s \in Seq(I) /\ \A k \in DOMAIN s : s[k] = x BY <1>1
   <2> QED BY <2>1 DEF AllFound
<1>2. CASE s = <<>>
   <2>1. s \in Seq(I) BY <1>2
   <2>2. \A k \in DOMAIN s : FALSE BY <1>2
   <2> QED BY <2>1, <2>2 DEF AllFound
<1> QED BY <1>1, <1>2

LEMMA SamplesPrinted ==
    ASSUME NEW out \in Outs
    PROVE  \E L, I : IsPrinted(out, L, I)
<1> DEFINE L == Printed \cup {Hosts}
           I == {Thing(s) : s \in Says}
<1>1. PICK ls \in Listings, d \in Docs : out = [Silence EXCEPT !.lines = ls, !.doc = d] BY OutIs
<1>2. \A s \in Says : Thing(s) \in I /\ Thing(s).says = s BY DEF Thing
<1>3. \A l \in L : \E st, w, s : IsSample(l, st, w, s) BY PrintedIs
<1>4. \A w \in Denials : w \cap Telling = {} BY DEF Denials, Telling
<1> HIDE DEF I, L
<1>5. ASSUME NEW l \in L PROVE l.items \in Seq(I) /\ (Tells(l) => AllFound(l.items))
   <2>1. PICK st, w, s : IsSample(l, st, w, s) BY <1>3
   <2>2. l = Line(st, w, s) /\ s \in Says /\ (s = "found" \/ w \in Denials) BY <2>1 DEF IsSample
   <2>3. l.items = <<Thing(s)>> /\ l.words = w /\ (l.json => s = "found") BY <2>2 DEF Line
   <2>4. ASSUME Tells(l) PROVE s = "found"
      <3>1. w \notin Denials \/ l.json BY <1>4, <2>3, <2>4 DEF Tells, Has
      <3> QED BY <2>2, <2>3, <3>1
   <2>5. Thing(s) \in I /\ Thing(s).says = s BY <1>2, <2>2
   <2>6. l.items \in Seq(I) /\ (s = "found" => AllFound(l.items))
      <3>1. PICK x : x = Thing(s) OBVIOUS
      <3>2. x \in I /\ x.says = s /\ l.items = <<x>> BY <2>3, <2>5, <3>1
      <3>3. l.items \in Seq(I) /\ (x.says = "found" => AllFound(l.items)) BY <3>2, ThingsIn
      <3> QED BY <3>2, <3>3
   <2> QED BY <2>4, <2>6
<1>6. d.entries \in Seq(I) /\ AllFound(d.entries)
   <2>1. PICK x : x = Thing("found") OBVIOUS
   <2>2. d.entries = <<x>> \/ d.entries = <<>>
      <3>1. CASE d = NoDocument BY <3>1 DEF NoDocument
      <3>2. ASSUME NEW f, d = [form |-> f, entries |-> <<x>>] PROVE d.entries = <<x>> BY <3>2
      <3>3. d = NoDocument \/ \E f : d = [form |-> f, entries |-> <<x>>] BY <2>1, Zenon DEF Docs
      <3> QED BY <3>1, <3>2, <3>3
   <2>3. x \in I /\ x.says = "found" BY <1>2, <2>1 DEF Says
   <2>4. d.entries \in Seq(I) /\ (x.says = "found" => AllFound(d.entries)) BY <2>2, <2>3, ThingsIn
   <2> QED BY <2>3, <2>4
<1>7. ls \in Seq(L)
   <2>1. Printed \subseteq L /\ Hosts \in L BY DEF L
   <2>2. \A l \in Printed : <<l>> \in Seq(L) /\ <<Hosts, l>> \in Seq(L) BY <2>1
   <2> QED BY <2>2 DEF Listings
<1>8. /\ DOMAIN out = OutFields /\ out.lines = ls /\ out.doc = d /\ out.rows = Silence.rows
      /\ out.files = Silence.files /\ out.calls = Silence.calls
   <2>1. PICK S : S = Silence OBVIOUS
   <2>2. S = [k \in OutFields |-> S[k]] BY <2>1, SilenceIs
   <2>3. out = [S EXCEPT !.lines = ls, !.doc = d] BY <1>1, <2>1
   <2>4. /\ DOMAIN out = OutFields /\ out.lines = ls /\ out.doc = d /\ out.rows = S.rows
         /\ out.files = S.files /\ out.calls = S.calls
      BY <2>2, <2>3 DEF OutFields
   <2> QED BY <2>1, <2>4
<1>9. /\ Silence.rows = <<>> /\ Silence.files = <<>>
      /\ \A c \in CallNames : Silence.calls[c].items = <<>>
   BY DEF Silence
<1>10. <<>> \in Seq(I) BY EmptySeq
<1>11. IsPrinted(out, L, I)
   BY <1>5, <1>6, <1>7, <1>8, <1>9, <1>10 DEF IsPrinted
<1> QED BY <1>11

\* The wrappers are honest about the samples (ParseOutput and Run of every wrapper):
\* they invent nothing, and they report what a tool finds.
THEOREM WrappersAreAlwaysHonest == ToolsSpec => []WrappersAreHonest
<1> DEFINE SInv == part = "reports" => sample \in Samples
<1>1. ToolsInit => SInv BY DEF ToolsInit
<1>2. SInv /\ [ToolsNext]_toolsVars => SInv' BY DEF ToolsNext, toolsVars
<1>3. SInv => WrappersAreHonest
   <2> SUFFICES ASSUME SInv, part = "reports"
                PROVE  /\ \A t \in AllTools :
                             ReportsAreTrue(t, sample.target, sample.creds, sample.out)
                       /\ ReportsAreHeard(sample.target, sample.creds)
      BY DEF WrappersAreHonest, AllTools
   <2>1. sample.out \in Outs BY DEF Samples
   <2>2. PICK L, I : IsPrinted(sample.out, L, I) BY <2>1, SamplesPrinted
   <2>3. \A t \in AllTools : ReportsAreTrue(t, sample.target, sample.creds, sample.out)
      BY <2>2, ReportsAreAlwaysTrue
   <2>4. ReportsAreHeard(sample.target, sample.creds) BY ReportsAreAlwaysHeard
   <2> QED BY <2>3, <2>4
<1> QED BY <1>1, <1>2, <1>3, PTL DEF ToolsSpec
=============================================================================
