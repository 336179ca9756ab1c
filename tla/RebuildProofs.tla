--------------------------- MODULE RebuildProofs ----------------------------
(***************************************************************************)
(* Proofs about Rebuild: what the engines leave behind agrees with itself, *)
(* a run that nothing else writes beside leaves exactly what the tables    *)
(* call for, and every score is in its range, for any finite inventories.  *)
(***************************************************************************)
EXTENDS Rebuild, FiniteSetTheorems, SequenceTheorems, WellFoundedInduction, TLAPS

-----------------------------------------------------------------------------
(***************************************************************************)
(* Rebuild: the inductive invariant.                                       *)
(***************************************************************************)
RunnerFields == {"eng", "pc", "run", "reads", "seen", "kind", "todo", "gone", "clean"}
SeenFields == {"inv", "risk", "rels", "paths", "blind"}
Scoring == {"update", "trend"}

\* Where a runner can be when the assets are s and n runs have started. A risk
\* run has the assets of one reading, those that are left and those that went.
ScoresOn(r, s) ==
    /\ r.eng = "risk" /\ r.kind \in 1..3 /\ r.todo \subseteq Kind(r)
    /\ Assets(r.seen.inv) \subseteq s \cup r.gone
    /\ r.pc = "trend" => r.todo = {}
RunnerIs(r, s, n) ==
    /\ DOMAIN r = RunnerFields
    /\ \/ r.pc = "idle" /\ r.eng = "none"
       \/ /\ r.pc = "read" /\ r.eng \in AllEngines
          /\ r.eng = "risk" => r.reads = <<"assets">> /\ DOMAIN r.seen = SeenFields /\ r.kind = 0
       \/ r.pc \in {"delete", "insert"} /\ r.eng \in Derived
       \/ r.pc \in Scoring /\ ScoresOn(r, s)
    /\ r.pc # "idle" => r.run \in 1..n
RunnersAre == DOMAIN runner = Runners /\ \A p \in Runners : RunnerIs(runner[p], Assets(inv), started)

TablesAre ==
    /\ started \in 0..MaxRuns
    /\ DOMAIN table = Derived /\ DOMAIN risk = Assets(inv)
    /\ \A e \in Derived : \A r \in table[e] : r.run \in 0..started
    /\ \A h \in trend : h.asset \in Assets(inv) /\ h.run \in 0..started

\* Runs are numbered as they start: what starts while a run is on is on record.
Meet(m, n) == {m, n} \in overlap
Met ==
    /\ \A p \in Runners : Active(p) => \A n \in (Run(p) + 1)..started : Meet(n, Run(p))
    /\ \A p, q \in Runners : p # q /\ Active(p) /\ Active(q) => Run(p) # Run(q)

\* Between its delete and its insert a run's table has rows of runs it met.
Emptied ==
    \A p \in Runners :
        At(p, "insert") /\ Eng(p) # "snapshot" => \A r \in table[Eng(p)] : Meet(r.run, Run(p))

IsLast(a, n) ==
    /\ n \in Nat /\ \A h \in Entries(a) : h.run <= n
    /\ n = 0 \/ \E h \in Entries(a) : h.run = n
Ordered == \A a \in Assets(inv) : IsLast(a, LastRun(a))

\* What a scoring run wrote stands until it tells the trend.
Spoiled(n) == n \in flawed \/ \E o \in overlap : n \in o
Ready(p, a) ==
    runner[p].pc \in Scoring /\ a \in Kind(runner[p]) /\ a \notin runner[p].todo \cup runner[p].gone
Stands ==
    \A p \in Runners, a \in Assets(inv) :
        Ready(p, a) => risk[a] = RiskTable[runner[p].seen.inv][a] \/ Spoiled(Run(p))
Waits(a) == \E p \in Runners : Ready(p, a) /\ LastRun(a) <= Run(p)
TrendIs(a) == Excused(LastRun(a)) \/ Waits(a) \/ Shown(a)
Trends == \A a \in Assets(inv) : TrendIs(a)

RInv == RunnersAre /\ TablesAre /\ Met /\ OneGeneration /\ Emptied /\ Ordered /\ Stands /\ Trends

-----------------------------------------------------------------------------
LEMMA PairsTurn == ASSUME NEW m, NEW n PROVE Meet(m, n) <=> Meet(n, m)
<1>1. {m, n} = {n, m} OBVIOUS
<1> QED BY <1>1 DEF Meet

LEMMA ActiveMeet ==
    ASSUME RunnersAre, TablesAre, RebuildAssumption, Met,
           NEW p \in Runners, NEW q \in Runners, p # q, Active(p), Active(q)
    PROVE  Meet(Run(p), Run(q))
<1>1. Run(p) \in 1..started /\ Run(q) \in 1..started /\ started \in Nat
   BY DEF RunnersAre, RunnerIs, Active, Run, TablesAre, RebuildAssumption
<1>2. Run(p) # Run(q) BY DEF Met
<1>3. CASE Run(p) < Run(q)
   <2>1. Run(q) \in (Run(p) + 1)..started BY <1>1, <1>3
   <2> QED BY <2>1, PairsTurn DEF Met
<1>4. CASE Run(q) < Run(p)
   <2>1. Run(p) \in (Run(q) + 1)..started BY <1>1, <1>4
   <2> QED BY <2>1 DEF Met
<1> QED BY <1>1, <1>2, <1>3, <1>4

\* The runner that moves is at r; of the others only clean may change.
Same(q) ==
    /\ DOMAIN runner'[q] = RunnerFields
    /\ runner'[q].eng = runner[q].eng /\ runner'[q].pc = runner[q].pc
    /\ runner'[q].run = runner[q].run /\ runner'[q].reads = runner[q].reads
    /\ runner'[q].seen = runner[q].seen /\ runner'[q].kind = runner[q].kind
    /\ runner'[q].todo = runner[q].todo /\ runner'[q].gone = runner[q].gone
Moved(p, r) == DOMAIN runner' = Runners /\ runner'[p] = r
               /\ \A q \in Runners : q # p => Same(q)

LEMMA Moving ==
    ASSUME RunnersAre, NEW p \in Runners, NEW r, Goes(p, r) \/ Writes(p, r)
    PROVE  Moved(p, r)
<1>1. DOMAIN runner = Runners /\ \A q \in Runners : DOMAIN runner[q] = RunnerFields
   BY DEF RunnersAre, RunnerIs
<1>2. CASE Goes(p, r)
   <2>1. DOMAIN runner' = Runners /\ runner'[p] = r BY <1>1, <1>2 DEF Goes
   <2>2. \A q \in Runners : q # p => runner'[q] = runner[q] BY <1>1, <1>2 DEF Goes
   <2>3. \A q \in Runners : q # p => Same(q) BY <1>1, <2>2 DEF Same
   <2> QED BY <2>1, <2>3 DEF Moved
<1>3. CASE Writes(p, r)
   <2>1. DOMAIN runner' = Runners /\ runner'[p] = r BY <1>3 DEF Writes
   <2>2. ASSUME NEW q \in Runners, q # p PROVE Same(q)
      <3>1. CASE runner'[q] = runner[q] BY <1>1, <3>1 DEF Same
      <3>2. CASE runner'[q] = [runner[q] EXCEPT !.clean = FALSE]
         BY <1>1, <3>2 DEF Same, RunnerFields
      <3> QED BY <1>3, <2>2, <3>1, <3>2 DEF Writes
   <2> QED BY <2>1, <2>2 DEF Moved
<1> QED BY <1>2, <1>3

LEMMA IdleIs ==
    /\ DOMAIN Idle = RunnerFields /\ Idle.eng = "none" /\ Idle.pc = "idle"
    /\ Idle.seen = Nothing /\ Idle.kind = 0 /\ DOMAIN Nothing = SeenFields
BY DEF Idle, RunnerFields, Nothing, SeenFields

LEMMA SameIs ==
    ASSUME NEW q \in Runners, NEW s, NEW m \in Nat, NEW n \in Nat, m <= n,
           RunnerIs(runner[q], s, m), Same(q)
    PROVE  RunnerIs(runner'[q], s, n)
<1> DEFINE old == runner[q]
           new == runner'[q]
<1>1. /\ DOMAIN new = RunnerFields /\ new.eng = old.eng /\ new.pc = old.pc /\ new.run = old.run
      /\ new.reads = old.reads /\ new.seen = old.seen /\ new.kind = old.kind
      /\ new.todo = old.todo /\ new.gone = old.gone
   BY DEF Same
<1>2. Kind(new) = Kind(old) BY <1>1 DEF Kind
<1>3. RunnerIs(old, s, m) OBVIOUS
<1> HIDE DEF old, new
<1>4. old.run \in 1..m => new.run \in 1..n BY <1>1
<1>5. ScoresOn(old, s) => ScoresOn(new, s) BY <1>1, <1>2 DEF ScoresOn
<1>6. RunnerIs(new, s, n) BY <1>1, <1>3, <1>4, <1>5 DEF RunnerIs
<1> QED BY <1>6 DEF new

LEMMA RunnersStay ==
    ASSUME RunnersAre, TablesAre, RebuildAssumption, NEW p \in Runners, NEW r, Moved(p, r),
           inv' = inv, started' \in Nat, started <= started',
           RunnerIs(r, Assets(inv), started')
    PROVE  RunnersAre'
<1>1. started \in Nat BY DEF TablesAre, RebuildAssumption
<1>2. Assets(inv') = Assets(inv) OBVIOUS
<1>3. ASSUME NEW q \in Runners PROVE RunnerIs(runner'[q], Assets(inv), started')
   <2>1. CASE q = p BY <2>1 DEF Moved
   <2>2. CASE q # p BY <1>1, <2>2, SameIs DEF Moved, RunnersAre
   <2> QED BY <2>1, <2>2
<1> QED BY <1>2, <1>3 DEF RunnersAre, Moved

\* A runner that is still on is in the run it was in.
Keeps == \A q \in Runners :
            runner'[q].pc # "idle" => Active(q) /\ runner'[q].run = Run(q)

LEMMA MetStays ==
    ASSUME Met, Keeps, started' = started, overlap \subseteq overlap'
    PROVE  Met'
BY DEF Met, Keeps, Meet, Active, Run

LEMMA MovedKeeps ==
    ASSUME RunnersAre, NEW p \in Runners, NEW r, Moved(p, r),
           r.pc # "idle" => Active(p) /\ r.run = Run(p)
    PROVE  Keeps
BY DEF Keeps, Moved, Same, Active, Run

\* The tables are as they were, or fewer rows.
LEMMA TablesKeep ==
    ASSUME OneGeneration, Emptied, NEW p \in Runners, NEW r, Moved(p, r), RunnersAre,
           overlap \subseteq overlap', table' = table,
           r.pc = "insert" => r.eng = "snapshot"
    PROVE  OneGeneration' /\ Emptied'
<1>1. OneGeneration' BY DEF OneGeneration
<1>2. ASSUME NEW q \in Runners, runner'[q].pc = "insert", runner'[q].eng # "snapshot",
             NEW s \in table[runner'[q].eng]
      PROVE  Meet(s.run, runner'[q].run)
   <2>1. At(q, "insert") /\ Eng(q) = runner'[q].eng /\ Run(q) = runner'[q].run
      BY <1>2 DEF Moved, Same, At, Eng, Run
   <2> QED BY <1>2, <2>1 DEF Emptied
<1>3. Emptied' BY <1>2 DEF Emptied, At, Eng, Run, Meet
<1> QED BY <1>1, <1>3

-----------------------------------------------------------------------------
LEMMA NextKindIs ==
    ASSUME NEW r, DOMAIN r = RunnerFields, r.kind \in 0..3
    PROVE  \/ NextKind(r) = Idle
           \/ /\ DOMAIN NextKind(r) = RunnerFields
              /\ NextKind(r).kind \in 1..3 /\ NextKind(r).todo = Kind(NextKind(r))
              /\ NextKind(r).pc = "update" /\ NextKind(r).seen = r.seen
              /\ NextKind(r).run = r.run /\ NextKind(r).eng = r.eng
              /\ NextKind(r).gone = r.gone /\ NextKind(r).reads = r.reads
<1> DEFINE left == {k \in (r.kind + 1)..3 : KindsOf(r.seen.inv)[k] # {}}
           next == Min(left)
           n == [r EXCEPT !.kind = next, !.todo = KindsOf(r.seen.inv)[next], !.pc = "update"]
<1>1. NextKind(r) = IF left = {} THEN Idle ELSE n BY DEF NextKind
<1>2. CASE left = {} BY <1>1, <1>2
<1>3. CASE left # {}
   <2>1. left \subseteq 1..3 BY SMT
   <2>2. \E x \in left : \A y \in left : x <= y
      <3>1. CASE 1 \in left BY <2>1, <3>1
      <3>2. CASE 1 \notin left /\ 2 \in left BY <2>1, <3>2
      <3>3. CASE 1 \notin left /\ 2 \notin left BY <1>3, <2>1, <3>3
      <3> QED BY <3>1, <3>2, <3>3
   <2>3. next \in 1..3 BY <2>1, <2>2 DEF Min
   <2> HIDE DEF next, left
   <2>4. /\ DOMAIN n = RunnerFields /\ n.kind = next /\ n.todo = KindsOf(r.seen.inv)[next]
         /\ n.pc = "update" /\ n.seen = r.seen /\ n.run = r.run /\ n.eng = r.eng
         /\ n.gone = r.gone /\ n.reads = r.reads
      BY DEF RunnerFields
   <2> HIDE DEF n
   <2>5. n.todo = Kind(n) BY <2>4 DEF Kind
   <2> QED BY <1>1, <1>3, <2>3, <2>4, <2>5
<1> QED BY <1>2, <1>3

\* Each kind is a part of the assets.
LEMMA KindsAre ==
    ASSUME NEW r, r.kind \in 1..3
    PROVE  Kind(r) \subseteq Assets(r.seen.inv)
<1> DEFINE i == r.seen.inv
<1>1. Kind(r) \in {Named(i.hosts), Named(i.subs), Named(i.domains)} BY DEF Kind, KindsOf
<1> QED BY <1>1 DEF Assets

-----------------------------------------------------------------------------
(***************************************************************************)
(* What each step makes of the runner it moves.                            *)
(***************************************************************************)

LEMMA ReadMoves ==
    ASSUME RunnersAre, NEW p \in Runners, Read(p)
    PROVE  \E r : /\ Moved(p, r) /\ RunnerIs(r, Assets(inv), started)
                  /\ r.pc # "idle" => Active(p) /\ r.run = Run(p)
                  /\ r.pc # "insert" /\ (r.pc \in Scoring => r.todo = Kind(r))
<1> DEFINE old == runner[p]
           r == [old EXCEPT !.seen = Seeing(@, Head(old.reads)), !.reads = Tail(@), !.gone = {}]
           s == [r EXCEPT !.pc = "delete"]
<1>1. At(p, "read") /\ Goes(p, IF r.reads # <<>> THEN r
                               ELSE IF r.eng = "risk" THEN NextKind(r) ELSE s)
   BY DEF Read
<1>2. RunnerIs(old, Assets(inv), started) /\ old.pc = "read" BY <1>1 DEF RunnersAre, At
<1> HIDE DEF old
<1>3. DOMAIN old = RunnerFields BY <1>2 DEF RunnerIs
<1>4. /\ DOMAIN r = RunnerFields /\ r.eng = old.eng /\ r.pc = "read" /\ r.run = old.run
      /\ r.kind = old.kind /\ r.gone = {} /\ r.reads = Tail(old.reads)
      /\ r.seen = Seeing(old.seen, Head(old.reads))
   BY <1>2, <1>3 DEF RunnerFields
<1>5. r.eng \in AllEngines /\ r.run \in 1..started BY <1>2, <1>4 DEF RunnerIs, Scoring
<1>6. r.eng = "risk" => /\ r.reads = <<>> /\ r.kind = 0 /\ r.seen.inv = inv
   <2> SUFFICES ASSUME r.eng = "risk" PROVE r.reads = <<>> /\ r.kind = 0 /\ r.seen.inv = inv
      OBVIOUS
   <2>1. old.reads = <<"assets">> /\ DOMAIN old.seen = SeenFields /\ old.kind = 0
      BY <1>2, <1>4 DEF RunnerIs, Scoring
   <2>2. Head(old.reads) = "assets" /\ Tail(old.reads) = <<>> BY <2>1
   <2>3. Seeing(old.seen, "assets") = [old.seen EXCEPT !.inv = inv, !.risk = risk] BY DEF Seeing
   <2>4. Seeing(old.seen, "assets").inv = inv BY <2>1, <2>3 DEF SeenFields
   <2> QED BY <1>4, <2>1, <2>2, <2>4
<1>7. /\ DOMAIN s = RunnerFields /\ s.eng = r.eng /\ s.pc = "delete" /\ s.run = r.run
   BY <1>4 DEF RunnerFields
<1>8. Active(p) /\ Run(p) = r.run BY <1>2, <1>4 DEF Active, Run, old
<1> HIDE DEF r, s
<1>9. CASE r.reads # <<>>
   <2>1. RunnerIs(r, Assets(inv), started) BY <1>4, <1>5, <1>6, <1>9 DEF RunnerIs
   <2> QED BY <1>1, <1>4, <1>8, <1>9, <2>1, Moving DEF Scoring
<1>10. CASE r.reads = <<>> /\ r.eng = "risk"
   <2> DEFINE n == NextKind(r)
   <2>0. Goes(p, n) BY <1>1, <1>10
   <2>1. \/ n = Idle
         \/ /\ DOMAIN n = RunnerFields /\ n.kind \in 1..3 /\ n.todo = Kind(n)
            /\ n.pc = "update" /\ n.seen = r.seen /\ n.run = r.run /\ n.eng = r.eng
            /\ n.gone = r.gone /\ n.reads = r.reads
      BY <1>4, <1>6, <1>10, NextKindIs
   <2> HIDE DEF n
   <2>2. CASE n = Idle
      <3>1. RunnerIs(n, Assets(inv), started) BY <2>2, IdleIs DEF RunnerIs
      <3>2. n.pc = "idle" BY <2>2, IdleIs
      <3> QED BY <2>0, <3>1, <3>2, Moving DEF Scoring
   <2>3. CASE n # Idle
      <3>1. ScoresOn(n, Assets(inv)) BY <1>6, <1>10, <2>1, <2>3 DEF ScoresOn
      <3>2. RunnerIs(n, Assets(inv), started) BY <1>5, <2>1, <2>3, <3>1 DEF RunnerIs, Scoring
      <3> QED BY <1>8, <2>0, <2>1, <2>3, <3>2, Moving
   <2> QED BY <2>2, <2>3
<1>11. CASE r.reads = <<>> /\ r.eng # "risk"
   <2>1. s.eng \in Derived BY <1>5, <1>7, <1>11 DEF AllEngines, Derived
   <2>2. RunnerIs(s, Assets(inv), started) BY <1>5, <1>7, <2>1 DEF RunnerIs
   <2>3. Goes(p, s) BY <1>1, <1>11
   <2> QED BY <1>7, <1>8, <2>2, <2>3, Moving DEF Scoring
<1> QED BY <1>9, <1>10, <1>11

-----------------------------------------------------------------------------
(***************************************************************************)
(* Steps that leave the risk columns and the trend alone.                  *)
(***************************************************************************)
LEMMA LastStays ==
    ASSUME trend' = trend
    PROVE  \A a : LastRun(a)' = LastRun(a) /\ Entries(a)' = Entries(a)
BY DEF LastRun, Entries

LEMMA ExcusedStays ==
    ASSUME overlap \subseteq overlap', flawed \subseteq flawed', NEW n, Excused(n)
    PROVE  \E m \in n..MaxRuns : m \in flawed' \/ \E o \in overlap' : m \in o
BY DEF Excused

LEMMA SpoiledExcuses ==
    ASSUME TablesAre, RebuildAssumption, NEW m \in 0..started, NEW n \in 0..m,
           m \in flawed' \/ \E o \in overlap' : m \in o
    PROVE  \E k \in n..MaxRuns : k \in flawed' \/ \E o \in overlap' : k \in o
<1>1. m \in n..MaxRuns BY DEF TablesAre, RebuildAssumption
<1> QED BY <1>1

\* What runner q has written and not told it has after the step, too, or its
\* run is flawed by then; and it has no more.
Tells(q, a) ==
    /\ Ready(q, a) => \/ Ready(q, a)' /\ runner'[q].run = Run(q)
                      \/ Run(q) \in flawed'
    /\ Ready(q, a)' => /\ Ready(q, a) /\ runner'[q].run = Run(q)
                       /\ runner'[q].seen = runner[q].seen

LEMMA TrendKeeps ==
    ASSUME RInv, RebuildAssumption, inv' = inv, risk' = risk, trend' = trend,
           overlap \subseteq overlap', flawed \subseteq flawed',
           \A q \in Runners, a \in Assets(inv) : Tells(q, a)
    PROVE  Ordered' /\ Stands' /\ Trends'
<1> USE DEF RInv
<1>1. Assets(inv') = Assets(inv) OBVIOUS
<1>2. Ordered' BY <1>1, LastStays DEF Ordered, IsLast
<1>3. Stands'
   <2> SUFFICES ASSUME NEW q \in Runners, NEW a \in Assets(inv), Ready(q, a)'
                PROVE  \/ risk[a] = RiskTable[runner'[q].seen.inv][a]
                       \/ runner'[q].run \in flawed' \/ \E o \in overlap' : runner'[q].run \in o
      BY <1>1 DEF Stands, Spoiled, Run
   <2>1. Ready(q, a) /\ runner'[q].run = Run(q) /\ runner'[q].seen = runner[q].seen
      BY DEF Tells
   <2>2. risk[a] = RiskTable[runner[q].seen.inv][a] \/ Spoiled(Run(q)) BY <2>1 DEF Stands
   <2> QED BY <2>1, <2>2 DEF Spoiled
<1>4. ASSUME NEW a \in Assets(inv) PROVE TrendIs(a)'
   <2>1. CASE Excused(LastRun(a))
      BY <2>1, LastStays, ExcusedStays DEF TrendIs, Excused
   <2>2. CASE Shown(a) BY <2>2, LastStays DEF TrendIs, Shown
   <2>3. ASSUME NEW q \in Runners, Ready(q, a), LastRun(a) <= Run(q) PROVE TrendIs(a)'
      <3>1. CASE Ready(q, a)' /\ runner'[q].run = Run(q)
         BY <2>3, <3>1, LastStays DEF TrendIs, Waits, Run
      <3>2. CASE Run(q) \in flawed'
         <4>1. RunnerIs(runner[q], Assets(inv), started) /\ runner[q].pc \in Scoring
            BY <2>3 DEF RunnersAre, Ready
         <4>2. Run(q) \in 0..started
            BY <4>1 DEF RunnerIs, Run, Scoring, TablesAre, RebuildAssumption
         <4>3. LastRun(a) \in Nat BY DEF Ordered, IsLast
         <4>4. LastRun(a) \in 0..Run(q) BY <2>3, <4>2, <4>3
         <4>5. Excused(LastRun(a))' BY <3>2, <4>2, <4>4, SpoiledExcuses, LastStays DEF Excused
         <4> QED BY <4>5 DEF TrendIs
      <3> QED BY <2>3, <3>1, <3>2 DEF Tells
   <2> QED BY <2>1, <2>2, <2>3 DEF Trends, TrendIs, Waits
<1>5. Trends' BY <1>1, <1>4 DEF Trends
<1> QED BY <1>2, <1>3, <1>5

\* A runner that writes no risk column before or after has nothing to tell.
LEMMA OthersTell ==
    ASSUME NEW p \in Runners, NEW r, Moved(p, r), NEW a,
           ~Ready(p, a) \/ Run(p) \in flawed', ~Ready(p, a)'
    PROVE  \A q \in Runners : Tells(q, a)
<1>1. Tells(p, a) BY DEF Tells
<1>2. ASSUME NEW q \in Runners, q # p PROVE Tells(q, a)
   <2>1. Same(q) BY <1>2 DEF Moved
   <2>2. Kind(runner'[q]) = Kind(runner[q]) BY <2>1 DEF Same, Kind
   <2>3. Ready(q, a)' <=> Ready(q, a) BY <2>1, <2>2 DEF Ready, Same
   <2> QED BY <2>1, <2>3 DEF Tells, Same, Run
<1> QED BY <1>1, <1>2

LEMMA Reading ==
    ASSUME RInv, RebuildAssumption, NEW p \in Runners, Read(p)
    PROVE  RInv'
<1> USE DEF RInv
<1>1. PICK r : /\ Moved(p, r) /\ RunnerIs(r, Assets(inv), started)
               /\ r.pc # "idle" => Active(p) /\ r.run = Run(p)
               /\ r.pc # "insert" /\ (r.pc \in Scoring => r.todo = Kind(r))
   BY ReadMoves
<1>2. /\ inv' = inv /\ risk' = risk /\ trend' = trend /\ table' = table /\ started' = started
      /\ overlap' = overlap /\ flawed' = flawed /\ At(p, "read")
   BY DEF Read
<1>3. started' \in Nat /\ started <= started' BY <1>2 DEF TablesAre, RebuildAssumption
<1>4. RunnersAre' BY <1>1, <1>2, <1>3, RunnersStay
<1>5. TablesAre' BY <1>2 DEF TablesAre
<1>6. Met' BY <1>1, <1>2, MovedKeeps, MetStays
<1>7. OneGeneration' /\ Emptied' BY <1>1, <1>2, TablesKeep
<1>8. ASSUME NEW a PROVE ~Ready(p, a) /\ ~Ready(p, a)'
   BY <1>1, <1>2 DEF Ready, At, Scoring, Moved
<1>9. Ordered' /\ Stands' /\ Trends' BY <1>1, <1>2, <1>8, OthersTell, TrendKeeps
<1> QED BY <1>4, <1>5, <1>6, <1>7, <1>9

LEMMA Starting ==
    ASSUME RInv, RebuildAssumption, NEW p \in Runners, NEW e \in AllEngines, Starts(p, e)
    PROVE  RInv'
<1> USE DEF RInv
<1> DEFINE r == [Idle EXCEPT !.eng = e, !.pc = "read", !.run = started + 1,
                             !.reads = ReadOrder(e)]
<1>1. /\ inv' = inv /\ risk' = risk /\ trend' = trend /\ table' = table
      /\ started' = started + 1 /\ flawed' = flawed /\ ~Active(p) /\ started < MaxRuns
      /\ overlap' = overlap \cup {{started + 1, n} : n \in ActiveRuns} /\ Goes(p, r)
   BY DEF Starts
<1>2. started \in Nat /\ started' \in 0..MaxRuns /\ started' \in Nat /\ started <= started'
   BY <1>1 DEF TablesAre, RebuildAssumption
<1>3. /\ DOMAIN r = RunnerFields /\ r.eng = e /\ r.pc = "read" /\ r.run = started + 1
      /\ r.reads = ReadOrder(e) /\ r.seen = Nothing /\ r.kind = 0
   BY IdleIs DEF RunnerFields
<1> HIDE DEF r
<1>4. e = "risk" => r.reads = <<"assets">> BY <1>3 DEF ReadOrder
<1>5. RunnerIs(r, Assets(inv), started') BY <1>1, <1>2, <1>3, <1>4, IdleIs DEF RunnerIs
<1>6. Moved(p, r) BY <1>1, Moving
<1>7. RunnersAre' BY <1>1, <1>2, <1>5, <1>6, RunnersStay
<1>8. TablesAre' BY <1>1, <1>2 DEF TablesAre
<1>9. ASSUME NEW q \in Runners, q # p
      PROVE  runner'[q].pc = runner[q].pc /\ runner'[q].run = Run(q)
   BY <1>6, <1>9 DEF Moved, Same, Run
<1>10. \A q \in Runners : Active(q) => Run(q) \in 1..started
   BY DEF RunnersAre, RunnerIs, Active, Run
<1>11. Met'
   <2>1. ASSUME NEW q \in Runners, runner'[q].pc # "idle",
                NEW n \in (runner'[q].run + 1)..started'
         PROVE  {n, runner'[q].run} \in overlap'
      <3>0. q # p BY <1>1, <1>2, <1>3, <1>6, <2>1 DEF Moved
      <3>1. Active(q) /\ runner'[q].run = Run(q) BY <1>9, <2>1, <3>0 DEF Active
      <3>2. CASE n = started + 1 BY <1>1, <3>1, <3>2 DEF ActiveRuns, Run
      <3>3. CASE n # started + 1
         <4>1. n \in (Run(q) + 1)..started BY <1>1, <1>2, <1>10, <2>1, <3>1, <3>3
         <4> QED BY <1>1, <3>1, <4>1 DEF Met, Meet
      <3> QED BY <3>2, <3>3
   <2>2. ASSUME NEW q \in Runners, NEW s \in Runners, q # s,
                runner'[q].pc # "idle", runner'[s].pc # "idle"
         PROVE  runner'[q].run # runner'[s].run
      <3>1. CASE q # p /\ s # p BY <1>9, <2>2, <3>1 DEF Met, Active, Run
      <3>2. CASE q = p BY <1>2, <1>3, <1>6, <1>9, <1>10, <2>2, <3>2 DEF Active, Moved
      <3>3. CASE s = p BY <1>2, <1>3, <1>6, <1>9, <1>10, <2>2, <3>3 DEF Active, Moved
      <3> QED BY <3>1, <3>2, <3>3
   <2> QED BY <2>1, <2>2 DEF Met, Meet, Active, Run
<1>12. OneGeneration' /\ Emptied' BY <1>1, <1>3, <1>6, TablesKeep
<1>13. ASSUME NEW a PROVE ~Ready(p, a) /\ ~Ready(p, a)'
   BY <1>1, <1>3, <1>6 DEF Ready, Active, Scoring, Moved
<1>14. Ordered' /\ Stands' /\ Trends' BY <1>1, <1>6, <1>13, OthersTell, TrendKeeps
<1> QED BY <1>7, <1>8, <1>11, <1>12, <1>14

\* The statement that stores nothing: the run ends or goes on.
LEMMA Failing ==
    ASSUME RInv, RebuildAssumption, NEW p \in Runners, Fail(p) \/ FailUnseen(p)
    PROVE  RInv'
<1> USE DEF RInv
<1> DEFINE old == runner[p]
<1>1. /\ inv' = inv /\ risk' = risk /\ trend' = trend /\ table' = table /\ started' = started
      /\ overlap' = overlap /\ flawed' = flawed \cup {Run(p)}
      /\ old.pc \in {"read", "delete", "insert"}
   BY DEF Fail, FailUnseen
<1>2. started' \in Nat /\ started <= started' BY <1>1 DEF TablesAre, RebuildAssumption
<1>3. RunnerIs(old, Assets(inv), started) BY DEF RunnersAre
<1>4. Active(p) BY <1>1 DEF Active
<1>5. PICK r : /\ Moved(p, r) /\ RunnerIs(r, Assets(inv), started)
               /\ r.pc # "idle" => r.run = Run(p)
               /\ r.pc = "insert" => r.eng = "snapshot"
               /\ r.pc \notin Scoring
   <2>1. CASE Fail(p)
      <3>1. Moved(p, Idle) BY <2>1, Moving DEF Fail
      <3>2. RunnerIs(Idle, Assets(inv), started) BY IdleIs DEF RunnerIs
      <3> QED BY <3>1, <3>2, IdleIs DEF Scoring
   <2>2. CASE FailUnseen(p)
      <3> DEFINE last == Len(old.reads) = 1
                 zero == IF Head(old.reads) = "assets"
                         THEN [Seeing(old.seen, "assets") EXCEPT !.blind = TRUE]
                         ELSE old.seen
                 s == [old EXCEPT !.pc = "insert"]
                 t == [old EXCEPT !.seen = zero, !.reads = Tail(@),
                                  !.pc = IF last THEN "delete" ELSE "read"]
      <3>1. Goes(p, IF old.pc = "delete" THEN s ELSE t) /\ old.eng = "snapshot"
         BY <2>2 DEF FailUnseen, Eng
      <3>2. DOMAIN old = RunnerFields /\ old.run \in 1..started
         BY <1>1, <1>3 DEF RunnerIs, Scoring
      <3> HIDE DEF old
      <3>3. /\ DOMAIN s = RunnerFields /\ s.pc = "insert" /\ s.eng = old.eng /\ s.run = old.run
         BY <3>2 DEF RunnerFields
      <3> HIDE DEF last, zero
      <3>4. /\ DOMAIN t = RunnerFields /\ t.pc \in {"delete", "read"} /\ t.eng = old.eng
            /\ t.run = old.run
         BY <3>2 DEF RunnerFields
      <3> HIDE DEF s, t
      <3>5. "snapshot" \in Derived /\ "snapshot" \in AllEngines BY DEF Derived, AllEngines
      <3>6. RunnerIs(s, Assets(inv), started) BY <3>1, <3>2, <3>3, <3>5 DEF RunnerIs
      <3>7. RunnerIs(t, Assets(inv), started) BY <3>1, <3>2, <3>4, <3>5 DEF RunnerIs
      <3>8. Moved(p, IF old.pc = "delete" THEN s ELSE t) BY <3>1, Moving
      <3>9. old.run = Run(p) BY DEF old, Run
      <3>10. CASE old.pc = "delete"
         BY <3>1, <3>3, <3>6, <3>8, <3>9, <3>10 DEF Scoring
      <3>11. CASE old.pc # "delete"
         BY <3>1, <3>4, <3>7, <3>8, <3>9, <3>11 DEF Scoring
      <3> QED BY <3>10, <3>11
   <2> QED BY <2>1, <2>2
<1>6. RunnersAre' BY <1>1, <1>2, <1>5, RunnersStay
<1>7. TablesAre' BY <1>1 DEF TablesAre
<1>8. Met' BY <1>1, <1>4, <1>5, MovedKeeps, MetStays
<1>9. OneGeneration' /\ Emptied'
   <2>1. overlap \subseteq overlap' /\ table' = table BY <1>1
   <2>2. Moved(p, r) /\ (r.pc = "insert" => r.eng = "snapshot") BY <1>5
   <2>3. OneGeneration /\ Emptied /\ RunnersAre OBVIOUS
   <2> HIDE DEF RInv
   <2> QED BY <2>1, <2>2, <2>3, TablesKeep
<1>10. ASSUME NEW a PROVE ~Ready(p, a) /\ ~Ready(p, a)'
   BY <1>1, <1>5 DEF Ready, Scoring, Moved
<1>11. Ordered' /\ Stands' /\ Trends' BY <1>1, <1>5, <1>10, OthersTell, TrendKeeps
<1> QED BY <1>6, <1>7, <1>8, <1>9, <1>11

LEMMA Crashing ==
    ASSUME RInv, RebuildAssumption, Crash
    PROVE  RInv'
<1> USE DEF RInv
<1>1. /\ inv' = inv /\ risk' = risk /\ trend' = trend /\ table' = table /\ started' = started
      /\ overlap' = overlap /\ flawed' = flawed \cup ActiveRuns
      /\ runner' = [p \in Runners |-> Idle]
   BY DEF Crash
<1>2. RunnersAre' BY <1>1, IdleIs DEF RunnersAre, RunnerIs
<1>3. TablesAre' BY <1>1 DEF TablesAre
<1>4. \A p \in Runners : runner'[p].pc = "idle" BY <1>1, IdleIs
<1>5. Met' /\ Emptied' BY <1>4 DEF Met, Emptied, At, Active
<1>6. OneGeneration' BY <1>1 DEF OneGeneration
<1>7. ASSUME NEW p \in Runners, NEW a PROVE Tells(p, a)
   <2>1. ~Ready(p, a)' BY <1>4 DEF Ready, Scoring
   <2>2. Ready(p, a) => Run(p) \in ActiveRuns BY DEF Ready, ActiveRuns, Active, Run, Scoring
   <2> QED BY <1>1, <2>1, <2>2 DEF Tells
<1>8. Ordered' /\ Stands' /\ Trends' BY <1>1, <1>7, TrendKeeps
<1> QED BY <1>2, <1>3, <1>5, <1>6, <1>8

\* The worker's switch is no runner's business.
LEMMA WorkerSwitches ==
    ASSUME RInv, RebuildAssumption, inv' = inv, risk' = risk, trend' = trend, table' = table,
           runner' = runner, started' = started, overlap' = overlap, flawed' = flawed
    PROVE  RInv'
<1> USE DEF RInv
<1>1. RunnersAre' /\ TablesAre' BY DEF RunnersAre, TablesAre
<1>2. Met' BY DEF Met, Active, Run, Meet
<1>3. OneGeneration' /\ Emptied' BY DEF OneGeneration, Emptied, At, Eng, Run, Meet
<1>4. Ordered' BY DEF Ordered, IsLast, Entries, LastRun
<1>5. Stands' BY DEF Stands, Ready, Spoiled, Run
<1>6. Trends'
   BY DEF Trends, TrendIs, Excused, Waits, Shown, Ready, Run, Entries, LastRun
<1> QED BY <1>1, <1>2, <1>3, <1>4, <1>5, <1>6

-----------------------------------------------------------------------------
(***************************************************************************)
(* Deletes and inserts.                                                    *)
(***************************************************************************)
LEMMA RowsOfRun ==
    ASSUME NEW n, NEW rows, NEW r \in Of(n, rows)
    PROVE  r.run = n
BY DEF Of

LEMMA Deleting ==
    ASSUME RInv, RebuildAssumption, NEW p \in Runners, Delete(p)
    PROVE  RInv'
<1> USE DEF RInv
<1> DEFINE old == runner[p]
           r == [old EXCEPT !.pc = "insert"]
<1>1. /\ inv' = inv /\ risk' = risk /\ trend' = trend /\ started' = started
      /\ overlap' = overlap /\ flawed' = flawed /\ old.pc = "delete"
      /\ table' = [table EXCEPT ![Eng(p)] = {}] /\ Writes(p, r)
   BY DEF Delete, At
<1>2. started' \in Nat /\ started <= started' BY <1>1 DEF TablesAre, RebuildAssumption
<1>3. RunnerIs(old, Assets(inv), started) BY DEF RunnersAre
<1>4. /\ DOMAIN old = RunnerFields /\ old.run \in 1..started /\ old.eng \in Derived
   BY <1>1, <1>3 DEF RunnerIs, Scoring
<1>5. Active(p) /\ Run(p) = old.run /\ Eng(p) = old.eng BY <1>1 DEF Active, Run, Eng
<1> HIDE DEF old
<1>6. /\ DOMAIN r = RunnerFields /\ r.pc = "insert" /\ r.eng = old.eng /\ r.run = old.run
   BY <1>4 DEF RunnerFields
<1> HIDE DEF r
<1>7. RunnerIs(r, Assets(inv), started) BY <1>4, <1>6 DEF RunnerIs
<1>8. Moved(p, r) BY <1>1, Moving
<1>9. RunnersAre' BY <1>1, <1>2, <1>7, <1>8, RunnersStay
<1>10. DOMAIN table = Derived BY DEF TablesAre
<1>11. /\ DOMAIN table' = Derived /\ table'[old.eng] = {}
       /\ \A e \in Derived : table'[e] \subseteq table[e]
   BY <1>1, <1>4, <1>5, <1>10
<1>12. TablesAre' BY <1>1, <1>11 DEF TablesAre
<1>13. Met' BY <1>1, <1>5, <1>6, <1>8, MovedKeeps, MetStays
<1>14. OneGeneration' BY <1>1, <1>11 DEF OneGeneration
<1>15. ASSUME NEW q \in Runners, runner'[q].pc = "insert", runner'[q].eng # "snapshot",
              NEW s \in table'[runner'[q].eng]
       PROVE  Meet(s.run, runner'[q].run)
   <2>1. CASE q = p BY <1>6, <1>8, <1>11, <1>15, <2>1 DEF Moved
   <2>2. CASE q # p
      <3>1. At(q, "insert") /\ Eng(q) = runner'[q].eng /\ Run(q) = runner'[q].run
         BY <1>8, <1>15, <2>2 DEF Moved, Same, At, Eng, Run
      <3>2. RunnerIs(runner[q], Assets(inv), started) BY DEF RunnersAre
      <3>3. Eng(q) \in Derived BY <3>1, <3>2 DEF RunnerIs, At, Eng, Scoring
      <3> QED BY <1>11, <1>15, <3>1, <3>3 DEF Emptied
   <2> QED BY <2>1, <2>2
<1>16. Emptied' BY <1>1, <1>15 DEF Emptied, At, Eng, Run, Meet
<1>17. ASSUME NEW a PROVE ~Ready(p, a) /\ ~Ready(p, a)'
   BY <1>1, <1>6, <1>8 DEF Ready, Scoring, Moved, old
<1>18. Ordered' /\ Stands' /\ Trends' BY <1>1, <1>8, <1>17, OthersTell, TrendKeeps
<1> QED BY <1>9, <1>12, <1>13, <1>14, <1>16, <1>18

LEMMA Inserting ==
    ASSUME RInv, RebuildAssumption, NEW p \in Runners, Insert(p)
    PROVE  RInv'
<1> USE DEF RInv
<1> DEFINE old == runner[p]
           new == Of(Run(p), Compute(Eng(p), old.seen))
           refused == Eng(p) = "snapshot" /\ table["snapshot"] # {}
<1>1. /\ inv' = inv /\ risk' = risk /\ trend' = trend /\ started' = started
      /\ overlap' = overlap /\ flawed \subseteq flawed' /\ old.pc = "insert"
      /\ table' = [table EXCEPT ![Eng(p)] = IF refused THEN @ ELSE @ \cup new]
      /\ Writes(p, Idle)
   BY DEF Insert, At
<1>2. started' \in Nat /\ started <= started' BY <1>1 DEF TablesAre, RebuildAssumption
<1>3. RunnerIs(old, Assets(inv), started) BY DEF RunnersAre
<1>4. Run(p) \in 1..started /\ Eng(p) \in Derived
   BY <1>1, <1>3 DEF RunnerIs, Scoring, Run, Eng
<1>5. Active(p) /\ At(p, "insert") BY <1>1 DEF Active, At
<1>6. \A r \in new : r.run = Run(p) BY RowsOfRun
<1> HIDE DEF old, new
<1>7. Moved(p, Idle) /\ RunnerIs(Idle, Assets(inv), started) /\ Idle.pc = "idle"
   BY <1>1, Moving, IdleIs DEF RunnerIs
<1>8. RunnersAre' BY <1>1, <1>2, <1>7, RunnersStay
<1>9. DOMAIN table = Derived BY DEF TablesAre
<1>10. /\ DOMAIN table' = Derived
       /\ \A e \in Derived : e # Eng(p) => table'[e] = table[e]
       /\ table'[Eng(p)] \subseteq table[Eng(p)] \cup new
       /\ refused => table'[Eng(p)] = table[Eng(p)]
   BY <1>1, <1>4, <1>9
<1>11. TablesAre' BY <1>1, <1>2, <1>4, <1>6, <1>10 DEF TablesAre, RebuildAssumption
<1>12. Met' BY <1>1, <1>7, MovedKeeps, MetStays
\* What the table had is of runs this one met.
<1>13. \A r \in table[Eng(p)] : refused \/ Meet(r.run, Run(p))
   BY <1>4, <1>5 DEF Emptied
<1>14. ASSUME NEW e \in Derived, NEW r \in table'[e], NEW s \in table'[e], r.run # s.run
       PROVE  Meet(r.run, s.run)
   <2>1. CASE r \in table[e] /\ s \in table[e] BY <1>14, <2>1 DEF OneGeneration, Meet
   <2>2. CASE r \notin table[e]
      <3>1. e = Eng(p) /\ r \in new /\ ~refused BY <1>10, <1>14, <2>2
      <3>2. r.run = Run(p) /\ s \notin new BY <1>6, <1>14, <3>1
      <3> QED BY <1>10, <1>13, <1>14, <3>1, <3>2, PairsTurn
   <2>3. CASE s \notin table[e]
      <3>1. e = Eng(p) /\ s \in new /\ ~refused BY <1>10, <1>14, <2>3
      <3>2. s.run = Run(p) /\ r \notin new BY <1>6, <1>14, <3>1
      <3> QED BY <1>10, <1>13, <1>14, <3>1, <3>2, PairsTurn
   <2> QED BY <2>1, <2>2, <2>3
<1>15. OneGeneration' BY <1>1, <1>14 DEF OneGeneration, Meet
<1>16. ASSUME NEW q \in Runners, runner'[q].pc = "insert", runner'[q].eng # "snapshot",
              NEW s \in table'[runner'[q].eng]
       PROVE  Meet(s.run, runner'[q].run)
   <2>1. q # p BY <1>7, <1>16 DEF Moved
   <2>2. At(q, "insert") /\ Eng(q) = runner'[q].eng /\ Run(q) = runner'[q].run
      BY <1>7, <1>16, <2>1 DEF Moved, Same, At, Eng, Run
   <2>3. RunnerIs(runner[q], Assets(inv), started) BY DEF RunnersAre
   <2>4. Eng(q) \in Derived /\ Active(q)
      BY <2>2, <2>3 DEF RunnerIs, At, Eng, Scoring, Active
   <2>5. CASE s \in table[Eng(q)] BY <1>16, <2>2, <2>5 DEF Emptied
   <2>6. CASE s \notin table[Eng(q)]
      <3>1. s.run = Run(p) BY <1>6, <1>10, <1>16, <2>2, <2>4, <2>6
      <3> QED BY <1>5, <2>1, <2>2, <2>4, <3>1, ActiveMeet
   <2> QED BY <2>5, <2>6
<1>17. Emptied' BY <1>1, <1>16 DEF Emptied, At, Eng, Run, Meet
<1>18. ASSUME NEW a PROVE ~Ready(p, a) /\ ~Ready(p, a)'
   BY <1>1, <1>7 DEF Ready, Scoring, Moved, old
<1>19. Ordered' /\ Stands' /\ Trends' BY <1>1, <1>7, <1>18, OthersTell, TrendKeeps
<1> QED BY <1>8, <1>11, <1>12, <1>15, <1>17, <1>19

-----------------------------------------------------------------------------
(***************************************************************************)
(* Risk columns and trend.                                                 *)
(***************************************************************************)
LEMMA MaxIs ==
    ASSUME NEW S, NEW n \in S, S \subseteq Nat, \A x \in S : x <= n
    PROVE  Max(S) = n
<1>1. \A m \in S : (\A x \in S : m >= x) => m = n
   <2> SUFFICES ASSUME NEW m \in S, \A x \in S : m >= x PROVE m = n OBVIOUS
   <2>1. m \in Nat /\ n \in Nat /\ m <= n /\ m >= n OBVIOUS
   <2> QED BY <2>1
<1>2. \A x \in S : n >= x OBVIOUS
<1> QED BY <1>1, <1>2 DEF Max

LEMMA LastIs ==
    ASSUME NEW a, NEW n, IsLast(a, n), \A h \in Entries(a) : h.run \in Nat
    PROVE  LastRun(a) = n
<1> DEFINE S == {0} \cup {h.run : h \in Entries(a)}
<1>1. n \in S /\ S \subseteq Nat /\ \A x \in S : x <= n BY DEF IsLast
<1> HIDE DEF S
<1>2. Max(S) = n BY <1>1, MaxIs
<1> QED BY <1>2 DEF LastRun, S

LEMMA LastIn ==
    ASSUME TablesAre, RebuildAssumption, Ordered, NEW a \in Assets(inv)
    PROVE  LastRun(a) \in 0..started
<1>1. IsLast(a, LastRun(a)) BY DEF Ordered
<1>2. \A h \in Entries(a) : h.run \in 0..started BY DEF Entries, TablesAre
<1> QED BY <1>1, <1>2 DEF IsLast, TablesAre, RebuildAssumption

\* A trend that ends with a run that started later ends with one that was met.
LEMMA LaterIsExcused ==
    ASSUME RInv, RebuildAssumption, NEW p \in Runners, Active(p), NEW a \in Assets(inv),
           ~(LastRun(a) <= Run(p))
    PROVE  Excused(LastRun(a))
<1> USE DEF RInv
<1>1. LastRun(a) \in 0..started BY LastIn
<1>2. RunnerIs(runner[p], Assets(inv), started) BY DEF RunnersAre
<1>3. Run(p) \in 1..started /\ started \in 0..MaxRuns /\ MaxRuns \in Nat
   BY <1>2 DEF RunnerIs, Active, Run, TablesAre, RebuildAssumption
<1>4. LastRun(a) \in (Run(p) + 1)..started BY <1>1, <1>3
<1>5. Meet(LastRun(a), Run(p)) BY <1>4 DEF Met
<1>6. LastRun(a) \in LastRun(a)..MaxRuns BY <1>1, <1>3
<1> QED BY <1>5, <1>6 DEF Meet, Excused

LEMMA SpoiledIs ==
    ASSUME TablesAre, RebuildAssumption, NEW n \in 0..started, Spoiled(n)
    PROVE  Excused(n)
<1>1. n \in n..MaxRuns BY DEF TablesAre, RebuildAssumption
<1> QED BY <1>1 DEF Spoiled, Excused

LEMMA Updating ==
    ASSUME RInv, RebuildAssumption, NEW p \in Runners, UpdateAsset(p)
    PROVE  RInv'
<1> USE DEF RInv
<1> DEFINE old == runner[p]
<1>1. PICK a \in old.todo, ok \in BOOLEAN :
         /\ flawed' = IF ok THEN flawed ELSE flawed \cup {Run(p)}
         /\ risk' = IF ok /\ a \in DOMAIN risk \ old.gone
                    THEN [risk EXCEPT ![a] = RiskTable[old.seen.inv][a]] ELSE risk
         /\ Writes(p, [old EXCEPT !.todo = @ \ {a},
                                  !.pc = IF old.todo = {a} THEN "trend" ELSE "update"])
   BY DEF UpdateAsset
<1>2. /\ inv' = inv /\ trend' = trend /\ table' = table /\ started' = started
      /\ overlap' = overlap /\ old.pc = "update"
   BY DEF UpdateAsset, At
<1> DEFINE r == [old EXCEPT !.todo = @ \ {a}, !.pc = IF old.todo = {a} THEN "trend" ELSE "update"]
<1>3. started' \in Nat /\ started <= started' BY <1>2 DEF TablesAre, RebuildAssumption
<1>4. RunnerIs(old, Assets(inv), started) BY DEF RunnersAre
<1>5. DOMAIN old = RunnerFields /\ old.run \in 1..started /\ ScoresOn(old, Assets(inv))
   BY <1>2, <1>4 DEF RunnerIs, Scoring
<1>6. Active(p) /\ Run(p) = old.run BY <1>2 DEF Active, Run
<1>7. Moved(p, r) BY <1>1, Moving
<1>o. old = runner[p] OBVIOUS
<1> HIDE DEF old
<1>8. /\ DOMAIN r = RunnerFields /\ r.pc \in Scoring /\ r.eng = old.eng /\ r.run = old.run
      /\ r.kind = old.kind /\ r.seen = old.seen /\ r.gone = old.gone
      /\ r.todo = old.todo \ {a} /\ (r.pc = "trend" => old.todo = {a})
   BY <1>5 DEF RunnerFields, Scoring
<1> HIDE DEF r
<1>9. Kind(r) = Kind(old) BY <1>8 DEF Kind
<1>10. ScoresOn(r, Assets(inv)) BY <1>5, <1>8, <1>9 DEF ScoresOn
<1>11. RunnerIs(r, Assets(inv), started) BY <1>5, <1>8, <1>10 DEF RunnerIs
<1>12. RunnersAre' BY <1>2, <1>3, <1>7, <1>11, RunnersStay
<1>13. TablesAre' BY <1>1, <1>2 DEF TablesAre
<1>14. Met' BY <1>2, <1>6, <1>7, <1>8, MovedKeeps, MetStays
<1>15. OneGeneration' /\ Emptied' BY <1>2, <1>7, <1>8, TablesKeep DEF Scoring
<1>16. Assets(inv') = Assets(inv) BY <1>2
<1>17. Ordered' BY <1>2, <1>16, LastStays DEF Ordered, IsLast
\* What is ready before is so after, and p's is with a.
<1>18. ASSUME NEW q \in Runners, q # p, NEW b
       PROVE  /\ Ready(q, b)' <=> Ready(q, b)
              /\ runner'[q].run = Run(q) /\ runner'[q].seen = runner[q].seen
   <2>1. Same(q) BY <1>7, <1>18 DEF Moved
   <2>2. Kind(runner'[q]) = Kind(runner[q]) BY <2>1 DEF Same, Kind
   <2> QED BY <2>1, <2>2 DEF Same, Ready, Run
<1>19. runner'[p] = r BY <1>7 DEF Moved
<1>20. ASSUME NEW b
       PROVE  /\ Ready(p, b) => Ready(p, b)'
              /\ Ready(p, b)' => Ready(p, b) \/ (b = a /\ a \notin old.gone)
              /\ a \notin old.gone => Ready(p, a)'
   <2>1. Ready(p, b) <=> b \in Kind(old) /\ b \notin old.todo \cup old.gone
      BY <1>2, <1>o DEF Ready, Scoring
   <2>2. \A c : Ready(p, c)' <=> c \in Kind(r) /\ c \notin r.todo \cup r.gone
      BY <1>8, <1>19 DEF Ready
   <2>3. old.todo \subseteq Kind(old) BY <1>5 DEF ScoresOn
   <2> QED BY <1>8, <1>9, <2>1, <2>2, <2>3
<1>21. DOMAIN risk = Assets(inv) BY DEF TablesAre
<1>22. \A b : b # a \/ ~ok \/ a \in old.gone \/ a \notin Assets(inv) => risk'[b] = risk[b]
   BY <1>1, <1>21
<1>23. ok /\ a \notin old.gone /\ a \in Assets(inv) => risk'[a] = RiskTable[old.seen.inv][a]
   BY <1>1, <1>21
<1>24. ASSUME NEW q \in Runners, NEW b \in Assets(inv), Ready(q, b)'
       PROVE  \/ risk'[b] = RiskTable[runner'[q].seen.inv][b]
              \/ runner'[q].run \in flawed' \/ \E o \in overlap' : runner'[q].run \in o
   <2>1. CASE q # p /\ risk'[b] = risk[b]
      <3>1. Ready(q, b) BY <1>18, <1>24, <2>1
      <3>2. risk[b] = RiskTable[runner[q].seen.inv][b] \/ Spoiled(Run(q)) BY <3>1 DEF Stands
      <3> QED BY <1>1, <1>2, <1>18, <2>1, <3>2 DEF Spoiled
   <2>2. CASE q # p /\ risk'[b] # risk[b]
      <3>1. Ready(q, b) BY <1>18, <1>24, <2>2
      <3>2. Active(q) BY <3>1 DEF Ready, Active, Scoring
      <3>3. Meet(Run(p), Run(q)) BY <1>6, <2>2, <3>2, ActiveMeet
      <3> QED BY <1>2, <1>18, <2>2, <3>3 DEF Meet
   <2>3. CASE q = p
      <3>1. runner'[q].run = Run(p) /\ runner'[q].seen = old.seen BY <1>6, <1>8, <1>19, <2>3
      <3>2. CASE b = a /\ a \notin old.gone
         BY <1>1, <1>23, <3>1, <3>2
      <3>3. CASE ~(b = a /\ a \notin old.gone)
         <4>1. Ready(p, b) /\ risk'[b] = risk[b] BY <1>20, <1>22, <1>24, <2>3, <3>3
         <4>2. risk[b] = RiskTable[old.seen.inv][b] \/ Spoiled(Run(p)) BY <1>o, <4>1 DEF Stands
         <4> QED BY <1>1, <1>2, <3>1, <4>1, <4>2 DEF Spoiled
      <3> QED BY <3>2, <3>3
   <2> QED BY <2>1, <2>2, <2>3
<1>25. Stands' BY <1>16, <1>24 DEF Stands, Spoiled, Run
<1>26. ASSUME NEW b \in Assets(inv) PROVE TrendIs(b)'
   <2>0. flawed \subseteq flawed' BY <1>1
   <2>1. CASE Excused(LastRun(b)) BY <1>2, <2>0, <2>1, LastStays, ExcusedStays DEF TrendIs, Excused
   <2>2. ASSUME NEW q \in Runners, Ready(q, b), LastRun(b) <= Run(q) PROVE TrendIs(b)'
      <3>1. Ready(q, b)' /\ runner'[q].run = Run(q)
         BY <1>6, <1>8, <1>18, <1>19, <1>20, <2>2
      <3> QED BY <1>2, <2>2, <3>1, LastStays DEF TrendIs, Waits, Run
   <2>3. CASE Shown(b) /\ risk'[b] = risk[b] BY <1>2, <2>3, LastStays DEF TrendIs, Shown
   <2>4. CASE risk'[b] # risk[b]
      <3>1. b = a /\ a \notin old.gone BY <1>22, <2>4
      <3>2. Ready(p, b)' /\ runner'[p].run = Run(p) BY <1>6, <1>8, <1>19, <1>20, <3>1
      <3>3. CASE LastRun(b) <= Run(p)
         BY <1>2, <3>2, <3>3, LastStays DEF TrendIs, Waits, Run
      <3>4. CASE ~(LastRun(b) <= Run(p))
         <4>1. Excused(LastRun(b)) BY <1>6, <3>4, LaterIsExcused
         <4> QED BY <2>1, <4>1
      <3> QED BY <3>3, <3>4
   <2>5. TrendIs(b) BY DEF Trends
   <2> QED BY <2>1, <2>2, <2>3, <2>4, <2>5 DEF TrendIs, Waits
<1>27. Trends' BY <1>16, <1>26 DEF Trends
<1> QED BY <1>12, <1>13, <1>14, <1>15, <1>17, <1>25, <1>27

LEMMA Appending ==
    ASSUME RInv, RebuildAssumption, NEW p \in Runners, AppendTrend(p)
    PROVE  RInv'
<1> USE DEF RInv
<1> DEFINE old == runner[p]
           n == NextKind(old)
           Entry(a) == [asset |-> a, run |-> old.run, score |-> RiskTable[old.seen.inv][a].score]
           new == {Entry(a) : a \in Kind(old)}
<1>1. PICK ok \in BOOLEAN :
         /\ flawed' = IF ok THEN flawed ELSE flawed \cup {old.run}
         /\ trend' = IF ok THEN trend \cup {h \in new : h.asset \in Assets(inv) \ old.gone}
                     ELSE trend
   BY DEF AppendTrend
<1>2. /\ inv' = inv /\ risk' = risk /\ table' = table /\ started' = started
      /\ overlap' = overlap /\ old.pc = "trend" /\ Goes(p, n)
   BY DEF AppendTrend, At
<1>3. started' \in Nat /\ started <= started' BY <1>2 DEF TablesAre, RebuildAssumption
<1>4. RunnerIs(old, Assets(inv), started) BY DEF RunnersAre
<1>5. DOMAIN old = RunnerFields /\ old.run \in 1..started /\ ScoresOn(old, Assets(inv))
   BY <1>2, <1>4 DEF RunnerIs, Scoring
<1>6. Active(p) /\ Run(p) = old.run BY <1>2 DEF Active, Run
<1>7. Moved(p, n) BY <1>2, Moving
<1>8. \/ n = Idle
      \/ /\ DOMAIN n = RunnerFields
         /\ n.kind \in 1..3 /\ n.todo = Kind(n) /\ n.pc = "update" /\ n.seen = old.seen
         /\ n.run = old.run /\ n.eng = old.eng /\ n.gone = old.gone /\ n.reads = old.reads
   BY <1>5, NextKindIs DEF ScoresOn
<1>9. \A b : Ready(p, b) <=> b \in Kind(old) /\ b \notin old.gone
   BY <1>2, <1>5 DEF Ready, Scoring, ScoresOn
<1>o. old = runner[p] OBVIOUS
<1> HIDE DEF old, n
<1>10. RunnerIs(n, Assets(inv), started) /\ n.pc # "insert" /\ (n.pc # "idle" => n.run = Run(p))
   <2>1. CASE n = Idle BY <2>1, IdleIs DEF RunnerIs
   <2>2. CASE n # Idle
      <3>1. ScoresOn(n, Assets(inv)) BY <1>5, <1>8, <2>2 DEF ScoresOn
      <3> QED BY <1>5, <1>6, <1>8, <2>2, <3>1 DEF RunnerIs, Scoring
   <2> QED BY <2>1, <2>2
<1>11. RunnersAre' BY <1>2, <1>3, <1>7, <1>10, RunnersStay
<1>12. Met' BY <1>2, <1>6, <1>7, <1>10, MovedKeeps, MetStays
<1>13. OneGeneration' /\ Emptied' BY <1>2, <1>7, <1>10, TablesKeep
<1>14. Assets(inv') = Assets(inv) /\ flawed \subseteq flawed' BY <1>1, <1>2
<1>15. \A h \in new : h.asset \in Kind(old) /\ h = Entry(h.asset) /\ h.run = old.run OBVIOUS
<1>16. \A a \in Kind(old) : Entry(a) \in new /\ Entry(a).asset = a /\ Entry(a).run = old.run
             /\ Entry(a).score = RiskTable[old.seen.inv][a].score
   OBVIOUS
<1> HIDE DEF new, Entry
<1>17. TablesAre'
   <2>1. \A h \in trend' : h.asset \in Assets(inv) /\ h.run \in 0..started
      BY <1>1, <1>5, <1>15 DEF TablesAre
   <2> QED BY <1>2, <2>1 DEF TablesAre
\* An asset of the kind gets an entry if the statement is stored.
<1> DEFINE Gets(b) == ok /\ b \in Kind(old) /\ b \notin old.gone
<1>18. ASSUME NEW b \in Assets(inv)
       PROVE  /\ Gets(b) => Entries(b)' = Entries(b) \cup {Entry(b)}
              /\ ~Gets(b) => Entries(b)' = Entries(b)
   <2>1. CASE ~ok BY <1>1, <2>1 DEF Entries
   <2>2. CASE ok /\ Gets(b)
      <3>1. ASSUME NEW h \in trend', h.asset = b PROVE h \in Entries(b) \cup {Entry(b)}
         BY <1>1, <1>15, <2>2, <3>1 DEF Entries
      <3>2. Entry(b) \in trend' BY <1>1, <1>16, <2>2
      <3>3. trend \subseteq trend' BY <1>1
      <3>4. Entry(b).asset = b BY <1>16, <2>2
      <3>5. Entries(b)' \subseteq Entries(b) \cup {Entry(b)} BY <3>1 DEF Entries
      <3>6. Entries(b) \cup {Entry(b)} \subseteq Entries(b)' BY <3>2, <3>3, <3>4 DEF Entries
      <3> QED BY <2>2, <3>5, <3>6
   <2>3. CASE ok /\ ~Gets(b) BY <1>1, <1>15, <2>3 DEF Entries
   <2> QED BY <2>1, <2>2, <2>3
<1>19. \A b \in Assets(inv) : IsLast(b, LastRun(b)) /\ LastRun(b) \in 0..started
   BY LastIn DEF Ordered
<1>20. \A b \in Assets(inv) : \A h \in Entries(b)' : h.run \in Nat
   BY <1>3, <1>14, <1>17 DEF TablesAre, Entries
<1>21. ASSUME NEW b \in Assets(inv), ~Gets(b)
       PROVE  LastRun(b)' = LastRun(b) /\ IsLast(b, LastRun(b))'
   <2>1. LastRun(b)' = LastRun(b) BY <1>18, <1>21 DEF LastRun
   <2> QED BY <1>18, <1>19, <1>21, <2>1 DEF IsLast
<1>22. ASSUME NEW b \in Assets(inv), Gets(b), LastRun(b) <= old.run
       PROVE  LastRun(b)' = old.run /\ IsLast(b, LastRun(b))'
   <2>1. /\ \A h \in Entries(b)' : h.run \in Nat /\ h.run <= old.run
         /\ \E h \in Entries(b)' : h.run = old.run /\ old.run \in Nat
      BY <1>5, <1>16, <1>18, <1>19, <1>20, <1>22 DEF IsLast
   <2>2. LastRun(b)' = old.run
      <3> DEFINE S == {0} \cup {h.run : h \in Entries(b)'}
      <3>1. old.run \in S /\ S \subseteq Nat /\ \A x \in S : x <= old.run BY <2>1
      <3>2. LastRun(b)' = Max(S) BY DEF LastRun
      <3> HIDE DEF S
      <3> QED BY <3>1, <3>2, MaxIs
   <2> QED BY <2>1, <2>2 DEF IsLast
<1>23. ASSUME NEW b \in Assets(inv), Gets(b), ~(LastRun(b) <= old.run)
       PROVE  LastRun(b)' = LastRun(b) /\ IsLast(b, LastRun(b))'
   <2>1. /\ \A h \in Entries(b)' : h.run \in Nat /\ h.run <= LastRun(b)
         /\ LastRun(b) \in Nat /\ \E h \in Entries(b)' : h.run = LastRun(b)
      BY <1>5, <1>16, <1>18, <1>19, <1>20, <1>23 DEF IsLast
   <2>2. LastRun(b)' = LastRun(b)
      <3> DEFINE S == {0} \cup {h.run : h \in Entries(b)'}
      <3>1. LastRun(b) \in S /\ S \subseteq Nat /\ \A x \in S : x <= LastRun(b) BY <2>1
      <3>2. LastRun(b)' = Max(S) BY DEF LastRun
      <3> HIDE DEF S
      <3> QED BY <3>1, <3>2, MaxIs
   <2> QED BY <2>1, <2>2 DEF IsLast
<1>24. Ordered' BY <1>14, <1>21, <1>22, <1>23 DEF Ordered
<1>25. ASSUME NEW q \in Runners, NEW b
       PROVE  /\ q = p => ~Ready(q, b)'
              /\ q # p => /\ Ready(q, b)' <=> Ready(q, b)
                          /\ runner'[q].run = Run(q) /\ runner'[q].seen = runner[q].seen
   <2>1. CASE q = p
      <3>1. runner'[q] = n BY <1>7, <2>1 DEF Moved
      <3>2. n.pc \in Scoring => n.todo = Kind(n) BY <1>8, IdleIs DEF Scoring
      <3> QED BY <2>1, <3>1, <3>2 DEF Ready
   <2>2. CASE q # p
      <3>1. Same(q) BY <1>7, <2>2 DEF Moved
      <3>2. Kind(runner'[q]) = Kind(runner[q]) BY <3>1 DEF Same, Kind
      <3> QED BY <2>2, <3>1, <3>2 DEF Same, Ready, Run
   <2> QED BY <2>1, <2>2
<1>26. Stands'
   <2> SUFFICES ASSUME NEW q \in Runners, NEW b \in Assets(inv), Ready(q, b)'
                PROVE  \/ risk[b] = RiskTable[runner'[q].seen.inv][b]
                       \/ runner'[q].run \in flawed' \/ \E o \in overlap' : runner'[q].run \in o
      BY <1>2, <1>14 DEF Stands, Spoiled, Run
   <2>1. Ready(q, b) /\ runner'[q].run = Run(q) /\ runner'[q].seen = runner[q].seen BY <1>25
   <2>2. risk[b] = RiskTable[runner[q].seen.inv][b] \/ Spoiled(Run(q)) BY <2>1 DEF Stands
   <2> QED BY <1>2, <1>14, <2>1, <2>2 DEF Spoiled
<1>27. \A m : Excused(m) => Excused(m)' BY <1>2, <1>14 DEF Excused
<1>28. ASSUME NEW b \in Assets(inv), Gets(b) PROVE TrendIs(b)'
   <2>1. CASE LastRun(b) <= old.run
      <3>1. Ready(p, b) BY <1>9, <1>28
      <3>2. risk[b] = RiskTable[old.seen.inv][b] \/ Spoiled(Run(p)) BY <1>o, <3>1 DEF Stands
      <3>3. CASE Spoiled(Run(p))
         <4>1. Excused(old.run) BY <1>3, <1>5, <1>6, <3>3, SpoiledIs DEF TablesAre
         <4> QED BY <1>22, <1>27, <1>28, <2>1, <4>1 DEF TrendIs, Excused
      <3>4. CASE risk[b] = RiskTable[old.seen.inv][b]
         <4>1. Entry(b) \in Entries(b)' BY <1>18, <1>28
         <4>2. Entry(b).run = LastRun(b)' /\ Entry(b).score = risk'[b].score
            BY <1>2, <1>16, <1>22, <1>28, <2>1, <3>4
         <4>3. Shown(b)' BY <4>1, <4>2 DEF Shown
         <4> QED BY <4>3 DEF TrendIs
      <3> QED BY <3>2, <3>3, <3>4
   <2>2. CASE ~(LastRun(b) <= old.run)
      <3>1. Excused(LastRun(b)) BY <1>6, <2>2, LaterIsExcused
      <3> QED BY <1>23, <1>27, <1>28, <2>2, <3>1 DEF TrendIs, Excused
   <2> QED BY <2>1, <2>2
<1>29. ASSUME NEW b \in Assets(inv), ~Gets(b) PROVE TrendIs(b)'
   <2>0. LastRun(b)' = LastRun(b) /\ Entries(b)' = Entries(b) BY <1>18, <1>21, <1>29
   <2>1. CASE Excused(LastRun(b)) BY <1>27, <2>0, <2>1 DEF TrendIs, Excused
   <2>2. CASE Shown(b) BY <1>2, <2>0, <2>2 DEF TrendIs, Shown
   <2>3. ASSUME NEW q \in Runners, Ready(q, b), LastRun(b) <= Run(q) PROVE TrendIs(b)'
      <3>1. CASE q # p BY <1>25, <2>0, <2>3, <3>1 DEF TrendIs, Waits, Run
      <3>2. CASE q = p
         <4>1. ~ok /\ old.run \in flawed' BY <1>1, <1>9, <1>29, <2>3, <3>2
         <4>2. LastRun(b) \in 0..old.run /\ old.run \in 0..started
            BY <1>3, <1>5, <1>6, <1>19, <2>3, <3>2
         <4>3. Excused(LastRun(b))' BY <2>0, <4>1, <4>2, SpoiledExcuses DEF Excused
         <4> QED BY <4>3 DEF TrendIs
      <3> QED BY <3>1, <3>2
   <2>4. TrendIs(b) BY DEF Trends
   <2> QED BY <2>1, <2>2, <2>3, <2>4 DEF TrendIs, Waits
<1>30. Trends' BY <1>14, <1>28, <1>29 DEF Trends
<1> QED BY <1>11, <1>12, <1>13, <1>17, <1>24, <1>26, <1>30

LEMMA Changing ==
    ASSUME RInv, RebuildAssumption, Change
    PROVE  RInv'
<1> USE DEF RInv
<1> DEFINE left == Assets(inv) \ Assets(inv')
           Older(r) == [r EXCEPT !.clean = FALSE, !.gone = @ \cup left]
<1>1. /\ table' = table /\ started' = started /\ overlap' = overlap /\ flawed' = flawed
      /\ risk' = [a \in Assets(inv') |-> IF a \in DOMAIN risk THEN risk[a] ELSE Unscored]
      /\ trend' = {h \in trend : h.asset \in Assets(inv')}
      /\ runner' = [p \in Runners |-> IF Active(p) THEN Older(runner[p]) ELSE runner[p]]
   BY DEF Change
<1>2. \A p \in Runners : RunnerIs(runner[p], Assets(inv), started) BY DEF RunnersAre
<1>3. ASSUME NEW p \in Runners
      PROVE  /\ DOMAIN runner'[p] = RunnerFields
             /\ runner'[p].eng = runner[p].eng /\ runner'[p].pc = runner[p].pc
             /\ runner'[p].run = runner[p].run /\ runner'[p].reads = runner[p].reads
             /\ runner'[p].seen = runner[p].seen /\ runner'[p].kind = runner[p].kind
             /\ runner'[p].todo = runner[p].todo
             /\ Active(p) => runner'[p].gone = runner[p].gone \cup left
   <2>1. DOMAIN runner[p] = RunnerFields BY <1>2 DEF RunnerIs
   <2>2. CASE ~Active(p)
      <3>1. runner'[p] = runner[p] BY <1>1, <2>2
      <3> QED BY <2>1, <2>2, <3>1
   <2>3. CASE Active(p)
      <3>1. runner'[p] = Older(runner[p]) BY <1>1, <2>3
      <3>2. PICK r : r = runner[p] OBVIOUS
      <3>3. PICK c : c = runner'[p] OBVIOUS
      <3> HIDE DEF left
      <3>4. c = [r EXCEPT !.clean = FALSE, !.gone = r.gone \cup left] BY <3>1, <3>2, <3>3
      <3>5. DOMAIN r = RunnerFields BY <2>1, <3>2
      <3>6. DOMAIN c = RunnerFields BY <3>4, <3>5
      <3>7. c.eng = r.eng /\ c.pc = r.pc /\ c.run = r.run /\ c.reads = r.reads
         BY <3>4, <3>5 DEF RunnerFields
      <3>8. c.seen = r.seen /\ c.kind = r.kind /\ c.todo = r.todo
         BY <3>4, <3>5 DEF RunnerFields
      <3>9. c.gone = r.gone \cup left BY <3>4, <3>5 DEF RunnerFields
      <3> QED BY <3>2, <3>3, <3>6, <3>7, <3>8, <3>9
   <2> QED BY <2>2, <2>3
<1>4. \A p \in Runners : Kind(runner'[p]) = Kind(runner[p]) BY <1>3 DEF Kind
<1>5. ASSUME NEW p \in Runners PROVE RunnerIs(runner'[p], Assets(inv'), started')
   <2>1. CASE ScoresOn(runner[p], Assets(inv)) /\ runner[p].pc \in Scoring
      <3>1. runner'[p].gone = runner[p].gone \cup left BY <1>3, <2>1 DEF Active, Scoring
      <3>2. ScoresOn(runner'[p], Assets(inv')) BY <1>3, <1>4, <2>1, <3>1 DEF ScoresOn
      <3> HIDE DEF left
      <3> QED BY <1>1, <1>2, <1>3, <2>1, <3>2 DEF RunnerIs
   <2>2. CASE ~(ScoresOn(runner[p], Assets(inv)) /\ runner[p].pc \in Scoring)
      <3> HIDE DEF left
      <3>1. RunnerIs(runner[p], Assets(inv), started) /\ started' = started BY <1>1, <1>2
      <3> QED BY <1>3, <2>2, <3>1 DEF RunnerIs
   <2> QED BY <2>1, <2>2
<1>6. RunnersAre' BY <1>1, <1>5 DEF RunnersAre
<1>7. TablesAre' BY <1>1 DEF TablesAre
<1>8. Keeps BY <1>3 DEF Keeps, Active, Run
<1>9. Met' BY <1>1, <1>8, MetStays
<1>10. OneGeneration' BY <1>1 DEF OneGeneration
<1>11. Emptied'
   <2>1. \A p \in Runners : /\ runner'[p].eng = runner[p].eng /\ runner'[p].pc = runner[p].pc
                            /\ runner'[p].run = runner[p].run
      BY <1>3
   <2>2. table' = table /\ overlap' = overlap BY <1>1
   <2> HIDE DEF left, Older
   <2> QED BY <2>1, <2>2 DEF Emptied, At, Eng, Run, Meet
\* The assets that stay keep their entries, those that come have none.
<1>12. ASSUME NEW a \in Assets(inv')
       PROVE  Entries(a)' = Entries(a) /\ LastRun(a)' = LastRun(a)
   <2>1. Entries(a)' = Entries(a) BY <1>1 DEF Entries
   <2> QED BY <2>1 DEF LastRun
<1>13. ASSUME NEW a \in Assets(inv'), a \notin Assets(inv)
       PROVE  Entries(a) = {} /\ LastRun(a) = 0
   <2>1. Entries(a) = {} BY <1>13 DEF Entries, TablesAre
   <2>2. IsLast(a, 0) BY <2>1 DEF IsLast
   <2> QED BY <2>1, <2>2, LastIs
<1>14. ASSUME NEW a \in Assets(inv') PROVE IsLast(a, LastRun(a))'
   <2>1. IsLast(a, LastRun(a)) BY <1>13, <1>14 DEF Ordered, IsLast
   <2> QED BY <1>12, <2>1 DEF IsLast
<1>15. Ordered' BY <1>14 DEF Ordered
<1>16. DOMAIN risk = Assets(inv) BY DEF TablesAre
<1>17. ASSUME NEW q \in Runners, NEW a \in Assets(inv')
       PROVE  /\ Ready(q, a)' => Ready(q, a) /\ a \in Assets(inv)
              /\ Ready(q, a) /\ a \in Assets(inv) => Ready(q, a)'
   <2>1. CASE runner[q].pc \notin Scoring BY <1>3, <2>1 DEF Ready
   <2>2. CASE runner[q].pc \in Scoring
      <3>1. ScoresOn(runner[q], Assets(inv)) BY <1>2, <2>2 DEF RunnerIs, Scoring
      <3>2. runner'[q].gone = runner[q].gone \cup left BY <1>3, <2>2 DEF Active, Scoring
      <3>3. Kind(runner[q]) \subseteq Assets(inv) \cup runner[q].gone
         BY <3>1, KindsAre DEF ScoresOn
      <3> QED BY <1>3, <1>4, <2>2, <3>2, <3>3 DEF Ready
   <2> QED BY <2>1, <2>2
<1>18. \A a \in Assets(inv') \cap Assets(inv) : risk'[a] = risk[a] BY <1>1, <1>16
<1>19. Stands'
   <2>1. overlap' = overlap /\ flawed' = flawed BY <1>1
   <2>2. ASSUME NEW q \in Runners, NEW a \in Assets(inv'), Ready(q, a)'
         PROVE  \/ risk'[a] = RiskTable[runner'[q].seen.inv][a]
                \/ runner'[q].run \in flawed' \/ \E o \in overlap' : runner'[q].run \in o
      <3>1. Ready(q, a) /\ a \in Assets(inv) BY <1>17, <2>2
      <3>2. risk[a] = RiskTable[runner[q].seen.inv][a] \/ Spoiled(Run(q)) BY <3>1 DEF Stands
      <3>3. runner'[q].seen = runner[q].seen /\ runner'[q].run = Run(q) BY <1>3 DEF Run
      <3> QED BY <1>18, <2>1, <2>2, <3>1, <3>2, <3>3 DEF Spoiled
   <2> QED BY <2>2 DEF Stands, Spoiled, Run
<1>20. ASSUME NEW a \in Assets(inv') PROVE TrendIs(a)'
   <2>1. CASE a \notin Assets(inv)
      <3>1. LastRun(a)' = 0 BY <1>12, <1>13, <2>1
      <3>2. risk'[a] = Unscored BY <1>1, <1>16, <2>1
      <3> QED BY <3>1, <3>2 DEF TrendIs, Shown
   <2>2. CASE a \in Assets(inv)
      <3>1. TrendIs(a) BY <2>2 DEF Trends
      <3>2. CASE Excused(LastRun(a)) BY <1>1, <1>12, <3>2 DEF TrendIs, Excused
      <3>3. CASE Shown(a) BY <1>12, <1>18, <2>2, <3>3 DEF TrendIs, Shown
      <3>4. CASE Waits(a)
         <4>1. PICK q \in Runners : Ready(q, a) /\ LastRun(a) <= Run(q) BY <3>4 DEF Waits
         <4>2. Ready(q, a)' /\ runner'[q].run = Run(q) BY <1>3, <1>17, <2>2, <4>1 DEF Run
         <4> QED BY <1>12, <4>1, <4>2 DEF TrendIs, Waits, Run
      <3> QED BY <3>1, <3>2, <3>3, <3>4 DEF TrendIs
   <2> QED BY <2>1, <2>2
<1>21. Trends' BY <1>20 DEF Trends
<1> QED BY <1>6, <1>7, <1>9, <1>10, <1>11, <1>15, <1>19, <1>21

-----------------------------------------------------------------------------
LEMMA RebuildStarts ==
    ASSUME RebuildAssumption, RebuildInit
    PROVE  RInv
<1>1. /\ runner = [p \in Runners |-> Idle] /\ started = 0 /\ overlap = {} /\ flawed = {}
   BY DEF RebuildInit
<1>2. RunnersAre BY <1>1, IdleIs DEF RunnersAre, RunnerIs
<1>3. \A p \in Runners : runner[p].pc = "idle" BY <1>1, IdleIs
<1>4. Met /\ Emptied BY <1>3 DEF Met, Emptied, At, Active
<1>5. ASSUME NEW p \in Runners, NEW a PROVE ~Ready(p, a) BY <1>3 DEF Ready, Scoring
<1>6. Stands BY <1>5 DEF Stands
<1>7. CASE /\ risk = [a \in Assets(inv) |-> Unscored] /\ trend = {}
           /\ table = [e \in Derived |-> {}]
   <2>1. TablesAre BY <1>1, <1>7 DEF TablesAre, RebuildAssumption
   <2>2. OneGeneration BY <1>7 DEF OneGeneration
   <2>3. ASSUME NEW a PROVE IsLast(a, LastRun(a)) /\ LastRun(a) = 0
      <3>1. Entries(a) = {} BY <1>7 DEF Entries
      <3>2. IsLast(a, 0) BY <3>1 DEF IsLast
      <3> QED BY <3>1, <3>2, LastIs
   <2>4. Ordered BY <2>3 DEF Ordered
   <2>5. Trends BY <1>7, <2>3 DEF Trends, TrendIs, Shown
   <2> QED BY <1>2, <1>4, <1>6, <2>1, <2>2, <2>4, <2>5 DEF RInv
<1>8. CASE /\ risk = RiskTable[inv] /\ table = Settled(inv)
           /\ trend = {[asset |-> a, run |-> 0, score |-> RiskTable[inv][a].score] : a \in Assets(inv)}
   <2>1. inv \in Inventories BY DEF RebuildInit
   <2>2. DOMAIN risk = Assets(inv) BY <1>8, <2>1 DEF RiskTable, RiskOf
   <2>3. DOMAIN table = Derived /\ \A e \in Derived : \A r \in table[e] : r.run = 0
      BY <1>8, RowsOfRun DEF Settled
   <2>4. \A h \in trend : h.run = 0 /\ h.asset \in Assets(inv) BY <1>8
   <2>5. TablesAre BY <1>1, <2>2, <2>3, <2>4 DEF TablesAre, RebuildAssumption
   <2>6. OneGeneration BY <2>3 DEF OneGeneration
   <2>7. ASSUME NEW a PROVE IsLast(a, LastRun(a)) /\ LastRun(a) = 0
      <3>1. \A h \in Entries(a) : h.run = 0 BY <2>4 DEF Entries
      <3>2. IsLast(a, 0) BY <3>1 DEF IsLast
      <3> QED BY <3>1, <3>2, LastIs
   <2>8. Ordered BY <2>7 DEF Ordered
   <2>9. ASSUME NEW a \in Assets(inv) PROVE Shown(a)
      <3> DEFINE h == [asset |-> a, run |-> 0, score |-> RiskTable[inv][a].score]
      <3>1. h \in trend /\ h.asset = a /\ h.run = 0 /\ h.score = risk[a].score BY <1>8
      <3> HIDE DEF h
      <3>2. h \in Entries(a) BY <3>1 DEF Entries
      <3> QED BY <2>7, <3>1, <3>2 DEF Shown
   <2>10. Trends BY <2>9 DEF Trends, TrendIs
   <2> QED BY <1>2, <1>4, <1>6, <2>5, <2>6, <2>8, <2>10 DEF RInv
<1> QED BY <1>7, <1>8 DEF RebuildInit

\* Every step of every engine, of the worker, of the inventory and of the
\* process keeps the rebuilds' invariant (riskscore, correlation, attackpath,
\* exposure and executive engine.go).
THEOREM RebuildInductive == RebuildSpec => []RInv
<1> USE RebuildAssumption
<1>1. RebuildInit => RInv BY RebuildStarts
<1>2. RInv /\ [RebuildNext]_rebuildVars => RInv'
   <2> SUFFICES ASSUME RInv, [RebuildNext]_rebuildVars PROVE RInv' OBVIOUS
   <2>1. CASE Crash BY <2>1, Crashing
   <2>2. CASE Change BY <2>2, Changing
   <2>3. CASE WorkerTick
      <3>1. Worker \in Runners /\ "exposure" \in AllEngines BY DEF RebuildAssumption, AllEngines
      <3> QED BY <2>3, <3>1, Starting DEF WorkerTick
   <2>4. CASE WorkerStop \/ WorkerExit \/ UNCHANGED rebuildVars
      BY <2>4, WorkerSwitches DEF WorkerStop, WorkerExit, rebuildVars
   <2>5. ASSUME NEW p \in Runners, NEW e \in Engines, Begin(p, e) PROVE RInv'
      BY <2>5, Starting DEF Begin, RebuildAssumption
   <2>6. ASSUME NEW p \in Runners, Read(p) PROVE RInv' BY <2>6, Reading
   <2>7. ASSUME NEW p \in Runners, Delete(p) PROVE RInv' BY <2>7, Deleting
   <2>8. ASSUME NEW p \in Runners, Insert(p) PROVE RInv' BY <2>8, Inserting
   <2>9. ASSUME NEW p \in Runners, UpdateAsset(p) PROVE RInv' BY <2>9, Updating
   <2>10. ASSUME NEW p \in Runners, AppendTrend(p) PROVE RInv' BY <2>10, Appending
   <2>11. ASSUME NEW p \in Runners, Fail(p) \/ FailUnseen(p) PROVE RInv' BY <2>11, Failing
   <2> QED BY <2>1, <2>2, <2>3, <2>4, <2>5, <2>6, <2>7, <2>8, <2>9, <2>10, <2>11 DEF RebuildNext
<1> QED BY <1>1, <1>2, PTL DEF RebuildSpec

\* A derived table mixes rows of two runs only if these overlapped, and the
\* risk columns are those the trend ends with, whatever failed or crashed, but
\* for runs that failed or overlapped (riskscore engine.go: persist;
\* attackpath, correlation, exposure, executive: delete, then insert).
THEOREM RebuildsAreAlwaysWhole == RebuildSpec => []RebuildsAreWhole
<1>1. RInv => RebuildsAreWhole
   <2> SUFFICES ASSUME RInv, \A p \in Runners : Eng(p) # "risk", NEW a \in DOMAIN risk
                PROVE  Excused(LastRun(a)) \/ Shown(a)
      BY DEF RInv, RebuildsAreWhole, TrendMatches
   <2>1. \A p \in Runners : ~Ready(p, a)
      BY DEF RInv, RunnersAre, RunnerIs, ScoresOn, Ready, Eng, Scoring
   <2> QED BY <2>1 DEF RInv, TablesAre, Trends, TrendIs, Waits
<1> QED BY <1>1, RebuildInductive, PTL

-----------------------------------------------------------------------------
(***************************************************************************)
(* Rebuild: what a run sees and writes while nothing else writes beside.   *)
(***************************************************************************)
\* What an engine reads, and the reads it may have left.
Needs(e) ==
    CASE e \in {"risk", "relations"} -> {"assets"}
      [] e = "paths" -> {"relations", "assets"}
      [] e = "exposure" -> {"assets", "paths", "relations"}
      [] e = "snapshot" -> {"assets", "paths"}
Left(e) ==
    CASE e \in {"risk", "relations"} -> {<<"assets">>}
      [] e = "paths" -> {<<"relations", "assets">>, <<"assets">>}
      [] e = "exposure" -> {<<"assets", "paths", "relations">>, <<"paths", "relations">>,
                            <<"relations">>}
      [] e = "snapshot" -> {<<"assets", "paths">>, <<"paths">>}
Unread(reads, what) == \E k \in DOMAIN reads : reads[k] = what

\* What a run saw is what is stored, if nothing was written beside it.
Sees(s, i, cols, tab, what) ==
    CASE what = "assets" -> s.inv = i /\ s.risk = cols
      [] what = "relations" -> s.rels = tab["relations"]
      [] what = "paths" -> s.paths = tab["paths"]
Looks(r, i, cols, tab) ==
    /\ DOMAIN r.seen = SeenFields /\ r.seen.blind = FALSE
    /\ IF r.pc = "read" THEN r.reads \in Left(r.eng) ELSE r.reads = <<>>
    /\ \A what \in Needs(r.eng) : Unread(r.reads, what) \/ Sees(r.seen, i, cols, tab, what)
    /\ r.pc = "insert" => tab[r.eng] = {}

\* What a scoring run has written is there, and told for the kinds before.
Scored(r, i, cols, tr) ==
    /\ r.seen.inv = i /\ r.gone = {}
    /\ \A k \in 1..3 : \A a \in KindsOf(i)[k] :
         /\ k < r.kind => /\ cols[a] = RiskTable[i][a]
                          /\ [asset |-> a, run |-> r.run, score |-> RiskTable[i][a].score] \in tr
         /\ k = r.kind /\ a \notin r.todo => cols[a] = RiskTable[i][a]

Solo(p) == Active(p) /\ runner[p].clean /\ Run(p) \notin flawed
Follows(p) ==
    Solo(p) => IF runner[p].pc \in Scoring THEN Scored(runner[p], inv, risk, trend)
               ELSE Looks(runner[p], inv, risk, table)
SInv == /\ inv \in Inventories
        /\ risk = [a \in Assets(inv) |-> risk[a]]
        /\ \A p \in Runners : Follows(p)

LEMMA ReadsLeft ==
    ASSUME NEW e \in AllEngines, NEW reads \in Left(e)
    PROVE  /\ Head(reads) \in Needs(e)
           /\ Tail(reads) = <<>> \/ Tail(reads) \in Left(e)
           /\ \A what : Unread(reads, what) => what = Head(reads) \/ Unread(Tail(reads), what)
<1>1. CASE reads = <<"assets">> /\ e # "snapshot"
   <2>1. Head(reads) = "assets" /\ Tail(reads) = <<>> BY <1>1
   <2> QED BY <1>1, <2>1 DEF Left, Needs, AllEngines, Unread
<1>2. CASE reads = <<"relations", "assets">>
   <2>1. Head(reads) = "relations" /\ Tail(reads) = <<"assets">> BY <1>2
   <2>2. e = "paths" BY <1>2 DEF Left, AllEngines
   <2> QED BY <1>2, <2>1, <2>2 DEF Left, Needs, Unread
<1>3. CASE reads = <<"assets", "paths", "relations">>
   <2>1. Head(reads) = "assets" /\ Tail(reads) = <<"paths", "relations">> BY <1>3
   <2>2. e = "exposure" BY <1>3 DEF Left, AllEngines
   <2> QED BY <1>3, <2>1, <2>2 DEF Left, Needs, Unread
<1>4. CASE reads = <<"paths", "relations">>
   <2>1. Head(reads) = "paths" /\ Tail(reads) = <<"relations">> BY <1>4
   <2>2. e = "exposure" BY <1>4 DEF Left, AllEngines
   <2> QED BY <1>4, <2>1, <2>2 DEF Left, Needs, Unread
<1>5. CASE reads = <<"relations">>
   <2>1. Head(reads) = "relations" /\ Tail(reads) = <<>> BY <1>5
   <2>2. e = "exposure" BY <1>5 DEF Left, AllEngines
   <2> QED BY <1>5, <2>1, <2>2 DEF Left, Needs, Unread
<1>6. CASE reads = <<"assets", "paths">>
   <2>1. Head(reads) = "assets" /\ Tail(reads) = <<"paths">> BY <1>6
   <2>2. e = "snapshot" BY <1>6 DEF Left, AllEngines
   <2> QED BY <1>6, <2>1, <2>2 DEF Left, Needs, Unread
<1>7. CASE reads = <<"paths">>
   <2>1. Head(reads) = "paths" /\ Tail(reads) = <<>> BY <1>7
   <2>2. e = "snapshot" BY <1>7 DEF Left, AllEngines
   <2> QED BY <1>7, <2>1, <2>2 DEF Left, Needs, Unread
<1>8. reads \in {<<"assets">>, <<"relations", "assets">>, <<"assets", "paths", "relations">>,
                 <<"paths", "relations">>, <<"relations">>, <<"assets", "paths">>, <<"paths">>}
   BY DEF Left, AllEngines
<1>9. reads = <<"assets">> => e # "snapshot" BY DEF Left
<1> QED BY <1>1, <1>2, <1>3, <1>4, <1>5, <1>6, <1>7, <1>8, <1>9

\* One more read is seen, and none before it is lost.
LEMMA SeeingIs ==
    ASSUME NEW s, DOMAIN s = SeenFields, s.blind = FALSE, NEW what \in {"assets", "relations", "paths"}
    PROVE  /\ DOMAIN Seeing(s, what) = SeenFields /\ Seeing(s, what).blind = FALSE
           /\ Sees(Seeing(s, what), inv, risk, table, what)
           /\ \A w \in {"assets", "relations", "paths"} :
                 Sees(s, inv, risk, table, w) => Sees(Seeing(s, what), inv, risk, table, w)
<1>1. CASE what = "assets" BY <1>1 DEF Seeing, Sees, SeenFields
<1>2. CASE what = "relations" BY <1>2 DEF Seeing, Sees, SeenFields
<1>3. CASE what = "paths" BY <1>3 DEF Seeing, Sees, SeenFields
<1> QED BY <1>1, <1>2, <1>3

\* What nobody wrote beside goes on as it was.
LEMMA FollowsOn ==
    ASSUME NEW q \in Runners, Follows(q), runner'[q] = runner[q],
           inv' = inv, risk' = risk, table' = table, trend \subseteq trend', flawed \subseteq flawed'
    PROVE  Follows(q)'
<1>1. SUFFICES ASSUME Solo(q)'
               PROVE  IF runner[q].pc \in Scoring THEN Scored(runner[q], inv, risk, trend')
                      ELSE Looks(runner[q], inv, risk, table)
   BY DEF Follows
<1>2. Solo(q) BY <1>1 DEF Solo, Active, Run
<1>3. ASSUME Scored(runner[q], inv, risk, trend) PROVE Scored(runner[q], inv, risk, trend')
   BY <1>3 DEF Scored
<1> QED BY <1>2, <1>3 DEF Follows

LEMMA FollowAll ==
    ASSUME RunnersAre, SInv, NEW p \in Runners, NEW r,
           \/ /\ Goes(p, r) /\ risk' = risk /\ table' = table
           \/ Writes(p, r),
           inv' = inv, risk' = [a \in Assets(inv) |-> risk'[a]],
           trend \subseteq trend', flawed \subseteq flawed',
           Solo(p)' => IF r.pc \in Scoring THEN Scored(r, inv, risk', trend')
                       ELSE Looks(r, inv, risk', table')
    PROVE  SInv'
<1>1. DOMAIN runner = Runners /\ \A q \in Runners : DOMAIN runner[q] = RunnerFields
   BY DEF RunnersAre, RunnerIs
<1>2. runner'[p] = r BY <1>1 DEF Goes, Writes
<1>3. Follows(p)' BY <1>2 DEF Follows
<1>4. ASSUME NEW q \in Runners, q # p PROVE Follows(q)'
   <2>1. CASE Goes(p, r) /\ risk' = risk /\ table' = table
      <3>1. runner'[q] = runner[q] BY <1>1, <1>4, <2>1 DEF Goes
      <3> QED BY <2>1, <3>1, FollowsOn DEF SInv
   <2>2. CASE Writes(p, r)
      <3>1. runner'[q] = IF Active(q) THEN [runner[q] EXCEPT !.clean = FALSE] ELSE runner[q]
         BY <1>4, <2>2 DEF Writes
      <3>2. CASE Active(q)
         <4>1. ~runner'[q].clean BY <1>1, <3>1, <3>2 DEF RunnerFields
         <4> QED BY <4>1 DEF Follows, Solo
      <3>3. CASE ~Active(q) BY <3>1, <3>3 DEF Follows, Solo, Active
      <3> QED BY <3>2, <3>3
   <2> QED BY <2>1, <2>2
<1>5. inv' \in Inventories /\ risk' = [a \in Assets(inv') |-> risk'[a]] BY DEF SInv
<1> QED BY <1>3, <1>4, <1>5 DEF SInv

-----------------------------------------------------------------------------
LEMMA StartFollows ==
    ASSUME RInv, SInv, NEW p \in Runners, NEW e \in AllEngines, Starts(p, e)
    PROVE  SInv'
<1> DEFINE r == [Idle EXCEPT !.eng = e, !.pc = "read", !.run = started + 1, !.reads = ReadOrder(e)]
<1>1. /\ Goes(p, r) /\ inv' = inv /\ risk' = risk /\ trend' = trend /\ table' = table
      /\ flawed' = flawed
   BY DEF Starts
<1>2. /\ r.pc = "read" /\ r.eng = e /\ r.reads = ReadOrder(e) /\ r.seen = Nothing
   BY IdleIs DEF RunnerFields
<1>3. ReadOrder(e) \in Left(e) /\ \A what \in Needs(e) : Unread(ReadOrder(e), what)
   <2>1. CASE e \in {"risk", "relations"}
      BY <2>1 DEF ReadOrder, Left, Needs, Unread
   <2>2. CASE e = "paths"
      BY <2>2 DEF ReadOrder, Left, Needs, Unread
   <2>3. CASE e = "exposure"
      BY <2>3 DEF ReadOrder, Left, Needs, Unread
   <2>4. CASE e = "snapshot"
      BY <2>4 DEF ReadOrder, Left, Needs, Unread
   <2> QED BY <2>1, <2>2, <2>3, <2>4 DEF AllEngines
<1>4. DOMAIN Nothing = SeenFields /\ Nothing.blind = FALSE BY DEF Nothing, SeenFields
<1> HIDE DEF r
<1>5. Looks(r, inv, risk, table) BY <1>2, <1>3, <1>4 DEF Looks
<1>6. r.pc \notin Scoring BY <1>2 DEF Scoring
<1> QED BY <1>1, <1>5, <1>6, FollowAll DEF RInv, SInv

\* A kind after k has assets only if it is the next, or after the next.
LEMMA NextKindSkips ==
    ASSUME NEW r, DOMAIN r = RunnerFields, r.kind \in 0..3, NEW k \in 1..3, k > r.kind,
           KindsOf(r.seen.inv)[k] # {}
    PROVE  NextKind(r) # Idle /\ NextKind(r).kind <= k
<1> DEFINE left == {j \in (r.kind + 1)..3 : KindsOf(r.seen.inv)[j] # {}}
           next == Min(left)
           n == [r EXCEPT !.kind = next, !.todo = KindsOf(r.seen.inv)[next], !.pc = "update"]
<1>1. NextKind(r) = IF left = {} THEN Idle ELSE n BY DEF NextKind
<1>2. k \in left OBVIOUS
<1>3. left \subseteq 1..3 BY SMT
<1>4. \E x \in left : \A y \in left : x <= y
   <2>1. CASE 1 \in left BY <1>3, <2>1
   <2>2. CASE 1 \notin left /\ 2 \in left BY <1>3, <2>2
   <2>3. CASE 1 \notin left /\ 2 \notin left BY <1>2, <1>3, <2>3
   <2> QED BY <2>1, <2>2, <2>3
<1>5. next \in left /\ next <= k BY <1>2, <1>3, <1>4 DEF Min
<1> HIDE DEF next, left
<1>6. n.kind = next /\ n.pc = "update" BY DEF RunnerFields
<1>7. n # Idle BY <1>6, IdleIs
<1> QED BY <1>1, <1>2, <1>5, <1>6, <1>7

LEMMA ReadFollows ==
    ASSUME RInv, SInv, NEW p \in Runners, Read(p)
    PROVE  SInv'
<1> DEFINE old == runner[p]
           r == [old EXCEPT !.seen = Seeing(@, Head(old.reads)), !.reads = Tail(@), !.gone = {}]
           s == [r EXCEPT !.pc = "delete"]
           next == IF r.reads # <<>> THEN r ELSE IF r.eng = "risk" THEN NextKind(r) ELSE s
<1>1. /\ Goes(p, next) /\ inv' = inv /\ risk' = risk /\ trend' = trend /\ table' = table
      /\ flawed' = flawed /\ old.pc = "read"
   BY DEF Read, At
<1>2. RunnerIs(old, Assets(inv), started) BY DEF RInv, RunnersAre
<1>3. DOMAIN old = RunnerFields /\ old.eng \in AllEngines /\ (old.eng = "risk" => old.kind = 0)
   BY <1>1, <1>2 DEF RunnerIs, Scoring
<1>4. Follows(p) BY DEF SInv
<1>5. runner'[p] = next BY <1>1 DEF RInv, RunnersAre, Goes
<1>6. /\ DOMAIN r = RunnerFields /\ r.eng = old.eng /\ r.pc = "read" /\ r.run = old.run
      /\ r.kind = old.kind /\ r.gone = {} /\ r.reads = Tail(old.reads) /\ r.clean = old.clean
      /\ r.seen = Seeing(old.seen, Head(old.reads))
   BY <1>1, <1>3 DEF RunnerFields
<1>7. /\ DOMAIN s = RunnerFields /\ s.eng = r.eng /\ s.pc = "delete" /\ s.run = r.run
      /\ s.reads = r.reads /\ s.seen = r.seen /\ s.clean = r.clean
   BY <1>6 DEF RunnerFields
<1>8. r.kind \in 0..3 /\ r.eng = "risk" =>
        \/ NextKind(r) = Idle
        \/ /\ DOMAIN NextKind(r) = RunnerFields
           /\ NextKind(r).kind \in 1..3 /\ NextKind(r).todo = Kind(NextKind(r))
           /\ NextKind(r).pc = "update" /\ NextKind(r).seen = r.seen
           /\ NextKind(r).run = r.run /\ NextKind(r).gone = r.gone
   BY <1>6, NextKindIs
<1>o. old = runner[p] OBVIOUS
<1> HIDE DEF old
<1>9. ASSUME Solo(p)'
      PROVE  IF next.pc \in Scoring THEN Scored(next, inv, risk, trend)
             ELSE Looks(next, inv, risk, table)
   <2>1. next.pc # "idle" /\ next.clean /\ next.run \notin flawed
      BY <1>1, <1>5, <1>9 DEF Solo, Active, Run
   <2>2. CASE old.clean /\ old.run \notin flawed
      <3>1. Looks(old, inv, risk, table)
         BY <1>1, <1>4, <2>2, <1>o DEF Follows, Solo, Active, Run, Scoring
      <3>2. DOMAIN old.seen = SeenFields /\ old.seen.blind = FALSE /\ old.reads \in Left(old.eng)
         BY <1>1, <3>1 DEF Looks
      <3>3. /\ Head(old.reads) \in Needs(old.eng)
            /\ Tail(old.reads) = <<>> \/ Tail(old.reads) \in Left(old.eng)
            /\ \A what : Unread(old.reads, what) =>
                            what = Head(old.reads) \/ Unread(Tail(old.reads), what)
         BY <1>3, <3>2, ReadsLeft
      <3>4. Needs(old.eng) \subseteq {"assets", "relations", "paths"}
         BY <1>3 DEF Needs, AllEngines
      <3>5. /\ DOMAIN r.seen = SeenFields /\ r.seen.blind = FALSE
            /\ Sees(r.seen, inv, risk, table, Head(old.reads))
            /\ \A w \in {"assets", "relations", "paths"} :
                  Sees(old.seen, inv, risk, table, w) => Sees(r.seen, inv, risk, table, w)
         <4> DEFINE first == Head(old.reads)
         <4>1. first \in {"assets", "relations", "paths"} BY <3>3, <3>4
         <4>2. r.seen = Seeing(old.seen, first) BY <1>6
         <4> HIDE DEF first, r
         <4>3. /\ DOMAIN Seeing(old.seen, first) = SeenFields
               /\ Seeing(old.seen, first).blind = FALSE
               /\ Sees(Seeing(old.seen, first), inv, risk, table, first)
               /\ \A w \in {"assets", "relations", "paths"} :
                     Sees(old.seen, inv, risk, table, w)
                        => Sees(Seeing(old.seen, first), inv, risk, table, w)
            BY <3>2, <4>1, SeeingIs
         <4>4. /\ DOMAIN r.seen = SeenFields /\ r.seen.blind = FALSE
               /\ Sees(r.seen, inv, risk, table, first)
               /\ \A w \in {"assets", "relations", "paths"} :
                     Sees(old.seen, inv, risk, table, w) => Sees(r.seen, inv, risk, table, w)
            BY <4>2, <4>3
         <4> QED BY <4>4 DEF first
      <3>6. \A what \in Needs(r.eng) : Unread(r.reads, what) \/ Sees(r.seen, inv, risk, table, what)
         BY <1>6, <3>1, <3>3, <3>4, <3>5 DEF Looks
      <3>7. r.reads = <<>> \/ r.reads \in Left(r.eng) BY <1>6, <3>3
      <3> HIDE DEF r, s
      <3>8. CASE r.reads # <<>>
         <4>1. Looks(r, inv, risk, table) BY <1>6, <3>5, <3>6, <3>7, <3>8 DEF Looks
         <4> QED BY <1>6, <3>8, <4>1 DEF Scoring
      <3>9. CASE r.reads = <<>> /\ r.eng # "risk"
         <4>1. Looks(s, inv, risk, table) BY <1>7, <3>5, <3>6, <3>9 DEF Looks
         <4> QED BY <1>7, <3>9, <4>1 DEF Scoring
      <3>10. CASE r.reads = <<>> /\ r.eng = "risk"
         <4> DEFINE n == NextKind(r)
         <4>0. next = n BY <3>10
         <4>1. r.seen.inv = inv
            <5>1. "assets" \in Needs(r.eng) /\ ~Unread(r.reads, "assets")
               BY <3>10 DEF Needs, Unread
            <5> QED BY <3>6, <5>1 DEF Sees
         <4>2. r.kind = 0 BY <1>3, <1>6, <3>10
         <4>3. \A k \in 1..3 : KindsOf(inv)[k] # {} => n # Idle /\ n.kind <= k
            BY <1>6, <4>1, <4>2, NextKindSkips
         <4>4. n # Idle BY <2>1, <4>0, IdleIs
         <4>5. /\ n.kind \in 1..3 /\ n.todo = Kind(n) /\ n.pc = "update" /\ n.seen = r.seen
               /\ n.run = r.run /\ n.gone = r.gone
            BY <1>8, <3>10, <4>2, <4>4
         <4> HIDE DEF n
         <4>6. Kind(n) = KindsOf(inv)[n.kind] BY <4>1, <4>5 DEF Kind
         <4>7. Scored(n, inv, risk, trend) BY <1>6, <4>1, <4>3, <4>5, <4>6 DEF Scored
         <4> QED BY <4>0, <4>5, <4>7 DEF Scoring
      <3> QED BY <3>8, <3>9, <3>10
   <2>3. CASE ~(old.clean /\ old.run \notin flawed)
      <3>1. next.clean = old.clean /\ next.run = old.run
         <4>1. CASE next \in {r, s} BY <1>6, <1>7, <4>1
         <4>2. CASE next = NextKind(r) /\ r.eng = "risk"
            <5>1. NextKind(r) # Idle BY <2>1, <4>2, IdleIs
            <5>2. NextKind(r).clean = r.clean /\ NextKind(r).run = r.run
               BY <1>6, <5>1 DEF NextKind, RunnerFields
            <5> QED BY <1>6, <4>2, <5>2
         <4> QED BY <4>1, <4>2
      <3> QED BY <2>1, <2>3, <3>1
   <2> QED BY <2>2, <2>3
<1> HIDE DEF next
<1> QED BY <1>1, <1>9, FollowAll DEF RInv, SInv

LEMMA DeleteFollows ==
    ASSUME RInv, SInv, NEW p \in Runners, Delete(p)
    PROVE  SInv'
<1> DEFINE old == runner[p]
           r == [old EXCEPT !.pc = "insert"]
<1>1. /\ Writes(p, r) /\ inv' = inv /\ risk' = risk /\ trend' = trend /\ flawed' = flawed
      /\ table' = [table EXCEPT ![Eng(p)] = {}] /\ old.pc = "delete"
   BY DEF Delete, At
<1>2. RunnerIs(old, Assets(inv), started) /\ DOMAIN table = Derived
   BY DEF RInv, RunnersAre, TablesAre
<1>3. DOMAIN old = RunnerFields /\ old.eng \in Derived BY <1>1, <1>2 DEF RunnerIs, Scoring
<1>4. Follows(p) BY DEF SInv
<1>5. runner'[p] = r BY <1>1 DEF Writes
<1>o. old = runner[p] OBVIOUS
<1> HIDE DEF old
<1>6. /\ r.pc = "insert" /\ r.eng = old.eng /\ r.run = old.run /\ r.reads = old.reads
      /\ r.seen = old.seen /\ r.clean = old.clean
   BY <1>3 DEF RunnerFields
<1> HIDE DEF r
<1>7. ASSUME Solo(p)' PROVE Looks(r, inv, risk, table')
   <2>1. Looks(old, inv, risk, table)
      BY <1>1, <1>4, <1>5, <1>6, <1>7, <1>o DEF Follows, Solo, Active, Run, Scoring
   <2>2. table'[r.eng] = {} BY <1>1, <1>2, <1>3, <1>6, <1>o DEF Eng
   <2>3. \A what \in Needs(old.eng) : Sees(r.seen, inv, risk, table, what)
      BY <1>1, <1>6, <2>1 DEF Looks, Unread
   <2>4. ASSUME NEW what \in Needs(old.eng) PROVE Sees(r.seen, inv, risk, table', what)
      <3>1. Sees(r.seen, inv, risk, table, what) BY <2>3, <2>4
      <3>2. CASE what = "assets" BY <3>1, <3>2 DEF Sees
      <3>3. CASE what = "relations"
         <4>1. old.eng # "relations" BY <3>3 DEF Needs
         <4>2. table'["relations"] = table["relations"]
            BY <1>1, <1>2, <1>o, <4>1 DEF Eng, Derived
         <4> QED BY <3>1, <3>3, <4>2 DEF Sees
      <3>4. CASE what = "paths"
         <4>1. old.eng # "paths" BY <3>4 DEF Needs
         <4>2. table'["paths"] = table["paths"]
            BY <1>1, <1>2, <1>o, <4>1 DEF Eng, Derived
         <4> QED BY <3>1, <3>4, <4>2 DEF Sees
      <3>5. what \in {"assets", "relations", "paths"} BY <1>3 DEF Needs, Derived
      <3> QED BY <3>2, <3>3, <3>4, <3>5
   <2> QED BY <1>1, <1>6, <2>1, <2>2, <2>4 DEF Looks
<1>8. r.pc \notin Scoring BY <1>6 DEF Scoring
<1> QED BY <1>1, <1>7, <1>8, FollowAll DEF RInv, SInv

\* A run that ends has nothing left to follow.
LEMMA EndFollows ==
    ASSUME RInv, SInv, NEW p \in Runners,
           \/ Goes(p, Idle) /\ table' = table
           \/ Writes(p, Idle),
           inv' = inv, risk' = risk, trend \subseteq trend', flawed \subseteq flawed'
    PROVE  SInv'
<1>1. runner'[p] = Idle BY DEF Goes, Writes, RInv, RunnersAre
<1>2. ~Solo(p)' BY <1>1, IdleIs DEF Solo, Active
<1> QED BY <1>2, FollowAll DEF RInv, SInv

LEMMA UpdateFollows ==
    ASSUME RInv, SInv, NEW p \in Runners, UpdateAsset(p)
    PROVE  SInv'
<1> DEFINE old == runner[p]
<1>1. PICK a \in old.todo, ok \in BOOLEAN :
         /\ flawed' = IF ok THEN flawed ELSE flawed \cup {Run(p)}
         /\ risk' = IF ok /\ a \in DOMAIN risk \ old.gone
                    THEN [risk EXCEPT ![a] = RiskTable[old.seen.inv][a]] ELSE risk
         /\ Writes(p, [old EXCEPT !.todo = @ \ {a},
                                  !.pc = IF old.todo = {a} THEN "trend" ELSE "update"])
   BY DEF UpdateAsset
<1> DEFINE r == [old EXCEPT !.todo = @ \ {a}, !.pc = IF old.todo = {a} THEN "trend" ELSE "update"]
<1>2. /\ inv' = inv /\ trend' = trend /\ table' = table /\ old.pc = "update" /\ Writes(p, r)
   BY <1>1 DEF UpdateAsset, At
<1>3. RunnerIs(old, Assets(inv), started) /\ DOMAIN risk = Assets(inv)
   BY DEF RInv, RunnersAre, TablesAre
<1>4. DOMAIN old = RunnerFields /\ ScoresOn(old, Assets(inv)) BY <1>2, <1>3 DEF RunnerIs, Scoring
<1>5. Follows(p) BY DEF SInv
<1>6. runner'[p] = r BY <1>2 DEF Writes
<1>o. old = runner[p] OBVIOUS
<1> HIDE DEF old
<1>7. /\ r.pc \in Scoring /\ r.run = old.run /\ r.seen = old.seen /\ r.clean = old.clean
      /\ r.kind = old.kind /\ r.gone = old.gone /\ r.todo = old.todo \ {a} /\ r.pc # "idle"
   BY <1>4 DEF RunnerFields, Scoring
<1> HIDE DEF r
<1>8. risk' = [b \in Assets(inv) |-> risk'[b]]
   <2>1. risk = [b \in Assets(inv) |-> risk[b]] BY DEF SInv
   <2>2. CASE risk' = risk BY <2>1, <2>2
   <2>3. CASE risk' = [risk EXCEPT ![a] = RiskTable[old.seen.inv][a]] BY <1>3, <2>3
   <2> QED BY <1>1, <2>2, <2>3
<1>9. ASSUME Solo(p)' PROVE Scored(r, inv, risk', trend)
   <2>1. ok /\ old.clean /\ old.run \notin flawed
      BY <1>1, <1>6, <1>7, <1>9, <1>o DEF Solo, Run
   <2>2. Scored(old, inv, risk, trend)
      BY <1>2, <1>5, <1>o, <2>1 DEF Follows, Solo, Active, Run, Scoring
   <2>3. old.seen.inv = inv /\ old.gone = {} BY <2>2 DEF Scored
   <2>4. a \in Assets(inv) BY <1>1, <1>4, <2>3, KindsAre DEF ScoresOn
   <2>5. risk' = [risk EXCEPT ![a] = RiskTable[inv][a]] BY <1>1, <1>3, <2>1, <2>3, <2>4
   <2>6. \A b \in Assets(inv) : risk'[b] = IF b = a THEN RiskTable[inv][b] ELSE risk[b]
      BY <1>3, <2>5
   <2>7. \A k \in 1..3 : KindsOf(inv)[k] \subseteq Assets(inv) BY DEF KindsOf, Assets
   <2> QED BY <1>7, <2>2, <2>3, <2>6, <2>7 DEF Scored
<1>10. flawed \subseteq flawed' BY <1>1
<1> QED BY <1>2, <1>7, <1>8, <1>9, <1>10, FollowAll DEF RInv, SInv

\* After the trend of a kind has been told, everything up to it has been.
LEMMA ToldIs ==
    ASSUME RInv, SInv, NEW p \in Runners, AppendTrend(p), runner[p].clean, Run(p) \notin flawed'
    PROVE  /\ runner[p].seen.inv = inv /\ runner[p].gone = {}
           /\ \A k \in 1..3 : \A a \in KindsOf(inv)[k] : k <= runner[p].kind =>
                 /\ risk[a] = RiskTable[inv][a]
                 /\ [asset |-> a, run |-> Run(p), score |-> RiskTable[inv][a].score] \in trend'
<1> DEFINE old == runner[p]
           Entry(a) == [asset |-> a, run |-> old.run, score |-> RiskTable[old.seen.inv][a].score]
           new == {Entry(a) : a \in Kind(old)}
<1>1. PICK ok \in BOOLEAN :
         /\ flawed' = IF ok THEN flawed ELSE flawed \cup {old.run}
         /\ trend' = IF ok THEN trend \cup {h \in new : h.asset \in Assets(inv) \ old.gone}
                     ELSE trend
   BY DEF AppendTrend
<1>2. old.pc = "trend" /\ ok /\ old.run \notin flawed BY <1>1 DEF AppendTrend, At, Run
<1>3. RunnerIs(old, Assets(inv), started) BY DEF RInv, RunnersAre
<1>4. ScoresOn(old, Assets(inv)) BY <1>2, <1>3 DEF RunnerIs, Scoring
<1>5. Follows(p) BY DEF SInv
<1>6. Scored(old, inv, risk, trend)
   BY <1>2, <1>5 DEF Follows, Solo, Active, Run, Scoring
<1>7. old.todo = {} /\ old.kind \in 1..3 BY <1>2, <1>4 DEF ScoresOn
<1>8. old.seen.inv = inv /\ old.gone = {} BY <1>6 DEF Scored
<1>9. Kind(old) = KindsOf(inv)[old.kind] BY <1>8 DEF Kind
<1>10. \A k \in 1..3 : KindsOf(inv)[k] \subseteq Assets(inv) BY DEF KindsOf, Assets
<1>11. ASSUME NEW a \in Kind(old) PROVE Entry(a) \in trend'
   <2>1. Entry(a) \in new /\ Entry(a).asset = a OBVIOUS
   <2>2. a \in Assets(inv) BY <1>7, <1>9, <1>10
   <2> QED BY <1>1, <1>2, <1>8, <2>1, <2>2
<1> HIDE DEF new
<1>12. ASSUME NEW k \in 1..3, NEW a \in KindsOf(inv)[k], k <= old.kind
       PROVE  risk[a] = RiskTable[inv][a] /\ Entry(a) \in trend'
   <2>1. CASE k < old.kind
      <3>1. /\ risk[a] = RiskTable[inv][a]
            /\ [asset |-> a, run |-> old.run, score |-> RiskTable[inv][a].score] \in trend
         BY <1>6, <2>1 DEF Scored
      <3> QED BY <1>1, <1>8, <3>1
   <2>2. CASE k = old.kind BY <1>6, <1>7, <1>9, <1>11, <2>2 DEF Scored
   <2> QED BY <1>7, <1>12, <2>1, <2>2
<1> QED BY <1>8, <1>12 DEF Run

LEMMA AppendFollows ==
    ASSUME RInv, SInv, NEW p \in Runners, AppendTrend(p)
    PROVE  SInv'
<1> DEFINE old == runner[p]
           n == NextKind(old)
<1>1. /\ inv' = inv /\ risk' = risk /\ table' = table /\ old.pc = "trend" /\ Goes(p, n)
      /\ trend \subseteq trend' /\ flawed \subseteq flawed'
   BY DEF AppendTrend, At
<1>2. RunnerIs(old, Assets(inv), started) BY DEF RInv, RunnersAre
<1>3. DOMAIN old = RunnerFields /\ old.kind \in 1..3 BY <1>1, <1>2 DEF RunnerIs, Scoring, ScoresOn
<1>4. runner'[p] = n BY <1>1 DEF Goes, RInv, RunnersAre
<1>5. \/ n = Idle
      \/ /\ DOMAIN n = RunnerFields
         /\ n.kind \in 1..3 /\ n.todo = Kind(n) /\ n.pc = "update" /\ n.seen = old.seen
         /\ n.run = old.run /\ n.gone = old.gone
   BY <1>3, NextKindIs
<1>6. n # Idle => n.clean = old.clean BY <1>3 DEF NextKind, RunnerFields
<1>7. \A k \in 1..3 : k > old.kind /\ KindsOf(old.seen.inv)[k] # {} => n # Idle /\ n.kind <= k
   BY <1>3, NextKindSkips
<1>8. ASSUME Solo(p)' PROVE n.pc \in Scoring /\ Scored(n, inv, risk, trend')
   <2>1. n # Idle BY <1>4, <1>8, IdleIs DEF Solo, Active
   <2>2. old.clean /\ Run(p) \notin flawed' BY <1>4, <1>5, <1>6, <1>8, <2>1 DEF Solo, Run
   <2>3. /\ old.seen.inv = inv /\ old.gone = {}
         /\ \A k \in 1..3 : \A a \in KindsOf(inv)[k] : k <= old.kind =>
               /\ risk[a] = RiskTable[inv][a]
               /\ [asset |-> a, run |-> old.run, score |-> RiskTable[inv][a].score] \in trend'
      BY <2>2, ToldIs DEF Run
   <2>4. Kind(n) = KindsOf(inv)[n.kind] BY <1>5, <2>1, <2>3 DEF Kind
   <2> HIDE DEF n, old
   <2>5. \A k \in 1..3 : k < n.kind => k <= old.kind \/ KindsOf(inv)[k] = {}
      BY <1>3, <1>5, <1>7, <2>1, <2>3
   <2> QED BY <1>5, <2>1, <2>3, <2>4, <2>5 DEF Scored, Scoring
<1> HIDE DEF n
<1>9. risk' = [a \in Assets(inv) |-> risk'[a]] BY <1>1 DEF SInv
<1> QED BY <1>1, <1>8, <1>9, FollowAll DEF RInv

LEMMA FailFollows ==
    ASSUME RInv, SInv, NEW p \in Runners, Fail(p) \/ FailUnseen(p)
    PROVE  SInv'
<1> DEFINE old == runner[p]
<1>1. /\ inv' = inv /\ risk' = risk /\ trend' = trend /\ table' = table
      /\ flawed' = flawed \cup {Run(p)}
   BY DEF Fail, FailUnseen
<1>2. CASE Fail(p) BY <1>1, <1>2, EndFollows DEF Fail
<1>3. CASE FailUnseen(p)
   <2>1. PICK r : Goes(p, r) /\ (r.run = old.run \/ r = Idle)
      <3> DEFINE last == Len(old.reads) = 1
                 zero == IF Head(old.reads) = "assets"
                         THEN [Seeing(old.seen, "assets") EXCEPT !.blind = TRUE] ELSE old.seen
                 r == IF old.pc = "delete" THEN [old EXCEPT !.pc = "insert"]
                      ELSE [old EXCEPT !.seen = zero, !.reads = Tail(@),
                                       !.pc = IF last THEN "delete" ELSE "read"]
      <3>1. Goes(p, r) BY <1>3 DEF FailUnseen
      <3>2. DOMAIN old = RunnerFields BY DEF RInv, RunnersAre, RunnerIs
      <3> HIDE DEF old
      <3>3. r.run = old.run BY <3>2 DEF RunnerFields
      <3> QED BY <3>1, <3>3
   <2>2. runner'[p] = r BY <2>1 DEF Goes, RInv, RunnersAre
   <2>3. ~Solo(p)' BY <1>1, <2>1, <2>2, IdleIs DEF Solo, Active, Run
   <2> QED BY <1>1, <2>1, <2>3, FollowAll DEF RInv, SInv
<1> QED BY <1>2, <1>3

\* When the inventory changes or the process dies, no run is alone with it.
LEMMA NoneFollows ==
    ASSUME \A p \in Runners : ~Solo(p)', inv' \in Inventories,
           risk' = [a \in Assets(inv') |-> risk'[a]]
    PROVE  SInv'
BY DEF SInv, Follows

LEMMA ChangeFollows ==
    ASSUME RInv, SInv, Change
    PROVE  SInv'
<1>1. /\ inv' \in Inventories
      /\ risk' = [a \in Assets(inv') |-> IF a \in DOMAIN risk THEN risk[a] ELSE Unscored]
      /\ runner' = [p \in Runners |->
                      IF Active(p)
                      THEN [runner[p] EXCEPT !.clean = FALSE,
                               !.gone = @ \cup (Assets(inv) \ Assets(inv'))]
                      ELSE runner[p]]
   BY DEF Change
<1>2. ASSUME NEW p \in Runners PROVE ~Solo(p)'
   <2>1. DOMAIN runner[p] = RunnerFields BY DEF RInv, RunnersAre, RunnerIs
   <2>2. CASE Active(p)
      <3>1. ~runner'[p].clean BY <1>1, <2>1, <2>2 DEF RunnerFields
      <3> QED BY <3>1 DEF Solo
   <2>3. CASE ~Active(p)
      <3>1. runner'[p] = runner[p] BY <1>1, <2>3
      <3> QED BY <2>3, <3>1 DEF Solo, Active
   <2> QED BY <2>2, <2>3
<1> QED BY <1>1, <1>2, NoneFollows

LEMMA CrashFollows ==
    ASSUME RInv, SInv, Crash
    PROVE  SInv'
<1>1. inv' = inv /\ risk' = risk /\ runner' = [p \in Runners |-> Idle] BY DEF Crash
<1>2. \A p \in Runners : ~Solo(p)' BY <1>1, IdleIs DEF Solo, Active
<1> QED BY <1>1, <1>2, NoneFollows DEF SInv

LEMMA SwitchFollows ==
    ASSUME SInv, inv' = inv, risk' = risk, trend' = trend, table' = table, runner' = runner,
           flawed' = flawed
    PROVE  SInv'
<1>1. \A p \in Runners : Follows(p)' BY FollowsOn DEF SInv
<1> QED BY <1>1 DEF SInv

LEMMA InsertFollows ==
    ASSUME RInv, SInv, NEW p \in Runners, Insert(p)
    PROVE  SInv'
BY EndFollows DEF Insert

LEMMA SoloInductive == RebuildSpec => [](RInv /\ SInv)
<1> USE RebuildAssumption
<1>1. RebuildInit => SInv
   <2> SUFFICES ASSUME RebuildInit PROVE SInv OBVIOUS
   <2>1. \A p \in Runners : ~Solo(p) BY IdleIs DEF RebuildInit, Solo, Active
   <2>2. inv \in Inventories BY DEF RebuildInit
   <2>3. CASE risk = [a \in Assets(inv) |-> Unscored] BY <2>1, <2>2, <2>3 DEF SInv, Follows
   <2>4. CASE risk = RiskTable[inv]
      <3>1. risk = RiskOf(inv) BY <2>2, <2>4 DEF RiskTable
      <3>2. risk = [a \in Assets(inv) |-> risk[a]] BY <3>1 DEF RiskOf
      <3> QED BY <2>1, <2>2, <3>2 DEF SInv, Follows
   <2> QED BY <2>3, <2>4 DEF RebuildInit
<1>2. RInv /\ SInv /\ [RebuildNext]_rebuildVars => SInv'
   <2> SUFFICES ASSUME RInv, SInv, [RebuildNext]_rebuildVars PROVE SInv' OBVIOUS
   <2>1. CASE Crash BY <2>1, CrashFollows
   <2>2. CASE Change BY <2>2, ChangeFollows
   <2>3. CASE WorkerTick
      <3>1. Worker \in Runners /\ "exposure" \in AllEngines BY DEF RebuildAssumption, AllEngines
      <3> QED BY <2>3, <3>1, StartFollows DEF WorkerTick
   <2>4. CASE WorkerStop \/ WorkerExit \/ UNCHANGED rebuildVars
      BY <2>4, SwitchFollows DEF WorkerStop, WorkerExit, rebuildVars
   <2>5. ASSUME NEW p \in Runners, NEW e \in Engines, Begin(p, e) PROVE SInv'
      BY <2>5, StartFollows DEF Begin, RebuildAssumption
   <2>6. ASSUME NEW p \in Runners, Read(p) PROVE SInv' BY <2>6, ReadFollows
   <2>7. ASSUME NEW p \in Runners, Delete(p) PROVE SInv' BY <2>7, DeleteFollows
   <2>8. ASSUME NEW p \in Runners, Insert(p) PROVE SInv' BY <2>8, InsertFollows
   <2>9. ASSUME NEW p \in Runners, UpdateAsset(p) PROVE SInv' BY <2>9, UpdateFollows
   <2>10. ASSUME NEW p \in Runners, AppendTrend(p) PROVE SInv' BY <2>10, AppendFollows
   <2>11. ASSUME NEW p \in Runners, Fail(p) \/ FailUnseen(p) PROVE SInv' BY <2>11, FailFollows
   <2> QED BY <2>1, <2>2, <2>3, <2>4, <2>5, <2>6, <2>7, <2>8, <2>9, <2>10, <2>11 DEF RebuildNext
<1>3. RebuildSpec => []RInv BY RebuildInductive
<1> QED BY <1>1, <1>2, <1>3, PTL DEF RebuildSpec

-----------------------------------------------------------------------------
(***************************************************************************)
(* What a run that ends alone leaves.                                      *)
(***************************************************************************)
LEMMA InsertIsExact ==
    ASSUME RInv, SInv, NEW p \in Runners, Insert(p), runner[p].clean, Run(p) \notin flawed'
    PROVE  Exact(Eng(p), Run(p))
<1> DEFINE s == runner[p].seen
           e == Eng(p)
           new == Of(Run(p), Compute(e, s))
           refused == e = "snapshot" /\ table["snapshot"] # {}
<1>1. /\ table' = [table EXCEPT ![e] = IF refused THEN @ ELSE @ \cup new]
      /\ flawed' = IF refused THEN flawed \cup {Run(p)} ELSE flawed
      /\ inv' = inv /\ risk' = risk /\ runner[p].pc = "insert"
   BY DEF Insert, At
<1>2. RunnerIs(runner[p], Assets(inv), started) /\ DOMAIN table = Derived
   BY DEF RInv, RunnersAre, TablesAre
<1>3. e \in Derived BY <1>1, <1>2 DEF RunnerIs, Eng, Scoring
<1>4. Looks(runner[p], inv, risk, table)
   BY <1>1 DEF SInv, Follows, Solo, Active, Run, Scoring
<1>5. /\ s.blind = FALSE /\ table[e] = {}
      /\ \A what \in Needs(e) : Sees(s, inv, risk, table, what)
   BY <1>1, <1>4 DEF Looks, Unread, Eng
<1>6. ~refused BY <1>1
<1>7. table' = [table EXCEPT ![e] = new] BY <1>1, <1>5, <1>6
<1> HIDE DEF new, refused
<1>8. table'[e] = new /\ \A d \in Derived \ {e} : table'[d] = table[d] BY <1>2, <1>3, <1>7
<1>9. "assets" \in Needs(e) BY <1>3 DEF Needs, Derived
<1>10. s.inv = Now.inv /\ s.risk = Now.risk
   BY <1>1, <1>5, <1>9 DEF Sees, Now
<1>11. e \in {"paths", "exposure"} => s.rels = Now.rels
   <2>1. e \in {"paths", "exposure"} => "relations" \in Needs(e) BY DEF Needs
   <2> QED BY <1>5, <1>8, <2>1 DEF Sees, Now, Derived
<1>12. e \in {"exposure", "snapshot"} => s.paths = Now.paths
   <2>1. e \in {"exposure", "snapshot"} => "paths" \in Needs(e) BY DEF Needs
   <2> QED BY <1>5, <1>8, <2>1 DEF Sees, Now, Derived
<1>13. s.blind = Now.blind BY <1>5 DEF Now
<1> HIDE DEF s
<1>14. Compute(e, s) = Compute(e, Now)
   <2>1. CASE e = "relations" BY <1>10, <2>1 DEF Compute
   <2>2. CASE e = "paths" BY <1>10, <1>11, <2>2 DEF Compute
   <2>3. CASE e = "exposure" BY <1>10, <1>11, <1>12, <2>3 DEF Compute
   <2>4. CASE e = "snapshot" BY <1>10, <1>12, <1>13, <2>4 DEF Compute
   <2> QED BY <1>3, <2>1, <2>2, <2>3, <2>4 DEF Derived
<1>15. e # "risk" BY <1>3 DEF Derived
<1> QED BY <1>8, <1>14, <1>15 DEF Exact, new

LEMMA RiskIsExact ==
    ASSUME RInv, SInv, NEW n, inv' = inv, risk' = risk,
           \A a \in Assets(inv) :
              /\ risk[a] = RiskTable[inv][a]
              /\ [asset |-> a, run |-> n, score |-> RiskTable[inv][a].score] \in trend'
    PROVE  Exact("risk", n)
<1>1. risk = [a \in Assets(inv) |-> risk[a]] /\ inv \in Inventories BY DEF SInv
<1>2. RiskTable[inv] = RiskOf(inv) BY <1>1 DEF RiskTable
<1>3. RiskTable[inv] = [a \in Assets(inv) |-> RiskTable[inv][a]] BY <1>2 DEF RiskOf
<1>4. risk = RiskTable[inv] BY <1>1, <1>3
<1>5. DOMAIN risk = Assets(inv) BY <1>1
<1> QED BY <1>4, <1>5 DEF Exact

LEMMA TrendIsExact ==
    ASSUME RInv, SInv, NEW p \in Runners, AppendTrend(p), runner[p].clean, Run(p) \notin flawed',
           ~Active(p)'
    PROVE  Exact(Eng(p), Run(p))
<1> DEFINE old == runner[p]
           n == NextKind(old)
<1>1. inv' = inv /\ risk' = risk /\ old.pc = "trend" /\ Goes(p, n) BY DEF AppendTrend, At
<1>2. RunnerIs(old, Assets(inv), started) BY DEF RInv, RunnersAre
<1>3. DOMAIN old = RunnerFields /\ old.kind \in 1..3 /\ old.eng = "risk"
   BY <1>1, <1>2 DEF RunnerIs, Scoring, ScoresOn
<1>4. runner'[p] = n BY <1>1 DEF Goes, RInv, RunnersAre
<1>5. n = Idle
   <2>1. n.pc = "idle" BY <1>4 DEF Active
   <2> QED BY <1>3, <2>1, NextKindIs
<1>6. /\ old.seen.inv = inv
      /\ \A k \in 1..3 : \A a \in KindsOf(inv)[k] : k <= old.kind =>
            /\ risk[a] = RiskTable[inv][a]
            /\ [asset |-> a, run |-> Run(p), score |-> RiskTable[inv][a].score] \in trend'
   BY ToldIs
<1>7. \A k \in 1..3 : k > old.kind => KindsOf(inv)[k] = {} BY <1>3, <1>5, <1>6, NextKindSkips
<1>8. ASSUME NEW a \in Assets(inv)
      PROVE  /\ risk[a] = RiskTable[inv][a]
             /\ [asset |-> a, run |-> Run(p), score |-> RiskTable[inv][a].score] \in trend'
   <2>1. PICK k \in 1..3 : a \in KindsOf(inv)[k] BY DEF Assets, KindsOf
   <2>2. k <= old.kind BY <1>3, <1>7, <2>1
   <2> QED BY <1>6, <2>1, <2>2
<1> QED BY <1>1, <1>3, <1>8, RiskIsExact DEF Eng

\* A risk run that finds no asset has nothing to write.
LEMMA EmptyIsExact ==
    ASSUME RInv, SInv, NEW p \in Runners, Read(p), ~Active(p)', runner[p].clean,
           Run(p) \notin flawed'
    PROVE  Exact(Eng(p), Run(p))
<1> DEFINE old == runner[p]
           r == [old EXCEPT !.seen = Seeing(@, Head(old.reads)), !.reads = Tail(@), !.gone = {}]
           s == [r EXCEPT !.pc = "delete"]
           next == IF r.reads # <<>> THEN r ELSE IF r.eng = "risk" THEN NextKind(r) ELSE s
<1>1. Goes(p, next) /\ inv' = inv /\ risk' = risk /\ old.pc = "read" BY DEF Read, At
<1>2. RunnerIs(old, Assets(inv), started) BY DEF RInv, RunnersAre
<1>3. DOMAIN old = RunnerFields BY <1>2 DEF RunnerIs
<1>4. runner'[p] = next BY <1>1 DEF Goes, RInv, RunnersAre
<1>o. old = runner[p] OBVIOUS
<1> HIDE DEF old
<1>5. /\ DOMAIN r = RunnerFields /\ r.eng = old.eng /\ r.pc = "read" /\ r.kind = old.kind
      /\ r.seen = Seeing(old.seen, Head(old.reads)) /\ s.pc = "delete"
   BY <1>1, <1>3 DEF RunnerFields
<1> HIDE DEF r, s
<1>6. next.pc = "idle" BY <1>4 DEF Active
<1>7. old.eng = "risk" /\ NextKind(r).pc = "idle" BY <1>5, <1>6
<1>8. /\ old.reads = <<"assets">> /\ DOMAIN old.seen = SeenFields /\ old.kind = 0
   BY <1>1, <1>2, <1>7 DEF RunnerIs, Scoring
<1>9. r.seen.inv = inv
   <2>1. Head(old.reads) = "assets" BY <1>8
   <2> QED BY <1>5, <1>8, <2>1 DEF Seeing, SeenFields
<1>10. NextKind(r) = Idle BY <1>5, <1>7, <1>8, NextKindIs
<1>11. \A k \in 1..3 : KindsOf(inv)[k] = {} BY <1>5, <1>8, <1>9, <1>10, NextKindSkips
<1>12. Assets(inv) = {} BY <1>11 DEF Assets, KindsOf
<1> QED BY <1>1, <1>7, <1>12, <1>o, RiskIsExact DEF Eng

\* A runner that is on goes on unless the step is its own.
LEMMA OthersGoOn ==
    ASSUME RInv, NEW p \in Runners, Active(p), ~Active(p)', NEW q \in Runners, NEW r,
           Goes(q, r) \/ Writes(q, r)
    PROVE  q = p
<1>1. Moved(q, r) BY Moving DEF RInv
<1> QED BY <1>1 DEF Moved, Same, Active

\* A rebuild alone with its tables leaves exactly what is to be computed from
\* what is stored when it ends (engine.go of the five engines).
THEOREM RebuildsAreExact == RebuildSpec => SoloIsExact
<1> USE RebuildAssumption
<1>1. RInv /\ SInv /\ [RebuildNext]_rebuildVars
        => [\A p \in Runners :
              (Active(p) /\ ~Active(p)' /\ runner[p].clean /\ Run(p) \notin flawed')
                 => Exact(Eng(p), Run(p))]_rebuildVars
   <2> SUFFICES ASSUME RInv, SInv, [RebuildNext]_rebuildVars, NEW p \in Runners,
                       Active(p), ~Active(p)', runner[p].clean, Run(p) \notin flawed'
                PROVE  Exact(Eng(p), Run(p))
      OBVIOUS
   <2>1. CASE Crash
      <3>1. Run(p) \in ActiveRuns BY DEF Run, ActiveRuns
      <3> QED BY <2>1, <3>1 DEF Crash
   <2>2. CASE Change
      <3>1. runner'[p] = [runner[p] EXCEPT !.clean = FALSE,
                             !.gone = @ \cup (Assets(inv) \ Assets(inv'))]
         BY <2>2 DEF Change
      <3>2. DOMAIN runner[p] = RunnerFields BY DEF RInv, RunnersAre, RunnerIs
      <3> QED BY <3>1, <3>2 DEF Active, RunnerFields
   <2>3. CASE WorkerStop \/ WorkerExit \/ UNCHANGED rebuildVars
      BY <2>3 DEF WorkerStop, WorkerExit, rebuildVars, Active
   <2>4. ASSUME NEW q \in Runners, NEW e, Starts(q, e) PROVE FALSE
      <3>1. q = p BY <2>4, OthersGoOn DEF Starts
      <3> QED BY <2>4, <3>1 DEF Starts
   <2>5. CASE WorkerTick BY <2>4, <2>5 DEF WorkerTick, RebuildAssumption
   <2>6. ASSUME NEW q \in Runners, NEW e \in Engines, Begin(q, e) PROVE FALSE
      BY <2>4, <2>6 DEF Begin
   <2>7. ASSUME NEW q \in Runners, Read(q) PROVE Exact(Eng(p), Run(p))
      <3>1. q = p BY <2>7, OthersGoOn DEF Read
      <3> QED BY <2>7, <3>1, EmptyIsExact
   <2>8. ASSUME NEW q \in Runners, Delete(q) PROVE FALSE
      <3>1. q = p BY <2>8, OthersGoOn DEF Delete
      <3>2. Writes(p, [runner[p] EXCEPT !.pc = "insert"]) BY <2>8, <3>1 DEF Delete
      <3>3. DOMAIN runner[p] = RunnerFields BY DEF RInv, RunnersAre, RunnerIs
      <3> QED BY <3>2, <3>3 DEF Writes, Active, RunnerFields
   <2>9. ASSUME NEW q \in Runners, Insert(q) PROVE Exact(Eng(p), Run(p))
      <3>1. q = p BY <2>9, OthersGoOn DEF Insert
      <3> QED BY <2>9, <3>1, InsertIsExact
   <2>10. ASSUME NEW q \in Runners, UpdateAsset(q) PROVE FALSE
      <3>1. PICK a : Writes(q, [runner[q] EXCEPT !.todo = @ \ {a},
                                  !.pc = IF runner[q].todo = {a} THEN "trend" ELSE "update"])
         BY <2>10 DEF UpdateAsset
      <3>2. q = p BY <3>1, OthersGoOn
      <3>3. DOMAIN runner[p] = RunnerFields BY DEF RInv, RunnersAre, RunnerIs
      <3> QED BY <3>1, <3>2, <3>3 DEF Writes, Active, RunnerFields
   <2>11. ASSUME NEW q \in Runners, AppendTrend(q) PROVE Exact(Eng(p), Run(p))
      <3>1. q = p BY <2>11, OthersGoOn DEF AppendTrend
      <3> QED BY <2>11, <3>1, TrendIsExact
   <2>12. ASSUME NEW q \in Runners, Fail(q) \/ FailUnseen(q) PROVE FALSE
      <3>1. q = p BY <2>12, OthersGoOn DEF Fail, FailUnseen
      <3> QED BY <2>12, <3>1 DEF Fail, FailUnseen
   <2> QED BY <2>1, <2>2, <2>3, <2>5, <2>6, <2>7, <2>8, <2>9, <2>10, <2>11, <2>12 DEF RebuildNext
<1> QED BY <1>1, SoloInductive, PTL DEF SoloIsExact, RebuildSpec

-----------------------------------------------------------------------------
(***************************************************************************)
(* Rebuild: what is counted is finite, and scores are in their range.      *)
(***************************************************************************)

\* Induction over the naturals, for a set of them.
LEMMA CountUp ==
    ASSUME NEW G, 0 \in G, \A k \in Nat : k \in G => k + 1 \in G
    PROVE  Nat \subseteq G
<1> DEFINE Bad == {k \in Nat : k \notin G}
           R == OpToRel(<, Nat)
<1>1. SUFFICES ASSUME Bad # {} PROVE FALSE OBVIOUS
<1>2. IsWellFoundedOn(R, Nat) BY NatLessThanWellFounded
<1>3. \A x, y \in Nat : x < y => <<x, y>> \in R BY DEF OpToRel
<1>4. Bad \subseteq Nat OBVIOUS
<1> HIDE DEF R
<1>5. PICK m \in Bad : \A y \in Bad : ~(<<y, m>> \in R)
  <2> HIDE DEF Bad
  <2> QED BY <1>1, <1>2, <1>4, WFMin
<1>6. m \in Nat /\ m \notin G /\ m # 0 OBVIOUS
<1>7. m - 1 \in Nat /\ m - 1 < m /\ (m - 1) + 1 = m BY <1>6
<1>8. m - 1 \notin Bad
  <2> HIDE DEF Bad
  <2> QED BY <1>3, <1>5, <1>6, <1>7
<1> QED BY <1>6, <1>7, <1>8

LEMMA ImagesAreFinite ==
    ASSUME NEW S, IsFiniteSet(S), NEW f, DOMAIN f = S
    PROVE  IsFiniteSet({f[x] : x \in S})
<1> DEFINE T == {f[x] : x \in S}
           g == [x \in S |-> f[x]]
<1>1. g \in Surjection(S, T) BY DEF Surjection
<1> HIDE DEF g, T
<1>2. IsFiniteSet(T) BY <1>1, FS_Surjection
<1> QED BY <1>2 DEF T

LEMMA PartsAreCounted ==
    ASSUME NEW S, IsFiniteSet(S), NEW T, T \subseteq S
    PROVE  IsFiniteSet(T) /\ Cardinality(T) \in Nat
BY FS_Subset, FS_CardinalityType

\* A sum over a finite set, as MapThenSumSet goes about it.
SumStep(F, g, s) == IF s = {} THEN 0
                    ELSE F[CHOOSE x \in s : TRUE] + g[s \ {CHOOSE x \in s : TRUE}]
Sums(F, S, g) == g = [s \in SUBSET S |-> SumStep(F, g, s)]

LEMMA OneLess ==
    ASSUME NEW S, IsFiniteSet(S), NEW s \in SUBSET S, s # {}, NEW n \in Nat, Cardinality(s) <= n + 1
    PROVE  LET x == CHOOSE x \in s : TRUE
           IN x \in S /\ s \ {x} \in SUBSET S /\ Cardinality(s \ {x}) <= n
<1> DEFINE x == CHOOSE x \in s : TRUE
<1>1. x \in s OBVIOUS
<1> HIDE DEF x
<1>2. IsFiniteSet(s) /\ Cardinality(s) \in Nat BY PartsAreCounted
<1>3. Cardinality(s \ {x}) = Cardinality(s) - 1 BY <1>1, <1>2, FS_RemoveElement
<1>4. x \in S /\ s \ {x} \in SUBSET S /\ Cardinality(s \ {x}) <= n BY <1>1, <1>2, <1>3
<1> QED BY <1>4 DEF x

LEMMA SumsAreNat ==
    ASSUME NEW S, IsFiniteSet(S), NEW F \in [S -> Nat], NEW g, Sums(F, S, g)
    PROVE  g[S] \in Nat
<1> DEFINE G == {n \in Nat : \A s \in SUBSET S : Cardinality(s) <= n => g[s] \in Nat}
<1>1. \A s \in SUBSET S : g[s] = SumStep(F, g, s)
  <2> HIDE DEF SumStep
  <2> QED BY DEF Sums
<1>2. 0 \in G
  <2>1. ASSUME NEW s \in SUBSET S, Cardinality(s) <= 0 PROVE g[s] \in Nat
    <3>1. IsFiniteSet(s) /\ Cardinality(s) \in Nat BY PartsAreCounted
    <3>2. s = {} BY <2>1, <3>1, FS_EmptySet
    <3> QED BY <1>1, <3>2 DEF SumStep
  <2> QED BY <2>1
<1>3. ASSUME NEW n \in Nat, n \in G PROVE n + 1 \in G
  <2>1. ASSUME NEW s \in SUBSET S, Cardinality(s) <= n + 1 PROVE g[s] \in Nat
    <3>1. CASE s = {}
      <4>1. SumStep(F, g, {}) = 0 BY DEF SumStep
      <4>2. g[s] = SumStep(F, g, s)
        <5> HIDE DEF SumStep
        <5> QED BY <1>1
      <4>3. g[s] = 0
        <5> HIDE DEF SumStep
        <5> QED BY <3>1, <4>1, <4>2
      <4> QED BY <4>3
    <3>2. CASE s # {}
      <4> DEFINE x == CHOOSE x \in s : TRUE
      <4>1. x \in S /\ s \ {x} \in SUBSET S /\ Cardinality(s \ {x}) <= n
        BY <2>1, <3>2, OneLess
      <4>2. g[s] = F[x] + g[s \ {x}] BY <1>1, <3>2 DEF SumStep
      <4> HIDE DEF x
      <4>3. g[s \ {x}] \in Nat BY <1>3, <4>1
      <4>4. F[x] \in Nat BY <4>1
      <4> QED BY <4>2, <4>3, <4>4
    <3> QED BY <3>1, <3>2
  <2> QED BY <2>1
<1>4. Nat \subseteq G
  <2> HIDE DEF G
  <2> QED BY <1>2, <1>3, CountUp
<1>5. Cardinality(S) \in Nat BY FS_CardinalityType
<1> QED BY <1>4, <1>5

LEMMA SumsExist ==
    ASSUME NEW S, IsFiniteSet(S), NEW F
    PROVE  \E g : Sums(F, S, g)
<1> DEFINE Fits(g, n) == \A s \in SUBSET S : Cardinality(s) <= n => g[s] = SumStep(F, g, s)
           G == {n \in Nat : \E g : Fits(g, n)}
<1>1. 0 \in G
  <2> DEFINE h == [s \in SUBSET S |-> 0]
  <2>1. ASSUME NEW s \in SUBSET S, Cardinality(s) <= 0 PROVE h[s] = SumStep(F, h, s)
    <3>1. IsFiniteSet(s) /\ Cardinality(s) \in Nat BY PartsAreCounted
    <3>2. s = {} BY <2>1, <3>1, FS_EmptySet
    <3> QED BY <3>2 DEF SumStep
  <2> HIDE DEF h
  <2>2. Fits(h, 0) BY <2>1
  <2> QED BY <2>2
<1>2. ASSUME NEW n \in Nat, n \in G PROVE n + 1 \in G
  <2>1. PICK g : Fits(g, n)
    <3> HIDE DEF Fits
    <3> QED BY <1>2
  <2> DEFINE h == [s \in SUBSET S |-> SumStep(F, g, s)]
  <2>2. \A s \in SUBSET S : h[s] = SumStep(F, g, s) OBVIOUS
  <2>3. \A s \in SUBSET S : Cardinality(s) <= n => h[s] = g[s] BY <2>1, <2>2
  <2> HIDE DEF h
  <2>4. ASSUME NEW s \in SUBSET S, Cardinality(s) <= n + 1 PROVE h[s] = SumStep(F, h, s)
    <3>1. CASE s = {} BY <2>2, <3>1 DEF SumStep
    <3>2. CASE s # {}
      <4> DEFINE x == CHOOSE x \in s : TRUE
      <4>1. s \ {x} \in SUBSET S /\ Cardinality(s \ {x}) <= n BY <2>4, <3>2, OneLess
      <4>2. h[s \ {x}] = g[s \ {x}]
        <5> HIDE DEF x
        <5> QED BY <2>3, <4>1
      <4> QED BY <2>2, <3>2, <4>2 DEF SumStep
    <3> QED BY <3>1, <3>2
  <2>5. Fits(h, n + 1) BY <2>4
  <2> HIDE DEF Fits
  <2> QED BY <2>5
<1>3. Nat \subseteq G
  <2> HIDE DEF G
  <2> QED BY <1>1, <1>2, CountUp
<1>4. Cardinality(S) \in Nat BY FS_CardinalityType
<1>5. PICK g : Fits(g, Cardinality(S))
  <2> HIDE DEF Fits
  <2> QED BY <1>3, <1>4
<1> DEFINE h == [s \in SUBSET S |-> g[s]]
<1>6. ASSUME NEW s \in SUBSET S PROVE h[s] = SumStep(F, h, s)
  <2>1. g[s] = SumStep(F, g, s)
    <3>1. Cardinality(s) <= Cardinality(S) BY FS_Subset
    <3> QED BY <1>5, <3>1
  <2>2. CASE s = {} BY <2>1, <2>2 DEF SumStep
  <2>3. CASE s # {}
    <3> DEFINE x == CHOOSE x \in s : TRUE
    <3>1. s \ {x} \in SUBSET S OBVIOUS
    <3>2. h[s \ {x}] = g[s \ {x}]
      <4> HIDE DEF x
      <4> QED BY <3>1
    <3> QED BY <2>1, <2>3, <3>2 DEF SumStep
  <2> QED BY <2>2, <2>3
<1>7. h = [s \in SUBSET S |-> SumStep(F, h, s)]
  <2>1. h = [s \in SUBSET S |-> h[s]] OBVIOUS
  <2> HIDE DEF h
  <2> QED BY <1>6, <2>1
<1> HIDE DEF h
<1> QED BY <1>7 DEF Sums

LEMMA HeadersAreCounted ==
    ASSUME NEW S, IsFiniteSet(S)
    PROVE  MapThenSumSet(MissingHeaders, S) \in Nat
<1> DEFINE F == [x \in S |-> MissingHeaders(x)]
           iter == CHOOSE g : g = [s \in SUBSET S |->
                     IF s = {} THEN 0
                     ELSE MissingHeaders(CHOOSE x \in s : TRUE) + g[s \ {CHOOSE x \in s : TRUE}]]
<1>1. ASSUME NEW x PROVE MissingHeaders(x) \in Nat
  <2>1. IsFiniteSet(RequiredHeaders)
    <3>1. IsFiniteSet({"hsts"}) BY FS_Singleton
    <3>2. IsFiniteSet({"hsts"} \cup {"csp"}) BY <3>1, FS_AddElement
    <3>3. IsFiniteSet({"hsts"} \cup {"csp"} \cup {"x-frame-options"}) BY <3>2, FS_AddElement
    <3>4. IsFiniteSet({"hsts"} \cup {"csp"} \cup {"x-frame-options"} \cup {"x-content-type-options"})
      BY <3>3, FS_AddElement
    <3>5. RequiredHeaders = {"hsts"} \cup {"csp"} \cup {"x-frame-options"} \cup {"x-content-type-options"}
      BY DEF RequiredHeaders
    <3> QED BY <3>4, <3>5
  <2>2. Cardinality(RequiredHeaders \ x.headers) \in Nat BY <2>1, PartsAreCounted
  <2> QED BY <2>2 DEF MissingHeaders
<1>2. F \in [S -> Nat] BY <1>1
<1>3. ASSUME NEW g
      PROVE  [s \in SUBSET S |->
                     IF s = {} THEN 0
                     ELSE MissingHeaders(CHOOSE x \in s : TRUE) + g[s \ {CHOOSE x \in s : TRUE}]]
                = [s \in SUBSET S |-> SumStep(F, g, s)]
  <2>1. ASSUME NEW s \in SUBSET S
        PROVE  (IF s = {} THEN 0
                ELSE MissingHeaders(CHOOSE x \in s : TRUE) + g[s \ {CHOOSE x \in s : TRUE}])
                 = SumStep(F, g, s)
    <3>1. CASE s = {} BY <3>1 DEF SumStep
    <3>2. CASE s # {}
      <4>1. (CHOOSE x \in s : TRUE) \in S BY <3>2
      <4>2. F[CHOOSE x \in s : TRUE] = MissingHeaders(CHOOSE x \in s : TRUE) BY <4>1
      <4> HIDE DEF F
      <4> QED BY <3>2, <4>2 DEF SumStep
    <3> QED BY <3>1, <3>2
  <2> HIDE DEF F
  <2> QED BY <2>1
<1> HIDE DEF F
<1>4. \E g : g = [s \in SUBSET S |->
                     IF s = {} THEN 0
                     ELSE MissingHeaders(CHOOSE x \in s : TRUE) + g[s \ {CHOOSE x \in s : TRUE}]]
  <2>1. PICK g : Sums(F, S, g) BY SumsExist
  <2>2. g = [s \in SUBSET S |-> SumStep(F, g, s)] BY <2>1 DEF Sums
  <2> DEFINE B(h) == [s \in SUBSET S |->
                     IF s = {} THEN 0
                     ELSE MissingHeaders(CHOOSE x \in s : TRUE) + h[s \ {CHOOSE x \in s : TRUE}]]
  <2>3. B(g) = [s \in SUBSET S |-> SumStep(F, g, s)] BY <1>3
  <2>4. g = B(g)
    <3> HIDE DEF B
    <3> QED BY <2>2, <2>3
  <2>5. \E h : h = B(h)
    <3> HIDE DEF B
    <3> QED BY <2>4
  <2> QED BY <2>5
<1>5. iter = [s \in SUBSET S |->
                     IF s = {} THEN 0
                     ELSE MissingHeaders(CHOOSE x \in s : TRUE) + iter[s \ {CHOOSE x \in s : TRUE}]]
  BY <1>4
<1> HIDE DEF iter
<1>6. Sums(F, S, iter) BY <1>3, <1>5 DEF Sums
<1>7. iter[S] \in Nat BY <1>2, <1>6, SumsAreNat
<1>8. MapThenSumSet(MissingHeaders, S) = iter[S] BY DEF MapThenSumSet, MapThenFoldSet, iter
<1> QED BY <1>7, <1>8

-----------------------------------------------------------------------------
\* Whatever a run reads of the inventory, it counts rows of finite tables.
LEMMA SourcesAreFinite ==
    ASSUME RebuildAssumption, NEW i \in Inventories
    PROVE  /\ IsFiniteSet(i.domains) /\ IsFiniteSet(i.subs) /\ IsFiniteSet(i.hosts)
           /\ IsFiniteSet(i.services) /\ IsFiniteSet(i.certs) /\ IsFiniteSet(i.techs)
           /\ IsFiniteSet(i.pages) /\ IsFiniteSet(i.findings) /\ IsFiniteSet(i.ranges)
           /\ IsFiniteSet(i.cloud)
BY DEF RebuildAssumption

LEMMA NamedAreFinite ==
    ASSUME NEW rows, IsFiniteSet(rows)
    PROVE  IsFiniteSet(Named(rows))
<1> DEFINE f == [r \in rows |-> r.id]
<1>1. {f[r] : r \in rows} = Named(rows) BY DEF Named
<1>2. DOMAIN f = rows OBVIOUS
<1> HIDE DEF f
<1>3. IsFiniteSet({f[r] : r \in rows}) BY <1>2, ImagesAreFinite
<1> QED BY <1>1, <1>3

LEMMA AssetsAreFinite ==
    ASSUME RebuildAssumption, NEW i \in Inventories
    PROVE  /\ IsFiniteSet(Named(i.hosts)) /\ IsFiniteSet(Named(i.subs))
           /\ IsFiniteSet(Assets(i))
<1>1. IsFiniteSet(Named(i.hosts)) /\ IsFiniteSet(Named(i.subs)) /\ IsFiniteSet(Named(i.domains))
   BY SourcesAreFinite, NamedAreFinite
<1>2. IsFiniteSet(Named(i.hosts) \cup Named(i.subs)) BY <1>1, FS_Union
<1>3. IsFiniteSet(Named(i.hosts) \cup Named(i.subs) \cup Named(i.domains)) BY <1>1, <1>2, FS_Union
<1> QED BY <1>1, <1>3 DEF Assets

LEMMA FactorsAreNat ==
    ASSUME NEW svcs, IsFiniteSet(svcs), NEW certs, IsFiniteSet(certs),
           NEW pages, IsFiniteSet(pages), NEW finds, IsFiniteSet(finds)
    PROVE  LET f == RiskFactors(svcs, certs, pages, finds)
           IN /\ f.services \in Nat /\ f.ports \in Nat /\ f.bad \in Nat /\ f.expiring \in Nat
              /\ f.headers \in Nat /\ f.critical \in Nat /\ f.high \in Nat
              /\ f.medium \in Nat /\ f.low \in Nat
<1> DEFINE ids == {s.id : s \in svcs}
           open == {s \in svcs : s.state \in {"open", ""}}
           mine(things) == {t \in things : t.service \in ids}
<1>1. Cardinality(open) \in Nat BY PartsAreCounted
<1>2. Cardinality({s \in open : s.riskyPort}) \in Nat
   <2>1. {s \in open : s.riskyPort} \subseteq svcs OBVIOUS
   <2> QED BY <2>1, PartsAreCounted
<1> HIDE DEF open, ids
<1>3. Cardinality({c \in mine(certs) : c.bad}) \in Nat
   <2>1. {c \in mine(certs) : c.bad} \subseteq certs OBVIOUS
   <2> QED BY <2>1, PartsAreCounted
<1>4. Cardinality({c \in mine(certs) : ~c.bad /\ c.expiring}) \in Nat
   <2>1. {c \in mine(certs) : ~c.bad /\ c.expiring} \subseteq certs OBVIOUS
   <2> QED BY <2>1, PartsAreCounted
<1>5. MapThenSumSet(MissingHeaders, mine(pages)) \in Nat
   <2>1. mine(pages) \subseteq pages OBVIOUS
   <2> HIDE DEF mine
   <2>2. IsFiniteSet(mine(pages)) BY <2>1, PartsAreCounted
   <2> QED BY <2>2, HeadersAreCounted
<1>6. ASSUME NEW sev PROVE CountOf(sev, finds) \in Nat
   <2>1. {f \in finds : f.sev = sev} \subseteq finds OBVIOUS
   <2> QED BY <2>1, PartsAreCounted DEF CountOf
<1>7. RiskFactors(svcs, certs, pages, finds)
        = [services |-> Cardinality(open),
           ports    |-> Cardinality({s \in open : s.riskyPort}),
           bad      |-> Cardinality({c \in mine(certs) : c.bad}),
           expiring |-> Cardinality({c \in mine(certs) : ~c.bad /\ c.expiring}),
           headers  |-> MapThenSumSet(MissingHeaders, mine(pages)),
           critical |-> CountOf("critical", finds),
           high     |-> CountOf("high", finds),
           medium   |-> CountOf("medium", finds),
           low      |-> CountOf("low", finds)]
   BY DEF RiskFactors, open, ids
<1>8. PICK a, b, c, d, e : /\ a = Cardinality(open) /\ b = Cardinality({s \in open : s.riskyPort})
                           /\ c = Cardinality({x \in mine(certs) : x.bad})
                           /\ d = Cardinality({x \in mine(certs) : ~x.bad /\ x.expiring})
                           /\ e = MapThenSumSet(MissingHeaders, mine(pages))
   OBVIOUS
<1> HIDE DEF mine
<1>9. a \in Nat /\ b \in Nat /\ c \in Nat /\ d \in Nat /\ e \in Nat
   BY <1>1, <1>2, <1>3, <1>4, <1>5, <1>8
<1>10. RiskFactors(svcs, certs, pages, finds)
        = [services |-> a, ports |-> b, bad |-> c, expiring |-> d, headers |-> e,
           critical |-> CountOf("critical", finds), high |-> CountOf("high", finds),
           medium |-> CountOf("medium", finds), low |-> CountOf("low", finds)]
   BY <1>7, <1>8
<1> QED BY <1>6, <1>9, <1>10

LEMMA TimesAreNat ==
    ASSUME NEW t \in Nat, NEW a \in {4, 5}, NEW b \in {10, 11}, NEW c \in {3, 4}
    PROVE  t * a * b * c \in Nat
<1>1. t * a \in Nat
   <2>1. CASE a = 4 BY <2>1
   <2>2. CASE a = 5 BY <2>2
   <2> QED BY <2>1, <2>2
<1>2. PICK u \in Nat : u = t * a BY <1>1
<1>3. u * b \in Nat
   <2>1. CASE b = 10 BY <2>1
   <2>2. CASE b = 11 BY <2>2
   <2> QED BY <2>1, <2>2
<1>4. PICK v \in Nat : v = u * b BY <1>3
<1>5. v * c \in Nat
   <2>1. CASE c = 3 BY <2>1
   <2>2. CASE c = 4 BY <2>2
   <2> QED BY <2>1, <2>2
<1> QED BY <1>2, <1>4, <1>5

\* A cell of the risk columns: its score is a percentage, its counts are counts.
IsCell(c) == c.score \in 0..MaxRisk /\ c.bad \in Nat /\ c.expiring \in Nat
Cells(cols, i) == DOMAIN cols = Assets(i) /\ \A a \in Assets(i) : IsCell(cols[a])

LEMMA CappedIs ==
    ASSUME NEW n \in Nat, NEW hi \in Nat
    PROVE  Capped(n, hi) \in 0..hi
BY DEF Capped

LEMMA MaxRiskIs == MaxRisk \in Nat
BY SMT DEF MaxRisk, RiskUnit

LEMMA ScoreIs ==
    ASSUME NEW f, NEW env, NEW monitored, NEW tags,
           f.services \in Nat, f.ports \in Nat, f.bad \in Nat, f.expiring \in Nat,
           f.headers \in Nat, f.critical \in Nat, f.high \in Nat, f.medium \in Nat, f.low \in Nat
    PROVE  RiskScore(f, env, monitored, tags).score \in 0..MaxRisk
<1> DEFINE tenths == 100 * f.critical + 40 * f.high + 15 * f.medium + 5 * f.low
                + 80 * f.bad + 50 * f.expiring + 60 * f.ports + 20 * f.headers
                + (IF f.services > 20 THEN 2 * (f.services - 20) ELSE 0)
           a == IF tags \cap SensitiveTags # {} THEN 5 ELSE 4
           b == IF env = "production" /\ monitored THEN 11 ELSE 10
           c == IF tags \cap InternalTags # {} THEN 3 ELSE 4
<1>1. tenths \in Nat
   <2>1. PICK k \in Nat : k = IF f.services > 20 THEN 2 * (f.services - 20) ELSE 0 OBVIOUS
   <2>2. ASSUME NEW a0 \in Nat, NEW b0 \in Nat, NEW c0 \in Nat, NEW d0 \in Nat,
                NEW e0 \in Nat, NEW f0 \in Nat, NEW g0 \in Nat, NEW h0 \in Nat
         PROVE  100 * a0 + 40 * b0 + 15 * c0 + 5 * d0 + 80 * e0 + 50 * f0 + 60 * g0 + 20 * h0 \in Nat
      OBVIOUS
   <2>3. PICK n \in Nat : n = 100 * f.critical + 40 * f.high + 15 * f.medium + 5 * f.low
                             + 80 * f.bad + 50 * f.expiring + 60 * f.ports + 20 * f.headers
      BY <2>2
   <2>4. n + k \in Nat OBVIOUS
   <2> QED BY <2>1, <2>3, <2>4
<1>2. a \in {4, 5} /\ b \in {10, 11} /\ c \in {3, 4} OBVIOUS
<1>3. RiskScore(f, env, monitored, tags).score = Capped(tenths * a * b * c, MaxRisk)
   BY DEF RiskScore
<1> HIDE DEF tenths, a, b, c
<1>4. tenths * a * b * c \in Nat BY <1>1, <1>2, TimesAreNat
<1>5. PICK n \in Nat : n = tenths * a * b * c BY <1>4
<1>6. Capped(n, MaxRisk) \in 0..MaxRisk
   BY MaxRiskIs, CappedIs
<1> QED BY <1>3, <1>5, <1>6

LEMMA CellIs ==
    ASSUME RebuildAssumption, NEW i \in Inventories, NEW id, NEW env, NEW monitored, NEW tags
    PROVE  IsCell(AssetRisk(i, id, env, monitored, tags))
<1> DEFINE f == RiskFactors(ServicesOf(i, id), i.certs, i.pages, FindingsOf(i, id))
           r == RiskScore(f, env, monitored, tags)
<1>1. IsFiniteSet(ServicesOf(i, id)) /\ IsFiniteSet(FindingsOf(i, id))
   <2>1. ServicesOf(i, id) \subseteq i.services BY DEF ServicesOf
   <2>2. FindingsOf(i, id) \subseteq i.findings BY DEF FindingsOf, Open
   <2> QED BY <2>1, <2>2, SourcesAreFinite, PartsAreCounted
<1>2. IsFiniteSet(i.certs) /\ IsFiniteSet(i.pages) BY SourcesAreFinite
<1>3. /\ f.services \in Nat /\ f.ports \in Nat /\ f.bad \in Nat /\ f.expiring \in Nat
      /\ f.headers \in Nat /\ f.critical \in Nat /\ f.high \in Nat
      /\ f.medium \in Nat /\ f.low \in Nat
   BY <1>1, <1>2, FactorsAreNat
<1>4. AssetRisk(i, id, env, monitored, tags)
        = [score |-> r.score, tier |-> Tier(r.score), internet |-> r.internet,
           sensitive |-> r.sensitive, bad |-> f.bad, expiring |-> f.expiring]
   BY DEF AssetRisk
<1> HIDE DEF f
<1>5. r.score \in 0..MaxRisk BY <1>3, ScoreIs
<1> HIDE DEF r
<1> QED BY <1>3, <1>4, <1>5 DEF IsCell

LEMMA UnscoredIs == IsCell(Unscored)
BY MaxRiskIs DEF IsCell, Unscored

LEMMA TableCells ==
    ASSUME RebuildAssumption, NEW i \in Inventories
    PROVE  Cells(RiskTable[i], i)
<1>1. RiskTable[i] = RiskOf(i) BY DEF RiskTable
<1>2. DOMAIN RiskOf(i) = Assets(i) BY DEF RiskOf
<1>3. ASSUME NEW h PROVE IsCell(HostRisk(i, h)) BY CellIs DEF HostRisk
<1>4. ASSUME NEW s PROVE IsCell(SubRisk(i, s)) BY CellIs DEF SubRisk
<1>5. ASSUME NEW d PROVE IsCell(DomainRisk(i, d)) BY <1>4, UnscoredIs DEF DomainRisk
<1>6. ASSUME NEW a \in Assets(i) PROVE IsCell(RiskOf(i)[a])
   <2>1. RiskOf(i)[a] = IF a \in Named(i.hosts) THEN HostRisk(i, Row(i.hosts, a))
                        ELSE IF a \in Named(i.subs) THEN SubRisk(i, Row(i.subs, a))
                        ELSE DomainRisk(i, Row(i.domains, a))
      BY DEF RiskOf
   <2> QED BY <1>3, <1>4, <1>5, <2>1
<1> QED BY <1>1, <1>2, <1>6 DEF Cells

-----------------------------------------------------------------------------
\* Rows of one relation are as many as the rows they come from.
LEMMA EdgesOf ==
    ASSUME NEW S, IsFiniteSet(S), NEW f, DOMAIN f = S, NEW T, \A e \in T : \E x \in S : e = f[x]
    PROVE  IsFiniteSet(T)
<1> DEFINE U == {f[x] : x \in S}
<1>1. T \subseteq U OBVIOUS
<1>2. IsFiniteSet(U) BY ImagesAreFinite
<1> HIDE DEF U
<1> QED BY <1>1, <1>2, PartsAreCounted

\* And of a relation that asks more than one row of each.
LEMMA EdgesOfEach ==
    ASSUME NEW S, IsFiniteSet(S), NEW f, DOMAIN f = S, \A x \in S : IsFiniteSet(f[x]),
           NEW T, T = UNION {f[x] : x \in S}
    PROVE  IsFiniteSet(T)
<1> DEFINE U == {f[x] : x \in S}
<1>1. IsFiniteSet(U) BY ImagesAreFinite
<1>2. \A t \in U : IsFiniteSet(t) OBVIOUS
<1> HIDE DEF U
<1>3. IsFiniteSet(UNION U) BY <1>1, <1>2, FS_UNION
<1> QED BY <1>3 DEF U

LEMMA StructureIsFinite ==
    ASSUME RebuildAssumption, NEW i \in Inventories
    PROVE  IsFiniteSet(StructureEdges(i))
<1> DEFINE children == {Edge(s.domain, s.id, "parent_child") : s \in {s \in i.subs : s.domain \in Named(i.domains)}}
           resolved(s) == {Edge(s.id, h, "resolves_to") : h \in s.ips \cap Named(i.hosts)}
           served(s) == {Edge(e, s.id, "parent_child") : e \in ServiceEnd(i, s)}
           secured == {Edge(c.service, c.id, "parent_child") :
                         c \in {c \in i.certs : c.service \in Named(i.services)}}
           running == {Edge(t.service, t.id, "runs") :
                         t \in {t \in i.techs : t.service \in Named(i.services)}}
           onHost == {Edge(f.id, f.host, "related_to") : f \in {f \in i.findings : f.host \in Named(i.hosts)}}
           onSub == {Edge(f.id, f.sub, "related_to") : f \in {f \in i.findings : f.sub \in Named(i.subs)}}
<1>1. IsFiniteSet(children)
   <2> DEFINE f == [s \in i.subs |-> Edge(s.domain, s.id, "parent_child")]
   <2>1. DOMAIN f = i.subs /\ \A e \in children : \E x \in i.subs : e = f[x] OBVIOUS
   <2> HIDE DEF f, children
   <2> QED BY <2>1, SourcesAreFinite, EdgesOf
<1>2. IsFiniteSet(UNION {resolved(s) : s \in i.subs})
   <2>1. ASSUME NEW s PROVE IsFiniteSet(resolved(s))
      <3> DEFINE f == [h \in Named(i.hosts) |-> Edge(s.id, h, "resolves_to")]
                 T == resolved(s)
      <3>1. DOMAIN f = Named(i.hosts) /\ \A e \in T : \E x \in Named(i.hosts) : e = f[x] OBVIOUS
      <3> HIDE DEF f, T
      <3>2. IsFiniteSet(T) BY <3>1, AssetsAreFinite, EdgesOf
      <3> QED BY <3>2 DEF T
   <2> DEFINE f == [s \in i.subs |-> resolved(s)]
              T == UNION {resolved(s) : s \in i.subs}
   <2> HIDE DEF resolved
   <2>2. DOMAIN f = i.subs /\ (\A x \in i.subs : IsFiniteSet(f[x])) /\ T = UNION {f[x] : x \in i.subs}
      BY <2>1
   <2> HIDE DEF f, T
   <2>3. IsFiniteSet(T) BY <2>2, SourcesAreFinite, EdgesOfEach
   <2> QED BY <2>3 DEF T
<1>3. IsFiniteSet(UNION {served(s) : s \in i.services})
   <2>1. ASSUME NEW s PROVE IsFiniteSet(served(s))
      <3> DEFINE f == [e \in ServiceEnd(i, s) |-> Edge(e, s.id, "parent_child")]
                 T == served(s)
      <3>1. IsFiniteSet(ServiceEnd(i, s))
         <4>1. CASE ServiceEnd(i, s) = {s.host} BY <4>1, FS_Singleton
         <4>2. CASE ServiceEnd(i, s) = {s.ref} BY <4>2, FS_Singleton
         <4>3. CASE ServiceEnd(i, s) = {s.ref} \cap Named(i.hosts)
            <5>1. {s.ref} \cap Named(i.hosts) \subseteq Named(i.hosts) OBVIOUS
            <5> QED BY <4>3, <5>1, AssetsAreFinite, PartsAreCounted
         <4> QED BY <4>1, <4>2, <4>3 DEF ServiceEnd
      <3>2. DOMAIN f = ServiceEnd(i, s) /\ \A e \in T : \E x \in ServiceEnd(i, s) : e = f[x] OBVIOUS
      <3> HIDE DEF f, T
      <3>3. IsFiniteSet(T) BY <3>1, <3>2, EdgesOf
      <3> QED BY <3>3 DEF T
   <2> DEFINE f == [s \in i.services |-> served(s)]
              T == UNION {served(s) : s \in i.services}
   <2> HIDE DEF served
   <2>2. /\ DOMAIN f = i.services /\ \A x \in i.services : IsFiniteSet(f[x])
         /\ T = UNION {f[x] : x \in i.services}
      BY <2>1
   <2> HIDE DEF f, T
   <2>3. IsFiniteSet(T) BY <2>2, SourcesAreFinite, EdgesOfEach
   <2> QED BY <2>3 DEF T
<1>4. IsFiniteSet(secured)
   <2> DEFINE f == [c \in i.certs |-> Edge(c.service, c.id, "parent_child")]
   <2>1. DOMAIN f = i.certs /\ \A e \in secured : \E x \in i.certs : e = f[x] OBVIOUS
   <2> HIDE DEF f, secured
   <2> QED BY <2>1, SourcesAreFinite, EdgesOf
<1>5. IsFiniteSet(running)
   <2> DEFINE f == [t \in i.techs |-> Edge(t.service, t.id, "runs")]
   <2>1. DOMAIN f = i.techs /\ \A e \in running : \E x \in i.techs : e = f[x] OBVIOUS
   <2> HIDE DEF f, running
   <2> QED BY <2>1, SourcesAreFinite, EdgesOf
<1>6. IsFiniteSet(onHost)
   <2> DEFINE f == [x \in i.findings |-> Edge(x.id, x.host, "related_to")]
   <2>1. DOMAIN f = i.findings /\ \A e \in onHost : \E x \in i.findings : e = f[x] OBVIOUS
   <2> HIDE DEF f, onHost
   <2> QED BY <2>1, SourcesAreFinite, EdgesOf
<1>7. IsFiniteSet(onSub)
   <2> DEFINE f == [x \in i.findings |-> Edge(x.id, x.sub, "related_to")]
   <2>1. DOMAIN f = i.findings /\ \A e \in onSub : \E x \in i.findings : e = f[x] OBVIOUS
   <2> HIDE DEF f, onSub
   <2> QED BY <2>1, SourcesAreFinite, EdgesOf
<1> DEFINE hosts == UNION {resolved(s) : s \in i.subs}
           ends == UNION {served(s) : s \in i.services}
<1>8. StructureEdges(i)
        = children \cup hosts \cup ends \cup secured \cup running \cup onHost \cup onSub
   BY DEF StructureEdges
<1>9. IsFiniteSet(hosts) /\ IsFiniteSet(ends) BY <1>2, <1>3
<1> HIDE DEF children, hosts, ends, secured, running, onHost, onSub
<1>10. IsFiniteSet(children \cup hosts) BY <1>1, <1>9, FS_Union
<1>11. IsFiniteSet(children \cup hosts \cup ends) BY <1>9, <1>10, FS_Union
<1>12. IsFiniteSet(children \cup hosts \cup ends \cup secured) BY <1>4, <1>11, FS_Union
<1>13. IsFiniteSet(children \cup hosts \cup ends \cup secured \cup running)
   BY <1>5, <1>12, FS_Union
<1>14. IsFiniteSet(children \cup hosts \cup ends \cup secured \cup running \cup onHost)
   BY <1>6, <1>13, FS_Union
<1>15. IsFiniteSet(children \cup hosts \cup ends \cup secured \cup running \cup onHost \cup onSub)
   BY <1>7, <1>14, FS_Union
<1> QED BY <1>8, <1>15

LEMMA SharedIsFinite ==
    ASSUME RebuildAssumption, NEW i \in Inventories
    PROVE  IsFiniteSet(SharedEdges(i))
<1> DEFINE inASN(h) == {g \in i.hosts : g.asn = h.asn}
           covers(c) == {m \in c.sans \X i.subs : Covers(m[1], m[2].name)}
           registered(d) == {e \in i.domains : e.registrant = d.registrant}
           numbered == {h \in i.hosts : h.asn # ""}
           twice == {c \in i.certs : Cardinality(covers(c)) >= 2}
           hubs == {Edge(h.asn, h.id, "parent_child") : h \in numbered}
           ranged(r) == {Edge(r.id, h, "parent_child") : h \in r.hosts \cap Named(i.hosts)}
           ranges == UNION {ranged(r) : r \in i.ranges}
           asns == {Edge(h.asn, h.id, "shared_asn") : h \in {h \in numbered : Cardinality(inASN(h)) >= 2}}
           matched(c) == {Edge(c.id, m[2].id, "cert_san_match") : m \in covers(c)}
           matches == UNION {matched(c) : c \in twice}
           owners == {Edge(d.registrant, d.id, "shared_registrant") :
                        d \in {d \in i.domains : d.registrant # "" /\ Cardinality(registered(d)) >= 2}}
<1>1. SharedEdges(i) = hubs \cup ranges \cup asns \cup matches \cup owners
   BY DEF SharedEdges
<1>2. IsFiniteSet(hubs)
   <2> DEFINE f == [h \in i.hosts |-> Edge(h.asn, h.id, "parent_child")]
   <2>1. DOMAIN f = i.hosts /\ \A e \in hubs : \E x \in i.hosts : e = f[x] OBVIOUS
   <2> HIDE DEF f, hubs
   <2> QED BY <2>1, SourcesAreFinite, EdgesOf
<1>3. IsFiniteSet(asns)
   <2> DEFINE f == [h \in i.hosts |-> Edge(h.asn, h.id, "shared_asn")]
   <2>1. DOMAIN f = i.hosts /\ \A e \in asns : \E x \in i.hosts : e = f[x] OBVIOUS
   <2> HIDE DEF f, asns
   <2> QED BY <2>1, SourcesAreFinite, EdgesOf
<1>4. IsFiniteSet(owners)
   <2> DEFINE f == [d \in i.domains |-> Edge(d.registrant, d.id, "shared_registrant")]
   <2>1. DOMAIN f = i.domains /\ \A e \in owners : \E x \in i.domains : e = f[x] OBVIOUS
   <2> HIDE DEF f, owners
   <2> QED BY <2>1, SourcesAreFinite, EdgesOf
<1>5. IsFiniteSet(ranges)
   <2>1. ASSUME NEW r PROVE IsFiniteSet(ranged(r))
      <3> DEFINE f == [h \in Named(i.hosts) |-> Edge(r.id, h, "parent_child")]
                 T == ranged(r)
      <3>1. DOMAIN f = Named(i.hosts) /\ \A e \in T : \E x \in Named(i.hosts) : e = f[x] OBVIOUS
      <3> HIDE DEF f, T
      <3>2. IsFiniteSet(T) BY <3>1, AssetsAreFinite, EdgesOf
      <3> QED BY <3>2 DEF T
   <2> DEFINE f == [r \in i.ranges |-> ranged(r)]
   <2> HIDE DEF ranged
   <2>2. /\ DOMAIN f = i.ranges /\ \A x \in i.ranges : IsFiniteSet(f[x])
         /\ ranges = UNION {f[x] : x \in i.ranges}
      BY <2>1
   <2> HIDE DEF f, ranges
   <2> QED BY <2>2, SourcesAreFinite, EdgesOfEach
<1>6. IsFiniteSet(matches)
   <2>1. ASSUME NEW c PROVE IsFiniteSet(matched(c))
      <3> DEFINE f == [s \in i.subs |-> Edge(c.id, s.id, "cert_san_match")]
                 T == matched(c)
      <3>1. DOMAIN f = i.subs /\ \A e \in T : \E x \in i.subs : e = f[x] OBVIOUS
      <3> HIDE DEF f, T
      <3>2. IsFiniteSet(T) BY <3>1, SourcesAreFinite, EdgesOf
      <3> QED BY <3>2 DEF T
   <2> DEFINE f == [c \in twice |-> matched(c)]
   <2> HIDE DEF matched
   <2>2. /\ DOMAIN f = twice /\ \A x \in twice : IsFiniteSet(f[x])
         /\ matches = UNION {f[x] : x \in twice}
      BY <2>1
   <2>3. twice \subseteq i.certs OBVIOUS
   <2> HIDE DEF f, twice, matches
   <2>4. IsFiniteSet(twice) BY <2>3, SourcesAreFinite, PartsAreCounted
   <2> QED BY <2>2, <2>4, EdgesOfEach
<1> HIDE DEF hubs, ranges, asns, matches, owners
<1>7. IsFiniteSet(hubs \cup ranges) BY <1>2, <1>5, FS_Union
<1>8. IsFiniteSet(hubs \cup ranges \cup asns) BY <1>3, <1>7, FS_Union
<1>9. IsFiniteSet(hubs \cup ranges \cup asns \cup matches) BY <1>6, <1>8, FS_Union
<1>10. IsFiniteSet(hubs \cup ranges \cup asns \cup matches \cup owners) BY <1>4, <1>9, FS_Union
<1> QED BY <1>1, <1>10

LEMMA EdgesAreFinite ==
    ASSUME RebuildAssumption, NEW i \in Inventories
    PROVE  IsFiniteSet(Edges[i])
<1>1. Edges[i] = StructureEdges(i) \cup SharedEdges(i) BY DEF Edges
<1>2. IsFiniteSet(StructureEdges(i)) /\ IsFiniteSet(SharedEdges(i))
   BY StructureIsFinite, SharedIsFinite
<1>3. IsFiniteSet(StructureEdges(i) \cup SharedEdges(i)) BY <1>2, FS_Union
<1> QED BY <1>1, <1>3

\* One path at most for every entry and target.
LEMMA PathsAreFinite ==
    ASSUME RebuildAssumption, NEW i \in Inventories, NEW cols, NEW rels
    PROVE  IsFiniteSet(AttackPaths(i, cols, rels))
<1> DEFINE pairs == {{e.from, e.to} : e \in rels}
           ends == (UNION pairs) \cap (Named(i.hosts) \cup Named(i.subs))
           entries == {n \in ends : \/ cols[n].internet
                                    \/ n \in Named({h \in i.hosts : h.public})}
           targets == {n \in ends : \/ cols[n].sensitive
                                    \/ cols[n].tier \in {"critical", "high"}}
           S == entries \X targets
           f == [p \in S |-> PathRow(cols, pairs, p[1], p[2])]
           T == UNION {f[p] : p \in S}
<1>1. IsFiniteSet(S)
   <2>1. entries \subseteq Assets(i) /\ targets \subseteq Assets(i) BY DEF Assets
   <2> HIDE DEF entries, targets
   <2>2. IsFiniteSet(entries) /\ IsFiniteSet(targets) BY <2>1, AssetsAreFinite, PartsAreCounted
   <2> QED BY <2>2, FS_Product
<1>2. AttackPaths(i, cols, rels) = UNION {PathRow(cols, pairs, p[1], p[2]) : p \in S}
   BY DEF AttackPaths
<1> HIDE DEF S, pairs
<1>3. DOMAIN f = S /\ AttackPaths(i, cols, rels) = T BY <1>2
<1>4. ASSUME NEW p \in S PROVE IsFiniteSet(f[p])
   <2>1. PathRow(cols, pairs, p[1], p[2]) = {} \/ \E x : PathRow(cols, pairs, p[1], p[2]) = {x}
      BY DEF PathRow
   <2>2. f[p] = PathRow(cols, pairs, p[1], p[2]) OBVIOUS
   <2>3. IsFiniteSet({}) /\ \A x : IsFiniteSet({x}) BY FS_EmptySet, FS_Singleton
   <2> HIDE DEF f
   <2> QED BY <2>1, <2>2, <2>3
<1>5. T = UNION {f[p] : p \in S} OBVIOUS
<1> HIDE DEF f, T
<1>6. IsFiniteSet(T) BY <1>1, <1>3, <1>4, <1>5, EdgesOfEach
<1> QED BY <1>3, <1>6

-----------------------------------------------------------------------------
\* A score of one factor is a percentage.
Share(n) == n \in Nat /\ n <= 100

LEMMA CappedShares == ASSUME NEW n \in Nat PROVE Share(Capped(n, 100))
BY DEF Capped, Share

LEMMA FactorScores ==
    ASSUME NEW a \in Nat, NEW b \in Nat, NEW c \in Nat
    PROVE  /\ Share(FindingsScore(a, b, c)) /\ Share(CertificateScore(a, b))
           /\ \A near : Share(RelationshipScore(a, near))
           /\ Share(AttackPathScore(a))
<1>1. 25 * a + 10 * b + 3 * c \in Nat /\ 30 * a + 15 * b \in Nat /\ 10 * a \in Nat OBVIOUS
<1>2. Share(FindingsScore(a, b, c)) BY <1>1, CappedShares DEF FindingsScore
<1>3. Share(CertificateScore(a, b)) BY <1>1, CappedShares DEF CertificateScore
<1>4. ASSUME NEW near PROVE Share(RelationshipScore(a, near))
   <2>1. Share(Capped(10 * a, 100)) BY <1>1, CappedShares
   <2>2. Share(100) BY DEF Share
   <2> QED BY <2>1, <2>2 DEF RelationshipScore
<1>5. Share(AttackPathScore(a))
   <2>0. Share(0) /\ Share(50) /\ Share(75) /\ Share(100) BY DEF Share
   <2>1. CASE a = 0 BY <2>0, <2>1 DEF AttackPathScore
   <2>2. CASE a = 1 BY <2>0, <2>2 DEF AttackPathScore
   <2>3. CASE a = 2 BY <2>0, <2>3 DEF AttackPathScore
   <2>4. CASE a > 2 BY <2>0, <2>4 DEF AttackPathScore
   <2> QED BY <2>1, <2>2, <2>3, <2>4
<1> QED BY <1>2, <1>3, <1>4, <1>5

LEMMA TechnologyIs ==
    ASSUME NEW techs, IsFiniteSet(techs)
    PROVE  Share(TechnologyScore(techs))
<1>1. Cardinality(techs) \in Nat /\ Cardinality({t \in techs : t.risky}) \in Nat
   BY PartsAreCounted
<1>2. PICK a \in Nat, b \in Nat : a = Cardinality(techs) /\ b = Cardinality({t \in techs : t.risky})
   BY <1>1
<1>3. 8 * a + 30 * b \in Nat OBVIOUS
<1>4. Share(Capped(8 * a + 30 * b, 100)) BY <1>3, CappedShares
<1> QED BY <1>2, <1>4 DEF TechnologyScore

LEMMA ContextScores ==
    ASSUME NEW sensitive, NEW ctx, NEW b
    PROVE  /\ Share(CriticalityScore(sensitive, ctx))
           /\ Share(BusinessScore(sensitive, ctx))
           /\ Share(BoolScore(b))
<1>1. CriticalityScore(sensitive, ctx) \in {100, 60, 40, 15}
   <2>1. CASE sensitive BY <2>1 DEF CriticalityScore
   <2>2. CASE ~sensitive /\ ctx.env = "production" BY <2>2 DEF CriticalityScore
   <2>3. CASE ~sensitive /\ ctx.env # "production" BY <2>3 DEF CriticalityScore
   <2> QED BY <2>1, <2>2, <2>3
<1>2. BusinessScore(sensitive, ctx) \in {100, 50, 25, 0}
   <2>1. CASE sensitive BY <2>1 DEF BusinessScore
   <2>2. CASE ~sensitive /\ ctx.unit /\ ctx.owner /\ ctx.unit = ctx.owner BY <2>2 DEF BusinessScore
   <2>3. CASE ~sensitive /\ ctx.unit # ctx.owner /\ ~(ctx.unit /\ ctx.owner)
      BY <2>3 DEF BusinessScore
   <2>4. CASE ~sensitive /\ ctx.unit = ctx.owner /\ ~(ctx.unit /\ ctx.owner)
      BY <2>4 DEF BusinessScore
   <2>5. CASE ~sensitive /\ ctx.unit /\ ctx.owner /\ ctx.unit # ctx.owner
      BY <2>5 DEF BusinessScore
   <2> QED BY <2>1, <2>2, <2>3, <2>4, <2>5
<1>3. BoolScore(b) \in {0, 100} BY DEF BoolScore
<1>4. \A n \in {100, 60, 50, 40, 25, 15, 0} : Share(n) BY DEF Share
<1> QED BY <1>1, <1>2, <1>3, <1>4

\* The weights of the factors add up to a hundred.
LEMMA Units == RiskUnit = 1600 /\ MaxRisk = 100 * RiskUnit /\ 100 * ExposureUnit = 10000 * RiskUnit
BY SMT DEF MaxRisk, ExposureUnit, RiskUnit

LEMMA WithinIs ==
    ASSUME NEW n \in Nat, NEW top \in Nat
    PROVE  n \in 0..top <=> n <= top
OBVIOUS

Weighed(r, a, b, c, d, e, f, g, h, k) ==
    20 * r + RiskUnit * (15 * a + 15 * b + 15 * c + 10 * d + 5 * e + 5 * f + 5 * g + 5 * h + 5 * k)

LEMMA WeightsAddUp ==
    ASSUME NEW r \in Nat, r <= MaxRisk, NEW a, NEW b, NEW c, NEW d, NEW e, NEW f, NEW g, NEW h, NEW k,
           Share(a), Share(b), Share(c), Share(d), Share(e), Share(f), Share(g), Share(h), Share(k)
    PROVE  Weighed(r, a, b, c, d, e, f, g, h, k) \in 0..(100 * ExposureUnit)
<1>1. PICK n \in Nat : n = 15 * a + 15 * b + 15 * c + 10 * d + 5 * e + 5 * f + 5 * g + 5 * h + 5 * k
   BY DEF Share
<1>2. n <= 8000 BY <1>1 DEF Share
<1>4. PICK s \in Nat : s = r /\ s <= MaxRisk OBVIOUS
<1>5. PICK u \in Nat : u = RiskUnit /\ u = 1600 BY SMT, Units
<1>6. s <= 100 * u /\ MaxRisk = 100 * u /\ 100 * ExposureUnit = 10000 * u BY SMT, <1>4, <1>5, Units
<1>7. u * n <= u * 8000 BY SMT, <1>2, <1>5
<1>8. 20 * s + u * n \in Nat /\ 20 * s + u * n <= 10000 * u /\ 10000 * u \in Nat
   BY SMT, <1>5, <1>6, <1>7
<1>9. 20 * s + u * n \in 0..(10000 * u)
   <2>1. PICK x \in Nat, y \in Nat : x = 20 * s + u * n /\ y = 10000 * u BY SMT, <1>8
   <2>2. x <= y BY SMT, <1>8, <2>1
   <2>3. x \in 0..y BY <2>2, WithinIs
   <2> QED BY SMT, <2>1, <2>3
<1>10. n = 15 * a + 15 * b + 15 * c + 10 * d + 5 * e + 5 * f + 5 * g + 5 * h + 5 * k /\ s = r
   BY SMT, <1>1, <1>4
<1>11. u = RiskUnit /\ 10000 * u = 100 * ExposureUnit BY SMT, <1>5, <1>6
<1> QED BY SMT, <1>9, <1>10, <1>11 DEF Weighed

\* exposure: a score is a percentage, for rows and paths of any number.
LEMMA ExposureIs ==
    ASSUME RebuildAssumption, NEW i \in Inventories, NEW cols, NEW rels, IsFiniteSet(rels),
           NEW paths, IsFiniteSet(paths), NEW id, IsCell(cols[id])
    PROVE  ExposureOf(i, cols, rels, paths, id) \in 0..(100 * ExposureUnit)
<1> DEFINE r == cols[id]
           isDomain == id \in Named(i.domains)
           isSub == id \in Named(i.subs)
           row == Row(i.hosts \cup i.subs \cup i.domains, id)
           ctx == IF isSub THEN Parent(i, row) ELSE row
           finds == IF isDomain THEN {} ELSE {f \in Open(i) : id \in {f.host, f.sub}}
           ips == IF isDomain THEN {} ELSE IF isSub THEN row.ips ELSE {id}
           ends == {e \in rels : id \in {e.from, e.to}}
           techs == IF isDomain THEN {} ELSE TechsOn(i, id)
           met == {p \in paths : id \in {p.entry, p.target, p.weakest}}
           cloud == \E c \in i.cloud : c.ips \cap ips # {}
           near == \E e \in ends : \E n \in {e.from, e.to} \ {id} :
                             n \in DOMAIN cols /\ Critical(cols[n])
           about == [env |-> ctx.env, unit |-> ctx.unit, owner |-> ctx.owner]
           x == [risk |-> r.score, internet |-> r.internet, sensitive |-> r.sensitive,
                 paths |-> Cardinality(met), critical |-> CountOf("critical", finds),
                 high |-> CountOf("high", finds), medium |-> CountOf("medium", finds),
                 ctx |-> about, bad |-> r.bad, expiring |-> r.expiring,
                 techs |-> techs, cloud |-> cloud, rels |-> Cardinality(ends), nearCritical |-> near]
<1>1. ExposureOf(i, cols, rels, paths, id) = Exposure(x) BY DEF ExposureOf
<1>2. IsFiniteSet(techs)
   <2>1. techs \subseteq i.techs BY DEF TechsOn
   <2> QED BY <2>1, SourcesAreFinite, PartsAreCounted
<1>3. ASSUME NEW sev PROVE CountOf(sev, finds) \in Nat
   <2>1. finds \subseteq i.findings BY DEF Open
   <2>2. {f \in finds : f.sev = sev} \subseteq i.findings BY <2>1
   <2> QED BY <2>2, SourcesAreFinite, PartsAreCounted DEF CountOf
<1>4. Cardinality(met) \in Nat /\ Cardinality(ends) \in Nat
   <2>1. met \subseteq paths /\ ends \subseteq rels OBVIOUS
   <2> HIDE DEF met, ends
   <2> QED BY <2>1, PartsAreCounted
<1>5. r.score \in 0..MaxRisk /\ r.bad \in Nat /\ r.expiring \in Nat BY DEF IsCell
<1> HIDE DEF r, finds, techs, met, cloud, ends, near, about
<1>6. /\ x.risk = r.score /\ x.internet = r.internet /\ x.sensitive = r.sensitive
      /\ x.paths = Cardinality(met) /\ x.critical = CountOf("critical", finds)
      /\ x.high = CountOf("high", finds) /\ x.medium = CountOf("medium", finds)
      /\ x.ctx = about /\ x.bad = r.bad /\ x.expiring = r.expiring
      /\ x.techs = techs /\ x.cloud = cloud /\ x.rels = Cardinality(ends) /\ x.nearCritical = near
   OBVIOUS
<1> HIDE DEF x
<1>7. /\ Share(BoolScore(x.internet)) /\ Share(BoolScore(x.cloud))
      /\ Share(CriticalityScore(x.sensitive, x.ctx))
      /\ Share(BusinessScore(x.sensitive, x.ctx))
   BY ContextScores
<1>8. /\ Share(AttackPathScore(x.paths))
      /\ Share(RelationshipScore(x.rels, x.nearCritical))
   BY <1>4, <1>6, FactorScores
<1>9. Share(FindingsScore(x.critical, x.high, x.medium))
   <2>1. x.critical \in Nat /\ x.high \in Nat /\ x.medium \in Nat BY <1>3, <1>6
   <2> QED BY <2>1, FactorScores
<1>10. Share(CertificateScore(x.bad, x.expiring))
   BY <1>5, <1>6, FactorScores
<1>11. Share(TechnologyScore(x.techs)) BY <1>2, <1>6, TechnologyIs
<1>12. x.risk \in Nat /\ x.risk <= MaxRisk BY <1>5, <1>6, MaxRiskIs
<1>13. Exposure(x) \in 0..(100 * ExposureUnit)
   <2>1. PICK a, b, c, d, e, f, g, h, k, t :
            /\ a = BoolScore(x.internet) /\ b = AttackPathScore(x.paths)
            /\ c = FindingsScore(x.critical, x.high, x.medium)
            /\ d = CriticalityScore(x.sensitive, x.ctx) /\ e = CertificateScore(x.bad, x.expiring)
            /\ f = TechnologyScore(x.techs) /\ g = BoolScore(x.cloud)
            /\ h = RelationshipScore(x.rels, x.nearCritical) /\ k = BusinessScore(x.sensitive, x.ctx)
            /\ t = x.risk
      OBVIOUS
   <2>2. /\ Share(a) /\ Share(b) /\ Share(c) /\ Share(d) /\ Share(e)
         /\ Share(f) /\ Share(g) /\ Share(h) /\ Share(k) /\ t \in Nat /\ t <= MaxRisk
      BY <1>7, <1>8, <1>9, <1>10, <1>11, <1>12, <2>1
   <2>3. Exposure(x) = Weighed(t, a, b, c, d, e, f, g, h, k)
      BY <2>1, Zenon DEF Exposure, Weighed
   <2>4. Weighed(t, a, b, c, d, e, f, g, h, k) \in 0..(100 * ExposureUnit)
      BY <2>2, WeightsAddUp
   <2> QED BY <2>3, <2>4, Zenon
<1> QED BY <1>1, <1>13

-----------------------------------------------------------------------------
\* The organisation's exposure is a capped quotient of sums over the assets.
ScoreSum(cols, S) == MapThenSumSet(LAMBDA h : cols[h].score, S)
LEMMA ScoresAreSummed ==
    ASSUME NEW S, IsFiniteSet(S), NEW cols, \A h \in S : cols[h].score \in Nat
    PROVE  ScoreSum(cols, S) \in Nat
<1> DEFINE F == [x \in S |-> cols[x].score]
           B(h) == [s \in SUBSET S |->
                     IF s = {} THEN 0
                     ELSE cols[CHOOSE x \in s : TRUE].score + h[s \ {CHOOSE x \in s : TRUE}]]
           iter == CHOOSE g : g = B(g)
<1>1. F \in [S -> Nat] OBVIOUS
<1>2. ASSUME NEW g PROVE B(g) = [s \in SUBSET S |-> SumStep(F, g, s)]
  <2>1. ASSUME NEW s \in SUBSET S
        PROVE  (IF s = {} THEN 0
                ELSE cols[CHOOSE x \in s : TRUE].score + g[s \ {CHOOSE x \in s : TRUE}])
                 = SumStep(F, g, s)
    <3>1. CASE s = {} BY <3>1 DEF SumStep
    <3>2. CASE s # {}
      <4>1. (CHOOSE x \in s : TRUE) \in S BY <3>2
      <4>2. F[CHOOSE x \in s : TRUE] = cols[CHOOSE x \in s : TRUE].score BY <4>1
      <4> HIDE DEF F
      <4> QED BY <3>2, <4>2 DEF SumStep
    <3> QED BY <3>1, <3>2
  <2> HIDE DEF F
  <2> QED BY <2>1
<1>3. ScoreSum(cols, S) = iter[S]
  BY DEF ScoreSum, MapThenSumSet, MapThenFoldSet
<1> HIDE DEF F
<1>4. \E g : g = B(g)
  <2>1. PICK g : Sums(F, S, g) BY SumsExist
  <2>2. g = [s \in SUBSET S |-> SumStep(F, g, s)] BY <2>1 DEF Sums
  <2>3. B(g) = [s \in SUBSET S |-> SumStep(F, g, s)] BY <1>2
  <2> HIDE DEF B
  <2>4. g = B(g) BY <2>2, <2>3
  <2> QED BY <2>4
<1> HIDE DEF B
<1>5. iter = B(iter) BY <1>4
<1>6. B(iter) = [s \in SUBSET S |-> SumStep(F, iter, s)] BY <1>2
<1> HIDE DEF iter
<1>7. Sums(F, S, iter) BY <1>5, <1>6 DEF Sums
<1>8. iter[S] \in Nat BY <1>1, <1>7, SumsAreNat
<1> QED BY <1>3, <1>8

LEMMA Quotient ==
    ASSUME NEW a \in Nat, NEW b \in Nat, b # 0
    PROVE  a \div b \in Nat
OBVIOUS

LEMMA PercentIs ==
    ASSUME NEW a \in Nat, NEW b \in Nat, b # 0
    PROVE  Percent(a, b) \in Nat
<1>1. PICK n \in Nat : n = 100 * a OBVIOUS
<1>2. n \div b \in Nat BY Quotient
<1> QED BY <1>1, <1>2 DEF Percent

LEMMA MaxOrgIs == MaxOrg \in Nat
BY SMT DEF MaxOrg

\* executive: the organisation's score is a percentage.
LEMMA OrgIs ==
    ASSUME NEW k, k.assets \in Nat, k.hosts \in Nat, k.avgRisk \in Nat, k.internet \in Nat,
           k.criticalPaths \in Nat, k.slaTracked \in Nat, k.slaBreached \in Nat
    PROVE  OrgExposure(k) \in 0..MaxOrg
<1> DEFINE path == IF k.assets = 0 THEN 0
                   ELSE Capped(Percent(k.criticalPaths, k.assets), 100)
           facing == IF k.hosts = 0 THEN 0 ELSE Percent(k.internet, k.hosts)
           late == 100 - Compliance(k.slaTracked, k.slaBreached)
<1>1. path \in Nat
   <2>1. CASE k.assets = 0 BY <2>1
   <2>2. CASE k.assets # 0
      <3>1. Percent(k.criticalPaths, k.assets) \in Nat BY <2>2, PercentIs
      <3>2. Share(Capped(Percent(k.criticalPaths, k.assets), 100)) BY <3>1, CappedShares
      <3>3. path = Capped(Percent(k.criticalPaths, k.assets), 100) BY <2>2
      <3> HIDE DEF path
      <3> QED BY <3>2, <3>3 DEF Share
   <2> QED BY <2>1, <2>2
<1>2. facing \in Nat
   <2>1. CASE k.hosts = 0 BY <2>1
   <2>2. CASE k.hosts # 0 BY <2>2, PercentIs
   <2> QED BY <2>1, <2>2
<1>3. late \in Nat
   <2>1. CASE k.slaTracked = 0 BY <2>1 DEF Compliance
   <2>2. CASE k.slaTracked # 0
      <3>1. PICK n \in Nat : n = Percent(k.slaBreached, k.slaTracked) BY <2>2, PercentIs
      <3>2. Compliance(k.slaTracked, k.slaBreached) = 100 - n BY <2>2, <3>1 DEF Compliance
      <3>3. 100 - (100 - n) = n OBVIOUS
      <3> QED BY <3>2, <3>3
   <2> QED BY <2>1, <2>2
<1>4. OrgExposure(k) = Capped(40 * k.avgRisk + 25 * path + 20 * late + 15 * facing, MaxOrg)
   BY Zenon DEF OrgExposure
<1> HIDE DEF path, facing, late
<1>5. PICK n \in Nat : n = 40 * k.avgRisk + 25 * path + 20 * late + 15 * facing
   <2>1. ASSUME NEW a \in Nat, NEW b \in Nat, NEW c \in Nat, NEW d \in Nat
         PROVE  40 * a + 25 * b + 20 * c + 15 * d \in Nat
      OBVIOUS
   <2> QED BY <1>1, <1>2, <1>3, <2>1
<1>6. Capped(n, MaxOrg) \in 0..MaxOrg BY MaxOrgIs, CappedIs
<1> QED BY <1>4, <1>5, <1>6

LEMMA SnapshotIs ==
    ASSUME RebuildAssumption, NEW i \in Inventories, NEW cols, Cells(cols, i),
           NEW paths, IsFiniteSet(paths), NEW blind
    PROVE  \A r \in Snapshot(i, cols, paths, blind) : "exposure" \in DOMAIN r /\ r.exposure \in 0..MaxOrg
<1> DEFINE hosts == Named(i.hosts)
           n == Cardinality(Assets(i)) + Cardinality(i.cloud)
           sum == MapThenSumSet(LAMBDA h : cols[h].score, hosts)
           facing == {h \in hosts : cols[h].internet}
           tracked == {f \in i.findings : f.due /\ f.status # "fixed"}
           breached == {f \in i.findings : f.breached}
           worst == {p \in paths : p.score >= 75 * RiskUnit}
           avg == IF hosts = {} THEN 0 ELSE sum \div (Cardinality(hosts) * RiskUnit)
           k == [assets |-> n, hosts |-> Cardinality(hosts), avgRisk |-> avg,
                 internet |-> Cardinality(facing), criticalPaths |-> Cardinality(worst),
                 slaTracked |-> Cardinality(tracked), slaBreached |-> Cardinality(breached)]
<1>1. Snapshot(i, cols, paths, blind)
        = {[assets |-> IF blind THEN 0 ELSE n, findings |-> Cardinality(Open(i)),
            paths |-> Cardinality(paths), exposure |-> IF blind THEN 0 ELSE OrgExposure(k)]}
   BY Zenon DEF Snapshot
<1>2. IsFiniteSet(hosts) /\ hosts \subseteq Assets(i) BY AssetsAreFinite DEF Assets
<1>3. n \in Nat
   <2>1. Cardinality(Assets(i)) \in Nat /\ Cardinality(i.cloud) \in Nat
      BY AssetsAreFinite, SourcesAreFinite, FS_CardinalityType
   <2> QED BY <2>1
<1>4. sum \in Nat
   <2>1. \A h \in hosts : cols[h].score \in Nat BY <1>2, MaxRiskIs DEF Cells, IsCell
   <2>2. sum = ScoreSum(cols, hosts) BY DEF ScoreSum
   <2> HIDE DEF hosts, sum
   <2>3. ScoreSum(cols, hosts) \in Nat BY <1>2, <2>1, ScoresAreSummed
   <2> QED BY <2>2, <2>3
<1>5. Cardinality(facing) \in Nat /\ Cardinality(worst) \in Nat
   <2>1. facing \subseteq hosts /\ worst \subseteq paths OBVIOUS
   <2> HIDE DEF facing, worst, hosts
   <2> QED BY <1>2, <2>1, PartsAreCounted
<1>6. Cardinality(tracked) \in Nat /\ Cardinality(breached) \in Nat
   <2>1. tracked \subseteq i.findings /\ breached \subseteq i.findings OBVIOUS
   <2> HIDE DEF tracked, breached
   <2> QED BY <2>1, SourcesAreFinite, PartsAreCounted
<1> HIDE DEF hosts, n, sum, facing, tracked, breached, worst
<1>7. Cardinality(hosts) \in Nat /\ (hosts # {} => Cardinality(hosts) # 0)
   BY <1>2, FS_CardinalityType, FS_EmptySet
<1>8. avg \in Nat
   <2>1. CASE hosts = {} BY <2>1
   <2>2. CASE hosts # {}
      <3>1. PICK c \in Nat : c = Cardinality(hosts) /\ c # 0 BY <1>7, <2>2
      <3>2. c * RiskUnit \in Nat /\ c * RiskUnit # 0 BY SMT, <3>1 DEF RiskUnit
      <3>3. PICK d \in Nat : d = c * RiskUnit /\ d # 0 BY <3>2
      <3>4. sum \div d \in Nat BY <1>4, <3>3, Quotient
      <3> QED BY <2>2, <3>1, <3>3, <3>4
   <2> QED BY <2>1, <2>2
<1> HIDE DEF avg
<1>9. /\ k.assets = n /\ k.hosts = Cardinality(hosts) /\ k.avgRisk = avg
      /\ k.internet = Cardinality(facing) /\ k.criticalPaths = Cardinality(worst)
      /\ k.slaTracked = Cardinality(tracked) /\ k.slaBreached = Cardinality(breached)
   OBVIOUS
<1> HIDE DEF k
<1>10. OrgExposure(k) \in 0..MaxOrg BY <1>3, <1>5, <1>6, <1>7, <1>8, <1>9, OrgIs
<1>11. 0 \in 0..MaxOrg BY MaxOrgIs
<1> QED BY <1>1, <1>10, <1>11

-----------------------------------------------------------------------------
\* What a table may hold, and what a run may have read and be about to write.
RowsFit(e, rows) ==
    /\ e \in {"relations", "paths"} => IsFiniteSet(rows)
    /\ e = "exposure" => \A r \in rows : r.score \in 0..(100 * ExposureUnit)
    /\ e = "snapshot" => \A r \in rows : r.exposure \in 0..MaxOrg
TablesFit == /\ inv \in Inventories /\ Cells(risk, inv)
             /\ \A e \in Derived : RowsFit(e, table[e])

SeenFits(s) ==
    DOMAIN s = SeenFields /\ s.inv \in Inventories /\ IsFiniteSet(s.rels) /\ IsFiniteSet(s.paths)
Fits(r) ==
    /\ SeenFits(r.seen) /\ r.kind \in 0..3 /\ r.clean \in BOOLEAN /\ r.run \in 0..MaxRuns
    /\ r.pc = "read" => r.reads \in Left(r.eng)
    /\ \/ r.pc \in {"delete", "insert"}
       \/ r.pc = "read" /\ ~Unread(r.reads, "assets")
       => Cells(r.seen.risk, r.seen.inv)

TInv ==
    /\ TablesFit /\ \A p \in Runners : Fits(runner[p])
    /\ worker \in {"on", "stopping", "off"}
    /\ changes \in 0..MaxChanges /\ failures \in 0..MaxFailures /\ flawed \subseteq 1..MaxRuns

-----------------------------------------------------------------------------
LEMMA OfIsFinite ==
    ASSUME NEW n, NEW rows, IsFiniteSet(rows)
    PROVE  IsFiniteSet(Of(n, rows))
<1> DEFINE f == [r \in rows |-> [x \in {"run"} \cup DOMAIN r |-> IF x = "run" THEN n ELSE r[x]]]
           T == Of(n, rows)
<1>1. DOMAIN f = rows /\ \A e \in T : \E x \in rows : e = f[x] BY DEF Of
<1> HIDE DEF f, T
<1>2. IsFiniteSet(T) BY <1>1, EdgesOf
<1> QED BY <1>2 DEF T

LEMMA ComputedFits ==
    ASSUME RebuildAssumption, NEW e \in Derived, NEW s, SeenFits(s), Cells(s.risk, s.inv), NEW n
    PROVE  RowsFit(e, Of(n, Compute(e, s)))
<1>1. s.inv \in Inventories /\ IsFiniteSet(s.rels) /\ IsFiniteSet(s.paths) BY DEF SeenFits
<1>2. CASE e = "relations"
   <2>1. Compute(e, s) = Edges[s.inv] BY <1>2 DEF Compute
   <2>2. IsFiniteSet(Edges[s.inv]) BY <1>1, EdgesAreFinite
   <2>3. IsFiniteSet(Of(n, Compute(e, s))) BY <2>1, <2>2, OfIsFinite
   <2> QED BY <1>2, <2>3 DEF RowsFit
<1>3. CASE e = "paths"
   <2>1. Compute(e, s) = AttackPaths(s.inv, s.risk, s.rels) BY <1>3 DEF Compute
   <2>2. IsFiniteSet(AttackPaths(s.inv, s.risk, s.rels)) BY <1>1, PathsAreFinite
   <2>3. IsFiniteSet(Of(n, Compute(e, s))) BY <2>1, <2>2, OfIsFinite
   <2> QED BY <1>3, <2>3 DEF RowsFit
<1>4. CASE e = "exposure"
   <2> DEFINE score(a) == ExposureOf(s.inv, s.risk, s.rels, s.paths, a)
   <2>1. Compute(e, s) = {[asset |-> a, score |-> score(a), level |-> Level(score(a))] : a \in Assets(s.inv)}
      BY <1>4 DEF Compute, Exposures
   <2>2. ASSUME NEW a \in Assets(s.inv) PROVE score(a) \in 0..(100 * ExposureUnit)
      <3>1. IsCell(s.risk[a]) BY DEF Cells
      <3> QED BY <1>1, <3>1, ExposureIs
   <2> HIDE DEF score
   <2>3. ASSUME NEW r \in Of(n, Compute(e, s)) PROVE r.score \in 0..(100 * ExposureUnit)
      <3>1. PICK x \in Compute(e, s) :
               r = [f \in {"run"} \cup DOMAIN x |-> IF f = "run" THEN n ELSE x[f]]
         BY DEF Of
      <3>2. PICK a \in Assets(s.inv) : x = [asset |-> a, score |-> score(a), level |-> Level(score(a))]
         BY <2>1
      <3>3. r.score = score(a) BY <3>1, <3>2
      <3> QED BY <2>2, <3>3
   <2> QED BY <1>4, <2>3 DEF RowsFit
<1>5. CASE e = "snapshot"
   <2>1. Compute(e, s) = Snapshot(s.inv, s.risk, s.paths, s.blind) BY <1>5 DEF Compute
   <2>2. \A r \in Compute(e, s) : "exposure" \in DOMAIN r /\ r.exposure \in 0..MaxOrg
      BY <1>1, <2>1, SnapshotIs
   <2>3. ASSUME NEW r \in Of(n, Compute(e, s)) PROVE r.exposure \in 0..MaxOrg
      <3>1. PICK x \in Compute(e, s) :
               r = [f \in {"run"} \cup DOMAIN x |-> IF f = "run" THEN n ELSE x[f]]
         BY DEF Of
      <3>2. r.exposure = x.exposure BY <2>2, <3>1
      <3> QED BY <2>2, <3>2
   <2> QED BY <1>5, <2>3 DEF RowsFit
<1> QED BY <1>2, <1>3, <1>4, <1>5 DEF Derived

LEMMA IdleFits == ASSUME RebuildAssumption PROVE Fits(Idle)
<1>1. Nothing.inv \in Inventories BY DEF Nothing, RebuildAssumption
<1>2. Nothing.rels = {} /\ Nothing.paths = {} BY DEF Nothing
<1>3. SeenFits(Nothing) BY <1>1, <1>2, IdleIs, FS_EmptySet DEF SeenFits
<1>4. Idle.run = 0 /\ Idle.clean = TRUE BY DEF Idle
<1>5. MaxRuns \in Nat BY DEF RebuildAssumption
<1>6. Idle.pc = "idle" /\ Idle.kind = 0 /\ SeenFits(Idle.seen) BY <1>3, IdleIs
<1>7. Idle.run \in 0..MaxRuns BY <1>4, <1>5
<1>8. Idle.clean \in BOOLEAN BY <1>4
<1>9. Idle.kind \in 0..3 BY <1>6
<1> QED BY <1>6, <1>7, <1>8, <1>9 DEF Fits

LEMMA LikeFits ==
    ASSUME NEW a, NEW b, Fits(a), b.seen = a.seen, b.kind = a.kind, b.clean \in BOOLEAN,
           b.run = a.run, b.pc = a.pc, b.reads = a.reads, b.eng = a.eng
    PROVE  Fits(b)
BY DEF Fits

LEMMA MovesFit ==
    ASSUME RunnersAre, \A q \in Runners : Fits(runner[q]), NEW p \in Runners, NEW r, Fits(r),
           Goes(p, r) \/ Writes(p, r)
    PROVE  \A q \in Runners : Fits(runner'[q])
<1>1. Moved(p, r) BY Moving
<1>2. ASSUME NEW q \in Runners PROVE Fits(runner'[q])
   <2>1. CASE q = p BY <1>1, <2>1 DEF Moved
   <2>2. CASE q # p
      <3>1. Same(q) BY <1>1, <2>2 DEF Moved
      <3>2. runner'[q].clean \in BOOLEAN
         <4>0. DOMAIN runner = Runners /\ DOMAIN runner[q] = RunnerFields /\ runner[q].clean \in BOOLEAN
            BY DEF RunnersAre, RunnerIs, Fits
         <4>1. CASE runner'[q] = runner[q] BY <4>0, <4>1
         <4>2. CASE runner'[q] = [runner[q] EXCEPT !.clean = FALSE]
            BY <4>0, <4>2 DEF RunnerFields
         <4> QED BY <2>2, <4>0, <4>1, <4>2 DEF Goes, Writes
      <3>3. Fits(runner[q]) OBVIOUS
      <3> QED BY <3>1, <3>2, <3>3, LikeFits DEF Same
   <2> QED BY <2>1, <2>2
<1> QED BY <1>2

\* What the step leaves alone of the tables and of the bounds.
LEMMA StepFits ==
    ASSUME RInv, TInv, NEW p \in Runners, NEW r, Fits(r), Goes(p, r) \/ Writes(p, r),
           TablesFit', worker' = worker, changes' = changes,
           failures' \in 0..MaxFailures, flawed' \subseteq 1..MaxRuns
    PROVE  TInv'
<1>1. \A q \in Runners : Fits(runner'[q]) BY MovesFit DEF RInv, TInv
<1> QED BY <1>1 DEF TInv

LEMMA TablesStay ==
    ASSUME TablesFit, inv' = inv, risk' = risk, table' = table
    PROVE  TablesFit'
BY DEF TablesFit

LEMMA SeeingFits ==
    ASSUME TablesFit, NEW s, SeenFits(s), NEW what \in {"assets", "relations", "paths"}
    PROVE  /\ SeenFits(Seeing(s, what))
           /\ what = "assets" => Cells(Seeing(s, what).risk, Seeing(s, what).inv)
           /\ what # "assets" => Seeing(s, what).risk = s.risk /\ Seeing(s, what).inv = s.inv
<1>0. DOMAIN s = SeenFields /\ s.inv \in Inventories /\ IsFiniteSet(s.rels) /\ IsFiniteSet(s.paths)
   BY DEF SeenFits
<1>1. CASE what = "assets"
   <2>1. Seeing(s, what) = [s EXCEPT !.inv = inv, !.risk = risk] BY <1>1 DEF Seeing
   <2>2. /\ DOMAIN Seeing(s, what) = SeenFields /\ Seeing(s, what).inv = inv
         /\ Seeing(s, what).risk = risk /\ Seeing(s, what).rels = s.rels
         /\ Seeing(s, what).paths = s.paths
      BY <1>0, <2>1 DEF SeenFields
   <2> QED BY <1>0, <1>1, <2>2 DEF SeenFits, TablesFit
<1>2. CASE what = "relations"
   <2>1. Seeing(s, what) = [s EXCEPT !.rels = table["relations"]] BY <1>2 DEF Seeing
   <2>2. /\ DOMAIN Seeing(s, what) = SeenFields /\ Seeing(s, what).inv = s.inv
         /\ Seeing(s, what).risk = s.risk /\ Seeing(s, what).rels = table["relations"]
         /\ Seeing(s, what).paths = s.paths
      BY <1>0, <2>1 DEF SeenFields
   <2>3. IsFiniteSet(table["relations"]) BY DEF TablesFit, RowsFit, Derived
   <2> QED BY <1>0, <1>2, <2>2, <2>3 DEF SeenFits
<1>3. CASE what = "paths"
   <2>1. Seeing(s, what) = [s EXCEPT !.paths = table["paths"]] BY <1>3 DEF Seeing
   <2>2. /\ DOMAIN Seeing(s, what) = SeenFields /\ Seeing(s, what).inv = s.inv
         /\ Seeing(s, what).risk = s.risk /\ Seeing(s, what).rels = s.rels
         /\ Seeing(s, what).paths = table["paths"]
      BY <1>0, <2>1 DEF SeenFields
   <2>3. IsFiniteSet(table["paths"]) BY DEF TablesFit, RowsFit, Derived
   <2> QED BY <1>0, <1>3, <2>2, <2>3 DEF SeenFits
<1> QED BY <1>1, <1>2, <1>3

LEMMA NextKindFits ==
    ASSUME RebuildAssumption, NEW r, DOMAIN r = RunnerFields, SeenFits(r.seen), r.kind \in 0..3,
           r.clean \in BOOLEAN, r.run \in 0..MaxRuns
    PROVE  Fits(NextKind(r))
<1> DEFINE n == NextKind(r)
<1>1. CASE n = Idle BY <1>1, IdleFits
<1>2. CASE n # Idle
   <2>1. n.kind \in 1..3 /\ n.pc = "update" /\ n.seen = r.seen /\ n.run = r.run
      BY <1>2, NextKindIs
   <2>2. n.clean = r.clean
      <3>1. \E k, t : n = [r EXCEPT !.kind = k, !.todo = t, !.pc = "update"]
         BY <1>2 DEF NextKind
      <3> HIDE DEF n
      <3>2. PICK k, t : n = [r EXCEPT !.kind = k, !.todo = t, !.pc = "update"] BY <3>1
      <3> QED BY <3>2 DEF RunnerFields
   <2> HIDE DEF n
   <2>3. Fits(n) BY <2>1, <2>2 DEF Fits
   <2> QED BY <2>3 DEF n
<1> QED BY <1>1, <1>2

-----------------------------------------------------------------------------
\* The steps of one run, from its start to its insert.
LEMMA StartFits ==
    ASSUME RebuildAssumption, RInv, TInv, NEW p \in Runners, NEW e \in AllEngines, Starts(p, e)
    PROVE  TInv'
<1> DEFINE r == [Idle EXCEPT !.eng = e, !.pc = "read", !.run = started + 1, !.reads = ReadOrder(e)]
<1>1. /\ Goes(p, r) /\ started < MaxRuns /\ inv' = inv /\ risk' = risk /\ table' = table
      /\ worker' = worker /\ changes' = changes /\ failures' = failures /\ flawed' = flawed
   BY DEF Starts
<1>2. started + 1 \in 0..MaxRuns BY <1>1 DEF RInv, TablesAre, RebuildAssumption
<1>3. /\ r.eng = e /\ r.pc = "read" /\ r.run = started + 1 /\ r.reads = ReadOrder(e)
      /\ r.seen = Idle.seen /\ r.kind = Idle.kind /\ r.clean = Idle.clean
   BY IdleIs DEF RunnerFields
<1>4. Fits(Idle) BY IdleFits
<1>5. ReadOrder(e) \in Left(e) BY DEF ReadOrder, Left, AllEngines
<1>6. Unread(ReadOrder(e), "assets")
   <2>1. CASE ReadOrder(e) = <<"assets">> BY <2>1 DEF Unread
   <2>2. CASE ReadOrder(e) = <<"relations", "assets">> BY <2>2 DEF Unread
   <2>3. CASE ReadOrder(e) = <<"assets", "paths", "relations">> BY <2>3 DEF Unread
   <2>4. CASE ReadOrder(e) = <<"assets", "paths">> BY <2>4 DEF Unread
   <2>5. ReadOrder(e) \in {<<"assets">>, <<"relations", "assets">>, <<"assets", "paths", "relations">>,
                           <<"assets", "paths">>}
      BY DEF ReadOrder, AllEngines
   <2> QED BY <2>1, <2>2, <2>3, <2>4, <2>5
<1> HIDE DEF r
<1>7. Fits(r) BY <1>2, <1>3, <1>4, <1>5, <1>6 DEF Fits
<1>8. TablesFit' BY <1>1, TablesStay DEF TInv
<1>9. failures' \in 0..MaxFailures /\ flawed' \subseteq 1..MaxRuns BY <1>1 DEF TInv
<1> QED BY <1>1, <1>7, <1>8, <1>9, StepFits

\* What a run has after a read, or after one it could not make.
LEMMA ReadingFits ==
    ASSUME TablesFit, NEW old, Fits(old), old.pc = "read", old.eng \in AllEngines,
           NEW s, s = Seeing(old.seen, Head(old.reads))
    PROVE  /\ SeenFits(s) /\ Head(old.reads) \in {"assets", "relations", "paths"}
           /\ Tail(old.reads) = <<>> \/ Tail(old.reads) \in Left(old.eng)
           /\ ~Unread(Tail(old.reads), "assets") => Cells(s.risk, s.inv)
           /\ Tail(old.reads) = <<>> => ~Unread(Tail(old.reads), "assets")
<1>1. old.reads \in Left(old.eng) /\ SeenFits(old.seen) BY DEF Fits
<1>2. /\ Head(old.reads) \in Needs(old.eng)
      /\ Tail(old.reads) = <<>> \/ Tail(old.reads) \in Left(old.eng)
      /\ Unread(old.reads, "assets") => "assets" = Head(old.reads) \/ Unread(Tail(old.reads), "assets")
   BY <1>1, ReadsLeft
<1>3. Head(old.reads) \in {"assets", "relations", "paths"} BY <1>2 DEF Needs, AllEngines
<1>4. /\ SeenFits(s)
      /\ Head(old.reads) = "assets" => Cells(s.risk, s.inv)
      /\ Head(old.reads) # "assets" => s.risk = old.seen.risk /\ s.inv = old.seen.inv
   BY <1>1, <1>3, SeeingFits
<1>5. ASSUME ~Unread(Tail(old.reads), "assets") PROVE Cells(s.risk, s.inv)
   <2>1. CASE Head(old.reads) = "assets" BY <1>4, <2>1
   <2>2. CASE Head(old.reads) # "assets"
      <3>1. ~Unread(old.reads, "assets") BY <1>2, <1>5, <2>2
      <3>2. Cells(old.seen.risk, old.seen.inv) BY <3>1 DEF Fits
      <3> QED BY <1>4, <2>2, <3>2
   <2> QED BY <2>1, <2>2
<1>6. ~Unread(<<>>, "assets") BY DEF Unread
<1> QED BY <1>2, <1>3, <1>4, <1>5, <1>6

LEMMA ReadFits ==
    ASSUME RebuildAssumption, RInv, TInv, NEW p \in Runners, Read(p)
    PROVE  TInv'
<1> DEFINE old == runner[p]
           r == [old EXCEPT !.seen = Seeing(@, Head(old.reads)), !.reads = Tail(@), !.gone = {}]
           d == [r EXCEPT !.pc = "delete"]
<1>1. /\ At(p, "read")
      /\ Goes(p, IF r.reads # <<>> THEN r ELSE IF r.eng = "risk" THEN NextKind(r) ELSE d)
      /\ inv' = inv /\ risk' = risk /\ table' = table
      /\ worker' = worker /\ changes' = changes /\ failures' = failures /\ flawed' = flawed
   BY DEF Read
<1>2. RunnerIs(old, Assets(inv), started) /\ old.pc = "read" /\ Fits(old)
   BY <1>1 DEF RInv, RunnersAre, At, TInv
<1> HIDE DEF old
<1>3. DOMAIN old = RunnerFields /\ old.eng \in AllEngines BY <1>2 DEF RunnerIs, Scoring
<1>4. PICK s : s = Seeing(old.seen, Head(old.reads)) OBVIOUS
<1>5. /\ SeenFits(s)
      /\ Tail(old.reads) = <<>> \/ Tail(old.reads) \in Left(old.eng)
      /\ ~Unread(Tail(old.reads), "assets") => Cells(s.risk, s.inv)
      /\ Tail(old.reads) = <<>> => ~Unread(Tail(old.reads), "assets")
   BY <1>2, <1>3, <1>4, ReadingFits DEF TInv
<1>6. /\ DOMAIN r = RunnerFields /\ r.eng = old.eng /\ r.pc = "read" /\ r.run = old.run
      /\ r.kind = old.kind /\ r.clean = old.clean /\ r.reads = Tail(old.reads) /\ r.seen = s
   BY <1>2, <1>3, <1>4 DEF RunnerFields
<1>7. /\ d.eng = r.eng /\ d.pc = "delete" /\ d.run = r.run /\ d.kind = r.kind
      /\ d.clean = r.clean /\ d.seen = r.seen
   BY <1>6 DEF RunnerFields
<1>8. r.kind \in 0..3 /\ r.clean \in BOOLEAN /\ r.run \in 0..MaxRuns BY <1>2, <1>6 DEF Fits
<1> HIDE DEF r, d
<1>9. TablesFit' BY <1>1, TablesStay DEF TInv
<1>10. failures' \in 0..MaxFailures /\ flawed' \subseteq 1..MaxRuns BY <1>1 DEF TInv
<1>11. CASE r.reads # <<>>
   <2>1. Fits(r) BY <1>5, <1>6, <1>8, <1>11 DEF Fits
   <2>2. Goes(p, r) BY <1>1, <1>11
   <2> QED BY <1>1, <1>9, <1>10, <2>1, <2>2, StepFits
<1>12. CASE r.reads = <<>> /\ r.eng = "risk"
   <2>1. Fits(NextKind(r)) BY <1>5, <1>6, <1>8, NextKindFits
   <2>2. Goes(p, NextKind(r)) BY <1>1, <1>12
   <2> QED BY <1>1, <1>9, <1>10, <2>1, <2>2, StepFits
<1>13. CASE r.reads = <<>> /\ r.eng # "risk"
   <2>1. Fits(d) BY <1>5, <1>6, <1>7, <1>8, <1>13 DEF Fits
   <2>2. Goes(p, d) BY <1>1, <1>13
   <2> QED BY <1>1, <1>9, <1>10, <2>1, <2>2, StepFits
<1> QED BY <1>11, <1>12, <1>13

LEMMA DeleteFits ==
    ASSUME RebuildAssumption, RInv, TInv, NEW p \in Runners, Delete(p)
    PROVE  TInv'
<1> DEFINE old == runner[p]
           r == [old EXCEPT !.pc = "insert"]
<1>1. /\ Writes(p, r) /\ inv' = inv /\ risk' = risk /\ old.pc = "delete"
      /\ table' = [table EXCEPT ![Eng(p)] = {}]
      /\ worker' = worker /\ changes' = changes /\ failures' = failures /\ flawed' = flawed
   BY DEF Delete, At
<1>2. RunnerIs(old, Assets(inv), started) /\ Fits(old) /\ DOMAIN table = Derived
   BY DEF RInv, RunnersAre, TInv, TablesAre
<1>3. Eng(p) \in Derived BY <1>1, <1>2 DEF RunnerIs, Scoring, Eng
<1> HIDE DEF old
<1>4. DOMAIN old = RunnerFields BY <1>2 DEF RunnerIs
<1>5. /\ r.pc = "insert" /\ r.run = old.run /\ r.kind = old.kind
      /\ r.clean = old.clean /\ r.seen = old.seen
   BY <1>4 DEF RunnerFields
<1> HIDE DEF r
<1>6. Fits(r) BY <1>1, <1>2, <1>5 DEF Fits
<1>7. ASSUME NEW e \in Derived PROVE RowsFit(e, table'[e])
   <2>1. CASE e = Eng(p)
      <3>1. table'[e] = {} BY <1>1, <1>2, <2>1
      <3> QED BY <3>1, FS_EmptySet DEF RowsFit
   <2>2. CASE e # Eng(p)
      <3>1. table'[e] = table[e] BY <1>1, <1>2, <2>2
      <3> QED BY <3>1 DEF TInv, TablesFit
   <2> QED BY <2>1, <2>2
<1>8. TablesFit' BY <1>1, <1>7 DEF TablesFit, TInv
<1>9. failures' \in 0..MaxFailures /\ flawed' \subseteq 1..MaxRuns BY <1>1 DEF TInv
<1> QED BY <1>1, <1>6, <1>8, <1>9, StepFits

LEMMA RunIs ==
    ASSUME RebuildAssumption, RInv, NEW p \in Runners, Active(p)
    PROVE  Run(p) \in 1..MaxRuns
BY DEF RInv, RunnersAre, RunnerIs, Active, Run, TablesAre, RebuildAssumption

LEMMA InsertFits ==
    ASSUME RebuildAssumption, RInv, TInv, NEW p \in Runners, Insert(p)
    PROVE  TInv'
<1> DEFINE old == runner[p]
           new == Of(Run(p), Compute(Eng(p), old.seen))
           refused == Eng(p) = "snapshot" /\ table["snapshot"] # {}
<1>1. /\ Writes(p, Idle) /\ inv' = inv /\ risk' = risk /\ old.pc = "insert"
      /\ table' = [table EXCEPT ![Eng(p)] = IF refused THEN @ ELSE @ \cup new]
      /\ flawed' = IF refused THEN flawed \cup {Run(p)} ELSE flawed
      /\ worker' = worker /\ changes' = changes /\ failures' = failures
   BY DEF Insert, At
<1>2. RunnerIs(old, Assets(inv), started) /\ Fits(old) /\ DOMAIN table = Derived
   BY DEF RInv, RunnersAre, TInv, TablesAre
<1>3. Eng(p) \in Derived BY <1>1, <1>2 DEF RunnerIs, Scoring, Eng
<1>4. Run(p) \in 1..MaxRuns BY <1>1, RunIs DEF Active
<1>5. SeenFits(old.seen) /\ Cells(old.seen.risk, old.seen.inv) BY <1>1, <1>2 DEF Fits
<1> HIDE DEF old
<1>6. RowsFit(Eng(p), new) BY <1>3, <1>5, ComputedFits
<1> HIDE DEF new, refused
<1>7. ASSUME NEW e \in Derived PROVE RowsFit(e, table'[e])
   <2>0. RowsFit(e, table[e]) BY DEF TInv, TablesFit
   <2>1. CASE table'[e] = table[e] BY <2>0, <2>1
   <2>2. CASE e = Eng(p) /\ table'[e] = table[e] \cup new
      <3>1. IsFiniteSet(table[e]) /\ IsFiniteSet(new) => IsFiniteSet(table[e] \cup new)
         BY FS_Union
      <3> QED BY <1>6, <2>0, <2>2, <3>1 DEF RowsFit
   <2> QED BY <1>1, <1>2, <2>1, <2>2
<1>8. TablesFit' BY <1>1, <1>7 DEF TablesFit, TInv
<1>9. failures' \in 0..MaxFailures /\ flawed' \subseteq 1..MaxRuns BY <1>1, <1>4 DEF TInv
<1>10. Fits(Idle) BY IdleFits
<1> QED BY <1>1, <1>8, <1>9, <1>10, StepFits

-----------------------------------------------------------------------------
\* The steps of a scoring run, what fails, and what others do meanwhile.
LEMMA CountFits ==
    ASSUME RebuildAssumption, TInv, failures < MaxFailures
    PROVE  failures + 1 \in 0..MaxFailures
BY DEF TInv, RebuildAssumption

LEMMA UpdateFits ==
    ASSUME RebuildAssumption, RInv, TInv, NEW p \in Runners, UpdateAsset(p)
    PROVE  TInv'
<1> DEFINE old == runner[p]
<1>1. PICK a \in old.todo, ok \in BOOLEAN :
         /\ ok \/ failures < MaxFailures
         /\ failures' = IF ok THEN failures ELSE failures + 1
         /\ flawed' = IF ok THEN flawed ELSE flawed \cup {Run(p)}
         /\ risk' = IF ok /\ a \in DOMAIN risk \ old.gone
                    THEN [risk EXCEPT ![a] = RiskTable[old.seen.inv][a]] ELSE risk
         /\ Writes(p, [old EXCEPT !.todo = @ \ {a},
                                  !.pc = IF old.todo = {a} THEN "trend" ELSE "update"])
   BY DEF UpdateAsset
<1> DEFINE r == [old EXCEPT !.todo = @ \ {a}, !.pc = IF old.todo = {a} THEN "trend" ELSE "update"]
<1>2. /\ inv' = inv /\ table' = table /\ worker' = worker /\ changes' = changes
      /\ old.pc = "update" /\ Writes(p, r)
   BY <1>1 DEF UpdateAsset, At
<1>3. RunnerIs(old, Assets(inv), started) /\ Fits(old) BY DEF RInv, RunnersAre, TInv
<1>4. Run(p) \in 1..MaxRuns BY <1>2, RunIs DEF Active
<1> HIDE DEF old
<1>5. DOMAIN old = RunnerFields /\ ScoresOn(old, Assets(inv)) BY <1>2, <1>3 DEF RunnerIs, Scoring
<1>6. /\ r.pc \in {"update", "trend"} /\ r.run = old.run /\ r.kind = old.kind
      /\ r.clean = old.clean /\ r.seen = old.seen
   BY <1>5 DEF RunnerFields
<1>7. a \in Assets(old.seen.inv) BY <1>5, KindsAre DEF ScoresOn
<1> HIDE DEF r
<1>8. Fits(r) BY <1>3, <1>6 DEF Fits
<1>9. old.seen.inv \in Inventories BY <1>3 DEF Fits, SeenFits
<1>10. IsCell(RiskTable[old.seen.inv][a]) BY <1>7, <1>9, TableCells DEF Cells
<1>11. Cells(risk, inv) BY DEF TInv, TablesFit
<1>12. Cells(risk', inv)
   <2>1. CASE risk' = risk BY <1>11, <2>1
   <2>2. CASE risk' = [risk EXCEPT ![a] = RiskTable[old.seen.inv][a]]
      BY <1>10, <1>11, <2>2 DEF Cells
   <2> QED BY <1>1, <2>1, <2>2
<1>13. TablesFit' BY <1>2, <1>12 DEF TablesFit, TInv
<1>14. failures' \in 0..MaxFailures /\ flawed' \subseteq 1..MaxRuns
   BY <1>1, <1>4, CountFits DEF TInv
<1> QED BY <1>2, <1>8, <1>13, <1>14, StepFits

LEMMA TrendFits ==
    ASSUME RebuildAssumption, RInv, TInv, NEW p \in Runners, AppendTrend(p)
    PROVE  TInv'
<1> DEFINE r == runner[p]
<1>1. PICK ok \in BOOLEAN : /\ ok \/ failures < MaxFailures
                            /\ failures' = IF ok THEN failures ELSE failures + 1
                            /\ flawed' = IF ok THEN flawed ELSE flawed \cup {r.run}
   BY DEF AppendTrend
<1>2. /\ Goes(p, NextKind(r)) /\ r.pc = "trend" /\ inv' = inv /\ risk' = risk /\ table' = table
      /\ worker' = worker /\ changes' = changes
   BY DEF AppendTrend, At
<1>3. DOMAIN r = RunnerFields /\ Fits(r) BY DEF RInv, RunnersAre, RunnerIs, TInv
<1>4. r.run \in 1..MaxRuns BY <1>2, RunIs DEF Active, Run
<1> HIDE DEF r
<1>5. Fits(NextKind(r)) BY <1>3, NextKindFits DEF Fits
<1>6. TablesFit' BY <1>2, TablesStay DEF TInv
<1>7. failures' \in 0..MaxFailures /\ flawed' \subseteq 1..MaxRuns
   BY <1>1, <1>4, CountFits DEF TInv
<1> QED BY <1>2, <1>5, <1>6, <1>7, StepFits

LEMMA FailFits ==
    ASSUME RebuildAssumption, RInv, TInv, NEW p \in Runners, Fail(p)
    PROVE  TInv'
<1>1. /\ Goes(p, Idle) /\ failures < MaxFailures /\ failures' = failures + 1
      /\ flawed' = flawed \cup {Run(p)} /\ runner[p].pc \in {"read", "delete", "insert"}
      /\ inv' = inv /\ risk' = risk /\ table' = table /\ worker' = worker /\ changes' = changes
   BY DEF Fail
<1>2. Run(p) \in 1..MaxRuns BY <1>1, RunIs DEF Active
<1>3. TablesFit' BY <1>1, TablesStay DEF TInv
<1>4. failures' \in 0..MaxFailures /\ flawed' \subseteq 1..MaxRuns
   BY <1>1, <1>2, CountFits DEF TInv
<1>5. Fits(Idle) BY IdleFits
<1> QED BY <1>1, <1>3, <1>4, <1>5, StepFits

LEMMA UnseenFits ==
    ASSUME RebuildAssumption, RInv, TInv, NEW p \in Runners, FailUnseen(p)
    PROVE  TInv'
<1> DEFINE old == runner[p]
           last == Len(old.reads) = 1
           zero == IF Head(old.reads) = "assets" THEN [Seeing(old.seen, "assets") EXCEPT !.blind = TRUE]
                   ELSE old.seen
           s == [old EXCEPT !.pc = "insert"]
           t == [old EXCEPT !.seen = zero, !.reads = Tail(@), !.pc = IF last THEN "delete" ELSE "read"]
<1>1. /\ failures < MaxFailures /\ failures' = failures + 1 /\ flawed' = flawed \cup {Run(p)}
      /\ old.eng = "snapshot" /\ old.pc \in {"read", "delete"}
      /\ Goes(p, IF old.pc = "delete" THEN s ELSE t)
      /\ inv' = inv /\ risk' = risk /\ table' = table /\ worker' = worker /\ changes' = changes
   BY DEF FailUnseen, Eng
<1>2. Run(p) \in 1..MaxRuns BY <1>1, RunIs DEF Active
<1>3. TablesFit' BY <1>1, TablesStay DEF TInv
<1>4. failures' \in 0..MaxFailures /\ flawed' \subseteq 1..MaxRuns
   BY <1>1, <1>2, CountFits DEF TInv
<1>5. DOMAIN old = RunnerFields /\ Fits(old) BY DEF RInv, RunnersAre, RunnerIs, TInv
<1> HIDE DEF old, last, zero
<1>6. CASE old.pc = "delete"
   <2>1. /\ s.pc = "insert" /\ s.run = old.run /\ s.kind = old.kind
         /\ s.clean = old.clean /\ s.seen = old.seen
      BY <1>5 DEF RunnerFields
   <2>2. Goes(p, s) BY <1>1, <1>6
   <2> HIDE DEF s
   <2>3. Fits(s) BY <1>5, <1>6, <2>1 DEF Fits
   <2> QED BY <1>1, <1>3, <1>4, <2>2, <2>3, StepFits
<1>7. CASE old.pc = "read"
   <2>1. /\ t.pc = (IF last THEN "delete" ELSE "read") /\ t.run = old.run /\ t.kind = old.kind
         /\ t.clean = old.clean /\ t.seen = zero /\ t.reads = Tail(old.reads) /\ t.eng = old.eng
      BY <1>5 DEF RunnerFields
   <2>2. Goes(p, t) BY <1>1, <1>7
   <2> HIDE DEF t
   <2>3. PICK x : x = Seeing(old.seen, Head(old.reads)) OBVIOUS
   <2>4. old.reads \in {<<"assets", "paths">>, <<"paths">>} BY <1>1, <1>5, <1>7 DEF Fits, Left
   <2>5. old.eng \in AllEngines BY <1>1 DEF AllEngines
   <2>6. /\ SeenFits(x)
         /\ Tail(old.reads) = <<>> \/ Tail(old.reads) \in Left(old.eng)
         /\ ~Unread(Tail(old.reads), "assets") => Cells(x.risk, x.inv)
      BY <1>5, <1>7, <2>3, <2>5, ReadingFits DEF TInv
   <2>7. SeenFits(zero) /\ (Head(old.reads) = "assets" => zero.risk = x.risk /\ zero.inv = x.inv)
                        /\ (Head(old.reads) # "assets" => zero = old.seen)
      <3>1. CASE Head(old.reads) = "assets"
         <4>1. zero = [x EXCEPT !.blind = TRUE] BY <2>3, <3>1 DEF zero
         <4>2. /\ DOMAIN zero = SeenFields /\ zero.inv = x.inv /\ zero.risk = x.risk
               /\ zero.rels = x.rels /\ zero.paths = x.paths
            BY <2>6, <4>1 DEF SeenFits, SeenFields
         <4> QED BY <2>6, <3>1, <4>2 DEF SeenFits
      <3>2. CASE Head(old.reads) # "assets"
         <4>1. zero = old.seen BY <3>2 DEF zero
         <4> QED BY <1>5, <3>2, <4>1 DEF Fits
      <3> QED BY <3>1, <3>2
   <2>8. CASE old.reads = <<"assets", "paths">>
      <3>1. Head(old.reads) = "assets" /\ Tail(old.reads) = <<"paths">> /\ ~last BY <2>8 DEF last
      <3>2. ~Unread(<<"paths">>, "assets") BY DEF Unread
      <3>3. <<"paths">> \in Left(old.eng) BY <1>1 DEF Left
      <3>4. Cells(zero.risk, zero.inv) BY <2>6, <2>7, <3>1, <3>2
      <3>5. t.pc = "read" BY <2>1, <3>1
      <3>6. Fits(t) BY <1>5, <2>1, <2>7, <3>1, <3>3, <3>4, <3>5 DEF Fits
      <3> QED BY <1>1, <1>3, <1>4, <2>2, <3>6, StepFits
   <2>9. CASE old.reads = <<"paths">>
      <3>1. Head(old.reads) = "paths" /\ last BY <2>9 DEF last
      <3>2. ~Unread(<<"paths">>, "assets") BY DEF Unread
      <3>3. Cells(zero.risk, zero.inv) BY <1>5, <1>7, <2>7, <2>9, <3>1, <3>2 DEF Fits
      <3>4. t.pc = "delete" BY <2>1, <3>1
      <3>5. Fits(t) BY <1>5, <2>1, <2>7, <3>3, <3>4 DEF Fits
      <3> QED BY <1>1, <1>3, <1>4, <2>2, <3>5, StepFits
   <2> QED BY <2>4, <2>8, <2>9
<1> QED BY <1>1, <1>6, <1>7

LEMMA CrashFits ==
    ASSUME RebuildAssumption, RInv, TInv, Crash
    PROVE  TInv'
<1>1. /\ failures < MaxFailures /\ failures' = failures + 1 /\ flawed' = flawed \cup ActiveRuns
      /\ runner' = [p \in Runners |-> Idle] /\ worker' = "on"
      /\ inv' = inv /\ risk' = risk /\ table' = table /\ changes' = changes
   BY DEF Crash
<1>2. ActiveRuns \subseteq 1..MaxRuns BY RunIs DEF ActiveRuns, Run
<1>3. \A q \in Runners : Fits(runner'[q]) BY <1>1, IdleFits
<1>4. TablesFit' BY <1>1, TablesStay DEF TInv
<1>5. failures' \in 0..MaxFailures /\ flawed' \subseteq 1..MaxRuns
   BY <1>1, <1>2, CountFits DEF TInv
<1> QED BY <1>1, <1>3, <1>4, <1>5 DEF TInv

LEMMA ChangeFits ==
    ASSUME RebuildAssumption, RInv, TInv, Change
    PROVE  TInv'
<1> DEFINE left == Assets(inv) \ Assets(inv')
           Older(r) == [r EXCEPT !.clean = FALSE, !.gone = @ \cup left]
<1>1. /\ changes < MaxChanges /\ changes' = changes + 1 /\ inv' \in Inventories
      /\ risk' = [a \in Assets(inv') |-> IF a \in DOMAIN risk THEN risk[a] ELSE Unscored]
      /\ runner' = [p \in Runners |-> IF Active(p) THEN Older(runner[p]) ELSE runner[p]]
      /\ table' = table /\ worker' = worker /\ failures' = failures /\ flawed' = flawed
   BY DEF Change
<1>2. ASSUME NEW q \in Runners PROVE Fits(runner'[q])
   <2>1. DOMAIN runner[q] = RunnerFields /\ Fits(runner[q]) BY DEF RInv, RunnersAre, RunnerIs, TInv
   <2>2. CASE ~Active(q)
      <3>1. runner'[q] = runner[q] BY <1>1, <2>2
      <3> QED BY <2>1, <3>1
   <2>3. CASE Active(q)
      <3>1. PICK old, g : old = runner[q] /\ g = runner[q].gone \cup left OBVIOUS
      <3>2. runner'[q] = [old EXCEPT !.clean = FALSE, !.gone = g] BY <1>1, <2>3, <3>1
      <3>3. PICK new : new = runner'[q] OBVIOUS
      <3> HIDE DEF left
      <3>4. new = [old EXCEPT !.clean = FALSE, !.gone = g] /\ DOMAIN old = RunnerFields
         BY <2>1, <3>1, <3>2, <3>3
      <3>5. /\ new.seen = old.seen /\ new.kind = old.kind /\ new.run = old.run
            /\ new.pc = old.pc /\ new.reads = old.reads /\ new.eng = old.eng
         BY <3>4 DEF RunnerFields
      <3>6. new.clean \in BOOLEAN BY <3>4 DEF RunnerFields
      <3>7. Fits(old) BY <2>1, <3>1
      <3>8. Fits(new) BY <3>5, <3>6, <3>7, LikeFits
      <3> QED BY <3>3, <3>8
   <2> QED BY <2>2, <2>3
<1>3. Cells(risk, inv) BY DEF TInv, TablesFit
<1>4. Cells(risk', inv') BY <1>1, <1>3, UnscoredIs DEF Cells
<1>5. TablesFit' BY <1>1, <1>4 DEF TablesFit, TInv
<1>6. changes' \in 0..MaxChanges
   <2>1. changes \in 0..MaxChanges BY DEF TInv
   <2>2. MaxChanges \in Nat BY DEF RebuildAssumption
   <2>3. changes < MaxChanges /\ changes' = changes + 1 BY <1>1
   <2> QED BY <2>1, <2>2, <2>3
<1> QED BY <1>1, <1>2, <1>5, <1>6 DEF TInv

LEMMA SwitchFits ==
    ASSUME TInv, inv' = inv, risk' = risk, table' = table, runner' = runner, changes' = changes,
           failures' = failures, flawed' = flawed, worker' \in {"on", "stopping", "off"}
    PROVE  TInv'
<1>1. TablesFit' BY TablesStay DEF TInv
<1> QED BY <1>1 DEF TInv

LEMMA StartsFit ==
    ASSUME RebuildAssumption, RebuildInit
    PROVE  TInv
<1>1. /\ inv \in Inventories /\ runner = [p \in Runners |-> Idle] /\ worker = "on"
      /\ changes = 0 /\ failures = 0 /\ flawed = {}
   BY DEF RebuildInit
<1>2. \A p \in Runners : Fits(runner[p]) BY <1>1, IdleFits
<1>3. ASSUME risk = [a \in Assets(inv) |-> Unscored], table = [e \in Derived |-> {}]
      PROVE  TablesFit
   <2>1. Cells(risk, inv) BY <1>3, UnscoredIs DEF Cells
   <2>2. \A e \in Derived : RowsFit(e, table[e]) BY <1>3, FS_EmptySet DEF RowsFit
   <2> QED BY <1>1, <2>1, <2>2 DEF TablesFit
<1>4. ASSUME risk = RiskTable[inv], table = Settled(inv)
      PROVE  TablesFit
   <2> DEFINE r == RiskTable[inv]
              s1 == [Nothing EXCEPT !.inv = inv, !.risk = r, !.rels = Edges[inv]]
              s2 == [s1 EXCEPT !.paths = AttackPaths(inv, r, Edges[inv])]
   <2>1. Cells(r, inv) BY <1>1, TableCells
   <2>2. table = [e \in Derived |-> Of(0, Compute(e, s2))] BY <1>4 DEF Settled
   <2>3. PICK paths, edges : paths = AttackPaths(inv, r, Edges[inv]) /\ edges = Edges[inv] OBVIOUS
   <2>4. IsFiniteSet(edges) /\ IsFiniteSet(paths)
      BY <1>1, <2>3, EdgesAreFinite, PathsAreFinite
   <2> HIDE DEF r
   <2>5. DOMAIN Nothing = SeenFields BY IdleIs
   <2>6. s2.inv = inv /\ s2.risk = r /\ s2.rels = edges /\ s2.paths = paths /\ DOMAIN s2 = SeenFields
      BY <2>3, <2>5 DEF SeenFields
   <2> HIDE DEF s1, s2
   <2>7. SeenFits(s2) /\ Cells(s2.risk, s2.inv) BY <1>1, <2>1, <2>4, <2>6 DEF SeenFits
   <2>8. \A e \in Derived : RowsFit(e, table[e]) BY <2>2, <2>7, ComputedFits
   <2>9. Cells(risk, inv) BY <1>4, <2>1 DEF r
   <2> QED BY <1>1, <2>8, <2>9 DEF TablesFit
<1>5. TablesFit BY <1>3, <1>4 DEF RebuildInit
<1>6. changes \in 0..MaxChanges /\ failures \in 0..MaxFailures BY <1>1 DEF RebuildAssumption
<1> QED BY <1>1, <1>2, <1>5, <1>6 DEF TInv

-----------------------------------------------------------------------------
\* What a reader of the tables relies on follows from both invariants.
LEMMA FitsIsTyped ==
    ASSUME RebuildAssumption, RInv, TInv, NEW p \in Runners
    PROVE  [f \in DOMAIN runner[p] \ {"reads", "seen", "todo", "gone"} |-> runner[p][f]]
             \in RunnerTypes
<1>1. PICK r : r = runner[p] OBVIOUS
<1>2. RunnerIs(r, Assets(inv), started) /\ Fits(r) /\ started \in 0..MaxRuns
   BY <1>1 DEF RInv, RunnersAre, TablesAre, TInv
<1>3. DOMAIN r \ {"reads", "seen", "todo", "gone"} = {"eng", "pc", "run", "kind", "clean"}
   BY <1>2 DEF RunnerIs, RunnerFields
<1>4. r.pc \in {"idle", "read", "delete", "insert", "update", "trend"}
   BY <1>2 DEF RunnerIs, Scoring
<1>5. r.eng \in AllEngines \cup {"none"}
   <2>1. Derived \subseteq AllEngines /\ "risk" \in AllEngines BY DEF Derived, AllEngines
   <2> QED BY <1>2, <2>1 DEF RunnerIs, ScoresOn
<1>6. r.run \in 0..MaxRuns /\ r.kind \in 0..3 /\ r.clean \in BOOLEAN BY <1>2 DEF Fits
<1> DEFINE shown == [f \in {"eng", "pc", "run", "kind", "clean"} |-> r[f]]
<1>7. shown = [eng |-> r.eng, pc |-> r.pc, run |-> r.run, kind |-> r.kind, clean |-> r.clean]
   OBVIOUS
<1>8. shown \in RunnerTypes BY <1>4, <1>5, <1>6, <1>7 DEF RunnerTypes
<1> QED BY <1>1, <1>3, <1>8

LEMMA RebuildIsTyped ==
    ASSUME RebuildAssumption, RInv, TInv
    PROVE  RebuildTypeOK
<1>1. inv \in Inventories /\ Cells(risk, inv) /\ \A e \in Derived : RowsFit(e, table[e])
   BY DEF TInv, TablesFit
<1>2. DOMAIN risk = Assets(inv) /\ DOMAIN table = Derived /\ started \in 0..MaxRuns
   BY DEF RInv, TablesAre
<1>3. \A a \in DOMAIN risk : risk[a].score \in 0..MaxRisk BY <1>1 DEF Cells, IsCell
<1>4. /\ \A r \in table["exposure"] : r.score \in 0..(100 * ExposureUnit)
      /\ \A r \in table["snapshot"] : r.exposure \in 0..MaxOrg
   <2>1. "exposure" \in Derived /\ "snapshot" \in Derived BY DEF Derived
   <2>2. RowsFit("exposure", table["exposure"]) /\ RowsFit("snapshot", table["snapshot"])
      BY <1>1, <2>1
   <2> QED BY <2>2 DEF RowsFit
<1>5. \A p \in Runners :
         [f \in DOMAIN runner[p] \ {"reads", "seen", "todo", "gone"} |-> runner[p][f]]
           \in RunnerTypes
   BY FitsIsTyped
<1>6. /\ worker \in {"on", "stopping", "off"} /\ changes \in 0..MaxChanges
      /\ failures \in 0..MaxFailures /\ flawed \subseteq 1..MaxRuns
   BY DEF TInv
<1> QED BY <1>1, <1>2, <1>3, <1>4, <1>5, <1>6 DEF RebuildTypeOK

LEMMA StepsFit ==
    ASSUME RebuildAssumption, RInv, TInv, [RebuildNext]_rebuildVars
    PROVE  TInv'
<1>1. CASE Crash BY <1>1, CrashFits
<1>2. CASE Change BY <1>2, ChangeFits
<1>3. CASE WorkerTick
   <2>1. Worker \in Runners /\ "exposure" \in AllEngines BY DEF RebuildAssumption, AllEngines
   <2> QED BY <1>3, <2>1, StartFits DEF WorkerTick
<1>4. CASE WorkerStop
   <2>1. /\ worker' = "stopping" /\ inv' = inv /\ risk' = risk /\ table' = table
         /\ runner' = runner /\ changes' = changes /\ failures' = failures /\ flawed' = flawed
      BY <1>4 DEF WorkerStop
   <2> QED BY <2>1, SwitchFits
<1>5. CASE WorkerExit
   <2>1. /\ worker' = "off" /\ inv' = inv /\ risk' = risk /\ table' = table
         /\ runner' = runner /\ changes' = changes /\ failures' = failures /\ flawed' = flawed
      BY <1>5 DEF WorkerExit
   <2> QED BY <2>1, SwitchFits
<1>6. CASE UNCHANGED rebuildVars
   <2>1. /\ worker' = worker /\ inv' = inv /\ risk' = risk /\ table' = table
         /\ runner' = runner /\ changes' = changes /\ failures' = failures /\ flawed' = flawed
      BY <1>6 DEF rebuildVars
   <2>2. worker' \in {"on", "stopping", "off"} BY <2>1 DEF TInv
   <2> QED BY <2>1, <2>2, SwitchFits
<1>7. ASSUME NEW p \in Runners, NEW e \in Engines, Begin(p, e) PROVE TInv'
   <2>1. Engines \subseteq AllEngines BY DEF RebuildAssumption
   <2>2. e \in AllEngines /\ Starts(p, e) BY <1>7, <2>1 DEF Begin
   <2> QED BY <2>2, StartFits
<1>8. ASSUME NEW p \in Runners, Read(p) PROVE TInv' BY <1>8, ReadFits
<1>9. ASSUME NEW p \in Runners, Delete(p) PROVE TInv' BY <1>9, DeleteFits
<1>10. ASSUME NEW p \in Runners, Insert(p) PROVE TInv' BY <1>10, InsertFits
<1>11. ASSUME NEW p \in Runners, UpdateAsset(p) PROVE TInv' BY <1>11, UpdateFits
<1>12. ASSUME NEW p \in Runners, AppendTrend(p) PROVE TInv' BY <1>12, TrendFits
<1>13. ASSUME NEW p \in Runners, Fail(p) PROVE TInv' BY <1>13, FailFits
<1>14. ASSUME NEW p \in Runners, FailUnseen(p) PROVE TInv' BY <1>14, UnseenFits
<1>15. CASE RebuildNext
   BY <1>1, <1>2, <1>3, <1>4, <1>5, <1>7, <1>8, <1>9, <1>10, <1>11, <1>12, <1>13, <1>14, <1>15
      DEF RebuildNext
<1> QED BY <1>6, <1>15

\* Every score the engines store is a score: a risk between nought and a
\* hundred, an exposure and an organisation's exposure within a percentage,
\* whatever ran at once, failed or crashed, and the runs are of their types
\* (riskscore ScoreHosts, exposure Rebuild, executive SnapshotToday).
THEOREM RebuildTypes == RebuildSpec => []RebuildTypeOK
<1> USE RebuildAssumption
<1>1. RebuildInit => TInv BY StartsFit
<1>2. RInv /\ TInv /\ [RebuildNext]_rebuildVars => TInv' BY StepsFit
<1>3. RInv /\ TInv => RebuildTypeOK BY RebuildIsTyped
<1> QED BY <1>1, <1>2, <1>3, RebuildInductive, PTL DEF RebuildSpec
=============================================================================
