--------------------------- MODULE DispatchProofs ---------------------------
(***************************************************************************)
(* Proofs about a discovery run, for any names, addresses, ports, depth,   *)
(* asset cap and hop concurrency: it stays in its bounds and owns up to    *)
(* them. About Recurrence: an entry makes a second job only for a known    *)
(* reason. And about MCDispatch: the types of both together.               *)
(***************************************************************************)
EXTENDS MCDispatch, FiniteSetTheorems, WellFoundedInduction, TLAPS

-----------------------------------------------------------------------------
(* A discovery run. *)
Dom == <<"domain", Root>>
Counted(rs) == {row \in rs : row[1] # "portcert"}
Started == \E n \in Names : pc[n] # "idle"

\* The cap is never passed, and trips only when it is used up.
CapFacts ==
    /\ assetCount <= MaxAssets
    /\ capHit => assetCount = MaxAssets

\* Every row but the root's has taken a slot of its own; the root's is
\* covered by the slot of the first name that was dispatched.
RowFacts ==
    /\ IsFiniteSet(Counted(rows))
    /\ ~Started => rows = {}
    /\ Started => Cardinality(Counted(rows) \ {Dom}) + 1 <= assetCount

WorkFacts == \A ip \in IPs : worked[ip] <= 1 /\ (ip \notin visitedIP => worked[ip] = 0)

\* Whoever leaves something out has tripped the cap, and the other way round.
SkipFacts ==
    /\ skipped <=> capHit
    /\ main = "end" => stage = IF capHit THEN "capped" ELSE "done"

\* Goroutines run only inside a hop, and a hop is within the depth.
HopFacts ==
    /\ main # "hop" => AllJoined
    /\ main = "hop" => hop <= Depth

\* TypeOK in groups, which a step can treat one by one.
FlagTypes ==
    /\ status \in {"pending", "running", "completed", "failed", "cancelled"}
    /\ stage \in {"", "done", "capped"}
    /\ main \in {"start", "head", "hop", "final", "failing", "end"}
    /\ request \in {"none", "read", "done"} /\ ctxDone \in BOOLEAN
HopTypes  == hop \in 0..(Depth + 1)
LoopTypes == frontier \in Seq(Names) /\ next \subseteq Names
GoTypes ==
    /\ pc \in [Names -> PCs] /\ todoSubs \in [Names -> SUBSET Names]
    /\ todoIPs \in [Names -> SUBSET IPs] /\ todoPorts \in [Names -> SUBSET Ports]
    /\ at \in [Names -> IPs]
SeenTypes == visitedHost \subseteq Names /\ visitedIP \subseteq IPs
CapTypes  == assetCount \in Nat /\ capHit \in BOOLEAN /\ skipped \in BOOLEAN
RunRowTypes  == \A row \in rows : row[1] \in Kinds
WorkTypes == worked \in [IPs -> Nat]

Types == /\ FlagTypes /\ HopTypes /\ LoopTypes /\ GoTypes
         /\ SeenTypes /\ CapTypes /\ RunRowTypes /\ WorkTypes

RunInv == Types /\ CapFacts /\ RowFacts /\ WorkFacts /\ SkipFacts /\ HopFacts

LEMMA TypesAreTypeOK == Types => TypeOK
  BY DEF Types, TypeOK, FlagTypes, HopTypes, LoopTypes, GoTypes, SeenTypes, CapTypes,
         RunRowTypes, WorkTypes

LEMMA Sizes == Depth \in Nat /\ MaxAssets \in Nat /\ MaxAssets > 0
  BY DiscoveryAssumption

LEMMA ConstantSets ==
    /\ IsFiniteSet(Names) /\ Seeds \in Seq(Names) /\ IPs # {}
    /\ SubNames \subseteq Names /\ PtrNames \subseteq Names
  BY DiscoveryAssumption

-----------------------------------------------------------------------------
\* What a step does to the accounts: nothing, one slot for one row, or a trip.
Quiet == /\ UNCHANGED <<assetCount, capHit, skipped>>
         /\ Counted(rows') \ {Dom} \subseteq Counted(rows) \ {Dom}
Takes == /\ CanReserve /\ Reserve /\ UNCHANGED skipped
         /\ \E x : Counted(rows') \subseteq Counted(rows) \cup {x}
Trips == ReserveFails /\ skipped' = TRUE /\ UNCHANGED rows

LEMMA RowsAreCovered ==
    ASSUME RunInv
    PROVE  Cardinality(Counted(rows)) <= assetCount
  <1> USE DEF RunInv
  <1>1. IsFiniteSet(Counted(rows)) /\ assetCount \in Nat
    BY DEF RowFacts, Types, CapTypes
  <1>2. CASE ~Started
    <2>1. Counted(rows) = {}
      BY <1>2 DEF RowFacts, Counted
    <2> QED
      BY <1>1, <2>1, FS_EmptySet
  <1>3. CASE Started
    <2>a. /\ IsFiniteSet(Counted(rows) \ {Dom})
          /\ Cardinality(Counted(rows) \ {Dom})
                = IF Dom \in Counted(rows) THEN Cardinality(Counted(rows)) - 1
                                           ELSE Cardinality(Counted(rows))
      BY <1>1, FS_RemoveElement
    <2>2. /\ Cardinality(Counted(rows)) \in Nat
          /\ Cardinality(Counted(rows) \ {Dom}) \in Nat
      BY <1>1, <2>a, FS_CardinalityType
    <2>1. Cardinality(Counted(rows) \ {Dom}) >= Cardinality(Counted(rows)) - 1
      BY <2>a, <2>2
    <2> QED
      BY <1>1, <1>3, <2>1, <2>2 DEF RowFacts
  <1> QED
    BY <1>2, <1>3

\* A goroutine step keeps the accounts straight.
LEMMA AccountsKept ==
    ASSUME RunInv, Started, Started', UNCHANGED <<main, stage>>, main # "end",
           Quiet \/ Takes \/ Trips
    PROVE  CapFacts' /\ RowFacts' /\ SkipFacts'
  <1> USE DEF RunInv
  <1> DEFINE mine == Counted(rows) \ {Dom}
             mine2 == Counted(rows') \ {Dom}
  <1>1. /\ assetCount \in Nat /\ MaxAssets \in Nat /\ capHit \in BOOLEAN
        /\ IsFiniteSet(Counted(rows)) /\ Cardinality(mine) + 1 <= assetCount
    BY Sizes DEF Types, CapTypes, RowFacts
  <1>2. IsFiniteSet(mine) /\ Cardinality(mine) \in Nat
    BY <1>1, FS_RemoveElement, FS_CardinalityType
  <1>3. CASE Quiet
    <2>1. mine2 \subseteq mine
      BY <1>3 DEF Quiet
    <2>2. IsFiniteSet(mine2) /\ Cardinality(mine2) <= Cardinality(mine)
      BY <1>2, <2>1, FS_Subset
    <2>3. IsFiniteSet(Counted(rows'))
      <3>1. IsFiniteSet(mine2 \cup {Dom})
        BY <2>2, FS_AddElement
      <3>2. Counted(rows') \in SUBSET (mine2 \cup {Dom})
        OBVIOUS
      <3> QED
        BY <3>1, <3>2, FS_Subset
    <2>4. Cardinality(mine2) \in Nat
      BY <2>2, FS_CardinalityType
    <2> QED
      BY <1>1, <1>2, <1>3, <2>2, <2>3, <2>4 DEF Quiet, CapFacts, RowFacts, SkipFacts, Counted
  <1>4. CASE Takes
    <2> PICK x : Counted(rows') \subseteq Counted(rows) \cup {x}
      BY <1>4 DEF Takes
    <2>1. IsFiniteSet(Counted(rows'))
      <3>1. IsFiniteSet(Counted(rows) \cup {x})
        BY <1>1, FS_AddElement
      <3>2. Counted(rows') \in SUBSET (Counted(rows) \cup {x})
        OBVIOUS
      <3> QED
        BY <3>1, <3>2, FS_Subset
    <2>2. IsFiniteSet(mine \cup {x}) /\ Cardinality(mine \cup {x}) <= Cardinality(mine) + 1
      <3> HIDE DEF mine
      <3>1. IsFiniteSet(mine \cup {x})
        BY <1>2, FS_AddElement
      <3>2. Cardinality(mine \cup {x}) = IF x \in mine THEN Cardinality(mine)
                                                      ELSE Cardinality(mine) + 1
        BY <1>2, FS_AddElement
      <3> QED
        BY <1>2, <3>1, <3>2
    <2>3. mine2 \in SUBSET (mine \cup {x})
      OBVIOUS
    <2>4. IsFiniteSet(mine2) /\ Cardinality(mine2) <= Cardinality(mine \cup {x})
      BY <2>2, <2>3, FS_Subset
    <2>5. Cardinality(mine2) \in Nat /\ Cardinality(mine \cup {x}) \in Nat
      BY <2>2, <2>4, FS_CardinalityType
    <2>6. Cardinality(mine2) + 1 <= assetCount + 1
      BY <1>1, <1>2, <2>2, <2>4, <2>5
    <2>7. ~capHit /\ assetCount < MaxAssets /\ assetCount' = assetCount + 1
          /\ UNCHANGED <<capHit, skipped>>
      BY <1>4 DEF Takes, CanReserve, Reserve
    <2>8. CapFacts' /\ SkipFacts'
      BY <1>1, <2>7 DEF CapFacts, SkipFacts
    <2>9. RowFacts'
      BY <2>1, <2>6, <2>7 DEF RowFacts, Counted
    <2> QED
      BY <2>8, <2>9
  <1>5. CASE Trips
    <2>1. capHit' = TRUE /\ assetCount' = assetCount /\ skipped' = TRUE /\ rows' = rows
      BY <1>5 DEF Trips, ReserveFails
    <2>2. assetCount = MaxAssets
      BY <1>1, <1>5 DEF Trips, ReserveFails, CanReserve, CapFacts
    <2>3. CapFacts' /\ SkipFacts'
      BY <1>1, <2>1, <2>2 DEF CapFacts, SkipFacts
    <2>4. RowFacts'
      BY <1>1, <2>1 DEF RowFacts, Counted
    <2> QED
      BY <2>3, <2>4
  <1> QED
    BY <1>3, <1>4, <1>5

-----------------------------------------------------------------------------
LEMMA InitRunInv == Init => RunInv
  <1> SUFFICES ASSUME Init PROVE RunInv
    OBVIOUS
  <1>0. /\ main = "start" /\ hop = 0 /\ frontier = <<>> /\ next = {} /\ assetCount = 0
        /\ capHit = FALSE /\ skipped = FALSE /\ worked = [ip \in IPs |-> 0]
    BY DEF Init
  <1>1. Types
    <2>1. FlagTypes /\ SeenTypes /\ RunRowTypes
      BY DEF Init, FlagTypes, SeenTypes, RunRowTypes
    <2>2. HopTypes /\ CapTypes
      <3>1. hop = 0 /\ assetCount = 0
        BY <1>0
      <3>2. HopTypes /\ assetCount \in Nat
        BY <3>1, Sizes DEF HopTypes
      <3>3. capHit \in BOOLEAN /\ skipped \in BOOLEAN
        BY <1>0
      <3> QED
        BY <3>2, <3>3 DEF CapTypes
    <2>3. LoopTypes
      BY <1>0 DEF LoopTypes
    <2>4. GoTypes
      BY ConstantSets DEF Init, GoTypes, PCs
    <2>5. WorkTypes
      BY DEF Init, WorkTypes
    <2> QED
      BY <2>1, <2>2, <2>3, <2>4, <2>5 DEF Types
  <1>2. CapFacts /\ SkipFacts
    BY <1>0, Sizes DEF CapFacts, SkipFacts
  <1>3. WorkFacts
    BY <1>0 DEF WorkFacts
  <1>4. HopFacts
    BY DEF Init, HopFacts, AllJoined
  <1>5. RowFacts
    <2>1. Counted(rows) = {} /\ ~Started /\ rows = {}
      BY DEF Init, Counted, Started
    <2> QED
      BY <2>1, FS_EmptySet DEF RowFacts
  <1> QED
    BY <1>1, <1>2, <1>3, <1>4, <1>5 DEF RunInv

\* The steps of the job's row, of the request and of the context.
LEMMA JobRunInv ==
    ASSUME RunInv, Start \/ LoopHead \/ Final \/ ContextEnds \/ CancelReads \/ CancelWrites
    PROVE  RunInv'
  <1> USE DEF RunInv
  <1>1. UNCHANGED <<hop, next, goVars, runState, rows, worked, skipped>>
    BY DEF Start, LoopHead, Final, ContextEnds, CancelReads, CancelWrites, loopVars
  <1>2. CapFacts' /\ WorkFacts'
    BY <1>1 DEF CapFacts, WorkFacts, runState
  <1>3. RowFacts'
    BY <1>1 DEF RowFacts, Counted, Started, runState, goVars
  <1>4. Types'
    <2>1. FlagTypes'
      BY DEF Types, FlagTypes, Start, LoopHead, Final, ContextEnds, CancelReads, CancelWrites
    <2>2. LoopTypes'
      BY ConstantSets DEF Types, LoopTypes, Start, LoopHead, Final, ContextEnds, CancelReads,
                          CancelWrites, loopVars
    <2>3. /\ HopTypes' /\ GoTypes' /\ SeenTypes' /\ CapTypes' /\ RunRowTypes' /\ WorkTypes'
      BY <1>1 DEF Types, HopTypes, GoTypes, SeenTypes, CapTypes, RunRowTypes, WorkTypes,
                  goVars, runState
    <2> QED
      BY <2>1, <2>2, <2>3 DEF Types
  <1>5. SkipFacts'
    BY <1>1 DEF SkipFacts, Start, LoopHead, Final, ContextEnds, CancelReads, CancelWrites,
                runState
  <1>6. HopFacts'
    <2>1. AllJoined' <=> AllJoined
      BY <1>1 DEF AllJoined, goVars
    <2>2. hop \in Nat /\ Depth \in Nat
      BY Sizes DEF Types, HopTypes
    <2> QED
      BY <1>1, <2>1, <2>2 DEF HopFacts, Start, LoopHead, Final, ContextEnds, CancelReads, CancelWrites
  <1> QED
    BY <1>2, <1>3, <1>4, <1>5, <1>6

\* A name of the frontier: its slot covers the root's row.
LEMMA DispatchRunInv ==
    ASSUME RunInv, Dispatch
    PROVE  RunInv'
  <1> USE DEF RunInv
  <1> DEFINE n == Head(frontier)
  <1>1. /\ main = "hop" /\ frontier # <<>>
        /\ UNCHANGED <<status, stage, main, request, ctxDone, hop, next, todoSubs, todoIPs,
                       todoPorts, at, rows, worked>>
    BY DEF Dispatch, jobVars
  <1>2. /\ frontier \in Seq(Names) /\ n \in Names /\ Tail(frontier) \in Seq(Names)
        /\ <<>> \in Seq(Names)
    BY <1>1 DEF Types, LoopTypes
  <1>3. /\ assetCount \in Nat /\ MaxAssets \in Nat /\ capHit \in BOOLEAN
        /\ IsFiniteSet(Counted(rows)) /\ pc \in [Names -> PCs]
    BY Sizes DEF Types, CapTypes, GoTypes, RowFacts
  <1> HIDE DEF n
  <1>4. \/ /\ ReserveFails /\ visitedHost' \in {visitedHost, visitedHost \cup {n}}
           /\ frontier' = <<>> /\ skipped' = TRUE /\ UNCHANGED <<pc, visitedIP>>
        \/ /\ frontier' = Tail(frontier) /\ UNCHANGED <<pc, runState, skipped>>
        \/ /\ CanReserve /\ Reserve /\ visitedHost' = visitedHost \cup {n}
           /\ pc' = [pc EXCEPT ![n] = "slot"] /\ frontier' = Tail(frontier)
           /\ UNCHANGED <<visitedIP, skipped>>
    BY DEF Dispatch, GoTo, n
  <1>5. HopFacts'
    BY <1>1 DEF HopFacts
  <1>6. CASE ReserveFails /\ visitedHost' \in {visitedHost, visitedHost \cup {n}}
             /\ frontier' = <<>> /\ skipped' = TRUE /\ UNCHANGED <<pc, visitedIP>>
    <2>1. capHit' = TRUE /\ assetCount' = assetCount /\ assetCount = MaxAssets
      BY <1>3, <1>6 DEF ReserveFails, CanReserve, CapFacts
    <2>2. CapFacts' /\ WorkFacts' /\ SkipFacts'
      BY <1>1, <1>3, <1>6, <2>1 DEF CapFacts, WorkFacts, SkipFacts
    <2>3. RowFacts'
      BY <1>1, <1>6, <2>1 DEF RowFacts, Started, Counted
    <2>4. Types'
      <3>1. FlagTypes' /\ HopTypes' /\ RunRowTypes' /\ WorkTypes'
        BY <1>1 DEF Types, FlagTypes, HopTypes, RunRowTypes, WorkTypes
      <3>2. LoopTypes'
        BY <1>1, <1>2, <1>6 DEF Types, LoopTypes
      <3>3. GoTypes'
        BY <1>1, <1>2, <1>6 DEF Types, GoTypes, PCs
      <3>4. SeenTypes' /\ CapTypes'
        BY <1>2, <1>6, <2>1 DEF Types, SeenTypes, CapTypes, runState
      <3> QED
        BY <3>1, <3>2, <3>3, <3>4 DEF Types
    <2> QED
      BY <1>5, <2>2, <2>3, <2>4
  <1>7. CASE frontier' = Tail(frontier) /\ UNCHANGED <<pc, runState, skipped>>
    <2>1. CapFacts' /\ WorkFacts' /\ SkipFacts'
      BY <1>1, <1>7 DEF CapFacts, WorkFacts, SkipFacts, runState
    <2>2. RowFacts'
      BY <1>1, <1>7 DEF RowFacts, Started, Counted, runState
    <2>3. Types'
      <3>1. FlagTypes' /\ HopTypes' /\ RunRowTypes' /\ WorkTypes'
        BY <1>1 DEF Types, FlagTypes, HopTypes, RunRowTypes, WorkTypes
      <3>2. LoopTypes'
        BY <1>1, <1>2, <1>7 DEF Types, LoopTypes
      <3>3. GoTypes'
        BY <1>1, <1>2, <1>7 DEF Types, GoTypes, PCs
      <3>4. SeenTypes' /\ CapTypes'
        BY <1>2, <1>7 DEF Types, SeenTypes, CapTypes, runState
      <3> QED
        BY <3>1, <3>2, <3>3, <3>4 DEF Types
    <2> QED
      BY <1>5, <2>1, <2>2, <2>3
  <1>8. CASE /\ CanReserve /\ Reserve /\ visitedHost' = visitedHost \cup {n}
             /\ pc' = [pc EXCEPT ![n] = "slot"] /\ frontier' = Tail(frontier)
             /\ UNCHANGED <<visitedIP, skipped>>
    <2>1. /\ ~capHit /\ assetCount < MaxAssets /\ assetCount' = assetCount + 1
          /\ UNCHANGED capHit
      BY <1>8 DEF CanReserve, Reserve
    <2>2. CapFacts' /\ WorkFacts' /\ SkipFacts'
      BY <1>1, <1>3, <1>8, <2>1 DEF CapFacts, WorkFacts, SkipFacts
    <2>3. Types'
      <3>1. FlagTypes' /\ HopTypes' /\ RunRowTypes' /\ WorkTypes'
        BY <1>1 DEF Types, FlagTypes, HopTypes, RunRowTypes, WorkTypes
      <3>2. LoopTypes'
        BY <1>1, <1>2, <1>8 DEF Types, LoopTypes
      <3>3. GoTypes'
        BY <1>1, <1>2, <1>8 DEF Types, GoTypes, PCs
      <3>4. SeenTypes' /\ CapTypes'
        BY <1>2, <1>3, <1>8, <2>1 DEF Types, SeenTypes, CapTypes, runState
      <3> QED
        BY <3>1, <3>2, <3>3, <3>4 DEF Types
    <2>4. RowFacts'
      <3>1. Started'
        BY <1>2, <1>3, <1>8 DEF Started
      <3>2. Cardinality(Counted(rows) \ {Dom}) + 1 <= assetCount + 1
        <4>1. CASE Started
          BY <1>3, <4>1, FS_RemoveElement, FS_CardinalityType DEF RowFacts
        <4>2. CASE ~Started
          <5>1. Counted(rows) \ {Dom} = {}
            BY <4>2 DEF RowFacts, Counted
          <5> QED
            BY <1>3, <5>1, FS_EmptySet
        <4> QED
          BY <4>1, <4>2
      <3> QED
        BY <1>1, <1>3, <2>1, <3>1, <3>2 DEF RowFacts, Counted
    <2> QED
      BY <1>5, <2>2, <2>3, <2>4
  <1> QED
    BY <1>4, <1>6, <1>7, <1>8

\* The types of what a step leaves alone.
LEMMA TypesStay ==
    ASSUME Types, UNCHANGED <<jobVars, loopVars, runState, rows, worked, skipped>>
    PROVE  /\ FlagTypes' /\ HopTypes' /\ LoopTypes' /\ SeenTypes' /\ CapTypes' /\ RunRowTypes'
           /\ WorkTypes'
  <1>1. FlagTypes'
    BY DEF Types, FlagTypes, jobVars
  <1>2. HopTypes' /\ LoopTypes'
    BY DEF Types, HopTypes, LoopTypes, loopVars
  <1>3. SeenTypes' /\ CapTypes'
    BY DEF Types, SeenTypes, CapTypes, runState
  <1>4. RunRowTypes' /\ WorkTypes'
    BY DEF Types, RunRowTypes, WorkTypes
  <1> QED
    BY <1>1, <1>2, <1>3, <1>4

LEMMA SpawnRunInv ==
    ASSUME RunInv, NEW n \in Names, Spawn(n)
    PROVE  RunInv'
  <1> USE DEF RunInv
  <1>1. /\ pc[n] = "slot" /\ pc' = [pc EXCEPT ![n] = "root"]
        /\ UNCHANGED <<jobVars, loopVars, todoSubs, todoIPs, todoPorts, at, runState, rows,
                       worked, skipped>>
    BY DEF Spawn, GoTo
  <1>2. Types'
    <2>1. GoTypes'
      BY <1>1 DEF Types, GoTypes, PCs
    <2>2. UNCHANGED <<jobVars, loopVars, runState, rows, worked, skipped>>
      BY <1>1
    <2> QED
      BY <2>1, <2>2, TypesStay DEF Types
  <1>3. CapFacts' /\ WorkFacts' /\ SkipFacts'
    BY <1>1 DEF CapFacts, WorkFacts, SkipFacts, runState, jobVars
  <1>4. Started /\ Started'
    BY <1>1 DEF Started, Types, GoTypes
  <1>5. RowFacts'
    BY <1>1, <1>4 DEF RowFacts, Counted, runState
  <1>6. main = "hop"
    BY <1>1 DEF HopFacts, AllJoined
  <1>7. HopFacts'
    BY <1>1, <1>6 DEF HopFacts, jobVars, loopVars
  <1> QED
    BY <1>2, <1>3, <1>5, <1>7

\* All goroutines are through; the next frontier holds finitely many names.
LEMMA HopEndsRunInv ==
    ASSUME RunInv, HopEnds
    PROVE  RunInv'
  <1> USE DEF RunInv
  <1>1. /\ main = "hop" /\ AllJoined /\ main' = "head" /\ hop' = hop + 1 /\ next' = {}
        /\ UNCHANGED <<status, stage, request, ctxDone, goVars, runState, rows, worked, skipped>>
        /\ \E order \in [1..Cardinality(next) -> next] : frontier' = order
    BY DEF HopEnds
  <1>2. IsFiniteSet(next) /\ Cardinality(next) \in Nat /\ next \subseteq Names
    BY ConstantSets, FS_Subset, FS_CardinalityType DEF Types, LoopTypes
  <1>3. frontier' \in Seq(Names)
    BY <1>1, <1>2
  <1>4. HopTypes'
    BY <1>1, Sizes DEF Types, HopTypes, HopFacts
  <1>5. Types'
    <2>1. FlagTypes' /\ LoopTypes'
      BY <1>1, <1>3 DEF Types, FlagTypes, LoopTypes
    <2>2. GoTypes' /\ SeenTypes' /\ CapTypes' /\ RunRowTypes' /\ WorkTypes'
      BY <1>1 DEF Types, GoTypes, SeenTypes, CapTypes, RunRowTypes, WorkTypes, goVars, runState
    <2> QED
      BY <1>4, <2>1, <2>2 DEF Types
  <1>6. CapFacts' /\ WorkFacts' /\ SkipFacts'
    BY <1>1 DEF CapFacts, WorkFacts, SkipFacts, runState
  <1>7. RowFacts'
    BY <1>1 DEF RowFacts, Counted, Started, goVars, runState
  <1>8. HopFacts'
    BY <1>1 DEF HopFacts, AllJoined, goVars
  <1> QED
    BY <1>5, <1>6, <1>7, <1>8

-----------------------------------------------------------------------------
\* What is left to show of a step of a running goroutine.
LEMMA GoKeeps ==
    ASSUME RunInv, NEW n \in Names, Running(n), NEW label \in PCs \ {"idle"},
           pc' = pc \/ pc' = [pc EXCEPT ![n] = label],
           UNCHANGED <<jobVars, hop, frontier>>,
           todoSubs' \in [Names -> SUBSET Names], todoIPs' \in [Names -> SUBSET IPs],
           todoPorts' \in [Names -> SUBSET Ports], at' \in [Names -> IPs],
           next' \subseteq Names, SeenTypes', RunRowTypes', WorkTypes', WorkFacts',
           Quiet \/ Takes \/ Trips
    PROVE  RunInv'
  <1>1. /\ FlagTypes /\ HopTypes /\ LoopTypes /\ GoTypes /\ CapTypes /\ SkipFacts
        /\ RowFacts /\ HopFacts
    BY DEF RunInv, Types
  <1>2. pc \in [Names -> PCs] /\ pc[n] \in PCs /\ pc[n] # "idle"
    BY <1>1 DEF Running, GoTypes
  <1>3. pc' \in [Names -> PCs] /\ pc'[n] # "idle"
    BY <1>2
  <1>4. Started /\ Started'
    BY <1>2, <1>3 DEF Started
  <1>5. main = "hop"
    BY <1>1, <1>2 DEF HopFacts, AllJoined, Running
  <1>6. UNCHANGED <<main, stage>> /\ main # "end"
    BY <1>5 DEF jobVars
  <1>7. CapFacts' /\ RowFacts' /\ SkipFacts'
    BY <1>4, <1>6, AccountsKept
  <1>8. HopFacts'
    BY <1>1, <1>5, <1>6 DEF HopFacts
  <1>9. FlagTypes' /\ HopTypes' /\ LoopTypes' /\ GoTypes'
    <2>1. FlagTypes'
      BY <1>1 DEF FlagTypes, jobVars
    <2>2. HopTypes' /\ LoopTypes' /\ GoTypes'
      BY <1>1, <1>3 DEF HopTypes, LoopTypes, GoTypes
    <2> QED
      BY <2>1, <2>2
  <1>10. CapTypes'
    <2>1. CASE Quiet
      BY <1>1, <2>1 DEF CapTypes, Quiet
    <2>2. CASE Takes
      <3>1. assetCount' = assetCount + 1 /\ UNCHANGED <<capHit, skipped>>
        BY <2>2 DEF Takes, Reserve
      <3> QED
        BY <1>1, <3>1 DEF CapTypes
    <2>3. CASE Trips
      <3>1. assetCount' = assetCount /\ capHit' = TRUE /\ skipped' = TRUE
        BY <2>3 DEF Trips, ReserveFails
      <3> QED
        BY <1>1, <3>1 DEF CapTypes
    <2> QED
      BY <2>1, <2>2, <2>3
  <1> QED
    BY <1>7, <1>8, <1>9, <1>10 DEF RunInv, Types

\* One more row, of a kind the schema has.
LEMMA RunRowAdded ==
    ASSUME RunRowTypes, NEW r, r[1] \in Kinds, rows' = rows \/ rows' = rows \cup {r}
    PROVE  RunRowTypes' /\ Counted(rows') \subseteq Counted(rows) \cup {r}
  BY DEF RunRowTypes, Counted

\* What the parts of the invariant say of a running goroutine.
LEMMA GoParts ==
    ASSUME RunInv
    PROVE  /\ pc \in [Names -> PCs] /\ todoSubs \in [Names -> SUBSET Names]
           /\ todoIPs \in [Names -> SUBSET IPs] /\ todoPorts \in [Names -> SUBSET Ports]
           /\ at \in [Names -> IPs] /\ next \subseteq Names
           /\ visitedHost \subseteq Names /\ visitedIP \subseteq IPs
           /\ RunRowTypes /\ WorkTypes /\ WorkFacts
  BY DEF RunInv, Types, GoTypes, LoopTypes, SeenTypes

\* Quiet steps that create no row at all.
LEMMA SameRowsAreQuiet ==
    ASSUME UNCHANGED <<assetCount, capHit, skipped, rows>>
    PROVE  Quiet
  BY DEF Quiet, Counted

LEMMA AddressStep ==
    ASSUME RunInv, NEW n \in Names, Running(n), NEW ports \in {"selfports", "subports"},
           AddressLoop(n, ports), UNCHANGED <<jobVars, hop, frontier, todoSubs>>
    PROVE  RunInv'
  <1> PICK ip \in todoIPs[n] :
        \/ /\ Host(n, ip)
           /\ todoIPs' = [todoIPs EXCEPT ![n] = @ \ {ip}]
           /\ GoTo(n, ports)
        \/ /\ ~capHit /\ ip \in visitedIP
           /\ todoIPs' = [todoIPs EXCEPT ![n] = @ \ {ip}]
           /\ UNCHANGED <<pc, next, at, todoPorts, runState, rows, worked, skipped>>
        \/ /\ ReserveFails /\ (capHit \/ ip \notin visitedIP)
           /\ skipped' = TRUE
           /\ visitedIP' = IF capHit THEN visitedIP ELSE visitedIP \cup {ip}
           /\ todoIPs' = [todoIPs EXCEPT ![n] = {}]
           /\ UNCHANGED <<pc, next, at, todoPorts, visitedHost, rows, worked>>
    BY DEF AddressLoop
  <1>1. /\ pc \in [Names -> PCs] /\ todoSubs \in [Names -> SUBSET Names]
        /\ todoIPs \in [Names -> SUBSET IPs] /\ todoPorts \in [Names -> SUBSET Ports]
        /\ at \in [Names -> IPs] /\ next \subseteq Names
        /\ visitedHost \subseteq Names /\ visitedIP \subseteq IPs
        /\ RunRowTypes /\ WorkTypes /\ WorkFacts
    BY GoParts
  <1>2. ip \in IPs
    BY <1>1
  <1>3. ports \in PCs \ {"idle"}
    BY DEF PCs
  <1>4. todoSubs' \in [Names -> SUBSET Names]
    BY <1>1
  <1>5. CASE Host(n, ip) /\ todoIPs' = [todoIPs EXCEPT ![n] = @ \ {ip}] /\ GoTo(n, ports)
    <2>1. /\ ip \notin visitedIP /\ CanReserve /\ Reserve
          /\ visitedIP' = visitedIP \cup {ip} /\ UNCHANGED visitedHost
          /\ rows' = rows \cup {<<"host", ip>>}
          /\ worked' = [worked EXCEPT ![ip] = @ + 1]
          /\ \E ptr \in SUBSET PtrNames : next' = next \cup ptr
          /\ at' = [at EXCEPT ![n] = ip]
          /\ \E open \in SUBSET Ports : todoPorts' = [todoPorts EXCEPT ![n] = open]
          /\ UNCHANGED skipped
          /\ pc' = [pc EXCEPT ![n] = ports]
      BY <1>5 DEF Host, GoTo, Create
    <2>2. next' \subseteq Names
      BY <1>1, <2>1, ConstantSets
    <2>3. SeenTypes'
      BY <1>1, <1>2, <2>1 DEF SeenTypes
    <2>4. RunRowTypes' /\ Takes
      <3> DEFINE r == <<"host", ip>>
      <3>1. r[1] \in Kinds
        BY DEF Kinds
      <3> HIDE DEF r
      <3>2. rows' = rows \cup {r}
        BY <2>1 DEF r
      <3>3. RunRowTypes' /\ Counted(rows') \subseteq Counted(rows) \cup {r}
        BY <1>1, <3>1, <3>2, RunRowAdded
      <3> QED
        BY <2>1, <3>3 DEF Takes
    <2>5. todoIPs' \in [Names -> SUBSET IPs]
      BY <1>1, <1>5
    <2>6. todoPorts' \in [Names -> SUBSET Ports]
      BY <1>1, <2>1
    <2>7. at' \in [Names -> IPs]
      BY <1>1, <1>2, <2>1
    <2>8. worked \in [IPs -> Nat] /\ worked[ip] = 0
      BY <1>1, <1>2, <2>1 DEF WorkTypes, WorkFacts
    <2>9. worked' = [worked EXCEPT ![ip] = 1]
      BY <2>1, <2>8
    <2>10. WorkTypes'
      BY <2>8, <2>9 DEF WorkTypes
    <2>11. WorkFacts'
      BY <1>1, <1>2, <2>1, <2>8, <2>9 DEF WorkFacts
    <2> QED
      BY <1>3, <1>4, <2>1, <2>2, <2>3, <2>4, <2>5, <2>6, <2>7, <2>10, <2>11, GoKeeps
  <1>6. CASE /\ todoIPs' = [todoIPs EXCEPT ![n] = @ \ {ip}]
             /\ UNCHANGED <<pc, next, at, todoPorts, runState, rows, worked, skipped>>
    <2>1. SeenTypes' /\ RunRowTypes' /\ WorkTypes' /\ WorkFacts'
      BY <1>1, <1>6 DEF SeenTypes, RunRowTypes, WorkTypes, WorkFacts, runState
    <2>2. Quiet
      BY <1>6, SameRowsAreQuiet DEF runState
    <2>3. todoIPs' \in [Names -> SUBSET IPs]
      BY <1>1, <1>6
    <2> QED
      BY <1>1, <1>3, <1>4, <1>6, <2>1, <2>2, <2>3, GoKeeps
  <1>7. CASE /\ ReserveFails /\ (capHit \/ ip \notin visitedIP)
             /\ skipped' = TRUE
             /\ visitedIP' = IF capHit THEN visitedIP ELSE visitedIP \cup {ip}
             /\ todoIPs' = [todoIPs EXCEPT ![n] = {}]
             /\ UNCHANGED <<pc, next, at, todoPorts, visitedHost, rows, worked>>
    <2>1. visitedIP' \subseteq IPs /\ visitedIP \subseteq visitedIP'
      BY <1>1, <1>2, <1>7
    <2>2. SeenTypes' /\ RunRowTypes' /\ WorkTypes' /\ WorkFacts'
      BY <1>1, <1>7, <2>1 DEF SeenTypes, RunRowTypes, WorkTypes, WorkFacts
    <2>3. Trips
      BY <1>7 DEF Trips
    <2>4. todoIPs' \in [Names -> SUBSET IPs]
      BY <1>1, <1>7
    <2> QED
      BY <1>1, <1>3, <1>4, <1>7, <2>2, <2>3, <2>4, GoKeeps
  <1> QED
    BY <1>5, <1>6, <1>7

\* Ports of an address: a slot each, which a certificate row shares.
LEMMA PortStep ==
    ASSUME RunInv, NEW n \in Names, Running(n), NEW label \in {"self", "subips"},
           \/ PortLoop(n) /\ UNCHANGED pc
           \/ /\ todoPorts[n] = {} /\ GoTo(n, label)
              /\ UNCHANGED <<todoPorts, assetCount, capHit, rows, skipped>>,
           UNCHANGED <<jobVars, loopVars, todoSubs, todoIPs, at, visitedHost, visitedIP, worked>>
    PROVE  RunInv'
  <1>1. /\ pc \in [Names -> PCs] /\ todoPorts \in [Names -> SUBSET Ports]
        /\ visitedHost \subseteq Names /\ visitedIP \subseteq IPs
        /\ RunRowTypes /\ WorkTypes /\ WorkFacts
    BY GoParts
  <1>2. label \in PCs \ {"idle"}
    BY DEF PCs
  <1>3. /\ UNCHANGED <<jobVars, hop, frontier>> /\ next' \subseteq Names
        /\ todoSubs' \in [Names -> SUBSET Names] /\ todoIPs' \in [Names -> SUBSET IPs]
        /\ at' \in [Names -> IPs]
    BY GoParts DEF loopVars
  <1>4. SeenTypes' /\ WorkTypes' /\ WorkFacts'
    BY <1>1 DEF SeenTypes, WorkTypes, WorkFacts
  <1>5. CASE PortLoop(n) /\ UNCHANGED pc
    <2> PICK port \in todoPorts[n] :
          \/ /\ CanReserve /\ Reserve
             /\ \E found \in {{<<"service", at[n], port>>},
                              {<<"service", at[n], port>>, <<"portcert", at[n], port>>}} :
                  rows' = rows \cup found
             /\ todoPorts' = [todoPorts EXCEPT ![n] = @ \ {port}]
             /\ UNCHANGED skipped
          \/ /\ ReserveFails
             /\ skipped' = TRUE
             /\ todoPorts' = [todoPorts EXCEPT ![n] = {}]
             /\ UNCHANGED rows
      BY <1>5 DEF PortLoop
    <2> DEFINE x == <<"service", at[n], port>>
               y == <<"portcert", at[n], port>>
    <2>1. CASE /\ CanReserve /\ Reserve /\ UNCHANGED skipped
               /\ rows' = rows \cup {x} \/ rows' = rows \cup {x, y}
               /\ todoPorts' = [todoPorts EXCEPT ![n] = @ \ {port}]
      <3>1. x[1] = "service" /\ y[1] = "portcert"
        OBVIOUS
      <3> HIDE DEF x, y
      <3>2. RunRowTypes'
        BY <1>1, <2>1, <3>1 DEF RunRowTypes, Kinds
      <3>3. Counted(rows') \subseteq Counted(rows) \cup {x}
        BY <2>1, <3>1 DEF Counted
      <3>4. Takes
        BY <2>1, <3>3 DEF Takes
      <3>5. todoPorts' \in [Names -> SUBSET Ports]
        BY <1>1, <2>1
      <3> QED
        BY <1>2, <1>3, <1>4, <1>5, <3>2, <3>4, <3>5, GoKeeps
    <2>2. CASE /\ ReserveFails /\ skipped' = TRUE /\ UNCHANGED rows
               /\ todoPorts' = [todoPorts EXCEPT ![n] = {}]
      <3>1. RunRowTypes'
        BY <1>1, <2>2 DEF RunRowTypes
      <3>2. Trips
        BY <2>2 DEF Trips
      <3>3. todoPorts' \in [Names -> SUBSET Ports]
        BY <1>1, <2>2
      <3> QED
        BY <1>2, <1>3, <1>4, <1>5, <3>1, <3>2, <3>3, GoKeeps
    <2> QED
      BY <2>1, <2>2
  <1>6. CASE /\ GoTo(n, label)
             /\ UNCHANGED <<todoPorts, assetCount, capHit, rows, skipped>>
    <2>1. pc' = [pc EXCEPT ![n] = label]
      BY <1>6 DEF GoTo
    <2>2. RunRowTypes' /\ todoPorts' \in [Names -> SUBSET Ports]
      BY <1>1, <1>6 DEF RunRowTypes
    <2>3. Quiet
      BY <1>6, SameRowsAreQuiet
    <2> QED
      BY <1>2, <1>3, <1>4, <2>1, <2>2, <2>3, GoKeeps
  <1> QED
    BY <1>5, <1>6

\* The other turns of a goroutine that take no slot.
LEMMA TurnRunInv ==
    ASSUME RunInv, NEW n \in Names, Running(n), NEW label \in {"self", "subs"},
           pc' = [pc EXCEPT ![n] = label],
           rows' = rows \/ rows' = rows \cup {Dom},
           todoIPs' \in [Names -> SUBSET IPs], todoSubs' \in [Names -> SUBSET Names],
           UNCHANGED <<jobVars, loopVars, todoPorts, at, runState, worked, skipped>>
    PROVE  RunInv'
  <1>1. label \in PCs \ {"idle"}
    BY DEF PCs
  <1>2. /\ UNCHANGED <<jobVars, hop, frontier>> /\ next' \subseteq Names
        /\ todoPorts' \in [Names -> SUBSET Ports] /\ at' \in [Names -> IPs]
    BY GoParts DEF loopVars
  <1>3. SeenTypes' /\ WorkTypes' /\ WorkFacts'
    BY GoParts DEF SeenTypes, WorkTypes, WorkFacts, runState
  <1>4. Dom[1] \in Kinds
    BY DEF Dom, Kinds
  <1>5. RunRowTypes' /\ Counted(rows') \subseteq Counted(rows) \cup {Dom}
    BY <1>4, GoParts, RunRowAdded
  <1>6. Quiet
    BY <1>5 DEF Quiet, runState
  <1> QED
    BY <1>1, <1>2, <1>3, <1>5, <1>6, GoKeeps

LEMMA SubRunInv ==
    ASSUME RunInv, NEW n \in Names, Running(n), Sub(n)
    PROVE  RunInv'
  <1>1. /\ todoSubs \in [Names -> SUBSET Names] /\ todoIPs \in [Names -> SUBSET IPs]
        /\ todoPorts \in [Names -> SUBSET Ports] /\ at \in [Names -> IPs]
        /\ next \subseteq Names /\ visitedHost \subseteq Names /\ visitedIP \subseteq IPs
        /\ RunRowTypes /\ WorkTypes /\ WorkFacts
    BY GoParts
  <1>2. UNCHANGED <<jobVars, hop, frontier, todoPorts, at, worked>>
    BY DEF Sub
  <1> PICK m \in todoSubs[n] :
        \/ /\ CanReserve /\ Reserve
           /\ todoSubs' = [todoSubs EXCEPT ![n] = @ \ {m}]
           /\ Create(<<"subdomain", m>>)
           /\ visitedHost' = visitedHost \cup {m}
           /\ next' = IF m \in visitedHost THEN next ELSE next \cup {m}
           /\ \E ips \in SUBSET IPs : todoIPs' = [todoIPs EXCEPT ![n] = ips]
           /\ GoTo(n, "subips")
           /\ UNCHANGED <<visitedIP, skipped>>
        \/ /\ ReserveFails
           /\ skipped' = TRUE
           /\ todoSubs' = [todoSubs EXCEPT ![n] = {}]
           /\ UNCHANGED <<todoIPs, next, pc, visitedHost, visitedIP, rows>>
    BY DEF Sub
  <1>3. m \in Names
    BY <1>1
  <1>4. "subips" \in PCs \ {"idle"}
    BY DEF PCs
  <1>5. CASE /\ CanReserve /\ Reserve
             /\ todoSubs' = [todoSubs EXCEPT ![n] = @ \ {m}]
             /\ Create(<<"subdomain", m>>)
             /\ visitedHost' = visitedHost \cup {m}
             /\ next' = IF m \in visitedHost THEN next ELSE next \cup {m}
             /\ \E ips \in SUBSET IPs : todoIPs' = [todoIPs EXCEPT ![n] = ips]
             /\ GoTo(n, "subips")
             /\ UNCHANGED <<visitedIP, skipped>>
    <2>1. pc' = [pc EXCEPT ![n] = "subips"]
      BY <1>5 DEF GoTo
    <2>2. RunRowTypes' /\ Takes
      <3> DEFINE r == <<"subdomain", m>>
      <3>1. r[1] \in Kinds
        BY DEF Kinds
      <3> HIDE DEF r
      <3>2. rows' = rows \cup {r}
        BY <1>5 DEF r, Create
      <3>3. RunRowTypes' /\ Counted(rows') \subseteq Counted(rows) \cup {r}
        BY <1>1, <3>1, <3>2, RunRowAdded
      <3> QED
        BY <1>5, <3>3 DEF Takes
    <2>3. next' \subseteq Names /\ SeenTypes'
      BY <1>1, <1>3, <1>5 DEF SeenTypes
    <2>4. todoIPs' \in [Names -> SUBSET IPs]
      BY <1>1, <1>5
    <2>5. todoSubs' \in [Names -> SUBSET Names]
      BY <1>1, <1>5
    <2>6. WorkTypes' /\ WorkFacts'
      BY <1>1, <1>2, <1>5 DEF WorkTypes, WorkFacts
    <2>7. todoPorts' \in [Names -> SUBSET Ports] /\ at' \in [Names -> IPs]
      BY <1>1, <1>2
    <2> QED
      BY <1>2, <1>4, <2>1, <2>2, <2>3, <2>4, <2>5, <2>6, <2>7, GoKeeps
  <1>6. CASE /\ ReserveFails /\ skipped' = TRUE
             /\ todoSubs' = [todoSubs EXCEPT ![n] = {}]
             /\ UNCHANGED <<todoIPs, next, pc, visitedHost, visitedIP, rows>>
    <2>1. RunRowTypes' /\ SeenTypes' /\ WorkTypes' /\ WorkFacts'
      BY <1>1, <1>2, <1>6 DEF RunRowTypes, SeenTypes, WorkTypes, WorkFacts
    <2>2. Trips
      BY <1>6 DEF Trips
    <2>3. todoSubs' \in [Names -> SUBSET Names]
      BY <1>1, <1>6
    <2>4. /\ todoIPs' \in [Names -> SUBSET IPs] /\ next' \subseteq Names
          /\ todoPorts' \in [Names -> SUBSET Ports] /\ at' \in [Names -> IPs]
      BY <1>1, <1>2, <1>6
    <2> QED
      BY <1>2, <1>4, <1>6, <2>1, <2>2, <2>3, <2>4, GoKeeps
  <1> QED
    BY <1>5, <1>6

LEMMA ApexCertRunInv ==
    ASSUME RunInv, NEW n \in Names, Running(n), ApexCert(n)
    PROVE  RunInv'
  <1>1. /\ pc' = [pc EXCEPT ![n] = "done"] /\ "done" \in PCs \ {"idle"}
        /\ UNCHANGED <<jobVars, loopVars, todoSubs, todoIPs, todoPorts, at, visitedHost,
                       visitedIP, worked>>
    BY DEF ApexCert, GoTo, PCs
  <1>2. /\ UNCHANGED <<jobVars, hop, frontier>> /\ next' \subseteq Names
        /\ todoSubs' \in [Names -> SUBSET Names] /\ todoIPs' \in [Names -> SUBSET IPs]
        /\ todoPorts' \in [Names -> SUBSET Ports] /\ at' \in [Names -> IPs]
    BY <1>1, GoParts DEF loopVars
  <1>3. SeenTypes' /\ WorkTypes' /\ WorkFacts'
    BY <1>1, GoParts DEF SeenTypes, WorkTypes, WorkFacts
  <1>4. CASE /\ CanReserve /\ Reserve /\ rows' \in {rows, rows \cup {<<"cert", n>>}}
             /\ UNCHANGED skipped
    <2> DEFINE r == <<"cert", n>>
    <2>1. r[1] \in Kinds
      BY DEF Kinds
    <2> HIDE DEF r
    <2>2. rows' = rows \/ rows' = rows \cup {r}
      BY <1>4 DEF r
    <2>3. RunRowTypes' /\ Counted(rows') \subseteq Counted(rows) \cup {r}
      BY <2>1, <2>2, GoParts, RunRowAdded
    <2>4. Takes
      BY <1>4, <2>3 DEF Takes
    <2> QED
      BY <1>1, <1>2, <1>3, <2>3, <2>4, GoKeeps
  <1>5. CASE ReserveFails /\ skipped' = TRUE /\ UNCHANGED rows
    <2>1. RunRowTypes'
      BY <1>5, GoParts DEF RunRowTypes
    <2>2. Trips
      BY <1>5 DEF Trips
    <2> QED
      BY <1>1, <1>2, <1>3, <2>1, <2>2, GoKeeps
  <1> QED
    BY <1>4, <1>5 DEF ApexCert

LEMMA GoStepRunInv ==
    ASSUME RunInv, NEW n \in Names, GoStep(n)
    PROVE  RunInv'
  <1>1. Running(n)
    BY DEF GoStep, Running, RootRow, Self, SelfPorts, Find, Sub, SubIPs, SubPorts, ApexCert
  <1>2. CASE RootRow(n)
    <2>1. /\ pc' = [pc EXCEPT ![n] = "self"] /\ rows' = rows \cup {Dom}
          /\ \E ips \in SUBSET IPs : todoIPs' = [todoIPs EXCEPT ![n] = ips]
          /\ UNCHANGED <<jobVars, loopVars, todoSubs, todoPorts, at, runState, worked, skipped>>
      BY <1>2 DEF RootRow, GoTo, Create, Dom
    <2>2. todoIPs' \in [Names -> SUBSET IPs] /\ todoSubs' \in [Names -> SUBSET Names]
      BY <2>1, GoParts
    <2> QED
      BY <1>1, <2>1, <2>2, TurnRunInv
  <1>3. CASE Find(n)
    <2>1. /\ pc' = [pc EXCEPT ![n] = "subs"]
          /\ \E found \in SUBSET (SubNames \ {Root}) : todoSubs' = [todoSubs EXCEPT ![n] = found]
          /\ UNCHANGED <<jobVars, loopVars, todoIPs, todoPorts, at, runState, rows, worked, skipped>>
      BY <1>3 DEF Find, GoTo
    <2>2. todoIPs' \in [Names -> SUBSET IPs] /\ todoSubs' \in [Names -> SUBSET Names]
      BY <2>1, GoParts, ConstantSets
    <2> QED
      BY <1>1, <2>1, <2>2, TurnRunInv
  <1>4. CASE Self(n)
    BY <1>1, <1>4, AddressStep DEF Self
  <1>5. CASE SelfPorts(n)
    BY <1>1, <1>5, PortStep DEF SelfPorts
  <1>6. CASE SubPorts(n)
    BY <1>1, <1>6, PortStep DEF SubPorts
  <1>7. CASE SubIPs(n)
    <2>1. CASE AddressLoop(n, "subports")
      BY <1>1, <1>7, <2>1, AddressStep DEF SubIPs
    <2>2. CASE /\ GoTo(n, "subs")
               /\ UNCHANGED <<todoIPs, next, at, todoPorts, runState, rows, worked, skipped>>
      <3>1. /\ pc' = [pc EXCEPT ![n] = "subs"]
            /\ UNCHANGED <<jobVars, loopVars, todoSubs>>
        BY <1>7, <2>2 DEF SubIPs, GoTo, loopVars
      <3>2. todoIPs' \in [Names -> SUBSET IPs] /\ todoSubs' \in [Names -> SUBSET Names]
        BY <2>2, <3>1, GoParts
      <3> QED
        BY <1>1, <2>2, <3>1, <3>2, TurnRunInv
    <2> QED
      BY <1>7, <2>1, <2>2 DEF SubIPs
  <1> QED
    BY <1>1, <1>2, <1>3, <1>4, <1>5, <1>6, <1>7, SubRunInv, ApexCertRunInv DEF GoStep

-----------------------------------------------------------------------------
LEMMA StepRunInv == RunInv /\ [Next]_vars => RunInv'
  <1> SUFFICES ASSUME RunInv, [Next]_vars PROVE RunInv'
    OBVIOUS
  <1>1. CASE UNCHANGED vars
    <2>a. UNCHANGED <<jobVars, loopVars, runState, rows, worked, skipped>>
      BY <1>1 DEF vars
    <2>b. GoTypes'
      BY <1>1 DEF RunInv, Types, GoTypes, vars, goVars
    <2>1. Types'
      BY <2>a, <2>b, TypesStay DEF RunInv, Types
    <2>2. CapFacts' /\ WorkFacts' /\ SkipFacts'
      BY <1>1 DEF RunInv, CapFacts, WorkFacts, SkipFacts, vars, jobVars, runState
    <2>3. RowFacts'
      BY <1>1 DEF RunInv, RowFacts, Started, Counted, vars, goVars, runState
    <2>4. HopFacts'
      BY <1>1 DEF RunInv, HopFacts, AllJoined, vars, jobVars, loopVars, goVars
    <2> QED
      BY <2>1, <2>2, <2>3, <2>4 DEF RunInv
  <1>2. ASSUME NEW n \in Names, Spawn(n) \/ GoStep(n) PROVE RunInv'
    BY <1>2, SpawnRunInv, GoStepRunInv
  <1> QED
    BY <1>1, <1>2, JobRunInv, DispatchRunInv, HopEndsRunInv DEF Next

\* The invariant the theorems below rest on: types, the accounts of the cap and of the rows,
\* what was worked, what was skipped, and when goroutines run.
THEOREM RunInductive == Spec => []RunInv
  BY InitRunInv, StepRunInv, PTL DEF Spec

\* The variables of a run keep their types; in particular hop passes the depth by one at most.
THEOREM RunTypes == Spec => []TypeOK
  <1>1. RunInv => TypeOK
    BY TypesAreTypeOK DEF RunInv
  <1> QED
    BY <1>1, RunInductive, PTL

\* StaysInBounds: however many goroutines reserve, the cap holds and every row but the port
\* certificates has a slot; no address is worked twice; and the run says "capped" exactly when
\* it left something out.
THEOREM BoundsHold == Spec => []StaysInBounds
  <1>1. RunInv => StaysInBounds
    <2> SUFFICES ASSUME RunInv PROVE StaysInBounds
      OBVIOUS
    <2>1. CapHolds
      BY RowsAreCovered DEF RunInv, CapHolds, CapFacts, Counted
    <2>2. WorkedOnce
      BY DEF RunInv, WorkFacts, WorkedOnce
    <2>3. NoSilentTruncation
      BY DEF RunInv, SkipFacts, NoSilentTruncation
    <2> QED
      BY <2>1, <2>2, <2>3 DEF StaysInBounds
  <1> QED
    BY <1>1, RunInductive, PTL

-----------------------------------------------------------------------------
(* The dispatchers of what recurs. *)
\* What a goroutine has read and not finished with.
Hand(t) == tick[t].todo \union ({tick[t].cur} \ {None})
\* The entry a row was made for.
EntryOf(k) == [src |-> jobs[k].src, due |-> jobs[k].due]
\* Some goroutine is between the insert for e and its touch.
InFlight(e) == \E t \in Ticks : tick[t].cur = e

(***************************************************************************)
(* The inductive invariant.                                                *)
(***************************************************************************)
\* Where a goroutine is.
Placed(t) ==
    /\ tick[t].pc \in {"idle", "read", "next"} => tick[t].cur = None
    /\ tick[t].pc \in {"send", "touch"} => tick[t].cur \in Entries /\ tick[t].job \in DOMAIN jobs
    /\ tick[t].pc = "touch" => kind # "discovery"
    /\ tick[t].now <= now
    /\ tick[t].pc = "send" =>
          jobs[tick[t].job].status = "pending" /\ jobs[tick[t].job].work = "none"

\* A job that is still to be sent is known to one goroutine only, and no
\* worker has it.
TicksAreAt ==
    /\ \A t \in Ticks : Placed(t)
    /\ \A t \in Ticks : \A u \in Ticks \ {t} :
          tick[t].pc = "send" /\ tick[u].pc = "send" => tick[t].job # tick[u].job

\* No entry at hand is due after its goroutine's now; its source is there, and
\* that of a discovery stands as it was.
HandsAreDue ==
    \A t \in Ticks : \A e \in Hand(t) :
       /\ e.due <= tick[t].now
       /\ IF kind = "domain" THEN e.src = Domain ELSE e.src \in DOMAIN jobs
       /\ kind = "discovery" => jobs[e.src].status = "completed"
                                /\ e.due = jobs[e.src].at + Period

\* Rows were made for entries that were due; those of a discovery are in the
\* order of their source, and younger.
RowsAreMade ==
    \A k \in DOMAIN jobs :
       /\ jobs[k].due <= now
       /\ kind = "discovery" /\ jobs[k].status = "completed" => jobs[k].work = "none"
       /\ jobs[k].src # None =>
             /\ IF kind = "domain" THEN jobs[k].src = Domain ELSE jobs[k].src \in DOMAIN jobs
             /\ kind = "discovery" =>
                   /\ jobs[jobs[k].src].status = "completed"
                   /\ jobs[k].order = jobs[jobs[k].src].order
                   /\ jobs[k].due = jobs[jobs[k].src].at + Period
                   /\ jobs[k].at >= jobs[k].due

\* The occurrence a row was made for is behind its source, or the touch that
\* is to put it there is on its way.
PassedBy ==
    \A k \in DOMAIN jobs : jobs[k].src # None =>
       \/ EntryOf(k) \in excused \/ InFlight(EntryOf(k))
       \/ kind = "scan" /\ jobs[k].due < After(jobs[jobs[k].src].at)
       \/ kind = "domain" /\ jobs[k].due # After(Base(domain))
       \/ kind = "discovery"

\* A touch puts behind it every row that has been made of its source meanwhile.
TouchWillPass ==
    \A t \in Ticks : \A e \in Hand(t) : \A k \in DOMAIN jobs :
       jobs[k].src = e.src => jobs[k].due <= tick[t].now \/ EntryOf(k) \in excused

\* A scan's source has not gone back behind an entry somebody has at hand.
SourceWaits ==
    kind = "scan" =>
       \A t \in Ticks : \A e \in Hand(t) : e \notin excused => e.due <= After(jobs[e.src].at)

\* Of two goroutines at one source the one that came second knows.
Overlaps ==
    \A t \in Ticks : \A u \in Ticks \ {t} : \A e \in Hand(t) : \A f \in Hand(u) :
       e.src = f.src => f \in excused \/ (e # f /\ f.due <= tick[t].now)

\* What is still to do has no row, and an entry has one row.
NotYetMade == \A t \in Ticks : \A e \in tick[t].todo : Made(e) = {} \/ e \in excused
MadeOnce ==
    \A i, j \in DOMAIN jobs :
       jobs[i].src # None /\ EntryOf(i) = EntryOf(j) => i = j \/ EntryOf(i) \in excused

IInv == /\ RecurrenceTypeOK /\ TicksAreAt /\ HandsAreDue /\ RowsAreMade /\ PassedBy /\ TouchWillPass
        /\ SourceWaits /\ Overlaps /\ NotYetMade /\ MadeOnce
-----------------------------------------------------------------------------
(***************************************************************************)
(* The operators of the model.                                             *)
(***************************************************************************)
\* The next occurrence of a cron expression lies ahead, by a period at most.
LEMMA AfterIsAhead ==
    ASSUME RecurrenceAssumption, NEW s \in Nat
    PROVE  After(s) \in Nat /\ s < After(s) /\ After(s) <= s + Period
<1> DEFINE q == s \div Period
           r == s % Period
<1>0. Period \in Nat /\ Period > 0 BY DEF RecurrenceAssumption
<1>1. q \in Nat /\ r \in 0..(Period - 1) /\ s = Period * q + r BY <1>0
<1> HIDE DEF q, r
<1>2. After(s) = (q + 1) * Period BY DEF After, q
<1>3. (q + 1) * Period = Period * q + Period BY <1>0, <1>1
<1>4. Period * q \in Nat BY <1>0, <1>1
<1> QED BY <1>0, <1>1, <1>2, <1>3, <1>4

\* Min and Max are members: a set of numbers has a least one, and a bounded
\* one a greatest.
LEMMA MinIsMember ==
    ASSUME NEW S \in SUBSET Nat, S # {} PROVE Min(S) \in S
<1>1. \E x \in S : \A y \in S : ~ (<<y, x>> \in OpToRel(<, Nat))
   BY NatLessThanWellFounded, WFMin
<1>2. PICK x \in S : \A y \in S : ~ (<<y, x>> \in OpToRel(<, Nat)) BY <1>1
<1>3. ASSUME NEW y \in S, y < x PROVE FALSE
   <2>1. <<y, x>> \in OpToRel(<, Nat) BY <1>3 DEF OpToRel
   <2> QED BY <1>2, <2>1
<1>4. \A y \in S : x <= y BY <1>3
<1> QED BY <1>4 DEF Min

LEMMA MaxIsMember ==
    ASSUME NEW n \in Nat, NEW S \in SUBSET (1..n), S # {} PROVE Max(S) \in S
<1> DEFINE T == {n - x : x \in S}
<1>0. \A x \in S : x \in 1..n OBVIOUS
<1>a. \A x \in S : n - x \in Nat BY <1>0
<1>b. T \subseteq Nat BY <1>a
<1>c. T # {}
   <2>1. PICK x \in S : TRUE OBVIOUS
   <2>2. n - x \in T BY <2>1
   <2> QED BY <2>2
<1>1. T \in SUBSET Nat /\ T # {} BY <1>b, <1>c
<1>2. PICK m \in T : \A y \in T : ~ (<<y, m>> \in OpToRel(<, Nat))
   BY <1>1, NatLessThanWellFounded, WFMin
<1>3. PICK x \in S : m = n - x OBVIOUS
<1>4. \A y \in S : n - y \in T OBVIOUS
<1>5. \A y \in S : ~ (n - y < n - x) BY <1>1, <1>2, <1>3, <1>4 DEF OpToRel
<1>6. ASSUME NEW y \in S PROVE x >= y
   <2>1. x \in Int /\ y \in Int /\ n \in Int BY <1>0
   <2>2. ~ (n - y < n - x) BY <1>5
   <2> QED BY <2>1, <2>2
<1> QED BY <1>6 DEF Max

-----------------------------------------------------------------------------
(***************************************************************************)
(* Types.                                                                  *)
(***************************************************************************)
TickRows == [pc : {"idle", "read", "next", "send", "touch"}, now : 0..Horizon,
             todo : SUBSET Entries, cur : Entries \union {None}, job : (1..MaxRows) \union {None}]

\* What the constants are.
LEMMA ConstantsAre ==
    ASSUME RecurrenceAssumption
    PROVE  /\ Horizon \in Nat /\ MaxRows \in Nat /\ MaxFaults \in Nat /\ MaxEdits \in Nat
           /\ MaxRows >= 1 /\ Period \in Nat /\ Period > 0 /\ Orders \subseteq Nat /\ Min(Orders) \in Orders
           /\ None \notin Nat /\ None \notin Entries
           /\ Dispatchers \subseteq {"scan", "domain", "discovery"}
<1>1. Entries \subseteq [src : Nat, due : Nat] BY DEF RecurrenceAssumption, Entries, Sources
<1>2. Orders \in SUBSET Nat /\ Orders # {} BY DEF RecurrenceAssumption
<1>3. Min(Orders) \in Orders BY <1>2, MinIsMember
<1> QED BY <1>1, <1>3 DEF RecurrenceAssumption

\* The parts of the type invariant.
RowTypes == jobs \in Seq(Rows) /\ Len(jobs) <= MaxRows
TickTypes == tick \in [Ticks -> TickRows]
DomainTypes == domain \in DomainRows /\ editor \in DomainRows \union {None}
CountTypes ==
    /\ kind \in Dispatchers /\ now \in 0..Horizon
    /\ faults \in 0..MaxFaults /\ edits \in 0..MaxEdits

LEMMA TypesAre ==
    RecurrenceTypeOK <=> RowTypes /\ TickTypes /\ DomainTypes /\ CountTypes /\ excused \subseteq Entries
BY DEF RecurrenceTypeOK, RowTypes, TickTypes, DomainTypes, CountTypes, TickRows

LEMMA TypesAreNext ==
    RecurrenceTypeOK' <=> (RowTypes /\ TickTypes /\ DomainTypes /\ CountTypes /\ excused \subseteq Entries)'
BY DEF RecurrenceTypeOK, RowTypes, TickTypes, DomainTypes, CountTypes, TickRows

\* A row, of a history in which the rows are typed.
LEMMA RowIs ==
    ASSUME RecurrenceAssumption, RowTypes, NEW k \in DOMAIN jobs
    PROVE  /\ jobs[k] \in Rows /\ k \in Nat /\ k >= 1 /\ k <= Len(jobs) /\ k \in 1..MaxRows
           /\ jobs[k].at \in 0..Horizon /\ jobs[k].due \in 0..(Horizon + Period)
           /\ jobs[k].src # None => EntryOf(k) \in Entries
<1>1. jobs[k] \in Rows /\ k \in 1..Len(jobs) /\ Len(jobs) \in Nat /\ MaxRows \in Nat
   BY ConstantsAre DEF RowTypes
<1> QED BY <1>1 DEF RowTypes, Rows, EntryOf, Entries

\* A tick that has gone on to the next entry, or has ended.
LEMMA LoopIs ==
    ASSUME RecurrenceAssumption, NEW m \in 0..Horizon, NEW todo \in SUBSET Entries
    PROVE  /\ Loop(m, todo) \in TickRows
           /\ Loop(m, todo).todo = todo /\ Loop(m, todo).cur = None
           /\ Loop(m, todo).pc \in {"idle", "next"}
           /\ Loop(m, todo).now \in {0, m}
           /\ todo # {} => Loop(m, todo).now = m
<1>0. Horizon \in Nat BY ConstantsAre
<1>1. CASE todo = {}
   <2>1. Loop(m, todo) = [pc |-> "idle", now |-> 0, todo |-> {}, cur |-> None, job |-> None]
      BY <1>1 DEF Loop, Idle
   <2> QED BY <1>0, <1>1, <2>1 DEF TickRows
<1>2. CASE todo # {}
   <2>1. Loop(m, todo) = [pc |-> "next", now |-> m, todo |-> todo, cur |-> None, job |-> None]
      BY <1>2 DEF Loop, Idle
   <2> QED BY <1>0, <1>2, <2>1 DEF TickRows
<1> QED BY <1>1, <1>2

-----------------------------------------------------------------------------
(***************************************************************************)
(* What a dispatcher reads.                                                *)
(***************************************************************************)
\* The youngest discovery is completed, and none of its series completed later.
LEMMA YoungestIs ==
    ASSUME RecurrenceAssumption, RowTypes, NEW i \in Youngest
    PROVE  /\ i \in DOMAIN jobs /\ jobs[i].status = "completed"
           /\ \A j \in DOMAIN jobs :
                 jobs[j].status = "completed" /\ jobs[j].order = jobs[i].order
                    => jobs[i].at >= jobs[j].at
<1> DEFINE done  == WithStatus({"completed"})
           least == {x \in done : \A j \in done : jobs[x].order <= jobs[j].order}
           last  == {x \in least : \A j \in least : jobs[x].at >= jobs[j].at}
<1>1. last # {} /\ i = Max(last) BY DEF Youngest
<1>2. done = {x \in DOMAIN jobs : jobs[x].status = "completed"} BY DEF WithStatus
<1>3. last \in SUBSET (1..Len(jobs)) /\ Len(jobs) \in Nat BY <1>2 DEF RowTypes
<1>4. i \in last BY <1>1, <1>3, MaxIsMember
<1>5. i \in done /\ i \in least /\ \A j \in least : jobs[i].at >= jobs[j].at BY <1>4
<1>6. ASSUME NEW j \in DOMAIN jobs, jobs[j].status = "completed", jobs[j].order = jobs[i].order
      PROVE  j \in least
   BY <1>2, <1>5, <1>6
<1> QED BY <1>2, <1>5, <1>6

\* What is due at m.
LEMMA DueIs ==
    ASSUME RecurrenceAssumption, RecurrenceTypeOK, NEW m \in 0..Horizon, NEW e \in Due(m)
    PROVE  /\ e \in Entries /\ e.due <= m
           /\ kind = "scan" => e.src \in DOMAIN jobs /\ e.due = After(jobs[e.src].at)
           /\ kind = "domain" => e.src = Domain /\ e.due = After(Base(domain))
           /\ kind = "discovery" => e.src \in Youngest /\ e.due = jobs[e.src].at + Period
<1>0. /\ RowTypes /\ domain \in DomainRows /\ kind \in {"scan", "domain", "discovery"}
      /\ Horizon \in Nat /\ MaxRows \in Nat /\ Period \in Nat /\ None \notin Nat
   BY ConstantsAre, TypesAre DEF DomainTypes, CountTypes
<1>1. e.due <= m BY DEF Due
<1>2. CASE kind = "scan"
   <2>1. e \in DueScans BY <1>2 DEF Due
   <2>2. PICK i \in WithStatus(Settled) : e = [src |-> i, due |-> After(jobs[i].at)]
      BY <2>1 DEF DueScans
   <2>3. i \in DOMAIN jobs BY DEF WithStatus
   <2>4. i \in 1..MaxRows /\ jobs[i].at \in Nat BY <1>0, <2>3, RowIs
   <2>5. After(jobs[i].at) \in Nat BY <2>4, AfterIsAhead
   <2>6. e.src = i /\ e.due = After(jobs[i].at) BY <2>2
   <2>7. e \in Entries BY <1>0, <1>1, <2>2, <2>4, <2>5, <2>6 DEF Entries, Sources
   <2> QED BY <1>1, <1>2, <2>3, <2>6, <2>7
<1>3. CASE kind = "domain"
   <2>1. e = [src |-> Domain, due |-> After(Base(domain))] BY <1>3 DEF Due, DueDomains
   <2>2. Base(domain) \in Nat BY <1>0 DEF Base, DomainRows
   <2>3. After(Base(domain)) \in Nat BY <2>2, AfterIsAhead
   <2>4. e.src = Domain /\ e.due = After(Base(domain)) BY <2>1
   <2>5. e \in Entries BY <1>0, <1>1, <2>1, <2>3, <2>4 DEF Entries, Sources, Domain
   <2> QED BY <1>1, <1>3, <2>4, <2>5
<1>4. CASE kind = "discovery"
   <2>1. e \in DueDiscoveries BY <1>4 DEF Due
   <2>2. PICK i \in Youngest : e = [src |-> i, due |-> jobs[i].at + Period]
      BY <2>1 DEF DueDiscoveries
   <2>3. i \in DOMAIN jobs BY <1>0, YoungestIs
   <2>4. i \in 1..MaxRows /\ jobs[i].at \in Nat BY <1>0, <2>3, RowIs
   <2>6. e.src = i /\ e.due = jobs[i].at + Period BY <2>2
   <2>7. e \in Entries BY <1>0, <1>1, <2>2, <2>4, <2>6 DEF Entries, Sources
   <2> QED BY <1>1, <1>4, <2>6, <2>7
<1> QED BY <1>0, <1>2, <1>3, <1>4

-----------------------------------------------------------------------------
(***************************************************************************)
(* What the steps have in common. All but a successful Read leave the      *)
(* goroutines with no more at hand than before; none changes what a row    *)
(* was made for, or a completed discovery.                                 *)
(***************************************************************************)
HandsShrink ==
    \A t \in Ticks :
       /\ tick'[t].todo \subseteq tick[t].todo
       /\ Hand(t)' \subseteq Hand(t)
       /\ Hand(t)' # {} => tick'[t].now = tick[t].now

RowsStand ==
    /\ DOMAIN jobs \subseteq DOMAIN jobs'
    /\ \A k \in DOMAIN jobs :
          /\ jobs'[k].src = jobs[k].src /\ jobs'[k].due = jobs[k].due
          /\ jobs'[k].order = jobs[k].order
          /\ kind = "discovery" /\ jobs[k].status = "completed" =>
                jobs'[k].status = "completed" /\ jobs'[k].at = jobs[k].at

\* Time goes on, and what is excused stays so.
HistoryGrows == kind' = kind /\ now <= now' /\ excused \subseteq excused'

\* An entry that was on its way still is, or is excused.
FlightsGoOn ==
    kind # "discovery" =>
       \A t \in Ticks : tick[t].cur # None =>
          (\E u \in Ticks : tick'[u].cur = tick[t].cur) \/ tick[t].cur \in excused'

\* updated_at of a scan changes to the present time only.
ScansRenewed ==
    kind = "scan" =>
       \A k \in DOMAIN jobs : jobs'[k].at = jobs[k].at \/ jobs'[k].at = now

LEMMA HandsStayDue ==
    ASSUME HandsAreDue, HandsShrink, RowsStand, kind' = kind PROVE HandsAreDue'
<1> SUFFICES ASSUME NEW t \in Ticks, NEW e \in Hand(t)'
             PROVE  /\ e.due <= tick'[t].now
                    /\ IF kind = "domain" THEN e.src = Domain ELSE e.src \in DOMAIN jobs'
                    /\ kind = "discovery" => jobs'[e.src].status = "completed"
                                             /\ e.due = jobs'[e.src].at + Period
   BY DEF HandsAreDue
<1>1. e \in Hand(t) /\ tick'[t].now = tick[t].now BY DEF HandsShrink
<1> QED BY <1>1 DEF HandsAreDue, RowsStand

LEMMA OverlapsStay ==
    ASSUME Overlaps, HandsShrink, HistoryGrows PROVE Overlaps'
<1> SUFFICES ASSUME NEW t \in Ticks, NEW u \in Ticks \ {t},
                    NEW e \in Hand(t)', NEW f \in Hand(u)', e.src = f.src
             PROVE  f \in excused' \/ (e # f /\ f.due <= tick'[t].now)
   BY DEF Overlaps
<1>1. e \in Hand(t) /\ tick'[t].now = tick[t].now /\ f \in Hand(u) BY DEF HandsShrink
<1> QED BY <1>1 DEF Overlaps, HistoryGrows

LEMMA TouchStillPasses ==
    ASSUME TouchWillPass, HandsShrink, RowsStand, HistoryGrows,
           \A t \in Ticks : \A e \in Hand(t) : \A k \in (DOMAIN jobs') \ DOMAIN jobs :
              jobs'[k].src = e.src => jobs'[k].due <= tick[t].now \/ EntryOf(k)' \in excused'
    PROVE  TouchWillPass'
<1> SUFFICES ASSUME NEW t \in Ticks, NEW e \in Hand(t)', NEW k \in DOMAIN jobs',
                    jobs'[k].src = e.src
             PROVE  jobs'[k].due <= tick'[t].now \/ EntryOf(k)' \in excused'
   BY DEF TouchWillPass
<1>1. e \in Hand(t) /\ tick'[t].now = tick[t].now BY DEF HandsShrink
<1>2. CASE k \in DOMAIN jobs
   <2>1. jobs'[k].src = jobs[k].src /\ jobs'[k].due = jobs[k].due /\ EntryOf(k)' = EntryOf(k)
      BY <1>2 DEF RowsStand, EntryOf
   <2> QED BY <1>1, <1>2, <2>1 DEF TouchWillPass, HistoryGrows
<1> QED BY <1>1, <1>2

LEMMA SourceStillWaits ==
    ASSUME RecurrenceAssumption, RecurrenceTypeOK, TicksAreAt, HandsAreDue, SourceWaits,
           HandsShrink, RowsStand, HistoryGrows, ScansRenewed
    PROVE  SourceWaits'
<1> SUFFICES ASSUME kind = "scan", NEW t \in Ticks, NEW e \in Hand(t)', e \notin excused'
             PROVE  e.due <= After(jobs'[e.src].at)
   BY DEF SourceWaits, HistoryGrows, After
<1>1. e \in Hand(t) /\ e \notin excused BY DEF HandsShrink, HistoryGrows
<1>2. e.src \in DOMAIN jobs /\ e.due <= tick[t].now /\ e.due <= After(jobs[e.src].at)
   BY <1>1 DEF HandsAreDue, SourceWaits
<1>3. e \in Entries /\ tick[t].now \in 0..Horizon /\ now \in 0..Horizon /\ Horizon \in Nat
      /\ tick[t].now <= now /\ e.due \in 0..(Horizon + Period) /\ Period \in Nat
   BY <1>1, TypesAre, ConstantsAre DEF TickTypes, TickRows, CountTypes, Hand, TicksAreAt, Placed, Entries
<1>4. now < After(now) /\ After(now) \in Nat BY <1>3, AfterIsAhead
<1>5. CASE jobs'[e.src].at = now BY <1>2, <1>3, <1>4, <1>5
<1>6. CASE jobs'[e.src].at = jobs[e.src].at BY <1>2, <1>6
<1> QED BY <1>2, <1>5, <1>6 DEF ScansRenewed

LEMMA StillNotMade ==
    ASSUME NotYetMade, HandsShrink, RowsStand, HistoryGrows,
           \A k \in (DOMAIN jobs') \ DOMAIN jobs :
              \A t \in Ticks : \A e \in tick'[t].todo :
                 EntryOf(k)' # [src |-> e.src, due |-> e.due] \/ e \in excused'
    PROVE  NotYetMade'
<1> SUFFICES ASSUME NEW t \in Ticks, NEW e \in tick'[t].todo, e \notin excused',
                    NEW k \in DOMAIN jobs', jobs'[k].src = e.src, jobs'[k].due = e.due
             PROVE  FALSE
   BY DEF NotYetMade, Made
<1>1. e \in tick[t].todo /\ e \notin excused BY DEF HandsShrink, HistoryGrows
<1>2. Made(e) = {} BY <1>1 DEF NotYetMade
<1>3. k \notin DOMAIN jobs BY <1>2 DEF Made, RowsStand
<1> QED BY <1>3 DEF EntryOf

\* What RowsAreMade says of one row.
WellMade(k) ==
    /\ jobs[k].due <= now
    /\ kind = "discovery" /\ jobs[k].status = "completed" => jobs[k].work = "none"
    /\ jobs[k].src # None =>
          /\ IF kind = "domain" THEN jobs[k].src = Domain ELSE jobs[k].src \in DOMAIN jobs
          /\ kind = "discovery" =>
                /\ jobs[jobs[k].src].status = "completed"
                /\ jobs[k].order = jobs[jobs[k].src].order
                /\ jobs[k].due = jobs[jobs[k].src].at + Period
                /\ jobs[k].at >= jobs[k].due

LEMMA RowsStayMade ==
    ASSUME RowsAreMade, RowTypes, RowTypes', CountTypes, CountTypes', RecurrenceAssumption,
           RowsStand, HistoryGrows,
           \A k \in (DOMAIN jobs') \ DOMAIN jobs : WellMade(k)',
           kind = "discovery" =>
              \A k \in DOMAIN jobs :
                 /\ jobs'[k].at = jobs[k].at \/ jobs'[k].at = now
                 /\ jobs'[k].status = "completed" => jobs'[k].work = "none"
    PROVE  RowsAreMade'
<1> SUFFICES ASSUME NEW k \in DOMAIN jobs PROVE WellMade(k)'
   BY DEF RowsAreMade, WellMade
<1>1. /\ jobs[k].due \in Nat /\ now \in Nat /\ now' \in Nat /\ now <= now' /\ jobs[k].due <= now
      /\ jobs'[k].due = jobs[k].due /\ jobs'[k].src = jobs[k].src
      /\ jobs'[k].order = jobs[k].order
   <2>1. Horizon \in Nat /\ Period \in Nat BY ConstantsAre
   <2>2. jobs[k].due \in 0..(Horizon + Period) BY RowIs
   <2>3. jobs[k].due \in Nat BY <2>1, <2>2
   <2>4. now \in Nat /\ now' \in Nat BY <2>1 DEF CountTypes
   <2>5. now <= now' BY DEF HistoryGrows
   <2>6. jobs[k].due <= now BY DEF RowsAreMade
   <2>7. /\ jobs'[k].due = jobs[k].due /\ jobs'[k].src = jobs[k].src
         /\ jobs'[k].order = jobs[k].order
      BY DEF RowsStand
   <2> QED BY <2>3, <2>4, <2>5, <2>6, <2>7
<1>2. jobs'[k].due <= now' BY <1>1
<1>3. kind = "domain" /\ jobs[k].src # None => jobs[k].src = Domain BY DEF RowsAreMade
<1>4. kind # "domain" /\ jobs[k].src # None => jobs[k].src \in DOMAIN jobs BY DEF RowsAreMade
<1>5. ASSUME kind = "discovery", jobs[k].src # None
      PROVE  /\ jobs'[jobs[k].src].status = "completed"
             /\ jobs[k].order = jobs'[jobs[k].src].order
             /\ jobs[k].due = jobs'[jobs[k].src].at + Period
             /\ jobs'[k].at >= jobs[k].due
   <2>1. jobs[k].src \in DOMAIN jobs BY <1>4, <1>5
   <2>2. jobs[jobs[k].src].status = "completed" /\ jobs[k].order = jobs[jobs[k].src].order
         /\ jobs[k].due = jobs[jobs[k].src].at + Period /\ jobs[k].at >= jobs[k].due
      BY <1>5 DEF RowsAreMade
   <2>3. jobs'[k].at >= jobs[k].due BY <1>1, <1>5, <2>2
   <2> QED BY <1>5, <2>1, <2>2, <2>3 DEF RowsStand
<1> QED BY <1>1, <1>2, <1>3, <1>4, <1>5 DEF WellMade, HistoryGrows, RowsStand

LEMMA StillPassedBy ==
    ASSUME RecurrenceAssumption, RecurrenceTypeOK, RowsAreMade, PassedBy,
           RowsStand, HistoryGrows, FlightsGoOn, ScansRenewed,
           \A k \in (DOMAIN jobs') \ DOMAIN jobs : jobs'[k].src # None => InFlight(EntryOf(k))',
           kind = "domain" => \/ Base(domain') = Base(domain)
                              \/ Base(domain') = now
                              \/ [src |-> Domain, due |-> After(Base(domain'))] \in excused'
    PROVE  PassedBy'
<1> SUFFICES ASSUME NEW k \in DOMAIN jobs', jobs'[k].src # None
             PROVE  \/ EntryOf(k)' \in excused' \/ InFlight(EntryOf(k))'
                    \/ kind = "scan" /\ jobs'[k].due < After(jobs'[jobs'[k].src].at)
                    \/ kind = "domain" /\ jobs'[k].due # After(Base(domain'))
                    \/ kind = "discovery"
   BY DEF PassedBy, HistoryGrows, After, Base
<1>0. RowTypes /\ now \in Nat BY TypesAre, ConstantsAre DEF CountTypes
<1>1. CASE k \notin DOMAIN jobs BY <1>1
<1>2. CASE k \in DOMAIN jobs
   <2>1. jobs'[k].src = jobs[k].src /\ jobs'[k].due = jobs[k].due /\ EntryOf(k)' = EntryOf(k)
      BY <1>2 DEF RowsStand, EntryOf
   <2>2. EntryOf(k) \in Entries /\ EntryOf(k) # None BY <1>0, <1>2, <2>1, RowIs, ConstantsAre
   <2>3. jobs[k].due \in Nat /\ jobs[k].due <= now BY <1>0, <1>2, RowIs, ConstantsAre DEF RowsAreMade
   <2>4. now < After(now) /\ After(now) \in Nat BY <1>0, AfterIsAhead
   <2>5. CASE EntryOf(k) \in excused BY <2>1, <2>5 DEF HistoryGrows
   <2>6. CASE InFlight(EntryOf(k))
      <3>1. PICK t \in Ticks : tick[t].cur = EntryOf(k) BY <2>6 DEF InFlight
      <3>2. CASE tick[t].cur \in excused' BY <2>1, <3>1, <3>2
      <3>3. CASE \E u \in Ticks : tick'[u].cur = tick[t].cur
         BY <2>1, <3>1, <3>3 DEF InFlight
      <3> QED BY <2>2, <3>1, <3>2, <3>3 DEF FlightsGoOn, HistoryGrows
   <2>7. CASE kind = "scan" /\ jobs[k].due < After(jobs[jobs[k].src].at)
      <3>1. jobs[k].src \in DOMAIN jobs BY <1>2, <2>1, <2>7 DEF RowsAreMade
      <3>2. CASE jobs'[jobs[k].src].at = jobs[jobs[k].src].at BY <2>1, <2>7, <3>2
      <3>3. CASE jobs'[jobs[k].src].at = now
         <4>1. After(jobs'[jobs[k].src].at) = After(now) BY <3>3
         <4> QED BY <1>0, <2>1, <2>3, <2>4, <2>7, <4>1
      <3> QED BY <2>7, <3>1, <3>2, <3>3 DEF ScansRenewed
   <2>8. CASE kind = "domain" /\ jobs[k].due # After(Base(domain))
      <3>1. CASE Base(domain') = Base(domain) BY <2>1, <2>8, <3>1
      <3>2. CASE Base(domain') = now
         <4>1. After(Base(domain')) = After(now) BY <3>2
         <4> QED BY <1>0, <2>1, <2>3, <2>4, <2>8, <4>1
      <3>3. CASE [src |-> Domain, due |-> After(Base(domain'))] \in excused'
         <4>1. jobs[k].src = Domain BY <1>2, <2>1, <2>8 DEF RowsAreMade
         <4> QED BY <2>1, <2>8, <3>3, <4>1 DEF EntryOf
      <3> QED BY <2>8, <3>1, <3>2, <3>3
   <2> QED BY <1>2, <2>1, <2>5, <2>6, <2>7, <2>8 DEF PassedBy
<1> QED BY <1>1, <1>2

LEMMA StillMadeOnce ==
    ASSUME MadeOnce, RowsStand, HistoryGrows, DOMAIN jobs' = DOMAIN jobs PROVE MadeOnce'
<1> SUFFICES ASSUME NEW i \in DOMAIN jobs, NEW j \in DOMAIN jobs,
                    jobs'[i].src # None, EntryOf(i)' = EntryOf(j)'
             PROVE  i = j \/ EntryOf(i)' \in excused'
   BY DEF MadeOnce
<1>1. EntryOf(i)' = EntryOf(i) /\ EntryOf(j)' = EntryOf(j) /\ jobs'[i].src = jobs[i].src
   BY DEF EntryOf, RowsStand
<1> QED BY <1>1 DEF MadeOnce, HistoryGrows

\* One goroutine has moved.
LEMMA TickMoves ==
    ASSUME RecurrenceAssumption, RecurrenceTypeOK, CountTypes', TicksAreAt, HistoryGrows,
           DOMAIN jobs \subseteq DOMAIN jobs',
           NEW t \in Ticks, \A u \in Ticks \ {t} : tick'[u] = tick[u], Placed(t)',
           \A u \in Ticks \ {t} : tick[u].pc = "send" =>
              /\ jobs'[tick[u].job].status = "pending" /\ jobs'[tick[u].job].work = "none"
              /\ tick'[t].pc = "send" => tick'[t].job # tick[u].job
    PROVE  TicksAreAt'
<1>1. ASSUME NEW u \in Ticks PROVE Placed(u)'
   <2>1. CASE u = t BY <2>1
   <2>2. CASE u # t
      <3>1. tick'[u] = tick[u] /\ Placed(u) BY <2>2 DEF TicksAreAt
      <3>2. tick[u].now \in 0..Horizon /\ now \in 0..Horizon /\ now' \in 0..Horizon
            /\ Horizon \in Nat
         BY TypesAre, ConstantsAre DEF TickTypes, TickRows, CountTypes
      <3>3. tick[u].now <= now' BY <3>1, <3>2 DEF Placed, HistoryGrows
      <3> QED BY <2>2, <3>1, <3>3 DEF Placed, HistoryGrows
   <2> QED BY <2>1, <2>2
<1>2. ASSUME NEW u \in Ticks, NEW v \in Ticks \ {u}, tick'[u].pc = "send", tick'[v].pc = "send"
      PROVE  tick'[u].job # tick'[v].job
   <2>1. CASE u = t BY <1>2, <2>1
   <2>2. CASE v = t BY <1>2, <2>2
   <2>3. CASE u # t /\ v # t
      <3>1. tick'[u] = tick[u] /\ tick'[v] = tick[v] BY <2>3
      <3> QED BY <1>2, <3>1 DEF TicksAreAt
   <2> QED BY <2>1, <2>2, <2>3
<1> QED BY <1>1, <1>2 DEF TicksAreAt

\* No goroutine has moved.
LEMMA TicksStay ==
    ASSUME RecurrenceAssumption, RecurrenceTypeOK, CountTypes', TicksAreAt, HistoryGrows,
           DOMAIN jobs \subseteq DOMAIN jobs', tick' = tick,
           \A k \in DOMAIN jobs : jobs[k].status = "pending" /\ jobs[k].work = "none" =>
              jobs'[k].status = "pending" /\ jobs'[k].work = "none"
    PROVE  TicksAreAt'
<1>1. ASSUME NEW u \in Ticks PROVE Placed(u)'
   <2>1. Placed(u) BY DEF TicksAreAt
   <2>2. tick[u].now \in 0..Horizon /\ now \in 0..Horizon /\ now' \in 0..Horizon
         /\ Horizon \in Nat
      BY TypesAre, ConstantsAre DEF TickTypes, TickRows, CountTypes
   <2>3. tick[u].now <= now' BY <2>1, <2>2 DEF Placed, HistoryGrows
   <2> QED BY <2>1, <2>3 DEF Placed, HistoryGrows
<1> QED BY <1>1 DEF TicksAreAt

\* Steps that leave the rows as they are.
LEMMA SameRows ==
    ASSUME UNCHANGED jobs
    PROVE  RowsStand /\ ScansRenewed /\ DOMAIN jobs' = DOMAIN jobs
BY DEF RowsStand, ScansRenewed

-----------------------------------------------------------------------------
(***************************************************************************)
(* The steps of the dispatcher.                                            *)
(***************************************************************************)
\* A tick that has begun.
Reading(m) == [Idle EXCEPT !.pc = "read", !.now = m]
LEMMA ReadingIs ==
    ASSUME RecurrenceAssumption, NEW m \in 0..Horizon
    PROVE  /\ Reading(m) \in TickRows
           /\ Reading(m).pc = "read" /\ Reading(m).now = m
           /\ Reading(m).todo = {} /\ Reading(m).cur = None
           /\ Idle \in TickRows /\ Idle.todo = {} /\ Idle.cur = None /\ Idle.pc = "idle" /\ Idle.now = 0
<1>0. Horizon \in Nat BY ConstantsAre
<1>1. Idle \in TickRows BY <1>0 DEF Idle, TickRows
<1>2. Reading(m) \in TickRows BY <1>1 DEF Reading, TickRows
<1>3. Idle.todo = {} /\ Idle.cur = None /\ Idle.pc = "idle" /\ Idle.now = 0 BY DEF Idle
<1>4. /\ Reading(m).pc = "read" /\ Reading(m).now = m
      /\ Reading(m).todo = {} /\ Reading(m).cur = None
   BY DEF Reading, Idle
<1> QED BY <1>1, <1>2, <1>3, <1>4

LEMMA PollKeeps ==
    ASSUME RecurrenceAssumption, IInv, NEW t \in Ticks, Poll(t)
    PROVE  IInv'
<1> USE DEF IInv
<1>0. /\ RowTypes /\ TickTypes /\ DomainTypes /\ CountTypes /\ excused \subseteq Entries
      /\ Horizon \in Nat /\ now \in 0..Horizon
   BY TypesAre, ConstantsAre DEF CountTypes
<1>2. now' \in 0..Horizon /\ now <= now' BY <1>0 DEF Poll
<1>1. /\ tick[t] = Idle
      /\ tick' = [tick EXCEPT ![t] = Reading(now')]
   BY DEF Poll, Reading
<1>3. tick'[t] = Reading(now') /\ \A u \in Ticks \ {t} : tick'[u] = tick[u]
   BY <1>0, <1>1 DEF TickTypes
<1>a. /\ tick'[t] \in TickRows /\ tick'[t].pc = "read" /\ tick'[t].now = now'
      /\ tick'[t].todo = {} /\ tick'[t].cur = None
      /\ tick[t].todo = {} /\ tick[t].cur = None
   BY <1>1, <1>2, <1>3, ReadingIs
<1>4. UNCHANGED <<kind, jobs, domain, editor, faults, edits, excused>> BY DEF Poll
<1>5. HistoryGrows BY <1>2, <1>4 DEF HistoryGrows
<1>6. RecurrenceTypeOK'
   <2>2. TickTypes' BY <1>0, <1>1, <1>a DEF TickTypes
   <2> QED BY <1>0, <1>2, <1>4, <2>2, TypesAreNext DEF RowTypes, DomainTypes, CountTypes
<1>7. HandsShrink
   <2>1. Hand(t)' = {} BY <1>a DEF Hand
   <2>2. \A u \in Ticks \ {t} : Hand(u)' = Hand(u) BY <1>3 DEF Hand
   <2> QED BY <1>3, <1>a, <2>1, <2>2 DEF HandsShrink
<1>8. FlightsGoOn BY <1>a, <1>3 DEF FlightsGoOn
<1>9. TicksAreAt'
   <2>1. Placed(t)' BY <1>0, <1>2, <1>a DEF Placed
   <2> QED BY <1>3, <1>a, <1>4, <1>5, <1>6, <2>1, TickMoves, TypesAreNext DEF TicksAreAt, Placed
<1>10. HandsAreDue' /\ Overlaps' /\ TouchWillPass' /\ SourceWaits' /\ NotYetMade' /\ MadeOnce'
   BY <1>4, <1>5, <1>7, SameRows, HandsStayDue, OverlapsStay, TouchStillPasses,
      SourceStillWaits, StillNotMade, StillMadeOnce DEF HistoryGrows
<1>11. RowsAreMade'
   BY <1>0, <1>4, <1>5, <1>6, SameRows, RowsStayMade, TypesAreNext DEF RowsAreMade
<1>12. PassedBy' BY <1>4, <1>5, <1>8, SameRows, StillPassedBy
<1> QED BY <1>6, <1>9, <1>10, <1>11, <1>12

\* A goroutine is done with the entry it was at, or with all it had to do.
IsDone(t, x) ==
    /\ x \in TickRows /\ x.pc \in {"idle", "next"} /\ x.cur = None /\ x.now <= tick[t].now
    /\ x.todo \subseteq tick[t].todo
    /\ x.todo # {} => x.now = tick[t].now
GoesOnTo(t, x) ==
    /\ tick' = [tick EXCEPT ![t] = x] /\ IsDone(t, x)
    /\ HistoryGrows /\ CountTypes' /\ DOMAIN jobs \subseteq DOMAIN jobs'
    /\ \A u \in Ticks \ {t} : tick[u].pc = "send" =>
          jobs'[tick[u].job].status = "pending" /\ jobs'[tick[u].job].work = "none"
LEMMA GoesOn ==
    ASSUME RecurrenceAssumption, RecurrenceTypeOK, TicksAreAt, NEW t \in Ticks, NEW x, GoesOnTo(t, x)
    PROVE  /\ TickTypes' /\ HandsShrink /\ TicksAreAt'
           /\ \A u \in Ticks \ {t} : tick'[u] = tick[u]
           /\ tick'[t] = x
<1>0. TickTypes /\ CountTypes BY TypesAre
<1>a. /\ tick' = [tick EXCEPT ![t] = x] /\ x \in TickRows /\ HistoryGrows /\ CountTypes'
      /\ DOMAIN jobs \subseteq DOMAIN jobs'
      /\ \A u \in Ticks \ {t} : tick[u].pc = "send" =>
            jobs'[tick[u].job].status = "pending" /\ jobs'[tick[u].job].work = "none"
   BY DEF GoesOnTo, IsDone
<1>b. /\ x.pc \in {"idle", "next"} /\ x.cur = None /\ x.now <= tick[t].now
      /\ x.todo \subseteq tick[t].todo
      /\ x.todo # {} => x.now = tick[t].now
   BY DEF GoesOnTo, IsDone
<1>1. tick'[t] = x /\ \A u \in Ticks \ {t} : tick'[u] = tick[u] BY <1>0, <1>a DEF TickTypes
<1>2. TickTypes' BY <1>0, <1>a DEF TickTypes
<1>3. HandsShrink
   <2>1. Hand(t)' = x.todo BY <1>1, <1>b DEF Hand
   <2>2. \A u \in Ticks \ {t} : Hand(u)' = Hand(u) BY <1>1 DEF Hand
   <2>3. tick[t].todo \subseteq Hand(t) BY DEF Hand
   <2>4. Hand(t)' \subseteq Hand(t) BY <1>b, <2>1, <2>3
   <2>5. tick'[t].todo \subseteq tick[t].todo BY <1>1, <1>b
   <2>6. Hand(t)' # {} => tick'[t].now = tick[t].now BY <1>1, <1>b, <2>1
   <2> QED BY <1>1, <2>2, <2>4, <2>5, <2>6 DEF HandsShrink
<1>4. Placed(t)'
   <2>1. tick[t].now <= now BY DEF TicksAreAt, Placed
   <2>2. tick[t].now \in 0..Horizon /\ now \in 0..Horizon /\ now' \in 0..Horizon
         /\ Horizon \in Nat /\ x.now \in 0..Horizon
      BY <1>0, <1>a, ConstantsAre DEF TickTypes, TickRows, CountTypes
   <2>3. x.now <= now' BY <1>a, <1>b, <2>1, <2>2 DEF HistoryGrows
   <2> QED BY <1>1, <1>b, <2>3 DEF Placed
<1>5. TicksAreAt' BY <1>1, <1>4, <1>a, <1>b, TickMoves
<1> QED BY <1>1, <1>2, <1>3, <1>5

\* A goroutine without an entry leaves none behind.
LEMMA NoFlightEnds ==
    ASSUME NEW t \in Ticks, \A u \in Ticks \ {t} : tick'[u] = tick[u],
           tick[t].cur = None \/ tick[t].cur \in excused'
    PROVE  FlightsGoOn
BY DEF FlightsGoOn

\* ... and nothing else has happened, but that an entry may be excused.
LEMMA GoesOnKeeps ==
    ASSUME RecurrenceAssumption, IInv, NEW t \in Ticks, NEW x \in TickRows,
           tick' = [tick EXCEPT ![t] = x],
           x.pc \in {"idle", "next"}, x.cur = None, x.now <= tick[t].now,
           x.todo \subseteq tick[t].todo, x.todo # {} => x.now = tick[t].now,
           UNCHANGED <<kind, now, jobs, domain, editor>>, CountTypes',
           excused \subseteq excused', excused' \subseteq Entries,
           tick[t].cur = None \/ tick[t].cur \in excused'
    PROVE  IInv'
<1> USE DEF IInv
<1>0. RowTypes /\ TickTypes /\ DomainTypes /\ CountTypes /\ Horizon \in Nat
   BY TypesAre, ConstantsAre
<1>1. HistoryGrows BY <1>0 DEF HistoryGrows, CountTypes
<1>2. TickTypes' /\ HandsShrink /\ TicksAreAt' /\ \A u \in Ticks \ {t} : tick'[u] = tick[u]
   <2>1. RecurrenceTypeOK /\ TicksAreAt OBVIOUS
   <2>2. \A u \in Ticks \ {t} : tick[u].pc = "send" =>
            jobs[tick[u].job].status = "pending" /\ jobs[tick[u].job].work = "none"
      BY <2>1 DEF TicksAreAt, Placed
   <2> HIDE DEF IInv
   <2>3. GoesOnTo(t, x) BY <1>1, <2>2 DEF GoesOnTo, IsDone
   <2> QED BY <2>1, <2>3, GoesOn
<1>3. RecurrenceTypeOK' BY <1>0, <1>2, TypesAreNext DEF RowTypes, DomainTypes
<1>4. FlightsGoOn BY <1>2, NoFlightEnds
<1>5. HandsAreDue' /\ Overlaps' /\ TouchWillPass' /\ SourceWaits' /\ NotYetMade' /\ MadeOnce'
   BY <1>1, <1>2, SameRows, HandsStayDue, OverlapsStay, TouchStillPasses,
      SourceStillWaits, StillNotMade, StillMadeOnce DEF HistoryGrows
<1>6. RowsAreMade'
   BY <1>0, <1>1, <1>3, SameRows, RowsStayMade, TypesAreNext DEF RowsAreMade
<1>7. PassedBy' BY <1>1, <1>4, SameRows, StillPassedBy
<1> QED BY <1>2, <1>3, <1>5, <1>6, <1>7

\* A failing statement is counted.
LEMMA FaultCounts ==
    ASSUME RecurrenceAssumption, CountTypes, Fault, UNCHANGED <<kind, now, edits>>
    PROVE  CountTypes'
<1>1. MaxFaults \in Nat BY ConstantsAre
<1> QED BY <1>1 DEF CountTypes, Fault

LEMMA HandledIs ==
    ASSUME NEW t \in Ticks, NEW u \in Ticks \ {t}, NEW f \in Hand(u) PROVE f.src \in Handled(t)
BY DEF Handled, Hand

LEMMA ReadKeeps ==
    ASSUME RecurrenceAssumption, IInv, NEW t \in Ticks, tick[t].pc = "read",
           NEW m, m = (IF kind = "scan" THEN tick[t].now ELSE now),
           tick' = [tick EXCEPT ![t] = Loop(m, Due(m))],
           excused' = excused \union
              {e \in Due(m) : \/ e.src \in Handled(t)
                              \/ kind = "discovery" /\ Unfinished(e)},
           UNCHANGED <<kind, now, jobs, domain, editor, faults, edits>>
    PROVE  IInv'
<1> USE DEF IInv
<1>0. /\ RowTypes /\ TickTypes /\ DomainTypes /\ CountTypes /\ excused \subseteq Entries
      /\ Horizon \in Nat /\ now \in 0..Horizon /\ Period \in Nat /\ Period > 0
      /\ None \notin Entries /\ None \notin Nat /\ kind \in {"scan", "domain", "discovery"}
   BY TypesAre, ConstantsAre DEF CountTypes
<1>1. /\ m \in 0..Horizon /\ m <= now /\ tick[t].cur = None
   <2>1. tick[t].now \in 0..Horizon /\ tick[t].now <= now /\ tick[t].cur = None
      BY <1>0 DEF TicksAreAt, Placed, TickTypes, TickRows
   <2> QED BY <1>0, <2>1
<1>2. \A e \in Due(m) : /\ e \in Entries /\ e.due <= m
                        /\ kind = "scan" => e.src \in DOMAIN jobs /\ e.due = After(jobs[e.src].at)
                        /\ kind = "domain" => e.src = Domain /\ e.due = After(Base(domain))
                        /\ kind = "discovery" => e.src \in Youngest
                                                 /\ e.due = jobs[e.src].at + Period
   BY <1>1, DueIs
<1>3. \A e \in Due(m) : e.src \in Nat /\ e.due \in Nat /\ e.src # None
   BY <1>0, <1>2, ConstantsAre DEF Entries, Sources
<1>4. Due(m) \in SUBSET Entries BY <1>2
<1>5. /\ tick'[t] \in TickRows /\ tick'[t].todo = Due(m) /\ tick'[t].cur = None
      /\ tick'[t].pc \in {"idle", "next"} /\ tick'[t].now \in {0, m}
      /\ Due(m) # {} => tick'[t].now = m
      /\ \A u \in Ticks \ {t} : tick'[u] = tick[u]
   <2>1. tick'[t] = Loop(m, Due(m)) /\ \A u \in Ticks \ {t} : tick'[u] = tick[u]
      BY <1>0 DEF TickTypes
   <2> QED BY <1>1, <1>4, <2>1, LoopIs
<1>6. HistoryGrows BY <1>0 DEF HistoryGrows
<1>7. RecurrenceTypeOK'
   <2>1. TickTypes'
      <3>1. Loop(m, Due(m)) \in TickRows BY <1>1, <1>4, LoopIs
      <3> QED BY <1>0, <3>1 DEF TickTypes
   <2>2. excused' \subseteq Entries BY <1>0, <1>2
   <2> QED BY <1>0, <2>1, <2>2, TypesAreNext DEF RowTypes, DomainTypes, CountTypes
<1>8. Hand(t)' = Due(m) /\ \A u \in Ticks \ {t} : Hand(u)' = Hand(u) BY <1>5 DEF Hand
<1>9. TicksAreAt'
   <2>1. tick'[t].now <= now' BY <1>0, <1>1, <1>5
   <2>2. Placed(t)' BY <1>5, <2>1 DEF Placed
   <2>3. RecurrenceTypeOK /\ TicksAreAt OBVIOUS
   <2>4. \A u \in Ticks \ {t} : tick[u].pc = "send" =>
            jobs[tick[u].job].status = "pending" /\ jobs[tick[u].job].work = "none"
      BY <2>3 DEF TicksAreAt, Placed
   <2>5. CountTypes' BY <1>7, TypesAreNext
   <2>6. tick'[t].pc # "send" /\ \A u \in Ticks \ {t} : tick'[u] = tick[u] BY <1>5
   <2> HIDE DEF IInv
   <2> QED BY <1>6, <2>2, <2>3, <2>4, <2>5, <2>6, TickMoves
<1>10. HandsAreDue'
   <2>1. ASSUME NEW e \in Due(m)
         PROVE  /\ e.due <= tick'[t].now
                /\ IF kind = "domain" THEN e.src = Domain ELSE e.src \in DOMAIN jobs
                /\ kind = "discovery" => jobs[e.src].status = "completed"
                                         /\ e.due = jobs[e.src].at + Period
      BY <1>0, <1>2, <1>5, YoungestIs
   <2> QED BY <1>8, <1>5, <2>1 DEF HandsAreDue
<1>11. RowsAreMade'
   BY <1>0, <1>6, <1>7, SameRows, RowsStayMade, TypesAreNext DEF RowsAreMade
<1>12. PassedBy' BY <1>1, <1>5, <1>6, NoFlightEnds, SameRows, StillPassedBy
\* An entry that another goroutine has at hand is not ahead of what is due here.
<1>13. ASSUME NEW u \in Ticks \ {t}, NEW f \in Hand(u), NEW e \in Due(m), e.src = f.src
       PROVE  f \in excused' \/ f.due <= m
   <2>1. f.due <= tick[u].now /\ f \in Entries
      BY <1>0 DEF HandsAreDue, Hand, TickTypes, TickRows
   <2>2. tick[u].now \in 0..Horizon /\ tick[u].now <= now /\ f.due \in Nat
      <3>1. tick[u].now \in 0..Horizon BY <1>0 DEF TickTypes, TickRows
      <3>2. tick[u].now <= now BY DEF TicksAreAt, Placed
      <3>3. f.due \in Nat BY <1>0, <2>1 DEF Entries
      <3> QED BY <3>1, <3>2, <3>3
   <2>3. CASE kind # "scan" BY <1>0, <2>1, <2>2, <2>3
   <2>4. CASE kind = "scan"
      <3>1. f \in excused \/ f.due <= After(jobs[f.src].at) BY <2>4 DEF SourceWaits
      <3>2. e.due = After(jobs[f.src].at) /\ e.due <= m /\ e.due \in Nat
         BY <1>2, <1>3, <1>13, <2>4
      <3> QED BY <1>1, <2>2, <3>1, <3>2
   <2> QED BY <2>3, <2>4
<1>14. TouchWillPass'
   <2>1. ASSUME NEW e \in Due(m), NEW k \in DOMAIN jobs, jobs[k].src = e.src
         PROVE  jobs[k].due <= m \/ EntryOf(k) \in excused'
      <3>0. jobs[k].due \in Nat /\ jobs[k].due <= now /\ jobs[k].src # None
            /\ EntryOf(k) \in Entries
         BY <1>0, <1>3, <2>1, RowIs DEF RowsAreMade
      <3>1. CASE kind # "scan" BY <3>0, <3>1
      <3>2. CASE kind = "scan"
         <4>1. CASE EntryOf(k) \in excused BY <4>1
         <4>2. CASE InFlight(EntryOf(k))
            <5>1. PICK u \in Ticks : tick[u].cur = EntryOf(k) BY <4>2 DEF InFlight
            <5>2. u # t /\ EntryOf(k) \in Hand(u) BY <1>0, <1>1, <3>0, <5>1 DEF Hand
            <5>3. e.src = EntryOf(k).src /\ EntryOf(k).due = jobs[k].due BY <2>1 DEF EntryOf
            <5> QED BY <1>13, <5>2, <5>3
         <4>3. CASE jobs[k].due < After(jobs[jobs[k].src].at)
            <5>1. jobs[k].due < e.due /\ e.due <= m /\ e.due \in Nat
               BY <1>2, <1>3, <2>1, <3>2, <4>3
            <5> QED BY <1>1, <3>0, <5>1
         <4> QED BY <3>0, <3>2, <4>1, <4>2, <4>3 DEF PassedBy
      <3> QED BY <3>1, <3>2
   <2>2. \A k \in DOMAIN jobs : EntryOf(k)' = EntryOf(k) BY DEF EntryOf
   <2>3. ASSUME NEW u \in Ticks, NEW e \in Hand(u)', NEW k \in DOMAIN jobs, jobs[k].src = e.src
         PROVE  jobs[k].due <= tick'[u].now \/ EntryOf(k)' \in excused'
      <3>1. CASE u = t BY <1>5, <1>8, <2>1, <2>2, <2>3, <3>1
      <3>2. CASE u # t BY <1>5, <1>8, <2>2, <2>3, <3>2 DEF TouchWillPass
      <3> QED BY <3>1, <3>2
   <2> QED BY <2>3 DEF TouchWillPass
<1>15. SourceWaits'
   <2>1. ASSUME kind = "scan", NEW u \in Ticks, NEW e \in Hand(u)', e \notin excused'
         PROVE  e.due <= After(jobs[e.src].at)
      <3>1. CASE u = t
         <4>1. e \in Due(m) BY <1>8, <3>1
         <4> QED BY <1>2, <1>3, <2>1, <4>1
      <3>2. CASE u # t BY <1>8, <2>1, <3>2 DEF SourceWaits
      <3> QED BY <3>1, <3>2
   <2> QED BY <2>1 DEF SourceWaits, After
<1>16. Overlaps'
   <2> SUFFICES ASSUME NEW u \in Ticks, NEW v \in Ticks \ {u},
                       NEW e \in Hand(u)', NEW f \in Hand(v)', e.src = f.src
                PROVE  f \in excused' \/ (e # f /\ f.due <= tick'[u].now)
      BY DEF Overlaps
   <2>1. CASE u = t
      <3>1. e \in Due(m) /\ f \in Hand(v) /\ v # t /\ tick'[u].now = m BY <1>5, <1>8, <2>1
      <3>2. e.src \in Handled(t) BY <3>1, HandledIs
      <3>3. e \in excused' BY <3>1, <3>2
      <3> QED BY <1>13, <3>1, <3>3
   <2>2. CASE v = t
      <3>1. f \in Due(m) /\ e \in Hand(u) /\ u # t BY <1>8, <2>2
      <3>2. f.src \in Handled(t) BY <3>1, HandledIs
      <3> QED BY <3>1, <3>2
   <2>3. CASE u # t /\ v # t BY <1>5, <1>8, <2>3 DEF Overlaps
   <2> QED BY <2>1, <2>2, <2>3
<1>17. NotYetMade'
   <2>1. ASSUME NEW e \in Due(m), e \notin excused', NEW k \in DOMAIN jobs,
                jobs[k].src = e.src, jobs[k].due = e.due
         PROVE  FALSE
      <3>0. jobs[k].src # None /\ EntryOf(k) = e /\ e \in Entries
         BY <1>2, <1>3, <2>1 DEF EntryOf, Entries
      <3>1. e \notin excused /\ e.src \notin Handled(t)
            /\ (kind = "discovery" => ~Unfinished(e))
         BY <2>1
      <3>2. CASE InFlight(e)
         <4>1. PICK u \in Ticks : tick[u].cur = e BY <3>2 DEF InFlight
         <4>2. u # t /\ e \in Hand(u) BY <1>0, <1>1, <3>0, <4>1 DEF Hand
         <4> QED BY <3>1, <4>2, HandledIs
      <3>3. CASE kind = "scan" /\ jobs[k].due < After(jobs[jobs[k].src].at)
         <4>1. jobs[k].due < e.due BY <1>2, <2>1, <3>3
         <4> QED BY <1>3, <2>1, <4>1
      <3>4. CASE kind = "domain" /\ jobs[k].due # After(Base(domain))
         BY <1>2, <2>1, <3>4
      <3>5. CASE kind = "discovery"
         <4>1. jobs[k].status = "completed" BY <2>1, <3>1, <3>5 DEF Unfinished
         <4>2. e.src \in Youngest BY <1>2, <3>5
         <4>3. e.src \in DOMAIN jobs BY <1>0, <4>2, YoungestIs
         <4>4. /\ jobs[k].order = jobs[e.src].order
               /\ jobs[k].due = jobs[e.src].at + Period /\ jobs[k].at >= jobs[k].due
            BY <2>1, <3>0, <3>5 DEF RowsAreMade
         <4>5. jobs[e.src].at >= jobs[k].at BY <1>0, <4>1, <4>2, <4>4, YoungestIs
         <4>6. jobs[e.src].at \in Nat /\ jobs[k].at \in Nat BY <1>0, <4>3, RowIs
         <4> QED BY <1>0, <4>4, <4>5, <4>6
      <3> QED BY <3>0, <3>1, <3>2, <3>3, <3>4, <3>5 DEF PassedBy
   <2>2. \A e \in Due(m) : e \in excused' \/ Made(e)' = {} BY <2>1 DEF Made
   <2>3. ASSUME NEW u \in Ticks \ {t}, NEW e \in tick'[u].todo
         PROVE  e \in excused' \/ Made(e)' = {}
      BY <1>5 DEF NotYetMade, Made
   <2> QED BY <1>5, <2>2, <2>3 DEF NotYetMade
<1>18. MadeOnce' BY <1>6, SameRows, StillMadeOnce
<1> QED BY <1>7, <1>9, <1>10, <1>11, <1>12, <1>14, <1>15, <1>16, <1>17, <1>18

\* The tick as it would go on to its next entry.
LEMMA GoingOnIs ==
    ASSUME RecurrenceAssumption, TickTypes, NEW t \in Ticks, NEW left \in SUBSET tick[t].todo
    PROVE  /\ Loop(tick[t].now, left) \in TickRows
           /\ Loop(tick[t].now, left).pc \in {"idle", "next"} /\ Loop(tick[t].now, left).cur = None
           /\ Loop(tick[t].now, left).now <= tick[t].now
           /\ Loop(tick[t].now, left).todo \subseteq tick[t].todo
           /\ Loop(tick[t].now, left).todo # {} => Loop(tick[t].now, left).now = tick[t].now
<1> DEFINE m == tick[t].now
           todo == tick[t].todo
<1>1. m \in 0..Horizon /\ left \in SUBSET Entries /\ left \subseteq todo /\ Horizon \in Nat
   BY ConstantsAre DEF TickTypes, TickRows
<1> HIDE DEF m, todo
<1>2. /\ Loop(m, left) \in TickRows /\ Loop(m, left).todo = left /\ Loop(m, left).cur = None
      /\ Loop(m, left).pc \in {"idle", "next"} /\ Loop(m, left).now \in {0, m}
      /\ left # {} => Loop(m, left).now = m
   BY <1>1, LoopIs
<1>3. Loop(m, left).now <= m BY <1>1, <1>2
<1> QED BY <1>1, <1>2, <1>3 DEF m, todo

LEMMA ReadStep ==
    ASSUME RecurrenceAssumption, IInv, NEW t \in Ticks, Read(t) PROVE IInv'
<1> USE DEF IInv
<1>0. CountTypes /\ TickTypes /\ excused \subseteq Entries /\ Horizon \in Nat
   BY TypesAre, ConstantsAre
<1>1. CASE Fault /\ tick' = [tick EXCEPT ![t] = Idle] /\ UNCHANGED excused
   <2>1. UNCHANGED <<kind, now, jobs, domain, editor, edits>> /\ tick[t].pc = "read"
      BY DEF Read
   <2>2. CountTypes' BY <1>0, <1>1, <2>1, FaultCounts
   <2>3. tick[t].cur = None /\ tick[t].now \in 0..Horizon
      BY <1>0, <2>1 DEF TicksAreAt, Placed, TickTypes, TickRows
   <2>4. /\ Idle \in TickRows /\ Idle.todo = {} /\ Idle.cur = None /\ Idle.pc = "idle"
         /\ Idle.now = 0 /\ Idle.now <= tick[t].now
      BY <1>0, <2>3, ReadingIs
   <2> QED BY <1>0, <1>1, <2>1, <2>2, <2>3, <2>4, GoesOnKeeps
<1>2. CASE ~(Fault /\ tick' = [tick EXCEPT ![t] = Idle] /\ UNCHANGED excused)
   <2> DEFINE m == IF kind = "scan" THEN tick[t].now ELSE now
   <2>1. /\ tick[t].pc = "read"
         /\ tick' = [tick EXCEPT ![t] = Loop(m, Due(m))]
         /\ excused' = excused \union
              {e \in Due(m) : \/ e.src \in Handled(t)
                              \/ kind = "discovery" /\ Unfinished(e)}
         /\ UNCHANGED <<kind, now, jobs, domain, editor, faults, edits>>
      BY <1>2 DEF Read, NoFault
   <2> HIDE DEF m
   <2>2. m = IF kind = "scan" THEN tick[t].now ELSE now BY DEF m
   <2> QED BY <2>1, <2>2, ReadKeeps
<1> QED BY <1>1, <1>2

LEMMA CreateFailsKeeps ==
    ASSUME RecurrenceAssumption, IInv, NEW t \in Ticks, NEW e \in tick[t].todo,
           tick[t].pc = "next", Fault,
           tick' = [tick EXCEPT ![t] = Loop(@.now, @.todo \ {e})],
           UNCHANGED <<jobs, kind, now, domain, editor, edits, excused>>
    PROVE  IInv'
<1> USE DEF IInv
<1>0. CountTypes /\ TickTypes /\ excused \subseteq Entries BY TypesAre
<1> DEFINE x == Loop(tick[t].now, tick[t].todo \ {e})
<1>1. tick' = [tick EXCEPT ![t] = x] BY <1>0 DEF TickTypes
<1>2. /\ x \in TickRows /\ x.pc \in {"idle", "next"} /\ x.cur = None
      /\ x.now <= tick[t].now /\ x.todo \subseteq tick[t].todo
      /\ x.todo # {} => x.now = tick[t].now
   <2>1. TickTypes BY <1>0
   <2> HIDE DEF IInv
   <2>2. (tick[t].todo \ {e}) \in SUBSET tick[t].todo OBVIOUS
   <2> QED BY <2>1, <2>2, GoingOnIs
<1> HIDE DEF x
<1>3. CountTypes' BY <1>0, FaultCounts
<1>4. tick[t].cur = None BY DEF TicksAreAt, Placed
<1> QED BY <1>0, <1>1, <1>2, <1>3, <1>4, GoesOnKeeps

LEMMA TouchFailsKeeps ==
    ASSUME RecurrenceAssumption, IInv, NEW t \in Ticks,
           tick[t].pc = "touch", Fault,
           tick' = [tick EXCEPT ![t] = Loop(@.now, @.todo)],
           excused' = excused \union {tick[t].cur},
           UNCHANGED <<jobs, kind, now, domain, editor, edits>>
    PROVE  IInv'
<1> USE DEF IInv
<1>0. CountTypes /\ TickTypes /\ excused \subseteq Entries BY TypesAre
<1> DEFINE x == Loop(tick[t].now, tick[t].todo)
<1>1. tick' = [tick EXCEPT ![t] = x] BY <1>0 DEF TickTypes
<1>2. /\ x \in TickRows /\ x.pc \in {"idle", "next"} /\ x.cur = None
      /\ x.now <= tick[t].now /\ x.todo \subseteq tick[t].todo
      /\ x.todo # {} => x.now = tick[t].now
   <2>1. TickTypes BY <1>0
   <2> HIDE DEF IInv
   <2>2. tick[t].todo \in SUBSET tick[t].todo OBVIOUS
   <2> QED BY <2>1, <2>2, GoingOnIs
<1> HIDE DEF x
<1>3. CountTypes' BY <1>0, FaultCounts
<1>4. tick[t].cur \in Entries BY DEF TicksAreAt, Placed
<1> QED BY <1>0, <1>1, <1>2, <1>3, <1>4, GoesOnKeeps

\* One row is replaced.
LEMMA RowChanges ==
    ASSUME RowTypes, NEW i \in DOMAIN jobs, NEW r \in Rows, jobs' = [jobs EXCEPT ![i] = r]
    PROVE  /\ RowTypes' /\ DOMAIN jobs' = DOMAIN jobs
           /\ jobs'[i] = r /\ \A k \in (DOMAIN jobs) \ {i} : jobs'[k] = jobs[k]
<1>1. jobs \in Seq(Rows) /\ Len(jobs) <= MaxRows BY DEF RowTypes
<1>2. jobs' \in Seq(Rows) /\ Len(jobs') = Len(jobs) BY <1>1
<1>3. Rows' = Rows BY DEF Rows, Settled
<1> QED BY <1>1, <1>2, <1>3 DEF RowTypes

LEMMA TouchKeeps ==
    ASSUME RecurrenceAssumption, IInv, NEW t \in Ticks, tick[t].pc = "touch",
           IF kind = "scan"
             THEN /\ jobs' = [jobs EXCEPT ![tick[t].cur.src].at = tick[t].now]
                  /\ UNCHANGED domain
             ELSE /\ domain' = [updated |-> now, last |-> tick[t].now]
                  /\ UNCHANGED jobs,
           tick' = [tick EXCEPT ![t] = Loop(@.now, @.todo)],
           UNCHANGED <<kind, now, editor, faults, edits, excused>>
    PROVE  IInv'
<1> USE DEF IInv
<1>0. /\ RowTypes /\ TickTypes /\ DomainTypes /\ CountTypes /\ excused \subseteq Entries
      /\ Horizon \in Nat /\ MaxRows \in Nat /\ Period \in Nat /\ None \notin Nat
      /\ None \notin Entries /\ kind \in {"scan", "domain", "discovery"}
   BY TypesAre, ConstantsAre DEF CountTypes
<1> DEFINE x == Loop(tick[t].now, tick[t].todo)
           m == tick[t].now
           c == tick[t].cur
<1>1. tick' = [tick EXCEPT ![t] = x] BY <1>0 DEF TickTypes
<1>2. /\ x \in TickRows /\ x.pc \in {"idle", "next"} /\ x.cur = None
      /\ x.now <= tick[t].now /\ x.todo \subseteq tick[t].todo
      /\ x.todo # {} => x.now = tick[t].now
   <2>1. TickTypes BY <1>0
   <2> HIDE DEF IInv
   <2>2. tick[t].todo \in SUBSET tick[t].todo OBVIOUS
   <2> QED BY <2>1, <2>2, GoingOnIs
<1> HIDE DEF x
<1>3. /\ c \in Entries /\ c # None /\ c \in Hand(t) /\ m \in 0..Horizon /\ kind # "discovery"
      /\ kind = "scan" => c.src \in DOMAIN jobs
      /\ kind = "domain" => c.src = Domain
   <2>1. c \in Entries /\ kind # "discovery" BY DEF TicksAreAt, Placed
   <2>2. c # None /\ c \in Hand(t) BY <1>0, <2>1 DEF Hand
   <2>3. m \in 0..Horizon BY <1>0 DEF TickTypes, TickRows
   <2> QED BY <2>1, <2>2, <2>3 DEF HandsAreDue
<1>4. HistoryGrows BY <1>0 DEF HistoryGrows, CountTypes
<1>5. CountTypes' BY <1>0 DEF CountTypes
<1>6. DOMAIN jobs' = DOMAIN jobs
      /\ \A k \in DOMAIN jobs :
            /\ jobs'[k].src = jobs[k].src /\ jobs'[k].due = jobs[k].due
            /\ jobs'[k].order = jobs[k].order /\ jobs'[k].status = jobs[k].status
            /\ jobs'[k].work = jobs[k].work
            /\ (kind # "scan" \/ k # c.src) => jobs'[k].at = jobs[k].at
            /\ (kind = "scan" /\ k = c.src) => jobs'[k].at = m
   <2>1. CASE kind = "scan"
      <3>1. c.src \in DOMAIN jobs /\ jobs[c.src] \in Rows BY <1>0, <1>3, <2>1, RowIs
      <3>2. [jobs[c.src] EXCEPT !.at = m] \in Rows BY <1>3, <3>1 DEF Rows
      <3>3. jobs' = [jobs EXCEPT ![c.src] = [jobs[c.src] EXCEPT !.at = m]] BY <2>1, <3>1
      <3>4. /\ DOMAIN jobs' = DOMAIN jobs /\ jobs'[c.src] = [jobs[c.src] EXCEPT !.at = m]
            /\ \A k \in (DOMAIN jobs) \ {c.src} : jobs'[k] = jobs[k]
         BY <1>0, <3>1, <3>2, <3>3, RowChanges
      <3>5. /\ jobs'[c.src].src = jobs[c.src].src /\ jobs'[c.src].due = jobs[c.src].due
            /\ jobs'[c.src].order = jobs[c.src].order /\ jobs'[c.src].status = jobs[c.src].status
            /\ jobs'[c.src].work = jobs[c.src].work /\ jobs'[c.src].at = m
         BY <3>1, <3>4 DEF Rows
      <3> QED BY <2>1, <3>1, <3>4, <3>5
   <2>2. CASE kind # "scan" BY <2>2
   <2> QED BY <2>1, <2>2
<1>7. RowsStand BY <1>3, <1>6 DEF RowsStand
<1>8. /\ TickTypes' /\ HandsShrink /\ TicksAreAt' /\ tick'[t] = x
      /\ \A u \in Ticks \ {t} : tick'[u] = tick[u]
   <2>1. \A u \in Ticks \ {t} : tick[u].pc = "send" =>
            jobs'[tick[u].job].status = "pending" /\ jobs'[tick[u].job].work = "none"
      BY <1>6 DEF TicksAreAt, Placed
   <2>2. DOMAIN jobs \subseteq DOMAIN jobs' BY <1>6
   <2>3. RecurrenceTypeOK /\ TicksAreAt OBVIOUS
   <2>4. /\ x \in TickRows /\ x.pc \in {"idle", "next"} /\ x.cur = None
         /\ x.now <= tick[t].now /\ x.todo \subseteq tick[t].todo
         /\ x.todo # {} => x.now = tick[t].now
      BY <1>2
   <2> HIDE DEF IInv, m, c
   <2>5. GoesOnTo(t, x) BY <1>1, <1>4, <1>5, <2>1, <2>2, <2>4 DEF GoesOnTo, IsDone
   <2> QED BY <2>3, <2>5, GoesOn
<1>9. RecurrenceTypeOK'
   <2>1. RowTypes'
      <3>1. CASE kind = "scan"
         <4>1. c.src \in DOMAIN jobs /\ jobs[c.src] \in Rows BY <1>0, <1>3, <3>1, RowIs
         <4>2. [jobs[c.src] EXCEPT !.at = m] \in Rows BY <1>3, <4>1 DEF Rows
         <4>3. jobs' = [jobs EXCEPT ![c.src] = [jobs[c.src] EXCEPT !.at = m]] BY <3>1, <4>1
         <4> QED BY <1>0, <4>1, <4>2, <4>3, RowChanges
      <3>2. CASE kind # "scan" BY <1>0, <3>2 DEF RowTypes
      <3> QED BY <3>1, <3>2
   <2>2. DomainTypes'
      <3>1. domain \in DomainRows /\ editor \in DomainRows \union {None} BY <1>0 DEF DomainTypes
      <3>2. domain' \in DomainRows
         <4>1. CASE kind = "scan" BY <3>1, <4>1
         <4>2. CASE kind # "scan" BY <1>0, <1>3, <4>2 DEF DomainRows, CountTypes
         <4> QED BY <4>1, <4>2
      <3> QED BY <3>1, <3>2 DEF DomainTypes, DomainRows
   <2> QED BY <1>0, <1>5, <1>8, <2>1, <2>2, TypesAreNext
<1>10. HandsAreDue' /\ Overlaps' /\ TouchWillPass' /\ NotYetMade' /\ MadeOnce'
   BY <1>4, <1>6, <1>7, <1>8, HandsStayDue, OverlapsStay, TouchStillPasses,
      StillNotMade, StillMadeOnce DEF HistoryGrows
<1>11. RowsAreMade'
   BY <1>0, <1>3, <1>4, <1>6, <1>7, <1>9, RowsStayMade, TypesAreNext
<1>12. m < After(m) /\ After(m) \in Nat /\ m \in Nat BY <1>0, <1>3, AfterIsAhead
<1>13. SourceWaits'
   <2> SUFFICES ASSUME kind = "scan", NEW u \in Ticks, NEW e \in Hand(u)', e \notin excused
                PROVE  e.due <= After(jobs'[e.src].at)
      BY DEF SourceWaits, After
   <2>1. e \in Hand(u) BY <1>8 DEF HandsShrink
   <2>2. e.src \in DOMAIN jobs /\ e.due <= After(jobs[e.src].at) /\ e.due <= tick[u].now
      BY <2>1 DEF HandsAreDue, SourceWaits
   <2>3. e.due \in Nat BY <1>0, <2>1 DEF Hand, TickTypes, TickRows, Entries
   <2>4. CASE e.src # c.src
      <3>1. jobs'[e.src].at = jobs[e.src].at BY <1>6, <2>2, <2>4
      <3> QED BY <2>2, <3>1
   <2>5. CASE e.src = c.src
      <3>1. e.due <= m
         <4>1. CASE u = t BY <2>2, <4>1
         <4>2. CASE u # t BY <1>3, <2>1, <2>5, <4>2 DEF Overlaps
         <4> QED BY <4>1, <4>2
      <3>2. After(jobs'[e.src].at) = After(m) BY <1>6, <2>2, <2>5
      <3> QED BY <1>12, <2>3, <3>1, <3>2
   <2> QED BY <2>4, <2>5
<1>14. PassedBy'
   <2> SUFFICES ASSUME NEW k \in DOMAIN jobs, jobs[k].src # None, EntryOf(k) \notin excused
                PROVE  \/ InFlight(EntryOf(k))'
                       \/ kind = "scan" /\ jobs[k].due < After(jobs'[jobs[k].src].at)
                       \/ kind = "domain" /\ jobs[k].due # After(Base(domain'))
      BY <1>6 DEF PassedBy, EntryOf, After, Base
   <2>1. jobs[k].due \in Nat /\ EntryOf(k) \in Entries /\ EntryOf(k) # None
         /\ EntryOf(k)' = EntryOf(k) /\ EntryOf(k).src = jobs[k].src
      <3>1. jobs[k].due \in Nat /\ EntryOf(k) \in Entries BY <1>0, RowIs
      <3> QED BY <1>0, <1>6, <3>1 DEF EntryOf
   <2>2. CASE jobs[k].src = c.src
      <3>1. jobs[k].due <= m BY <1>3, <2>2 DEF TouchWillPass
      <3>2. jobs[k].due < After(m) BY <1>12, <2>1, <3>1
      <3>3. CASE kind = "scan"
         <4>1. After(jobs'[jobs[k].src].at) = After(m) BY <1>3, <1>6, <2>2, <3>3
         <4> QED BY <3>2, <3>3, <4>1
      <3>4. CASE kind = "domain"
         <4>1. domain' = [updated |-> now, last |-> m] BY <3>4
         <4>2. Base(domain') = m BY <1>0, <1>12, <4>1 DEF Base
         <4>3. After(Base(domain')) = After(m) BY <4>2
         <4> QED BY <1>12, <2>1, <3>2, <3>4, <4>3
      <3> QED BY <1>0, <1>3, <3>3, <3>4
   <2>3. CASE jobs[k].src # c.src
      <3>1. kind = "scan" BY <1>0, <1>3, <2>3 DEF RowsAreMade
      <3>2. jobs[k].src \in DOMAIN jobs BY <3>1 DEF RowsAreMade
      <3>3. CASE InFlight(EntryOf(k))
         <4>1. PICK u \in Ticks : tick[u].cur = EntryOf(k) BY <3>3 DEF InFlight
         <4>2. u # t BY <2>1, <2>3, <4>1
         <4>3. tick'[u].cur = EntryOf(k)' BY <1>8, <2>1, <4>1, <4>2
         <4> QED BY <4>3 DEF InFlight
      <3>4. CASE jobs[k].due < After(jobs[jobs[k].src].at)
         <4>1. jobs'[jobs[k].src].at = jobs[jobs[k].src].at BY <1>6, <2>3, <3>2
         <4> QED BY <3>1, <3>4, <4>1
      <3> QED BY <3>1, <3>3, <3>4 DEF PassedBy
   <2> QED BY <2>2, <2>3
<1> QED BY <1>8, <1>9, <1>10, <1>11, <1>13, <1>14

LEMMA TouchStep ==
    ASSUME RecurrenceAssumption, IInv, NEW t \in Ticks, Touch(t) PROVE IInv'
BY TouchKeeps, TouchFailsKeeps DEF Touch, NoFault

LEMMA SendStep ==
    ASSUME RecurrenceAssumption, IInv, NEW t \in Ticks, Send(t) PROVE IInv'
<1> USE DEF IInv
<1>0. /\ RowTypes /\ TickTypes /\ DomainTypes /\ CountTypes /\ excused \subseteq Entries
      /\ Horizon \in Nat /\ kind \in {"scan", "domain", "discovery"}
   BY TypesAre, ConstantsAre DEF CountTypes
<1>1. tick[t].pc = "send" /\ UNCHANGED <<kind, now, domain, editor, edits, excused>>
   BY DEF Send
<1> DEFINE j == tick[t].job
<1>2. /\ j \in DOMAIN jobs /\ jobs[j].status = "pending" /\ tick[t].cur \in Entries
      /\ tick[t].now <= now
      /\ \A u \in Ticks \ {t} : tick[u].pc = "send" => tick[u].job # j
   BY <1>1 DEF TicksAreAt, Placed
<1>3. /\ RowTypes' /\ DOMAIN jobs' = DOMAIN jobs
      /\ \A k \in (DOMAIN jobs) \ {j} : jobs'[k] = jobs[k]
      /\ jobs'[j].src = jobs[j].src /\ jobs'[j].due = jobs[j].due
      /\ jobs'[j].order = jobs[j].order /\ jobs'[j].status = jobs[j].status
      /\ jobs'[j].at = jobs[j].at
   <2>1. CASE UNCHANGED jobs BY <1>0, <2>1 DEF RowTypes
   <2>2. CASE jobs' = [jobs EXCEPT ![j].work = "queued"]
      <3>1. jobs[j] \in Rows BY <1>0, <1>2, RowIs
      <3>2. [jobs[j] EXCEPT !.work = "queued"] \in Rows BY <3>1 DEF Rows
      <3>3. jobs' = [jobs EXCEPT ![j] = [jobs[j] EXCEPT !.work = "queued"]] BY <1>2, <2>2
      <3>4. /\ RowTypes' /\ DOMAIN jobs' = DOMAIN jobs
            /\ jobs'[j] = [jobs[j] EXCEPT !.work = "queued"]
            /\ \A k \in (DOMAIN jobs) \ {j} : jobs'[k] = jobs[k]
         BY <1>0, <1>2, <3>2, <3>3, RowChanges
      <3>5. /\ jobs'[j].src = jobs[j].src /\ jobs'[j].due = jobs[j].due
            /\ jobs'[j].order = jobs[j].order /\ jobs'[j].status = jobs[j].status
            /\ jobs'[j].at = jobs[j].at
         BY <3>1, <3>4 DEF Rows
      <3> QED BY <3>4, <3>5
   <2> QED BY <2>1, <2>2 DEF Send
<1>4. CountTypes' BY <1>0, <1>1, FaultCounts DEF Send, NoFault, CountTypes
<1>5. HistoryGrows BY <1>0, <1>1 DEF HistoryGrows, CountTypes
<1>6. RowsStand /\ ScansRenewed
   <2>1. \A k \in DOMAIN jobs :
            /\ jobs'[k].src = jobs[k].src /\ jobs'[k].due = jobs[k].due
            /\ jobs'[k].order = jobs[k].order /\ jobs'[k].status = jobs[k].status
            /\ jobs'[k].at = jobs[k].at
      BY <1>3
   <2> QED BY <1>3, <2>1 DEF RowsStand, ScansRenewed
<1>7. /\ TickTypes' /\ HandsShrink /\ TicksAreAt' /\ FlightsGoOn
   <2>1. \A u \in Ticks \ {t} : tick[u].pc = "send" =>
            jobs'[tick[u].job].status = "pending" /\ jobs'[tick[u].job].work = "none"
      BY <1>2, <1>3 DEF TicksAreAt, Placed
   <2>2. CASE kind = "discovery"
      <3> DEFINE x == Loop(tick[t].now, tick[t].todo)
      <3>1. tick' = [tick EXCEPT ![t] = x] BY <1>0, <2>2 DEF Send, TickTypes
      <3>2. /\ x \in TickRows /\ x.pc \in {"idle", "next"} /\ x.cur = None
            /\ x.now <= tick[t].now /\ x.todo \subseteq tick[t].todo
            /\ x.todo # {} => x.now = tick[t].now
         <4>1. TickTypes BY <1>0
         <4> HIDE DEF IInv
         <4>2. tick[t].todo \in SUBSET tick[t].todo OBVIOUS
         <4> QED BY <4>1, <4>2, GoingOnIs
      <3> HIDE DEF x
      <3>3. TickTypes' /\ HandsShrink /\ TicksAreAt'
         <4>1. GoesOnTo(t, x) BY <1>3, <1>4, <1>5, <2>1, <3>1, <3>2 DEF GoesOnTo, IsDone
         <4> QED BY <4>1, GoesOn
      <3> QED BY <2>2, <3>3 DEF FlightsGoOn
   <2>3. CASE kind # "discovery"
      <3> DEFINE x == [tick[t] EXCEPT !.pc = "touch"]
      <3>1. tick' = [tick EXCEPT ![t] = x] BY <1>0, <2>3 DEF Send, TickTypes
      <3>2. tick[t] \in TickRows BY <1>0 DEF TickTypes
      <3>3. /\ x \in TickRows /\ x.pc = "touch" /\ x.cur = tick[t].cur /\ x.now = tick[t].now
            /\ x.todo = tick[t].todo /\ x.job = j
         BY <3>2 DEF TickRows
      <3> HIDE DEF x
      <3>4. tick'[t] = x /\ \A u \in Ticks \ {t} : tick'[u] = tick[u]
         BY <1>0, <3>1 DEF TickTypes
      <3>5. TickTypes' BY <1>0, <3>1, <3>3 DEF TickTypes
      <3>6. Hand(t)' = Hand(t) /\ \A u \in Ticks \ {t} : Hand(u)' = Hand(u)
         BY <3>3, <3>4 DEF Hand
      <3>7. HandsShrink BY <3>3, <3>4, <3>6 DEF HandsShrink
      <3>8. Placed(t)' BY <1>1, <1>2, <1>3, <2>3, <3>3, <3>4 DEF Placed
      <3>9. TicksAreAt' BY <1>3, <1>4, <1>5, <2>1, <3>3, <3>4, <3>8, TickMoves
      <3>10. FlightsGoOn
         <4>1. \A u \in Ticks : tick'[u].cur = tick[u].cur BY <3>3, <3>4
         <4> QED BY <4>1 DEF FlightsGoOn
      <3> QED BY <3>5, <3>7, <3>9, <3>10
   <2> QED BY <2>2, <2>3
<1>8. RecurrenceTypeOK'
   <2>1. DomainTypes' BY <1>0, <1>1 DEF DomainTypes
   <2> QED BY <1>0, <1>1, <1>3, <1>4, <1>7, <2>1, TypesAreNext
<1>9. HandsAreDue' /\ Overlaps' /\ TouchWillPass' /\ SourceWaits' /\ NotYetMade' /\ MadeOnce'
   BY <1>3, <1>5, <1>6, <1>7, HandsStayDue, OverlapsStay, TouchStillPasses,
      SourceStillWaits, StillNotMade, StillMadeOnce DEF HistoryGrows
<1>10. RowsAreMade'
   <2>1. ASSUME kind = "discovery", NEW k \in DOMAIN jobs
         PROVE  /\ jobs'[k].at = jobs[k].at
                /\ jobs'[k].status = "completed" => jobs'[k].work = "none"
      <3>1. CASE k = j BY <1>2, <1>3, <3>1
      <3>2. CASE k # j BY <1>3, <2>1, <3>2 DEF RowsAreMade
      <3> QED BY <3>1, <3>2
   <2> QED BY <1>0, <1>3, <1>4, <1>5, <1>6, <2>1, RowsStayMade
<1>11. PassedBy' BY <1>1, <1>3, <1>5, <1>6, <1>7, StillPassedBy
<1> QED BY <1>7, <1>8, <1>9, <1>10, <1>11

\* A row is added.
LEMMA RowAdded ==
    ASSUME RecurrenceAssumption, RowTypes, Len(jobs) < MaxRows,
           NEW r \in Rows, jobs' = Append(jobs, r)
    PROVE  /\ RowTypes' /\ DOMAIN jobs' = DOMAIN jobs \union {Len(jobs) + 1}
           /\ Len(jobs) + 1 \notin DOMAIN jobs /\ jobs'[Len(jobs) + 1] = r
           /\ Len(jobs) + 1 \in 1..MaxRows
           /\ \A k \in DOMAIN jobs : jobs'[k] = jobs[k]
           /\ RowsStand /\ ScansRenewed
<1>0. jobs \in Seq(Rows) /\ Len(jobs) \in Nat /\ MaxRows \in Nat BY ConstantsAre DEF RowTypes
<1>1. jobs' \in Seq(Rows) /\ Len(jobs') = Len(jobs) + 1 BY <1>0
<1>2. Rows' = Rows BY DEF Rows, Settled
<1>3. DOMAIN jobs = 1..Len(jobs) /\ DOMAIN jobs' = 1..(Len(jobs) + 1) BY <1>0, <1>1
<1>4. \A k \in DOMAIN jobs : jobs'[k] = jobs[k] BY <1>0, <1>3
<1>5. jobs'[Len(jobs) + 1] = r BY <1>0
<1>6. RowsStand /\ ScansRenewed BY <1>3, <1>4 DEF RowsStand, ScansRenewed
<1>7. RowTypes' BY <1>0, <1>1, <1>2 DEF RowTypes
<1> QED BY <1>0, <1>3, <1>4, <1>5, <1>6, <1>7

LEMMA CreateKeeps ==
    ASSUME RecurrenceAssumption, IInv, NEW t \in Ticks, NEW e \in tick[t].todo,
           tick[t].pc = "next", Len(jobs) < MaxRows, NEW n, n = Len(jobs) + 1,
           jobs' = Append(jobs, Pending(e.src, e.due,
                      IF e.src = Domain THEN Min(Orders) ELSE jobs[e.src].order, "none")),
           tick' = [tick EXCEPT ![t].pc = "send", ![t].cur = e,
                                ![t].todo = @ \ {e}, ![t].job = n],
           UNCHANGED <<kind, now, domain, editor, faults, edits, excused>>
    PROVE  IInv'
<1> USE DEF IInv
<1> DEFINE order == IF e.src = Domain THEN Min(Orders) ELSE jobs[e.src].order
           r == Pending(e.src, e.due, order, "none")
<1>0. /\ RowTypes /\ TickTypes /\ DomainTypes /\ CountTypes /\ excused \subseteq Entries
      /\ Horizon \in Nat /\ now \in 0..Horizon /\ kind \in {"scan", "domain", "discovery"}
      /\ None \notin Entries /\ Min(Orders) \in Orders /\ Period \in Nat
   BY TypesAre, ConstantsAre DEF CountTypes
<1>1. /\ e \in Entries /\ e # None /\ e \in Hand(t) /\ tick[t].cur = None
      /\ tick[t].now \in 0..Horizon /\ tick[t].now <= now
   BY <1>0 DEF TickTypes, TickRows, Hand, TicksAreAt, Placed
<1>2. /\ e.due <= tick[t].now
      /\ IF kind = "domain" THEN e.src = Domain ELSE e.src \in DOMAIN jobs
      /\ kind = "discovery" => jobs[e.src].status = "completed"
                               /\ e.due = jobs[e.src].at + Period
   BY <1>1 DEF HandsAreDue
<1>3. /\ e.src \in Sources /\ e.src \in Nat /\ e.due \in 0..(Horizon + Period)
      /\ e = [src |-> e.src, due |-> e.due] /\ e.due \in Nat /\ e.due <= now
   <2>1. e.src \in Sources /\ e.due \in 0..(Horizon + Period) /\ e = [src |-> e.src, due |-> e.due]
      BY <1>1 DEF Entries
   <2>2. Sources \subseteq Nat BY ConstantsAre DEF Sources
   <2>3. e.due \in Nat /\ now \in Nat /\ tick[t].now \in Nat BY <1>0, <1>1, <2>1
   <2>4. e.due <= tick[t].now /\ tick[t].now <= now BY <1>1, <1>2
   <2>5. e.due <= now BY <2>3, <2>4
   <2> QED BY <2>1, <2>2, <2>3, <2>5
<1>4. order \in Orders
   <2>1. CASE e.src = Domain BY <1>0, <2>1
   <2>2. CASE e.src # Domain
      <3>1. e.src \in DOMAIN jobs BY <1>2, <2>2
      <3> QED BY <1>0, <2>2, <3>1, RowIs DEF Rows
   <2> QED BY <2>1, <2>2
<1>5. /\ r \in Rows /\ r.src = e.src /\ r.due = e.due /\ r.status = "pending"
      /\ r.work = "none" /\ r.at = now /\ r.order = order
   BY <1>0, <1>3, <1>4 DEF Pending, Rows
<1>6. /\ RowTypes' /\ DOMAIN jobs' = DOMAIN jobs \union {n} /\ n \notin DOMAIN jobs
      /\ jobs'[n] = r /\ n \in 1..MaxRows /\ \A k \in DOMAIN jobs : jobs'[k] = jobs[k]
      /\ RowsStand /\ ScansRenewed
   BY <1>0, <1>5, RowAdded
<1>7. EntryOf(n)' = e BY <1>3, <1>5, <1>6 DEF EntryOf
<1>8. HistoryGrows /\ CountTypes' BY <1>0 DEF HistoryGrows, CountTypes
<1>9. /\ tick'[t] \in TickRows /\ tick'[t].pc = "send" /\ tick'[t].cur = e
      /\ tick'[t].now = tick[t].now /\ tick'[t].todo = tick[t].todo \ {e} /\ tick'[t].job = n
      /\ \A u \in Ticks \ {t} : tick'[u] = tick[u]
      /\ TickTypes'
   <2> DEFINE x == [tick[t] EXCEPT !.pc = "send", !.cur = e, !.todo = @ \ {e}, !.job = n]
   <2>1. tick[t] \in TickRows BY <1>0 DEF TickTypes
   <2>2. /\ x.pc = "send" /\ x.cur = e /\ x.now = tick[t].now
         /\ x.todo = tick[t].todo \ {e} /\ x.job = n
      BY <2>1 DEF TickRows
   <2>3. x \in TickRows BY <1>1, <1>6, <2>1 DEF TickRows
   <2>4. tick' = [tick EXCEPT ![t] = x] BY <1>0 DEF TickTypes
   <2> HIDE DEF x
   <2>5. tick'[t] = x /\ \A u \in Ticks \ {t} : tick'[u] = tick[u]
      BY <1>0, <2>4 DEF TickTypes
   <2>6. TickTypes' BY <1>0, <2>3, <2>4 DEF TickTypes
   <2> QED BY <2>2, <2>3, <2>5, <2>6
<1> HIDE DEF r, order
<1>10. HandsShrink
   <2>1. Hand(t)' \subseteq Hand(t) BY <1>1, <1>9 DEF Hand
   <2>2. \A u \in Ticks \ {t} : Hand(u)' = Hand(u) BY <1>9 DEF Hand
   <2>3. tick'[t].todo \subseteq tick[t].todo BY <1>9
   <2>4. tick'[t].now = tick[t].now /\ \A u \in Ticks \ {t} : tick'[u] = tick[u] BY <1>9
   <2> QED BY <2>1, <2>2, <2>3, <2>4 DEF HandsShrink
<1>11. FlightsGoOn BY <1>1, <1>9, NoFlightEnds
<1>12. RecurrenceTypeOK'
   <2>1. DomainTypes' BY <1>0 DEF DomainTypes
   <2> QED BY <1>0, <1>6, <1>8, <1>9, <2>1, TypesAreNext
<1>13. TicksAreAt'
   <2>1. Placed(t)' BY <1>1, <1>5, <1>6, <1>9 DEF Placed
   <2>2. \A u \in Ticks \ {t} : tick[u].pc = "send" =>
            /\ jobs'[tick[u].job].status = "pending" /\ jobs'[tick[u].job].work = "none"
            /\ tick'[t].job # tick[u].job
      BY <1>6, <1>9 DEF TicksAreAt, Placed
   <2>3. RecurrenceTypeOK /\ TicksAreAt OBVIOUS
   <2>4. DOMAIN jobs \subseteq DOMAIN jobs' BY <1>6
   <2>5. \A u \in Ticks \ {t} : tick'[u] = tick[u] BY <1>9
   <2> HIDE DEF IInv
   <2> QED BY <1>8, <2>1, <2>2, <2>3, <2>4, <2>5, TickMoves
<1>14. HandsAreDue' /\ Overlaps' /\ SourceWaits'
   BY <1>6, <1>8, <1>10, HandsStayDue, OverlapsStay, SourceStillWaits DEF HistoryGrows
\* Who else has it at hand knows.
<1>15. ASSUME NEW u \in Ticks \ {t}, NEW f \in Hand(u), f.src = e.src
       PROVE  e \in excused \/ (f # e /\ e.due <= tick[u].now)
   BY <1>1, <1>15 DEF Overlaps
<1>16. TouchWillPass'
   <2>1. ASSUME NEW u \in Ticks, NEW f \in Hand(u), f.src = e.src
         PROVE  e.due <= tick[u].now \/ e \in excused
      <3>1. CASE u = t BY <1>2, <3>1
      <3>2. CASE u # t BY <1>15, <2>1, <3>2
      <3> QED BY <3>1, <3>2
   <2>2. \A u \in Ticks : \A f \in Hand(u) : \A k \in (DOMAIN jobs') \ DOMAIN jobs :
            jobs'[k].src = f.src => jobs'[k].due <= tick[u].now \/ EntryOf(k)' \in excused'
      BY <1>5, <1>6, <1>7, <2>1
   <2> QED BY <1>6, <1>8, <1>10, <2>2, TouchStillPasses
<1>17. NotYetMade'
   <2>1. ASSUME NEW u \in Ticks, NEW f \in tick'[u].todo, e = [src |-> f.src, due |-> f.due]
         PROVE  f \in excused'
      <3>1. f \in Entries BY <1>9 DEF TickTypes, TickRows
      <3>2. f = e BY <2>1, <3>1 DEF Entries
      <3>3. u # t BY <1>9, <3>2
      <3>4. f \in Hand(u) BY <1>9, <3>3 DEF Hand
      <3> QED BY <1>15, <3>2, <3>3, <3>4
   <2>2. \A k \in (DOMAIN jobs') \ DOMAIN jobs : \A u \in Ticks : \A f \in tick'[u].todo :
            EntryOf(k)' # [src |-> f.src, due |-> f.due] \/ f \in excused'
      BY <1>6, <1>7, <2>1
   <2> QED BY <1>6, <1>8, <1>10, <2>2, StillNotMade
<1>18. MadeOnce'
   <2>1. \A k \in DOMAIN jobs : EntryOf(k)' = EntryOf(k) /\ jobs'[k].src = jobs[k].src
      BY <1>6 DEF EntryOf
   <2>2. ASSUME NEW k \in DOMAIN jobs, EntryOf(k) = e PROVE e \in excused
      <3>1. jobs[k].src = e.src /\ jobs[k].due = e.due BY <2>2 DEF EntryOf
      <3>2. k \in Made(e) BY <3>1 DEF Made
      <3> QED BY <3>2 DEF NotYetMade
   <2> SUFFICES ASSUME NEW i \in DOMAIN jobs', NEW j \in DOMAIN jobs', jobs'[i].src # None,
                       EntryOf(i)' = EntryOf(j)', i # j
                PROVE  EntryOf(i)' \in excused
      BY DEF MadeOnce
   <2>3. CASE i = n BY <1>6, <1>7, <2>1, <2>2, <2>3
   <2>4. CASE j = n BY <1>6, <1>7, <2>1, <2>2, <2>4
   <2>5. CASE i # n /\ j # n BY <1>6, <2>1, <2>5 DEF MadeOnce
   <2> QED BY <2>3, <2>4, <2>5
<1>19. RowsAreMade'
   <2>1. WellMade(n)'
      <3>1. jobs'[n].due <= now' /\ jobs'[n].status # "completed" BY <1>3, <1>5, <1>6
      <3>2. kind = "domain" => jobs'[n].src = Domain BY <1>2, <1>5, <1>6
      <3>3. kind # "domain" => jobs'[n].src \in DOMAIN jobs BY <1>2, <1>5, <1>6
      <3>4. ASSUME kind = "discovery"
            PROVE  /\ jobs'[jobs'[n].src].status = "completed"
                   /\ jobs'[n].order = jobs'[jobs'[n].src].order
                   /\ jobs'[n].due = jobs'[jobs'[n].src].at + Period
                   /\ jobs'[n].at >= jobs'[n].due
         <4>1. e.src \in DOMAIN jobs /\ jobs'[n].src = e.src /\ jobs'[e.src] = jobs[e.src]
            BY <1>2, <1>5, <1>6, <3>4
         <4>2. e.src # Domain
            <5>1. e.src >= 1 BY <1>0, <4>1, RowIs
            <5> QED BY <5>1 DEF Domain
         <4>3. order = jobs[e.src].order BY <4>2 DEF order
         <4> QED BY <1>0, <1>2, <1>3, <1>5, <1>6, <3>4, <4>1, <4>3
      <3> QED BY <1>6, <3>1, <3>2, <3>3, <3>4 DEF WellMade
   <2>2. \A k \in (DOMAIN jobs') \ DOMAIN jobs : WellMade(k)' BY <1>6, <2>1
   <2>3. kind = "discovery" => \A k \in DOMAIN jobs :
            /\ jobs'[k].at = jobs[k].at \/ jobs'[k].at = now
            /\ jobs'[k].status = "completed" => jobs'[k].work = "none"
      BY <1>6 DEF RowsAreMade
   <2> QED BY <1>0, <1>6, <1>8, <2>2, <2>3, RowsStayMade
<1>20. PassedBy'
   <2>1. InFlight(EntryOf(n))' BY <1>7, <1>9 DEF InFlight
   <2>2. \A k \in (DOMAIN jobs') \ DOMAIN jobs : jobs'[k].src # None => InFlight(EntryOf(k))'
      BY <1>6, <2>1
   <2> QED BY <1>6, <1>8, <1>11, <2>2, StillPassedBy
<1> QED BY <1>12, <1>13, <1>14, <1>16, <1>17, <1>18, <1>19, <1>20

LEMMA CreateStep ==
    ASSUME RecurrenceAssumption, IInv, NEW t \in Ticks, NEW e \in tick[t].todo, CreateRow(t, e)
    PROVE  IInv'
<1>1. \E n : n = Len(jobs) + 1 OBVIOUS
<1> QED BY <1>1, CreateKeeps, CreateFailsKeeps DEF CreateRow, NoFault

-----------------------------------------------------------------------------
(***************************************************************************)
(* The steps of the workers, of users and of the machine.                  *)
(***************************************************************************)
\* A worker changes a row it has.
LEMMA WorkKeeps ==
    ASSUME RecurrenceAssumption, IInv, NEW i \in DOMAIN jobs, NEW r \in Rows,
           jobs[i].work # "none", jobs' = [jobs EXCEPT ![i] = r],
           r.src = jobs[i].src, r.due = jobs[i].due, r.order = jobs[i].order,
           r.at = jobs[i].at \/ r.at = now,
           kind = "discovery" /\ r.status = "completed" => r.work = "none",
           UNCHANGED <<kind, now, domain, tick, editor, excused>>, CountTypes'
    PROVE  IInv'
<1> USE DEF IInv
<1>0. /\ RowTypes /\ TickTypes /\ DomainTypes /\ CountTypes /\ excused \subseteq Entries
      /\ Horizon \in Nat /\ now \in 0..Horizon
   BY TypesAre, ConstantsAre DEF CountTypes
<1>1. /\ RowTypes' /\ DOMAIN jobs' = DOMAIN jobs
      /\ jobs'[i] = r /\ \A k \in (DOMAIN jobs) \ {i} : jobs'[k] = jobs[k]
   BY <1>0, RowChanges
<1>2. HistoryGrows BY <1>0 DEF HistoryGrows, CountTypes
<1>3. kind = "discovery" => jobs[i].status # "completed" BY DEF RowsAreMade
<1>4. RowsStand /\ ScansRenewed
   <2>1. \A k \in DOMAIN jobs :
            /\ jobs'[k].src = jobs[k].src /\ jobs'[k].due = jobs[k].due
            /\ jobs'[k].order = jobs[k].order
            /\ jobs'[k].at = jobs[k].at \/ jobs'[k].at = now
      BY <1>1
   <2>2. \A k \in DOMAIN jobs : kind = "discovery" /\ jobs[k].status = "completed" =>
            jobs'[k].status = "completed" /\ jobs'[k].at = jobs[k].at
      BY <1>1, <1>3
   <2> QED BY <1>1, <2>1, <2>2 DEF RowsStand, ScansRenewed
<1>5. HandsShrink /\ FlightsGoOn BY DEF HandsShrink, FlightsGoOn, Hand
<1>6. RecurrenceTypeOK'
   <2>1. DomainTypes' /\ TickTypes' BY <1>0 DEF DomainTypes, TickTypes
   <2> QED BY <1>0, <1>1, <2>1, TypesAreNext
<1>7. TicksAreAt'
   <2>1. \A k \in DOMAIN jobs : jobs[k].status = "pending" /\ jobs[k].work = "none" =>
            jobs'[k].status = "pending" /\ jobs'[k].work = "none"
      BY <1>1
   <2> QED BY <1>1, <1>2, <2>1, TicksStay
<1>8. HandsAreDue' /\ Overlaps' /\ TouchWillPass' /\ SourceWaits' /\ NotYetMade' /\ MadeOnce'
   BY <1>1, <1>2, <1>4, <1>5, HandsStayDue, OverlapsStay, TouchStillPasses,
      SourceStillWaits, StillNotMade, StillMadeOnce DEF HistoryGrows
<1>9. RowsAreMade'
   <2>1. kind = "discovery" =>
            \A k \in DOMAIN jobs :
               /\ jobs'[k].at = jobs[k].at \/ jobs'[k].at = now
               /\ jobs'[k].status = "completed" => jobs'[k].work = "none"
      BY <1>1 DEF RowsAreMade
   <2> QED BY <1>0, <1>1, <1>2, <1>4, <2>1, RowsStayMade
<1>10. PassedBy' BY <1>1, <1>2, <1>4, <1>5, StillPassedBy
<1> QED BY <1>6, <1>7, <1>8, <1>9, <1>10

LEMMA TakeStep ==
    ASSUME RecurrenceAssumption, IInv, NEW i \in DOMAIN jobs, Take(i) PROVE IInv'
<1> USE DEF IInv
<1>0. /\ RowTypes /\ CountTypes /\ Horizon \in Nat /\ now \in 0..Horizon
      /\ jobs[i] \in Rows
   BY TypesAre, ConstantsAre, RowIs DEF CountTypes
<1>1. jobs[i].work = "queued" /\ UNCHANGED <<kind, now, domain, tick, editor, edits, excused>>
   BY DEF Take
<1>2. kind = "discovery" => jobs[i].status # "completed" BY <1>1 DEF RowsAreMade
<1>3. CountTypes' BY <1>0, <1>1, FaultCounts DEF Take, NoFault, CountTypes
<1>4. CASE jobs' = [jobs EXCEPT ![i].work = "busy", ![i].status = "running",
                                ![i].at = IF kind = "scan" THEN now ELSE @]
   <2> DEFINE r == [jobs[i] EXCEPT !.work = "busy", !.status = "running",
                                   !.at = IF kind = "scan" THEN now ELSE @]
   <2>1. jobs' = [jobs EXCEPT ![i] = r] BY <1>0, <1>4 DEF RowTypes
   <2>2. r \in Rows BY <1>0 DEF Rows
   <2>3. /\ r.src = jobs[i].src /\ r.due = jobs[i].due /\ r.order = jobs[i].order
         /\ r.at = jobs[i].at \/ r.at = now
         /\ r.status = "running"
      BY <1>0 DEF Rows
   <2> HIDE DEF r
   <2> QED BY <1>1, <1>3, <2>1, <2>2, <2>3, WorkKeeps
<1>5. CASE jobs' = [jobs EXCEPT ![i].work = "busy"]
   <2> DEFINE r == [jobs[i] EXCEPT !.work = "busy"]
   <2>1. jobs' = [jobs EXCEPT ![i] = r] BY <1>0, <1>5 DEF RowTypes
   <2>2. r \in Rows BY <1>0 DEF Rows
   <2>3. /\ r.src = jobs[i].src /\ r.due = jobs[i].due /\ r.order = jobs[i].order
         /\ r.at = jobs[i].at /\ r.status = jobs[i].status
      BY <1>0 DEF Rows
   <2> HIDE DEF r
   <2> QED BY <1>1, <1>2, <1>3, <2>1, <2>2, <2>3, WorkKeeps
<1> QED BY <1>4, <1>5 DEF Take

LEMMA EndStep ==
    ASSUME RecurrenceAssumption, IInv, NEW i \in DOMAIN jobs, End(i) PROVE IInv'
<1> USE DEF IInv
<1>0. /\ RowTypes /\ CountTypes /\ Horizon \in Nat /\ now \in 0..Horizon
      /\ jobs[i] \in Rows
   BY TypesAre, ConstantsAre, RowIs DEF CountTypes
<1>1. jobs[i].work = "busy" /\ UNCHANGED <<kind, now, domain, tick, editor, edits, excused>>
   BY DEF End
<1>2. kind = "discovery" => jobs[i].status # "completed" BY <1>1 DEF RowsAreMade
<1>3. CountTypes' BY <1>0, <1>1, FaultCounts DEF End, NoFault, CountTypes
<1>4. PICK s \in Settled, w \in {"none", "queued"} :
         /\ s = "completed" => w = "none"
         /\ \/ jobs' = [jobs EXCEPT ![i].work = w, ![i].status = s, ![i].at = now]
            \/ jobs' = [jobs EXCEPT ![i].work = w]
   BY DEF End
<1>5. CASE jobs' = [jobs EXCEPT ![i].work = w, ![i].status = s, ![i].at = now]
   <2> DEFINE r == [jobs[i] EXCEPT !.work = w, !.status = s, !.at = now]
   <2>1. jobs' = [jobs EXCEPT ![i] = r] BY <1>0, <1>5 DEF RowTypes
   <2>2. r \in Rows BY <1>0 DEF Rows
   <2>3. /\ r.src = jobs[i].src /\ r.due = jobs[i].due /\ r.order = jobs[i].order
         /\ r.at = now /\ r.status = s /\ r.work = w
      BY <1>0 DEF Rows
   <2> HIDE DEF r
   <2> QED BY <1>1, <1>3, <1>4, <2>1, <2>2, <2>3, WorkKeeps
<1>6. CASE jobs' = [jobs EXCEPT ![i].work = w]
   <2> DEFINE r == [jobs[i] EXCEPT !.work = w]
   <2>1. jobs' = [jobs EXCEPT ![i] = r] BY <1>0, <1>6 DEF RowTypes
   <2>2. r \in Rows BY <1>0 DEF Rows
   <2>3. /\ r.src = jobs[i].src /\ r.due = jobs[i].due /\ r.order = jobs[i].order
         /\ r.at = jobs[i].at /\ r.status = jobs[i].status
      BY <1>0 DEF Rows
   <2> HIDE DEF r
   <2> QED BY <1>1, <1>2, <1>3, <2>1, <2>2, <2>3, WorkKeeps
<1> QED BY <1>4, <1>5, <1>6

LEMMA UserCreatesStep ==
    ASSUME RecurrenceAssumption, IInv, NEW o \in Orders, UserCreates(o) PROVE IInv'
<1> USE DEF IInv
<1>0. /\ RowTypes /\ TickTypes /\ DomainTypes /\ CountTypes /\ excused \subseteq Entries
      /\ Horizon \in Nat /\ now \in 0..Horizon /\ None \notin Nat /\ MaxEdits \in Nat
      /\ Period \in Nat
   BY TypesAre, ConstantsAre DEF CountTypes
<1> DEFINE r == Pending(None, 0, o, "queued")
<1>1. /\ Len(jobs) < MaxRows /\ jobs' = Append(jobs, r)
      /\ UNCHANGED <<kind, now, domain, tick, editor, excused>>
   BY DEF UserCreates
<1>2. r \in Rows /\ r.src = None /\ r.due = 0 /\ r.status = "pending"
   BY <1>0 DEF Pending, Rows
<1> HIDE DEF r
<1>3. PICK n : n = Len(jobs) + 1 OBVIOUS
<1>4. /\ RowTypes' /\ DOMAIN jobs' = DOMAIN jobs \union {n} /\ n \notin DOMAIN jobs
      /\ jobs'[n] = r /\ \A k \in DOMAIN jobs : jobs'[k] = jobs[k]
      /\ RowsStand /\ ScansRenewed
   BY <1>0, <1>1, <1>2, <1>3, RowAdded
<1>5. HistoryGrows BY <1>0, <1>1 DEF HistoryGrows
<1>6. CountTypes' BY <1>0 DEF CountTypes, UserCreates
<1>7. HandsShrink /\ FlightsGoOn BY <1>1 DEF HandsShrink, FlightsGoOn, Hand
<1>8. RecurrenceTypeOK'
   <2>1. DomainTypes' /\ TickTypes' BY <1>0, <1>1 DEF DomainTypes, TickTypes
   <2> QED BY <1>0, <1>1, <1>4, <1>6, <2>1, TypesAreNext
<1>9. TicksAreAt' BY <1>1, <1>4, <1>5, <1>6, TicksStay
<1>10. \A u \in Ticks : \A f \in Hand(u) : f \in Entries /\ f.src # None
   BY <1>0, ConstantsAre DEF Hand, TickTypes, TickRows, Entries, Sources
<1>11. HandsAreDue' /\ Overlaps' /\ SourceWaits'
   BY <1>4, <1>5, <1>7, HandsStayDue, OverlapsStay, SourceStillWaits DEF HistoryGrows
<1>12. TouchWillPass'
   <2>1. \A u \in Ticks : \A f \in Hand(u) : \A k \in (DOMAIN jobs') \ DOMAIN jobs :
            jobs'[k].src # f.src
      BY <1>2, <1>4, <1>10
   <2> QED BY <1>4, <1>5, <1>7, <2>1, TouchStillPasses
<1>13. NotYetMade'
   <2>1. EntryOf(n)' = [src |-> None, due |-> 0] BY <1>2, <1>4 DEF EntryOf
   <2>2. ASSUME NEW u \in Ticks, NEW f \in tick'[u].todo
         PROVE  EntryOf(n)' # [src |-> f.src, due |-> f.due]
      <3>1. f \in Hand(u) BY <1>1 DEF Hand
      <3>2. [src |-> f.src, due |-> f.due].src # None BY <1>10, <3>1
      <3> QED BY <2>1, <3>2
   <2> QED BY <1>4, <1>5, <1>7, <2>2, StillNotMade
<1>14. MadeOnce'
   <2> SUFFICES ASSUME NEW i \in DOMAIN jobs', NEW j \in DOMAIN jobs', jobs'[i].src # None,
                       EntryOf(i)' = EntryOf(j)', i # j
                PROVE  EntryOf(i)' \in excused'
      BY DEF MadeOnce
   <2>1. jobs'[j].src # None BY DEF EntryOf
   <2>2. i \in DOMAIN jobs /\ j \in DOMAIN jobs BY <1>2, <1>4, <2>1
   <2>3. EntryOf(i)' = EntryOf(i) /\ EntryOf(j)' = EntryOf(j) BY <1>4, <2>2 DEF EntryOf
   <2> QED BY <1>1, <1>4, <2>2, <2>3 DEF MadeOnce
<1>15. RowsAreMade'
   <2>1. WellMade(n)' BY <1>0, <1>1, <1>2, <1>4 DEF WellMade
   <2>2. kind = "discovery" => \A k \in DOMAIN jobs :
            /\ jobs'[k].at = jobs[k].at \/ jobs'[k].at = now
            /\ jobs'[k].status = "completed" => jobs'[k].work = "none"
      BY <1>4 DEF RowsAreMade
   <2> QED BY <1>0, <1>4, <1>5, <1>6, <2>1, <2>2, RowsStayMade
<1>16. PassedBy'
   <2>1. \A k \in (DOMAIN jobs') \ DOMAIN jobs : jobs'[k].src = None BY <1>2, <1>4
   <2> QED BY <1>1, <1>4, <1>5, <1>7, <2>1, StillPassedBy
<1> QED BY <1>8, <1>9, <1>11, <1>12, <1>13, <1>14, <1>15, <1>16

\* A request changes the domain, or reads it.
LEMMA DomainKeeps ==
    ASSUME RecurrenceAssumption, IInv, UNCHANGED <<kind, now, jobs, tick>>,
           CountTypes', DomainTypes', excused \subseteq excused', excused' \subseteq Entries,
           \/ Base(domain') = Base(domain)
           \/ Base(domain') = now
           \/ [src |-> Domain, due |-> After(Base(domain'))] \in excused'
    PROVE  IInv'
<1> USE DEF IInv
<1>0. RowTypes /\ TickTypes /\ CountTypes /\ Horizon \in Nat BY TypesAre, ConstantsAre
<1>1. HistoryGrows BY <1>0 DEF HistoryGrows, CountTypes
<1>2. HandsShrink /\ FlightsGoOn BY DEF HandsShrink, FlightsGoOn, Hand
<1>3. RecurrenceTypeOK' BY <1>0, TypesAreNext DEF RowTypes, TickTypes
<1>4. TicksAreAt' BY <1>1, TicksStay
<1>5. HandsAreDue' /\ Overlaps' /\ TouchWillPass' /\ SourceWaits' /\ NotYetMade' /\ MadeOnce'
   BY <1>1, <1>2, SameRows, HandsStayDue, OverlapsStay, TouchStillPasses,
      SourceStillWaits, StillNotMade, StillMadeOnce DEF HistoryGrows
<1>6. RowsAreMade'
   BY <1>0, <1>1, <1>3, SameRows, RowsStayMade, TypesAreNext DEF RowsAreMade
<1>7. PassedBy' BY <1>1, <1>2, SameRows, StillPassedBy
<1> QED BY <1>3, <1>4, <1>5, <1>6, <1>7

LEMMA EditSteps ==
    ASSUME RecurrenceAssumption, IInv, SetCadence \/ EditReads \/ EditSaves PROVE IInv'
<1> USE DEF IInv
<1>0. /\ CountTypes /\ DomainTypes /\ excused \subseteq Entries
      /\ Horizon \in Nat /\ now \in 0..Horizon /\ MaxEdits \in Nat /\ None \notin Nat
      /\ MaxRows \in Nat /\ Period \in Nat
   BY TypesAre, ConstantsAre DEF CountTypes
<1>1. CASE SetCadence
   <2>1. CountTypes' BY <1>0, <1>1 DEF SetCadence, CountTypes
   <2>2. domain \in DomainRows BY <1>0 DEF DomainTypes
   <2>3. domain' \in DomainRows /\ domain'.last = domain.last /\ domain'.updated = now
      BY <1>0, <1>1, <2>2 DEF SetCadence, DomainRows
   <2>4. DomainTypes' BY <1>0, <1>1, <2>3 DEF DomainTypes, SetCadence, DomainRows
   <2>5. Base(domain') = Base(domain) \/ Base(domain') = now BY <2>3 DEF Base
   <2> QED BY <1>0, <1>1, <2>1, <2>4, <2>5, DomainKeeps DEF SetCadence
<1>2. CASE EditReads
   <2>1. CountTypes' BY <1>0, <1>2 DEF EditReads, CountTypes
   <2>2. DomainTypes' BY <1>0, <1>2 DEF EditReads, DomainTypes, DomainRows
   <2> QED BY <1>0, <1>2, <2>1, <2>2, DomainKeeps DEF EditReads
<1>3. CASE EditSaves
   <2>1. CountTypes' BY <1>0, <1>3 DEF EditSaves, CountTypes
   <2>2. domain \in DomainRows /\ editor \in DomainRows BY <1>0, <1>3 DEF DomainTypes, EditSaves
   <2>3. domain' \in DomainRows /\ domain'.last = editor.last /\ domain'.updated = now
      BY <1>0, <1>3, <2>2 DEF EditSaves, DomainRows
   <2>4. DomainTypes' BY <1>0, <1>3, <2>3 DEF DomainTypes, EditSaves, DomainRows
   <2>5. Base(domain') \in 0..Horizon BY <1>0, <2>3 DEF Base, DomainRows
   <2>6. /\ After(Base(domain')) \in Nat /\ After(Base(domain')) <= Base(domain') + Period
      BY <1>0, <2>5, AfterIsAhead
   <2>7. After(Base(domain')) \in 0..(Horizon + Period) BY <1>0, <2>5, <2>6
   <2>8. [src |-> Domain, due |-> After(Base(domain'))] \in Entries
      BY <1>0, <2>7 DEF Entries, Sources, Domain
   <2>9. CASE editor.last = domain.last
      <3>1. excused' = excused BY <1>3, <2>9 DEF EditSaves
      <3>2. Base(domain') = Base(domain) \/ Base(domain') = now BY <2>3, <2>9 DEF Base
      <3> QED BY <1>0, <1>3, <2>1, <2>4, <3>1, <3>2, DomainKeeps DEF EditSaves
   <2>10. CASE editor.last # domain.last
      <3>1. excused' = excused \union {[src |-> Domain, due |-> After(Base(domain'))]}
         BY <1>3, <2>10 DEF EditSaves
      <3>2. excused' \subseteq Entries BY <1>0, <2>8, <3>1
      <3> QED BY <1>3, <2>1, <2>4, <3>1, <3>2, DomainKeeps DEF EditSaves
   <2> QED BY <2>9, <2>10
<1> QED BY <1>1, <1>2, <1>3

LEMMA CrashStep ==
    ASSUME RecurrenceAssumption, IInv, Crash PROVE IInv'
<1> USE DEF IInv
<1>0. /\ RowTypes /\ TickTypes /\ DomainTypes /\ CountTypes /\ excused \subseteq Entries
      /\ Horizon \in Nat /\ now \in 0..Horizon
   BY TypesAre, ConstantsAre DEF CountTypes
<1>1. /\ Fault /\ tick' = [t \in Ticks |-> Idle] /\ editor' = None
      /\ excused' = excused \union ({tick[t].cur : t \in Ticks} \ {None})
      /\ UNCHANGED <<kind, now, domain, edits>>
   BY DEF Crash
<1>2. PICK kept \in BOOLEAN :
         jobs' = [i \in DOMAIN jobs |->
                    IF jobs[i].work = "busy" \/ ~kept
                    THEN [jobs[i] EXCEPT !.work = "none"] ELSE jobs[i]]
   BY DEF Crash
<1>3. DOMAIN jobs' = DOMAIN jobs
      /\ \A k \in DOMAIN jobs :
            /\ jobs'[k] \in Rows
            /\ jobs'[k].src = jobs[k].src /\ jobs'[k].due = jobs[k].due
            /\ jobs'[k].order = jobs[k].order /\ jobs'[k].status = jobs[k].status
            /\ jobs'[k].at = jobs[k].at
            /\ jobs'[k].work = jobs[k].work \/ jobs'[k].work = "none"
   <2>1. ASSUME NEW k \in DOMAIN jobs
         PROVE  /\ jobs'[k] \in Rows
                /\ jobs'[k].src = jobs[k].src /\ jobs'[k].due = jobs[k].due
                /\ jobs'[k].order = jobs[k].order /\ jobs'[k].status = jobs[k].status
                /\ jobs'[k].at = jobs[k].at
                /\ jobs'[k].work = jobs[k].work \/ jobs'[k].work = "none"
      <3>1. jobs[k] \in Rows BY <1>0, RowIs
      <3>2. jobs'[k] = jobs[k] \/ jobs'[k] = [jobs[k] EXCEPT !.work = "none"] BY <1>2
      <3>3. CASE jobs'[k] = jobs[k] BY <3>1, <3>3
      <3>4. CASE jobs'[k] = [jobs[k] EXCEPT !.work = "none"] BY <3>1, <3>4 DEF Rows
      <3> QED BY <3>2, <3>3, <3>4
   <2> QED BY <1>2, <2>1
<1>4. RowTypes'
   <2>1. jobs \in Seq(Rows) /\ Len(jobs) \in Nat /\ DOMAIN jobs = 1..Len(jobs)
      BY <1>0 DEF RowTypes
   <2>2. jobs' \in [1..Len(jobs) -> Rows] BY <1>2, <1>3, <2>1
   <2>3. jobs' \in Seq(Rows) /\ Len(jobs') = Len(jobs) BY <2>1, <2>2
   <2>4. Rows' = Rows BY DEF Rows, Settled
   <2> QED BY <1>0, <2>3, <2>4 DEF RowTypes
<1>5. CountTypes' BY <1>0, <1>1, FaultCounts
<1>6. HistoryGrows BY <1>0, <1>1 DEF HistoryGrows
<1>7. RowsStand /\ ScansRenewed BY <1>3 DEF RowsStand, ScansRenewed
<1>8. \A t \in Ticks : /\ tick'[t] = Idle /\ tick'[t].todo = {} /\ tick'[t].cur = None
                       /\ tick'[t].pc = "idle" /\ tick'[t].now = 0 /\ Hand(t)' = {}
   <2>1. \A t \in Ticks : tick'[t] = Idle BY <1>1
   <2>2. Idle.todo = {} /\ Idle.cur = None /\ Idle.pc = "idle" /\ Idle.now = 0 BY <1>0, ReadingIs
   <2>3. \A t \in Ticks : Hand(t)' = {} BY <2>1, <2>2 DEF Hand
   <2> QED BY <2>1, <2>2, <2>3
<1>9. HandsShrink BY <1>8 DEF HandsShrink
<1>10. FlightsGoOn BY <1>1 DEF FlightsGoOn
<1>11. RecurrenceTypeOK'
   <2>1. Idle \in TickRows BY <1>0, ReadingIs
   <2>2. TickTypes' BY <1>1, <2>1 DEF TickTypes
   <2>3. excused' \subseteq Entries BY <1>0, <1>1 DEF TickTypes, TickRows
   <2>4. DomainTypes' BY <1>0, <1>1 DEF DomainTypes
   <2> QED BY <1>4, <1>5, <2>2, <2>3, <2>4, TypesAreNext
<1>12. TicksAreAt' BY <1>0, <1>1, <1>8 DEF TicksAreAt, Placed
<1>13. HandsAreDue' /\ Overlaps' /\ TouchWillPass' /\ SourceWaits' /\ NotYetMade' /\ MadeOnce'
   BY <1>3, <1>6, <1>7, <1>9, HandsStayDue, OverlapsStay, TouchStillPasses,
      SourceStillWaits, StillNotMade, StillMadeOnce DEF HistoryGrows
<1>14. RowsAreMade'
   <2>1. kind = "discovery" => \A k \in DOMAIN jobs :
            /\ jobs'[k].at = jobs[k].at \/ jobs'[k].at = now
            /\ jobs'[k].status = "completed" => jobs'[k].work = "none"
      BY <1>3 DEF RowsAreMade
   <2> QED BY <1>0, <1>3, <1>4, <1>5, <1>6, <1>7, <2>1, RowsStayMade
<1>15. PassedBy'
   <2>1. Base(domain') = Base(domain) BY <1>1
   <2> QED BY <1>3, <1>6, <1>7, <1>10, <2>1, StillPassedBy
<1> QED BY <1>11, <1>12, <1>13, <1>14, <1>15

-----------------------------------------------------------------------------
(***************************************************************************)
(* The theorems.                                                           *)
(***************************************************************************)
LEMMA InitIInv ==
    ASSUME RecurrenceAssumption, RecurrenceInit PROVE IInv
<1>0. /\ Horizon \in Nat /\ MaxRows \in Nat /\ MaxRows >= 1 /\ Period \in Nat
      /\ MaxFaults \in Nat /\ MaxEdits \in Nat /\ None \notin Nat /\ Min(Orders) \in Orders
   BY ConstantsAre
<1> DEFINE r == [status |-> "pending", at |-> 0, src |-> None, due |-> 0,
                 order |-> Min(Orders), work |-> "queued"]
<1>1. r \in Rows /\ r.src = None /\ r.due = 0 /\ r.status = "pending" BY <1>0 DEF Rows
<1>2. jobs = <<>> \/ jobs = <<r>> BY DEF RecurrenceInit
<1> HIDE DEF r
<1>3. /\ jobs \in Seq(Rows) /\ Len(jobs) \in {0, 1}
      /\ \A k \in DOMAIN jobs : jobs[k] = r
   <2>1. CASE jobs = <<>> BY <2>1
   <2>2. CASE jobs = <<r>> BY <1>1, <2>2
   <2> QED BY <1>2, <2>1, <2>2
<1>4. \A t \in Ticks : tick[t] = Idle BY DEF RecurrenceInit
<1>5. /\ Idle \in TickRows /\ Idle.todo = {} /\ Idle.cur = None /\ Idle.pc = "idle"
      /\ Idle.now = 0
   BY <1>0, ReadingIs
<1>6. \A t \in Ticks : Hand(t) = {} BY <1>4, <1>5 DEF Hand
<1>7. kind \in Dispatchers /\ now = 0 /\ editor = None /\ faults = 0 /\ edits = 0 /\ excused = {}
      /\ domain = [updated |-> 0, last |-> None] /\ tick = [t \in Ticks |-> Idle]
   BY DEF RecurrenceInit
<1>8. TickTypes BY <1>5, <1>7 DEF TickTypes
<1>9. DomainTypes /\ CountTypes BY <1>0, <1>7 DEF DomainTypes, DomainRows, CountTypes
<1>10. TicksAreAt BY <1>4, <1>5, <1>7 DEF TicksAreAt, Placed
<1>11. HandsAreDue /\ TouchWillPass /\ SourceWaits /\ Overlaps
   BY <1>6 DEF HandsAreDue, TouchWillPass, SourceWaits, Overlaps
<1>12. RowsAreMade /\ PassedBy /\ MadeOnce
   BY <1>1, <1>3, <1>7 DEF RowsAreMade, PassedBy, MadeOnce
<1>13. NotYetMade BY <1>4, <1>5 DEF NotYetMade
<1>14. RowTypes BY <1>0, <1>3 DEF RowTypes
<1> QED BY <1>0, <1>7, <1>8, <1>9, <1>10, <1>11, <1>12, <1>13, <1>14, TypesAre DEF IInv

LEMMA StepIInv ==
    ASSUME RecurrenceAssumption, IInv, [RecurrenceNext]_recurrenceVars PROVE IInv'
<1>1. ASSUME NEW t \in Ticks, Poll(t) PROVE IInv' BY <1>1, PollKeeps
<1>2. ASSUME NEW t \in Ticks, TickStep(t) PROVE IInv'
   BY <1>2, ReadStep, SendStep, TouchStep, CreateStep DEF TickStep
<1>3. ASSUME NEW i \in DOMAIN jobs, Take(i) \/ End(i) PROVE IInv' BY <1>3, TakeStep, EndStep
<1>4. ASSUME NEW o \in Orders, UserCreates(o) PROVE IInv' BY <1>4, UserCreatesStep
<1>5. CASE SetCadence \/ EditReads \/ EditSaves BY <1>5, EditSteps
<1>6. CASE Crash BY <1>6, CrashStep
<1>7. CASE UNCHANGED recurrenceVars
   <2>1. UNCHANGED <<kind, now, jobs, tick, domain, editor, faults, edits, excused>>
      BY <1>7 DEF recurrenceVars
   <2>2. CountTypes' /\ DomainTypes' /\ excused \subseteq Entries
      BY <2>1, TypesAre DEF IInv, CountTypes, DomainTypes, DomainRows
   <2>3. Base(domain') = Base(domain) BY <2>1
   <2> QED BY <2>1, <2>2, <2>3, DomainKeeps
<1> QED BY <1>1, <1>2, <1>3, <1>4, <1>5, <1>6, <1>7 DEF RecurrenceNext

\* Whatever the number of goroutines, the period and the bounds, the invariant
\* holds throughout.
THEOREM Inductive == RecurrenceSpec => []IInv
<1>1. RecurrenceInit => IInv BY InitIInv, RecurrenceAssumption
<1>2. IInv /\ [RecurrenceNext]_recurrenceVars => IInv' BY StepIInv, RecurrenceAssumption
<1> QED BY <1>1, <1>2, PTL DEF RecurrenceSpec

\* In particular every variable has its type: no clock of a row runs ahead, and
\* what is due lies within a period of the horizon.
THEOREM RecurrenceTypes == RecurrenceSpec => []RecurrenceTypeOK
<1>1. IInv => RecurrenceTypeOK BY DEF IInv
<1> QED BY <1>1, Inductive, PTL

\* A set without two members has one at most.
LEMMA AtMostOne ==
    ASSUME NEW S, \A i, j \in S : i = j PROVE ~ (Cardinality(S) > 1)
<1>1. CASE S = {} BY <1>1, FS_EmptySet
<1>2. CASE S # {}
   <2>1. PICK i \in S : TRUE BY <1>2
   <2>2. S = {i} BY <2>1
   <2>3. Cardinality({i}) = 1 BY FS_Singleton
   <2> QED BY <2>2, <2>3
<1> QED BY <1>1, <1>2

\* A due time makes a second job only for a known reason: the touch failed, the
\* process died between create and touch, two ticks overlapped, a save put back
\* what it had read, or a discovery had not completed yet.
THEOREM RepeatIsExcusedHolds == RecurrenceSpec => []RepeatIsExcused
<1>1. ASSUME IInv PROVE RepeatIsExcused
   <2> SUFFICES ASSUME NEW k \in DOMAIN jobs, jobs[k].src # None, EntryOf(k) \notin excused
                PROVE  ~ (Cardinality(Made(EntryOf(k))) > 1)
      BY DEF RepeatIsExcused, Sent, EntryOf
   <2>1. ASSUME NEW i \in Made(EntryOf(k)), NEW j \in Made(EntryOf(k)) PROVE i = j
      <3>1. /\ i \in DOMAIN jobs /\ jobs[i].src = jobs[k].src /\ jobs[i].due = jobs[k].due
            /\ j \in DOMAIN jobs /\ jobs[j].src = jobs[k].src /\ jobs[j].due = jobs[k].due
         BY DEF Made, EntryOf
      <3>2. EntryOf(i) = EntryOf(k) /\ EntryOf(j) = EntryOf(k) BY <3>1 DEF EntryOf
      <3> QED BY <1>1, <3>1, <3>2 DEF IInv, MadeOnce
   <2> QED BY <2>1, AtMostOne
<1> QED BY <1>1, Inductive, PTL

\* The state at rest is one of its types.
LEMMA RestTypes == AtRest => RecurrenceTypeOK
<1>1. /\ Horizon \in Nat /\ MaxRows \in Nat /\ MaxFaults \in Nat /\ MaxEdits \in Nat
  BY RecurrenceAssumption
<1>2. SUFFICES ASSUME AtRest PROVE RecurrenceTypeOK OBVIOUS
<1>3. kind \in Dispatchers BY <1>2, MCDispatchAssumption DEF AtRest
<1>4. jobs \in Seq(Rows) /\ Len(jobs) <= MaxRows BY <1>1, <1>2 DEF AtRest
<1>5. domain \in DomainRows BY <1>1, <1>2 DEF AtRest, DomainRows
<1>6. tick \in [Ticks -> [pc : {"idle", "read", "next", "send", "touch"},
                         now : 0..Horizon, todo : SUBSET Entries,
                         cur : Entries \union {None}, job : (1..MaxRows) \union {None}]]
  <2>1. Idle \in [pc : {"idle", "read", "next", "send", "touch"},
                  now : 0..Horizon, todo : SUBSET Entries,
                  cur : Entries \union {None}, job : (1..MaxRows) \union {None}]
    BY <1>1 DEF Idle
  <2> QED BY <1>2, <2>1 DEF AtRest
<1>7. /\ now \in 0..Horizon /\ editor \in DomainRows \union {None}
      /\ faults \in 0..MaxFaults /\ edits \in 0..MaxEdits /\ excused \subseteq Entries
  BY <1>1, <1>2 DEF AtRest
<1> QED BY <1>3, <1>4, <1>5, <1>6, <1>7 DEF RecurrenceTypeOK

\* Every variable of the discovery run and of the dispatchers keeps its type in
\* the behaviours of either, while those of the other rest (Engine.Run;
\* dispatchScheduledScans, dispatchDomainCronScans, DispatchContinuousDiscovery).
THEOREM DispatchTypes == DispatchSpec => []DispatchTypeOK
<1> DEFINE DInv == /\ part \in {"discovery", "recurrence"} /\ RunInv
                   /\ part = "discovery" => AtRest
                   /\ part = "recurrence" => IInv
<1>1. DispatchInit => DInv
  BY InitRunInv, InitIInv, RecurrenceAssumption DEF DispatchInit
<1>2. ASSUME DInv, [DispatchNext]_<<part, discoveryVars, recurrenceVars>> PROVE DInv'
  <2>1. part' = part BY <1>2 DEF DispatchNext
  <2>2. [Next]_vars BY <1>2 DEF DispatchNext, discoveryVars
  <2>3. RunInv' BY <1>2, <2>2, StepRunInv
  <2>4. part = "discovery" => AtRest'
    <3>1. part = "discovery" => UNCHANGED recurrenceVars BY <1>2 DEF DispatchNext
    <3> QED BY <1>2, <3>1 DEF AtRest, recurrenceVars, Idle
  <2>5. part = "recurrence" => IInv'
    <3>1. part = "recurrence" => [RecurrenceNext]_recurrenceVars BY <1>2 DEF DispatchNext
    <3> QED BY <1>2, <3>1, StepIInv, RecurrenceAssumption
  <2> QED BY <1>2, <2>1, <2>3, <2>4, <2>5
<1>3. DInv => DispatchTypeOK
  <2>1. RunInv => TypeOK BY TypesAreTypeOK DEF RunInv
  <2>2. IInv => RecurrenceTypeOK BY DEF IInv
  <2> QED BY <2>1, <2>2, RestTypes DEF DispatchTypeOK
<1> QED BY <1>1, <1>2, <1>3, PTL DEF DispatchSpec
=============================================================================
