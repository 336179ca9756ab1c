------------------------- MODULE ScanLifecycleProofs -------------------------
(***************************************************************************)
(* Proofs about ScanLifecycle, for any scans, requests, limit and retry    *)
(* budget, and any number of faults and restarts.                          *)
(*                                                                         *)
(* None of the properties the runs check is inductive: CancelReaches needs *)
(* to know that a handler runs only what the queue calls active, the row   *)
(* of an honest scan has to be known at every step of its handler, and     *)
(* that a completed scan stays so needs a copy of it that is over.  IInv   *)
(* says these things; Inductive proves it, and the theorems at the end     *)
(* follow from it.                                                         *)
(***************************************************************************)
EXTENDS ScanLifecycle, FiniteSetTheorems, TLAPS

-----------------------------------------------------------------------------
(* The inductive invariant. *)

Busy == {c \in Copies : pc[c] \in {"check", "run"}}

\* Its try is over for good, or is about to be reported as a success.
Settled(c) == qstate[c] \in {"done", "dead", "lost"} \/ (pc[c] = "return" /\ verdict[c] = "completed")

\* The request, the row, the queue and the worker take a scan on in this order.
OrderFacts ==
    /\ \A c \in Copies : pc[c] # "off" <=> qstate[c] = "active"
    /\ \A c \in Copies : pc[c] = "write" => verdict[c] # "none"
    /\ \A c \in Copies : qstate[c] # "absent" => api[c[1]] = "answered" /\ row[c[1]] # "none"
    /\ \A s \in Scans : api[s] \in {"none", "admitted"} => row[s] = "none"
    /\ \A s \in Scans : api[s] = "inserted" => row[s] # "none"
    /\ \A k \in Requests : target[k] # None <=> cpc[k] \in {"read", "signalled"}
    /\ \A k \in Requests : target[k] # None => row[target[k]] # "none"

RegistryFacts ==
    /\ \A s \in Scans : cancels[s] # None => cancels[s] \in CopiesOf(s) /\ InHandler(cancels[s])
    /\ \A c \in Copies :
         InHandler(c) /\ (\A d \in CopiesOf(c[1]) \ {c} : qstate[d] = "absent")
            => cancels[c[1]] = c \/ stopped[c]

SettledFacts == \A s \in Scans : row[s] = "completed" => \E c \in CopiesOf(s) : Settled(c)

\* What can go wrong with a scan is on record.
ExcuseFacts ==
    /\ closing => Scans \subseteq excused
    /\ \A c \in Copies : stopped[c] => c[1] \in excused
    /\ \A k \in Requests : target[k] # None => target[k] \in excused
    /\ \A s \in Scans : qstate[<<s, 2>>] # "absent" => s \in excused

\* Where the row of a scan is when nothing went wrong with it.
HonestRow(s) ==
    LET c == <<s, 1>> IN
    /\ qstate[c] = "absent" => row[s] \in {"none", "pending"}
    /\ qstate[c] = "waiting" => row[s] = "pending"
    /\ pc[c] \in {"due", "load", "mark"} => row[s] \in {"pending", "failed"}
    /\ pc[c] \in {"check", "run", "write"} => row[s] = "running"
    /\ pc[c] = "write" => verdict[c] \in {"completed", "failed"}
    /\ pc[c] = "return" => row[s] = verdict[c] /\ verdict[c] \in {"completed", "failed"}
    /\ qstate[c] = "done" => row[s] = "completed"
    /\ qstate[c] = "dead" => row[s] = "failed" /\ tries[c] = MaxRetry + 1
    /\ qstate[c] # "lost"

HonestFacts == \A s \in Scans \ excused : HonestRow(s)

GaugeFacts ==
    /\ IsFiniteSet(Busy) /\ gauge >= Cardinality(Busy)
    /\ excused = {} => gauge = Cardinality(Busy)

IInv == TypeOK /\ OrderFacts /\ RegistryFacts /\ SettledFacts /\ ExcuseFacts /\ HonestFacts
        /\ GaugeFacts
-----------------------------------------------------------------------------
\* A copy names its scan; None is neither.
LEMMA CopyFacts ==
    /\ \A c \in Copies : c[1] \in Scans /\ c \in CopiesOf(c[1])
    /\ \A s \in Scans : \A c \in CopiesOf(s) : c \in Copies /\ c[1] = s /\ c \in {<<s, 1>>, <<s, 2>>}
    /\ \A s \in Scans : <<s, 1>> \in CopiesOf(s) /\ <<s, 2>> \in CopiesOf(s) /\ <<s, 1>> # <<s, 2>>
    /\ \A s \in Scans : <<s, 1>> \in Copies /\ <<s, 2>> \in Copies /\ <<s, 1>>[1] = s /\ <<s, 2>>[1] = s
    /\ None \notin Copies /\ None \notin Scans
  BY ScanAssumption DEF Copies, CopiesOf

LEMMA NumberFacts == MaxRetry \in Nat /\ MaxFaults \in Nat /\ MaxRestarts \in Nat
  BY ScanAssumption

\* TypeOK in three parts, so that a step proves only those it touches.
RowTypes ==
    /\ row \in [Scans -> Statuses \cup {"none"}]
    /\ api \in [Scans -> {"none", "admitted", "inserted", "answered"}]
    /\ cpc \in [Requests -> {"new", "read", "signalled", "done"}]
    /\ target \in [Requests -> Scans \cup {None}]
    /\ told \subseteq Scans

RunTypes ==
    /\ qstate \in [Copies -> Queue!States] /\ tries \in [Copies -> 0..(MaxRetry + 1)]
    /\ pc \in [Copies -> PCs] /\ stopped \in [Copies -> BOOLEAN]
    /\ verdict \in [Copies -> {"none", "completed", "failed", "cancelled"}]
    /\ cancels \in [Scans -> Copies \cup {None}]

CountTypes ==
    /\ gauge \in Nat /\ excused \subseteq Scans
    /\ closing \in BOOLEAN /\ faults \in 0..MaxFaults /\ restarts \in 0..MaxRestarts

LEMMA TypesAre ==
    /\ TypeOK => RowTypes /\ RunTypes /\ CountTypes
    /\ RowTypes' /\ RunTypes' /\ CountTypes' => TypeOK'
  BY DEF TypeOK, RowTypes, RunTypes, CountTypes

\* A fault stays within its bound and only adds to what is excused.
LEMMA FaultFacts ==
    ASSUME CountTypes, NEW s \in Scans, Fault(s) \/ NoFault
    PROVE  faults' \in 0..MaxFaults /\ excused' \subseteq Scans /\ excused \subseteq excused'
  BY NumberFacts DEF CountTypes, Fault, NoFault, Excuse

\* A step that leaves the scan's row and first copy alone leaves it honest.
LEMMA HonestFrame ==
    ASSUME NEW s \in Scans, HonestRow(s), row'[s] = row[s],
           pc'[<<s, 1>>] = pc[<<s, 1>>], qstate'[<<s, 1>>] = qstate[<<s, 1>>],
           verdict'[<<s, 1>>] = verdict[<<s, 1>>], tries'[<<s, 1>>] = tries[<<s, 1>>]
    PROVE  HonestRow(s)'
  BY DEF HonestRow

\* The gauge against the running handlers, in a step that changes neither.
LEMMA GaugeFrame ==
    ASSUME GaugeFacts, Busy' = Busy, gauge' = gauge, excused \subseteq excused'
    PROVE  GaugeFacts'
  BY DEF GaugeFacts

\* The second copy of a scan exists only when the scan is excused.
LEMMA OnlyFirst ==
    ASSUME IInv, NEW s \in Scans \ excused, NEW c \in Copies, qstate[c] # "absent", c # <<s, 1>>
    PROVE  c[1] # s
  BY CopyFacts DEF IInv, ExcuseFacts

-----------------------------------------------------------------------------
(* The handler between its first and its last statement. *)

Inside(c) ==
    \/ Load(c) \/ Mark(c) \/ Check(c) \/ RunEnds(c) \/ RunPanics(c) \/ TimesOut(c) \/ WriteFinal(c)

\* What these steps have in common.
LEMMA InsideShape ==
    ASSUME IInv, NEW c \in Copies, Inside(c)
    PROVE  /\ qstate[c] = "active" /\ InHandler(c) /\ row[c[1]] # "none" /\ ~Settled(c)
           /\ \E l \in PCs \ {"off", "due"} : pc' = [pc EXCEPT ![c] = l]
           /\ row' = row \/ \E v \in Statuses : row' = [row EXCEPT ![c[1]] = v]
           /\ stopped' = stopped \/ (stopped' = [stopped EXCEPT ![c] = TRUE] /\ c[1] \in excused')
           /\ \E v \in {"none", "completed", "failed", "cancelled"} :
                verdict' = [verdict EXCEPT ![c] = v]
           /\ faults' \in 0..MaxFaults /\ excused' \subseteq Scans /\ excused \subseteq excused'
           /\ UNCHANGED <<api, qstate, tries, cancels, cpc, target, told, closing, restarts>>
  <1> USE CopyFacts DEF queueVars, runVars, reqVars, envVars, GoTo, Inside
  <1>a. RowTypes /\ RunTypes /\ CountTypes
    BY TypesAre DEF IInv
  <1>1. InHandler(c) /\ pc[c] # "return"
    BY DEF Load, Mark, Check, RunEnds, RunPanics, TimesOut, WriteFinal, InHandler
  <1>2. qstate[c] = "active" /\ row[c[1]] # "none" /\ ~Settled(c)
    BY <1>1 DEF IInv, OrderFacts, InHandler, Settled
  <1>3. \E l \in PCs \ {"off", "due"} : pc' = [pc EXCEPT ![c] = l]
    <2>1. CASE TimesOut(c)
      BY <2>1, <1>1, <1>a DEF TimesOut, RunTypes, PCs
    <2>2. CASE ~TimesOut(c)
      BY <2>2 DEF Load, Mark, Check, RunEnds, RunPanics, WriteFinal, PCs
    <2>3. QED
      BY <2>1, <2>2
  <1>4. row' = row \/ \E v \in Statuses : row' = [row EXCEPT ![c[1]] = v]
    <2>1. CASE WriteFinal(c)
      <3>1. verdict[c] \in Statuses
        BY <2>1, <1>a DEF IInv, OrderFacts, RunTypes, WriteFinal, Statuses
      <3>2. QED
        BY <2>1, <3>1 DEF WriteFinal
    <2>2. CASE ~WriteFinal(c)
      BY <2>2 DEF Load, Mark, Check, RunEnds, RunPanics, TimesOut, Statuses
    <2>3. QED
      BY <2>1, <2>2
  <1>5. stopped' = stopped \/ (stopped' = [stopped EXCEPT ![c] = TRUE] /\ c[1] \in excused')
    BY DEF Load, Mark, Check, RunEnds, RunPanics, TimesOut, WriteFinal, Fault, Excuse
  <1>6. \E v \in {"none", "completed", "failed", "cancelled"} : verdict' = [verdict EXCEPT ![c] = v]
    <2>1. CASE RunEnds(c)
      BY <2>1 DEF RunEnds
    <2>2. CASE ~RunEnds(c)
      BY <2>2, <1>a DEF Load, Mark, Check, RunPanics, TimesOut, WriteFinal, RunTypes
    <2>3. QED
      BY <2>1, <2>2
  <1>7. faults' \in 0..MaxFaults /\ excused' \subseteq Scans /\ excused \subseteq excused'
    <2>1. Fault(c[1]) \/ NoFault
      BY DEF Load, Mark, Check, RunEnds, RunPanics, TimesOut, WriteFinal, NoFault
    <2>2. QED
      BY <2>1, <1>a, FaultFacts
  <1>8. UNCHANGED <<api, qstate, tries, cancels, cpc, target, told, closing, restarts>>
    BY DEF Load, Mark, Check, RunEnds, RunPanics, TimesOut, WriteFinal
  <1>9. QED
    BY <1>1, <1>2, <1>3, <1>4, <1>5, <1>6, <1>7, <1>8

LEMMA InsideTypes ==
    ASSUME IInv, NEW c \in Copies, Inside(c)
    PROVE  TypeOK'
  <1> USE InsideShape, CopyFacts
  <1>a. RowTypes /\ RunTypes /\ CountTypes
    BY TypesAre DEF IInv
  <1>1. RowTypes'
    <2>1. row' \in [Scans -> Statuses \cup {"none"}]
      BY <1>a DEF RowTypes
    <2>2. QED
      BY <2>1, <1>a DEF RowTypes
  <1>2. RunTypes'
    <2>1. pc' \in [Copies -> PCs]
      BY <1>a DEF RunTypes
    <2>2. stopped' \in [Copies -> BOOLEAN]
      <3>1. stopped' = stopped \/ stopped' = [stopped EXCEPT ![c] = TRUE]
        OBVIOUS
      <3>2. stopped \in [Copies -> BOOLEAN]
        BY <1>a DEF RunTypes
      <3> HIDE InsideShape, CopyFacts
      <3>3. QED
        BY <3>1, <3>2
    <2>3. verdict' \in [Copies -> {"none", "completed", "failed", "cancelled"}]
      BY <1>a DEF RunTypes
    <2>4. QED
      BY <2>1, <2>2, <2>3, <1>a DEF RunTypes
  <1>3. gauge' \in Nat
    <2>1. CASE RunEnds(c)
      <3>1. IsFiniteSet(Busy) /\ c \in Busy /\ gauge >= Cardinality(Busy)
        BY <2>1 DEF IInv, GaugeFacts, Busy, RunEnds
      <3>2. Cardinality(Busy) \in Nat /\ Cardinality(Busy) # 0
        BY <3>1, FS_CardinalityType, FS_EmptySet
      <3>3. QED
        BY <2>1, <3>1, <3>2, <1>a DEF CountTypes, RunEnds
    <2>2. CASE ~RunEnds(c)
      BY <2>2, <1>a DEF Inside, CountTypes, Load, Mark, Check, RunPanics, TimesOut, WriteFinal
    <2>3. QED
      BY <2>1, <2>2
  <1>4. CountTypes'
    BY <1>3, <1>a DEF CountTypes
  <1>5. QED
    BY <1>1, <1>2, <1>4, TypesAre

\* A step of the handler keeps the invariant: the row moves with the handler, the gauge with its
\* second and fifth statement, and only WriteFinal can complete a scan.
LEMMA InsideKeeps ==
    ASSUME IInv, NEW c \in Copies, Inside(c)
    PROVE  IInv'
  <1> USE CopyFacts
  <1>a. RowTypes /\ RunTypes /\ CountTypes
    BY TypesAre DEF IInv
  <1>b. PICK l \in PCs \ {"off", "due"} : pc' = [pc EXCEPT ![c] = l]
    BY InsideShape
  <1>c. /\ qstate[c] = "active" /\ InHandler(c) /\ row[c[1]] # "none" /\ ~Settled(c)
        /\ UNCHANGED <<api, qstate, tries, cancels, cpc, target, told, closing, restarts>>
        /\ excused \subseteq excused'
    BY InsideShape
  <1>d. /\ stopped' = stopped \/ (stopped' = [stopped EXCEPT ![c] = TRUE] /\ c[1] \in excused')
        /\ row' = row \/ \E v \in Statuses : row' = [row EXCEPT ![c[1]] = v]
    BY InsideShape
  <1>1. TypeOK'
    BY InsideTypes
  <1>2. OrderFacts'
    <2>1. \A d \in Copies : pc'[d] = "write" => verdict'[d] # "none"
      <3>1. CASE RunEnds(c)
        BY <3>1, <1>a DEF IInv, OrderFacts, RunEnds, RunTypes, GoTo
      <3>2. CASE WriteFinal(c) \/ RunPanics(c) \/ Load(c) \/ Mark(c) \/ Check(c)
        BY <3>2, <1>a DEF IInv, OrderFacts, WriteFinal, RunPanics, Load, Mark, Check, RunTypes, GoTo
      <3>3. CASE TimesOut(c)
        BY <3>3, <1>a DEF IInv, OrderFacts, TimesOut, RunTypes
      <3>4. QED
        BY <3>1, <3>2, <3>3 DEF Inside
    <2>2. \A s \in Scans : (row'[s] = "none") = (row[s] = "none")
      BY <1>c, <1>d, <1>a DEF RowTypes, Statuses
    <2>3. \A d \in Copies : pc'[d] # "off" <=> qstate[d] = "active"
      BY <1>b, <1>c, <1>a DEF IInv, OrderFacts, RunTypes
    <2>4. QED
      BY <2>1, <2>2, <2>3, <1>c, <1>a DEF IInv, OrderFacts, RowTypes
  <1>3. RegistryFacts'
    <2>1. \A d \in Copies : InHandler(d)' = InHandler(d)
      BY <1>b, <1>c, <1>a DEF InHandler, RunTypes, PCs
    <2>2. \A d \in Copies : stopped[d] => stopped'[d]
      BY <1>d, <1>a DEF RunTypes
    <2>3. QED
      BY <2>1, <2>2, <1>c, <1>a DEF IInv, RegistryFacts, RunTypes
  <1>4. SettledFacts'
    <2>1. \A d \in Copies : Settled(d) => Settled(d)'
      <3>1. \A d \in Copies \ {c} : pc'[d] = pc[d] /\ verdict'[d] = verdict[d]
        BY <1>b, <1>a, InsideShape DEF RunTypes
      <3>2. QED
        BY <3>1, <1>c DEF Settled
    <2>2. ASSUME NEW s \in Scans, row'[s] = "completed", row[s] # "completed"
          PROVE  s = c[1] /\ Settled(c)'
      <3>1. WriteFinal(c)
        BY <2>2, <1>a DEF Inside, Load, Mark, Check, RunEnds, RunPanics, TimesOut, RowTypes
      <3>2. QED
        BY <2>2, <3>1, <1>a DEF WriteFinal, GoTo, Settled, RowTypes, RunTypes
    <2>3. QED
      BY <2>1, <2>2 DEF IInv, SettledFacts
  <1>5. ExcuseFacts'
    BY <1>c, <1>d, <1>a DEF IInv, ExcuseFacts, RunTypes
  <1>6. HonestFacts'
    <2> SUFFICES ASSUME NEW s \in Scans \ excused, s \notin excused' PROVE HonestRow(s)'
      BY <1>c DEF HonestFacts
    <2>1. CASE c = <<s, 1>>
      <3>1. HonestRow(s) /\ c[1] = s /\ row \in [Scans -> Statuses \cup {"none"}]
        BY <2>1, <1>a DEF IInv, HonestFacts, RowTypes
      <3>2. ~Fault(s)
        BY DEF Fault, Excuse
      <3>3. ~CtxErr(c)
        BY <3>1, <2>1 DEF IInv, ExcuseFacts, CtxErr
      <3>4. verdict' = verdict \/ RunEnds(c)
        BY DEF Inside, Load, Mark, Check, RunPanics, TimesOut, WriteFinal, runVars
      <3> USE <1>a, <1>b, <1>c, <2>1, <3>1, <3>2 DEF HonestRow, RunTypes, GoTo
      <3>5. CASE Load(c) \/ Mark(c)
        BY <3>5, <3>4 DEF Load, Mark, RunEnds
      <3>6. CASE Check(c)
        BY <3>6, <3>3 DEF Check
      <3>7. CASE RunEnds(c)
        BY <3>7, <3>3 DEF RunEnds
      <3>8. CASE WriteFinal(c)
        BY <3>8 DEF WriteFinal
      <3>9. QED
        BY <3>5, <3>6, <3>7, <3>8 DEF Inside, RunPanics, TimesOut
    <2>2. CASE c # <<s, 1>>
      <3>1. c[1] # s
        BY <2>2, <1>c, OnlyFirst
      <3>2. row'[s] = row[s]
        BY <3>1, <1>a, <1>d DEF RowTypes
      <3>3. pc'[<<s, 1>>] = pc[<<s, 1>>]
        BY <2>2, <1>a, <1>b DEF RunTypes
      <3>4. verdict'[<<s, 1>>] = verdict[<<s, 1>>]
        <4>1. PICK v \in {"none", "completed", "failed", "cancelled"} :
                verdict' = [verdict EXCEPT ![c] = v]
          BY InsideShape
        <4>2. QED
          BY <4>1, <2>2, <1>a DEF RunTypes
      <3>5. QED
        BY <3>2, <3>3, <3>4, <1>c, HonestFrame DEF IInv, HonestFacts
    <2>3. QED
      BY <2>1, <2>2
  <1>7. GaugeFacts'
    <2>1. IsFiniteSet(Busy) /\ gauge >= Cardinality(Busy) /\ gauge \in Nat
      BY <1>a DEF IInv, GaugeFacts, CountTypes
    <2>2. CASE Load(c) \/ TimesOut(c) \/ WriteFinal(c) \/ (Check(c) /\ ~CtxErr(c))
      <3>1. Busy' = Busy /\ gauge' = gauge
        BY <2>2, <1>a DEF Load, TimesOut, WriteFinal, Check, GoTo, RunTypes, Busy
      <3>2. QED
        BY <3>1, <1>c, GaugeFrame DEF IInv
    <2>3. CASE Mark(c)
      <3>1. Busy' = Busy \cup {c} /\ c \notin Busy /\ gauge' = gauge + 1
        BY <2>3, <1>a DEF Mark, GoTo, RunTypes, Busy
      <3>2. IsFiniteSet(Busy') /\ Cardinality(Busy') = Cardinality(Busy) + 1
        BY <3>1, <2>1, FS_AddElement
      <3>3. Cardinality(Busy) \in Nat
        BY <2>1, FS_CardinalityType
      <3>4. QED
        BY <3>1, <3>2, <3>3, <2>1, <1>c DEF IInv, GaugeFacts
    <2>4. CASE RunEnds(c) \/ RunPanics(c) \/ (Check(c) /\ CtxErr(c))
      <3>1. Busy' = Busy \ {c} /\ c \in Busy
        BY <2>4, <1>a DEF RunEnds, RunPanics, Check, GoTo, RunTypes, Busy
      <3>2. IsFiniteSet(Busy') /\ Cardinality(Busy') = Cardinality(Busy) - 1
        BY <3>1, <2>1, FS_RemoveElement
      <3>3. Cardinality(Busy) \in Nat
        BY <2>1, FS_CardinalityType
      <3>4. gauge' = gauge - 1 \/ (gauge' = gauge /\ excused' # {})
        <4>1. CASE RunEnds(c)
          BY <4>1 DEF RunEnds
        <4>2. CASE RunPanics(c)
          BY <4>2 DEF RunPanics, Fault, Excuse
        <4>3. CASE Check(c) /\ CtxErr(c)
          BY <4>3, <1>c DEF Check, CtxErr, IInv, ExcuseFacts
        <4>4. QED
          BY <2>4, <4>1, <4>2, <4>3
      <3>5. QED
        BY <3>2, <3>3, <3>4, <2>1, <1>c DEF IInv, GaugeFacts
    <2>5. QED
      BY <2>2, <2>3, <2>4 DEF Inside
  <1>8. QED
    BY <1>1, <1>2, <1>3, <1>4, <1>5, <1>6, <1>7 DEF IInv

-----------------------------------------------------------------------------
(* The worker around the handler. *)

\* A worker pops a waiting copy.
LEMMA TakeUpKeeps ==
    ASSUME IInv, NEW c \in Copies, TakeUp(c)
    PROVE  IInv'
  <1> USE CopyFacts DEF queueVars, runVars, reqVars, envVars, GoTo
  <1>a. RowTypes /\ RunTypes /\ CountTypes
    BY TypesAre DEF IInv
  <1>b. /\ qstate[c] = "waiting" /\ qstate' = [qstate EXCEPT ![c] = "active"]
        /\ pc[c] = "off" /\ pc' = [pc EXCEPT ![c] = "due"]
        /\ UNCHANGED <<row, api, tries, stopped, verdict, cancels, gauge, cpc, target, told,
                       excused, faults, closing, restarts>>
    BY DEF TakeUp, Queue!TakeUp, Queue!Move, IInv, OrderFacts
  <1>1. TypeOK'
    <2>1. RowTypes' /\ CountTypes'
      BY <1>a, <1>b DEF RowTypes, CountTypes
    <2>2. RunTypes'
      BY <1>a, <1>b DEF RunTypes, PCs, Queue!States
    <2>3. QED
      BY <2>1, <2>2, TypesAre
  <1>2. OrderFacts'
    BY <1>a, <1>b DEF IInv, OrderFacts, RunTypes
  <1>3. RegistryFacts'
    BY <1>a, <1>b DEF IInv, RegistryFacts, RunTypes, InHandler
  <1>4. SettledFacts'
    BY <1>a, <1>b DEF IInv, SettledFacts, Settled, RunTypes
  <1>5. ExcuseFacts'
    BY <1>a, <1>b DEF IInv, ExcuseFacts, RunTypes
  <1>6. HonestFacts'
    <2> SUFFICES ASSUME NEW s \in Scans \ excused PROVE HonestRow(s)'
      BY <1>b DEF HonestFacts
    <2>1. HonestRow(s)
      BY DEF IInv, HonestFacts
    <2>2. CASE c = <<s, 1>>
      BY <2>1, <2>2, <1>a, <1>b DEF HonestRow, RunTypes
    <2>3. CASE c # <<s, 1>>
      BY <2>1, <2>3, <1>a, <1>b, HonestFrame DEF RunTypes
    <2>4. QED
      BY <2>2, <2>3
  <1>7. GaugeFacts'
    <2>1. Busy' = Busy
      BY <1>a, <1>b DEF Busy, RunTypes
    <2>2. QED
      BY <2>1, <1>b, GaugeFrame DEF IInv
  <1>8. QED
    BY <1>1, <1>2, <1>3, <1>4, <1>5, <1>6, <1>7 DEF IInv

\* The handler is called: it registers its cancel function, over the entry of another copy if
\* the scan has one.
LEMMA BeginKeeps ==
    ASSUME IInv, NEW c \in Copies, Begin(c)
    PROVE  IInv'
  <1> USE CopyFacts DEF queueVars, runVars, reqVars, envVars, GoTo
  <1>a. RowTypes /\ RunTypes /\ CountTypes
    BY TypesAre DEF IInv
  <1>b. /\ pc[c] = "due" /\ pc' = [pc EXCEPT ![c] = "load"]
        /\ qstate[c] = "active" /\ tries[c] < MaxRetry + 1 /\ tries' = [tries EXCEPT ![c] = @ + 1]
        /\ stopped' = [stopped EXCEPT ![c] = FALSE] /\ cancels' = [cancels EXCEPT ![c[1]] = c]
        /\ UNCHANGED <<row, api, qstate, verdict, gauge, cpc, target, told,
                       excused, faults, closing, restarts>>
    BY DEF Begin, Queue!Try
  <1>1. TypeOK'
    <2>1. RowTypes' /\ CountTypes'
      BY <1>a, <1>b DEF RowTypes, CountTypes
    <2>2. tries' \in [Copies -> 0..(MaxRetry + 1)]
      BY <1>a, <1>b, NumberFacts DEF RunTypes
    <2>3. RunTypes'
      BY <2>2, <1>a, <1>b DEF RunTypes, PCs
    <2>4. QED
      BY <2>1, <2>3, TypesAre
  <1>2. OrderFacts'
    BY <1>a, <1>b DEF IInv, OrderFacts, RunTypes
  <1>3. RegistryFacts'
    <2>1. \A d \in Copies : InHandler(d)' <=> InHandler(d) \/ d = c
      BY <1>a, <1>b DEF InHandler, RunTypes
    <2>2. \A s \in Scans : cancels'[s] = IF s = c[1] THEN c ELSE cancels[s]
      BY <1>a, <1>b DEF RunTypes
    <2>3. \A d \in Copies : d # c => stopped'[d] = stopped[d]
      BY <1>a, <1>b DEF RunTypes
    <2>4. QED
      BY <2>1, <2>2, <2>3, <1>b DEF IInv, RegistryFacts
  <1>4. SettledFacts'
    BY <1>a, <1>b DEF IInv, SettledFacts, Settled, RunTypes
  <1>5. ExcuseFacts'
    BY <1>a, <1>b DEF IInv, ExcuseFacts, RunTypes
  <1>6. HonestFacts'
    <2> SUFFICES ASSUME NEW s \in Scans \ excused PROVE HonestRow(s)'
      BY <1>b DEF HonestFacts
    <2>1. HonestRow(s)
      BY DEF IInv, HonestFacts
    <2>2. CASE c = <<s, 1>>
      BY <2>1, <2>2, <1>a, <1>b DEF HonestRow, RunTypes
    <2>3. CASE c # <<s, 1>>
      BY <2>1, <2>3, <1>a, <1>b, HonestFrame DEF RunTypes
    <2>4. QED
      BY <2>2, <2>3
  <1>7. GaugeFacts'
    <2>1. Busy' = Busy
      BY <1>a, <1>b DEF Busy, RunTypes
    <2>2. QED
      BY <2>1, <1>b, GaugeFrame DEF IInv
  <1>8. QED
    BY <1>1, <1>2, <1>3, <1>4, <1>5, <1>6, <1>7 DEF IInv

\* The copy leaves the worker, in whichever way, or goes back for another try.
LEMMA LetGo ==
    ASSUME IInv, NEW c \in Copies, Return(c) \/ DropRetry(c) \/ NoHandlerYet(c)
    PROVE  /\ pc[c] \in {"due", "return"} /\ qstate[c] = "active"
           /\ \E l \in {"off", "due"}, q \in {"active", "done", "dead", "lost"} :
                /\ pc' = [pc EXCEPT ![c] = l] /\ qstate' = [qstate EXCEPT ![c] = q]
                /\ l = "due" <=> q = "active"
                /\ pc[c] = "return" /\ verdict[c] = "completed" => q = "done"
                /\ q = "done" => pc[c] = "return" /\ verdict[c] = "completed"
                /\ q \in {"dead", "lost"} =>
                     c[1] \in excused' \/ (q = "dead" /\ pc[c] = "return" /\ tries[c] = MaxRetry + 1)
           /\ faults' \in 0..MaxFaults /\ excused' \subseteq Scans /\ excused \subseteq excused'
           /\ UNCHANGED <<row, api, tries, gauge, cpc, target, told, closing, restarts>>
           /\ \/ /\ pc[c] = "return" /\ cancels' = [cancels EXCEPT ![c[1]] = None]
                 /\ verdict' = [verdict EXCEPT ![c] = "none"]
                 /\ stopped' = [stopped EXCEPT ![c] = FALSE]
              \/ pc[c] = "due" /\ UNCHANGED <<cancels, verdict, stopped>>
  <1> USE CopyFacts DEF queueVars, runVars, reqVars, envVars, GoTo
  <1>a. RowTypes /\ RunTypes /\ CountTypes
    BY TypesAre DEF IInv
  <1>b. Queue!Lose({c}) => qstate' = [qstate EXCEPT ![c] = "lost"] /\ tries' = tries
    <2>1. ASSUME Queue!Lose({c}) PROVE qstate' = [qstate EXCEPT ![c] = "lost"] /\ tries' = tries
      <3>1. /\ qstate' = [d \in Copies |-> IF d \in {c} THEN "lost" ELSE qstate[d]]
            /\ tries' = tries
        BY <2>1 DEF Queue!Lose
      <3>2. DOMAIN qstate = Copies /\ qstate \in [Copies -> Queue!States]
        BY <1>a DEF RunTypes
      <3> HIDE CopyFacts
      <3>3. QED
        BY <3>1, <3>2
    <2>2. QED
      BY <2>1
  <1>1. CASE Return(c)
    <2>1. pc[c] = "return" /\ qstate[c] = "active"
      BY <1>1 DEF Return, IInv, OrderFacts
    <2>2. qstate = [qstate EXCEPT ![c] = "active"]
      BY <2>1, <1>a DEF RunTypes
    <2>3. NoFault \/ Fault(c[1])
      BY <1>1 DEF Return, QueueDecides
    <2>4. faults' \in 0..MaxFaults /\ excused' \subseteq Scans /\ excused \subseteq excused'
      BY <2>3, <1>a, FaultFacts
    <2>5. CASE verdict[c] = "completed"
      BY <2>1, <2>4, <2>5, <1>1 DEF Return, QueueDecides, Queue!Finish, Queue!Move
    <2>6. CASE verdict[c] # "completed" /\ tries[c] < MaxRetry + 1
      <3>1. GoTo(c, "due") /\ qstate' = qstate /\ tries' = tries
        BY <2>6, <1>1, NumberFacts DEF Return, QueueDecides
      <3>2. QED
        BY <3>1, <2>1, <2>2, <2>4, <2>6, <1>1 DEF Return
    <2>7. CASE verdict[c] # "completed" /\ ~(tries[c] < MaxRetry + 1)
      <3>1. /\ GoTo(c, "off") /\ tries[c] = MaxRetry + 1
            /\ (Queue!GiveUp(c) /\ NoFault) \/ (Queue!Lose({c}) /\ Fault(c[1]))
        BY <2>7, <1>1 DEF Return, QueueDecides
      <3>2. CASE Queue!GiveUp(c)
        BY <3>1, <3>2, <2>1, <2>4, <2>7, <1>1 DEF Return, Queue!GiveUp, Queue!Move
      <3>3. CASE Queue!Lose({c}) /\ Fault(c[1])
        BY <3>1, <3>3, <2>1, <2>4, <2>7, <1>1, <1>b DEF Return, Fault, Excuse
      <3>4. QED
        BY <3>1, <3>2, <3>3
    <2>8. QED
      BY <2>5, <2>6, <2>7
  <1>2. CASE DropRetry(c)
    <2>1. c[1] \in excused /\ qstate[c] = "active"
      BY <1>2 DEF DropRetry, IInv, ExcuseFacts, OrderFacts
    <2>2. QED
      BY <2>1, <1>2, <1>a, <1>b DEF DropRetry, CountTypes
  <1>3. CASE NoHandlerYet(c)
    <2>1. qstate[c] = "active" /\ pc[c] = "due"
      BY <1>3 DEF NoHandlerYet, IInv, OrderFacts
    <2>2. PICK q \in {"dead", "lost"} : qstate' = [qstate EXCEPT ![c] = q] /\ tries' = tries
      BY <1>3, <1>b DEF NoHandlerYet, Queue!GiveUp, Queue!Move
    <2>3. c[1] \in excused' /\ excused' \subseteq Scans /\ excused \subseteq excused'
      BY <1>3, <1>a DEF NoHandlerYet, CountTypes, Excuse
    <2>4. faults' \in 0..MaxFaults /\ pc' = [pc EXCEPT ![c] = "off"]
      BY <1>3, <1>a DEF NoHandlerYet, CountTypes
    <2>5. QED
      BY <2>1, <2>2, <2>3, <2>4, <1>3 DEF NoHandlerYet
  <1>4. QED
    BY <1>1, <1>2, <1>3

\* After a success the copy is done and its row completed; after the last failure dead-lettered
\* and failed; anything else is excused.
LEMMA LetGoKeeps ==
    ASSUME IInv, NEW c \in Copies, Return(c) \/ DropRetry(c) \/ NoHandlerYet(c)
    PROVE  IInv'
  <1> USE CopyFacts
  <1>a. RowTypes /\ RunTypes /\ CountTypes
    BY TypesAre DEF IInv
  <1>b. PICK l \in {"off", "due"}, q \in {"active", "done", "dead", "lost"} :
          /\ pc' = [pc EXCEPT ![c] = l] /\ qstate' = [qstate EXCEPT ![c] = q]
          /\ l = "due" <=> q = "active"
          /\ pc[c] = "return" /\ verdict[c] = "completed" => q = "done"
          /\ q = "done" => pc[c] = "return" /\ verdict[c] = "completed"
          /\ q \in {"dead", "lost"} =>
               c[1] \in excused' \/ (q = "dead" /\ pc[c] = "return" /\ tries[c] = MaxRetry + 1)
    BY LetGo
  <1>c. /\ pc[c] \in {"due", "return"} /\ qstate[c] = "active"
        /\ faults' \in 0..MaxFaults /\ excused' \subseteq Scans /\ excused \subseteq excused'
        /\ UNCHANGED <<row, api, tries, gauge, cpc, target, told, closing, restarts>>
    BY LetGo
  <1>d. \/ /\ pc[c] = "return" /\ cancels' = [cancels EXCEPT ![c[1]] = None]
           /\ verdict' = [verdict EXCEPT ![c] = "none"]
           /\ stopped' = [stopped EXCEPT ![c] = FALSE]
        \/ pc[c] = "due" /\ UNCHANGED <<cancels, verdict, stopped>>
    BY LetGo
  <1>1. TypeOK'
    <2>1. RowTypes' /\ CountTypes'
      BY <1>a, <1>c DEF RowTypes, CountTypes
    <2>2. qstate' \in [Copies -> Queue!States] /\ pc' \in [Copies -> PCs]
      BY <1>a, <1>b DEF RunTypes, PCs, Queue!States
    <2>3. /\ verdict' \in [Copies -> {"none", "completed", "failed", "cancelled"}]
          /\ stopped' \in [Copies -> BOOLEAN] /\ cancels' \in [Scans -> Copies \cup {None}]
      <3>1. CASE pc[c] = "due"
        BY <3>1, <1>a, <1>d DEF RunTypes
      <3>2. CASE pc[c] = "return"
        <4>1. stopped' \in [Copies -> BOOLEAN]
          BY <3>2, <1>a, <1>d DEF RunTypes
        <4>2. cancels' \in [Scans -> Copies \cup {None}]
          BY <3>2, <1>a, <1>d DEF RunTypes
        <4>3. verdict' \in [Copies -> {"none", "completed", "failed", "cancelled"}]
          BY <3>2, <1>a, <1>d DEF RunTypes
        <4>4. QED
          BY <4>1, <4>2, <4>3
      <3>3. QED
        BY <3>1, <3>2, <1>c
    <2>4. QED
      BY <2>1, <2>2, <2>3, <1>a, <1>c, TypesAre DEF RunTypes
  <1>2. OrderFacts'
    <2>1. \A d \in Copies : pc'[d] # "off" <=> qstate'[d] = "active"
      BY <1>a, <1>b DEF IInv, OrderFacts, RunTypes
    <2>2. \A d \in Copies : pc'[d] = "write" => verdict'[d] # "none"
      BY <1>a, <1>b, <1>d DEF IInv, OrderFacts, RunTypes
    <2>3. \A d \in Copies : qstate'[d] # "absent" => qstate[d] # "absent"
      BY <1>a, <1>b, <1>c DEF RunTypes
    <2>4. QED
      BY <2>1, <2>2, <2>3, <1>c DEF IInv, OrderFacts
  <1>3. RegistryFacts'
    <2>1. \A d \in Copies : InHandler(d)' <=> InHandler(d) /\ d # c
      BY <1>a, <1>b DEF InHandler, RunTypes
    <2>2. \A d \in Copies : qstate'[d] = "absent" <=> qstate[d] = "absent"
      BY <1>a, <1>b, <1>c DEF RunTypes
    <2>3. \A d \in Copies : d # c => stopped'[d] = stopped[d]
      BY <1>a, <1>d DEF RunTypes
    <2>4. CASE pc[c] = "due"
      BY <2>1, <2>2, <2>4, <1>d DEF IInv, RegistryFacts, InHandler
    <2>5. CASE pc[c] = "return"
      <3>1. \A s \in Scans : cancels'[s] = IF s = c[1] THEN None ELSE cancels[s]
        BY <2>5, <1>a, <1>d DEF RunTypes
      <3>2. QED
        BY <2>1, <2>2, <2>3, <3>1, <1>c DEF IInv, RegistryFacts
    <2>6. QED
      BY <2>4, <2>5, <1>c
  <1>4. SettledFacts'
    <2>1. \A d \in Copies : Settled(d) => Settled(d)'
      <3>1. \A d \in Copies \ {c} :
              pc'[d] = pc[d] /\ verdict'[d] = verdict[d] /\ qstate'[d] = qstate[d]
        BY <1>a, <1>b, <1>d DEF RunTypes
      <3>2. Settled(c) => Settled(c)'
        BY <1>a, <1>b, <1>c DEF Settled, RunTypes
      <3>3. QED
        BY <3>1, <3>2 DEF Settled
    <2>2. QED
      BY <2>1, <1>c DEF IInv, SettledFacts
  <1>5. ExcuseFacts'
    <2>1. \A d \in Copies : stopped'[d] => stopped[d]
      BY <1>a, <1>d DEF RunTypes
    <2>2. \A d \in Copies : qstate'[d] # "absent" => qstate[d] # "absent"
      BY <1>a, <1>b, <1>c DEF RunTypes
    <2>3. QED
      BY <2>1, <2>2, <1>c DEF IInv, ExcuseFacts
  <1>6. HonestFacts'
    <2> SUFFICES ASSUME NEW s \in Scans \ excused, s \notin excused' PROVE HonestRow(s)'
      BY <1>c DEF HonestFacts
    <2>1. HonestRow(s)
      BY DEF IInv, HonestFacts
    <2>2. CASE c = <<s, 1>>
      <3>1. c[1] = s /\ c[1] \notin excused'
        BY <2>2
      <3>2. pc[c] = "return" \/ (l = "due" /\ q = "active")
        BY <3>1, <1>b, <1>c
      <3>3. /\ pc'[c] = l /\ qstate'[c] = q /\ row'[s] = row[s] /\ tries' = tries
            /\ pc[c] = "return" => row[s] = verdict[c] /\ verdict[c] \in {"completed", "failed"}
            /\ pc[c] = "due" => row[s] \in {"pending", "failed"}
        BY <2>1, <2>2, <1>a, <1>b, <1>c DEF HonestRow, RunTypes
      <3>4. QED
        BY <2>2, <3>1, <3>2, <3>3, <1>b, <1>c DEF HonestRow
    <2>3. CASE c # <<s, 1>>
      <3>1. pc'[<<s, 1>>] = pc[<<s, 1>>] /\ qstate'[<<s, 1>>] = qstate[<<s, 1>>]
        BY <2>3, <1>a, <1>b DEF RunTypes
      <3>2. verdict'[<<s, 1>>] = verdict[<<s, 1>>]
        <4>1. <<s, 1>> \in Copies /\ DOMAIN verdict = Copies
          BY <1>a DEF RunTypes
        <4> HIDE CopyFacts
        <4>2. verdict' = verdict \/ verdict' = [verdict EXCEPT ![c] = "none"]
          BY <1>d
        <4>3. QED
          BY <2>3, <4>1, <4>2
      <3>3. QED
        BY <2>1, <3>1, <3>2, <1>c, HonestFrame
    <2>4. QED
      BY <2>2, <2>3
  <1>7. GaugeFacts'
    <2>1. Busy' = Busy
      BY <1>a, <1>b, <1>c DEF Busy, RunTypes
    <2>2. QED
      BY <2>1, <1>c, GaugeFrame DEF IInv
  <1>8. QED
    BY <1>1, <1>2, <1>3, <1>4, <1>5, <1>6, <1>7 DEF IInv

-----------------------------------------------------------------------------
(* The requests that create a scan. *)

\* Admit, Insert, Rerun and DomainCron act on a scan of which there is nothing yet but the request.
LEMMA CreateKeeps ==
    ASSUME IInv, NEW s \in Scans,
           Admit(s) \/ Insert(s) \/ DomainCron(s) \/ \E t \in Scans : Rerun(s, t)
    PROVE  IInv'
  <1> USE CopyFacts DEF queueVars, runVars, reqVars, envVars
  <1>a. RowTypes /\ RunTypes /\ CountTypes
    BY TypesAre DEF IInv
  <1>b. /\ api[s] \in {"none", "admitted"} /\ row[s] = "none"
        /\ UNCHANGED <<qstate, tries, pc, stopped, verdict, cancels, gauge, cpc, target, told,
                       closing, restarts>>
    BY DEF Admit, Insert, DomainCron, Rerun, IInv, OrderFacts
  <1>c. \/ row' = row /\ api' = [api EXCEPT ![s] = "admitted"]
        \/ row' = [row EXCEPT ![s] = "pending"] /\ api' = [api EXCEPT ![s] = "inserted"]
        \/ row' = row /\ api' = [api EXCEPT ![s] = "answered"]
    BY DEF Admit, Insert, DomainCron, Rerun, InsertRow
  <1>d. faults' \in 0..MaxFaults /\ excused' \subseteq Scans /\ excused \subseteq excused'
    <2>1. NoFault \/ Fault(s)
      BY DEF Admit, Insert, DomainCron, Rerun, InsertRow, NoFault
    <2>2. QED
      BY <2>1, <1>a, FaultFacts
  <1>e. \A d \in CopiesOf(s) : qstate[d] = "absent" /\ pc[d] = "off"
    BY <1>b DEF IInv, OrderFacts
  <1>1. TypeOK'
    <2>1. RowTypes'
      BY <1>a, <1>b, <1>c DEF RowTypes, Statuses
    <2>2. RunTypes' /\ CountTypes'
      BY <1>a, <1>b, <1>d DEF RunTypes, CountTypes
    <2>3. QED
      BY <2>1, <2>2, TypesAre
  <1>2. OrderFacts'
    BY <1>a, <1>b, <1>c, <1>e DEF IInv, OrderFacts, RowTypes
  <1>3. RegistryFacts'
    BY <1>b DEF IInv, RegistryFacts, InHandler
  <1>4. SettledFacts'
    BY <1>a, <1>b, <1>c DEF IInv, SettledFacts, Settled, RowTypes
  <1>5. ExcuseFacts'
    BY <1>b, <1>d DEF IInv, ExcuseFacts
  <1>6. HonestFacts'
    <2> SUFFICES ASSUME NEW t \in Scans \ excused PROVE HonestRow(t)'
      BY <1>d DEF HonestFacts
    <2>1. HonestRow(t)
      BY DEF IInv, HonestFacts
    <2>2. CASE t = s
      <3>1. row'[s] \in {"none", "pending"} /\ qstate'[<<s, 1>>] = "absent" /\ pc'[<<s, 1>>] = "off"
        <4>1. row'[s] \in {"none", "pending"}
          BY <1>a, <1>b, <1>c DEF RowTypes
        <4>2. qstate[<<s, 1>>] = "absent" /\ pc[<<s, 1>>] = "off"
          BY <1>e
        <4>3. qstate' = qstate /\ pc' = pc
          BY <1>b
        <4>4. QED
          BY <4>1, <4>2, <4>3
      <3>2. QED
        BY <3>1, <2>2 DEF HonestRow
    <2>3. CASE t # s
      <3>1. row'[t] = row[t]
        BY <2>3, <1>a, <1>c DEF RowTypes
      <3>2. QED
        BY <3>1, <2>1, <1>b, HonestFrame
    <2>4. QED
      BY <2>2, <2>3
  <1>7. GaugeFacts'
    <2>1. Busy' = Busy
      BY <1>b DEF Busy
    <2>2. QED
      BY <2>1, <1>b, <1>d, GaugeFrame DEF IInv
  <1>8. QED
    BY <1>1, <1>2, <1>3, <1>4, <1>5, <1>6, <1>7 DEF IInv

\* What Enqueue leaves in the queue.
LEMMA EnqueueShape ==
    ASSUME IInv, NEW s \in Scans, EnqueueScan(s)
    PROVE  /\ api[s] = "inserted" /\ api' = [api EXCEPT ![s] = "answered"]
           /\ \A d \in Copies : qstate'[d] = qstate[d] \/
                (d \in CopiesOf(s) /\ qstate[d] = "absent" /\ qstate'[d] \in {"waiting", "dead", "lost"})
           /\ s \in excused' \/
                (qstate'[<<s, 1>>] = "waiting" /\ qstate'[<<s, 2>>] = qstate[<<s, 2>>])
           /\ qstate' \in [Copies -> Queue!States]
           /\ faults' \in 0..MaxFaults /\ excused' \subseteq Scans /\ excused \subseteq excused'
           /\ UNCHANGED <<row, tries, pc, stopped, verdict, cancels, gauge, cpc, target, told,
                          closing, restarts>>
  <1> USE CopyFacts DEF queueVars, runVars, reqVars, envVars
  <1>a. RowTypes /\ RunTypes /\ CountTypes
    BY TypesAre DEF IInv
  <1>1. /\ api[s] = "inserted" /\ api' = [api EXCEPT ![s] = "answered"]
        /\ UNCHANGED <<row, tries, pc, stopped, verdict, cancels, gauge, cpc, target, told,
                       closing, restarts>>
    BY DEF EnqueueScan, Queue!Submit
  <1>2. ASSUME NEW new, new \subseteq CopiesOf(s), Queue!Submit(new)
        PROVE  /\ \A d \in new : qstate[d] = "absent" /\ qstate'[d] \in {"waiting", "dead", "lost"}
               /\ \A d \in Copies \ new : qstate'[d] = qstate[d]
               /\ qstate' \in [Copies -> Queue!States]
    <2>1. new \subseteq Copies
      BY <1>2
    <2>2. PICK to \in [new -> {"waiting", "dead", "lost"}] :
            qstate' = [i \in Copies |-> IF i \in new THEN to[i] ELSE qstate[i]]
      BY <1>2 DEF Queue!Submit
    <2>3. QED
      BY <2>1, <2>2, <1>2, <1>a DEF Queue!Submit, Queue!States, RunTypes
  <1>3. CASE /\ Queue!Submit({<<s, 1>>}) /\ UNCHANGED faults
             /\ IF qstate'[<<s, 1>>] = "waiting" THEN UNCHANGED excused ELSE Excuse({s})
    <2>1. /\ qstate[<<s, 1>>] = "absent" /\ qstate'[<<s, 1>>] \in {"waiting", "dead", "lost"}
          /\ \A d \in Copies \ {<<s, 1>>} : qstate'[d] = qstate[d]
          /\ qstate' \in [Copies -> Queue!States]
      <3>1. {<<s, 1>>} \subseteq CopiesOf(s)
        OBVIOUS
      <3>2. QED
        BY <3>1, <1>2, <1>3
    <2>2. excused' \subseteq Scans /\ excused \subseteq excused'
      BY <1>3, <1>a DEF Excuse, CountTypes
    <2>3. faults' \in 0..MaxFaults
      BY <1>3, <1>a DEF CountTypes
    <2>4. s \in excused' \/ qstate'[<<s, 1>>] = "waiting"
      BY <1>3 DEF Excuse
    <2>5. QED
      BY <2>1, <2>2, <2>3, <2>4, <1>1
  <1>4. CASE Fault(s) /\ Queue!Submit(CopiesOf(s))
    <2>1. /\ \A d \in CopiesOf(s) : qstate[d] = "absent" /\ qstate'[d] \in {"waiting", "dead", "lost"}
          /\ \A d \in Copies \ CopiesOf(s) : qstate'[d] = qstate[d]
          /\ qstate' \in [Copies -> Queue!States]
      BY <1>2, <1>4
    <2>2. s \in excused'
      BY <1>4 DEF Fault, Excuse
    <2>3. QED
      BY <2>1, <2>2, <1>1, <1>4, <1>a, FaultFacts
  <1>5. QED
    BY <1>3, <1>4 DEF EnqueueScan

\* A copy that begins to wait has its row inserted already.
LEMMA EnqueueKeeps ==
    ASSUME IInv, NEW s \in Scans, EnqueueScan(s)
    PROVE  IInv'
  <1> USE CopyFacts
  <1>a. RowTypes /\ RunTypes /\ CountTypes
    BY TypesAre DEF IInv
  <1>b. /\ api[s] = "inserted" /\ api' = [api EXCEPT ![s] = "answered"]
        /\ qstate' \in [Copies -> Queue!States]
        /\ faults' \in 0..MaxFaults /\ excused' \subseteq Scans /\ excused \subseteq excused'
        /\ UNCHANGED <<row, tries, pc, stopped, verdict, cancels, gauge, cpc, target, told,
                       closing, restarts>>
    BY EnqueueShape
  <1>c. /\ \A d \in Copies : qstate'[d] = qstate[d] \/
             (d \in CopiesOf(s) /\ qstate[d] = "absent" /\ qstate'[d] \in {"waiting", "dead", "lost"})
        /\ s \in excused' \/
             (qstate'[<<s, 1>>] = "waiting" /\ qstate'[<<s, 2>>] = qstate[<<s, 2>>])
    BY EnqueueShape
  <1>d. row[s] # "none"
    BY <1>b DEF IInv, OrderFacts
  <1>e. ASSUME NEW t \in Scans, t # s
        PROVE  qstate'[<<t, 1>>] = qstate[<<t, 1>>] /\ qstate'[<<t, 2>>] = qstate[<<t, 2>>]
    <2>1. <<t, 1>> \in Copies /\ <<t, 2>> \in Copies /\ <<t, 1>>[1] = t /\ <<t, 2>>[1] = t
      OBVIOUS
    <2>2. <<t, 1>> \notin CopiesOf(s) /\ <<t, 2>> \notin CopiesOf(s)
      BY <2>1, <1>e
    <2>3. QED
      BY <2>1, <2>2, <1>c
  <1>1. TypeOK'
    BY <1>a, <1>b, TypesAre DEF RowTypes, RunTypes, CountTypes
  <1>2. OrderFacts'
    BY <1>a, <1>b, <1>c, <1>d DEF IInv, OrderFacts, RowTypes
  <1>3. RegistryFacts'
    <2>1. \A c \in Copies : InHandler(c)' = InHandler(c)
      BY <1>b DEF InHandler
    <2>2. \A d \in Copies : qstate'[d] = "absent" => qstate[d] = "absent"
      BY <1>c
    <2>3. QED
      BY <2>1, <2>2, <1>b DEF IInv, RegistryFacts
  <1>4. SettledFacts'
    <2>1. \A d \in Copies : Settled(d) => Settled(d)'
      BY <1>b, <1>c DEF Settled
    <2>2. QED
      BY <2>1, <1>b DEF IInv, SettledFacts
  <1>5. ExcuseFacts'
    <2>1. \A t \in Scans : qstate'[<<t, 2>>] # "absent" => t \in excused'
      BY <1>b, <1>c, <1>e DEF IInv, ExcuseFacts
    <2>2. QED
      BY <2>1, <1>b DEF IInv, ExcuseFacts
  <1>6. HonestFacts'
    <2> SUFFICES ASSUME NEW t \in Scans \ excused, t \notin excused' PROVE HonestRow(t)'
      BY <1>b DEF HonestFacts
    <2>1. HonestRow(t)
      BY DEF IInv, HonestFacts
    <2>2. CASE t = s
      <3>1. qstate[<<s, 1>>] = "absent" /\ pc[<<s, 1>>] = "off" /\ qstate'[<<s, 1>>] = "waiting"
        BY <2>2, <1>b, <1>c DEF IInv, OrderFacts
      <3>2. row'[s] = "pending" /\ pc'[<<s, 1>>] = "off"
        BY <3>1, <2>1, <2>2, <1>b, <1>d DEF HonestRow
      <3>3. QED
        BY <3>1, <3>2, <2>2 DEF HonestRow
    <2>3. CASE t # s
      <3>1. qstate'[<<t, 1>>] = qstate[<<t, 1>>]
        BY <2>3, <1>e
      <3>2. QED
        BY <3>1, <2>1, <1>b, HonestFrame
    <2>4. QED
      BY <2>2, <2>3
  <1>7. GaugeFacts'
    <2>1. Busy' = Busy
      BY <1>b DEF Busy
    <2>2. QED
      BY <2>1, <1>b, GaugeFrame DEF IInv
  <1>8. QED
    BY <1>1, <1>2, <1>3, <1>4, <1>5, <1>6, <1>7 DEF IInv

-----------------------------------------------------------------------------
(* Cancelling. *)

\* From here on the scan is excused, so that nothing is claimed of its row.
LEMMA CancelReadsKeeps ==
    ASSUME IInv, NEW k \in Requests, NEW s \in Scans, CancelReads(k, s)
    PROVE  IInv'
  <1> USE CopyFacts DEF queueVars, runVars, reqVars, envVars
  <1>a. RowTypes /\ RunTypes /\ CountTypes
    BY TypesAre DEF IInv
  <1>b. /\ cpc[k] = "new" /\ row[s] # "none" /\ s \in excused' /\ excused' = excused \cup {s}
        /\ cpc' = [cpc EXCEPT ![k] = "read"] /\ target' = [target EXCEPT ![k] = s]
        /\ UNCHANGED <<row, api, qstate, tries, pc, stopped, verdict, cancels, gauge, told,
                       faults, closing, restarts>>
    BY DEF CancelReads, Active, Excuse
  <1>1. TypeOK'
    BY <1>a, <1>b, TypesAre DEF RowTypes, RunTypes, CountTypes
  <1>2. OrderFacts'
    BY <1>a, <1>b DEF IInv, OrderFacts, RowTypes
  <1>3. RegistryFacts' /\ SettledFacts'
    BY <1>b DEF IInv, RegistryFacts, InHandler, SettledFacts, Settled
  <1>4. ExcuseFacts'
    BY <1>a, <1>b DEF IInv, ExcuseFacts, RowTypes
  <1>5. HonestFacts'
    BY <1>b, HonestFrame DEF IInv, HonestFacts
  <1>6. GaugeFacts'
    <2>1. Busy' = Busy
      BY <1>b DEF Busy
    <2>2. QED
      BY <2>1, <1>b, GaugeFrame DEF IInv
  <1>7. QED
    BY <1>1, <1>2, <1>3, <1>4, <1>5, <1>6 DEF IInv

\* The entry goes and its context is cancelled in one step.
LEMMA CancelSignalsKeeps ==
    ASSUME IInv, NEW k \in Requests, CancelSignals(k)
    PROVE  IInv'
  <1> USE CopyFacts DEF queueVars, runVars, reqVars, envVars
  <1>a. RowTypes /\ RunTypes /\ CountTypes
    BY TypesAre DEF IInv
  <1> DEFINE t == target[k]
  <1>b. /\ t \in Scans /\ t \in excused
        /\ cpc[k] = "read" /\ cpc' = [cpc EXCEPT ![k] = "signalled"]
    BY <1>a DEF CancelSignals, IInv, OrderFacts, ExcuseFacts, RowTypes
  <1>c. /\ cancels' = [cancels EXCEPT ![t] = None]
        /\ stopped' = IF cancels[t] = None THEN stopped ELSE [stopped EXCEPT ![cancels[t]] = TRUE]
        /\ UNCHANGED <<row, api, qstate, tries, pc, verdict, gauge, target, told, excused, faults,
                       closing, restarts>>
    BY DEF CancelSignals
  <1>d. cancels[t] # None => cancels[t] \in Copies /\ cancels[t][1] = t
    BY <1>b DEF IInv, RegistryFacts
  <1> HIDE DEF t
  <1>e. \A c \in Copies : stopped'[c] <=> stopped[c] \/ c = cancels[t]
    BY <1>a, <1>c, <1>d DEF RunTypes
  <1>1. TypeOK'
    <2>1. RunTypes'
      BY <1>a, <1>b, <1>c, <1>d DEF RunTypes
    <2>2. QED
      BY <2>1, <1>a, <1>b, <1>c, TypesAre DEF RowTypes, CountTypes
  <1>2. OrderFacts'
    BY <1>a, <1>b, <1>c DEF IInv, OrderFacts, RowTypes
  <1>3. RegistryFacts'
    <2>1. \A s \in Scans : cancels'[s] = IF s = t THEN None ELSE cancels[s]
      BY <1>a, <1>c DEF RunTypes
    <2>2. \A c \in Copies : InHandler(c)' = InHandler(c)
      BY <1>c DEF InHandler
    <2>3. QED
      BY <2>1, <2>2, <1>c, <1>e DEF IInv, RegistryFacts
  <1>4. SettledFacts'
    BY <1>c DEF IInv, SettledFacts, Settled
  <1>5. ExcuseFacts'
    BY <1>b, <1>c, <1>d, <1>e DEF IInv, ExcuseFacts
  <1>6. HonestFacts'
    BY <1>c, HonestFrame DEF IInv, HonestFacts
  <1>7. GaugeFacts'
    <2>1. Busy' = Busy
      BY <1>c DEF Busy
    <2>2. QED
      BY <2>1, <1>c, GaugeFrame DEF IInv
  <1>8. QED
    BY <1>1, <1>2, <1>3, <1>4, <1>5, <1>6, <1>7 DEF IInv

\* The row becomes cancelled whatever it was, which completes nothing.
LEMMA CancelWritesKeeps ==
    ASSUME IInv, NEW k \in Requests, CancelWrites(k)
    PROVE  IInv'
  <1> USE CopyFacts DEF queueVars, runVars, reqVars, envVars
  <1>a. RowTypes /\ RunTypes /\ CountTypes
    BY TypesAre DEF IInv
  <1> DEFINE t == target[k]
  <1>b. t \in Scans /\ t \in excused /\ row[t] # "none"
    BY <1>a DEF CancelWrites, IInv, OrderFacts, ExcuseFacts, RowTypes
  <1>c. /\ cpc' = [cpc EXCEPT ![k] = "done"] /\ target' = [target EXCEPT ![k] = None]
        /\ row' = row \/ row' = [row EXCEPT ![t] = "cancelled"]
        /\ told' = told \/ told' = told \cup {t}
        /\ UNCHANGED <<api, qstate, tries, pc, stopped, verdict, cancels, gauge, closing, restarts>>
    BY DEF CancelWrites
  <1>d. faults' \in 0..MaxFaults /\ excused' \subseteq Scans /\ excused \subseteq excused'
    <2>1. NoFault \/ Fault(t)
      BY DEF CancelWrites
    <2>2. QED
      BY <2>1, <1>a, <1>b, FaultFacts
  <1> HIDE DEF t
  <1>1. TypeOK'
    <2>1. row' \in [Scans -> Statuses \cup {"none"}] /\ told' \subseteq Scans
      BY <1>a, <1>b, <1>c DEF RowTypes, Statuses
    <2>2. QED
      BY <2>1, <1>a, <1>b, <1>c, <1>d, TypesAre DEF RowTypes, RunTypes, CountTypes
  <1>2. OrderFacts'
    <2>1. \A s \in Scans : (row'[s] = "none") = (row[s] = "none")
      BY <1>a, <1>b, <1>c DEF RowTypes
    <2>2. QED
      BY <2>1, <1>a, <1>c DEF IInv, OrderFacts, RowTypes
  <1>3. RegistryFacts'
    BY <1>c DEF IInv, RegistryFacts, InHandler
  <1>4. SettledFacts'
    <2>1. \A s \in Scans : row'[s] = "completed" => row[s] = "completed"
      BY <1>a, <1>b, <1>c DEF RowTypes
    <2>2. QED
      BY <2>1, <1>c DEF IInv, SettledFacts, Settled
  <1>5. ExcuseFacts'
    BY <1>a, <1>c, <1>d DEF IInv, ExcuseFacts, RowTypes
  <1>6. HonestFacts'
    <2> SUFFICES ASSUME NEW s \in Scans \ excused PROVE HonestRow(s)'
      BY <1>d DEF HonestFacts
    <2>1. row'[s] = row[s]
      BY <1>a, <1>b, <1>c DEF RowTypes
    <2>2. QED
      BY <2>1, <1>c, HonestFrame DEF IInv, HonestFacts
  <1>7. GaugeFacts'
    <2>1. Busy' = Busy
      BY <1>c DEF Busy
    <2>2. QED
      BY <2>1, <1>c, <1>d, GaugeFrame DEF IInv
  <1>8. QED
    BY <1>1, <1>2, <1>3, <1>4, <1>5, <1>6, <1>7 DEF IInv

-----------------------------------------------------------------------------
(* The process. *)

\* Stop excuses every scan.
LEMMA StopKeeps ==
    ASSUME IInv, StopCancel
    PROVE  IInv'
  <1> USE DEF queueVars, runVars, reqVars, envVars
  <1>a. RowTypes /\ RunTypes /\ CountTypes
    BY TypesAre DEF IInv
  <1>b. /\ closing' = TRUE /\ excused' = excused \cup Scans
        /\ UNCHANGED <<row, api, qstate, tries, pc, stopped, verdict, cancels, gauge, cpc, target,
                       told, faults, restarts>>
    BY DEF StopCancel, Excuse
  <1>1. TypeOK'
    BY <1>a, <1>b, TypesAre DEF RowTypes, RunTypes, CountTypes
  <1>2. OrderFacts' /\ RegistryFacts' /\ SettledFacts'
    BY <1>b DEF IInv, OrderFacts, RegistryFacts, InHandler, SettledFacts, Settled
  <1>3. ExcuseFacts' /\ HonestFacts'
    BY <1>b DEF IInv, ExcuseFacts, HonestFacts
  <1>4. GaugeFacts'
    <2>1. Busy' = Busy
      BY <1>b DEF Busy
    <2>2. QED
      BY <2>1, <1>b, GaugeFrame DEF IInv
  <1>5. QED
    BY <1>1, <1>2, <1>3, <1>4 DEF IInv

\* A restart excuses every scan a request was made for and leaves no copy active.
LEMMA RestartKeeps ==
    ASSUME IInv, Restart
    PROVE  IInv'
  <1> USE CopyFacts
  <1>a. RowTypes /\ RunTypes /\ CountTypes
    BY TypesAre DEF IInv
  <1>b. /\ pc' = [c \in Copies |-> "off"]
        /\ stopped' = [c \in Copies |-> FALSE] /\ verdict' = [c \in Copies |-> "none"]
        /\ cancels' = [s \in Scans |-> None] /\ gauge' = 0 /\ closing' = FALSE
        /\ restarts < MaxRestarts /\ restarts' = restarts + 1
        /\ row' = row /\ told' = told /\ faults' = faults
    BY DEF Restart
  <1>c. /\ api' = [s \in Scans |-> IF api[s] = "none" THEN "none" ELSE "answered"]
        /\ cpc' = [k \in Requests |-> IF cpc[k] = "new" THEN "new" ELSE "done"]
        /\ target' = [k \in Requests |-> None]
        /\ excused' = excused \cup {s \in Scans : api[s] # "none"}
    BY DEF Restart, Excuse
  <1>d. /\ qstate' \in [Copies -> Queue!States] /\ tries' = tries
        /\ \A c \in Copies : qstate[c] = "active" => qstate'[c] = "lost"
        /\ \A c \in Copies : qstate[c] = "waiting" => qstate'[c] \in {"waiting", "lost"}
        /\ \A c \in Copies : qstate[c] \notin {"waiting", "active"} => qstate'[c] = qstate[c]
    <2>1. PICK gone \in {{c \in Copies : qstate[c] = "active"},
                         {c \in Copies : qstate[c] \in {"active", "waiting"}}} : Queue!Lose(gone)
      BY DEF Restart
    <2>2. qstate' = [i \in Copies |-> IF i \in gone THEN "lost" ELSE qstate[i]] /\ tries' = tries
      BY <2>1 DEF Queue!Lose
    <2>3. \A c \in Copies : qstate'[c] = IF c \in gone THEN "lost" ELSE qstate[c]
      BY <2>2
    <2>4. qstate' \in [Copies -> Queue!States]
      BY <2>2, <1>a DEF RunTypes, Queue!States
    <2>5. QED
      BY <2>1, <2>2, <2>3, <2>4
  <1>1. TypeOK'
    <2>1. RowTypes'
      BY <1>a, <1>b, <1>c DEF RowTypes
    <2>2. RunTypes'
      BY <1>a, <1>b, <1>d DEF RunTypes, PCs
    <2>3. CountTypes'
      <3>1. restarts' \in 0..MaxRestarts
        BY <1>a, <1>b, NumberFacts DEF CountTypes
      <3>2. excused' \subseteq Scans
        BY <1>a, <1>c DEF CountTypes
      <3>3. QED
        BY <3>1, <3>2, <1>a, <1>b DEF CountTypes
    <2>4. QED
      BY <2>1, <2>2, <2>3, TypesAre
  <1>2. OrderFacts'
    <2>1. \A c \in Copies : qstate'[c] # "active"
      BY <1>a, <1>d DEF RunTypes, Queue!States
    <2>2. \A c \in Copies : qstate'[c] # "absent" => api'[c[1]] = "answered" /\ row'[c[1]] # "none"
      <3>1. \A c \in Copies : qstate'[c] # "absent" => qstate[c] # "absent"
        BY <1>d
      <3>2. QED
        BY <3>1, <1>b, <1>c DEF IInv, OrderFacts
    <2>3. QED
      BY <2>1, <2>2, <1>b, <1>c DEF IInv, OrderFacts
  <1>3. RegistryFacts'
    BY <1>b DEF RegistryFacts, InHandler
  <1>4. SettledFacts'
    <2>1. \A c \in Copies : Settled(c) => Settled(c)'
      <3>1. \A c \in Copies : pc[c] = "return" => qstate[c] = "active"
        BY DEF IInv, OrderFacts
      <3>2. QED
        BY <3>1, <1>d DEF Settled
    <2>2. QED
      BY <2>1, <1>b DEF IInv, SettledFacts
  <1>5. ExcuseFacts'
    <2>1. \A s \in Scans : qstate'[<<s, 2>>] # "absent" => qstate[<<s, 2>>] # "absent"
      BY <1>d
    <2>2. QED
      BY <2>1, <1>b, <1>c DEF IInv, ExcuseFacts
  <1>6. HonestFacts'
    <2> SUFFICES ASSUME NEW s \in Scans, s \notin excused' PROVE HonestRow(s)'
      BY DEF HonestFacts
    <2>1. api[s] = "none"
      BY <1>c
    <2>2. qstate[<<s, 1>>] = "absent" /\ row[s] = "none"
      <3>1. <<s, 1>> \in Copies /\ <<s, 1>>[1] = s
        OBVIOUS
      <3>2. QED
        BY <3>1, <2>1 DEF IInv, OrderFacts
    <2>3. qstate'[<<s, 1>>] = "absent" /\ row'[s] = "none" /\ pc'[<<s, 1>>] = "off"
      BY <2>2, <1>b, <1>d
    <2>4. QED
      BY <2>3 DEF HonestRow
  <1>7. GaugeFacts'
    <2>1. Busy' = {}
      BY <1>b DEF Busy
    <2>2. QED
      BY <2>1, <1>b, FS_EmptySet DEF GaugeFacts
  <1>8. QED
    BY <1>1, <1>2, <1>3, <1>4, <1>5, <1>6, <1>7 DEF IInv

-----------------------------------------------------------------------------
LEMMA InitIInv == Init => IInv
  <1> SUFFICES ASSUME Init PROVE IInv
    OBVIOUS
  <1> USE CopyFacts
  <1>a. /\ row = [s \in Scans |-> "none"] /\ api = [s \in Scans |-> "none"]
        /\ qstate = [c \in Copies |-> "absent"] /\ tries = [c \in Copies |-> 0]
        /\ pc = [c \in Copies |-> "off"] /\ stopped = [c \in Copies |-> FALSE]
        /\ verdict = [c \in Copies |-> "none"] /\ cancels = [s \in Scans |-> None] /\ gauge = 0
        /\ cpc = [k \in Requests |-> "new"] /\ target = [k \in Requests |-> None] /\ told = {}
        /\ closing = FALSE /\ restarts = 0 /\ excused = {} /\ faults = 0
    BY DEF Init, Queue!Init
  <1>b. gauge = 0 /\ closing = FALSE /\ restarts = 0 /\ excused = {} /\ faults = 0
    BY DEF Init
  <1>1. TypeOK
    <2>1. RowTypes
      BY <1>a DEF RowTypes
    <2>2. tries \in [Copies -> 0..(MaxRetry + 1)]
      BY <1>a, NumberFacts
    <2>3. RunTypes
      BY <2>2, <1>a DEF RunTypes, Queue!States, PCs
    <2>4. CountTypes
      <3>1. gauge \in Nat /\ faults \in 0..MaxFaults /\ restarts \in 0..MaxRestarts
        BY <1>b, NumberFacts
      <3>2. closing \in BOOLEAN /\ excused \subseteq Scans
        BY <1>b
      <3>3. QED
        BY <3>1, <3>2 DEF CountTypes
    <2>5. QED
      BY <2>1, <2>3, <2>4 DEF TypeOK, RowTypes, RunTypes, CountTypes
  <1>2. OrderFacts /\ RegistryFacts /\ SettledFacts /\ ExcuseFacts
    BY <1>a DEF OrderFacts, RegistryFacts, InHandler, SettledFacts, ExcuseFacts
  <1>3. HonestFacts
    BY <1>a DEF HonestFacts, HonestRow
  <1>4. GaugeFacts
    <2>1. Busy = {}
      BY <1>a DEF Busy
    <2>2. QED
      BY <2>1, <1>a, FS_EmptySet DEF GaugeFacts
  <1>5. QED
    BY <1>1, <1>2, <1>3, <1>4 DEF IInv

LEMMA StepIInv == IInv /\ [Next]_vars => IInv'
  <1> SUFFICES ASSUME IInv, [Next]_vars PROVE IInv'
    OBVIOUS
  <1>1. CASE UNCHANGED vars
    BY <1>1 DEF vars, queueVars, runVars, reqVars, envVars, IInv, TypeOK, OrderFacts, RegistryFacts,
                InHandler, SettledFacts, Settled, ExcuseFacts, HonestFacts, HonestRow, GaugeFacts, Busy
  <1>2. ASSUME NEW s \in Scans, Admit(s) \/ Insert(s) \/ DomainCron(s) \/ EnqueueScan(s)
        PROVE  IInv'
    BY <1>2, CreateKeeps, EnqueueKeeps
  <1>3. ASSUME NEW s \in Scans, NEW t \in Scans, Rerun(s, t) PROVE IInv'
    BY <1>3, CreateKeeps
  <1>4. ASSUME NEW k \in Requests, NEW s \in Scans, CancelReads(k, s) PROVE IInv'
    BY <1>4, CancelReadsKeeps
  <1>5. ASSUME NEW k \in Requests, CancelSignals(k) \/ CancelWrites(k) PROVE IInv'
    BY <1>5, CancelSignalsKeeps, CancelWritesKeeps
  <1>6. ASSUME NEW c \in Copies, HandlerStep(c) \/ RunPanics(c) \/ TimesOut(c)
                                 \/ DropRetry(c) \/ NoHandlerYet(c)
        PROVE  IInv'
    BY <1>6, TakeUpKeeps, BeginKeeps, InsideKeeps, LetGoKeeps DEF HandlerStep, Inside
  <1>7. CASE StopCancel \/ Restart
    BY <1>7, StopKeeps, RestartKeeps
  <1>8. QED
    BY <1>1, <1>2, <1>3, <1>4, <1>5, <1>6, <1>7 DEF Next

\* Every reachable state of the scans satisfies the inductive invariant.
THEOREM Inductive == Spec => []IInv
  BY InitIInv, StepIInv, PTL DEF Spec

\* The variables keep to their sets; in particular ActiveScans never goes below zero.
THEOREM TypeCorrect == Spec => []TypeOK
  <1>1. IInv => TypeOK
    BY DEF IInv
  <1>2. QED
    BY Inductive, <1>1, PTL

-----------------------------------------------------------------------------
\* When the queue delivered a scan once, one of its copies is all there is.
LEMMA OnceMeansOne ==
    ASSUME NEW s \in Scans, DeliveredOnce(s), NEW c \in CopiesOf(s), qstate[c] # "absent"
    PROVE  \A d \in CopiesOf(s) \ {c} : qstate[d] = "absent"
  <1> DEFINE D == {d \in CopiesOf(s) : qstate[d] # "absent"}
  <1>1. IsFiniteSet(CopiesOf(s))
    <2>1. CopiesOf(s) = {<<s, 1>>} \cup {<<s, 2>>}
      BY CopyFacts DEF CopiesOf
    <2>2. IsFiniteSet({<<s, 1>>})
      BY FS_Singleton
    <2>3. QED
      BY <2>1, <2>2, FS_AddElement
  <1>2. IsFiniteSet(D)
    <2>1. D \in SUBSET CopiesOf(s)
      OBVIOUS
    <2>2. QED
      BY <1>1, <2>1, FS_Subset
  <1>3. \E x : D = {x}
    BY <1>2, FS_Singleton DEF DeliveredOnce
  <1>4. QED
    BY <1>3

\* The registry and the handlers agree: the handler of a scan the queue delivered once can be
\* reached by DELETE /scans/:id or has its context cancelled already.
THEOREM CancelReachesHolds == Spec => []CancelReaches
  <1>1. IInv => CancelReaches
    <2> SUFFICES ASSUME IInv PROVE CancelReaches
      OBVIOUS
    <2>1. ASSUME NEW c \in Copies, InHandler(c), DeliveredOnce(c[1])
          PROVE  cancels[c[1]] = c \/ stopped[c]
      <3>1. c[1] \in Scans /\ c \in CopiesOf(c[1]) /\ qstate[c] # "absent"
        BY <2>1, CopyFacts DEF IInv, OrderFacts, InHandler
      <3>2. \A d \in CopiesOf(c[1]) \ {c} : qstate[d] = "absent"
        BY <2>1, <3>1, OnceMeansOne
      <3>3. QED
        BY <2>1, <3>2 DEF IInv, RegistryFacts
    <2>2. QED
      BY <2>1 DEF IInv, RegistryFacts, CancelReaches
  <1>2. QED
    BY Inductive, <1>1, PTL

\* The row of a scan nothing went wrong with says what is happening, and ActiveScans counts the
\* handlers that run.
THEOREM HonestStatusHolds == Spec => []HonestStatus
  <1>1. IInv => HonestStatus
    <2> SUFFICES ASSUME IInv PROVE HonestStatus
      OBVIOUS
    <2>1. ASSUME NEW s \in Scans \ excused
          PROVE  LET c == <<s, 1>> IN
                 /\ row[s] = "running" <=> pc[c] \in {"check", "run", "write"}
                 /\ row[s] = "completed" => pc[c] \in {"return", "off"}
                 /\ qstate[c] = "done" => row[s] = "completed"
                 /\ qstate[c] = "dead" => row[s] = "failed" /\ tries[c] = MaxRetry + 1
                 /\ row[s] # "cancelled"
      <3> DEFINE c == <<s, 1>>
      <3>1. HonestRow(s)
        BY DEF IInv, HonestFacts
      <3>2. c \in Copies /\ pc[c] \in PCs /\ qstate[c] \in Queue!States
        BY CopyFacts DEF IInv, TypeOK
      <3>3. pc[c] # "off" <=> qstate[c] = "active"
        BY <3>2 DEF IInv, OrderFacts
      <3>4. QED
        BY <3>1, <3>2, <3>3 DEF HonestRow, PCs, Queue!States
    <2>2. QED
      BY <2>1 DEF HonestStatus, IInv, GaugeFacts, Busy
  <1>2. QED
    BY Inductive, <1>1, PTL

\* A scan that completed is never run again and keeps saying so, whatever the queue does after a
\* single delivery, short of a DELETE that read the row before.
THEOREM CompletedIsSettledHolds == Spec => CompletedIsSettled
  <1> DEFINE Stays(s) == \/ row'[s] = "completed"
                         \/ row'[s] = "cancelled"
                            /\ \E k \in Requests : cpc[k] = "signalled" /\ target[k] = s
             Kept == \A s \in Scans : row[s] = "completed" /\ DeliveredOnce(s) => Stays(s)
  <1>1. ASSUME IInv, [Next]_vars PROVE Kept \/ UNCHANGED vars
    <2> SUFFICES ASSUME NEW s \in Scans, row[s] = "completed", DeliveredOnce(s), Next PROVE Stays(s)
      BY <1>1
    <2> USE CopyFacts
    <2>a. RowTypes /\ RunTypes
      BY <1>1, TypesAre DEF IInv
    <2>b. PICK c \in CopiesOf(s) : Settled(c)
      BY <1>1 DEF IInv, SettledFacts
    <2>c. qstate[c] # "absent" /\ \A d \in CopiesOf(s) \ {c} : qstate[d] = "absent"
      <3>1. qstate[c] # "absent"
        BY <1>1, <2>b DEF IInv, OrderFacts, Settled
      <3>2. QED
        BY <3>1, OnceMeansOne
    <2>d. \A d \in Copies : d[1] = s /\ pc[d] # "off" => d = c
      BY <1>1, <2>c DEF IInv, OrderFacts
    <2>1. ASSUME NEW t \in Scans, Admit(t) \/ Insert(t) \/ DomainCron(t) \/ EnqueueScan(t)
          PROVE  Stays(s)
      <3>1. api[t] \in {"none", "admitted"} => t # s
        BY <1>1 DEF IInv, OrderFacts
      <3>2. QED
        BY <2>1, <2>a, <3>1 DEF Admit, Insert, DomainCron, EnqueueScan, InsertRow, RowTypes
    <2>2. ASSUME NEW t \in Scans, NEW u \in Scans, Rerun(t, u) PROVE Stays(s)
      <3>1. api[t] \in {"none", "admitted"} => t # s
        BY <1>1 DEF IInv, OrderFacts
      <3>2. QED
        BY <2>2, <2>a, <3>1 DEF Rerun, InsertRow, RowTypes
    <2>3. ASSUME NEW k \in Requests, \/ \E t \in Scans : CancelReads(k, t)
                                     \/ CancelSignals(k) \/ CancelWrites(k)
          PROVE  Stays(s)
      <3>1. row' = row \/ (/\ cpc[k] = "signalled" /\ target[k] \in Scans \cup {None}
                          /\ row' = [row EXCEPT ![target[k]] = "cancelled"])
        BY <2>3, <2>a DEF CancelReads, CancelSignals, CancelWrites, RowTypes
      <3>2. DOMAIN row = Scans
        BY <2>a DEF RowTypes
      <3>3. CASE target[k] = s
        BY <3>1, <3>2, <3>3
      <3>4. CASE target[k] # s
        BY <3>1, <3>2, <3>4
      <3>5. QED
        BY <3>3, <3>4
    <2>4. ASSUME NEW d \in Copies, HandlerStep(d) \/ RunPanics(d) \/ TimesOut(d)
                                   \/ DropRetry(d) \/ NoHandlerYet(d)
          PROVE  Stays(s)
      <3>1. row' = row \/ (d[1] # s /\ \E v : row' = [row EXCEPT ![d[1]] = v])
        <4>1. Mark(d) \/ WriteFinal(d) => d[1] # s
          <5>1. qstate[c] \in {"done", "dead", "lost"} => pc[c] = "off"
            BY <1>1 DEF IInv, OrderFacts
          <5>2. QED
            BY <5>1, <2>b, <2>d DEF Settled, Mark, WriteFinal
        <4>2. QED
          BY <2>4, <4>1 DEF HandlerStep, TakeUp, Begin, Load, Mark, Check, RunEnds, WriteFinal,
                            Return, RunPanics, TimesOut, DropRetry, NoHandlerYet
      <3>2. QED
        BY <3>1, <2>a DEF RowTypes
    <2>5. CASE StopCancel \/ Restart
      BY <2>5 DEF StopCancel, Restart
    <2>6. QED
      BY <2>1, <2>2, <2>3, <2>4, <2>5 DEF Next
  <1>2. IInv /\ [Next]_vars => [Kept]_vars
    BY <1>1
  <1>3. QED
    BY <1>2, Inductive, PTL DEF Spec, CompletedIsSettled
=============================================================================
