--------------------------- MODULE ChangeDetection --------------------------
(***************************************************************************)
(* modules/changedetect: the hourly cron entry, every scan that ends and   *)
(* POST /changes/run compare the assets with the stored baseline, type by  *)
(* type, advance the baseline and append what differs to the timeline.     *)
(*                                                                         *)
(* Nothing keeps two detectors apart, and the writes of one type are       *)
(* separate statements, the events last. An asset's fields are one value   *)
(* here. Several source rows can have the same key (two certificates of a  *)
(* service, the same service seen under two ids, a technology no service   *)
(* is known for), and then the row read last is the one that counts.       *)
(***************************************************************************)
EXTENDS Integers, Sequences, FiniteSets, SequencesExt

CONSTANTS
    Detectors,   \* runs that may be on at once
    Types,       \* tracked types, in the order RunDetection visits them
    Keys,        \* asset keys
    Vals,        \* field values
    Absent,      \* no such asset
    MaxScans,    \* bound: detection runs
    MaxAlters,   \* bound: changes of the assets
    MaxErrors    \* bound: failing statements and crashes

TrackedTypes == ToSet(Types)
ASSUME ChangeDetectionAssumption ==
    /\ {MaxScans, MaxAlters, MaxErrors} \subseteq Nat
    /\ Vals # {} /\ Absent \notin Vals
    /\ Types \in Seq(TrackedTypes) /\ Types # <<>> /\ IsInjective(Types)

VARIABLES
    source,     \* values of the asset rows that have a key
    baseline,   \* asset_state_snapshots: the row of a key, unique
    timeline,   \* asset_change_events of a key, oldest first
    detector,   \* where each run is
    scans, alters, errors,
    touched,    \* history: keys whose assets changed since they were compared
    excused     \* history: keys whose baseline and timeline may disagree

detectionVars == <<source, baseline, timeline, detector, scans, alters, errors,
                   touched, excused>>

Slots == TrackedTypes \X Keys
Unset == [id |-> 0, val |-> Absent]
Resting == [pc |-> "off", run |-> 0, at |-> 0, cur |-> <<>>, prev |-> <<>>, save |-> {},
            late |-> {}, wrote |-> FALSE]

-----------------------------------------------------------------------------
\* What diffAndPersist finds between the assets and the baseline it read.
Type(d) == Types[detector[d].at]
\* Every key that is still there counts as changed (mutant).
KnownKeys(r) == {k \in Keys : r.prev[k] # Unset /\ r.cur[k] # Absent}
NewKeys(r) == {k \in Keys : r.prev[k] = Unset /\ r.cur[k] # Absent}
ChangedKeys(r) == {k \in Keys : r.prev[k] # Unset /\ r.cur[k] # Absent /\ r.prev[k].val # r.cur[k]}
RemovedKeys(r) == {k \in Keys : r.prev[k] # Unset /\ r.cur[k] = Absent}
Differs(r) == NewKeys(r) \cup ChangedKeys(r) \cup RemovedKeys(r)

\* The old value where the new one belongs (mutant).
EventSwapped(r, k) ==
    [kind |-> IF k \in NewKeys(r) THEN "new" ELSE IF k \in RemovedKeys(r) THEN "removed" ELSE "changed",
     old |-> r.cur[k], new |-> r.prev[k].val]

Event(r, k) ==
    [kind |-> IF k \in NewKeys(r) THEN "new" ELSE IF k \in RemovedKeys(r) THEN "removed" ELSE "changed",
     old |-> r.prev[k].val, new |-> r.cur[k]]

InType(d) == detector[d].pc \in {"compare", "save", "stale", "events"}
Goto(d, r) == detector' = [detector EXCEPT ![d] = r]

\* Keys two detectors are about to write at the same time.
Contested(d, r) ==
    {<<Types[r.at], k>> : k \in
        {k \in Differs(r) : \E e \in Detectors \ {d} :
            InType(e) /\ detector[e].at = r.at /\ k \in Differs(detector[e])}}

\* Keys d has compared as they still are. None when another run was in the
\* type at the same time, for it may write what it saw before.
Compared(d) == ({Type(d)} \X Keys) \ detector[d].late

\* One type too far (mutant).
NextTypePast(r) ==
    IF r.at > Len(Types) THEN Resting
    ELSE [Resting EXCEPT !.pc = "snapshot", !.run = r.run, !.at = r.at + 1]

NextType(r) ==
    IF r.at = Len(Types) THEN Resting
    ELSE [Resting EXCEPT !.pc = "snapshot", !.run = r.run, !.at = r.at + 1]

StartDetection(d) ==
    /\ detector[d].pc = "off" /\ scans < MaxScans
    /\ scans' = scans + 1
    /\ Goto(d, [Resting EXCEPT !.pc = "snapshot", !.run = scans + 1, !.at = 1])
    /\ UNCHANGED <<source, baseline, timeline, alters, errors, touched, excused>>

\* snapshotDomains and the other six: of rows with the same key, the last.
TakeSnapshot(d) ==
    /\ detector[d].pc = "snapshot"
    /\ \E cur \in [Keys -> Vals \cup {Absent}] :
         /\ \A k \in Keys : LET rows == source[Type(d)][k]
                            IN IF rows = {} THEN cur[k] = Absent ELSE cur[k] \in rows
         /\ LET met == {e \in Detectors \ {d} : detector[e].pc \notin {"off", "snapshot"}
                                                /\ Type(e) = Type(d)}
                all == {Type(d)} \X Keys
            IN detector' = [e \in Detectors |->
                 IF e = d THEN [detector[d] EXCEPT !.pc = "baseline", !.cur = cur,
                                    !.late = IF met = {} THEN {} ELSE all]
                 ELSE IF e \in met THEN [detector[e] EXCEPT !.late = all] ELSE detector[e]]
    /\ UNCHANGED <<source, baseline, timeline, scans, alters, errors, touched, excused>>

ReadBaseline(d) ==
    LET r == [detector[d] EXCEPT !.pc = "compare", !.prev = baseline[Type(d)]]
        s == [r EXCEPT !.save = ChangedKeys(r)]
    IN /\ detector[d].pc = "baseline"
       /\ Goto(d, IF Differs(r) = {} THEN NextType(r) ELSE s)
       /\ touched' = IF Differs(r) = {} THEN touched \ Compared(d) ELSE touched
       /\ excused' = excused \cup Contested(d, r)
       /\ UNCHANGED <<source, baseline, timeline, scans, alters, errors>>

\* A run that returns an error. What it wrote stays.
Abort(d) ==
    LET r == detector[d]
    IN /\ Goto(d, Resting)
       /\ excused' = IF r.wrote THEN excused \cup ({Type(d)} \X Differs(r)) ELSE excused
       /\ UNCHANGED <<source, baseline, timeline, scans, alters, touched>>

\* CreateInBatches of the new keys, all or none: a key that another run
\* created meanwhile violates the unique index.
CreateRows(d) ==
    LET r == detector[d]
        new == NewKeys(r)
    IN /\ r.pc = "compare"
       /\ IF \E k \in new : baseline[Type(d)][k] # Unset
          THEN Abort(d) /\ UNCHANGED errors
          ELSE /\ baseline' = [baseline EXCEPT ![Type(d)] =
                     [k \in Keys |-> IF k \in new THEN [id |-> r.run, val |-> r.cur[k]] ELSE @[k]]]
               /\ Goto(d, [r EXCEPT !.pc = "save", !.wrote = new # {}])
               /\ UNCHANGED <<source, timeline, scans, alters, errors, touched, excused>>

\* Save updates the row by its id, or inserts it again when it is gone, which
\* the unique index refuses if the key has another row by now.
SaveRow(d) ==
    LET r == detector[d]
        base == baseline[Type(d)]
    IN /\ r.pc = "save" /\ r.save # {}
       /\ \E k \in r.save :
            IF base[k] # Unset /\ base[k].id # r.prev[k].id
            THEN Abort(d) /\ UNCHANGED errors
            ELSE /\ baseline' = [baseline EXCEPT ![Type(d)][k] =
                                    [id |-> r.prev[k].id, val |-> r.cur[k]]]
                 /\ Goto(d, [r EXCEPT !.save = @ \ {k}, !.wrote = TRUE])
                 /\ UNCHANGED <<source, timeline, scans, alters, errors, touched, excused>>

DeleteStale(d) ==
    LET r == detector[d]
        gone(k) == k \in RemovedKeys(r) /\ baseline[Type(d)][k].id = r.prev[k].id
    IN /\ r.pc = "save" /\ r.save = {}
       /\ baseline' = [baseline EXCEPT ![Type(d)] =
                          [k \in Keys |-> IF gone(k) THEN Unset ELSE @[k]]]
       /\ Goto(d, [r EXCEPT !.pc = "events", !.wrote = @ \/ RemovedKeys(r) # {}])
       /\ UNCHANGED <<source, timeline, scans, alters, errors, touched, excused>>

InsertEvents(d) ==
    LET r == detector[d]
    IN /\ r.pc = "events"
       /\ timeline' = [timeline EXCEPT ![Type(d)] =
                          [k \in Keys |-> IF k \in Differs(r) THEN Append(@[k], Event(r, k)) ELSE @[k]]]
       /\ touched' = touched \ Compared(d)
       /\ Goto(d, NextType(r))
       /\ UNCHANGED <<source, baseline, scans, alters, errors, excused>>

DetectionFails(d) ==
    /\ detector[d].pc # "off" /\ errors < MaxErrors
    /\ errors' = errors + 1
    /\ Abort(d)

\* The process dies: every run ends where it is.
DetectionCrash ==
    /\ errors < MaxErrors /\ \E d \in Detectors : detector[d].pc # "off"
    /\ errors' = errors + 1
    /\ detector' = [d \in Detectors |-> Resting]
    /\ excused' = excused \cup
         UNION {{Type(d)} \X Differs(detector[d]) : d \in {d \in Detectors : detector[d].wrote}}
    /\ UNCHANGED <<source, baseline, timeline, scans, alters, touched>>

\* A scan or a user changes the assets of a key, or a certificate's time comes.
Alter ==
    /\ alters < MaxAlters
    /\ alters' = alters + 1
    /\ \E t \in TrackedTypes, k \in Keys, rows \in SUBSET Vals :
         /\ source[t][k] # rows
         /\ source' = [source EXCEPT ![t][k] = rows]
         /\ touched' = touched \cup {<<t, k>>}
         /\ detector' = [d \in Detectors |->
                IF detector[d].pc \notin {"off", "snapshot"} /\ Type(d) = t
                THEN [detector[d] EXCEPT !.late = @ \cup {<<t, k>>}] ELSE detector[d]]
    /\ UNCHANGED <<baseline, timeline, scans, errors, excused>>

DetectionInit ==
    /\ source \in [TrackedTypes -> [Keys -> {{}, {CHOOSE v \in Vals : TRUE}}]]
    /\ baseline = [t \in TrackedTypes |-> [k \in Keys |-> Unset]]
    /\ timeline = [t \in TrackedTypes |-> [k \in Keys |-> <<>>]]
    /\ detector = [d \in Detectors |-> Resting]
    /\ scans = 0 /\ alters = 0 /\ errors = 0
    /\ touched = Slots /\ excused = {}

DetectionNext ==
    \/ Alter \/ DetectionCrash
    \/ \E d \in Detectors :
         \/ StartDetection(d) \/ TakeSnapshot(d) \/ ReadBaseline(d) \/ CreateRows(d)
         \/ SaveRow(d) \/ DeleteStale(d) \/ InsertEvents(d) \/ DetectionFails(d)

DetectionSpec == DetectionInit /\ [][DetectionNext]_detectionVars

-----------------------------------------------------------------------------
Rows == [id : 0..MaxScans, val : Vals \cup {Absent}]

DetectionTypeOK ==
    /\ source \in [TrackedTypes -> [Keys -> SUBSET Vals]]
    /\ baseline \in [TrackedTypes -> [Keys -> Rows]]
    /\ \A t \in TrackedTypes, k \in Keys : \A i \in DOMAIN timeline[t][k] :
          timeline[t][k][i] \in [kind : {"new", "changed", "removed"},
                                 old : Vals \cup {Absent}, new : Vals \cup {Absent}]
    /\ \A d \in Detectors : detector[d].at \in 0..Len(Types) /\ detector[d].save \subseteq Keys
    /\ scans \in 0..MaxScans /\ alters \in 0..MaxAlters /\ errors \in 0..MaxErrors
    /\ touched \subseteq Slots /\ excused \subseteq Slots

\* The baseline never moves without the timeline saying so: outside the
\* writes of a run, the value a key has in the baseline is the one its last
\* event led to, so that no change is swallowed. A run that ends between its
\* first write and its events swallows what it wrote, and two runs that
\* write the same key at once may leave their events in the other order.
Told(t, k) == IF timeline[t][k] = <<>> THEN Absent ELSE Last(timeline[t][k]).new
ChangesAreTold ==
    \A t \in TrackedTypes, k \in Keys :
       \/ baseline[t][k].val = Told(t, k)
       \/ <<t, k>> \in excused
       \/ \E d \in Detectors : InType(d) /\ Type(d) = t /\ k \in Differs(detector[d])

\* An event is about an asset that did change: when nothing touched the rows
\* of a key since they were last compared, the timeline grows by no event of
\* it, unless several rows share the key (which of them counts then depends
\* on the order the database lists them in) or two runs were at the key.
Shared(t, k) == \E v, w \in source[t][k] : v # w
NoPhantoms ==
    [][\A t \in TrackedTypes, k \in Keys :
         timeline'[t][k] # timeline[t][k] =>
           <<t, k>> \in touched \cup excused \/ Shared(t, k)]_detectionVars
=============================================================================
