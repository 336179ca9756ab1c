---------------------------- MODULE JobDelivery ----------------------------
(***************************************************************************)
(* What the job queue promises about one job, whatever it is made of: it   *)
(* waits, is taken up once, is tried at most Budget times by whoever took  *)
(* it up, and leaves for good -- done after a successful try, dead-lettered *)
(* untried or with its budget used up, or lost.  Nothing returns to the    *)
(* queue and nothing happens after the end.                                *)
(***************************************************************************)
EXTENDS Naturals

CONSTANTS Items, Budget

VARIABLES state, tries

States == {"absent", "waiting", "active", "done", "dead", "lost"}

Init == /\ state = [i \in Items |-> "absent"]
        /\ tries = [i \in Items |-> 0]

Move(i, from, to) == state[i] = from /\ state' = [state EXCEPT ![i] = to]

\* One call may bring several copies into being.
Submit(new) ==
    /\ \A i \in new : state[i] = "absent"
    /\ \E to \in [new -> {"waiting", "dead", "lost"}] :
         state' = [i \in Items |-> IF i \in new THEN to[i] ELSE state[i]]
    /\ UNCHANGED tries

TakeUp(i) == Move(i, "waiting", "active") /\ UNCHANGED tries

Try(i) == /\ state[i] = "active" /\ tries[i] < Budget
          /\ tries' = [tries EXCEPT ![i] = @ + 1]
          /\ UNCHANGED state

Finish(i) == Move(i, "active", "done") /\ tries[i] > 0 /\ UNCHANGED tries

GiveUp(i) == Move(i, "active", "dead") /\ tries[i] \in {0, Budget} /\ UNCHANGED tries

Lose(gone) ==
    /\ \A i \in gone : state[i] \in {"waiting", "active"}
    /\ state' = [i \in Items |-> IF i \in gone THEN "lost" ELSE state[i]]
    /\ UNCHANGED tries

Next == \/ \E new \in SUBSET Items : Submit(new)
        \/ \E i \in Items : TakeUp(i) \/ Try(i) \/ Finish(i) \/ GiveUp(i)
        \/ \E gone \in SUBSET Items : Lose(gone)

Spec == Init /\ [][Next]_<<state, tries>>
=============================================================================
