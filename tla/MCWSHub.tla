------------------------------ MODULE MCWSHub ------------------------------
(* Instances of WSHub for TLC. *)
EXTENDS WSHub, TLC

\* One organisation: every call reaches every client, the case with the most interleavings.
MCOrgOf == [x \in Clients \cup OrgCalls |-> "org"]

\* One message on one of the hub's channels, the others on the other.
MCInbox == [m \in Msgs |-> IF m = (CHOOSE x \in Msgs : TRUE) THEN "broadcast" ELSE "broadcastBytes"]
=============================================================================
