----------------------------- MODULE RoutingTable -----------------------------
(***************************************************************************)
(* What the table of allowed IPs promises: a prefix belongs to at most one *)
(* peer, the last that claimed it; the peer at hand claims a prefix or     *)
(* gives up one of its own, or some peers give up all of theirs, and       *)
(* nothing else changes the owner of a prefix.                             *)
(***************************************************************************)
EXTENDS Integers

CONSTANTS Prefix, Peer, Nobody

VARIABLES
    owner,    \* the peer that has a prefix
    current   \* the peer at hand

Init == owner = [p \in Prefix |-> Nobody]

Claim(prefix) == owner' = [owner EXCEPT ![prefix] = current]

GiveUp(prefix) ==
    /\ owner[prefix] = current
    /\ owner' = [owner EXCEPT ![prefix] = Nobody]

\* The peers of a set give up all they have.
Leave(peers) ==
    owner' = [p \in Prefix |-> IF owner[p] \in peers THEN Nobody ELSE owner[p]]

Next ==
    \/ \E prefix \in Prefix : Claim(prefix) \/ GiveUp(prefix)
    \/ \E peers \in SUBSET Peer : Leave(peers)

Spec == Init /\ [][Next]_owner
===============================================================================
