----------------------------- MODULE MCPeerConfig -----------------------------
(* Instances of PeerConfig for TLC. *)
EXTENDS PeerConfig

CONSTANTS p1, p2, p3

TwoPeers == {p1, p2}
OneFamily == {"v4"}
BothFamilies == {"v4", "v6"}

V4(ip, cidr) == [family |-> "v4", ip |-> ip, cidr |-> cidr]
V6(ip, cidr) == [family |-> "v6", ip |-> ip, cidr |-> cidr]

\* Siblings that need a branch, the prefix of that branch (with host bits set),
\* and one on the other side of the root.
Some == {V4(<<0, 0>>, 2), V4(<<0, 1>>, 2), V4(<<0, 1>>, 1), V4(<<1, 0>>, 2)}
Few == {V4(<<0, 0>>, 2), V4(<<0, 1>>, 2), V4(<<0, 1>>, 1)}

Off == {0}
OnOff == {0, 25}

ThreePeers == {p1, p2, p3}
Symmetry == Permutations(ThreePeers)
===============================================================================
