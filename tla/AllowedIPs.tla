------------------------------ MODULE AllowedIPs ------------------------------
(***************************************************************************)
(* The table of allowed IPs of a device (device/allowedips.go): one        *)
(* compressed binary trie for each address family, with a pointer from     *)
(* every node to the field that points at it, and one list of nodes for    *)
(* each peer.  Every operation runs under the table's mutex, so each one   *)
(* is an operator from a table to the next.                                *)
(*                                                                         *)
(* A node is named by its prefix, a pointer to a field by the node that    *)
(* has the field and the bit of the child; bit 2 is the root field.        *)
(*                                                                         *)
(* A "mutant:" comment marks a deliberately wrong variant of the           *)
(* definition that follows it; the properties tell the two apart.          *)
(***************************************************************************)
EXTENDS Integers, Sequences, FiniteSets, SequencesExt

CONSTANTS
    Family,   \* address families
    Width,    \* number of bits of an address
    Peer,     \* peers, named by their public keys
    Nil       \* the nil pointer

ASSUME WidthAssumption == Width \in Nat \ {0}

Bit == {0, 1}
Address == [1 .. Width -> Bit]
Cidr == 0 .. Width

commonBits(ip1, ip2) == Cardinality({n \in 1 .. Width : \A i \in 1 .. n : ip1[i] = ip2[i]})

maskSelf(ip, cidr) == [i \in 1 .. Width |-> IF i <= cidr THEN ip[i] ELSE 0]

\* The name of the node for a prefix, with the bits behind the prefix masked.
NodeOf(family, ip, cidr) == [family |-> family, bits |-> maskSelf(ip, cidr), cidr |-> cidr]
Node == {n \in [family : Family, bits : Address, cidr : Cidr] : n.bits = maskSelf(n.bits, n.cidr)}

ASSUME NilAssumption == Nil \notin Peer \cup Node

parentIndirection == [of : Node, bit : Bit] \cup [of : Family, bit : {2}]
trieEntry == [peer : Peer \cup {Nil}, child : [Bit -> Node \cup {Nil}], parent : parentIndirection]

RootOf(family) == [of |-> family, bit |-> 2]
ChildOf(node, bit) == [of |-> node, bit |-> bit]

\* A table: the two root fields, the nodes that are allocated, the list of each peer.
IsTable(t) ==
    /\ DOMAIN t = {"root", "node", "entries"}
    /\ t.root \in [Family -> Node \cup {Nil}]
    /\ DOMAIN t.node \subseteq Node
    /\ \A n \in DOMAIN t.node : t.node[n] \in trieEntry
    /\ t.entries \in [Peer -> Seq(Node)]

EmptyTable == [root |-> [f \in Family |-> Nil], node |-> <<>>, entries |-> [p \in Peer |-> <<>>]]

-----------------------------------------------------------------------------
(* Access to the fields of the structure. *)

choose(node, ip) == ip[node.cidr + 1]

\* *at = node
Store(t, at, node) ==
    IF at.bit = 2 THEN [t EXCEPT !.root[at.of] = node]
    ELSE [t EXCEPT !.node[at.of].child[at.bit] = node]

SetParent(t, node, at) == [t EXCEPT !.node[node].parent = at]

\* node is the child behind the pointer, and knows it
Link(t, at, node) == Store(SetParent(t, node, at), at, node)

Allocate(t, node, peer, at) ==
    [t EXCEPT !.node = [n \in DOMAIN t.node \cup {node} |->
        IF n = node THEN [peer |-> peer, child |-> [b \in Bit |-> Nil], parent |-> at]
        ELSE t.node[n]]]

\* mutant: the pointers of a removed node are left as they are
LeaveNode(t, node) == t

\* Nothing points at the node any more, and it points at nothing.
zeroizePointers(t, node) == [t EXCEPT !.node = [n \in DOMAIN t.node \ {node} |-> t.node[n]]]

addToPeerEntries(t, node) == [t EXCEPT !.entries[t.node[node].peer] = Append(@, node)]

removeFromPeerEntries(t, node) ==
    IF t.node[node].peer = Nil THEN t
    ELSE [t EXCEPT !.entries[t.node[node].peer] = RemoveFirst(@, node)]

-----------------------------------------------------------------------------
(* Walks: a loop is the function of the number of its rounds. *)

\* The deepest node on the way to a prefix whose own prefix contains it, or Nil.
nodePlacement(t, ip, family, cidr) ==
    LET Covers(n) == n # Nil /\ n.cidr <= cidr /\ commonBits(n.bits, ip) >= n.cidr
        walk[k \in 0 .. Width + 1] ==
            IF k = 0 THEN [node |-> t.root[family], parent |-> Nil]
            ELSE LET w == walk[k - 1] IN
                 IF ~Covers(w.node) \/ (w.parent # Nil /\ w.parent.cidr = cidr) THEN w
                 ELSE [parent |-> w.node,
                       node |-> IF w.node.cidr = cidr THEN w.node
                                ELSE t.node[w.node].child[choose(w.node, ip)]]
    IN walk[Width + 1].parent

Exact(placement, cidr) == placement # Nil /\ placement.cidr = cidr

\* mutant: the walk goes on below a node whose prefix does not match
LookupAnyway(t, family, ip) ==
    LET walk[k \in 0 .. Width + 1] ==
            IF k = 0 THEN [node |-> t.root[family], found |-> Nil]
            ELSE LET w == walk[k - 1] IN
                 IF w.node = Nil THEN w
                 ELSE [found |-> IF t.node[w.node].peer # Nil THEN t.node[w.node].peer ELSE w.found,
                       node |-> IF w.node.cidr = Width THEN Nil
                                ELSE t.node[w.node].child[choose(w.node, ip)]]
    IN walk[Width + 1].found

Lookup(t, family, ip) ==
    LET walk[k \in 0 .. Width + 1] ==
            IF k = 0 THEN [node |-> t.root[family], found |-> Nil]
            ELSE LET w == walk[k - 1] IN
                 IF w.node = Nil \/ commonBits(w.node.bits, ip) < w.node.cidr THEN w
                 ELSE [found |-> IF t.node[w.node].peer # Nil THEN t.node[w.node].peer ELSE w.found,
                       node |-> IF w.node.cidr = Width THEN Nil
                                ELSE t.node[w.node].child[choose(w.node, ip)]]
    IN walk[Width + 1].found

-----------------------------------------------------------------------------
(* Insert *)

\* The new node is a leaf: the root field or the child it belongs in is empty.
InsertLeaf(t, at, new, peer) ==
    addToPeerEntries(Store(Allocate(t, new, peer, at), at, new), new)

\* The prefix has a node already, which changes its owner.
InsertExact(t, node, peer) ==
    addToPeerEntries([removeFromPeerEntries(t, node) EXCEPT !.node[node].peer = peer], node)

\* The new node takes the place of down, which becomes its child.
InsertAbove(t, at, new, down, peer) ==
    LET a == addToPeerEntries(Allocate(t, new, peer, at), new)
        b == Link(a, ChildOf(new, choose(new, down.bits)), down)
    IN Store(b, at, new)

\* A node without a peer takes the place of down, with down and the new node below it.
InsertBranch(t, at, new, down, cidr, peer) ==
    LET fork == NodeOf(new.family, new.bits, cidr)
        a == addToPeerEntries(Allocate(t, new, peer, ChildOf(fork, choose(fork, new.bits))), new)
        b == Allocate(a, fork, Nil, at)
        c == Link(b, ChildOf(fork, choose(fork, down.bits)), down)
    IN Store(Store(c, ChildOf(fork, choose(fork, new.bits)), new), at, fork)

Insert(t, family, ip, cidr, peer) ==
    LET new == NodeOf(family, ip, cidr)
        place == nodePlacement(t, ip, family, cidr)
        at == IF place = Nil THEN RootOf(family) ELSE ChildOf(place, choose(place, ip))
        down == IF place = Nil THEN t.root[family] ELSE t.node[place].child[at.bit]
        common == commonBits(down.bits, ip)
    IN IF Exact(place, cidr) THEN InsertExact(t, place, peer)
       ELSE IF down = Nil THEN InsertLeaf(t, at, new, peer)
       ELSE IF common >= cidr THEN InsertAbove(t, at, new, down, peer)
       ELSE InsertBranch(t, at, new, down, common, peer)

-----------------------------------------------------------------------------
(* Remove *)

\* The node with at most one child is cut out of the trie, and so is its parent
\* when that has no peer and is left with one child.
Unlink(t, node) ==
    LET e == t.node[node]
        child == e.child[IF e.child[0] = Nil THEN 1 ELSE 0]
        at == e.parent
        a == IF child = Nil THEN Store(t, at, Nil) ELSE Link(t, at, child)
        parent == at.of
        other == a.node[parent].child[1 - at.bit]
        up == a.node[parent].parent
        b == IF other = Nil THEN Store(a, up, Nil) ELSE Link(a, up, other)
    IN IF child # Nil \/ at.bit > 1 THEN zeroizePointers(a, node)
       ELSE IF a.node[parent].peer # Nil THEN zeroizePointers(a, node)
       ELSE zeroizePointers(zeroizePointers(b, node), parent)

remove(t, node) ==
    LET a == [removeFromPeerEntries(t, node) EXCEPT !.node[node].peer = Nil]
    IN IF \A b \in Bit : a.node[node].child[b] # Nil THEN a ELSE Unlink(a, node)

\* mutant: a prefix is removed whoever owns it
RemoveAnyway(t, family, ip, cidr, peer) ==
    LET place == nodePlacement(t, ip, family, cidr)
    IN IF ~Exact(place, cidr) THEN t ELSE remove(t, place)

RemovePrefix(t, family, ip, cidr, peer) ==
    LET place == nodePlacement(t, ip, family, cidr)
    IN IF ~Exact(place, cidr) \/ t.node[place].peer # peer THEN t ELSE remove(t, place)

RemoveByPeer(t, peer) == FoldLeft(remove, t, t.entries[peer])

\* What a get operation reports of a peer.
EntriesForPeer(t, peer) == t.entries[peer]
===============================================================================
