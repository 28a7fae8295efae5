--------------------------- MODULE PeerConfigProofs ---------------------------
(***************************************************************************)
(* Theorems about PeerConfig and the trie of AllowedIPs, for any width of  *)
(* addresses, any families, any peers and any prefixes.                    *)
(*                                                                         *)
(* A table is seen as a set of fields that hold nodes: a root per family   *)
(* and two children per node.  It is WellFormed when fields and parent     *)
(* pointers are inverse to each other and nodes fit their fields (Linked), *)
(* a node without a peer is a fork (Forked), and the list of each peer has *)
(* its nodes once (Listed).                                                *)
(***************************************************************************)
EXTENDS PeerConfig, TLAPS, FiniteSetTheorems, SequenceTheorems

-------------------------------------------------------------------------------
(* Induction.  The library states it for an operator; a set of numbers will do: *)
(* one that is not empty has a least element.                                   *)

\* A set of numbers that is not empty has a least element.
LEMMA LeastNat == ASSUME NEW T, T \subseteq Nat, T # {} PROVE \E x \in T : \A y \in T : ~(y < x)
<1>1. IsWellFoundedOn(OpToRel(<, Nat), Nat) BY NatLessThanWellFounded, Zenon
<1>2. \E x \in T : \A y \in T : ~ (<<y, x>> \in OpToRel(<, Nat)) BY <1>1, WFMin, Zenon
<1>3. QED BY <1>2 DEF OpToRel

\* Induction, for the set of the numbers that have the property.
LEMMA SetInduction ==
    ASSUME NEW S, 0 \in S, \A n \in Nat : n \in S => n + 1 \in S
    PROVE  \A n \in Nat : n \in S
<1>1. SUFFICES ASSUME NEW n \in Nat, n \notin S PROVE FALSE OBVIOUS
<1> DEFINE T == {k \in Nat : k \notin S}
<1>2. T \subseteq Nat /\ T # {} BY <1>1
<1>3. PICK x \in T : \A y \in T : ~(y < x)
  <2> HIDE DEF T
  <2> QED BY <1>2, LeastNat
<1>4. x # 0 /\ x - 1 \in Nat OBVIOUS
<1>5. x - 1 \notin T BY <1>3, <1>4
<1>6. QED BY <1>4, <1>5, x - 1 + 1 = x

-------------------------------------------------------------------------------
(* Addresses, prefixes and nodes. *)

\* The first c bits of two addresses are the same.
Agree(a, b, c) == \A i \in 1 .. c : a[i] = b[i]
Covers(n, ip) == Agree(n.bits, ip, n.cidr)

\* commonBits counts the bits up to the first difference.
LEMMA FirstDifference ==
    ASSUME NEW a \in Address, NEW b \in Address
    PROVE  /\ commonBits(a, b) \in Cidr
           /\ Agree(a, b, commonBits(a, b))
           /\ commonBits(a, b) < Width => a[commonBits(a, b) + 1] # b[commonBits(a, b) + 1]
<1> DEFINE S == {n \in 1 .. Width : \A i \in 1 .. n : a[i] = b[i]}
           D == {i \in 1 .. Width : a[i] # b[i]}
<1>1. Width \in Nat /\ Width >= 1 BY WidthAssumption
<1>0. commonBits(a, b) = Cardinality(S) BY DEF commonBits
<1>2. CASE D = {}
  <2>1. S = 1 .. Width BY <1>1, <1>2
  <2>2. Cardinality(1 .. Width) = IF 1 > Width THEN 0 ELSE Width - 1 + 1 BY <1>1, FS_Interval
  <2>4. commonBits(a, b) = Width
    <3> HIDE DEF S
    <3> QED BY <1>0, <1>1, <2>1, <2>2
  <2>3. QED BY <2>4, <1>1, <1>2 DEF Cidr, Agree
<1>3. CASE D # {}
  <2>1. D \subseteq Nat BY <1>1
  <2>2. PICK x \in D : \A y \in D : ~(y < x)
    <3> HIDE DEF D
    <3> QED BY <1>3, <2>1, LeastNat
  <2>3. \A i \in 1 .. x - 1 : a[i] = b[i] BY <2>2, <1>1
  <2>4. S = 1 .. x - 1 BY <2>2, <2>3, <1>1
  <2>5. commonBits(a, b) = x - 1
    <3> HIDE DEF S
    <3>1. (x - 1 \in Int /\ ~(1 > x - 1)) \/ x = 1 BY <1>1
    <3>2. x \in Int /\ x >= 1 BY <1>1
    <3>3. Cardinality(1 .. x - 1) = IF 1 > x - 1 THEN 0 ELSE x - 1 - 1 + 1 BY <3>2, FS_Interval
    <3>4. QED BY <1>0, <2>4, <3>1, <3>2, <3>3
  <2>6. QED BY <2>3, <2>5, <1>1 DEF Cidr, Agree
<1>4. QED BY <1>2, <1>3

\* So commonBits(a, b) >= c, as the code asks, means that c bits agree.
LEMMA CommonBits ==
    ASSUME NEW a \in Address, NEW b \in Address, NEW c \in Cidr
    PROVE  commonBits(a, b) >= c <=> Agree(a, b, c)
BY FirstDifference, WidthAssumption DEF Agree, Cidr

\* maskSelf returns an address.
LEMMA MaskType == ASSUME NEW a \in Address, NEW c \in Cidr PROVE maskSelf(a, c) \in Address
BY DEF maskSelf, Address, Bit

\* The fields of a node.
LEMMA NodeType ==
    ASSUME NEW n \in Node
    PROVE  n.family \in Family /\ n.bits \in Address /\ n.cidr \in Cidr /\ n # Nil /\ n.cidr \in Nat
BY NilAssumption, WidthAssumption DEF Node, Cidr

\* Addresses are equal if their bits are.
LEMMA SameBits ==
    ASSUME NEW a \in Address, NEW b \in Address, \A i \in 1 .. Width : a[i] = b[i]
    PROVE  a = b
<1>1. a = [i \in 1 .. Width |-> a[i]] /\ b = [i \in 1 .. Width |-> b[i]] BY DEF Address
<1>2. QED BY <1>1

\* A node is determined by its family, its length and the bits that count.
LEMMA SameNode ==
    ASSUME NEW n \in Node, NEW m \in Node, n.family = m.family, n.cidr = m.cidr, Covers(n, m.bits)
    PROVE  n = m
<1>1. Width \in Nat BY WidthAssumption
<1>2. n.bits = maskSelf(n.bits, n.cidr) /\ m.bits = maskSelf(m.bits, m.cidr) BY DEF Node
<1>3. n.bits \in [1 .. Width -> Bit] /\ m.bits \in [1 .. Width -> Bit] /\ n.cidr \in Nat BY NodeType DEF Address
<1>4. \A i \in 1 .. Width : n.bits[i] = m.bits[i]
  <2> TAKE i \in 1 .. Width
  <2>1. CASE i <= n.cidr BY <2>1, <1>3 DEF Covers, Agree
  <2>2. CASE ~(i <= n.cidr)
    <3>1. maskSelf(n.bits, n.cidr)[i] = 0 /\ maskSelf(m.bits, m.cidr)[i] = 0 BY <2>2, <1>3 DEF maskSelf
    <3>2. QED BY <3>1, <1>2
  <2>3. QED BY <2>1, <2>2
<1>5. n.bits = m.bits BY <1>3, <1>4, SameBits DEF Address
<1>6. QED BY <1>5 DEF Node

\* The node of a prefix has its family, its length and its first bits.
LEMMA NodeOfType ==
    ASSUME NEW f \in Family, NEW ip \in Address, NEW c \in Cidr
    PROVE  /\ NodeOf(f, ip, c) \in Node
           /\ NodeOf(f, ip, c).family = f /\ NodeOf(f, ip, c).cidr = c
           /\ Agree(NodeOf(f, ip, c).bits, ip, c)
<1>1. maskSelf(ip, c) \in Address BY MaskType
<1>2. maskSelf(maskSelf(ip, c), c) = maskSelf(ip, c) BY DEF maskSelf
<1>3. Agree(maskSelf(ip, c), ip, c) BY WidthAssumption DEF maskSelf, Agree, Cidr
<1>4. QED BY <1>1, <1>2, <1>3 DEF NodeOf, Node

-------------------------------------------------------------------------------
(* The trie, seen as fields that point at nodes. *)

Alloc(t) == DOMAIN t.node
Own(t, n) == t.node[n].peer
Par(t, n) == t.node[n].parent
Pointer(t) == [of : Family, bit : {2}] \cup [of : Alloc(t), bit : Bit]
Field(t, at) == IF at.bit = 2 THEN t.root[at.of] ELSE t.node[at.of].child[at.bit]

\* A node belongs below a field: its prefix extends that of the field's node on its side.
Fits(at, n) ==
    IF at.bit = 2 THEN n.family = at.of
    ELSE /\ n.family = at.of.family /\ n.cidr > at.of.cidr
         /\ Covers(at.of, n.bits) /\ n.bits[at.of.cidr + 1] = at.bit

\* Parent pointers and fields are inverse to each other.
UpLinked(t) == \A n \in Alloc(t) : Par(t, n) \in Pointer(t) /\ Field(t, Par(t, n)) = n
DownLinked(t) ==
    \A at \in Pointer(t) : Field(t, at) # Nil =>
        /\ Field(t, at) \in Alloc(t)
        /\ Par(t, Field(t, at)) = at
        /\ Fits(at, Field(t, at))
Linked(t) == IsTable(t) /\ UpLinked(t) /\ DownLinked(t)

\* A node without a peer is a fork.
Fork(t, n) == \A b \in Bit : Field(t, ChildOf(n, b)) # Nil
Forked(t) == \A n \in Alloc(t) : Own(t, n) = Nil => Fork(t, n)

\* The list of a peer has each of its nodes once.
Owned(t, p) == {n \in Alloc(t) : Own(t, n) = p}
ListOK(t, p) ==
    /\ {t.entries[p][i] : i \in 1 .. Len(t.entries[p])} = Owned(t, p)
    /\ \A i, j \in 1 .. Len(t.entries[p]) : t.entries[p][i] = t.entries[p][j] => i = j
Listed(t) == \A p \in Peer : ListOK(t, p)

WellFormed(t) == Linked(t) /\ Forked(t) /\ Listed(t)

\* The fields of a table.
LEMMA TableType ==
    ASSUME NEW t, IsTable(t)
    PROVE  /\ Alloc(t) \subseteq Node
           /\ \A f \in Family : t.root[f] \in Node \cup {Nil}
           /\ \A n \in Alloc(t) : /\ Own(t, n) \in Peer \cup {Nil}
                                  /\ Par(t, n) \in parentIndirection
                                  /\ \A b \in Bit : t.node[n].child[b] \in Node \cup {Nil}
           /\ \A p \in Peer : t.entries[p] \in Seq(Node)
BY DEF IsTable, Alloc, Own, Par, trieEntry

\* The root field of a family is a field ...
LEMMA RootPointer ==
    ASSUME NEW t, NEW f \in Family
    PROVE  RootOf(f) \in Pointer(t) /\ RootOf(f).bit = 2 /\ RootOf(f).of = f
           /\ Field(t, RootOf(f)) = t.root[f]
BY DEF RootOf, Pointer, Field

\* ... and so are the two of each node ...
LEMMA ChildPointer ==
    ASSUME NEW t, NEW n \in Alloc(t), NEW b \in Bit
    PROVE  ChildOf(n, b) \in Pointer(t) /\ ChildOf(n, b).bit = b /\ ChildOf(n, b).of = n /\ b # 2
           /\ Field(t, ChildOf(n, b)) = t.node[n].child[b]
BY DEF ChildOf, Pointer, Field, Bit

\* ... and there are no others.
LEMMA PointerCases ==
    ASSUME NEW t, NEW at \in Pointer(t)
    PROVE  \/ at.bit = 2 /\ at.of \in Family /\ at = RootOf(at.of)
           \/ at.bit \in Bit /\ at.bit # 2 /\ at.of \in Alloc(t) /\ at = ChildOf(at.of, at.bit)
BY DEF ChildOf, RootOf, Pointer, Bit

\* Covering is transitive, and of two prefixes of an address the shorter covers the longer.
LEMMA CoversTrans ==
    ASSUME NEW m \in Node, NEW n \in Node, NEW ip \in Address,
           m.cidr <= n.cidr, Covers(m, n.bits), Covers(n, ip)
    PROVE  Covers(m, ip)
BY NodeType DEF Covers, Agree

\* Of two prefixes of one address the shorter covers the longer.
LEMMA CoversBoth ==
    ASSUME NEW m \in Node, NEW n \in Node, NEW ip \in Address,
           m.cidr <= n.cidr, Covers(m, ip), Covers(n, ip)
    PROVE  Covers(m, n.bits)
BY NodeType DEF Covers, Agree

\* A prefix covers itself.
LEMMA CoversSelf == ASSUME NEW n \in Node PROVE Covers(n, n.bits)
BY DEF Covers, Agree

-------------------------------------------------------------------------------
(* Where the nodes are. *)

\* The node behind the root field covers all nodes of its family.
LEMMA RootCovers ==
    ASSUME NEW t, Linked(t), NEW n \in Alloc(t)
    PROVE  LET r == t.root[n.family] IN
           r # Nil /\ r \in Alloc(t) /\ r.family = n.family /\ r.cidr <= n.cidr /\ Covers(r, n.bits)
<1> DEFINE Good(m) == LET r == t.root[m.family] IN
                      r # Nil /\ r \in Alloc(t) /\ r.family = m.family /\ r.cidr <= m.cidr /\ Covers(r, m.bits)
           T == {c \in Nat : \E m \in Alloc(t) : m.cidr = c /\ ~Good(m)}
<1>t. Alloc(t) \subseteq Node BY TableType DEF Linked
<1>1. SUFFICES ASSUME ~Good(n) PROVE FALSE OBVIOUS
<1>2. n.cidr \in T BY <1>1, <1>t, NodeType
<1>3. PICK c \in T : \A d \in T : ~(d < c)
  <2> HIDE DEF T
  <2>1. T \subseteq Nat BY DEF T
  <2> QED BY <1>2, <2>1, LeastNat
<1>4. PICK m \in Alloc(t) : m.cidr = c /\ ~Good(m) OBVIOUS
<1>5. m \in Node /\ m.cidr \in Nat /\ m.family \in Family BY <1>t, NodeType
<1>6. \A k \in Alloc(t) : k.cidr < m.cidr => Good(k)
  <2> SUFFICES ASSUME NEW k \in Alloc(t), k.cidr < m.cidr, ~Good(k) PROVE FALSE OBVIOUS
  <2>1. k.cidr \in Nat BY <1>t, NodeType
  <2>2. k.cidr \in T BY <2>1
  <2> QED BY <2>2, <1>3, <1>4
<1> HIDE DEF T
<1> DEFINE at == Par(t, m)
<1>7. at \in Pointer(t) /\ Field(t, at) = m /\ m # Nil BY <1>5, NodeType DEF Linked, UpLinked
<1>8. Fits(at, m) BY <1>7 DEF Linked, DownLinked
<1> HIDE DEF at
<1>9. CASE at.bit = 2
  <2>1. at.of = m.family /\ t.root[m.family] = m BY <1>7, <1>8, <1>9 DEF Fits, Field
  <2>2. Good(m) BY <2>1, <1>5, <1>7, CoversSelf
  <2> QED BY <2>2, <1>4
<1>10. CASE at.bit # 2
  <2>1. at.of \in Alloc(t) BY <1>7, <1>10, PointerCases
  <2>2. at.of \in Node /\ m.family = at.of.family /\ m.cidr > at.of.cidr /\ Covers(at.of, m.bits)
    BY <2>1, <1>t, <1>8, <1>10 DEF Fits
  <2>3. at.of.cidr \in Nat BY <2>2, NodeType
  <2>4. Good(at.of) BY <2>1, <2>2, <2>3, <1>5, <1>6
  <2>5. t.root[m.family] \in Node /\ t.root[m.family].cidr \in Nat BY <2>4, <2>2, <1>t, NodeType
  <2>6. m.bits \in Address BY <1>5, NodeType
  <2>7. Covers(t.root[m.family], m.bits)
    <3>1. t.root[m.family].cidr <= at.of.cidr /\ Covers(t.root[m.family], at.of.bits) BY <2>4, <2>2
    <3> QED BY <3>1, <2>2, <2>5, <2>6, CoversTrans
  <2>8. Good(m) BY <2>2, <2>3, <2>4, <2>5, <2>7, <1>5
  <2> QED BY <2>8, <1>4
<1>11. QED BY <1>9, <1>10

\* choose returns a bit.
LEMMA BitOf ==
    ASSUME NEW m \in Node, NEW ip \in Address, m.cidr < Width
    PROVE  choose(m, ip) \in Bit
BY NodeType, WidthAssumption DEF choose, Address

\* What hangs below a field fits there.
LEMMA ChildFits ==
    ASSUME NEW t, Linked(t), NEW m \in Alloc(t), NEW b \in Bit, t.node[m].child[b] # Nil
    PROVE  LET c == t.node[m].child[b] IN
           /\ c \in Alloc(t) /\ Par(t, c) = ChildOf(m, b) /\ c.family = m.family /\ c.cidr > m.cidr
           /\ Covers(m, c.bits) /\ c.bits[m.cidr + 1] = b
<1>1. ChildOf(m, b) \in Pointer(t) /\ Field(t, ChildOf(m, b)) = t.node[m].child[b]
      /\ ChildOf(m, b).bit # 2 /\ ChildOf(m, b).of = m /\ ChildOf(m, b).bit = b BY ChildPointer
<1>2. QED BY <1>1 DEF Linked, DownLinked, Fits

\* Next(t, m, n): the child of m on the way to n.
Toward(t, m, n) == t.node[m].child[choose(m, n.bits)]
Descends(t, m, n) ==
    LET c == Toward(t, m, n) IN
    c # Nil /\ c \in Alloc(t) /\ c.family = n.family /\ m.cidr < c.cidr /\ c.cidr <= n.cidr /\ Covers(c, n.bits)
Above(m, n) == m.family = n.family /\ m.cidr < n.cidr /\ Covers(m, n.bits)

\* If m covers n then n is m or below the child of m on the side of n.
LEMMA Descend ==
    ASSUME NEW t, Linked(t), NEW m0 \in Alloc(t), NEW n0 \in Alloc(t), Above(m0, n0)
    PROVE  Descends(t, m0, n0)
<1> DEFINE T == {c \in Nat : \E m, n \in Alloc(t) : n.cidr = c /\ Above(m, n) /\ ~Descends(t, m, n)}
<1>t. Alloc(t) \subseteq Node BY TableType DEF Linked
<1>1. SUFFICES ASSUME ~Descends(t, m0, n0) PROVE FALSE OBVIOUS
<1>2. n0.cidr \in T BY <1>1, <1>t, NodeType
<1>3. PICK c \in T : \A d \in T : ~(d < c)
  <2> HIDE DEF T
  <2>1. T \subseteq Nat BY DEF T
  <2> QED BY <1>2, <2>1, LeastNat
<1>4. PICK m \in Alloc(t), n \in Alloc(t) : n.cidr = c /\ Above(m, n) /\ ~Descends(t, m, n) OBVIOUS
<1>5. m \in Node /\ m.cidr \in Nat /\ n \in Node /\ n.cidr \in Nat /\ n.bits \in Address /\ m.bits \in Address
  BY <1>t, NodeType
<1>6. \A k, l \in Alloc(t) : l.cidr < n.cidr /\ Above(k, l) => Descends(t, k, l)
  <2> SUFFICES ASSUME NEW k \in Alloc(t), NEW l \in Alloc(t), l.cidr < n.cidr, Above(k, l), ~Descends(t, k, l)
               PROVE  FALSE
    OBVIOUS
  <2>1. l.cidr \in Nat BY <1>t, NodeType
  <2>2. l.cidr \in T BY <2>1
  <2> QED BY <2>2, <1>3, <1>4
<1> HIDE DEF T
<1>7. m.family = n.family /\ m.cidr < n.cidr /\ Covers(m, n.bits) BY <1>4 DEF Above
<1> DEFINE at == Par(t, n)
           q == at.of
<1>8. at \in Pointer(t) /\ Field(t, at) = n /\ n # Nil BY <1>5, NodeType DEF Linked, UpLinked
<1>9. Fits(at, n) BY <1>8 DEF Linked, DownLinked
<1>10. at.bit # 2
  <2> SUFFICES ASSUME at.bit = 2 PROVE FALSE OBVIOUS
  <2>1. n = t.root[n.family] BY <1>8, <1>9 DEF Fits, Field
  <2>2. n.cidr <= m.cidr BY <2>1, <1>7, RootCovers
  <2> QED BY <2>2, <1>7, <1>5
<1>11. at.bit \in Bit /\ q \in Alloc(t) BY <1>8, <1>10, PointerCases
<1>12. n.family = q.family /\ n.cidr > q.cidr /\ Covers(q, n.bits) /\ n.bits[q.cidr + 1] = at.bit
  BY <1>9, <1>10 DEF Fits
<1>13. q \in Node /\ q.cidr \in Nat /\ q.bits \in Address BY <1>11, <1>t, NodeType
<1>14. Toward(t, q, n) = n BY <1>8, <1>10, <1>12 DEF Toward, choose, Field
<1> HIDE DEF at, q
<1>15. CASE q.cidr = m.cidr
  <2>1. Covers(m, q.bits) BY <1>15, <1>12, <1>13, <1>5, <1>7, CoversBoth
  <2>2. m = q BY <2>1, <1>15, <1>7, <1>12, <1>13, <1>5, SameNode
  <2>3. Descends(t, m, n) BY <2>2, <1>14, <1>8, <1>7, <1>5, CoversSelf DEF Descends
  <2> QED BY <2>3, <1>4
<1>16. CASE q.cidr < m.cidr
  <2>1. Covers(q, m.bits) BY <1>16, <1>12, <1>13, <1>5, <1>7, CoversBoth
  <2>2. Descends(t, q, m) BY <2>1, <1>16, <1>6, <1>7, <1>11, <1>12 DEF Above
  <2>3. m.bits[q.cidr + 1] = n.bits[q.cidr + 1]
    <3>1. q.cidr + 1 \in 1 .. m.cidr BY <1>16, <1>13, <1>5
    <3> QED BY <3>1, <1>7 DEF Covers, Agree
  <2>4. Toward(t, q, m) = n BY <2>3, <1>14 DEF Toward, choose
  <2> QED BY <2>2, <2>4, <1>5, <1>7 DEF Descends
<1>17. CASE q.cidr > m.cidr
  <2>1. Covers(m, q.bits) BY <1>17, <1>12, <1>13, <1>5, <1>7, CoversBoth
  <2>2. Descends(t, m, q) BY <2>1, <1>17, <1>6, <1>7, <1>11, <1>12 DEF Above
  <2>3. m.bits[m.cidr + 1] = m.bits[m.cidr + 1] /\ q.bits[m.cidr + 1] = n.bits[m.cidr + 1]
    <3>1. m.cidr + 1 \in 1 .. q.cidr BY <1>17, <1>13, <1>5
    <3> QED BY <3>1, <1>12 DEF Covers, Agree
  <2>4. Toward(t, m, q) = Toward(t, m, n) BY <2>3 DEF Toward, choose
  <2> DEFINE d == Toward(t, m, n)
  <2>5. d # Nil /\ d \in Alloc(t) /\ d.family = q.family /\ m.cidr < d.cidr /\ d.cidr <= q.cidr
        /\ Covers(d, q.bits) BY <2>2, <2>4 DEF Descends
  <2>6. d \in Node /\ d.cidr \in Nat BY <2>5, <1>t, NodeType
  <2> HIDE DEF d
  <2>7. Covers(d, n.bits) BY <2>5, <2>6, <1>12, <1>13, <1>5, CoversTrans
  <2>8. d.cidr <= n.cidr /\ d.family = n.family BY <2>5, <2>6, <1>12, <1>13, <1>5
  <2>9. Descends(t, m, n) BY <2>5, <2>7, <2>8 DEF Descends, d
  <2> QED BY <2>9, <1>4
<1>18. QED BY <1>15, <1>16, <1>17, <1>5, <1>13

-------------------------------------------------------------------------------
(* The walks down the trie are loops: functions of the number of rounds. *)

Loop(N, A, a, s, g) == g \in [0 .. N -> A] /\ \A k \in 0 .. N : g[k] = IF k = 0 THEN a ELSE s[g[k - 1]]
HasLoop(N, A, a, s) == \E g : Loop(N, A, a, s, g)

\* A loop over a set A from a, with the body s, can run any number of rounds ...
LEMMA Iterate ==
    ASSUME NEW N \in Nat, NEW A, NEW a \in A, NEW s \in [A -> A]
    PROVE  HasLoop(N, A, a, s)
<1> DEFINE Good(n, g) == \A k \in 0 .. n : g[k] = IF k = 0 THEN a ELSE s[g[k - 1]]
           S == {n \in Nat : \E g \in [0 .. n -> A] : Good(n, g)}
<1>1. 0 \in S
  <2>1. [k \in 0 .. 0 |-> a] \in [0 .. 0 -> A] /\ Good(0, [k \in 0 .. 0 |-> a]) OBVIOUS
  <2> QED BY <2>1
<1>2. ASSUME NEW n \in Nat, n \in S PROVE n + 1 \in S
  <2>1. PICK g \in [0 .. n -> A] : Good(n, g) BY <1>2
  <2> DEFINE h == [k \in 0 .. n + 1 |-> IF k = n + 1 THEN s[g[n]] ELSE g[k]]
  <2>2. h \in [0 .. n + 1 -> A] OBVIOUS
  <2>3. \A k \in 0 .. n : h[k] = g[k] /\ h[k] \in A OBVIOUS
  <2>4. h[n + 1] = s[g[n]] OBVIOUS
  <2> HIDE DEF h
  <2>5. Good(n + 1, h)
    <3> SUFFICES ASSUME NEW k \in 0 .. n + 1 PROVE h[k] = IF k = 0 THEN a ELSE s[h[k - 1]] OBVIOUS
    <3>1. CASE k = n + 1
      <4>1. h[k] = s[h[n]] /\ k # 0 /\ k - 1 = n BY <2>3, <2>4, <3>1
      <4> QED BY <4>1
    <3>2. CASE k # n + 1
      <4>1. k \in 0 .. n /\ (k # 0 => k - 1 \in 0 .. n) BY <3>2
      <4>2. h[k] = IF k = 0 THEN a ELSE s[g[k - 1]] BY <4>1, <2>1, <2>3
      <4> QED BY <4>1, <4>2, <2>3
    <3> QED BY <3>1, <3>2
  <2> QED BY <2>2, <2>5
<1>3. N \in S
  <2> HIDE DEF S
  <2> QED BY <1>1, <1>2, SetInduction
<1>4. QED BY <1>3 DEF HasLoop, Loop

\* ... and stays in A.
LEMMA IterateType ==
    ASSUME NEW N \in Nat, NEW A, NEW w, w[0] \in A,
           \A k \in 0 .. N - 1 : w[k] \in A => w[k + 1] \in A
    PROVE  \A k \in 0 .. N : w[k] \in A
<1> DEFINE S == {n \in Nat : n <= N => w[n] \in A}
<1>1. 0 \in S OBVIOUS
<1>2. \A n \in Nat : n \in S => n + 1 \in S OBVIOUS
<1>3. \A n \in Nat : n \in S
  <2> HIDE DEF S
  <2> QED BY <1>1, <1>2, SetInduction
<1>4. QED BY <1>3

-------------------------------------------------------------------------------
(* nodePlacement *)

Reaches(n, ip, cidr) == n # Nil /\ n.cidr <= cidr /\ commonBits(n.bits, ip) >= n.cidr
PlaceStep(t, ip, cidr, w) ==
    IF ~Reaches(w.node, ip, cidr) \/ (w.parent # Nil /\ w.parent.cidr = cidr) THEN w
    ELSE [parent |-> w.node,
          node |-> IF w.node.cidr = cidr THEN w.node ELSE t.node[w.node].child[choose(w.node, ip)]]
PlaceWalk(t, ip, family, cidr) ==
    CHOOSE walk : walk = [k \in 0 .. Width + 1 |->
        IF k = 0 THEN [node |-> t.root[family], parent |-> Nil]
        ELSE PlaceStep(t, ip, cidr, walk[k - 1])]

\* nodePlacement as such a loop.
LEMMA PlacementIsWalk ==
    ASSUME NEW t, NEW ip, NEW family, NEW cidr
    PROVE  nodePlacement(t, ip, family, cidr) = PlaceWalk(t, ip, family, cidr)[Width + 1].parent
BY DEF nodePlacement, PlaceWalk, PlaceStep, Reaches

Places(t) == [node : Alloc(t) \cup {Nil}, parent : Alloc(t) \cup {Nil}]

\* The condition of the loop, in terms of Covers.
LEMMA ReachesCovers ==
    ASSUME NEW n \in Node, NEW ip \in Address, NEW cidr \in Cidr
    PROVE  Reaches(n, ip, cidr) <=> n.cidr <= cidr /\ Covers(n, ip)
BY NodeType, CommonBits DEF Reaches, Covers

\* The field a walk goes on to.
LEMMA NextField ==
    ASSUME NEW t, Linked(t), NEW m \in Alloc(t), NEW ip \in Address, m.cidr < Width
    PROVE  /\ choose(m, ip) \in Bit
           /\ t.node[m].child[choose(m, ip)] \in Alloc(t) \cup {Nil}
<1>1. m \in Node BY TableType DEF Linked
<1>2. choose(m, ip) \in Bit BY <1>1, BitOf
<1>3. QED BY <1>2, ChildFits

\* A round stays among the nodes of the trie.
LEMMA PlaceStepType ==
    ASSUME NEW t, Linked(t), NEW ip \in Address, NEW cidr \in Cidr, NEW w \in Places(t)
    PROVE  PlaceStep(t, ip, cidr, w) \in Places(t)
<1>1. CASE ~Reaches(w.node, ip, cidr) \/ (w.parent # Nil /\ w.parent.cidr = cidr)
  BY <1>1 DEF PlaceStep
<1>2. CASE ~(~Reaches(w.node, ip, cidr) \/ (w.parent # Nil /\ w.parent.cidr = cidr))
  <2>1. w.node \in Alloc(t) /\ w.node.cidr <= cidr BY <1>2 DEF Reaches, Places
  <2>2. w.node \in Node BY <2>1, TableType DEF Linked
  <2>3. w.node.cidr # cidr => w.node.cidr < Width BY <2>1, <2>2, NodeType, WidthAssumption DEF Cidr
  <2>4. w.node.cidr # cidr => t.node[w.node].child[choose(w.node, ip)] \in Alloc(t) \cup {Nil}
    BY <2>1, <2>3, NextField
  <2> QED BY <1>2, <2>1, <2>4 DEF PlaceStep, Places
<1>3. QED BY <1>1, <1>2

\* The walk exists and is made of rounds.
LEMMA PlaceWalkDef ==
    ASSUME NEW t, Linked(t), NEW ip \in Address, NEW family \in Family, NEW cidr \in Cidr
    PROVE  LET w == PlaceWalk(t, ip, family, cidr) IN
           /\ \A k \in 0 .. Width + 1 : w[k] \in Places(t)
           /\ w[0] = [node |-> t.root[family], parent |-> Nil]
           /\ \A k \in 0 .. Width : w[k + 1] = PlaceStep(t, ip, cidr, w[k])
<1> DEFINE A == Places(t)
           a == [node |-> t.root[family], parent |-> Nil]
           s == [x \in A |-> PlaceStep(t, ip, cidr, x)]
           w == PlaceWalk(t, ip, family, cidr)
           F(walk) == [k \in 0 .. Width + 1 |->
                IF k = 0 THEN a ELSE PlaceStep(t, ip, cidr, walk[k - 1])]
<1>w. Width \in Nat /\ Width + 1 \in Nat BY WidthAssumption
<1>1. a \in A
  <2>1. t.root[family] # Nil => t.root[family] \in Alloc(t) BY RootPointer DEF Linked, DownLinked
  <2> QED BY <2>1 DEF Places
<1>2. s \in [A -> A] BY PlaceStepType
<1>3. \E g \in [0 .. Width + 1 -> A] : \A k \in 0 .. Width + 1 : g[k] = IF k = 0 THEN a ELSE s[g[k - 1]]
  <2> DEFINE N == Width + 1
  <2>1. N \in Nat BY <1>w
  <2> HIDE DEF A, a, s, N
  <2>2. HasLoop(N, A, a, s) BY <2>1, <1>1, <1>2, Iterate
  <2> QED BY <2>2 DEF N, HasLoop, Loop
<1>4. PICK g \in [0 .. Width + 1 -> A] : \A k \in 0 .. Width + 1 : g[k] = IF k = 0 THEN a ELSE s[g[k - 1]]
  BY <1>3
<1>5. \A k \in 0 .. Width + 1 : g[k] = IF k = 0 THEN a ELSE PlaceStep(t, ip, cidr, g[k - 1])
  <2> HIDE DEF A, a
  <2> TAKE k \in 0 .. Width + 1
  <2>1. k # 0 => k - 1 \in 0 .. Width + 1 BY <1>w
  <2>2. k # 0 => g[k - 1] \in A BY <2>1
  <2>3. k # 0 => s[g[k - 1]] = PlaceStep(t, ip, cidr, g[k - 1]) BY <2>2
  <2> QED BY <1>4, <2>3
<1>6. g = F(g)
  <2> HIDE DEF a, A
  <2>1. g = [k \in 0 .. Width + 1 |-> g[k]] OBVIOUS
  <2> QED BY <1>5, <2>1
<1>7. w = F(w)
  <2>1. w = CHOOSE walk : walk = F(walk) BY DEF PlaceWalk
  <2> HIDE DEF w, F
  <2> QED BY <1>6, <2>1
<1>8. \A k \in 0 .. Width + 1 : w[k] = IF k = 0 THEN a ELSE PlaceStep(t, ip, cidr, w[k - 1])
  <2> HIDE DEF w, a
  <2> QED BY <1>7
<1> HIDE DEF w, F, s
<1>9. w[0] = a BY <1>8, <1>w
<1>10. \A k \in 0 .. Width : w[k + 1] = PlaceStep(t, ip, cidr, w[k])
  <2> HIDE DEF a
  <2> TAKE k \in 0 .. Width
  <2>1. k + 1 \in 0 .. Width + 1 /\ k + 1 # 0 /\ k + 1 - 1 = k BY <1>w
  <2>2. w[k + 1] = PlaceStep(t, ip, cidr, w[k + 1 - 1]) BY <2>1, <1>8
  <2> QED BY <2>1, <2>2
<1>11. \A k \in 0 .. Width + 1 : w[k] \in A
  <2>1. w[0] \in A BY <1>9, <1>1
  <2>2. \A k \in 0 .. Width + 1 - 1 : w[k] \in A => w[k + 1] \in A
    <3>1. Width + 1 - 1 = Width BY <1>w
    <3> QED BY <1>10, <3>1, PlaceStepType
  <2> HIDE DEF A, a
  <2> QED BY <2>1, <2>2, <1>w, IterateType
<1>12. QED BY <1>9, <1>10, <1>11 DEF w

Stable(ip, cidr, w) == ~Reaches(w.node, ip, cidr) \/ (w.parent # Nil /\ w.parent.cidr = cidr)

\* After k rounds: the last two nodes of the walk, and how far it is.
PlaceInv(t, ip, family, cidr, k, w) ==
    /\ w.node # Nil => w.node.family = family
    /\ \/ w.parent = Nil /\ w.node = t.root[family]
       \/ /\ w.parent # Nil /\ w.parent.family = family /\ Reaches(w.parent, ip, cidr)
          /\ w.parent.cidr = cidr \/ w.node = t.node[w.parent].child[choose(w.parent, ip)]
    /\ Stable(ip, cidr, w) \/ (w.parent = Nil /\ k = 0) \/ (w.parent # Nil /\ w.parent.cidr >= k - 1)

\* The invariant of the loop.
LEMMA PlaceInvStep ==
    ASSUME NEW t, Linked(t), NEW ip \in Address, NEW family \in Family, NEW cidr \in Cidr,
           NEW k \in Nat, NEW w \in Places(t), PlaceInv(t, ip, family, cidr, k, w)
    PROVE  PlaceInv(t, ip, family, cidr, k + 1, PlaceStep(t, ip, cidr, w))
<1>1. CASE Stable(ip, cidr, w)
  BY <1>1 DEF PlaceInv, PlaceStep, Stable
<1>2. CASE ~Stable(ip, cidr, w)
  <2> DEFINE n == w.node
             c == t.node[n].child[choose(n, ip)]
  <2>1. n \in Alloc(t) /\ n # Nil /\ n.cidr <= cidr /\ Reaches(n, ip, cidr) /\ n.family = family
    BY <1>2 DEF Stable, Reaches, Places, PlaceInv
  <2>2. n \in Node BY <2>1, TableType DEF Linked
  <2>3. n.cidr \in Nat /\ cidr \in Nat /\ Width \in Nat /\ cidr <= Width BY <2>2, NodeType, WidthAssumption DEF Cidr
  <2>4. PlaceStep(t, ip, cidr, w) = [parent |-> n, node |-> IF n.cidr = cidr THEN n ELSE c]
    BY <1>2 DEF PlaceStep, Stable
  <2>5. n.cidr # cidr => choose(n, ip) \in Bit /\ c \in Alloc(t) \cup {Nil}
    <3>1. n.cidr # cidr => n.cidr < Width BY <2>1, <2>3
    <3> HIDE DEF n
    <3> QED BY <2>1, <3>1, NextField
  <2>6. n.cidr # cidr /\ c # Nil => c.family = family
    <3> HIDE DEF n
    <3> QED BY <2>1, <2>5, ChildFits
  <2>7. n.cidr >= k
    <3>1. CASE w.parent = Nil
      BY <3>1, <1>2, <2>3 DEF PlaceInv
    <3>2. CASE w.parent # Nil
      <4> DEFINE q == w.parent
      <4>1. q \in Alloc(t) /\ q.cidr <= cidr /\ q.cidr # cidr /\ n = t.node[q].child[choose(q, ip)] /\ q.cidr >= k - 1
        BY <3>2, <1>2 DEF PlaceInv, Stable, Places, Reaches
      <4>2. q \in Node BY <4>1, TableType DEF Linked
      <4>3. q.cidr \in Nat BY <4>2, NodeType
      <4> HIDE DEF q, n
      <4>4. choose(q, ip) \in Bit BY <4>1, <4>2, <4>3, <2>3, BitOf
      <4>5. n.cidr > q.cidr BY <4>1, <4>4, <2>1, ChildFits
      <4> QED BY <4>1, <4>3, <4>5, <2>3
    <3> QED BY <3>1, <3>2
  <2> HIDE DEF n, c
  <2>8. PlaceStep(t, ip, cidr, w).parent = n /\ PlaceStep(t, ip, cidr, w).node = (IF n.cidr = cidr THEN n ELSE c)
    BY <2>4
  <2> QED BY <2>1, <2>3, <2>6, <2>7, <2>8 DEF PlaceInv, c
<1>3. QED BY <1>1, <1>2

\* Below the place: where the walk would go on.
Below(t, ip, family, place) ==
    IF place = Nil THEN t.root[family] ELSE t.node[place].child[choose(place, ip)]

\* nodePlacement returns a node that contains the prefix, and the node below it does not.
LEMMA Placement ==
    ASSUME NEW t, Linked(t), NEW ip \in Address, NEW family \in Family, NEW cidr \in Cidr
    PROVE  LET place == nodePlacement(t, ip, family, cidr) IN
           /\ place \in Alloc(t) \cup {Nil}
           /\ place # Nil => place.family = family /\ place.cidr <= cidr /\ Covers(place, ip)
           /\ ~Exact(place, cidr) => ~Reaches(Below(t, ip, family, place), ip, cidr)
<1> DEFINE W == PlaceWalk(t, ip, family, cidr)
           J(k) == PlaceInv(t, ip, family, cidr, k, W[k])
           S == {k \in Nat : k <= Width + 1 => J(k)}
<1>w. Width \in Nat /\ Width + 1 \in Nat /\ cidr \in Nat /\ cidr <= Width BY WidthAssumption DEF Cidr
<1>1. /\ \A k \in 0 .. Width + 1 : W[k] \in Places(t)
      /\ W[0] = [node |-> t.root[family], parent |-> Nil]
      /\ \A k \in 0 .. Width : W[k + 1] = PlaceStep(t, ip, cidr, W[k])
  BY PlaceWalkDef
<1> HIDE DEF W
<1>2. 0 \in S
  <2>1. t.root[family] # Nil => t.root[family].family = family
    BY RootPointer DEF Linked, DownLinked, Fits
  <2>2. J(0) BY <1>1, <2>1 DEF PlaceInv
  <2> QED BY <2>2
<1>3. ASSUME NEW k \in Nat, k \in S PROVE k + 1 \in S
  <2> SUFFICES ASSUME k + 1 <= Width + 1 PROVE J(k + 1) OBVIOUS
  <2>1. k \in 0 .. Width /\ k \in 0 .. Width + 1 BY <1>w
  <2>2. J(k) BY <1>3, <2>1
  <2>3. W[k] \in Places(t) /\ W[k + 1] = PlaceStep(t, ip, cidr, W[k]) BY <2>1, <1>1
  <2>4. PlaceInv(t, ip, family, cidr, k + 1, PlaceStep(t, ip, cidr, W[k])) BY <2>2, <2>3, PlaceInvStep
  <2> QED BY <2>3, <2>4
<1>4. Width + 1 \in S
  <2> HIDE DEF S
  <2> QED BY <1>2, <1>3, <1>w, SetInduction
<1>5. J(Width + 1) BY <1>4, <1>w
<1> DEFINE w == W[Width + 1]
           place == w.parent
<1>6. w \in Places(t) BY <1>1, <1>w
<1>7. place \in Alloc(t) \cup {Nil} BY <1>6 DEF Places
<1>8. PlaceInv(t, ip, family, cidr, Width + 1, w) BY <1>5
<1> HIDE DEF w
<1>9. place # Nil => place.family = family /\ place.cidr <= cidr /\ Covers(place, ip)
  <2> SUFFICES ASSUME place # Nil PROVE place.family = family /\ place.cidr <= cidr /\ Covers(place, ip) OBVIOUS
  <2>1. place \in Node BY <1>7, TableType DEF Linked
  <2>2. place.family = family /\ Reaches(place, ip, cidr) BY <1>8 DEF PlaceInv
  <2> QED BY <2>1, <2>2, ReachesCovers
<1>10. Stable(ip, cidr, w)
  <2> SUFFICES ASSUME ~Stable(ip, cidr, w) PROVE FALSE OBVIOUS
  <2>1. place # Nil /\ place.cidr >= Width + 1 - 1 BY <1>8, <1>w DEF PlaceInv
  <2>2. place \in Node BY <1>7, <2>1, TableType DEF Linked
  <2>3. place.cidr \in Nat BY <2>2, NodeType
  <2>4. place.cidr = cidr BY <2>1, <2>3, <1>9, <1>w
  <2> QED BY <2>1, <2>4 DEF Stable
<1>11. ~Exact(place, cidr) => ~Reaches(Below(t, ip, family, place), ip, cidr)
  BY <1>8, <1>10 DEF PlaceInv, Stable, Exact, Below
<1>12. nodePlacement(t, ip, family, cidr) = place BY PlacementIsWalk DEF w, W
<1> HIDE DEF place
<1> QED BY <1>7, <1>9, <1>11, <1>12

\* No node that contains the prefix is longer than the one nodePlacement returns.
LEMMA PlacementLongest ==
    ASSUME NEW t, Linked(t), NEW ip \in Address, NEW family \in Family, NEW cidr \in Cidr,
           NEW n \in Alloc(t), n.family = family, n.cidr <= cidr, Covers(n, ip)
    PROVE  LET place == nodePlacement(t, ip, family, cidr) IN place # Nil /\ n.cidr <= place.cidr
<1> DEFINE place == nodePlacement(t, ip, family, cidr)
<1>1. /\ place \in Alloc(t) \cup {Nil}
      /\ place # Nil => place.family = family /\ place.cidr <= cidr /\ Covers(place, ip)
      /\ ~Exact(place, cidr) => ~Reaches(Below(t, ip, family, place), ip, cidr)
  BY Placement
<1> HIDE DEF place
<1>2. Alloc(t) \subseteq Node BY TableType DEF Linked
<1>3. n \in Node /\ n.cidr \in Nat /\ n.bits \in Address BY <1>2, NodeType
<1>w. Width \in Nat /\ cidr \in Nat /\ cidr <= Width BY WidthAssumption DEF Cidr
<1>4. place # Nil
  <2> SUFFICES ASSUME place = Nil PROVE FALSE OBVIOUS
  <2> DEFINE r == t.root[family]
  <2>1. r # Nil /\ r \in Alloc(t) /\ r.cidr <= n.cidr /\ Covers(r, n.bits) BY RootCovers
  <2>2. r \in Node /\ r.cidr \in Nat BY <2>1, <1>2, NodeType
  <2> HIDE DEF r
  <2>3. Covers(r, ip) BY <2>1, <2>2, <1>3, CoversTrans
  <2>4. Reaches(r, ip, cidr) BY <2>1, <2>2, <2>3, <1>3, <1>w, ReachesCovers
  <2>5. ~Reaches(r, ip, cidr) BY <1>1 DEF Exact, Below, r
  <2> QED BY <2>4, <2>5
<1>5. place \in Node /\ place.cidr \in Nat /\ place.cidr <= cidr BY <1>1, <1>2, <1>4, NodeType
<1>6. n.cidr <= place.cidr
  <2> SUFFICES ASSUME place.cidr < n.cidr PROVE FALSE BY <1>3, <1>5
  <2>1. Covers(place, n.bits) BY <1>1, <1>3, <1>4, <1>5, CoversBoth
  <2>2. Descends(t, place, n) BY <2>1, <1>1, <1>4, Descend DEF Above
  <2> DEFINE c == t.node[place].child[choose(place, ip)]
  <2>3. c = Toward(t, place, n)
    <3>1. place.cidr + 1 \in 1 .. n.cidr BY <1>3, <1>5
    <3>2. n.bits[place.cidr + 1] = ip[place.cidr + 1] BY <3>1 DEF Covers, Agree
    <3> QED BY <3>2 DEF Toward, choose
  <2>4. c # Nil /\ c \in Alloc(t) /\ c.cidr <= n.cidr /\ Covers(c, n.bits) BY <2>2, <2>3 DEF Descends
  <2>5. c \in Node /\ c.cidr \in Nat BY <2>4, <1>2, NodeType
  <2> HIDE DEF c
  <2>6. Covers(c, ip) BY <2>4, <2>5, <1>3, CoversTrans
  <2>7. Reaches(c, ip, cidr) BY <2>4, <2>5, <2>6, <1>3, <1>w, ReachesCovers
  <2>8. ~Exact(place, cidr) BY <1>3, <1>5, <1>w DEF Exact
  <2>9. ~Reaches(c, ip, cidr) BY <1>1, <1>4, <2>8 DEF Below, c
  <2> QED BY <2>7, <2>9
<1>7. QED BY <1>4, <1>6 DEF place

-------------------------------------------------------------------------------
(* Lookup *)

LookupStep(t, ip, w) ==
    IF w.node = Nil \/ commonBits(w.node.bits, ip) < w.node.cidr THEN w
    ELSE [found |-> IF t.node[w.node].peer # Nil THEN t.node[w.node].peer ELSE w.found,
          node |-> IF w.node.cidr = Width THEN Nil ELSE t.node[w.node].child[choose(w.node, ip)]]
LookupWalk(t, family, ip) ==
    CHOOSE walk : walk = [k \in 0 .. Width + 1 |->
        IF k = 0 THEN [node |-> t.root[family], found |-> Nil]
        ELSE LookupStep(t, ip, walk[k - 1])]

\* Lookup as such a loop.
LEMMA LookupIsWalk ==
    ASSUME NEW t, NEW ip, NEW family
    PROVE  Lookup(t, family, ip) = LookupWalk(t, family, ip)[Width + 1].found
BY DEF Lookup, LookupWalk, LookupStep

Steps(t) == [node : Alloc(t) \cup {Nil}, found : Peer \cup {Nil}]

\* The condition of the loop, in terms of Covers.
LEMMA MatchesCovers ==
    ASSUME NEW n \in Node, NEW ip \in Address
    PROVE  commonBits(n.bits, ip) < n.cidr <=> ~Covers(n, ip)
<1>1. n.bits \in Address /\ n.cidr \in Cidr /\ n.cidr \in Nat BY NodeType
<1>2. commonBits(n.bits, ip) \in Nat BY <1>1, FirstDifference, WidthAssumption DEF Cidr
<1>3. commonBits(n.bits, ip) >= n.cidr <=> Covers(n, ip) BY <1>1, CommonBits DEF Covers
<1>4. QED BY <1>1, <1>2, <1>3

\* A round stays among the nodes and the peers of the trie.
LEMMA LookupStepType ==
    ASSUME NEW t, Linked(t), NEW ip \in Address, NEW w \in Steps(t)
    PROVE  LookupStep(t, ip, w) \in Steps(t)
<1>1. CASE w.node = Nil \/ commonBits(w.node.bits, ip) < w.node.cidr
  BY <1>1 DEF LookupStep
<1>2. CASE ~(w.node = Nil \/ commonBits(w.node.bits, ip) < w.node.cidr)
  <2>1. w.node \in Alloc(t) BY <1>2 DEF Steps
  <2>2. w.node \in Node /\ t.node[w.node].peer \in Peer \cup {Nil} BY <2>1, TableType DEF Linked, Own
  <2>3. w.node.cidr # Width => w.node.cidr < Width BY <2>2, NodeType, WidthAssumption DEF Cidr
  <2>4. w.node.cidr # Width => t.node[w.node].child[choose(w.node, ip)] \in Alloc(t) \cup {Nil}
    BY <2>1, <2>3, NextField
  <2> QED BY <1>2, <2>2, <2>4 DEF LookupStep, Steps
<1>3. QED BY <1>1, <1>2

\* The walk exists and is made of rounds.
LEMMA LookupWalkDef ==
    ASSUME NEW t, Linked(t), NEW ip \in Address, NEW family \in Family
    PROVE  LET w == LookupWalk(t, family, ip) IN
           /\ \A k \in 0 .. Width + 1 : w[k] \in Steps(t)
           /\ w[0] = [node |-> t.root[family], found |-> Nil]
           /\ \A k \in 0 .. Width : w[k + 1] = LookupStep(t, ip, w[k])
<1> DEFINE A == Steps(t)
           a == [node |-> t.root[family], found |-> Nil]
           s == [x \in A |-> LookupStep(t, ip, x)]
           w == LookupWalk(t, family, ip)
           N == Width + 1
           F(walk) == [k \in 0 .. Width + 1 |->
                IF k = 0 THEN a ELSE LookupStep(t, ip, walk[k - 1])]
<1>w. Width \in Nat /\ Width + 1 \in Nat /\ N \in Nat BY WidthAssumption
<1>1. a \in A
  <2>1. t.root[family] # Nil => t.root[family] \in Alloc(t) BY RootPointer DEF Linked, DownLinked
  <2> QED BY <2>1 DEF Steps
<1>2. s \in [A -> A] BY LookupStepType
<1>3. \E g \in [0 .. Width + 1 -> A] : \A k \in 0 .. Width + 1 : g[k] = IF k = 0 THEN a ELSE s[g[k - 1]]
  <2>1. N \in Nat BY <1>w
  <2> HIDE DEF A, a, s, N
  <2>2. HasLoop(N, A, a, s) BY <2>1, <1>1, <1>2, Iterate
  <2> QED BY <2>2 DEF N, HasLoop, Loop
<1>4. PICK g \in [0 .. Width + 1 -> A] : \A k \in 0 .. Width + 1 : g[k] = IF k = 0 THEN a ELSE s[g[k - 1]]
  BY <1>3
<1>5. \A k \in 0 .. Width + 1 : g[k] = IF k = 0 THEN a ELSE LookupStep(t, ip, g[k - 1])
  <2> HIDE DEF A, a
  <2> TAKE k \in 0 .. Width + 1
  <2>1. k # 0 => k - 1 \in 0 .. Width + 1 BY <1>w
  <2>2. k # 0 => g[k - 1] \in A BY <2>1
  <2>3. k # 0 => s[g[k - 1]] = LookupStep(t, ip, g[k - 1]) BY <2>2
  <2> QED BY <1>4, <2>3
<1>6. g = F(g)
  <2> HIDE DEF a, A
  <2>1. g = [k \in 0 .. Width + 1 |-> g[k]] OBVIOUS
  <2> QED BY <1>5, <2>1
<1>7. w = F(w)
  <2>1. w = CHOOSE walk : walk = F(walk) BY DEF LookupWalk
  <2> HIDE DEF w, F
  <2> QED BY <1>6, <2>1
<1>8. \A k \in 0 .. Width + 1 : w[k] = IF k = 0 THEN a ELSE LookupStep(t, ip, w[k - 1])
  <2> HIDE DEF w, a
  <2> QED BY <1>7
<1> HIDE DEF w, F, s
<1>9. w[0] = a BY <1>8, <1>w
<1>10. \A k \in 0 .. Width : w[k + 1] = LookupStep(t, ip, w[k])
  <2> HIDE DEF a
  <2> TAKE k \in 0 .. Width
  <2>1. k + 1 \in 0 .. Width + 1 /\ k + 1 # 0 /\ k + 1 - 1 = k BY <1>w
  <2>2. w[k + 1] = LookupStep(t, ip, w[k + 1 - 1]) BY <2>1, <1>8
  <2> QED BY <2>1, <2>2
<1>11. \A k \in 0 .. N : w[k] \in A
  <2>1. w[0] \in A BY <1>9, <1>1
  <2>2. \A k \in 0 .. N - 1 : w[k] \in A => w[k + 1] \in A
    <3>1. N - 1 = Width BY <1>w
    <3> QED BY <1>10, <3>1, LookupStepType
  <2> HIDE DEF A, a, N
  <2> QED BY <2>1, <2>2, <1>w, IterateType
<1>12. QED BY <1>9, <1>10, <1>11 DEF w

\* The nodes with a peer that contain an address, and those a walk that is at node has passed.
Match(t, family, ip) == {n \in Alloc(t) : Own(t, n) # Nil /\ n.family = family /\ Covers(n, ip)}
Passed(t, family, ip, node) ==
    {n \in Match(t, family, ip) : ~(node # Nil /\ node.cidr <= n.cidr /\ Covers(node, n.bits))}

\* p has the longest of them.
HasLongest(t, S, p) ==
    \/ S = {} /\ p = Nil
    \/ \E n \in S : p = Own(t, n) /\ \A o \in S : o.cidr <= n.cidr

LookupInv(t, family, ip, k, w) ==
    /\ w.node # Nil => w.node.family = family
    /\ HasLongest(t, Passed(t, family, ip, w.node), w.found)
    /\ w.node = Nil \/ ~Covers(w.node, ip) \/ w.node.cidr >= k

\* The invariant of the loop: the longest of those passed is what was found.
LEMMA LookupInvStep ==
    ASSUME NEW t, Linked(t), NEW ip \in Address, NEW family \in Family,
           NEW k \in Nat, NEW w \in Steps(t), LookupInv(t, family, ip, k, w)
    PROVE  LookupInv(t, family, ip, k + 1, LookupStep(t, ip, w))
<1>a. Alloc(t) \subseteq Node BY TableType DEF Linked
<1>1. CASE w.node = Nil \/ ~Covers(w.node, ip)
  <2>1. LookupStep(t, ip, w) = w
    <3>1. CASE w.node = Nil BY <3>1 DEF LookupStep
    <3>2. CASE w.node # Nil
      <4>1. w.node \in Node BY <3>2, <1>a DEF Steps
      <4> QED BY <4>1, <1>1, <3>2, MatchesCovers DEF LookupStep
    <3> QED BY <3>1, <3>2
  <2> QED BY <1>1, <2>1 DEF LookupInv
<1>2. CASE w.node # Nil /\ Covers(w.node, ip)
  <2> DEFINE m == w.node
             c == IF m.cidr = Width THEN Nil ELSE t.node[m].child[choose(m, ip)]
             p == IF t.node[m].peer # Nil THEN t.node[m].peer ELSE w.found
             P == Passed(t, family, ip, m)
             Q == Passed(t, family, ip, c)
  <2>1. m \in Alloc(t) /\ m \in Node /\ m.family = family /\ Covers(m, ip) BY <1>2, <1>a DEF Steps, LookupInv
  <2>2. LookupStep(t, ip, w) = [found |-> p, node |-> c] BY <1>2, <2>1, MatchesCovers DEF LookupStep
  <2>w. m.cidr \in Nat /\ Width \in Nat /\ m.cidr <= Width /\ m.bits \in Address BY <2>1, NodeType, WidthAssumption DEF Cidr
  <2> HIDE DEF m
  <2>3. c # Nil => /\ c \in Alloc(t) /\ c.family = family /\ c.cidr > m.cidr /\ Covers(m, c.bits)
                   /\ c \in Node /\ c.cidr \in Nat /\ m.cidr < Width
    <3> SUFFICES ASSUME c # Nil
                 PROVE  /\ c \in Alloc(t) /\ c.family = family /\ c.cidr > m.cidr /\ Covers(m, c.bits)
                        /\ c \in Node /\ c.cidr \in Nat /\ m.cidr < Width
      OBVIOUS
    <3>1. m.cidr < Width /\ c = t.node[m].child[choose(m, ip)] BY <2>w
    <3>2. choose(m, ip) \in Bit BY <3>1, <2>1, NextField
    <3>3. c \in Alloc(t) /\ c.family = m.family /\ c.cidr > m.cidr /\ Covers(m, c.bits) BY <3>1, <3>2, <2>1, ChildFits
    <3> HIDE DEF c
    <3> QED BY <3>1, <3>3, <2>1, <1>a, NodeType
  <2>4. \A n \in Match(t, family, ip) : n \in Node /\ n.cidr \in Nat /\ n.bits \in Address /\ Covers(n, ip)
                                     /\ n.family = family /\ n \in Alloc(t)
    BY <1>a, NodeType DEF Match
  <2>5. \A n \in P : n \in Q
    <3> SUFFICES ASSUME NEW n \in P, c # Nil, c.cidr <= n.cidr, Covers(c, n.bits) PROVE FALSE BY DEF Passed
    <3>1. n \in Match(t, family, ip) BY DEF Passed
    <3>2. n.bits \in Address /\ n.cidr \in Nat BY <3>1, <2>4
    <3> HIDE DEF c
    <3>3. Covers(m, n.bits)
      <4>1. m.cidr <= c.cidr BY <2>3, <2>w
      <4> QED BY <4>1, <3>2, <2>3, <2>1, CoversTrans
    <3>4. m.cidr <= n.cidr BY <2>3, <2>w, <3>2
    <3> QED BY <3>3, <3>4, <1>2 DEF Passed, m
  <2>6. \A n \in Match(t, family, ip) : n \notin P /\ n # m => n \notin Q
    <3> SUFFICES ASSUME NEW n \in Match(t, family, ip), n \notin P, n # m PROVE n \notin Q OBVIOUS
    <3>1. m.cidr <= n.cidr /\ Covers(m, n.bits) BY DEF Passed
    <3>2. n \in Node /\ n.cidr \in Nat /\ n.bits \in Address /\ Covers(n, ip) /\ n.family = family /\ n \in Alloc(t) BY <2>4
    <3>3. m.cidr # n.cidr BY <3>1, <3>2, <2>1, SameNode
    <3>4. m.cidr < n.cidr BY <3>1, <3>3, <3>2, <2>w
    <3>5. Descends(t, m, n) BY <3>1, <3>2, <3>4, <2>1, Descend DEF Above
    <3>6. Toward(t, m, n) = t.node[m].child[choose(m, ip)]
      <4>1. m.cidr + 1 \in 1 .. n.cidr BY <3>4, <3>2, <2>w
      <4>2. n.bits[m.cidr + 1] = ip[m.cidr + 1] BY <4>1, <3>2 DEF Covers, Agree
      <4> QED BY <4>2 DEF Toward, choose
    <3>7. m.cidr # Width BY <3>4, <3>2, <2>w, NodeType DEF Cidr
    <3>8. c = Toward(t, m, n) BY <3>6, <3>7
    <3>9. c # Nil /\ c.cidr <= n.cidr /\ Covers(c, n.bits) BY <3>5, <3>8 DEF Descends
    <3> HIDE DEF c
    <3> QED BY <3>9 DEF Passed
  <2>7. m \in Match(t, family, ip) <=> Own(t, m) # Nil BY <2>1 DEF Match
  <2>8. m \in Match(t, family, ip) => m \in Q
    <3> HIDE DEF c
    <3> QED BY <2>3, <2>w DEF Passed
  <2>9. \A n \in P : n.cidr <= m.cidr
    <3> SUFFICES ASSUME NEW n \in P, ~(n.cidr <= m.cidr) PROVE FALSE OBVIOUS
    <3>1. n \in Match(t, family, ip) BY DEF Passed
    <3>2. n \in Node /\ n.cidr \in Nat /\ n.bits \in Address /\ Covers(n, ip) BY <3>1, <2>4
    <3>3. m.cidr <= n.cidr BY <3>2, <2>w
    <3>4. Covers(m, n.bits) BY <3>2, <3>3, <2>1, CoversBoth
    <3> QED BY <3>3, <3>4, <1>2 DEF Passed, m
  <2>10. HasLongest(t, P, w.found) BY DEF LookupInv, m
  <2>11. P \subseteq Match(t, family, ip) /\ Q \subseteq Match(t, family, ip) BY DEF Passed
  <2> HIDE DEF c, P, Q
  <2>12. HasLongest(t, Q, p)
    <3>1. CASE Own(t, m) # Nil
      <4>1. p = Own(t, m) BY <3>1 DEF Own
      <4>2. m \in Q BY <3>1, <2>7, <2>8
      <4>3. \A o \in Q : o.cidr <= m.cidr BY <2>6, <2>9, <2>11, <2>w
      <4> QED BY <4>1, <4>2, <4>3 DEF HasLongest
    <3>2. CASE Own(t, m) = Nil
      <4>1. p = w.found BY <3>2 DEF Own
      <4>2. P = Q BY <2>5, <2>6, <2>7, <2>11, <3>2
      <4> QED BY <4>1, <4>2, <2>10
    <3> QED BY <3>1, <3>2
  <2>13. c # Nil => c.cidr >= k + 1
    <3>1. m.cidr >= k BY <1>2 DEF LookupInv, m
    <3> QED BY <3>1, <2>3, <2>w
  <2> HIDE DEF p
  <2>14. LookupStep(t, ip, w).found = p /\ LookupStep(t, ip, w).node = c BY <2>2
  <2>15. c # Nil => c.family = family BY <2>3
  <2> QED BY <2>12, <2>13, <2>14, <2>15 DEF LookupInv, Q
<1>3. QED BY <1>1, <1>2

\* Lookup finds the peer of the longest prefix that contains the address.
LEMMA LookupFindsLongest ==
    ASSUME NEW t, Linked(t), NEW ip \in Address, NEW family \in Family
    PROVE  HasLongest(t, Match(t, family, ip), Lookup(t, family, ip))
<1> DEFINE W == LookupWalk(t, family, ip)
           J(k) == LookupInv(t, family, ip, k, W[k])
           S == {k \in Nat : k <= Width + 1 => J(k)}
<1>w. Width \in Nat /\ Width + 1 \in Nat BY WidthAssumption
<1>a. Alloc(t) \subseteq Node BY TableType DEF Linked
<1>1. /\ \A k \in 0 .. Width + 1 : W[k] \in Steps(t)
      /\ W[0] = [node |-> t.root[family], found |-> Nil]
      /\ \A k \in 0 .. Width : W[k + 1] = LookupStep(t, ip, W[k])
  BY LookupWalkDef
<1> HIDE DEF W
<1>2. 0 \in S
  <2> DEFINE r == t.root[family]
  <2>1. r # Nil => r.family = family /\ r \in Node /\ r.cidr \in Nat
    <3>1. r # Nil => r.family = family /\ r \in Alloc(t) BY RootPointer DEF Linked, DownLinked, Fits
    <3> QED BY <3>1, <1>a, NodeType
  <2>2. \A n \in Match(t, family, ip) : r # Nil /\ r.cidr <= n.cidr /\ Covers(r, n.bits)
    BY RootCovers DEF Match
  <2>3. W[0].node = r /\ W[0].found = Nil BY <1>1
  <2> HIDE DEF r
  <2>4. Passed(t, family, ip, r) = {} BY <2>2 DEF Passed
  <2>5. J(0) BY <2>1, <2>3, <2>4 DEF LookupInv, HasLongest
  <2> QED BY <2>5
<1>3. ASSUME NEW k \in Nat, k \in S PROVE k + 1 \in S
  <2> SUFFICES ASSUME k + 1 <= Width + 1 PROVE J(k + 1) OBVIOUS
  <2>1. k \in 0 .. Width /\ k \in 0 .. Width + 1 BY <1>w
  <2>2. J(k) BY <1>3, <2>1
  <2>3. W[k] \in Steps(t) /\ W[k + 1] = LookupStep(t, ip, W[k]) BY <2>1, <1>1
  <2>4. LookupInv(t, family, ip, k + 1, LookupStep(t, ip, W[k])) BY <2>2, <2>3, LookupInvStep
  <2> QED BY <2>3, <2>4
<1>4. Width + 1 \in S
  <2> HIDE DEF S
  <2> QED BY <1>2, <1>3, <1>w, SetInduction
<1>5. J(Width + 1) BY <1>4, <1>w
<1> DEFINE w == W[Width + 1]
<1>6. w \in Steps(t) /\ LookupInv(t, family, ip, Width + 1, w) BY <1>1, <1>w, <1>5
<1>7. Lookup(t, family, ip) = w.found BY LookupIsWalk DEF W
<1> HIDE DEF w
<1>8. Passed(t, family, ip, w.node) = Match(t, family, ip)
  <2> SUFFICES ASSUME NEW n \in Match(t, family, ip),
                      w.node # Nil, w.node.cidr <= n.cidr, Covers(w.node, n.bits)
               PROVE  FALSE
    BY DEF Passed
  <2>1. w.node \in Node /\ n \in Node /\ Covers(n, ip) BY <1>6, <1>a DEF Steps, Match
  <2>2. Covers(w.node, ip) BY <2>1, CoversTrans
  <2>3. w.node.cidr >= Width + 1 BY <2>2, <1>6 DEF LookupInv
  <2>4. w.node.cidr <= Width /\ w.node.cidr \in Nat BY <2>1, NodeType, <1>w DEF Cidr
  <2> QED BY <2>3, <2>4, <1>w
<1>9. QED BY <1>6, <1>7, <1>8 DEF LookupInv

-------------------------------------------------------------------------------
(* What the assignments of allowedips.go do to fields, parents, owners and lists. *)

\* A field holds a node or nothing.
LEMMA PointerType ==
    ASSUME NEW t, IsTable(t), NEW at \in Pointer(t)
    PROVE  at \in parentIndirection /\ Field(t, at) \in Node \cup {Nil}
<1>1. CASE at.bit = 2 /\ at.of \in Family /\ at = RootOf(at.of)
  BY <1>1, TableType DEF Field, RootOf, parentIndirection
<1>2. CASE at.bit \in Bit /\ at.bit # 2 /\ at.of \in Alloc(t) /\ at = ChildOf(at.of, at.bit)
  BY <1>2, TableType DEF Field, ChildOf, parentIndirection
<1>3. QED BY <1>1, <1>2, PointerCases

\* u is t but for the fields that are named.
SameNodes(t, u) == Alloc(u) = Alloc(t) /\ Pointer(u) = Pointer(t)
SameField(t, u, S) == \A at \in S : Field(u, at) = Field(t, at)
SameOwn(t, u, S) == \A n \in S : Own(u, n) = Own(t, n)
SamePar(t, u, S) == \A n \in S : Par(u, n) = Par(t, n)

\* Tables with the same nodes have the same fields.
LEMMA NodesPointers ==
    ASSUME NEW t, NEW u, Alloc(u) = Alloc(t)
    PROVE  SameNodes(t, u)
BY DEF SameNodes, Pointer

\* An assignment to *parentBit changes that field ...
LEMMA StoreFacts ==
    ASSUME NEW t, IsTable(t), NEW at \in Pointer(t), NEW x \in Node \cup {Nil}
    PROVE  LET u == Store(t, at, x) IN
           /\ IsTable(u) /\ SameNodes(t, u) /\ u.entries = t.entries
           /\ Field(u, at) = x /\ SameField(t, u, Pointer(t) \ {at})
           /\ SameOwn(t, u, Alloc(t)) /\ SamePar(t, u, Alloc(t))
<1> DEFINE u == Store(t, at, x)
<1>1. CASE at.bit = 2 /\ at.of \in Family /\ at = RootOf(at.of)
  <2>1. u = [t EXCEPT !.root[at.of] = x] BY <1>1 DEF Store
  <2> HIDE DEF u
  <2>2. u.node = t.node /\ u.entries = t.entries /\ u.root = [t.root EXCEPT ![at.of] = x] /\ DOMAIN u = DOMAIN t
    BY <2>1 DEF IsTable
  <2>3. u.root \in [Family -> Node \cup {Nil}] BY <2>2, <1>1 DEF IsTable
  <2>4. IsTable(u) BY <2>2, <2>3 DEF IsTable
  <2>5. SameNodes(t, u) BY <2>2, NodesPointers DEF Alloc
  <2>6. Field(u, at) = x BY <1>1, <2>2 DEF Field, IsTable
  <2>7. SameField(t, u, Pointer(t) \ {at})
    <3> SUFFICES ASSUME NEW b \in Pointer(t), b # at PROVE Field(u, b) = Field(t, b) BY DEF SameField
    <3>1. CASE b.bit = 2 /\ b.of \in Family /\ b = RootOf(b.of)
      <4>1. b.of # at.of BY <3>1, <1>1
      <4> QED BY <4>1, <3>1, <2>2 DEF Field, IsTable
    <3>2. CASE b.bit # 2 BY <3>2, <2>2 DEF Field
    <3> QED BY <3>1, <3>2, PointerCases
  <2>8. SameOwn(t, u, Alloc(t)) /\ SamePar(t, u, Alloc(t)) BY <2>2 DEF SameOwn, SamePar, Own, Par
  <2> QED BY <2>2, <2>4, <2>5, <2>6, <2>7, <2>8 DEF u
<1>2. CASE at.bit \in Bit /\ at.bit # 2 /\ at.of \in Alloc(t) /\ at = ChildOf(at.of, at.bit)
  <2> DEFINE m == at.of
  <2>1. u = [t EXCEPT !.node[m].child[at.bit] = x] BY <1>2 DEF Store
  <2>a. m \in Alloc(t) /\ t.node[m] \in trieEntry BY <1>2 DEF IsTable, Alloc
  <2> HIDE DEF u, m
  <2>2. u.root = t.root /\ u.entries = t.entries /\ DOMAIN u = DOMAIN t /\ DOMAIN u.node = DOMAIN t.node
    BY <2>1 DEF IsTable
  <2>3. u.node[m] = [t.node[m] EXCEPT !.child[at.bit] = x] BY <2>1, <2>a DEF IsTable, Alloc
  <2>4. \A n \in Alloc(t) : n # m => u.node[n] = t.node[n] BY <2>1 DEF IsTable, Alloc
  <2>5. /\ u.node[m].peer = t.node[m].peer /\ u.node[m].parent = t.node[m].parent
        /\ u.node[m].child = [t.node[m].child EXCEPT ![at.bit] = x]
        /\ u.node[m] \in trieEntry
    BY <2>3, <2>a, <1>2 DEF trieEntry
  <2>6. IsTable(u) BY <2>2, <2>4, <2>5 DEF IsTable, Alloc
  <2>7. SameNodes(t, u) BY <2>2, NodesPointers DEF Alloc
  <2>8. Field(u, at) = x
    <3>1. t.node[m].child \in [Bit -> Node \cup {Nil}] BY <2>a DEF trieEntry
    <3> QED BY <3>1, <1>2, <2>5 DEF Field, m
  <2>9. SameField(t, u, Pointer(t) \ {at})
    <3> SUFFICES ASSUME NEW b \in Pointer(t), b # at PROVE Field(u, b) = Field(t, b) BY DEF SameField
    <3>1. CASE b.bit = 2 BY <3>1, <2>2 DEF Field
    <3>2. CASE b.bit \in Bit /\ b.bit # 2 /\ b.of \in Alloc(t) /\ b = ChildOf(b.of, b.bit)
      <4>1. CASE b.of # m BY <4>1, <3>2, <2>4 DEF Field
      <4>2. CASE b.of = m
        <5>1. b.bit # at.bit BY <4>2, <3>2, <1>2 DEF m
        <5>2. t.node[m].child \in [Bit -> Node \cup {Nil}] BY <2>a DEF trieEntry
        <5>3. u.node[m].child[b.bit] = t.node[m].child[b.bit] BY <5>1, <5>2, <2>5, <3>2
        <5> QED BY <5>3, <3>2, <4>2 DEF Field
      <4> QED BY <4>1, <4>2
    <3> QED BY <3>1, <3>2, PointerCases
  <2>10. SameOwn(t, u, Alloc(t)) /\ SamePar(t, u, Alloc(t)) BY <2>4, <2>5 DEF SameOwn, SamePar, Own, Par
  <2> QED BY <2>2, <2>6, <2>7, <2>8, <2>9, <2>10 DEF u
<1>3. QED BY <1>1, <1>2, PointerCases

\* ... one to a node's parent changes that parent ...
LEMMA SetParentFacts ==
    ASSUME NEW t, IsTable(t), NEW n \in Alloc(t), NEW at \in parentIndirection
    PROVE  LET u == SetParent(t, n, at) IN
           /\ IsTable(u) /\ SameNodes(t, u) /\ u.entries = t.entries
           /\ SameField(t, u, Pointer(t))
           /\ SameOwn(t, u, Alloc(t)) /\ Par(u, n) = at /\ SamePar(t, u, Alloc(t) \ {n})
<1> DEFINE u == SetParent(t, n, at)
<1>1. u = [t EXCEPT !.node[n].parent = at] BY DEF SetParent
<1>a. t.node[n] \in trieEntry BY DEF IsTable, Alloc
<1> HIDE DEF u
<1>2. u.root = t.root /\ u.entries = t.entries /\ DOMAIN u = DOMAIN t /\ DOMAIN u.node = DOMAIN t.node
  BY <1>1 DEF IsTable
<1>3. u.node[n] = [t.node[n] EXCEPT !.parent = at] BY <1>1, <1>a DEF IsTable, Alloc
<1>4. \A m \in Alloc(t) : m # n => u.node[m] = t.node[m] BY <1>1 DEF IsTable, Alloc
<1>5. /\ u.node[n].peer = t.node[n].peer /\ u.node[n].parent = at /\ u.node[n].child = t.node[n].child
      /\ u.node[n] \in trieEntry
  BY <1>3, <1>a DEF trieEntry
<1>6. IsTable(u) BY <1>2, <1>4, <1>5 DEF IsTable, Alloc
<1>7. SameNodes(t, u) BY <1>2, NodesPointers DEF Alloc
<1>8. SameField(t, u, Pointer(t))
  <2> SUFFICES ASSUME NEW b \in Pointer(t) PROVE Field(u, b) = Field(t, b) BY DEF SameField
  <2>1. CASE b.bit = 2 BY <2>1, <1>2 DEF Field
  <2>2. CASE b.bit # 2 /\ b.of \in Alloc(t) BY <2>2, <1>4, <1>5 DEF Field
  <2> QED BY <2>1, <2>2, PointerCases
<1>9. SameOwn(t, u, Alloc(t)) /\ Par(u, n) = at /\ SamePar(t, u, Alloc(t) \ {n})
  BY <1>4, <1>5 DEF SameOwn, SamePar, Own, Par
<1>10. QED BY <1>2, <1>6, <1>7, <1>8, <1>9 DEF u

\* ... and both together the two.
LEMMA LinkFacts ==
    ASSUME NEW t, IsTable(t), NEW at \in Pointer(t), NEW n \in Alloc(t)
    PROVE  LET u == Link(t, at, n) IN
           /\ IsTable(u) /\ SameNodes(t, u) /\ u.entries = t.entries
           /\ Field(u, at) = n /\ SameField(t, u, Pointer(t) \ {at})
           /\ SameOwn(t, u, Alloc(t)) /\ Par(u, n) = at /\ SamePar(t, u, Alloc(t) \ {n})
<1> DEFINE s == SetParent(t, n, at)
           u == Store(s, at, n)
<1>1. at \in parentIndirection /\ n \in Node BY PointerType, TableType
<1>2. /\ IsTable(s) /\ SameNodes(t, s) /\ s.entries = t.entries
      /\ SameField(t, s, Pointer(t))
      /\ SameOwn(t, s, Alloc(t)) /\ Par(s, n) = at /\ SamePar(t, s, Alloc(t) \ {n})
  BY <1>1, SetParentFacts
<1> HIDE DEF s
<1>3. /\ IsTable(u) /\ SameNodes(s, u) /\ u.entries = s.entries
      /\ Field(u, at) = n /\ SameField(s, u, Pointer(s) \ {at})
      /\ SameOwn(s, u, Alloc(s)) /\ SamePar(s, u, Alloc(s))
  BY <1>1, <1>2, StoreFacts DEF SameNodes
<1>4. Link(t, at, n) = u BY DEF Link, s
<1> HIDE DEF u
<1>5. QED BY <1>2, <1>3, <1>4 DEF SameNodes, SameField, SameOwn, SamePar

\* A new node has empty fields.
LEMMA AllocateFacts ==
    ASSUME NEW t, IsTable(t), NEW n \in Node, n \notin Alloc(t), NEW p \in Peer \cup {Nil},
           NEW at \in parentIndirection
    PROVE  LET u == Allocate(t, n, p, at) IN
           /\ IsTable(u) /\ Alloc(u) = Alloc(t) \cup {n} /\ u.entries = t.entries
           /\ Pointer(u) = Pointer(t) \cup {ChildOf(n, b) : b \in Bit}
           /\ \A b \in Bit : Field(u, ChildOf(n, b)) = Nil
           /\ SameField(t, u, Pointer(t))
           /\ Own(u, n) = p /\ SameOwn(t, u, Alloc(t)) /\ Par(u, n) = at /\ SamePar(t, u, Alloc(t))
<1> DEFINE u == Allocate(t, n, p, at)
           e == [peer |-> p, child |-> [b \in Bit |-> Nil], parent |-> at]
<1>1. u = [t EXCEPT !.node = [m \in Alloc(t) \cup {n} |-> IF m = n THEN e ELSE t.node[m]]]
  BY DEF Allocate, Alloc
<1>2. e \in trieEntry /\ e.peer = p /\ e.parent = at /\ \A b \in Bit : e.child[b] = Nil BY DEF trieEntry
<1> HIDE DEF u, e
<1>3. u.root = t.root /\ u.entries = t.entries /\ DOMAIN u = DOMAIN t /\ Alloc(u) = Alloc(t) \cup {n}
  BY <1>1 DEF IsTable, Alloc
<1>4. u.node[n] = e /\ \A m \in Alloc(t) : u.node[m] = t.node[m] BY <1>1 DEF IsTable
<1>5. IsTable(u) BY <1>2, <1>3, <1>4 DEF IsTable, Alloc
<1>6. Pointer(u) = Pointer(t) \cup {ChildOf(n, b) : b \in Bit}
  <2>1. \A at1 \in Pointer(u) : at1 \in Pointer(t) \cup {ChildOf(n, b) : b \in Bit}
    <3> TAKE at1 \in Pointer(u)
    <3>1. CASE at1.bit = 2 /\ at1.of \in Family /\ at1 = RootOf(at1.of) BY <3>1, RootPointer
    <3>2. CASE at1.bit \in Bit /\ at1.of \in Alloc(t) /\ at1 = ChildOf(at1.of, at1.bit) BY <3>2, ChildPointer
    <3>3. CASE at1.bit \in Bit /\ at1.of = n /\ at1 = ChildOf(at1.of, at1.bit) BY <3>3
    <3> QED BY <3>1, <3>2, <3>3, <1>3, PointerCases
  <2>2. \A at1 \in Pointer(t) : at1 \in Pointer(u) BY <1>3 DEF Pointer
  <2>3. \A b \in Bit : ChildOf(n, b) \in Pointer(u) BY <1>3, ChildPointer
  <2> QED BY <2>1, <2>2, <2>3
<1>7. \A b \in Bit : Field(u, ChildOf(n, b)) = Nil BY <1>2, <1>3, <1>4, ChildPointer
<1>8. SameField(t, u, Pointer(t))
  <2> SUFFICES ASSUME NEW b \in Pointer(t) PROVE Field(u, b) = Field(t, b) BY DEF SameField
  <2>1. CASE b.bit = 2 BY <2>1, <1>3 DEF Field
  <2>2. CASE b.bit # 2 /\ b.of \in Alloc(t) BY <2>2, <1>4 DEF Field
  <2> QED BY <2>1, <2>2, PointerCases
<1>9. Own(u, n) = p /\ SameOwn(t, u, Alloc(t)) /\ Par(u, n) = at /\ SamePar(t, u, Alloc(t))
  BY <1>2, <1>4 DEF SameOwn, SamePar, Own, Par
<1>10. QED BY <1>3, <1>5, <1>6, <1>7, <1>8, <1>9 DEF u

\* zeroizePointers takes the node and its fields away.
LEMMA ZeroizeFacts ==
    ASSUME NEW t, IsTable(t), NEW n
    PROVE  LET u == zeroizePointers(t, n) IN
           /\ IsTable(u) /\ Alloc(u) = Alloc(t) \ {n} /\ u.entries = t.entries
           /\ Pointer(u) = {at \in Pointer(t) : at.bit = 2 \/ at.of # n}
           /\ SameField(t, u, Pointer(u))
           /\ SameOwn(t, u, Alloc(u)) /\ SamePar(t, u, Alloc(u))
<1> DEFINE u == zeroizePointers(t, n)
<1>1. u = [t EXCEPT !.node = [m \in Alloc(t) \ {n} |-> t.node[m]]] BY DEF zeroizePointers, Alloc
<1> HIDE DEF u
<1>3. u.root = t.root /\ u.entries = t.entries /\ DOMAIN u = DOMAIN t /\ Alloc(u) = Alloc(t) \ {n}
  BY <1>1 DEF IsTable, Alloc
<1>4. \A m \in Alloc(u) : u.node[m] = t.node[m] BY <1>1, <1>3 DEF IsTable
<1>5. IsTable(u) BY <1>3, <1>4 DEF IsTable, Alloc
<1>6. Pointer(u) = {at \in Pointer(t) : at.bit = 2 \/ at.of # n}
  <2>1. \A at1 \in Pointer(u) : at1 \in Pointer(t) /\ (at1.bit = 2 \/ at1.of # n)
    <3> TAKE at1 \in Pointer(u)
    <3>1. CASE at1.bit = 2 /\ at1.of \in Family /\ at1 = RootOf(at1.of) BY <3>1, RootPointer
    <3>2. CASE at1.bit \in Bit /\ at1.of \in Alloc(u) /\ at1 = ChildOf(at1.of, at1.bit)
      <4>1. at1.of \in Alloc(t) /\ at1.of # n BY <3>2, <1>3
      <4> QED BY <3>2, <4>1, ChildPointer
    <3> QED BY <3>1, <3>2, PointerCases
  <2>2. \A at1 \in Pointer(t) : (at1.bit = 2 \/ at1.of # n) => at1 \in Pointer(u)
    <3> SUFFICES ASSUME NEW at1 \in Pointer(t), at1.bit = 2 \/ at1.of # n PROVE at1 \in Pointer(u) OBVIOUS
    <3>1. CASE at1.bit = 2 /\ at1.of \in Family /\ at1 = RootOf(at1.of) BY <3>1, RootPointer
    <3>2. CASE at1.bit \in Bit /\ at1.bit # 2 /\ at1.of \in Alloc(t) /\ at1 = ChildOf(at1.of, at1.bit)
      <4>1. at1.of \in Alloc(u) BY <3>2, <1>3
      <4> QED BY <3>2, <4>1, ChildPointer
    <3> QED BY <3>1, <3>2, PointerCases
  <2> QED BY <2>1, <2>2
<1>8. SameField(t, u, Pointer(u))
  <2> SUFFICES ASSUME NEW b \in Pointer(u) PROVE Field(u, b) = Field(t, b) BY DEF SameField
  <2>1. CASE b.bit = 2 BY <2>1, <1>3 DEF Field
  <2>2. CASE b.bit # 2 /\ b.of \in Alloc(u) BY <2>2, <1>4 DEF Field
  <2> QED BY <2>1, <2>2, PointerCases
<1>9. SameOwn(t, u, Alloc(u)) /\ SamePar(t, u, Alloc(u)) BY <1>4 DEF SameOwn, SamePar, Own, Par
<1>10. QED BY <1>3, <1>5, <1>6, <1>8, <1>9 DEF u

-------------------------------------------------------------------------------
(* The lists of the peers. *)

Elements(s) == {s[i] : i \in 1 .. Len(s)}
ListIs(s, S) ==
    /\ s \in Seq(Node) /\ Elements(s) = S
    /\ \A i, j \in 1 .. Len(s) : s[i] = s[j] => i = j

\* list.Remove takes an element out of a list ...
LEMMA RemoveFromList ==
    ASSUME NEW s, NEW S, ListIs(s, S), NEW e \in S
    PROVE  ListIs(RemoveFirst(s, e), S \ {e})
<1>1. s \in Seq(Node) /\ Len(s) \in Nat /\ \A i \in 1 .. Len(s) : s[i] \in Node BY LenProperties, ElementOfSeq DEF ListIs
<1>2. PICK k \in 1 .. Len(s) : s[k] = e BY DEF ListIs, Elements
<1>3. \A i \in 1 .. Len(s) : s[i] = e => i = k BY <1>2 DEF ListIs
<1>4. {i \in 1 .. Len(s) : s[i] = e} = {k} BY <1>2, <1>3
<1>5. Min({k}) = k BY DEF Min
<1>6. SelectInSeq(s, LAMBDA v : v = e) = k BY <1>4, <1>5, Zenon DEF SelectInSeq
<1>7. RemoveFirst(s, e) = SubSeq(s, 1, k - 1) \o SubSeq(s, k + 1, Len(s))
  BY <1>2, <1>6, Zenon DEF RemoveFirst, RemoveAt
<1> DEFINE a == SubSeq(s, 1, k - 1)
           b == SubSeq(s, k + 1, Len(s))
           r == RemoveFirst(s, e)
<1>8. a \in Seq(Node) /\ Len(a) = k - 1 /\ \A i \in 1 .. k - 1 : a[i] = s[i]
  <2>1. \A i \in 1 .. k - 1 : s[i] \in Node BY <1>1
  <2>2. 1 \in Int /\ k - 1 \in Int /\ k \in Nat BY <1>1
  <2>3. /\ a \in Seq(Node)
        /\ Len(a) = IF 1 <= k - 1 THEN k - 1 - 1 + 1 ELSE 0
        /\ \A i \in 1 .. k - 1 - 1 + 1 : a[i] = s[1 + i - 1]
    BY <2>1, <2>2, SubSeqProperties
  <2> HIDE DEF a
  <2> QED BY <2>2, <2>3
<1>9. b \in Seq(Node) /\ Len(b) = Len(s) - k /\ \A i \in 1 .. Len(s) - k : b[i] = s[k + i]
  <2>1. \A i \in k + 1 .. Len(s) : s[i] \in Node BY <1>1
  <2>2. k + 1 \in Int /\ Len(s) \in Int /\ k \in Nat BY <1>1
  <2>3. /\ b \in Seq(Node)
        /\ Len(b) = IF k + 1 <= Len(s) THEN Len(s) - (k + 1) + 1 ELSE 0
        /\ \A i \in 1 .. Len(s) - (k + 1) + 1 : b[i] = s[(k + 1) + i - 1]
    BY <2>1, <2>2, SubSeqProperties
  <2> HIDE DEF b
  <2> QED BY <2>2, <2>3, <1>1
<1>10. r = a \o b BY <1>7
<1> HIDE DEF a, b, r
<1>11. r \in Seq(Node) /\ Len(r) = Len(s) - 1 BY <1>1, <1>8, <1>9, <1>10, ConcatProperties
<1>12. \A i \in 1 .. Len(r) : r[i] = IF i < k THEN s[i] ELSE s[i + 1]
  <2> TAKE i \in 1 .. Len(r)
  <2>1. r[i] = IF i <= Len(a) THEN a[i] ELSE b[i - Len(a)] BY <1>8, <1>9, <1>10, <1>11, ConcatProperties
  <2>2. CASE i < k BY <2>1, <2>2, <1>8, <1>1
  <2>3. CASE ~(i < k)
    <3>0. Len(a) = k - 1 /\ i \in Nat /\ i >= k /\ i <= Len(s) - 1 /\ k \in Nat /\ Len(s) \in Nat
      BY <2>3, <1>8, <1>11, <1>1
    <3>1. ~(i <= Len(a)) /\ i - Len(a) \in 1 .. Len(s) - k /\ k + (i - Len(a)) = i + 1 BY <3>0
    <3> QED BY <3>1, <2>1, <2>3, <1>9
  <2> QED BY <2>2, <2>3
<1>13. Elements(r) = S \ {e}
  <2>1. ASSUME NEW i \in 1 .. Len(r) PROVE r[i] \in S \ {e}
    <3> DEFINE j == IF i < k THEN i ELSE i + 1
    <3>1. j \in 1 .. Len(s) /\ j # k BY <1>11, <1>1
    <3>2. r[i] = s[j] BY <1>12
    <3> QED BY <3>1, <3>2, <1>3 DEF ListIs, Elements
  <2>2. ASSUME NEW x \in S, x # e PROVE \E i \in 1 .. Len(r) : r[i] = x
    <3>1. PICK j \in 1 .. Len(s) : s[j] = x BY DEF ListIs, Elements
    <3>2. j # k BY <3>1, <2>2, <1>2
    <3> DEFINE i == IF j < k THEN j ELSE j - 1
    <3>3. i \in 1 .. Len(r) BY <3>2, <1>11, <1>1
    <3>4. r[i] = s[j] BY <3>3, <3>2, <1>12
    <3> QED BY <3>1, <3>3, <3>4
  <2> QED BY <2>1, <2>2 DEF Elements
<1>14. \A i, j \in 1 .. Len(r) : r[i] = r[j] => i = j
  <2> SUFFICES ASSUME NEW i \in 1 .. Len(r), NEW j \in 1 .. Len(r), r[i] = r[j] PROVE i = j OBVIOUS
  <2> DEFINE f(x) == IF x < k THEN x ELSE x + 1
  <2>1. f(i) \in 1 .. Len(s) /\ f(j) \in 1 .. Len(s) BY <1>11, <1>1
  <2>2. r[i] = s[f(i)] /\ r[j] = s[f(j)] BY <1>12
  <2>3. f(i) = f(j)
    <3> HIDE DEF f
    <3> QED BY <2>1, <2>2 DEF ListIs
  <2> QED BY <2>3, <1>11, <1>1
<1>15. QED BY <1>11, <1>13, <1>14 DEF ListIs, r

\* ... list.PushBack puts one at its end.
LEMMA AppendToList ==
    ASSUME NEW s, NEW S, ListIs(s, S), NEW e \in Node, e \notin S
    PROVE  ListIs(Append(s, e), S \cup {e})
<1> DEFINE r == Append(s, e)
<1>1. s \in Seq(Node) /\ Len(s) \in Nat BY LenProperties DEF ListIs
<1>2. r \in Seq(Node) /\ Len(r) = Len(s) + 1 /\ r[Len(s) + 1] = e /\ \A i \in 1 .. Len(s) : r[i] = s[i]
  BY <1>1, AppendProperties
<1> HIDE DEF r
<1>3. \A i \in 1 .. Len(s) : s[i] \in S /\ s[i] # e BY DEF ListIs, Elements
<1>4. Elements(r) = S \cup {e}
  <2>1. ASSUME NEW i \in 1 .. Len(r) PROVE r[i] \in S \cup {e}
    <3>1. i = Len(s) + 1 \/ i \in 1 .. Len(s) BY <1>1, <1>2
    <3> QED BY <3>1, <1>2, <1>3
  <2>2. ASSUME NEW x \in S PROVE \E i \in 1 .. Len(r) : r[i] = x
    <3>1. PICK i \in 1 .. Len(s) : s[i] = x BY DEF ListIs, Elements
    <3> QED BY <3>1, <1>1, <1>2
  <2>3. Len(s) + 1 \in 1 .. Len(r) BY <1>1, <1>2
  <2> QED BY <2>1, <2>2, <2>3, <1>2 DEF Elements
<1>5. \A i, j \in 1 .. Len(r) : r[i] = r[j] => i = j
  <2> SUFFICES ASSUME NEW i \in 1 .. Len(r), NEW j \in 1 .. Len(r), r[i] = r[j] PROVE i = j OBVIOUS
  <2>1. (i = Len(s) + 1 \/ i \in 1 .. Len(s)) /\ (j = Len(s) + 1 \/ j \in 1 .. Len(s)) BY <1>1, <1>2
  <2> QED BY <2>1, <1>2, <1>3 DEF ListIs
<1>6. QED BY <1>2, <1>4, <1>5 DEF ListIs, r

\* Listed, for each list.
LEMMA ListedIs ==
    ASSUME NEW t, IsTable(t)
    PROVE  Listed(t) <=> \A p \in Peer : ListIs(t.entries[p], Owned(t, p))
BY TableType DEF Listed, ListOK, ListIs, Elements

\* The trie is the same.
SameTrie(t, u) == u.root = t.root /\ u.node = t.node

\* Lists do not matter to the trie.
LEMMA SameTrieFacts ==
    ASSUME NEW t, NEW u, SameTrie(t, u)
    PROVE  /\ SameNodes(t, u) /\ \A S : SameField(t, u, S) /\ SameOwn(t, u, S) /\ SamePar(t, u, S)
           /\ \A p : Owned(u, p) = Owned(t, p)
BY DEF SameTrie, SameNodes, SameField, SameOwn, SamePar, Owned, Alloc, Pointer, Field, Own, Par

\* removeFromPeerEntries takes the node off its owner's list, if it is on it.
LEMMA RemoveEntryFacts ==
    ASSUME NEW t, IsTable(t), Listed(t), NEW n \in Alloc(t)
    PROVE  LET u == removeFromPeerEntries(t, n) IN
           IsTable(u) /\ SameTrie(t, u) /\ \A p \in Peer : ListIs(u.entries[p], Owned(t, p) \ {n})
<1> DEFINE u == removeFromPeerEntries(t, n)
           o == Own(t, n)
<1>1. \A p \in Peer : ListIs(t.entries[p], Owned(t, p)) BY ListedIs
<1>2. \A p \in Peer : p # o => Owned(t, p) \ {n} = Owned(t, p) BY DEF Owned
<1>3. CASE o = Nil
  <2>1. u = t BY <1>3 DEF removeFromPeerEntries, Own
  <2>2. \A p \in Peer : p # o BY <1>3, NilAssumption
  <2> QED BY <2>1, <2>2, <1>1, <1>2 DEF SameTrie
<1>4. CASE o # Nil
  <2>1. o \in Peer BY <1>4, TableType
  <2>2. u = [t EXCEPT !.entries[o] = RemoveFirst(t.entries[o], n)] BY <1>4 DEF removeFromPeerEntries, Own
  <2>3. ListIs(RemoveFirst(t.entries[o], n), Owned(t, o) \ {n})
    <3>1. n \in Owned(t, o) BY DEF Owned
    <3> QED BY <3>1, <2>1, <1>1, RemoveFromList
  <2> DEFINE r == RemoveFirst(t.entries[o], n)
  <2>4. r \in Seq(Node) BY <2>3 DEF ListIs
  <2> HIDE DEF u, r, o
  <2>5. u = [t EXCEPT !.entries[o] = r] BY <2>2 DEF r
  <2>6. SameTrie(t, u) /\ DOMAIN u = DOMAIN t /\ u.entries = [t.entries EXCEPT ![o] = r]
    BY <2>5 DEF IsTable, SameTrie
  <2>7. u.entries \in [Peer -> Seq(Node)] BY <2>6, <2>4, <2>1 DEF IsTable
  <2>8. IsTable(u) BY <2>6, <2>7 DEF IsTable, SameTrie
  <2>9. \A p \in Peer : u.entries[p] = IF p = o THEN r ELSE t.entries[p] BY <2>6, <2>1 DEF IsTable
  <2>10. \A p \in Peer : ListIs(u.entries[p], Owned(t, p) \ {n})
    <3> TAKE p \in Peer
    <3>1. CASE p = o BY <3>1, <2>9, <2>3 DEF r
    <3>2. CASE p # o BY <3>2, <2>9, <1>1, <1>2
    <3> QED BY <3>1, <3>2
  <2> QED BY <2>6, <2>8, <2>10 DEF u
<1>5. QED BY <1>3, <1>4

\* addToPeerEntries puts the node on its owner's list.
LEMMA AddEntryFacts ==
    ASSUME NEW t, IsTable(t), NEW n \in Alloc(t), NEW p \in Peer, Own(t, n) = p,
           NEW S, ListIs(t.entries[p], S), n \notin S
    PROVE  LET u == addToPeerEntries(t, n) IN
           /\ IsTable(u) /\ SameTrie(t, u)
           /\ \A q \in Peer : q # p => u.entries[q] = t.entries[q]
           /\ ListIs(u.entries[p], S \cup {n})
<1> DEFINE u == addToPeerEntries(t, n)
           r == Append(t.entries[p], n)
<1>1. n \in Node BY TableType
<1>2. ListIs(r, S \cup {n}) BY <1>1, AppendToList
<1>3. r \in Seq(Node) BY <1>2 DEF ListIs
<1>4. u = [t EXCEPT !.entries[p] = r] BY DEF addToPeerEntries, Own
<1> HIDE DEF u, r
<1>5. SameTrie(t, u) /\ DOMAIN u = DOMAIN t /\ u.entries = [t.entries EXCEPT ![p] = r]
  BY <1>4 DEF IsTable, SameTrie
<1>6. u.entries \in [Peer -> Seq(Node)] BY <1>5, <1>3 DEF IsTable
<1>7. IsTable(u) BY <1>5, <1>6 DEF IsTable, SameTrie
<1>8. \A q \in Peer : u.entries[q] = IF q = p THEN r ELSE t.entries[q] BY <1>5 DEF IsTable
<1>9. QED BY <1>2, <1>5, <1>7, <1>8 DEF u

\* An assignment to a node's peer changes that owner.
LEMMA SetOwnerFacts ==
    ASSUME NEW t, IsTable(t), NEW n \in Alloc(t), NEW p \in Peer \cup {Nil}
    PROVE  LET u == [t EXCEPT !.node[n].peer = p] IN
           /\ IsTable(u) /\ SameNodes(t, u) /\ u.entries = t.entries
           /\ SameField(t, u, Pointer(t))
           /\ Own(u, n) = p /\ SameOwn(t, u, Alloc(t) \ {n}) /\ SamePar(t, u, Alloc(t))
<1> DEFINE u == [t EXCEPT !.node[n].peer = p]
<1>1. u = [t EXCEPT !.node[n].peer = p] OBVIOUS
<1>a. t.node[n] \in trieEntry BY DEF IsTable, Alloc
<1> HIDE DEF u
<1>2. u.root = t.root /\ u.entries = t.entries /\ DOMAIN u = DOMAIN t /\ DOMAIN u.node = DOMAIN t.node
  BY <1>1 DEF IsTable
<1>3. u.node[n] = [t.node[n] EXCEPT !.peer = p] BY <1>1, <1>a DEF IsTable, Alloc
<1>4. \A m \in Alloc(t) : m # n => u.node[m] = t.node[m] BY <1>1 DEF IsTable, Alloc
<1>5. /\ u.node[n].peer = p /\ u.node[n].parent = t.node[n].parent /\ u.node[n].child = t.node[n].child
      /\ u.node[n] \in trieEntry
  BY <1>3, <1>a DEF trieEntry
<1>6. IsTable(u) BY <1>2, <1>4, <1>5 DEF IsTable, Alloc
<1>7. SameNodes(t, u) BY <1>2, NodesPointers DEF Alloc
<1>8. SameField(t, u, Pointer(t))
  <2> SUFFICES ASSUME NEW b \in Pointer(t) PROVE Field(u, b) = Field(t, b) BY DEF SameField
  <2>1. CASE b.bit = 2 BY <2>1, <1>2 DEF Field
  <2>2. CASE b.bit # 2 /\ b.of \in Alloc(t) BY <2>2, <1>4, <1>5 DEF Field
  <2> QED BY <2>1, <2>2, PointerCases
<1>9. Own(u, n) = p /\ SameOwn(t, u, Alloc(t) \ {n}) /\ SamePar(t, u, Alloc(t))
  BY <1>4, <1>5 DEF SameOwn, SamePar, Own, Par
<1>10. QED BY <1>2, <1>6, <1>7, <1>8, <1>9 DEF u

-------------------------------------------------------------------------------
(* Insert *)

\* Owners and lists do not matter to the links.
LEMMA LinkedSame ==
    ASSUME NEW t, Linked(t), NEW u, IsTable(u), SameNodes(t, u),
           SameField(t, u, Pointer(t)), SamePar(t, u, Alloc(t))
    PROVE  Linked(u)
BY DEF Linked, UpLinked, DownLinked, SameNodes, SameField, SamePar

\* What belongs to whom, before and after n is given to p.
Given(t, u, n, p) ==
    \A q \in Peer : Owned(u, q) = IF q = p THEN Owned(t, q) \cup {n} ELSE Owned(t, q) \ {n}

\* Insert finds a node with the very prefix: it changes its owner.
LEMMA InsertExactWF ==
    ASSUME NEW t, WellFormed(t), NEW n \in Alloc(t), NEW p \in Peer
    PROVE  WellFormed(InsertExact(t, n, p)) /\ Given(t, InsertExact(t, n, p), n, p)
<1> DEFINE a == removeFromPeerEntries(t, n)
           s == [a EXCEPT !.node[n].peer = p]
           u == addToPeerEntries(s, n)
<1>0. IsTable(t) /\ Linked(t) /\ Forked(t) /\ Listed(t) BY DEF WellFormed, Linked
<1>1. IsTable(a) /\ SameTrie(t, a) /\ \A q \in Peer : ListIs(a.entries[q], Owned(t, q) \ {n})
  BY <1>0, RemoveEntryFacts
<1> HIDE DEF a
<1>2. n \in Alloc(a) /\ SameNodes(t, a) BY <1>1, SameTrieFacts DEF SameNodes
<1>3. /\ IsTable(s) /\ SameNodes(a, s) /\ s.entries = a.entries
      /\ SameField(a, s, Pointer(a))
      /\ Own(s, n) = p /\ SameOwn(a, s, Alloc(a) \ {n}) /\ SamePar(a, s, Alloc(a))
  BY <1>1, <1>2, SetOwnerFacts
<1> HIDE DEF s
<1>4. n \in Alloc(s) BY <1>2, <1>3 DEF SameNodes
<1>5. ListIs(s.entries[p], Owned(t, p) \ {n}) BY <1>1, <1>3
<1>6. /\ IsTable(u) /\ SameTrie(s, u)
      /\ \A q \in Peer : q # p => u.entries[q] = s.entries[q]
      /\ ListIs(u.entries[p], (Owned(t, p) \ {n}) \cup {n})
  BY <1>3, <1>4, <1>5, AddEntryFacts
<1>7. InsertExact(t, n, p) = u BY DEF InsertExact, s, a
<1> HIDE DEF u
<1>8. SameNodes(t, u) /\ SameField(t, u, Pointer(t)) /\ SamePar(t, u, Alloc(t))
      /\ Own(u, n) = p /\ SameOwn(t, u, Alloc(t) \ {n})
  <2>1. SameField(t, a, Pointer(t)) /\ SamePar(t, a, Alloc(t)) /\ SameOwn(t, a, Alloc(t)) BY <1>1, SameTrieFacts
  <2>2. SameNodes(s, u) /\ SameField(s, u, Pointer(t)) /\ SamePar(s, u, Alloc(t)) /\ SameOwn(s, u, Alloc(t))
    BY <1>6, SameTrieFacts
  <2> QED BY <1>2, <1>3, <2>1, <2>2 DEF SameNodes, SameField, SamePar, SameOwn
<1>9. Linked(u) BY <1>0, <1>6, <1>8, LinkedSame
<1>10. Given(t, u, n, p) BY <1>8 DEF Given, Owned, SameNodes, SameOwn
<1>11. Forked(u)
  <2> SUFFICES ASSUME NEW m \in Alloc(u), Own(u, m) = Nil PROVE Fork(u, m) BY DEF Forked
  <2>1. m \in Alloc(t) /\ m # n BY <1>8, NilAssumption DEF SameNodes
  <2>2. Own(t, m) = Nil BY <2>1, <1>8 DEF SameOwn
  <2>3. Fork(t, m) BY <2>1, <2>2, <1>0 DEF Forked
  <2>4. \A b \in Bit : ChildOf(m, b) \in Pointer(t) BY <2>1, ChildPointer
  <2> QED BY <2>3, <2>4, <1>8 DEF Fork, SameField
<1>12. Listed(u)
  <2>1. \A q \in Peer : ListIs(u.entries[q], Owned(u, q))
    <3> TAKE q \in Peer
    <3>1. CASE q = p
      <4>1. Owned(u, p) = (Owned(t, p) \ {n}) \cup {n} BY <1>10 DEF Given
      <4> QED BY <4>1, <3>1, <1>6
    <3>2. CASE q # p
      <4>1. Owned(u, q) = Owned(t, q) \ {n} BY <3>2, <1>10 DEF Given
      <4> QED BY <4>1, <3>2, <1>1, <1>3, <1>6
    <3> QED BY <3>1, <3>2
  <2> QED BY <2>1, <1>6, ListedIs
<1>13. QED BY <1>7, <1>9, <1>10, <1>11, <1>12 DEF WellFormed

\* The lists and the owners after the node n of p is new, and perhaps a fork that belongs to nobody.
LEMMA ListedNew ==
    ASSUME NEW t, IsTable(t), Listed(t), NEW u, IsTable(u), NEW n, n \notin Alloc(t), NEW p \in Peer,
           NEW N, Alloc(u) = Alloc(t) \cup {n} \cup N, N \cap Alloc(t) = {}, n \notin N,
           \A m \in N : Own(u, m) = Nil, Own(u, n) = p, SameOwn(t, u, Alloc(t)),
           \A q \in Peer : q # p => u.entries[q] = t.entries[q],
           ListIs(u.entries[p], Owned(t, p) \cup {n})
    PROVE  Listed(u) /\ Given(t, u, n, p)
<1>1. Given(t, u, n, p)
  <2> SUFFICES ASSUME NEW q \in Peer
               PROVE  Owned(u, q) = IF q = p THEN Owned(t, q) \cup {n} ELSE Owned(t, q) \ {n}
    BY DEF Given
  <2>1. q # Nil BY NilAssumption
  <2> QED BY <2>1 DEF Owned, SameOwn
<1>2. \A q \in Peer : ListIs(u.entries[q], Owned(u, q))
  <2> TAKE q \in Peer
  <2>1. CASE q = p BY <2>1, <1>1 DEF Given
  <2>2. CASE q # p
    <3>1. Owned(t, q) \ {n} = Owned(t, q) BY DEF Owned
    <3>2. Owned(u, q) = Owned(t, q) BY <3>1, <2>2, <1>1 DEF Given
    <3>3. ListIs(t.entries[q], Owned(t, q)) BY ListedIs
    <3> QED BY <2>2, <3>2, <3>3
  <2> QED BY <2>1, <2>2
<1>3. QED BY <1>1, <1>2, ListedIs

\* Nothing is lost: a fork stays a fork.
LEMMA ForkedNew ==
    ASSUME NEW t, Forked(t), NEW u,
           \A m \in Alloc(u) : Own(u, m) = Nil => m \in Alloc(t) \/ Fork(u, m),
           SameOwn(t, u, Alloc(t)),
           \A b \in Pointer(t) : Field(t, b) # Nil => Field(u, b) # Nil
    PROVE  Forked(u)
<1> SUFFICES ASSUME NEW m \in Alloc(u), Own(u, m) = Nil, m \in Alloc(t) PROVE Fork(u, m) BY DEF Forked
<1>1. Fork(t, m) BY DEF Forked, SameOwn
<1>2. \A b \in Bit : ChildOf(m, b) \in Pointer(t) BY ChildPointer
<1>3. QED BY <1>1, <1>2 DEF Fork

\* Insert finds an empty field: the new node goes there.
LEMMA InsertLeafWF ==
    ASSUME NEW t, WellFormed(t), NEW n \in Node, n \notin Alloc(t), NEW p \in Peer,
           NEW at \in Pointer(t), Field(t, at) = Nil, Fits(at, n)
    PROVE  WellFormed(InsertLeaf(t, at, n, p)) /\ Given(t, InsertLeaf(t, at, n, p), n, p)
<1> DEFINE a == Allocate(t, n, p, at)
           s == Store(a, at, n)
           u == addToPeerEntries(s, n)
<1>0. IsTable(t) /\ Linked(t) /\ Forked(t) /\ Listed(t) /\ at \in parentIndirection /\ n # Nil
  BY PointerType, NodeType DEF WellFormed, Linked
<1>1. /\ IsTable(a) /\ Alloc(a) = Alloc(t) \cup {n} /\ a.entries = t.entries
      /\ Pointer(a) = Pointer(t) \cup {ChildOf(n, b) : b \in Bit}
      /\ \A b \in Bit : Field(a, ChildOf(n, b)) = Nil
      /\ SameField(t, a, Pointer(t))
      /\ Own(a, n) = p /\ SameOwn(t, a, Alloc(t)) /\ Par(a, n) = at /\ SamePar(t, a, Alloc(t))
  BY <1>0, AllocateFacts
<1> HIDE DEF a
<1>2. /\ IsTable(s) /\ SameNodes(a, s) /\ s.entries = a.entries
      /\ Field(s, at) = n /\ SameField(a, s, Pointer(a) \ {at})
      /\ SameOwn(a, s, Alloc(a)) /\ SamePar(a, s, Alloc(a))
  <2>1. IsTable(a) /\ at \in Pointer(a) /\ n \in Node \cup {Nil} BY <1>1
  <2> QED BY <2>1, StoreFacts
<1> HIDE DEF s
<1>3. n \in Alloc(s) /\ Own(s, n) = p BY <1>1, <1>2 DEF SameNodes, SameOwn
<1>4. ListIs(s.entries[p], Owned(t, p)) /\ n \notin Owned(t, p) BY <1>0, <1>1, <1>2, ListedIs DEF Owned
<1>5. /\ IsTable(u) /\ SameTrie(s, u)
      /\ \A q \in Peer : q # p => u.entries[q] = s.entries[q]
      /\ ListIs(u.entries[p], Owned(t, p) \cup {n})
  BY <1>2, <1>3, <1>4, AddEntryFacts
<1>6. InsertLeaf(t, at, n, p) = u BY DEF InsertLeaf, s, a
<1> HIDE DEF u
<1>7. /\ Alloc(u) = Alloc(t) \cup {n} /\ Pointer(u) = Pointer(t) \cup {ChildOf(n, b) : b \in Bit}
      /\ Field(u, at) = n /\ SameField(t, u, Pointer(t) \ {at})
      /\ \A b \in Bit : ChildOf(n, b) # at /\ Field(u, ChildOf(n, b)) = Nil
      /\ Own(u, n) = p /\ SameOwn(t, u, Alloc(t)) /\ Par(u, n) = at /\ SamePar(t, u, Alloc(t))
  <2>1. SameNodes(s, u) /\ \A S : SameField(s, u, S) /\ SamePar(s, u, S) /\ SameOwn(s, u, S) BY <1>5, SameTrieFacts
  <2>2. \A b \in Bit : ChildOf(n, b) # at
    <3>1. at.bit = 2 \/ at.of # n BY PointerCases
    <3> QED BY <3>1 DEF ChildOf, Bit
  <2>3. SameField(s, u, Pointer(u)) /\ SamePar(s, u, Alloc(u)) /\ SameOwn(s, u, Alloc(u)) BY <2>1
  <2>4. Alloc(u) = Alloc(t) \cup {n} /\ Pointer(u) = Pointer(t) \cup {ChildOf(n, b) : b \in Bit}
    BY <1>1, <1>2, <2>1 DEF SameNodes
  <2> QED BY <1>1, <1>2, <2>2, <2>3, <2>4 DEF SameNodes, SameField, SamePar, SameOwn
<1>8. UpLinked(u)
  <2> SUFFICES ASSUME NEW m \in Alloc(u) PROVE Par(u, m) \in Pointer(u) /\ Field(u, Par(u, m)) = m BY DEF UpLinked
  <2>1. CASE m = n BY <2>1, <1>7
  <2>2. CASE m \in Alloc(t)
    <3>1. Par(u, m) = Par(t, m) /\ Par(t, m) \in Pointer(t) /\ Field(t, Par(t, m)) = m
      BY <2>2, <1>7, <1>0 DEF SamePar, Linked, UpLinked
    <3>2. m # Nil BY <2>2, <1>0, TableType, NodeType
    <3> QED BY <3>1, <3>2, <1>7 DEF SameField
  <2> QED BY <2>1, <2>2, <1>7
<1>9. DownLinked(u)
  <2> SUFFICES ASSUME NEW b \in Pointer(u), Field(u, b) # Nil
               PROVE  /\ Field(u, b) \in Alloc(u) /\ Par(u, Field(u, b)) = b /\ Fits(b, Field(u, b))
    BY DEF DownLinked
  <2>1. CASE b = at BY <2>1, <1>7
  <2>2. CASE b # at
    <3>1. b \in Pointer(t) /\ Field(u, b) = Field(t, b) BY <2>2, <1>7 DEF SameField
    <3> QED BY <3>1, <1>0, <1>7 DEF Linked, DownLinked, SamePar
  <2> QED BY <2>1, <2>2
<1>10. Forked(u)
  <2>1. \A m \in Alloc(u) : Own(u, m) = Nil => m \in Alloc(t) BY <1>7, NilAssumption
  <2>2. \A b \in Pointer(t) : Field(t, b) # Nil => Field(u, b) # Nil BY <1>7 DEF SameField
  <2> QED BY <2>1, <2>2, <1>0, <1>7, ForkedNew
<1>11. Listed(u) /\ Given(t, u, n, p)
  <2>1. Alloc(u) = Alloc(t) \cup {n} \cup {} /\ {} \cap Alloc(t) = {} /\ n \notin {} BY <1>7
  <2>2. \A m \in {} : Own(u, m) = Nil OBVIOUS
  <2>3. \A q \in Peer : q # p => u.entries[q] = t.entries[q] BY <1>1, <1>2, <1>5
  <2>4. ListIs(u.entries[p], Owned(t, p) \cup {n}) BY <1>5
  <2>5. IsTable(t) /\ Listed(t) /\ IsTable(u) /\ Own(u, n) = p /\ SameOwn(t, u, Alloc(t)) BY <1>0, <1>5, <1>7
  <2> QED BY <2>1, <2>2, <2>3, <2>4, <2>5, ListedNew
<1>12. QED BY <1>5, <1>6, <1>8, <1>9, <1>10, <1>11 DEF WellFormed, Linked

\* Insert finds a node the new one contains: the new one goes in between.
LEMMA InsertAboveWF ==
    ASSUME NEW t, WellFormed(t), NEW n \in Node, n \notin Alloc(t), NEW p \in Peer,
           NEW at \in Pointer(t), NEW down, Field(t, at) = down, down # Nil, Fits(at, n),
           choose(n, down.bits) \in Bit, Fits(ChildOf(n, choose(n, down.bits)), down)
    PROVE  WellFormed(InsertAbove(t, at, n, down, p)) /\ Given(t, InsertAbove(t, at, n, down, p), n, p)
<1> DEFINE a == Allocate(t, n, p, at)
           s == addToPeerEntries(a, n)
           k == choose(n, down.bits)
           c == ChildOf(n, k)
           l == Link(s, c, down)
           u == Store(l, at, n)
<1>0. IsTable(t) /\ Linked(t) /\ Forked(t) /\ Listed(t) /\ at \in parentIndirection /\ n # Nil
  BY PointerType, NodeType DEF WellFormed, Linked
<1>d. down \in Alloc(t) /\ Par(t, down) = at BY <1>0 DEF Linked, DownLinked
<1>1. /\ IsTable(a) /\ Alloc(a) = Alloc(t) \cup {n} /\ a.entries = t.entries
      /\ Pointer(a) = Pointer(t) \cup {ChildOf(n, b) : b \in Bit}
      /\ \A b \in Bit : Field(a, ChildOf(n, b)) = Nil
      /\ SameField(t, a, Pointer(t))
      /\ Own(a, n) = p /\ SameOwn(t, a, Alloc(t)) /\ Par(a, n) = at /\ SamePar(t, a, Alloc(t))
  BY <1>0, AllocateFacts
<1> HIDE DEF a
<1>2. n \in Alloc(a) /\ ListIs(a.entries[p], Owned(t, p)) /\ n \notin Owned(t, p)
  BY <1>0, <1>1, ListedIs DEF Owned
<1>3. /\ IsTable(s) /\ SameTrie(a, s)
      /\ \A q \in Peer : q # p => s.entries[q] = a.entries[q]
      /\ ListIs(s.entries[p], Owned(t, p) \cup {n})
  BY <1>1, <1>2, AddEntryFacts
<1> HIDE DEF s
<1>4. /\ Alloc(s) = Alloc(t) \cup {n} /\ Pointer(s) = Pointer(t) \cup {ChildOf(n, b) : b \in Bit}
      /\ SameField(t, s, Pointer(t)) /\ \A b \in Bit : Field(s, ChildOf(n, b)) = Nil
      /\ Own(s, n) = p /\ SameOwn(t, s, Alloc(t)) /\ Par(s, n) = at /\ SamePar(t, s, Alloc(t))
  <2>1. SameNodes(a, s) /\ \A S : SameField(a, s, S) /\ SamePar(a, s, S) /\ SameOwn(a, s, S) BY <1>3, SameTrieFacts
  <2>2. SameField(a, s, Pointer(a)) /\ SamePar(a, s, Alloc(a)) /\ SameOwn(a, s, Alloc(a)) BY <2>1
  <2> QED BY <1>1, <2>1, <2>2 DEF SameNodes, SameField, SamePar, SameOwn
<1>5. k \in Bit /\ c \in Pointer(s) /\ c # at /\ c \notin Pointer(t) /\ c.bit # 2 /\ c.of = n
  <2>1. k \in Bit OBVIOUS
  <2> HIDE DEF k
  <2>2. c.bit = k /\ c.of = n /\ c.bit # 2 BY <2>1 DEF ChildOf, Bit
  <2>3. \A b \in Pointer(t) : b.bit = 2 \/ b.of # n BY PointerCases
  <2>4. c \notin Pointer(t) BY <2>2, <2>3
  <2> QED BY <2>1, <2>2, <2>4, <1>4
<1> HIDE DEF k, c
<1>6. /\ IsTable(l) /\ SameNodes(s, l) /\ l.entries = s.entries
      /\ Field(l, c) = down /\ SameField(s, l, Pointer(s) \ {c})
      /\ SameOwn(s, l, Alloc(s)) /\ Par(l, down) = c /\ SamePar(s, l, Alloc(s) \ {down})
  <2>1. down \in Alloc(s) BY <1>d, <1>4
  <2> QED BY <2>1, <1>3, <1>5, LinkFacts
<1> HIDE DEF l
<1>7. /\ IsTable(u) /\ SameNodes(l, u) /\ u.entries = l.entries
      /\ Field(u, at) = n /\ SameField(l, u, Pointer(l) \ {at})
      /\ SameOwn(l, u, Alloc(l)) /\ SamePar(l, u, Alloc(l))
  <2>1. at \in Pointer(l) BY <1>4, <1>6 DEF SameNodes
  <2> QED BY <2>1, <1>6, StoreFacts
<1>8. InsertAbove(t, at, n, down, p) = u BY DEF InsertAbove, l, c, k, s, a
<1> HIDE DEF u
<1>9. /\ Alloc(u) = Alloc(t) \cup {n} /\ Pointer(u) = Pointer(t) \cup {ChildOf(n, b) : b \in Bit}
      /\ c \in Pointer(u)
      /\ Field(u, at) = n /\ Field(u, c) = down /\ SameField(t, u, Pointer(t) \ {at})
      /\ \A b \in Bit : ChildOf(n, b) # c => Field(u, ChildOf(n, b)) = Nil
      /\ Own(u, n) = p /\ SameOwn(t, u, Alloc(t))
      /\ Par(u, n) = at /\ Par(u, down) = c /\ SamePar(t, u, Alloc(t) \ {down})
  <2>1. Alloc(u) = Alloc(s) /\ Pointer(u) = Pointer(s) /\ Alloc(l) = Alloc(s) /\ Pointer(l) = Pointer(s)
    BY <1>6, <1>7 DEF SameNodes
  <2>2. \A b \in Bit : ChildOf(n, b) \notin Pointer(t) /\ ChildOf(n, b) # at
    <3>1. \A b \in Pointer(t) : b.bit = 2 \/ b.of # n BY PointerCases
    <3>2. \A b \in Bit : ChildOf(n, b).bit # 2 /\ ChildOf(n, b).of = n BY DEF ChildOf, Bit
    <3> QED BY <3>1, <3>2
  <2>3. n # down BY <1>d
  <2>4. Field(u, c) = down /\ SameField(t, u, Pointer(t) \ {at}) BY <2>1, <1>4, <1>5, <1>6, <1>7 DEF SameField
  <2>5. \A b \in Bit : ChildOf(n, b) # c => Field(u, ChildOf(n, b)) = Nil
    BY <2>1, <2>2, <1>4, <1>6, <1>7 DEF SameField
  <2>6. Own(u, n) = p /\ SameOwn(t, u, Alloc(t)) BY <2>1, <1>4, <1>6, <1>7 DEF SameOwn
  <2>7. Par(u, n) = at /\ Par(u, down) = c /\ SamePar(t, u, Alloc(t) \ {down})
    BY <2>1, <2>3, <1>d, <1>4, <1>6, <1>7 DEF SamePar
  <2> QED BY <2>1, <2>4, <2>5, <2>6, <2>7, <1>4, <1>5, <1>7
<1>10. UpLinked(u)
  <2> SUFFICES ASSUME NEW m \in Alloc(u) PROVE Par(u, m) \in Pointer(u) /\ Field(u, Par(u, m)) = m BY DEF UpLinked
  <2>1. CASE m = n BY <2>1, <1>9
  <2>2. CASE m = down BY <2>2, <1>9
  <2>3. CASE m \in Alloc(t) /\ m # down
    <3>1. Par(u, m) = Par(t, m) /\ Par(t, m) \in Pointer(t) /\ Field(t, Par(t, m)) = m
      BY <2>3, <1>9, <1>0 DEF SamePar, Linked, UpLinked
    <3>2. Par(t, m) # at BY <3>1, <2>3
    <3> QED BY <3>1, <3>2, <1>9 DEF SameField
  <2> QED BY <2>1, <2>2, <2>3, <1>9
<1>11. DownLinked(u)
  <2> SUFFICES ASSUME NEW b \in Pointer(u), Field(u, b) # Nil
               PROVE  /\ Field(u, b) \in Alloc(u) /\ Par(u, Field(u, b)) = b /\ Fits(b, Field(u, b))
    BY DEF DownLinked
  <2>1. CASE b = at BY <2>1, <1>9
  <2>2. CASE b = c BY <2>2, <1>9, <1>d DEF c, k
  <2>3. CASE b # at /\ b # c
    <3>1. b \in Pointer(t) /\ Field(u, b) = Field(t, b) BY <2>3, <1>9 DEF SameField
    <3>2. Field(t, b) \in Alloc(t) /\ Par(t, Field(t, b)) = b /\ Fits(b, Field(t, b))
      BY <3>1, <1>0 DEF Linked, DownLinked
    <3>3. Field(t, b) # down BY <3>2, <1>d, <2>3
    <3> QED BY <3>1, <3>2, <3>3, <1>9 DEF SamePar
  <2> QED BY <2>1, <2>2, <2>3
<1>12. Forked(u)
  <2>1. \A m \in Alloc(u) : Own(u, m) = Nil => m \in Alloc(t) BY <1>9, NilAssumption
  <2>2. \A b \in Pointer(t) : Field(t, b) # Nil => Field(u, b) # Nil BY <1>0, <1>9 DEF SameField
  <2> QED BY <2>1, <2>2, <1>0, <1>9, ForkedNew
<1>13. Listed(u) /\ Given(t, u, n, p)
  <2>1. Alloc(u) = Alloc(t) \cup {n} \cup {} /\ {} \cap Alloc(t) = {} /\ n \notin {} BY <1>9
  <2>2. \A m \in {} : Own(u, m) = Nil OBVIOUS
  <2>3. \A q \in Peer : q # p => u.entries[q] = t.entries[q] BY <1>1, <1>3, <1>6, <1>7
  <2>4. ListIs(u.entries[p], Owned(t, p) \cup {n}) BY <1>3, <1>6, <1>7
  <2> QED BY <2>1, <2>2, <2>3, <2>4, <1>0, <1>7, <1>9, ListedNew
<1>14. QED BY <1>7, <1>8, <1>10, <1>11, <1>12, <1>13 DEF WellFormed, Linked

\* The fields of a new node are new.
LEMMA OtherPointers ==
    ASSUME NEW t, NEW n, n \notin Alloc(t), NEW b \in Bit
    PROVE  ChildOf(n, b) \notin Pointer(t) /\ ChildOf(n, b).bit # 2 /\ ChildOf(n, b).of = n /\ ChildOf(n, b).bit = b
BY DEF ChildOf, Bit, Pointer

\* Insert finds a node beside the new one: a fork is made above the two.
LEMMA InsertBranchWF ==
    ASSUME NEW t, WellFormed(t), NEW n \in Node, n \notin Alloc(t), NEW p \in Peer,
           NEW at \in Pointer(t), NEW down, Field(t, at) = down, down # Nil,
           NEW cidr, NEW f, f = NodeOf(n.family, n.bits, cidr), f \in Node, f \notin Alloc(t), f # n,
           Fits(at, f), NEW kn \in Bit, kn = choose(f, n.bits), NEW kd \in Bit, kd = choose(f, down.bits), kn # kd,
           Fits(ChildOf(f, kn), n), Fits(ChildOf(f, kd), down)
    PROVE  WellFormed(InsertBranch(t, at, n, down, cidr, p)) /\ Given(t, InsertBranch(t, at, n, down, cidr, p), n, p)
<1> DEFINE cn == ChildOf(f, kn)
           cd == ChildOf(f, kd)
           z == Allocate(t, n, p, cn)
           a == addToPeerEntries(z, n)
           b == Allocate(a, f, Nil, at)
           c == Link(b, cd, down)
           d == Store(c, cn, n)
           u == Store(d, at, f)
<1>0. IsTable(t) /\ Linked(t) /\ Forked(t) /\ Listed(t) /\ at \in parentIndirection /\ n # Nil /\ f # Nil
  BY PointerType, NodeType DEF WellFormed, Linked
<1>d. down \in Alloc(t) /\ Par(t, down) = at BY <1>0 DEF Linked, DownLinked
<1>c. cn \in parentIndirection /\ cn # cd /\ cn.of = f /\ cd.of = f /\ cn.bit # 2 /\ cd.bit # 2
      /\ cn \notin Pointer(t) /\ cd \notin Pointer(t)
      /\ cn \in {ChildOf(f, x) : x \in Bit} /\ cd \in {ChildOf(f, x) : x \in Bit}
      /\ {ChildOf(f, x) : x \in Bit} = {cn, cd}
  <2>1. Bit = {kn, kd} BY DEF Bit
  <2> QED BY <2>1, OtherPointers DEF ChildOf, parentIndirection
<1>m. \A x \in Bit : ChildOf(n, x) \notin Pointer(t) /\ ChildOf(n, x) # cn /\ ChildOf(n, x) # cd
  BY OtherPointers, <1>c
<1>i. InsertBranch(t, at, n, down, cidr, p) = u BY DEF InsertBranch
<1> HIDE DEF cn, cd
<1>1. /\ IsTable(z) /\ Alloc(z) = Alloc(t) \cup {n} /\ z.entries = t.entries
      /\ Pointer(z) = Pointer(t) \cup {ChildOf(n, x) : x \in Bit}
      /\ \A x \in Bit : Field(z, ChildOf(n, x)) = Nil
      /\ SameField(t, z, Pointer(t))
      /\ Own(z, n) = p /\ SameOwn(t, z, Alloc(t)) /\ Par(z, n) = cn /\ SamePar(t, z, Alloc(t))
  BY <1>0, <1>c, AllocateFacts
<1> HIDE DEF z
<1>2. n \in Alloc(z) /\ ListIs(z.entries[p], Owned(t, p)) /\ n \notin Owned(t, p)
  BY <1>0, <1>1, ListedIs DEF Owned
<1>3. /\ IsTable(a) /\ SameTrie(z, a)
      /\ \A q \in Peer : q # p => a.entries[q] = z.entries[q]
      /\ ListIs(a.entries[p], Owned(t, p) \cup {n})
  BY <1>1, <1>2, AddEntryFacts
<1> HIDE DEF a
<1>4. /\ Alloc(a) = Alloc(t) \cup {n} /\ Pointer(a) = Pointer(t) \cup {ChildOf(n, x) : x \in Bit}
      /\ SameField(t, a, Pointer(t)) /\ \A x \in Bit : Field(a, ChildOf(n, x)) = Nil
      /\ Own(a, n) = p /\ SameOwn(t, a, Alloc(t)) /\ Par(a, n) = cn /\ SamePar(t, a, Alloc(t))
  <2>1. SameNodes(z, a) /\ \A S : SameField(z, a, S) /\ SamePar(z, a, S) /\ SameOwn(z, a, S) BY <1>3, SameTrieFacts
  <2>2. SameField(z, a, Pointer(z)) /\ SamePar(z, a, Alloc(z)) /\ SameOwn(z, a, Alloc(z)) BY <2>1
  <2> QED BY <1>1, <2>1, <2>2 DEF SameNodes, SameField, SamePar, SameOwn
<1>5. /\ IsTable(b) /\ Alloc(b) = Alloc(a) \cup {f} /\ b.entries = a.entries
      /\ Pointer(b) = Pointer(a) \cup {ChildOf(f, x) : x \in Bit}
      /\ \A x \in Bit : Field(b, ChildOf(f, x)) = Nil
      /\ SameField(a, b, Pointer(a))
      /\ Own(b, f) = Nil /\ SameOwn(a, b, Alloc(a)) /\ Par(b, f) = at /\ SamePar(a, b, Alloc(a))
  <2>1. f \notin Alloc(a) /\ Nil \in Peer \cup {Nil} BY <1>4
  <2>2. f \in Node /\ at \in parentIndirection BY <1>0
  <2>3. b = Allocate(a, f, Nil, at) OBVIOUS
  <2> HIDE DEF b
  <2> QED BY <2>1, <2>2, <2>3, <1>3, AllocateFacts
<1> HIDE DEF b
<1>6. /\ Alloc(b) = Alloc(t) \cup {n} \cup {f}
      /\ Pointer(b) = Pointer(t) \cup {ChildOf(n, x) : x \in Bit} \cup {cn, cd}
      /\ SameField(t, b, Pointer(t)) /\ \A x \in Bit : Field(b, ChildOf(n, x)) = Nil
      /\ Own(b, n) = p /\ Own(b, f) = Nil /\ SameOwn(t, b, Alloc(t))
      /\ Par(b, n) = cn /\ Par(b, f) = at /\ SamePar(t, b, Alloc(t))
  <2>1. /\ Alloc(b) = Alloc(t) \cup {n} \cup {f}
        /\ Pointer(b) = Pointer(t) \cup {ChildOf(n, x) : x \in Bit} \cup {cn, cd}
    BY <1>c, <1>4, <1>5
  <2>2. SameField(t, b, Pointer(t)) /\ \A x \in Bit : Field(b, ChildOf(n, x)) = Nil
    BY <1>4, <1>5 DEF SameField
  <2>3. Own(b, n) = p /\ SameOwn(t, b, Alloc(t)) /\ Par(b, n) = cn /\ SamePar(t, b, Alloc(t))
    BY <1>4, <1>5 DEF SameOwn, SamePar
  <2> QED BY <2>1, <2>2, <2>3, <1>5
<1>7. /\ IsTable(c) /\ SameNodes(b, c) /\ c.entries = b.entries
      /\ Field(c, cd) = down /\ SameField(b, c, Pointer(b) \ {cd})
      /\ SameOwn(b, c, Alloc(b)) /\ Par(c, down) = cd /\ SamePar(b, c, Alloc(b) \ {down})
  <2>1. IsTable(b) /\ down \in Alloc(b) /\ cd \in Pointer(b) BY <1>d, <1>5, <1>6
  <2> QED BY <2>1, LinkFacts
<1> HIDE DEF c
<1>8. /\ IsTable(d) /\ SameNodes(c, d) /\ d.entries = c.entries
      /\ Field(d, cn) = n /\ SameField(c, d, Pointer(c) \ {cn})
      /\ SameOwn(c, d, Alloc(c)) /\ SamePar(c, d, Alloc(c))
  <2>1. IsTable(c) /\ cn \in Pointer(c) /\ n \in Node \cup {Nil} BY <1>6, <1>7 DEF SameNodes
  <2> QED BY <2>1, StoreFacts
<1> HIDE DEF d
<1>9. /\ IsTable(u) /\ SameNodes(d, u) /\ u.entries = d.entries
      /\ Field(u, at) = f /\ SameField(d, u, Pointer(d) \ {at})
      /\ SameOwn(d, u, Alloc(d)) /\ SamePar(d, u, Alloc(d))
  <2>1. IsTable(d) /\ at \in Pointer(d) /\ f \in Node \cup {Nil} BY <1>6, <1>7, <1>8 DEF SameNodes
  <2> QED BY <2>1, StoreFacts
<1> HIDE DEF u
<1>10. /\ Alloc(u) = Alloc(t) \cup {n} \cup {f}
       /\ Pointer(u) = Pointer(t) \cup {ChildOf(n, x) : x \in Bit} \cup {cn, cd}
       /\ Field(u, at) = f /\ Field(u, cn) = n /\ Field(u, cd) = down
       /\ SameField(t, u, Pointer(t) \ {at}) /\ \A x \in Bit : Field(u, ChildOf(n, x)) = Nil
       /\ Own(u, n) = p /\ Own(u, f) = Nil /\ SameOwn(t, u, Alloc(t))
       /\ Par(u, n) = cn /\ Par(u, f) = at /\ Par(u, down) = cd /\ SamePar(t, u, Alloc(t) \ {down})
  <2>1. /\ Alloc(u) = Alloc(b) /\ Pointer(u) = Pointer(b) /\ Alloc(c) = Alloc(b) /\ Pointer(c) = Pointer(b)
        /\ Alloc(d) = Alloc(b) /\ Pointer(d) = Pointer(b)
    BY <1>7, <1>8, <1>9 DEF SameNodes
  <2>2. \A y \in Pointer(b) : y # at /\ y # cn /\ y # cd => Field(u, y) = Field(b, y)
    BY <2>1, <1>7, <1>8, <1>9 DEF SameField
  <2>3. cn # at /\ cd # at BY <1>c
  <2>4. Field(u, cn) = n BY <2>1, <2>3, <1>6, <1>8, <1>9 DEF SameField
  <2>5. Field(u, cd) = down
    <3>1. Field(d, cd) = Field(c, cd) BY <2>1, <1>c, <1>6, <1>8 DEF SameField
    <3>2. Field(u, cd) = Field(d, cd) BY <2>1, <2>3, <1>6, <1>9 DEF SameField
    <3> QED BY <3>1, <3>2, <1>7
  <2>6. SameField(t, u, Pointer(t) \ {at}) BY <2>2, <1>c, <1>6 DEF SameField
  <2>7. \A x \in Bit : Field(u, ChildOf(n, x)) = Nil
    <3> TAKE x \in Bit
    <3>1. ChildOf(n, x) \in Pointer(b) BY <1>6
    <3>2. ChildOf(n, x) # at BY <1>m
    <3> QED BY <3>1, <3>2, <2>2, <1>m, <1>6
  <2>8. Own(u, n) = p /\ Own(u, f) = Nil /\ SameOwn(t, u, Alloc(t)) BY <2>1, <1>6, <1>7, <1>8, <1>9 DEF SameOwn
  <2>9. n # down /\ f # down BY <1>d
  <2>10. Par(u, n) = cn /\ Par(u, f) = at /\ Par(u, down) = cd /\ SamePar(t, u, Alloc(t) \ {down})
    BY <2>1, <2>9, <1>d, <1>6, <1>7, <1>8, <1>9 DEF SamePar
  <2> QED BY <2>1, <2>4, <2>5, <2>6, <2>7, <2>8, <2>10, <1>6, <1>9
<1>11. UpLinked(u)
  <2> SUFFICES ASSUME NEW m \in Alloc(u) PROVE Par(u, m) \in Pointer(u) /\ Field(u, Par(u, m)) = m BY DEF UpLinked
  <2>1. CASE m = n BY <2>1, <1>10
  <2>2. CASE m = f BY <2>2, <1>10
  <2>3. CASE m = down BY <2>3, <1>10
  <2>4. CASE m \in Alloc(t) /\ m # down
    <3>1. Par(u, m) = Par(t, m) /\ Par(t, m) \in Pointer(t) /\ Field(t, Par(t, m)) = m
      BY <2>4, <1>10, <1>0 DEF SamePar, Linked, UpLinked
    <3>2. Par(t, m) # at BY <3>1, <2>4
    <3> QED BY <3>1, <3>2, <1>10 DEF SameField
  <2> QED BY <2>1, <2>2, <2>3, <2>4, <1>10
<1>12. DownLinked(u)
  <2> SUFFICES ASSUME NEW y \in Pointer(u), Field(u, y) # Nil
               PROVE  /\ Field(u, y) \in Alloc(u) /\ Par(u, Field(u, y)) = y /\ Fits(y, Field(u, y))
    BY DEF DownLinked
  <2>1. CASE y = at BY <2>1, <1>10
  <2>2. CASE y = cn BY <2>2, <1>10 DEF cn
  <2>3. CASE y = cd BY <2>3, <1>10, <1>d DEF cd
  <2>4. CASE y # at /\ y # cn /\ y # cd
    <3>1. y \in Pointer(t) /\ Field(u, y) = Field(t, y) BY <2>4, <1>10 DEF SameField
    <3>2. Field(t, y) \in Alloc(t) /\ Par(t, Field(t, y)) = y /\ Fits(y, Field(t, y))
      BY <3>1, <1>0 DEF Linked, DownLinked
    <3>3. Field(t, y) # down BY <3>2, <1>d, <2>4
    <3> QED BY <3>1, <3>2, <3>3, <1>10 DEF SamePar
  <2> QED BY <2>1, <2>2, <2>3, <2>4
<1>13. Forked(u)
  <2>0. Fork(u, f)
    <3>1. \A x \in Bit : ChildOf(f, x) = cn \/ ChildOf(f, x) = cd BY <1>c
    <3> QED BY <3>1, <1>0, <1>10 DEF Fork
  <2>1. \A m \in Alloc(u) : Own(u, m) = Nil => m \in Alloc(t) \/ Fork(u, m) BY <2>0, <1>10, NilAssumption
  <2>2. \A y \in Pointer(t) : Field(t, y) # Nil => Field(u, y) # Nil BY <1>0, <1>10 DEF SameField
  <2> QED BY <2>1, <2>2, <1>0, <1>10, ForkedNew
<1>14. Listed(u) /\ Given(t, u, n, p)
  <2> DEFINE N == {f}
  <2>1. Alloc(u) = Alloc(t) \cup {n} \cup N /\ N \cap Alloc(t) = {} /\ n \notin N BY <1>10
  <2>2. \A m \in N : Own(u, m) = Nil BY <1>10
  <2> HIDE DEF N
  <2>3. \A q \in Peer : q # p => u.entries[q] = t.entries[q] BY <1>1, <1>3, <1>5, <1>7, <1>8, <1>9
  <2>4. ListIs(u.entries[p], Owned(t, p) \cup {n}) BY <1>3, <1>5, <1>7, <1>8, <1>9
  <2>5. IsTable(t) /\ Listed(t) /\ IsTable(u) /\ Own(u, n) = p /\ SameOwn(t, u, Alloc(t)) BY <1>0, <1>9, <1>10
  <2> QED BY <2>1, <2>2, <2>3, <2>4, <2>5, ListedNew
<1>15. QED BY <1>i, <1>9, <1>11, <1>12, <1>13, <1>14 DEF WellFormed, Linked

\* Addresses that agree in some bits agree in fewer.
LEMMA AgreeShort ==
    ASSUME NEW a, NEW b, NEW c \in Nat, Agree(a, b, c), NEW d \in Nat, d <= c
    PROVE  Agree(a, b, d) /\ \A i \in 1 .. c : a[i] = b[i]
BY DEF Agree

\* Addresses that agree with a third agree.
LEMMA AgreeVia ==
    ASSUME NEW x, NEW a, NEW b, NEW c, Agree(a, x, c), Agree(b, x, c)
    PROVE  Agree(a, b, c)
BY DEF Agree

\* Where a new node goes: the field below the place, where it fits, and nobody has its prefix.
LEMMA NewNode ==
    ASSUME NEW t, Linked(t), NEW family \in Family, NEW ip \in Address, NEW cidr \in Cidr
    PROVE  LET new == NodeOf(family, ip, cidr)
               place == nodePlacement(t, ip, family, cidr)
               at == IF place = Nil THEN RootOf(family) ELSE ChildOf(place, choose(place, ip))
               down == IF place = Nil THEN t.root[family] ELSE t.node[place].child[at.bit]
           IN ~Exact(place, cidr) =>
                /\ new \notin Alloc(t) /\ at \in Pointer(t) /\ Field(t, at) = down /\ Fits(at, new)
                /\ ~Reaches(down, ip, cidr)
                /\ place # Nil => /\ place \in Node /\ place.cidr < cidr /\ Covers(place, ip)
                                  /\ at.bit # 2 /\ at.of = place /\ place.family = family
                                  /\ at.bit = ip[place.cidr + 1]
                /\ place = Nil => at = RootOf(family)
<1> DEFINE new == NodeOf(family, ip, cidr)
           place == nodePlacement(t, ip, family, cidr)
           at == IF place = Nil THEN RootOf(family) ELSE ChildOf(place, choose(place, ip))
           down == IF place = Nil THEN t.root[family] ELSE t.node[place].child[at.bit]
<1> SUFFICES ASSUME ~Exact(place, cidr)
             PROVE  /\ new \notin Alloc(t) /\ at \in Pointer(t) /\ Field(t, at) = down /\ Fits(at, new)
                    /\ ~Reaches(down, ip, cidr)
                    /\ place # Nil => /\ place \in Node /\ place.cidr < cidr /\ Covers(place, ip)
                                      /\ at.bit # 2 /\ at.of = place /\ place.family = family
                                      /\ at.bit = ip[place.cidr + 1]
                    /\ place = Nil => at = RootOf(family)
  OBVIOUS
<1>1. /\ place \in Alloc(t) \cup {Nil}
      /\ place # Nil => place.family = family /\ place.cidr <= cidr /\ Covers(place, ip)
      /\ ~Reaches(Below(t, ip, family, place), ip, cidr)
  BY Placement
<1>2. \A n \in Alloc(t) : n.family = family /\ n.cidr <= cidr /\ Covers(n, ip) => place # Nil /\ n.cidr <= place.cidr
  BY PlacementLongest
<1>3. new \in Node /\ new.family = family /\ new.cidr = cidr /\ Agree(new.bits, ip, cidr) BY NodeOfType
<1> HIDE DEF place, new
<1>4. cidr \in Nat /\ cidr <= Width /\ Width \in Nat BY WidthAssumption DEF Cidr
<1>5. place # Nil => place \in Alloc(t) /\ place \in Node /\ place.cidr \in Nat /\ place.cidr < cidr
  <2> SUFFICES ASSUME place # Nil PROVE place \in Alloc(t) /\ place \in Node /\ place.cidr \in Nat /\ place.cidr < cidr
    OBVIOUS
  <2>1. place \in Alloc(t) /\ place \in Node BY <1>1, TableType DEF Linked
  <2>2. place.cidr \in Nat BY <2>1, NodeType
  <2> QED BY <2>1, <2>2, <1>1, <1>4 DEF Exact
<1>6. new \notin Alloc(t)
  <2> SUFFICES ASSUME new \in Alloc(t) PROVE FALSE OBVIOUS
  <2>1. Covers(new, ip) BY <1>3 DEF Covers
  <2>2. place # Nil /\ cidr <= place.cidr BY <2>1, <1>2, <1>3, <1>4
  <2> QED BY <2>2, <1>5, <1>4
<1>7. CASE place = Nil
  <2>1. at = RootOf(family) /\ down = t.root[family] BY <1>7
  <2>2. ~Reaches(down, ip, cidr) BY <1>1, <1>7 DEF Below
  <2> HIDE DEF at, down
  <2>3. at \in Pointer(t) /\ Field(t, at) = down /\ Fits(at, new) BY <2>1, <1>3, RootPointer DEF Fits
  <2> QED BY <2>1, <2>2, <2>3, <1>6, <1>7
<1>8. CASE place # Nil
  <2> DEFINE k == choose(place, ip)
  <2>0. k = ip[place.cidr + 1] BY DEF choose
  <2>1. k \in Bit BY <1>5, <1>8, <1>4, BitOf
  <2> HIDE DEF k
  <2>2. at = ChildOf(place, k) BY <1>8 DEF k
  <2>3. at.bit = k /\ at.of = place /\ at.bit # 2 BY <2>1, <2>2 DEF ChildOf, Bit
  <2>4. down = t.node[place].child[k] BY <1>8, <2>3
  <2>5. ~Reaches(down, ip, cidr)
    <3>1. Below(t, ip, family, place) = down BY <1>8, <2>4 DEF Below, k
    <3> QED BY <3>1, <1>1
  <2> HIDE DEF at, down
  <2>6. at \in Pointer(t) /\ Field(t, at) = down BY <2>1, <2>2, <2>4, <1>5, <1>8, ChildPointer
  <2>7. Fits(at, new)
    <3>1. new.bits[place.cidr + 1] = ip[place.cidr + 1]
      <4>1. place.cidr + 1 \in 1 .. cidr BY <1>4, <1>5, <1>8
      <4> QED BY <4>1, <1>3 DEF Agree
    <3>2. Covers(place, new.bits) BY <1>1, <1>3, <1>4, <1>5, <1>8 DEF Covers, Agree
    <3> QED BY <3>1, <3>2, <2>0, <2>3, <1>1, <1>3, <1>5, <1>8 DEF Fits
  <2> QED BY <2>0, <2>3, <2>5, <2>6, <2>7, <1>1, <1>5, <1>6, <1>8
<1> QED BY <1>7, <1>8

\* insert keeps the trie in order and gives the prefix to the peer, taking it from another.
LEMMA InsertWF ==
    ASSUME NEW t, WellFormed(t), NEW family \in Family, NEW ip \in Address, NEW cidr \in Cidr, NEW p \in Peer
    PROVE  LET u == Insert(t, family, ip, cidr, p) IN WellFormed(u) /\ Given(t, u, NodeOf(family, ip, cidr), p)
<1> DEFINE new == NodeOf(family, ip, cidr)
           place == nodePlacement(t, ip, family, cidr)
           at == IF place = Nil THEN RootOf(family) ELSE ChildOf(place, choose(place, ip))
           down == IF place = Nil THEN t.root[family] ELSE t.node[place].child[at.bit]
           common == commonBits(down.bits, ip)
           u == Insert(t, family, ip, cidr, p)
<1>0. Linked(t) /\ IsTable(t) BY DEF WellFormed, Linked
<1>1. u = IF Exact(place, cidr) THEN InsertExact(t, place, p)
          ELSE IF down = Nil THEN InsertLeaf(t, at, new, p)
          ELSE IF common >= cidr THEN InsertAbove(t, at, new, down, p)
          ELSE InsertBranch(t, at, new, down, common, p)
  BY DEF Insert
<1>2. new \in Node /\ new.family = family /\ new.cidr = cidr /\ Agree(new.bits, ip, cidr) BY NodeOfType
<1>3. cidr \in Nat /\ cidr <= Width /\ Width \in Nat BY WidthAssumption DEF Cidr
<1>4. Alloc(t) \subseteq Node BY <1>0, TableType
<1>5. CASE Exact(place, cidr)
  <2>1. /\ place \in Alloc(t) \cup {Nil}
        /\ place # Nil => place.family = family /\ place.cidr <= cidr /\ Covers(place, ip)
    BY <1>0, Placement
  <2> HIDE DEF place, new
  <2>2. place \in Alloc(t) /\ place \in Node /\ place.cidr = cidr BY <2>1, <1>4, <1>5 DEF Exact
  <2>3. Covers(place, new.bits) BY <2>1, <2>2, <1>2, NodeType DEF Covers, Agree
  <2>4. place = new BY <2>1, <2>2, <2>3, <1>2, NodeType, SameNode
  <2>5. u = InsertExact(t, new, p) BY <1>1, <1>5, <2>4
  <2> HIDE DEF u
  <2> QED BY <2>2, <2>4, <2>5, InsertExactWF DEF new, u
<1>6. CASE ~Exact(place, cidr)
  <2>1. /\ new \notin Alloc(t) /\ at \in Pointer(t) /\ Field(t, at) = down /\ Fits(at, new)
        /\ ~Reaches(down, ip, cidr)
        /\ place # Nil => /\ place \in Node /\ place.cidr < cidr /\ Covers(place, ip)
                          /\ at.bit # 2 /\ at.of = place /\ place.family = family
                          /\ at.bit = ip[place.cidr + 1]
        /\ place = Nil => at = RootOf(family)
    BY <1>0, <1>6, NewNode
  <2> HIDE DEF place, new, at, down
  <2>2. CASE down = Nil
    <3>1. u = InsertLeaf(t, at, new, p) BY <1>1, <1>6, <2>2
    <3> HIDE DEF u
    <3> QED BY <3>1, <2>1, <2>2, <1>2, InsertLeafWF DEF new, u
  <2>3. CASE down # Nil
    <3>1. down \in Alloc(t) /\ Fits(at, down) BY <2>1, <2>3, <1>0 DEF Linked, DownLinked
    <3>2. down \in Node /\ down.bits \in Address /\ down.cidr \in Nat /\ down.cidr <= Width
      BY <3>1, <1>4, NodeType DEF Cidr
    <3>3. /\ common \in Cidr /\ Agree(down.bits, ip, common)
          /\ common < Width => down.bits[common + 1] # ip[common + 1]
          /\ \A c \in Cidr : common >= c <=> Agree(down.bits, ip, c)
      BY <3>2, FirstDifference, CommonBits
    <3>4. ~(down.cidr <= cidr /\ common >= down.cidr) BY <2>1, <2>3, <3>2 DEF Reaches
    <3>5. down.family = family BY <3>1, <2>1 DEF Fits, RootOf
    <3>i. \/ common >= cidr /\ u = InsertAbove(t, at, new, down, p)
          \/ ~(common >= cidr) /\ u = InsertBranch(t, at, new, down, common, p)
      BY <1>1, <1>6, <2>3
    <3> HIDE DEF common, u
    <3>6. common \in Nat /\ common <= Width BY <3>3, <1>3 DEF Cidr
    <3>7. CASE common >= cidr /\ u = InsertAbove(t, at, new, down, p)
      <4>1. down.cidr > cidr BY <3>2, <3>4, <3>6, <3>7, <1>3
      <4> DEFINE k == choose(new, down.bits)
      <4>2. k \in Bit BY <4>1, <3>2, <1>2, <1>3, BitOf
      <4>3. k = down.bits[cidr + 1] BY <1>2 DEF choose
      <4>4. Agree(down.bits, ip, cidr) BY <3>3, <3>6, <3>7, <1>3, AgreeShort
      <4>5. Covers(new, down.bits) BY <4>4, <1>2, AgreeVia DEF Covers
      <4>6. Fits(ChildOf(new, k), down)
        <5> HIDE DEF k
        <5>1. ChildOf(new, k).bit = k /\ ChildOf(new, k).of = new /\ k # 2 BY <4>2 DEF ChildOf, Bit
        <5> QED BY <5>1, <4>1, <4>3, <4>5, <3>5, <1>2 DEF Fits
      <4>7. WellFormed(InsertAbove(t, at, new, down, p)) /\ Given(t, InsertAbove(t, at, new, down, p), new, p)
        BY <4>2, <4>6, <2>1, <2>3, <1>2, InsertAboveWF
      <4> QED BY <4>7, <3>7 DEF new, u
    <3>8. CASE ~(common >= cidr) /\ u = InsertBranch(t, at, new, down, common, p)
      <4>1. common < cidr /\ common < down.cidr /\ common < Width BY <3>2, <3>4, <3>6, <3>8, <1>3
      <4>2. new.bits \in Address BY <1>2, NodeType
      <4> DEFINE f == NodeOf(new.family, new.bits, common)
                 kn == choose(f, new.bits)
                 kd == choose(f, down.bits)
      <4>3. f \in Node /\ f.family = family /\ f.cidr = common /\ Agree(f.bits, new.bits, common)
        BY <4>2, <3>3, <1>2, NodeOfType
      <4> HIDE DEF f
      <4>4. f # new BY <4>1, <4>3, <1>2, <1>3
      <4>5. Agree(new.bits, ip, common) BY <4>1, <3>6, <1>2, <1>3, AgreeShort
      <4>6. Agree(f.bits, ip, common) BY <4>3, <4>5 DEF Agree
      <4>7. Agree(f.bits, down.bits, common) BY <4>6, <3>3, AgreeVia
      <4>8. kn \in Bit /\ kd \in Bit /\ kn = new.bits[common + 1] /\ kd = down.bits[common + 1]
        <5>1. kn \in Bit /\ kd \in Bit BY <4>1, <4>2, <4>3, <3>2, BitOf
        <5> QED BY <5>1, <4>3 DEF choose
      <4>9. kn # kd
        <5>1. new.bits[common + 1] = ip[common + 1]
          <6>1. common + 1 \in 1 .. cidr BY <4>1, <3>6, <1>3
          <6> QED BY <6>1, <1>2 DEF Agree
        <5> QED BY <5>1, <4>1, <4>8, <3>3
      <4>10. place # Nil => place.cidr \in Nat /\ place.cidr < common
        <5> SUFFICES ASSUME place # Nil PROVE place.cidr \in Nat /\ place.cidr < common OBVIOUS
        <5>1. place \in Node /\ place.cidr \in Nat /\ place.cidr < cidr /\ Covers(place, ip) /\ at.bit = ip[place.cidr + 1]
              /\ Covers(place, down.bits) /\ down.bits[place.cidr + 1] = at.bit
          BY <2>1, <3>1, NodeType DEF Fits
        <5>2. place.cidr + 1 \in Cidr BY <5>1, <1>3 DEF Cidr
        <5>3. Agree(down.bits, ip, place.cidr + 1)
          <6> SUFFICES ASSUME NEW i \in 1 .. place.cidr + 1 PROVE down.bits[i] = ip[i] BY DEF Agree
          <6>1. CASE i = place.cidr + 1 BY <6>1, <5>1
          <6>2. CASE i # place.cidr + 1
            <7>1. i \in 1 .. place.cidr BY <6>2, <5>1
            <7> QED BY <7>1, <5>1 DEF Covers, Agree
          <6> QED BY <6>1, <6>2
        <5>4. common >= place.cidr + 1 BY <5>2, <5>3, <3>3
        <5> QED BY <5>1, <5>4, <3>6
      <4>11. f \notin Alloc(t)
        <5> SUFFICES ASSUME f \in Alloc(t) PROVE FALSE OBVIOUS
        <5>1. Covers(f, ip) BY <4>3, <4>6 DEF Covers
        <5>2. f.cidr <= cidr BY <4>1, <4>3, <3>6, <1>3
        <5>3. place # Nil /\ f.cidr <= place.cidr BY <5>1, <5>2, <4>3, <1>0, PlacementLongest DEF place
        <5> QED BY <5>3, <4>10, <4>3, <3>6
      <4>12. Fits(at, f)
        <5>1. CASE place = Nil BY <5>1, <2>1, <4>3, RootPointer DEF Fits
        <5>2. CASE place # Nil
          <6>1. place \in Node /\ place.cidr \in Nat /\ Covers(place, ip) /\ at.bit = ip[place.cidr + 1]
                /\ at.bit # 2 /\ at.of = place /\ place.family = family
            BY <5>2, <2>1, NodeType
          <6>2. f.cidr > place.cidr /\ place.cidr + 1 \in 1 .. common BY <5>2, <4>3, <4>10, <3>6
          <6>3. f.bits[place.cidr + 1] = ip[place.cidr + 1] BY <6>2, <4>6 DEF Agree
          <6>4. Covers(place, f.bits)
            <7>1. Agree(f.bits, ip, place.cidr) BY <6>1, <6>2, <4>3, <4>6, <3>6, AgreeShort
            <7> QED BY <7>1, <6>1 DEF Covers, Agree
          <6> QED BY <6>1, <6>2, <6>3, <6>4, <4>3 DEF Fits
        <5> QED BY <5>1, <5>2
      <4> HIDE DEF kn, kd
      <4>13. Fits(ChildOf(f, kn), new)
        <5>1. ChildOf(f, kn).bit = kn /\ ChildOf(f, kn).of = f /\ kn # 2 BY <4>8 DEF ChildOf, Bit
        <5> QED BY <5>1, <4>1, <4>3, <4>8, <1>2 DEF Fits, Covers
      <4>14. Fits(ChildOf(f, kd), down)
        <5>1. ChildOf(f, kd).bit = kd /\ ChildOf(f, kd).of = f /\ kd # 2 BY <4>8 DEF ChildOf, Bit
        <5> QED BY <5>1, <4>1, <4>3, <4>7, <4>8, <3>5 DEF Fits, Covers
      <4>15. f = NodeOf(new.family, new.bits, common) /\ kn = choose(f, new.bits) /\ kd = choose(f, down.bits)
        BY DEF f, kn, kd
      <4>16. WellFormed(InsertBranch(t, at, new, down, common, p)) /\ Given(t, InsertBranch(t, at, new, down, common, p), new, p)
        BY <4>4, <4>8, <4>9, <4>3, <4>11, <4>12, <4>13, <4>14, <4>15, <2>1, <2>3, <1>2, InsertBranchWF
      <4> QED BY <4>16, <3>8 DEF new, u
    <3> QED BY <3>i, <3>7, <3>8
  <2> QED BY <2>2, <2>3
<1> QED BY <1>5, <1>6

-------------------------------------------------------------------------------
(* Remove *)

\* What is below a node that fits a field fits there too.
LEMMA FitsTrans ==
    ASSUME NEW t, IsTable(t), NEW at \in Pointer(t), NEW n \in Node, NEW c \in Node, NEW k \in Bit,
           Fits(at, n), Fits(ChildOf(n, k), c)
    PROVE  Fits(at, c) /\ c.cidr > n.cidr
<1>1. ChildOf(n, k).bit = k /\ ChildOf(n, k).of = n /\ k # 2 BY DEF ChildOf, Bit
<1>2. c.family = n.family /\ c.cidr > n.cidr /\ Covers(n, c.bits) BY <1>1 DEF Fits
<1>3. n.cidr \in Nat /\ c.cidr \in Nat /\ c.bits \in Address /\ n.bits \in Address BY NodeType
<1>4. CASE at.bit = 2 BY <1>2, <1>4 DEF Fits
<1>5. CASE at.bit # 2
  <2>1. at.of \in Node BY <1>5, PointerCases, TableType
  <2> DEFINE m == at.of
  <2>2. m \in Node /\ n.family = m.family /\ n.cidr > m.cidr /\ Covers(m, n.bits) /\ n.bits[m.cidr + 1] = at.bit
        /\ m.cidr \in Nat
    BY <2>1, <1>5, NodeType DEF Fits
  <2> HIDE DEF m
  <2>3. Covers(m, c.bits) BY <2>2, <1>2, <1>3, CoversTrans
  <2>4. c.bits[m.cidr + 1] = n.bits[m.cidr + 1]
    <3>1. m.cidr + 1 \in 1 .. n.cidr BY <2>2, <1>3
    <3> QED BY <3>1, <1>2 DEF Covers, Agree
  <2>5. c.family = m.family /\ c.cidr > m.cidr BY <2>2, <1>2, <1>3
  <2> QED BY <2>2, <2>3, <2>4, <2>5, <1>2, <1>5 DEF Fits, m
<1>6. QED BY <1>4, <1>5

\* The nodes D are cut out, and the field at that led to them now points at x, which was below them.
LEMMA CutOut ==
    ASSUME NEW t, Linked(t), NEW D, NEW at \in Pointer(t), at.bit = 2 \/ at.of \notin D,
           NEW x, x \in (Alloc(t) \ D) \cup {Nil}, Field(t, at) \in D,
           x # Nil => Par(t, x).bit # 2 /\ Par(t, x).of \in D /\ Fits(at, x),
           \A b \in Pointer(t) : b.bit # 2 /\ b.of \in D /\ Field(t, b) # Nil => Field(t, b) \in D \cup {x},
           \A m \in D : Par(t, m) = at \/ (Par(t, m).bit # 2 /\ Par(t, m).of \in D),
           NEW u, IsTable(u), Alloc(u) = Alloc(t) \ D,
           Pointer(u) = {b \in Pointer(t) : b.bit = 2 \/ b.of \notin D},
           Field(u, at) = x, SameField(t, u, Pointer(u) \ {at}),
           SamePar(t, u, Alloc(u) \ {x}), x # Nil => Par(u, x) = at
    PROVE  Linked(u)
<1>0. Alloc(t) \subseteq Node /\ \A m \in Alloc(t) : m # Nil BY TableType, NodeType DEF Linked
<1>1. UpLinked(u)
  <2> SUFFICES ASSUME NEW m \in Alloc(u) PROVE Par(u, m) \in Pointer(u) /\ Field(u, Par(u, m)) = m BY DEF UpLinked
  <2>1. m \in Alloc(t) /\ m \notin D /\ m # Nil BY <1>0
  <2>2. CASE m = x BY <2>1, <2>2
  <2>3. CASE m # x
    <3> DEFINE b == Par(t, m)
    <3>1. b \in Pointer(t) /\ Field(t, b) = m BY <2>1 DEF Linked, UpLinked
    <3>2. Par(u, m) = b BY <2>3 DEF SamePar
    <3> HIDE DEF b
    <3>3. b \in Pointer(u) /\ b # at BY <3>1, <2>1, <2>3
    <3> QED BY <3>1, <3>2, <3>3 DEF SameField
  <2> QED BY <2>2, <2>3
<1>2. DownLinked(u)
  <2> SUFFICES ASSUME NEW b \in Pointer(u), Field(u, b) # Nil
               PROVE  /\ Field(u, b) \in Alloc(u) /\ Par(u, Field(u, b)) = b /\ Fits(b, Field(u, b))
    BY DEF DownLinked
  <2>1. CASE b = at BY <2>1
  <2>2. CASE b # at
    <3> DEFINE m == Field(u, b)
    <3>1. m = Field(t, b) /\ b \in Pointer(t) /\ (b.bit = 2 \/ b.of \notin D) BY <2>2 DEF SameField
    <3> HIDE DEF m
    <3>2. m \in Alloc(t) /\ Par(t, m) = b /\ Fits(b, m) BY <3>1 DEF Linked, DownLinked, m
    <3>3. m \notin D /\ m # x BY <3>1, <3>2, <2>2, <1>0
    <3> QED BY <3>2, <3>3 DEF SamePar, m
  <2> QED BY <2>1, <2>2
<1>3. QED BY <1>1, <1>2 DEF Linked

\* Nodes without a peer come and go without a change of the lists.
LEMMA ListedSame ==
    ASSUME NEW t, IsTable(t), Listed(t), NEW u, IsTable(u), u.entries = t.entries, Alloc(u) \subseteq Alloc(t),
           SameOwn(t, u, Alloc(u)), \A m \in Alloc(t) \ Alloc(u) : Own(t, m) = Nil
    PROVE  Listed(u) /\ \A p \in Peer : Owned(u, p) = Owned(t, p)
<1>1. \A p \in Peer : Owned(u, p) = Owned(t, p) BY NilAssumption DEF Owned, SameOwn
<1>2. QED BY <1>1, ListedIs

\* n has lost its owner: all but n is in order.
Orphan(t, n) ==
    /\ Linked(t) /\ Listed(t)
    /\ n \in Alloc(t) /\ Own(t, n) = Nil
    /\ \A m \in Alloc(t) \ {n} : Own(t, m) = Nil => Fork(t, m)

Same(t, u) == WellFormed(u) /\ \A p \in Peer : Owned(u, p) = Owned(t, p)

\* The parent pointer of a node.
LEMMA ParentFacts ==
    ASSUME NEW t, Linked(t), NEW n \in Alloc(t)
    PROVE  LET at == Par(t, n) IN
           /\ at \in Pointer(t) /\ Field(t, at) = n /\ Fits(at, n) /\ n \in Node /\ n # Nil
           /\ at.bit # 2 => at.of # n /\ at.of \in Alloc(t) /\ at.bit \in Bit /\ at = ChildOf(at.of, at.bit)
<1> DEFINE at == Par(t, n)
<1>1. n \in Node /\ n # Nil /\ n.cidr \in Nat BY TableType, NodeType DEF Linked
<1>2. at \in Pointer(t) /\ Field(t, at) = n BY DEF Linked, UpLinked
<1>3. Fits(at, n) BY <1>1, <1>2 DEF Linked, DownLinked
<1> HIDE DEF at
<1>4. at.bit # 2 => at.of # n BY <1>1, <1>3 DEF Fits
<1>5. at.bit # 2 => at.of \in Alloc(t) /\ at.bit \in Bit /\ at = ChildOf(at.of, at.bit) BY <1>2, PointerCases
<1> QED BY <1>1, <1>2, <1>3, <1>4, <1>5 DEF at

\* n has one child, which takes its place.
LEMMA UnlinkOneChild ==
    ASSUME NEW t, NEW n, Orphan(t, n), NEW k \in Bit, Field(t, ChildOf(n, k)) # Nil,
           \A b \in Bit : b # k => Field(t, ChildOf(n, b)) = Nil
    PROVE  Same(t, zeroizePointers(Link(t, Par(t, n), Field(t, ChildOf(n, k))), n))
<1> DEFINE at == Par(t, n)
           x == Field(t, ChildOf(n, k))
           s == Link(t, at, x)
           u == zeroizePointers(s, n)
<1>0. Linked(t) /\ IsTable(t) /\ Listed(t) /\ n \in Alloc(t) /\ Own(t, n) = Nil BY DEF Orphan, Linked
<1>1. /\ at \in Pointer(t) /\ Field(t, at) = n /\ Fits(at, n) /\ n \in Node /\ n # Nil
      /\ at.bit # 2 => at.of # n /\ at.of \in Alloc(t)
  BY <1>0, ParentFacts
<1>2. ChildOf(n, k) \in Pointer(t) /\ ChildOf(n, k).bit # 2 /\ ChildOf(n, k).of = n BY <1>0, ChildPointer
<1>3. x \in Alloc(t) /\ Par(t, x) = ChildOf(n, k) /\ Fits(ChildOf(n, k), x) /\ x # Nil
  BY <1>0, <1>2 DEF Linked, DownLinked
<1> HIDE DEF at, x
<1>4. x \in Node /\ Fits(at, x) /\ x # n
  <2>1. x \in Node /\ x.cidr \in Nat /\ n.cidr \in Nat BY <1>0, <1>1, <1>3, TableType, NodeType
  <2>2. Fits(at, x) /\ x.cidr > n.cidr BY <2>1, <1>0, <1>1, <1>3, FitsTrans
  <2> QED BY <2>1, <2>2
<1>5. /\ IsTable(s) /\ SameNodes(t, s) /\ s.entries = t.entries
      /\ Field(s, at) = x /\ SameField(t, s, Pointer(t) \ {at})
      /\ SameOwn(t, s, Alloc(t)) /\ Par(s, x) = at /\ SamePar(t, s, Alloc(t) \ {x})
  BY <1>0, <1>1, <1>3, LinkFacts
<1> HIDE DEF s
<1>6. /\ IsTable(u) /\ Alloc(u) = Alloc(s) \ {n} /\ u.entries = s.entries
      /\ Pointer(u) = {b \in Pointer(s) : b.bit = 2 \/ b.of # n}
      /\ SameField(s, u, Pointer(u))
      /\ SameOwn(s, u, Alloc(u)) /\ SamePar(s, u, Alloc(u))
  BY <1>5, ZeroizeFacts
<1> HIDE DEF u
<1> DEFINE D == {n}
<1>7. /\ Alloc(u) = Alloc(t) \ D /\ Pointer(u) = {b \in Pointer(t) : b.bit = 2 \/ b.of \notin D}
      /\ Field(u, at) = x /\ SameField(t, u, Pointer(u) \ {at})
      /\ SamePar(t, u, Alloc(u) \ {x}) /\ Par(u, x) = at /\ SameOwn(t, u, Alloc(u))
  <2>1. Alloc(u) = Alloc(t) \ D /\ Pointer(u) = {b \in Pointer(t) : b.bit = 2 \/ b.of \notin D}
    BY <1>5, <1>6 DEF SameNodes
  <2>2. at \in Pointer(u) /\ x \in Alloc(u) BY <2>1, <1>1, <1>3, <1>4
  <2>3. Field(u, at) = x /\ SameField(t, u, Pointer(u) \ {at}) BY <2>1, <2>2, <1>5, <1>6 DEF SameField
  <2>4. SamePar(t, u, Alloc(u) \ {x}) /\ Par(u, x) = at BY <2>1, <2>2, <1>5, <1>6 DEF SamePar
  <2>5. SameOwn(t, u, Alloc(u)) BY <2>1, <1>5, <1>6 DEF SameOwn
  <2> QED BY <2>1, <2>3, <2>4, <2>5
<1>8. Linked(u)
  <2>1. \A b \in Pointer(t) : b.bit # 2 /\ b.of \in D /\ Field(t, b) # Nil => Field(t, b) \in D \cup {x}
    BY PointerCases DEF x
  <2>2. \A m \in D : Par(t, m) = at \/ (Par(t, m).bit # 2 /\ Par(t, m).of \in D) BY DEF at
  <2>3. at.bit = 2 \/ at.of \notin D BY <1>1
  <2>4. x \in (Alloc(t) \ D) \cup {Nil} /\ Field(t, at) \in D BY <1>1, <1>3, <1>4
  <2>5. x # Nil => Par(t, x).bit # 2 /\ Par(t, x).of \in D /\ Fits(at, x) BY <1>2, <1>3, <1>4
  <2> HIDE DEF D
  <2> QED BY <2>1, <2>2, <2>3, <2>4, <2>5, <1>0, <1>1, <1>6, <1>7, CutOut
<1>9. Forked(u)
  <2> SUFFICES ASSUME NEW m \in Alloc(u), Own(u, m) = Nil, NEW b \in Bit
               PROVE  Field(u, ChildOf(m, b)) # Nil
    BY DEF Forked, Fork
  <2>1. m \in Alloc(t) \ {n} /\ Own(t, m) = Nil BY <1>7 DEF SameOwn
  <2>2. Field(t, ChildOf(m, b)) # Nil BY <2>1 DEF Orphan, Fork
  <2>3. ChildOf(m, b) \in Pointer(u) BY ChildPointer
  <2> QED BY <2>2, <2>3, <1>3, <1>7 DEF SameField
<1>10. Listed(u) /\ \A p \in Peer : Owned(u, p) = Owned(t, p)
  <2>1. Alloc(u) \subseteq Alloc(t) /\ u.entries = t.entries BY <1>5, <1>6, <1>7
  <2>2. \A m \in Alloc(t) \ Alloc(u) : Own(t, m) = Nil BY <1>0, <1>7
  <2> QED BY <2>1, <2>2, <1>0, <1>6, <1>7, ListedSame
<1>11. QED BY <1>8, <1>9, <1>10 DEF Same, WellFormed, u, s, at, x

\* n has no child: its field is emptied, which is not the field of a node without a peer.
LEMMA UnlinkLeaf ==
    ASSUME NEW t, NEW n, Orphan(t, n), \A b \in Bit : Field(t, ChildOf(n, b)) = Nil,
           Par(t, n).bit # 2 => Own(t, Par(t, n).of) # Nil
    PROVE  Same(t, zeroizePointers(Store(t, Par(t, n), Nil), n))
<1> DEFINE at == Par(t, n)
           s == Store(t, at, Nil)
           u == zeroizePointers(s, n)
<1>0. Linked(t) /\ IsTable(t) /\ Listed(t) /\ n \in Alloc(t) /\ Own(t, n) = Nil BY DEF Orphan, Linked
<1>1. /\ at \in Pointer(t) /\ Field(t, at) = n /\ Fits(at, n) /\ n \in Node /\ n # Nil
      /\ at.bit # 2 => at.of # n /\ at.of \in Alloc(t)
  BY <1>0, ParentFacts
<1>2. at.bit # 2 => Own(t, at.of) # Nil OBVIOUS
<1> HIDE DEF at
<1>5. /\ IsTable(s) /\ SameNodes(t, s) /\ s.entries = t.entries
      /\ Field(s, at) = Nil /\ SameField(t, s, Pointer(t) \ {at})
      /\ SameOwn(t, s, Alloc(t)) /\ SamePar(t, s, Alloc(t))
  <2>1. Nil \in Node \cup {Nil} OBVIOUS
  <2> QED BY <2>1, <1>0, <1>1, StoreFacts
<1> HIDE DEF s
<1>6. /\ IsTable(u) /\ Alloc(u) = Alloc(s) \ {n} /\ u.entries = s.entries
      /\ Pointer(u) = {b \in Pointer(s) : b.bit = 2 \/ b.of # n}
      /\ SameField(s, u, Pointer(u))
      /\ SameOwn(s, u, Alloc(u)) /\ SamePar(s, u, Alloc(u))
  BY <1>5, ZeroizeFacts
<1> HIDE DEF u
<1> DEFINE D == {n}
           x == Nil
<1>7. /\ Alloc(u) = Alloc(t) \ D /\ Pointer(u) = {b \in Pointer(t) : b.bit = 2 \/ b.of \notin D}
      /\ Field(u, at) = x /\ SameField(t, u, Pointer(u) \ {at})
      /\ SamePar(t, u, Alloc(u) \ {x}) /\ SameOwn(t, u, Alloc(u))
  <2>1. Alloc(u) = Alloc(t) \ D /\ Pointer(u) = {b \in Pointer(t) : b.bit = 2 \/ b.of \notin D}
    BY <1>5, <1>6 DEF SameNodes
  <2>2. at \in Pointer(u) BY <2>1, <1>1
  <2>3. Field(u, at) = x /\ SameField(t, u, Pointer(u) \ {at}) BY <2>1, <2>2, <1>5, <1>6 DEF SameField
  <2>4. SamePar(t, u, Alloc(u) \ {x}) BY <2>1, <2>2, <1>5, <1>6 DEF SamePar
  <2>5. SameOwn(t, u, Alloc(u)) BY <2>1, <1>5, <1>6 DEF SameOwn
  <2> QED BY <2>1, <2>3, <2>4, <2>5
<1>8. Linked(u)
  <2>1. \A b \in Pointer(t) : b.bit # 2 /\ b.of \in D /\ Field(t, b) # Nil => Field(t, b) \in D \cup {x}
    BY PointerCases
  <2>2. \A m \in D : Par(t, m) = at \/ (Par(t, m).bit # 2 /\ Par(t, m).of \in D) BY DEF at
  <2>3. at.bit = 2 \/ at.of \notin D BY <1>1
  <2>4. x \in (Alloc(t) \ D) \cup {Nil} /\ Field(t, at) \in D BY <1>1
  <2>5. x # Nil => Par(t, x).bit # 2 /\ Par(t, x).of \in D /\ Fits(at, x) OBVIOUS
  <2>6. x # Nil => Par(u, x) = at OBVIOUS
  <2> HIDE DEF D, x
  <2> QED BY <2>1, <2>2, <2>3, <2>4, <2>5, <2>6, <1>0, <1>1, <1>6, <1>7, CutOut
<1>9. Forked(u)
  <2> SUFFICES ASSUME NEW m \in Alloc(u), Own(u, m) = Nil, NEW b \in Bit
               PROVE  Field(u, ChildOf(m, b)) # Nil
    BY DEF Forked, Fork
  <2>1. m \in Alloc(t) \ {n} /\ Own(t, m) = Nil BY <1>7 DEF SameOwn
  <2>2. Field(t, ChildOf(m, b)) # Nil BY <2>1 DEF Orphan, Fork
  <2>3. ChildOf(m, b) \in Pointer(u) /\ ChildOf(m, b).bit # 2 /\ ChildOf(m, b).of = m BY ChildPointer
  <2>4. ChildOf(m, b) # at BY <2>1, <2>3, <1>2
  <2> QED BY <2>2, <2>3, <2>4, <1>7 DEF SameField
<1>10. Listed(u) /\ \A p \in Peer : Owned(u, p) = Owned(t, p)
  <2>1. Alloc(u) \subseteq Alloc(t) /\ u.entries = t.entries BY <1>5, <1>6, <1>7
  <2>2. \A m \in Alloc(t) \ Alloc(u) : Own(t, m) = Nil BY <1>0, <1>7
  <2> QED BY <2>1, <2>2, <1>0, <1>6, <1>7, ListedSame
<1>11. QED BY <1>8, <1>9, <1>10 DEF Same, WellFormed, u, s, at

\* n has no child and its parent no peer: the parent's other child takes the place of the parent.
LEMMA UnlinkWithParent ==
    ASSUME NEW t, NEW n, Orphan(t, n), \A b \in Bit : Field(t, ChildOf(n, b)) = Nil,
           NEW at, at = Par(t, n), at.bit # 2, NEW q, q = at.of, Own(t, q) = Nil,
           NEW a, a = Store(t, at, Nil)
    PROVE  /\ Field(a, ChildOf(q, 1 - at.bit)) # Nil /\ q \in Alloc(a) /\ 1 - at.bit \in Bit
           /\ Same(t, zeroizePointers(zeroizePointers(Link(a, Par(a, q), Field(a, ChildOf(q, 1 - at.bit))), n), q))
<1>0. Linked(t) /\ IsTable(t) /\ Listed(t) /\ n \in Alloc(t) /\ Own(t, n) = Nil BY DEF Orphan, Linked
<1>1. /\ at \in Pointer(t) /\ Field(t, at) = n /\ Fits(at, n) /\ n \in Node /\ n # Nil
      /\ q # n /\ q \in Alloc(t) /\ at.bit \in Bit /\ at = ChildOf(q, at.bit)
  BY <1>0, ParentFacts
<1> DEFINE k == at.bit
           o == ChildOf(q, 1 - k)
<1>2. 1 - k \in Bit /\ 1 - k # k /\ \A b \in Bit : b = k \/ b = 1 - k BY <1>1 DEF Bit
<1>3. o \in Pointer(t) /\ o # at /\ o.bit # 2 /\ o.of = q BY <1>1, <1>2, ChildPointer
<1>4. /\ IsTable(a) /\ SameNodes(t, a) /\ a.entries = t.entries
      /\ Field(a, at) = Nil /\ SameField(t, a, Pointer(t) \ {at})
      /\ SameOwn(t, a, Alloc(t)) /\ SamePar(t, a, Alloc(t))
  <2>1. Nil \in Node \cup {Nil} OBVIOUS
  <2> QED BY <2>1, <1>0, <1>1, StoreFacts
<1> DEFINE x == Field(a, o)
           top == Par(a, q)
           l == Link(a, top, x)
           z == zeroizePointers(l, n)
           u == zeroizePointers(z, q)
<1>5. x = Field(t, o) /\ x # Nil
  <2>1. Fork(t, q) BY <1>0, <1>1 DEF Orphan
  <2>2. Field(t, o) # Nil BY <2>1, <1>2 DEF Fork
  <2> QED BY <2>2, <1>3, <1>4 DEF SameField
<1>6. top = Par(t, q) BY <1>1, <1>4 DEF SamePar
<1>i. Field(a, ChildOf(q, 1 - at.bit)) # Nil /\ q \in Alloc(a) /\ 1 - at.bit \in Bit
  BY <1>1, <1>2, <1>4, <1>5 DEF SameNodes
<1>7. x \in Alloc(t) /\ Par(t, x) = o /\ Fits(o, x) BY <1>3, <1>5, <1>0 DEF Linked, DownLinked
<1>8. /\ top \in Pointer(t) /\ Field(t, top) = q /\ Fits(top, q) /\ q \in Node /\ q # Nil
      /\ top.bit # 2 => top.of # q /\ top.of \in Alloc(t) /\ top.bit \in Bit /\ top = ChildOf(top.of, top.bit)
  BY <1>0, <1>1, <1>6, ParentFacts
<1>9. /\ u = zeroizePointers(z, q) /\ z = zeroizePointers(l, n) /\ l = Link(a, top, x)
  OBVIOUS
<1> DEFINE j == 1 - k
<1>10. x \in Node /\ Fits(top, x) /\ x # q
  <2>1. x \in Node /\ x.cidr \in Nat /\ q.cidr \in Nat /\ j \in Bit /\ Fits(ChildOf(q, j), x)
    BY <1>0, <1>2, <1>7, <1>8, TableType, NodeType
  <2> HIDE DEF x, top, j
  <2>2. Fits(top, x) /\ x.cidr > q.cidr BY <2>1, <1>0, <1>8, FitsTrans
  <2> QED BY <2>1, <2>2
<1>11. top # at /\ x # n /\ (top.bit = 2 \/ top.of # n)
  <2>1. top.bit # 2 /\ top.of = n => Field(t, top) = Nil BY <1>8
  <2> QED BY <2>1, <1>1, <1>3, <1>7, <1>8
<1>12. \A b \in Pointer(t) : b.bit # 2 /\ b.of = q => b = at \/ b = o
  <2> SUFFICES ASSUME NEW b \in Pointer(t), b.bit # 2, b.of = q PROVE b = at \/ b = o OBVIOUS
  <2>1. b.bit \in Bit /\ b = ChildOf(q, b.bit) BY PointerCases
  <2> QED BY <2>1, <1>1, <1>2
<1> HIDE DEF x, top, l, z, u, o, k, j
<1>13. /\ IsTable(l) /\ SameNodes(a, l) /\ l.entries = a.entries
       /\ Field(l, top) = x /\ SameField(a, l, Pointer(a) \ {top})
       /\ SameOwn(a, l, Alloc(a)) /\ Par(l, x) = top /\ SamePar(a, l, Alloc(a) \ {x})
  <2>1. IsTable(a) /\ top \in Pointer(a) /\ x \in Alloc(a) BY <1>4, <1>7, <1>8 DEF SameNodes
  <2>2. l = Link(a, top, x) BY <1>9
  <2> QED BY ONLY <2>1, <2>2, LinkFacts
<1>14. /\ IsTable(z) /\ Alloc(z) = Alloc(l) \ {n} /\ z.entries = l.entries
       /\ Pointer(z) = {b \in Pointer(l) : b.bit = 2 \/ b.of # n}
       /\ SameField(l, z, Pointer(z))
       /\ SameOwn(l, z, Alloc(z)) /\ SamePar(l, z, Alloc(z))
  BY <1>9, <1>13, ZeroizeFacts
<1>15. /\ IsTable(u) /\ Alloc(u) = Alloc(z) \ {q} /\ u.entries = z.entries
       /\ Pointer(u) = {b \in Pointer(z) : b.bit = 2 \/ b.of # q}
       /\ SameField(z, u, Pointer(u))
       /\ SameOwn(z, u, Alloc(u)) /\ SamePar(z, u, Alloc(u))
  BY <1>9, <1>14, ZeroizeFacts
<1> DEFINE D == {n, q}
<1>16. /\ Alloc(u) = Alloc(t) \ D /\ Pointer(u) = {b \in Pointer(t) : b.bit = 2 \/ b.of \notin D}
       /\ Field(u, top) = x /\ SameField(t, u, Pointer(u) \ {top})
       /\ SamePar(t, u, Alloc(u) \ {x}) /\ Par(u, x) = top /\ SameOwn(t, u, Alloc(u))
  <2>1. Alloc(u) = Alloc(t) \ D /\ Pointer(u) = {b \in Pointer(t) : b.bit = 2 \/ b.of \notin D}
        /\ Alloc(l) = Alloc(t) /\ Pointer(l) = Pointer(t) /\ Pointer(a) = Pointer(t) /\ Alloc(a) = Alloc(t)
    BY <1>4, <1>13, <1>14, <1>15 DEF SameNodes
  <2>2. top \in Pointer(u) /\ x \in Alloc(u) BY <2>1, <1>7, <1>8, <1>10, <1>11
  <2>3. at \notin Pointer(u) BY <2>1, <1>1
  <2>4. \A b \in Pointer(u) : Field(u, b) = Field(l, b) BY <1>14, <1>15 DEF SameField
  <2>5. Field(u, top) = x BY <2>2, <2>4, <1>13
  <2>6. SameField(t, u, Pointer(u) \ {top}) BY <2>1, <2>3, <2>4, <1>4, <1>13 DEF SameField
  <2>7. \A m \in Alloc(u) : Par(u, m) = Par(l, m) /\ Own(u, m) = Own(l, m)
    BY <1>14, <1>15 DEF SamePar, SameOwn
  <2>8. SamePar(t, u, Alloc(u) \ {x}) /\ Par(u, x) = top BY <2>1, <2>2, <2>7, <1>4, <1>13 DEF SamePar
  <2>9. SameOwn(t, u, Alloc(u)) BY <2>1, <2>7, <1>4, <1>13 DEF SameOwn
  <2> QED BY <2>1, <2>5, <2>6, <2>8, <2>9
<1>17. Linked(u)
  <2>1. \A b \in Pointer(t) : b.bit # 2 /\ b.of \in D /\ Field(t, b) # Nil => Field(t, b) \in D \cup {x}
    <3> SUFFICES ASSUME NEW b \in Pointer(t), b.bit # 2, b.of \in D, Field(t, b) # Nil
                 PROVE  Field(t, b) \in D \cup {x}
      OBVIOUS
    <3>1. CASE b.of = n
      <4>1. b.bit \in Bit /\ b = ChildOf(n, b.bit) BY <3>1, PointerCases
      <4> QED BY <4>1
    <3>2. CASE b.of = q BY <3>2, <1>1, <1>5, <1>12
    <3> QED BY <3>1, <3>2
  <2>2. \A m \in D : Par(t, m) = top \/ (Par(t, m).bit # 2 /\ Par(t, m).of \in D) BY <1>6
  <2>3. top.bit = 2 \/ top.of \notin D BY <1>8, <1>11
  <2>4. x \in (Alloc(t) \ D) \cup {Nil} /\ Field(t, top) \in D BY <1>7, <1>8, <1>10, <1>11
  <2>5. x # Nil => Par(t, x).bit # 2 /\ Par(t, x).of \in D /\ Fits(top, x) BY <1>3, <1>7, <1>10
  <2> HIDE DEF D
  <2> QED BY <2>1, <2>2, <2>3, <2>4, <2>5, <1>0, <1>8, <1>15, <1>16, CutOut
<1>18. Forked(u)
  <2> SUFFICES ASSUME NEW m \in Alloc(u), Own(u, m) = Nil, NEW b \in Bit
               PROVE  Field(u, ChildOf(m, b)) # Nil
    BY DEF Forked, Fork
  <2>1. m \in Alloc(t) \ {n} /\ Own(t, m) = Nil BY <1>16 DEF SameOwn
  <2>2. Field(t, ChildOf(m, b)) # Nil BY <2>1 DEF Orphan, Fork
  <2>3. ChildOf(m, b) \in Pointer(u) BY ChildPointer
  <2> QED BY <2>2, <2>3, <1>5, <1>16 DEF SameField
<1>19. Listed(u) /\ \A p \in Peer : Owned(u, p) = Owned(t, p)
  <2>1. Alloc(u) \subseteq Alloc(t) /\ u.entries = t.entries BY <1>4, <1>13, <1>14, <1>15, <1>16
  <2>2. \A m \in Alloc(t) \ Alloc(u) : Own(t, m) = Nil BY <1>0, <1>16
  <2> QED BY <2>1, <2>2, <1>0, <1>15, <1>16, ListedSame
<1>20. QED BY <1>i, <1>17, <1>18, <1>19 DEF Same, WellFormed, u, z, l, top, x, o, k

\* The second half of remove, in each of its cases.
LEMMA UnlinkWF ==
    ASSUME NEW t, NEW n, Orphan(t, n), ~Fork(t, n)
    PROVE  Same(t, Unlink(t, n))
<1> DEFINE at == Par(t, n)
           k == IF Field(t, ChildOf(n, 0)) = Nil THEN 1 ELSE 0
           child == Field(t, ChildOf(n, k))
           a == IF child = Nil THEN Store(t, at, Nil) ELSE Link(t, at, child)
           q == at.of
           other == a.node[q].child[1 - at.bit]
           top == a.node[q].parent
           b == IF other = Nil THEN Store(a, top, Nil) ELSE Link(a, top, other)
<1>0. Linked(t) /\ IsTable(t) /\ Listed(t) /\ n \in Alloc(t) /\ Own(t, n) = Nil BY DEF Orphan, Linked
<1>1. \A x \in Bit : Field(t, ChildOf(n, x)) = t.node[n].child[x] BY <1>0, ChildPointer
<1>2. 0 \in Bit /\ 1 \in Bit /\ k \in Bit /\ \A x \in Bit : x = 0 \/ x = 1 BY DEF Bit
<1>3. k = (IF t.node[n].child[0] = Nil THEN 1 ELSE 0) /\ child = t.node[n].child[k] BY <1>1, <1>2
<1>4. Unlink(t, n) = IF child # Nil \/ at.bit > 1 THEN zeroizePointers(a, n)
                     ELSE IF a.node[q].peer # Nil THEN zeroizePointers(a, n)
                     ELSE zeroizePointers(zeroizePointers(b, n), q)
  <2>1. child = t.node[n].child[IF t.node[n].child[0] = Nil THEN 1 ELSE 0] BY <1>3
  <2> HIDE DEF child
  <2> QED BY <2>1, Zenon DEF Unlink, Par
<1>5. /\ at \in Pointer(t) /\ Field(t, at) = n /\ Fits(at, n) /\ n \in Node /\ n # Nil
      /\ at.bit # 2 => at.of # n /\ at.of \in Alloc(t) /\ at.bit \in Bit
  BY <1>0, ParentFacts
<1>6. at.bit > 1 <=> at.bit = 2 BY <1>5 DEF Bit
<1>7. CASE child # Nil
  <2>1. a = Link(t, at, child) BY <1>7
  <2>2. Unlink(t, n) = zeroizePointers(Link(t, at, child), n) BY <1>4, <1>7, <2>1
  <2>3. Field(t, ChildOf(n, k)) # Nil BY <1>7
  <2>4. \A x \in Bit : x # k => Field(t, ChildOf(n, x)) = Nil
    <3> SUFFICES ASSUME NEW x \in Bit, x # k PROVE Field(t, ChildOf(n, x)) = Nil OBVIOUS
    <3>1. \E y \in Bit : Field(t, ChildOf(n, y)) = Nil BY DEF Fork
    <3> QED BY <3>1, <1>2, <1>7
  <2> HIDE DEF k
  <2> QED BY <2>2, <2>3, <2>4, <1>2, UnlinkOneChild
<1>8. CASE child = Nil
  <2>1. \A x \in Bit : Field(t, ChildOf(n, x)) = Nil BY <1>2, <1>8
  <2>2. a = Store(t, at, Nil) BY <1>8
  <2>3. /\ IsTable(a) /\ SameNodes(t, a) /\ SameOwn(t, a, Alloc(t))
    <3>1. Nil \in Node \cup {Nil} OBVIOUS
    <3> HIDE DEF a, at
    <3> QED BY <3>1, <2>2, <1>0, <1>5, StoreFacts
  <2>4. at.bit # 2 => a.node[q].peer = Own(t, q) BY <2>3, <1>5 DEF SameOwn, Own
  <2>5. CASE at.bit = 2 \/ Own(t, q) # Nil
    <3>1. Unlink(t, n) = zeroizePointers(a, n) BY <2>4, <2>5, <1>4, <1>6
    <3> QED BY <3>1, <2>1, <2>2, <2>5, <1>0, UnlinkLeaf
  <2>6. CASE at.bit # 2 /\ Own(t, q) = Nil
    <3> DEFINE o == ChildOf(q, 1 - at.bit)
    <3>1. /\ Field(a, o) # Nil /\ q \in Alloc(a) /\ 1 - at.bit \in Bit
          /\ Same(t, zeroizePointers(zeroizePointers(Link(a, Par(a, q), Field(a, o)), n), q))
      BY <2>1, <2>2, <2>6, UnlinkWithParent
    <3>2. Field(a, o) = other BY <3>1, ChildPointer
    <3>3. top = Par(a, q) BY DEF Par
    <3>4. Unlink(t, n) = zeroizePointers(zeroizePointers(b, n), q) BY <2>4, <2>6, <1>4, <1>6, <1>8
    <3>5. b = Link(a, top, other) BY <3>1, <3>2
    <3> HIDE DEF a, b, other, top, o, q
    <3> QED BY <3>1, <3>2, <3>3, <3>4, <3>5
  <2> QED BY <2>5, <2>6
<1> QED BY <1>7, <1>8

\* What belongs to whom, before and after the node n is taken away.
Taken(t, u, n) == \A p \in Peer : Owned(u, p) = Owned(t, p) \ {n}

\* remove keeps the trie in order and takes the prefix of the node away.
LEMMA removeWF ==
    ASSUME NEW t, WellFormed(t), NEW n \in Alloc(t), Own(t, n) # Nil
    PROVE  WellFormed(remove(t, n)) /\ Taken(t, remove(t, n), n)
<1> DEFINE r == removeFromPeerEntries(t, n)
           a == [r EXCEPT !.node[n].peer = Nil]
<1>0. IsTable(t) /\ Linked(t) /\ Forked(t) /\ Listed(t) BY DEF WellFormed, Linked
<1>i. remove(t, n) = IF \A x \in Bit : a.node[n].child[x] # Nil THEN a ELSE Unlink(a, n) BY Zenon DEF remove
<1>1. IsTable(r) /\ SameTrie(t, r) /\ \A q \in Peer : ListIs(r.entries[q], Owned(t, q) \ {n})
  BY <1>0, RemoveEntryFacts
<1> HIDE DEF r
<1>2. n \in Alloc(r) /\ SameNodes(t, r) BY <1>1, SameTrieFacts DEF SameNodes
<1>3. /\ IsTable(a) /\ SameNodes(r, a) /\ a.entries = r.entries
      /\ SameField(r, a, Pointer(r))
      /\ Own(a, n) = Nil /\ SameOwn(r, a, Alloc(r) \ {n}) /\ SamePar(r, a, Alloc(r))
  <2>1. Nil \in Peer \cup {Nil} OBVIOUS
  <2> QED BY <2>1, <1>1, <1>2, SetOwnerFacts
<1> HIDE DEF a
<1>4. /\ SameNodes(t, a) /\ SameField(t, a, Pointer(t)) /\ SamePar(t, a, Alloc(t))
      /\ SameOwn(t, a, Alloc(t) \ {n})
  <2>1. SameField(t, r, Pointer(t)) /\ SamePar(t, r, Alloc(t)) /\ SameOwn(t, r, Alloc(t)) BY <1>1, SameTrieFacts
  <2> QED BY <1>2, <1>3, <2>1 DEF SameNodes, SameField, SamePar, SameOwn
<1>5. Linked(a) BY <1>0, <1>3, <1>4, LinkedSame
<1>6. Taken(t, a, n)
  <2> SUFFICES ASSUME NEW p \in Peer PROVE Owned(a, p) = Owned(t, p) \ {n} BY DEF Taken
  <2>1. p # Nil BY NilAssumption
  <2> QED BY <2>1, <1>3, <1>4 DEF Owned, SameNodes, SameOwn
<1>7. Listed(a)
  <2>1. \A q \in Peer : ListIs(a.entries[q], Owned(a, q)) BY <1>1, <1>3, <1>6 DEF Taken
  <2> QED BY <2>1, <1>3, ListedIs
<1>8. \A m \in Alloc(a) \ {n} : Own(a, m) = Nil => Fork(a, m)
  <2> SUFFICES ASSUME NEW m \in Alloc(a) \ {n}, Own(a, m) = Nil PROVE Fork(a, m) OBVIOUS
  <2>1. m \in Alloc(t) /\ m # n BY <1>4 DEF SameNodes
  <2>2. Own(t, m) = Nil BY <2>1, <1>4 DEF SameOwn
  <2>3. Fork(t, m) BY <2>1, <2>2, <1>0 DEF Forked
  <2>4. \A b \in Bit : ChildOf(m, b) \in Pointer(t) BY <2>1, ChildPointer
  <2> QED BY <2>3, <2>4, <1>4 DEF Fork, SameField
<1>9. n \in Alloc(a) BY <1>4 DEF SameNodes
<1>10. (\A x \in Bit : a.node[n].child[x] # Nil) <=> Fork(a, n) BY <1>9, ChildPointer DEF Fork
<1>11. CASE Fork(a, n)
  <2>1. remove(t, n) = a BY <1>11, <1>10, <1>i
  <2>2. Forked(a) BY <1>8, <1>11 DEF Forked
  <2> QED BY <2>1, <2>2, <1>5, <1>6, <1>7 DEF WellFormed
<1>12. CASE ~Fork(a, n)
  <2>1. remove(t, n) = Unlink(a, n) BY <1>12, <1>10, <1>i
  <2>2. Orphan(a, n) BY <1>3, <1>5, <1>7, <1>8, <1>9 DEF Orphan
  <2>3. Same(a, Unlink(a, n)) BY <2>2, <1>12, UnlinkWF
  <2> QED BY <2>1, <2>3, <1>6 DEF Same, Taken
<1> QED BY <1>11, <1>12

\* Remove takes the prefix from the peer if it is the peer's.
LEMMA RemovePrefixWF ==
    ASSUME NEW t, WellFormed(t), NEW family \in Family, NEW ip \in Address, NEW cidr \in Cidr, NEW p \in Peer
    PROVE  LET u == RemovePrefix(t, family, ip, cidr, p)
               n == NodeOf(family, ip, cidr)
           IN /\ WellFormed(u)
              /\ u = t \/ (n \in Owned(t, p) /\ Taken(t, u, n))
<1> DEFINE place == nodePlacement(t, ip, family, cidr)
           new == NodeOf(family, ip, cidr)
           u == RemovePrefix(t, family, ip, cidr, p)
<1>1. /\ place \in Alloc(t) \cup {Nil}
      /\ place # Nil => place.family = family /\ place.cidr <= cidr /\ Covers(place, ip)
  BY Placement DEF WellFormed
<1>2. new \in Node /\ new.family = family /\ new.cidr = cidr /\ Agree(new.bits, ip, cidr) BY NodeOfType
<1>3. u = IF ~Exact(place, cidr) \/ t.node[place].peer # p THEN t ELSE remove(t, place) BY DEF RemovePrefix
<1> HIDE DEF place, new, u
<1>4. CASE Exact(place, cidr) /\ t.node[place].peer = p
  <2>1. place \in Alloc(t) /\ place \in Node /\ place.cidr = cidr BY <1>1, <1>4, TableType DEF Exact, WellFormed, Linked
  <2>2. Covers(place, new.bits) BY <1>1, <1>2, <2>1, NodeType DEF Covers, Agree
  <2>3. place = new BY <1>1, <1>2, <2>1, <2>2, NodeType, SameNode
  <2>4. Own(t, place) = p /\ p # Nil BY <1>4, NilAssumption DEF Own
  <2>5. WellFormed(remove(t, place)) /\ Taken(t, remove(t, place), place) BY <2>1, <2>4, removeWF
  <2>6. u = remove(t, place) BY <1>3, <1>4
  <2> QED BY <2>1, <2>3, <2>4, <2>5, <2>6 DEF Owned, u, new
<1>5. CASE ~(Exact(place, cidr) /\ t.node[place].peer = p)
  <2>1. u = t BY <1>3, <1>5
  <2> QED BY <2>1 DEF u
<1> QED BY <1>4, <1>5

-------------------------------------------------------------------------------
(* Loops over lists: a fold of the library is a function of the sets of places. *)

\* The two loops: over the nodes of a peer, and over peers.
Visit(inner, t, x) == IF inner THEN remove(t, x) ELSE RemoveByPeer(t, x)
Visits(inner, N, base, list, g) ==
    g = [s \in SUBSET (1 .. N) |-> g[s]] /\
    \A s \in SUBSET (1 .. N) :
        g[s] = IF s = {} THEN base ELSE Visit(inner, g[s \ {Max(s)}], list[Max(s)])
HasVisits(inner, N, base, list) == \E g : Visits(inner, N, base, list, g)

\* The last of the first n + 1 places.
LEMMA MaxIs ==
    ASSUME NEW n \in Nat, NEW s \in SUBSET (1 .. n + 1), n + 1 \in s
    PROVE  Max(s) = n + 1
<1> DEFINE P(x) == x \in s /\ \A y \in s : x >= y
<1>1. P(n + 1) OBVIOUS
<1>2. \A x : P(x) => x = n + 1 OBVIOUS
<1>3. Max(s) = CHOOSE x \in s : \A y \in s : x >= y BY DEF Max
<1>4. P(Max(s)) BY <1>1, <1>3
<1>5. QED BY <1>2, <1>4

\* The function of the sets of places exists.
LEMMA FoldExists ==
    ASSUME NEW inner, NEW base, NEW list, NEW N \in Nat
    PROVE  HasVisits(inner, N, base, list)
<1> DEFINE S == {n \in Nat : HasVisits(inner, n, base, list)}
<1>1. 0 \in S
  <2> DEFINE g == [s \in SUBSET (1 .. 0) |-> base]
  <2>1. (\A s \in SUBSET (1 .. 0) : s = {}) /\ g = [s \in SUBSET (1 .. 0) |-> g[s]] OBVIOUS
  <2>2. Visits(inner, 0, base, list, g) BY <2>1 DEF Visits
  <2> QED BY <2>2 DEF HasVisits
<1>2. ASSUME NEW n \in Nat, n \in S PROVE n + 1 \in S
  <2>1. PICK g : Visits(inner, n, base, list, g) BY <1>2 DEF HasVisits
  <2> DEFINE h == [s \in SUBSET (1 .. n + 1) |->
                      IF n + 1 \in s THEN Visit(inner, g[s \ {n + 1}], list[n + 1]) ELSE g[s]]
  <2>2. h = [s \in SUBSET (1 .. n + 1) |-> h[s]] OBVIOUS
  <2>3. \A s \in SUBSET (1 .. n) : s \in SUBSET (1 .. n + 1) /\ n + 1 \notin s OBVIOUS
  <2>4. \A s \in SUBSET (1 .. n) : h[s] = g[s] BY <2>3
  <2>5. \A s \in SUBSET (1 .. n + 1) : n + 1 \in s => h[s] = Visit(inner, g[s \ {n + 1}], list[n + 1]) OBVIOUS
  <2> HIDE DEF h
  <2>6. ASSUME NEW s \in SUBSET (1 .. n + 1)
        PROVE  h[s] = IF s = {} THEN base ELSE Visit(inner, h[s \ {Max(s)}], list[Max(s)])
    <3>1. CASE n + 1 \in s
      <4>1. Max(s) = n + 1 BY <3>1, MaxIs
      <4>2. s \ {n + 1} \in SUBSET (1 .. n) OBVIOUS
      <4>3. h[s] = Visit(inner, h[s \ {n + 1}], list[n + 1]) BY <3>1, <4>2, <2>4, <2>5
      <4> QED BY <3>1, <4>1, <4>3
    <3>2. CASE n + 1 \notin s
      <4>0. \A x \in s : x \in 1 .. n BY <3>2
      <4>1. s \in SUBSET (1 .. n) /\ s \ {Max(s)} \in SUBSET (1 .. n) BY <4>0
      <4>2. h[s] = g[s] /\ h[s \ {Max(s)}] = g[s \ {Max(s)}] BY <4>1, <2>4
      <4>3. g[s] = IF s = {} THEN base ELSE Visit(inner, g[s \ {Max(s)}], list[Max(s)]) BY <4>1, <2>1 DEF Visits
      <4> QED BY <4>2, <4>3
    <3> QED BY <3>1, <3>2
  <2>7. Visits(inner, n + 1, base, list, h) BY <2>2, <2>6 DEF Visits
  <2> QED BY <2>7 DEF HasVisits
<1>3. N \in S
  <2> HIDE DEF S
  <2> QED BY <1>1, <1>2, SetInduction
<1> QED BY <1>3

\* The rounds of a loop, one after another.
Rounds(inner, N, base, list, w) ==
    w[0] = base /\ \A k \in 0 .. N - 1 : w[k + 1] = Visit(inner, w[k], list[k + 1])

Runs(inner, N, base, list, x) == \E w : Rounds(inner, N, base, list, w) /\ w[N] = x

\* Its values for 1, 2, ... places are the rounds.
LEMMA VisitsRounds ==
    ASSUME NEW inner, NEW base, NEW list, NEW N \in Nat, NEW g, Visits(inner, N, base, list, g)
    PROVE  Runs(inner, N, base, list, g[1 .. N])
<1> DEFINE w == [k \in 0 .. N |-> g[1 .. k]]
<1>1. w[0] = base
  <2>1. 1 .. 0 = {} /\ {} \in SUBSET (1 .. N) OBVIOUS
  <2>2. g[{}] = base BY <2>1 DEF Visits
  <2> QED BY <2>1, <2>2
<1>2. ASSUME NEW k \in 0 .. N - 1 PROVE w[k + 1] = Visit(inner, w[k], list[k + 1])
  <2> DEFINE s == 1 .. k + 1
  <2>1. s \in SUBSET (1 .. N) /\ s # {} /\ k \in Nat /\ k + 1 \in s /\ s \in SUBSET (1 .. k + 1) OBVIOUS
  <2>2. s \ {k + 1} = 1 .. k OBVIOUS
  <2>w. w[k + 1] = g[s] /\ w[k] = g[1 .. k] OBVIOUS
  <2> HIDE DEF s, w
  <2>3. Max(s) = k + 1 BY <2>1, MaxIs
  <2>4. g[s] = Visit(inner, g[s \ {Max(s)}], list[Max(s)]) BY <2>1 DEF Visits
  <2> QED BY <2>2, <2>3, <2>4, <2>w
<1>3. w[N] = g[1 .. N] OBVIOUS
<1> HIDE DEF w
<1> QED BY <1>1, <1>2, <1>3 DEF Rounds, Runs

\* FoldLeft runs the rounds, over the nodes ...
LEMMA FoldNodes ==
    ASSUME NEW base, NEW list, NEW N \in Nat, DOMAIN list = 1 .. N
    PROVE  Runs(TRUE, N, base, list, FoldLeft(remove, base, list))
<1> DEFINE F(g) == [s \in SUBSET DOMAIN list |-> IF s = {} THEN base ELSE remove(g[s \ {Max(s)}], list[Max(s)])]
           w == CHOOSE g : g = F(g)
<1>1. FoldLeft(remove, base, list) = w[DOMAIN list] BY Zenon DEF FoldLeft, MapThenFoldSet
<1>2. PICK g : Visits(TRUE, N, base, list, g) BY FoldExists DEF HasVisits
<1>3. g = F(g)
  <2>2. \A s \in SUBSET (1 .. N) : g[s] = IF s = {} THEN base ELSE remove(g[s \ {Max(s)}], list[Max(s)])
    BY <1>2 DEF Visits, Visit
  <2>3. g = [s \in SUBSET (1 .. N) |-> g[s]] BY <1>2 DEF Visits
  <2> QED BY <2>2, <2>3
<1>4. w = F(w)
  <2>1. w = CHOOSE h : h = F(h) OBVIOUS
  <2> HIDE DEF w, F
  <2> QED BY <1>3, <2>1
<1> HIDE DEF w
<1>5. Visits(TRUE, N, base, list, w)
  <2>1. w = [s \in SUBSET (1 .. N) |-> w[s]]
    <3>1. w = F(w) BY <1>4
    <3> QED BY <3>1
  <2>2. \A s \in SUBSET (1 .. N) : w[s] = IF s = {} THEN base ELSE remove(w[s \ {Max(s)}], list[Max(s)])
    BY <1>4
  <2> QED BY <2>1, <2>2 DEF Visits, Visit
<1>6. FoldLeft(remove, base, list) = w[1 .. N] BY <1>1
<1>7. Runs(TRUE, N, base, list, w[1 .. N]) BY <1>5, VisitsRounds
<1>8. QED BY <1>6, <1>7

\* ... and over the peers.
LEMMA FoldPeers ==
    ASSUME NEW base, NEW list, NEW N \in Nat, DOMAIN list = 1 .. N
    PROVE  Runs(FALSE, N, base, list, FoldLeft(RemoveByPeer, base, list))
<1> DEFINE F(g) == [s \in SUBSET DOMAIN list |-> IF s = {} THEN base ELSE RemoveByPeer(g[s \ {Max(s)}], list[Max(s)])]
           w == CHOOSE g : g = F(g)
<1>1. FoldLeft(RemoveByPeer, base, list) = w[DOMAIN list] BY Zenon DEF FoldLeft, MapThenFoldSet
<1>2. PICK g : Visits(FALSE, N, base, list, g) BY FoldExists DEF HasVisits
<1>3. g = F(g)
  <2>2. \A s \in SUBSET (1 .. N) : g[s] = IF s = {} THEN base ELSE RemoveByPeer(g[s \ {Max(s)}], list[Max(s)])
    BY <1>2 DEF Visits, Visit
  <2>3. g = [s \in SUBSET (1 .. N) |-> g[s]] BY <1>2 DEF Visits
  <2> QED BY <2>2, <2>3
<1>4. w = F(w)
  <2>1. w = CHOOSE h : h = F(h) OBVIOUS
  <2> HIDE DEF w, F
  <2> QED BY <1>3, <2>1
<1> HIDE DEF w
<1>5. Visits(FALSE, N, base, list, w)
  <2>1. w = [s \in SUBSET (1 .. N) |-> w[s]]
    <3>1. w = F(w) BY <1>4
    <3> QED BY <3>1
  <2>2. \A s \in SUBSET (1 .. N) : w[s] = IF s = {} THEN base ELSE RemoveByPeer(w[s \ {Max(s)}], list[Max(s)])
    BY <1>4
  <2> QED BY <2>1, <2>2 DEF Visits, Visit
<1>6. FoldLeft(RemoveByPeer, base, list) = w[1 .. N] BY <1>1
<1>7. Runs(FALSE, N, base, list, w[1 .. N]) BY <1>5, VisitsRounds
<1>8. QED BY <1>6, <1>7

\* Some peers have nothing any more.
Freed(t, u, peers) == \A q \in Peer : Owned(u, q) = IF q \in peers THEN {} ELSE Owned(t, q)

\* RemoveByPeer keeps the trie in order and takes all prefixes of the peer.
LEMMA RemoveByPeerWF ==
    ASSUME NEW t, WellFormed(t), NEW p \in Peer
    PROVE  WellFormed(RemoveByPeer(t, p)) /\ Freed(t, RemoveByPeer(t, p), {p})
<1> DEFINE list == t.entries[p]
           N == Len(list)
           Rest(k) == {list[i] : i \in k + 1 .. N}
           Good(u, k) == /\ WellFormed(u) /\ Owned(u, p) = Rest(k)
                         /\ \A q \in Peer : q # p => Owned(u, q) = Owned(t, q)
<1>1. ListIs(list, Owned(t, p)) BY ListedIs DEF WellFormed, Linked
<1>2. N \in Nat /\ DOMAIN list = 1 .. N BY <1>1, LenProperties DEF ListIs
<1>3. Runs(TRUE, N, t, list, RemoveByPeer(t, p))
  <2>1. RemoveByPeer(t, p) = FoldLeft(remove, t, list) BY DEF RemoveByPeer
  <2> HIDE DEF N, list
  <2>2. Runs(TRUE, N, t, list, FoldLeft(remove, t, list)) BY <1>2, FoldNodes
  <2> QED BY <2>1, <2>2
<1>4. PICK w : Rounds(TRUE, N, t, list, w) /\ w[N] = RemoveByPeer(t, p) BY <1>3, Zenon DEF Runs
<1>5. \A i, j \in 1 .. N : list[i] = list[j] => i = j BY <1>1 DEF ListIs
<1>6. Owned(t, p) = Rest(0)
  <2>1. 0 + 1 .. N = 1 .. N OBVIOUS
  <2> QED BY <2>1, <1>1 DEF ListIs, Elements
<1> HIDE DEF list, N
<1>7. ASSUME NEW k \in Nat, k + 1 <= N, Good(w[k], k) PROVE Good(w[k + 1], k + 1)
  <2> DEFINE n == list[k + 1]
             u == w[k]
  <2>1. k \in 0 .. N - 1 /\ k + 1 \in k + 1 .. N /\ k + 1 \in 1 .. N BY <1>2, <1>7
  <2>2. w[k + 1] = remove(u, n) BY <2>1, <1>4 DEF Rounds, Visit
  <2>3. n \in Owned(u, p) BY <2>1, <1>7
  <2> HIDE DEF u, n
  <2>4. n \in Alloc(u) /\ Own(u, n) = p /\ p # Nil BY <2>3, NilAssumption DEF Owned
  <2>5. WellFormed(remove(u, n)) /\ Taken(u, remove(u, n), n) BY <2>4, <1>7, removeWF DEF u
  <2>6. Rest(k + 1) = Rest(k) \ {n}
    <3>1. \A i \in k + 1 .. N : i \in 1 .. N /\ (i # k + 1 <=> i \in k + 1 + 1 .. N) BY <1>2, <1>7
    <3>2. \A i \in k + 1 + 1 .. N : i \in k + 1 .. N /\ i # k + 1 BY <1>2, <1>7
    <3>3. \A i \in k + 1 .. N : list[i] = n <=> i = k + 1 BY <2>1, <3>1, <1>5 DEF n
    <3> QED BY <3>1, <3>2, <3>3
  <2>7. Owned(remove(u, n), p) = Rest(k + 1) BY <2>5, <2>6, <1>7 DEF Taken, u
  <2>8. \A q \in Peer : q # p => Owned(remove(u, n), q) = Owned(t, q)
    <3> SUFFICES ASSUME NEW q \in Peer, q # p PROVE Owned(remove(u, n), q) = Owned(t, q) OBVIOUS
    <3>1. n \notin Owned(u, q) BY <2>4 DEF Owned
    <3>2. Owned(u, q) = Owned(t, q) BY <1>7 DEF u
    <3> QED BY <3>1, <3>2, <2>5 DEF Taken
  <2> HIDE DEF Rest
  <2> QED BY <2>2, <2>5, <2>7, <2>8
<1>8. Good(w[0], 0)
  <2>1. w[0] = t BY <1>4 DEF Rounds
  <2> HIDE DEF Rest
  <2> QED BY <2>1, <1>6
<1>9. Good(w[N], N)
  <2> HIDE DEF Good
  <2> DEFINE S == {k \in Nat : k <= N => Good(w[k], k)}
  <2>1. 0 \in S BY <1>8
  <2>2. \A k \in Nat : k \in S => k + 1 \in S
    <3> SUFFICES ASSUME NEW k \in Nat, k <= N => Good(w[k], k), k + 1 <= N PROVE Good(w[k + 1], k + 1) OBVIOUS
    <3>1. Good(w[k], k) BY <1>2
    <3> QED BY <3>1, <1>7
  <2>3. N \in S
    <3> HIDE DEF S
    <3> QED BY <2>1, <2>2, <1>2, SetInduction
  <2> QED BY <2>3, <1>2
<1>10. Rest(N) = {} BY <1>2
<1>11. QED BY <1>4, <1>9, <1>10 DEF Freed

\* The sequence of a finite set has each of its elements.
LEMMA SetToSeqIs ==
    ASSUME NEW S, IsFiniteSet(S)
    PROVE  /\ Cardinality(S) \in Nat /\ DOMAIN SetToSeq(S) = 1 .. Cardinality(S)
           /\ \A i \in 1 .. Cardinality(S) : SetToSeq(S)[i] \in S
           /\ \A x \in S : \E i \in 1 .. Cardinality(S) : SetToSeq(S)[i] = x
<1> DEFINE n == Cardinality(S)
           f == SetToSeq(S)
<1>1. n \in Nat /\ ExistsBijection(1 .. n, S) BY FS_CardinalityType
<1>2. \E g : g \in [1 .. n -> S] /\ IsInjective(g)
  <2>1. PICK g : g \in Bijection(1 .. n, S) BY <1>1 DEF ExistsBijection
  <2> QED BY <2>1 DEF Bijection, Injection
<1>3. f = CHOOSE g \in [1 .. n -> S] : IsInjective(g) BY DEF SetToSeq
<1>4. f \in [1 .. n -> S] /\ IsInjective(f)
  <2> HIDE DEF f, n
  <2> QED BY <1>2, <1>3
<1> HIDE DEF f
<1>5. f \in Injection(1 .. n, S) BY <1>4 DEF Injection
<1>6. Cardinality(1 .. n) = n
  <2>1. 1 \in Int /\ n \in Int BY <1>1
  <2>2. Cardinality(1 .. n) = IF 1 > n THEN 0 ELSE n - 1 + 1 BY <2>1, FS_Interval
  <2> HIDE DEF n
  <2> QED BY <2>2, <1>1
<1>7. f \in Surjection(1 .. n, S) BY <1>5, <1>6, FS_Injection
<1>8. QED BY <1>1, <1>4, <1>7 DEF Surjection, f

\* So does removePeerLocked, for one peer after the other.
LEMMA RemovePeersWF ==
    ASSUME NEW t, WellFormed(t), NEW peers \in SUBSET Peer, IsFiniteSet(peers)
    PROVE  LET u == FoldLeft(RemoveByPeer, t, SetToSeq(peers)) IN WellFormed(u) /\ Freed(t, u, peers)
<1> DEFINE list == SetToSeq(peers)
           N == Cardinality(peers)
           Seen(k) == {list[i] : i \in 1 .. k}
           Good(u, k) == WellFormed(u) /\ Freed(t, u, Seen(k))
           v == FoldLeft(RemoveByPeer, t, list)
<1>1. /\ N \in Nat /\ DOMAIN list = 1 .. N /\ \A i \in 1 .. N : list[i] \in peers
      /\ \A x \in peers : \E i \in 1 .. N : list[i] = x
  BY SetToSeqIs
<1> HIDE DEF list, N
<1>2. Runs(FALSE, N, t, list, v) BY <1>1, FoldPeers
<1> HIDE DEF v
<1>3. PICK w : Rounds(FALSE, N, t, list, w) /\ w[N] = v BY <1>2, Zenon DEF Runs
<1>4. ASSUME NEW k \in Nat, k + 1 <= N, Good(w[k], k) PROVE Good(w[k + 1], k + 1)
  <2> DEFINE p == list[k + 1]
             u == w[k]
             r == RemoveByPeer(u, p)
  <2>1. k \in 0 .. N - 1 /\ k + 1 \in 1 .. N BY <1>1, <1>4
  <2>2. w[k + 1] = r BY <2>1, <1>3 DEF Rounds, Visit
  <2>3. p \in Peer BY <2>1, <1>1
  <2> HIDE DEF p, u
  <2>4. WellFormed(r) /\ Freed(u, r, {p}) BY <2>3, <1>4, RemoveByPeerWF DEF u
  <2>5. Seen(k + 1) = Seen(k) \cup {p}
    <3>1. \A i \in 1 .. k + 1 : i \in 1 .. k \/ i = k + 1 BY <1>4
    <3>2. \A i \in 1 .. k : i \in 1 .. k + 1 BY <1>4
    <3>3. k + 1 \in 1 .. k + 1 OBVIOUS
    <3> QED BY <3>1, <3>2, <3>3 DEF p
  <2> HIDE DEF Seen, r
  <2>6. Freed(t, r, Seen(k + 1)) BY <2>4, <2>5, <1>4 DEF Freed, u
  <2> QED BY <2>2, <2>4, <2>6 DEF r
<1>5. Good(w[0], 0)
  <2>1. w[0] = t /\ Seen(0) = {} BY <1>3 DEF Rounds
  <2> HIDE DEF Seen
  <2> QED BY <2>1 DEF Freed
<1>6. Good(w[N], N)
  <2> HIDE DEF Good
  <2> DEFINE S == {k \in Nat : k <= N => Good(w[k], k)}
  <2>1. 0 \in S BY <1>5
  <2>2. \A k \in Nat : k \in S => k + 1 \in S
    <3> SUFFICES ASSUME NEW k \in Nat, k <= N => Good(w[k], k), k + 1 <= N PROVE Good(w[k + 1], k + 1) OBVIOUS
    <3>1. Good(w[k], k) BY <1>1
    <3> QED BY <3>1, <1>4
  <2>3. N \in S
    <3> HIDE DEF S
    <3> QED BY <2>1, <2>2, <1>1, SetInduction
  <2> QED BY <2>3, <1>1
<1>7. Seen(N) = peers BY <1>1
<1> HIDE DEF Seen
<1>8. QED BY <1>3, <1>6, <1>7 DEF v, list

-------------------------------------------------------------------------------
(* The inductive invariant. *)

\* Only peers that are configured have prefixes.
OnlyConfigured == \A p \in Peer \ keyMap : Owned(allowedips, p) = {}

\* The peer at hand is configured, or it is a dummy.
CurrentOK ==
    /\ ipc.pc = "device" => ipc.peer = Nil
    /\ ipc.pc = "peer" => ipc.peer \in Peer /\ (~ipc.dummy => ipc.peer \in keyMap)

\* While an operation goes on all the peers it has named run, but for the one at hand,
\* unless the device is down or has yet to start its peers.
Unstarted == IF ipc.dummy THEN {} ELSE {ipc.peer}
NamedRun ==
    /\ Settled /\ ipc.pc # "idle" => (ipc.named \ Unstarted) \cap keyMap \subseteq running
    /\ change = "down" => ~up
    /\ ipc.pc # "idle" => ipc.result = "none"
    /\ identity \notin keyMap

IInv ==
    /\ TypeOK /\ IsFiniteSet(keyMap)
    /\ WellFormed(allowedips) /\ OnlyConfigured
    /\ CurrentOK
    /\ NamedRun /\ AcceptedPeersRun

\* An empty table is in order.
LEMMA EmptyWF == WellFormed(EmptyTable) /\ \A p \in Peer : Owned(EmptyTable, p) = {}
<1> DEFINE t == EmptyTable
<1>1. DOMAIN t.node = {} /\ DOMAIN t = {"root", "node", "entries"}
      /\ t.root = [f \in Family |-> Nil] /\ t.entries = [p \in Peer |-> <<>>] BY DEF EmptyTable
<1> HIDE DEF t
<1>2. IsTable(t) BY <1>1 DEF IsTable
<1>3. \A p \in Peer : Owned(t, p) = {} BY <1>1 DEF Owned, Alloc
<1>4. UpLinked(t) /\ Forked(t) BY <1>1 DEF UpLinked, Forked, Alloc
<1>5. DownLinked(t)
  <2> SUFFICES ASSUME NEW at \in Pointer(t), Field(t, at) # Nil PROVE FALSE BY DEF DownLinked
  <2>1. at.bit = 2 /\ at.of \in Family BY <1>1, PointerCases DEF Alloc
  <2> QED BY <2>1, <1>1 DEF Field
<1>6. Listed(t)
  <2> SUFFICES ASSUME NEW p \in Peer PROVE ListOK(t, p) BY DEF Listed
  <2>1. Len(t.entries[p]) = 0 BY <1>1
  <2> QED BY <2>1, <1>3 DEF ListOK
<1> QED BY <1>2, <1>3, <1>4, <1>5, <1>6 DEF WellFormed, Linked, t

\* What removePeerLocked does to the table and to the peers.
LEMMA RemoveFacts ==
    ASSUME IInv, NEW peers \in SUBSET keyMap, removePeerLocked(peers)
    PROVE  /\ WellFormed(allowedips') /\ Freed(allowedips, allowedips', peers) /\ OnlyConfigured'
           /\ keyMap' = keyMap \ peers /\ running' = running \ peers
           /\ keyMap' \subseteq Peer /\ IsFiniteSet(keyMap') /\ Cardinality(keyMap') <= MaxPeers
<1>1. keyMap \subseteq Peer /\ IsFiniteSet(keyMap) /\ Cardinality(keyMap) <= MaxPeers /\ MaxPeers \in Nat
  BY BoundAssumption DEF IInv, TypeOK
<1>2. keyMap' = keyMap \ peers /\ running' = running \ peers
      /\ allowedips' = FoldLeft(RemoveByPeer, allowedips, SetToSeq(peers)) BY DEF removePeerLocked
<1>3. peers \in SUBSET Peer /\ IsFiniteSet(peers) BY <1>1, FS_Subset
<1>4. WellFormed(allowedips') /\ Freed(allowedips, allowedips', peers)
  BY <1>2, <1>3, RemovePeersWF DEF IInv
<1>5. OnlyConfigured'
  <2> SUFFICES ASSUME NEW p \in Peer, p \notin keyMap' PROVE Owned(allowedips', p) = {} BY DEF OnlyConfigured
  <2>1. CASE p \in peers BY <2>1, <1>4 DEF Freed
  <2>2. CASE p \notin peers
    <3>1. p \notin keyMap BY <2>2, <1>2
    <3> QED BY <3>1, <2>2, <1>4 DEF Freed, IInv, OnlyConfigured
  <2> QED BY <2>1, <2>2
<1>6. IsFiniteSet(keyMap') /\ Cardinality(keyMap') <= MaxPeers
  <2>1. keyMap' \in SUBSET keyMap BY <1>2
  <2>2. IsFiniteSet(keyMap') /\ Cardinality(keyMap') <= Cardinality(keyMap) BY <2>1, <1>1, FS_Subset
  <2>3. Cardinality(keyMap') \in Nat /\ Cardinality(keyMap) \in Nat BY <2>2, <1>1, FS_CardinalityType
  <2> QED BY <2>2, <2>3, <1>1
<1> QED BY <1>1, <1>2, <1>4, <1>5, <1>6

\* What a change of owners does to the table and to the peers.
LEMMA StayConfigured ==
    ASSUME IInv, keyMap' = keyMap, NEW p \in keyMap, WellFormed(allowedips'),
           \/ \E n : Given(allowedips, allowedips', n, p)
           \/ Freed(allowedips, allowedips', {p})
           \/ \E n : Taken(allowedips, allowedips', n)
           \/ allowedips' = allowedips
    PROVE  OnlyConfigured'
<1> SUFFICES ASSUME NEW q \in Peer, q \notin keyMap PROVE Owned(allowedips', q) = {} BY DEF OnlyConfigured
<1>1. q # p /\ Owned(allowedips, q) = {} BY DEF IInv, OnlyConfigured
<1>2. CASE \E n : Given(allowedips, allowedips', n, p) BY <1>1, <1>2 DEF Given
<1>3. CASE Freed(allowedips, allowedips', {p}) BY <1>1, <1>3 DEF Freed
<1>4. CASE \E n : Taken(allowedips, allowedips', n) BY <1>1, <1>4 DEF Taken
<1>5. CASE allowedips' = allowedips BY <1>1, <1>5
<1> QED BY <1>2, <1>3, <1>4, <1>5

\* The invariant holds at first.
LEMMA InitIInv == ASSUME Init PROVE IInv
<1>1. TypeOK
  <2>1. IsTable(allowedips) BY EmptyWF DEF Init, WellFormed, Linked
  <2>2. Cardinality(keyMap) <= MaxPeers BY FS_EmptySet, BoundAssumption DEF Init
  <2>3. ipc \in Ipc BY DEF Init, Ipc, NoOperation
  <2> QED BY <2>1, <2>2, <2>3 DEF Init, TypeOK
<1>2. IsFiniteSet(keyMap) BY FS_EmptySet DEF Init
<1>3. WellFormed(allowedips) /\ OnlyConfigured BY EmptyWF DEF Init, OnlyConfigured
<1>4. CurrentOK /\ NamedRun /\ AcceptedPeersRun BY DEF Init, CurrentOK, NamedRun, AcceptedPeersRun, NoOperation
<1> QED BY <1>1, <1>2, <1>3, <1>4 DEF IInv

\* The table, as far as one step can change it.
TableOK == /\ WellFormed(allowedips) /\ OnlyConfigured
           /\ keyMap \subseteq Peer /\ IsFiniteSet(keyMap) /\ Cardinality(keyMap) <= MaxPeers

\* Actions that leave the table and the key map alone.
LEMMA TableUnchanged ==
    ASSUME IInv, UNCHANGED <<keyMap, allowedips>>
    PROVE  TableOK'
BY DEF IInv, TableOK, OnlyConfigured, TypeOK

\* Nobody that stays configured stops.
KeepsRunning == \A q \in running : q \in running' \/ q \notin keyMap'

\* removePeerLocked for at most one peer: remove=true, and a peer with the device's own key.
LEMMA RemovePeerOK ==
    ASSUME IInv, NEW p, RemovePeer(p)
    PROVE  TableOK' /\ keyMap' = keyMap \ {p} /\ KeepsRunning /\ running' \subseteq Peer
<1>1. removePeerLocked({p} \cap keyMap) BY DEF RemovePeer
<1>2. {p} \cap keyMap \in SUBSET keyMap OBVIOUS
<1>3. /\ WellFormed(allowedips') /\ OnlyConfigured'
      /\ keyMap' = keyMap \ ({p} \cap keyMap) /\ running' = running \ ({p} \cap keyMap)
      /\ keyMap' \subseteq Peer /\ IsFiniteSet(keyMap') /\ Cardinality(keyMap') <= MaxPeers
  BY <1>1, <1>2, RemoveFacts
<1> QED BY <1>3 DEF TableOK, IInv, TypeOK, KeepsRunning

\* The table stays in order, and with it the key map.
LEMMA NextTableOK == ASSUME IInv, [Next]_vars PROVE TableOK'
<1> USE DEF IInv
<1>1. CASE UNCHANGED <<keyMap, allowedips>> BY <1>1, TableUnchanged
<1>2. ASSUME NEW key \in Peer, PrivateKeyLine(key) PROVE TableOK'
  <2>1. CASE key = identity BY <2>1, <1>2, TableUnchanged DEF PrivateKeyLine, SetPrivateKey
  <2>2. CASE key # identity BY <2>2, <1>2, RemovePeerOK DEF PrivateKeyLine, SetPrivateKey
  <2> QED BY <2>1, <2>2
<1>3. ASSUME ReplacePeersLine PROVE TableOK'
  <2>1. removePeerLocked(keyMap) BY <1>3 DEF ReplacePeersLine, RemoveAllPeers
  <2> QED BY <2>1, RemoveFacts DEF TableOK
<1>4. ASSUME NEW key \in Peer, PublicKeyLine(key) PROVE TableOK'
  <2> DEFINE created == key # identity /\ key \notin keyMap
  <2>1. CASE created /\ ~Full
    <3>1. allowedips' = allowedips /\ keyMap' = keyMap \cup {key} BY <2>1, <1>4 DEF PublicKeyLine
    <3>2. Cardinality(keyMap) \in Nat /\ MaxPeers \in Nat /\ ~(Cardinality(keyMap) >= MaxPeers)
      BY <2>1, FS_CardinalityType, BoundAssumption DEF Full
    <3>3. IsFiniteSet(keyMap') /\ Cardinality(keyMap') = Cardinality(keyMap) + 1
      BY <3>1, <2>1, FS_AddElement
    <3> QED BY <3>1, <3>2, <3>3 DEF TableOK, OnlyConfigured, TypeOK
  <2>2. CASE ~(created /\ ~Full)
    <3>1. UNCHANGED <<keyMap, allowedips>> BY <2>2, <1>4 DEF PublicKeyLine
    <3> QED BY <3>1, TableUnchanged
  <2> QED BY <2>1, <2>2
<1>5. ASSUME UpdateOnlyLine PROVE TableOK'
  <2>1. CASE ipc.created /\ ~ipc.dummy BY <2>1, <1>5, RemovePeerOK DEF UpdateOnlyLine
  <2>2. CASE ~(ipc.created /\ ~ipc.dummy) BY <2>2, <1>5, TableUnchanged DEF UpdateOnlyLine
  <2> QED BY <2>1, <2>2
<1>6. ASSUME RemoveLine PROVE TableOK'
  <2>1. CASE ~ipc.dummy BY <2>1, <1>6, RemovePeerOK DEF RemoveLine
  <2>2. CASE ipc.dummy BY <2>2, <1>6, TableUnchanged DEF RemoveLine
  <2> QED BY <2>1, <2>2
<1>7. ASSUME keyMap' = keyMap, ipc.pc = "peer", ~ipc.dummy, WellFormed(allowedips'),
             \/ \E n : Given(allowedips, allowedips', n, ipc.peer)
             \/ Freed(allowedips, allowedips', {ipc.peer})
             \/ \E n : Taken(allowedips, allowedips', n)
             \/ allowedips' = allowedips
      PROVE  TableOK'
  <2>1. ipc.peer \in keyMap BY <1>7 DEF CurrentOK
  <2>2. OnlyConfigured' BY <2>1, <1>7, StayConfigured
  <2> QED BY <2>2, <1>7 DEF TableOK, TypeOK
<1>8. ASSUME ReplaceAllowedIpsLine PROVE TableOK'
  <2>1. keyMap' = keyMap /\ ipc.pc = "peer" /\ ipc.peer \in Peer BY <1>8 DEF ReplaceAllowedIpsLine, CurrentOK
  <2>2. CASE ipc.dummy
    <3>1. UNCHANGED <<keyMap, allowedips>> BY <2>2, <1>8 DEF ReplaceAllowedIpsLine
    <3> QED BY <3>1, TableUnchanged
  <2>3. CASE ~ipc.dummy
    <3>1. allowedips' = RemoveByPeer(allowedips, ipc.peer) BY <2>3, <1>8 DEF ReplaceAllowedIpsLine
    <3>2. WellFormed(allowedips') /\ Freed(allowedips, allowedips', {ipc.peer}) BY <3>1, <2>1, RemoveByPeerWF
    <3> QED BY <3>2, <2>1, <2>3, <1>7
  <2> QED BY <2>2, <2>3
<1>9. ASSUME NEW p \in AllowedIp, AllowedIpLine(p) PROVE TableOK'
  <2>1. keyMap' = keyMap /\ ipc.pc = "peer" /\ ipc.peer \in Peer BY <1>9 DEF AllowedIpLine, CurrentOK
  <2>p. p.family \in Family /\ p.ip \in Address /\ p.cidr \in Cidr BY PrefixAssumption
  <2>2. CASE ipc.dummy
    <3>1. UNCHANGED <<keyMap, allowedips>> BY <2>2, <1>9 DEF AllowedIpLine
    <3> QED BY <3>1, TableUnchanged
  <2>3. CASE ~ipc.dummy
    <3>1. allowedips' = Insert(allowedips, p.family, p.ip, p.cidr, ipc.peer) BY <2>3, <1>9 DEF AllowedIpLine
    <3>2. WellFormed(allowedips') /\ Given(allowedips, allowedips', NodeOf(p.family, p.ip, p.cidr), ipc.peer)
      BY <3>1, <2>1, <2>p, InsertWF
    <3> QED BY <3>2, <2>1, <2>3, <1>7
  <2> QED BY <2>2, <2>3
<1>10. ASSUME NEW p \in AllowedIp, NotAllowedIpLine(p) PROVE TableOK'
  <2>1. keyMap' = keyMap /\ ipc.pc = "peer" /\ ipc.peer \in Peer BY <1>10 DEF NotAllowedIpLine, CurrentOK
  <2>p. p.family \in Family /\ p.ip \in Address /\ p.cidr \in Cidr BY PrefixAssumption
  <2>2. CASE ipc.dummy
    <3>1. UNCHANGED <<keyMap, allowedips>> BY <2>2, <1>10 DEF NotAllowedIpLine
    <3> QED BY <3>1, TableUnchanged
  <2>3. CASE ~ipc.dummy
    <3>1. allowedips' = RemovePrefix(allowedips, p.family, p.ip, p.cidr, ipc.peer) BY <2>3, <1>10 DEF NotAllowedIpLine
    <3>2. WellFormed(allowedips')
          /\ (allowedips' = allowedips \/ Taken(allowedips, allowedips', NodeOf(p.family, p.ip, p.cidr)))
      BY <3>1, <2>1, <2>p, RemovePrefixWF
    <3> QED BY <3>2, <2>1, <2>3, <1>7
  <2> QED BY <2>2, <2>3
<1>11. [Next]_vars =>
         \/ UNCHANGED <<keyMap, allowedips>>
         \/ ReplacePeersLine \/ UpdateOnlyLine \/ RemoveLine \/ ReplaceAllowedIpsLine
         \/ \E key \in Peer : PrivateKeyLine(key) \/ PublicKeyLine(key)
         \/ \E p \in AllowedIp : AllowedIpLine(p) \/ NotAllowedIpLine(p)
  BY DEF Next, vars, DeviceLine, PeerLine, Up, UpPeers, UpFails, Down, DownPeers, BeginSet, EndSet,
         InvalidLine, PersistentKeepaliveLine
<1> QED BY <1>1, <1>2, <1>3, <1>4, <1>5, <1>6, <1>8, <1>9, <1>10, <1>11

\* handlePostConfig starts the one peer an operation has named that does not run.
LEMMA StartedAll ==
    ASSUME IInv, Settled, ipc.pc # "idle", NEW q \in ipc.named, q \in keyMap
    PROVE  q \in running \cup Started
<1>1. CASE q \in Unstarted
  <2>1. q = ipc.peer /\ ~ipc.dummy /\ q # Nil BY <1>1, NilAssumption DEF Unstarted, IInv, TypeOK
  <2> QED BY <2>1 DEF Started, Starts, Configured, Settled
<1>2. CASE q \notin Unstarted BY <1>2 DEF IInv, NamedRun
<1> QED BY <1>1, <1>2

\* The types of the operation's state.
LEMMA IpcType ==
    ASSUME IInv
    PROVE  /\ ipc \in Ipc /\ ipc.named \subseteq Peer /\ ipc.turnedOn \subseteq Peer /\ ipc.kept \subseteq Peer
           /\ Started \subseteq Peer /\ Kept \subseteq Peer /\ running \subseteq Peer
           /\ interval \in [Peer -> Intervals \cup {0}] /\ NoOperation \in Ipc
           /\ [NoOperation EXCEPT !.result = "error"] \in Ipc
<1>1. ipc \in Ipc BY DEF IInv, TypeOK
<1>2. ipc.named \subseteq Peer /\ ipc.turnedOn \subseteq Peer /\ ipc.kept \subseteq Peer /\ ipc.peer \in Peer \cup {Nil}
  BY <1>1 DEF Ipc
<1>3. Started \subseteq Peer /\ Kept \subseteq Peer BY <1>2 DEF Started, Kept, Starts, Configured
<1>4. NoOperation \in Ipc /\ [NoOperation EXCEPT !.result = "error"] \in Ipc BY DEF NoOperation, Ipc
<1> QED BY <1>1, <1>2, <1>3, <1>4 DEF IInv, TypeOK

\* The variables but the table.
Rest == /\ running \subseteq Peer /\ interval \in [Peer -> Intervals \cup {0}]
        /\ identity \in Peer \cup {Nil} /\ up \in BOOLEAN /\ change \in {"none", "up", "down"}
        /\ ipc \in Ipc /\ CurrentOK /\ NamedRun /\ AcceptedPeersRun

\* Rest is part of the invariant.
LEMMA RestHolds == ASSUME IInv PROVE Rest /\ keyMap \subseteq Peer /\ Nil \notin Peer
BY NilAssumption DEF IInv, TypeOK, Rest

\* An operation that is over, or is about to begin.
LEMMA EndedRest ==
    ASSUME IInv, UNCHANGED <<interval, state>>, identity' \in Peer \cup {Nil}, identity' \notin keyMap',
           running' \subseteq Peer,
           ipc' = NoOperation \/ ipc' = [NoOperation EXCEPT !.result = "error"]
               \/ ipc' = [NoOperation EXCEPT !.pc = "device"]
    PROVE  Rest'
<1>1. ipc' \in Ipc
  <2>1. [NoOperation EXCEPT !.pc = "device"] \in Ipc BY DEF NoOperation, Ipc
  <2> QED BY <2>1, IpcType
<1>2. ipc'.named = {} /\ ipc'.result # "ok" /\ ipc'.pc # "peer" /\ ipc'.peer = Nil
      /\ (ipc'.pc # "idle" => ipc'.result = "none") BY DEF NoOperation
<1>3. CurrentOK' /\ AcceptedPeersRun' BY <1>2 DEF CurrentOK, AcceptedPeersRun
<1>4. NamedRun' BY <1>2, RestHolds DEF NamedRun, Rest, state
<1> QED BY <1>1, <1>3, <1>4, RestHolds DEF Rest, state

\* Only changeState changes whether the device is up.
LEMMA StillSettled == ASSUME UNCHANGED state PROVE Settled' = Settled /\ UNCHANGED <<up, change>>
BY DEF state, Settled

\* The variables but the table stay in order.
LEMMA NextRest == ASSUME IInv, [Next]_vars PROVE Rest'
<1>r. Rest /\ keyMap \subseteq Peer /\ Nil \notin Peer BY RestHolds
<1>i. identity \in Peer \cup {Nil} /\ identity \notin keyMap /\ up \in BOOLEAN /\ running \subseteq Peer
  BY <1>r DEF Rest, NamedRun
<1>1. CASE UNCHANGED vars
  BY <1>1, <1>r, StillSettled DEF vars, Rest, CurrentOK, NamedRun, AcceptedPeersRun, Unstarted
<1>2. CASE Up \/ UpFails \/ Down
  <2>1. /\ UNCHANGED <<keyMap, running, interval, identity, ipc>> /\ ~Settled' /\ up' \in BOOLEAN
        /\ change' \in {"up", "down"} /\ (change' = "down" => ~up')
    BY <1>2 DEF Up, UpFails, Down, Settled
  <2> QED BY <2>1, <1>r DEF Rest, CurrentOK, NamedRun, AcceptedPeersRun
<1>3. CASE UpPeers \/ DownPeers
  <2>1. /\ UNCHANGED <<keyMap, interval, identity, up, ipc>> /\ change' = "none"
        /\ running' \subseteq Peer
    BY <1>3, <1>r, <1>i DEF UpPeers, DownPeers
  <2>2. Settled' => ipc.pc = "idle" /\ keyMap \subseteq running'
    BY <1>3, <1>r DEF UpPeers, DownPeers, Settled, Rest, NamedRun
  <2>3. CurrentOK' /\ NamedRun' /\ AcceptedPeersRun'
    BY <2>1, <2>2, <1>r DEF Rest, CurrentOK, NamedRun, AcceptedPeersRun
  <2> QED BY <2>1, <2>3, <1>r DEF Rest
<1>4. CASE BeginSet BY <1>4, <1>i, EndedRest DEF BeginSet
<1>5. CASE InvalidLine
  <2>1. running' \subseteq Peer BY <1>5, <1>i, IpcType DEF InvalidLine
  <2> QED BY <2>1, <1>5, <1>i, EndedRest DEF InvalidLine
<1>6. CASE EndSet
  <2>1. CASE ipc' = [NoOperation EXCEPT !.result = "error"] /\ running' \in {running, running \cup Started}
    <3>1. running' \subseteq Peer BY <2>1, <1>i, IpcType
    <3> QED BY <3>1, <2>1, <1>6, <1>i, EndedRest DEF EndSet
  <2>2. CASE /\ ipc' = [NoOperation EXCEPT !.named = ipc.named, !.turnedOn = ipc.turnedOn,
                          !.kept = ipc.kept \cup Kept, !.result = "ok"]
             /\ running' = running \cup Started
    <3>1. UNCHANGED <<keyMap, interval, identity, state>> /\ ipc.pc # "idle" BY <1>6 DEF EndSet
    <3>2. ipc' \in Ipc BY <2>2, IpcType DEF NoOperation, Ipc
    <3>3. ipc'.pc = "idle" /\ ipc'.named = ipc.named BY <2>2 DEF NoOperation
    <3>4. AcceptedPeersRun' BY <3>1, <3>3, <2>2, StartedAll, StillSettled DEF AcceptedPeersRun
    <3>5. CurrentOK' /\ NamedRun' BY <3>1, <3>3, <1>i, <1>r, StillSettled DEF CurrentOK, NamedRun, Rest
    <3>6. running' \subseteq Peer BY <2>2, IpcType
    <3> QED BY <3>1, <3>2, <3>4, <3>5, <3>6, <1>r, StillSettled DEF Rest
  <2> QED BY <2>1, <2>2, <1>6 DEF EndSet
<1>7. ASSUME NEW key \in Peer, PrivateKeyLine(key) PROVE Rest'
  <2>1. ipc' = ipc /\ UNCHANGED <<interval, state>> /\ ipc.pc = "device" /\ identity' = key
    BY <1>7 DEF PrivateKeyLine, SetPrivateKey
  <2>2. keyMap' \subseteq keyMap /\ key \notin keyMap' /\ running' \subseteq Peer
        /\ \A q \in running : q \in running' \/ q \notin keyMap'
    <3>1. CASE key = identity
      <4>1. UNCHANGED <<keyMap, running>> BY <3>1, <1>7 DEF PrivateKeyLine, SetPrivateKey
      <4> QED BY <4>1, <3>1, <1>i
    <3>2. CASE key # identity
      <4>1. RemovePeer(key) BY <3>2, <1>7 DEF PrivateKeyLine, SetPrivateKey
      <4>2. TableOK' /\ keyMap' = keyMap \ {key} /\ KeepsRunning /\ running' \subseteq Peer BY <4>1, RemovePeerOK
      <4> QED BY <4>2 DEF KeepsRunning
    <3> QED BY <3>1, <3>2
  <2>3. Unstarted' = Unstarted BY <2>1 DEF Unstarted
  <2> QED BY <2>1, <2>2, <2>3, <1>r, StillSettled DEF Rest, CurrentOK, NamedRun, AcceptedPeersRun
<1>8. CASE ReplacePeersLine
  <2>1. ipc' = ipc /\ UNCHANGED <<interval, state, identity>> /\ ipc.pc = "device" BY <1>8 DEF ReplacePeersLine
  <2>2. removePeerLocked(keyMap) BY <1>8 DEF ReplacePeersLine, RemoveAllPeers
  <2>3. keyMap' = {} /\ running' \subseteq running BY <2>2, RemoveFacts
  <2> QED BY <2>1, <2>3, <1>r, StillSettled DEF Rest, CurrentOK, NamedRun, AcceptedPeersRun
<1>9. ASSUME NEW key \in Peer, PublicKeyLine(key) PROVE Rest'
  <2> DEFINE dummy == key = identity
             created == ~dummy /\ key \notin keyMap
             fails == created /\ Full
  <2>1. /\ running' = running \cup Started
        /\ keyMap' = IF created /\ ~fails THEN keyMap \cup {key} ELSE keyMap
        /\ interval' = IF created /\ ~fails THEN [interval EXCEPT ![key] = 0] ELSE interval
        /\ UNCHANGED <<identity, state>> /\ ipc.pc # "idle"
    BY <1>9 DEF PublicKeyLine
  <2>2. running' \subseteq Peer BY <2>1, IpcType
  <2>3. CASE fails
    <3>1. ipc' = [NoOperation EXCEPT !.result = "error"] BY <2>3, <1>9 DEF PublicKeyLine
    <3>2. UNCHANGED <<keyMap, interval>> BY <2>1, <2>3
    <3> QED BY <3>1, <3>2, <2>1, <2>2, <1>i, EndedRest
  <2>4. CASE ~fails
    <3>1. ipc' = [ipc EXCEPT !.pc = "peer", !.peer = key, !.dummy = dummy, !.secs = 0,
                            !.created = created, !.named = @ \cup {key},
                            !.kept = @ \cup Kept]
      BY <2>4, <1>9 DEF PublicKeyLine
    <3>2. dummy \in BOOLEAN /\ created \in BOOLEAN OBVIOUS
    <3>3. ipc' \in Ipc
      <4> HIDE DEF dummy, created
      <4> QED BY <3>1, <3>2, IpcType DEF Ipc
    <3>4. /\ ipc'.pc = "peer" /\ ipc'.peer = key /\ ipc'.dummy = dummy /\ ipc'.named = ipc.named \cup {key}
          /\ ipc'.result = "none"
      BY <3>1, <2>1, IpcType, <1>r DEF Ipc, Rest, NamedRun
    <3>5. interval' \in [Peer -> Intervals \cup {0}] BY <2>1, IpcType
    <3>6. keyMap' = keyMap \/ (keyMap' = keyMap \cup {key} /\ key # identity) BY <2>1
    <3>7. CurrentOK' BY <3>4, <2>1, <2>4 DEF CurrentOK
    <3>8. (ipc'.named \ Unstarted') \cap keyMap' \subseteq running' \/ ~Settled
      <4> SUFFICES ASSUME Settled, NEW q \in ipc'.named, q \notin Unstarted', q \in keyMap' PROVE q \in running' OBVIOUS
      <4>1. q # key
        <5>1. CASE dummy BY <5>1, <3>6, <1>i
        <5>2. CASE ~dummy BY <5>2, <3>4 DEF Unstarted
        <5> QED BY <5>1, <5>2
      <4>2. q \in ipc.named /\ q \in keyMap BY <4>1, <3>4, <3>6
      <4> QED BY <4>2, <2>1, StartedAll
    <3>9. identity' \notin keyMap' BY <3>6, <2>1, <1>i
    <3>10. NamedRun' /\ AcceptedPeersRun' BY <3>4, <3>8, <3>9, <2>1, <1>r, StillSettled DEF NamedRun, AcceptedPeersRun, Rest
    <3> QED BY <3>3, <3>5, <3>7, <3>10, <2>1, <2>2, <1>r, StillSettled DEF Rest
  <2> QED BY <2>3, <2>4
<1>a. ASSUME ipc.pc = "peer", ~ipc.dummy, RemovePeer(ipc.peer), UNCHANGED <<interval, identity, state>>,
             ipc' = ToNobody
      PROVE  Rest'
  <2>1. keyMap' = keyMap \ {ipc.peer} /\ running' \subseteq Peer
        /\ \A q \in running : q \in running' \/ q \notin keyMap'
    <3>1. keyMap' = keyMap \ {ipc.peer} /\ KeepsRunning /\ running' \subseteq Peer BY <1>a, RemovePeerOK
    <3> QED BY <3>1 DEF KeepsRunning
  <2>2. ipc' = [ipc EXCEPT !.dummy = TRUE, !.secs = 0] BY <1>a DEF ToNobody
  <2>3. ipc' \in Ipc BY <2>2, IpcType DEF Ipc
  <2>4. /\ ipc'.pc = "peer" /\ ipc'.peer = ipc.peer /\ ipc'.dummy = TRUE /\ ipc'.named = ipc.named
        /\ ipc'.result = "none"
    BY <2>2, <1>a, IpcType, <1>r DEF Ipc, Rest, NamedRun
  <2>5. CurrentOK' BY <2>4, <1>a, <1>r DEF CurrentOK, Rest
  <2>6. Settled => \A q \in ipc'.named \cap keyMap' : q \in running'
    <3> SUFFICES ASSUME Settled, NEW q \in ipc.named, q \in keyMap, q # ipc.peer, q \in keyMap' PROVE q \in running'
      BY <2>1, <2>4
    <3>1. q \in running BY <1>a, <1>r DEF Rest, NamedRun, Unstarted
    <3> QED BY <3>1, <2>1
  <2>7. NamedRun' /\ AcceptedPeersRun' BY <2>1, <2>4, <2>6, <1>a, <1>i, <1>r, StillSettled DEF NamedRun, AcceptedPeersRun, Rest
  <2> QED BY <2>1, <2>3, <2>5, <2>7, <1>a, <1>r, StillSettled DEF Rest
<1>10. CASE UpdateOnlyLine
  <2>1. CASE ipc.created /\ ~ipc.dummy BY <2>1, <1>10, <1>a DEF UpdateOnlyLine, ToNobody
  <2>2. CASE ~(ipc.created /\ ~ipc.dummy)
    BY <2>2, <1>10, <1>r, StillSettled DEF UpdateOnlyLine, Rest, CurrentOK, NamedRun, AcceptedPeersRun, Unstarted
  <2> QED BY <2>1, <2>2
<1>11. CASE RemoveLine
  <2>1. CASE ~ipc.dummy BY <2>1, <1>11, <1>a DEF RemoveLine
  <2>2. CASE ipc.dummy
    <3>1. UNCHANGED <<keyMap, running, interval, identity, state>> /\ ipc' = [ipc EXCEPT !.dummy = TRUE, !.secs = 0]
          /\ ipc.pc = "peer"
      BY <2>2, <1>11 DEF RemoveLine, ToNobody
    <3>2. ipc' \in Ipc BY <3>1, IpcType DEF Ipc
    <3>3. /\ ipc'.pc = "peer" /\ ipc'.peer = ipc.peer /\ ipc'.dummy = TRUE /\ ipc'.named = ipc.named
          /\ ipc'.result = "none"
      BY <3>1, IpcType, <1>r DEF Ipc, Rest, NamedRun
    <3> QED BY <3>1, <3>2, <3>3, <2>2, <1>r, StillSettled DEF Rest, CurrentOK, NamedRun, AcceptedPeersRun, Unstarted
  <2> QED BY <2>1, <2>2
<1>12. ASSUME NEW secs \in Intervals, PersistentKeepaliveLine(secs) PROVE Rest'
  <2> DEFINE old == IF ipc.dummy THEN ipc.secs ELSE interval[ipc.peer]
             on == old = 0 /\ secs # 0
  <2>1. /\ ipc.pc = "peer" /\ UNCHANGED <<keyMap, running, identity, state>>
        /\ ipc' = [ipc EXCEPT !.pkaOn = on, !.secs = IF ipc.dummy THEN secs ELSE @,
                     !.turnedOn = IF on /\ ~ipc.dummy THEN @ \cup {ipc.peer} ELSE @]
        /\ interval' = IF ipc.dummy THEN interval ELSE [interval EXCEPT ![ipc.peer] = secs]
    <3>1. (old = 0 /\ secs # 0 /\ ~ipc.dummy) <=> (on /\ ~ipc.dummy) OBVIOUS
    <3> QED BY <3>1, <1>12 DEF PersistentKeepaliveLine
  <2>2. on \in BOOLEAN /\ ipc.peer \in Peer BY <2>1, <1>r DEF Rest, CurrentOK
  <2> HIDE DEF on
  <2>3. ipc' \in Ipc
    <3> DEFINE sx == IF ipc.dummy THEN secs ELSE ipc.secs
               tx == IF on /\ ~ipc.dummy THEN ipc.turnedOn \cup {ipc.peer} ELSE ipc.turnedOn
    <3>1. ipc' = [ipc EXCEPT !.pkaOn = on, !.secs = sx, !.turnedOn = tx] BY <2>1
    <3>2. sx \in Intervals \cup {0} /\ tx \subseteq Peer BY <2>2, IpcType DEF Ipc
    <3> HIDE DEF sx, tx
    <3> QED BY <3>1, <3>2, <2>2, IpcType DEF Ipc
  <2>4. /\ ipc'.pc = ipc.pc /\ ipc'.peer = ipc.peer /\ ipc'.dummy = ipc.dummy /\ ipc'.named = ipc.named
        /\ ipc'.result = ipc.result
    BY <2>1, IpcType DEF Ipc
  <2>5. interval' \in [Peer -> Intervals \cup {0}] BY <2>1, <2>2, IpcType
  <2> QED BY <2>1, <2>3, <2>4, <2>5, <1>r, StillSettled DEF Rest, CurrentOK, NamedRun, AcceptedPeersRun, Unstarted
<1>13. CASE UNCHANGED <<ipc, keyMap, running, interval, identity, state>>
  BY <1>13, <1>r, StillSettled DEF Rest, CurrentOK, NamedRun, AcceptedPeersRun, Unstarted
<1>14. (\E p \in AllowedIp : AllowedIpLine(p) \/ NotAllowedIpLine(p)) \/ ReplaceAllowedIpsLine
         => UNCHANGED <<ipc, keyMap, running, interval, identity, state>>
  BY DEF AllowedIpLine, NotAllowedIpLine, ReplaceAllowedIpsLine
<1> QED BY <1>1, <1>2, <1>3, <1>4, <1>5, <1>6, <1>7, <1>8, <1>9, <1>10, <1>11, <1>12, <1>13, <1>14
        DEF Next, DeviceLine, PeerLine

\* The invariant is inductive.
LEMMA NextIInv == IInv /\ [Next]_vars => IInv'
<1> SUFFICES ASSUME IInv, [Next]_vars PROVE IInv' OBVIOUS
<1>1. TableOK' BY NextTableOK
<1>2. Rest' BY NextRest
<1> QED BY <1>1, <1>2 DEF IInv, TypeOK, TableOK, Rest, WellFormed, Linked

-------------------------------------------------------------------------------
(* The properties. *)

\* EntriesForPeer shows the nodes of the peer.
LEMMA EntriesAre ==
    ASSUME NEW t, WellFormed(t), NEW p \in Peer
    PROVE  {EntriesForPeer(t, p)[i] : i \in DOMAIN EntriesForPeer(t, p)} = Owned(t, p)
<1>1. ListIs(t.entries[p], Owned(t, p)) BY ListedIs DEF WellFormed, Linked
<1>2. DOMAIN t.entries[p] = 1 .. Len(t.entries[p]) BY <1>1, LenProperties DEF ListIs
<1> QED BY <1>1, <1>2 DEF ListIs, Elements, EntriesForPeer

\* The invariant says what TrieShape says ...
LEMMA ShapeFromIInv == IInv => TrieShape
<1> SUFFICES ASSUME IInv PROVE TrieShape OBVIOUS
<1> DEFINE t == allowedips
<1>1. Linked(t) /\ Forked(t) /\ Alloc(t) \subseteq Node BY TableType DEF IInv, WellFormed, Linked
<1>2. \A at : FieldHolds(at) = Field(t, at) BY DEF FieldHolds, Field
<1> SUFFICES ASSUME NEW n \in Alloc(t)
             PROVE  /\ FieldHolds(Par(t, n)) = n
                    /\ \A b \in Bit : t.node[n].child[b] # Nil =>
                          /\ t.node[n].child[b] \in Alloc(t)
                          /\ t.node[t.node[n].child[b]].parent = ChildOf(n, b)
                          /\ t.node[n].child[b].cidr > n.cidr
                          /\ t.node[n].child[b].bits[n.cidr + 1] = b
                          /\ commonBits(t.node[n].child[b].bits, n.bits) >= n.cidr
                    /\ Own(t, n) = Nil => \A b \in Bit : t.node[n].child[b] # Nil
  BY DEF TrieShape, AllocatedNode, Alloc, Par, Own
<1>3. FieldHolds(Par(t, n)) = n BY <1>1, <1>2 DEF Linked, UpLinked
<1>4. ASSUME NEW b \in Bit, t.node[n].child[b] # Nil
      PROVE  LET c == t.node[n].child[b] IN
             /\ c \in Alloc(t) /\ t.node[c].parent = ChildOf(n, b) /\ c.cidr > n.cidr
             /\ c.bits[n.cidr + 1] = b /\ commonBits(c.bits, n.bits) >= n.cidr
  <2> DEFINE c == t.node[n].child[b]
  <2>1. /\ c \in Alloc(t) /\ Par(t, c) = ChildOf(n, b) /\ c.cidr > n.cidr
        /\ Covers(n, c.bits) /\ c.bits[n.cidr + 1] = b
    BY <1>1, <1>4, ChildFits
  <2> HIDE DEF c
  <2>2. c.bits \in Address /\ n.bits \in Address /\ n.cidr \in Cidr BY <2>1, <1>1, NodeType
  <2>3. Agree(c.bits, n.bits, n.cidr) BY <2>1 DEF Covers, Agree
  <2>4. commonBits(c.bits, n.bits) >= n.cidr BY <2>2, <2>3, CommonBits
  <2> QED BY <2>1, <2>4 DEF c, Par
<1>5. Own(t, n) = Nil => \A b \in Bit : t.node[n].child[b] # Nil
  BY <1>1, ChildPointer DEF Forked, Fork
<1> QED BY <1>3, <1>4, <1>5

\* The nodes that match an address, as the lists of the peers show them.
LEMMA MatchingIs ==
    ASSUME WellFormed(allowedips), NEW family \in Family, NEW ip \in Address
    PROVE  Matching(family, ip) = Match(allowedips, family, ip)
<1> DEFINE t == allowedips
<1>1. \A p \in Peer : Entries(p) = Owned(t, p) BY EntriesAre DEF Entries
<1>2. \A n \in Alloc(t) : n \in Node /\ Own(t, n) \in Peer \cup {Nil} BY TableType DEF WellFormed, Linked
<1>3. \A n \in Alloc(t) : commonBits(n.bits, ip) >= n.cidr <=> Covers(n, ip)
  BY <1>2, NodeType, CommonBits DEF Covers
<1>4. \A n : n \in UNION {Entries(p) : p \in Peer} <=> n \in Alloc(t) /\ Own(t, n) # Nil
  <2>1. \A n : n \in UNION {Entries(p) : p \in Peer} <=> \E p \in Peer : n \in Owned(t, p) BY <1>1
  <2> QED BY <2>1, <1>2, NilAssumption DEF Owned
<1> QED BY <1>3, <1>4 DEF Matching, Match

\* Of the nodes that match an address one is the longest.
LEMMA OneLongest ==
    ASSUME NEW t, Linked(t), NEW family, NEW ip \in Address,
           NEW n \in Match(t, family, ip), NEW m \in Match(t, family, ip),
           \A o \in Match(t, family, ip) : o.cidr <= n.cidr,
           \A o \in Match(t, family, ip) : o.cidr <= m.cidr
    PROVE  n = m
<1>1. n \in Node /\ m \in Node /\ n.family = m.family /\ Covers(n, ip) /\ Covers(m, ip)
  BY TableType DEF Match, Linked
<1>2. n.cidr \in Nat /\ m.cidr \in Nat /\ m.bits \in Address BY <1>1, NodeType
<1>3. n.cidr = m.cidr BY <1>2
<1>4. Covers(n, m.bits) BY <1>1, <1>2, <1>3 DEF Covers, Agree
<1> QED BY <1>1, <1>3, <1>4, SameNode

\* ... that Lookup returns the owner of the longest prefix ...
LEMMA LongestFromIInv == IInv => LongestPrefixWins
<1> SUFFICES ASSUME IInv, NEW family \in Family, NEW ip \in Address
             PROVE  LET matching == Matching(family, ip)
                        longest == CHOOSE n \in matching : \A o \in matching : o.cidr <= n.cidr
                    IN Lookup(allowedips, family, ip) =
                           IF matching = {} THEN Nil ELSE CHOOSE p \in Peer : longest \in Entries(p)
  BY DEF LongestPrefixWins
<1> DEFINE t == allowedips
           S == Match(t, family, ip)
           longest == CHOOSE n \in S : \A o \in S : o.cidr <= n.cidr
<1>1. WellFormed(t) /\ Linked(t) BY DEF IInv, WellFormed
<1>2. Matching(family, ip) = S BY <1>1, MatchingIs
<1>3. HasLongest(t, S, Lookup(t, family, ip)) BY <1>1, LookupFindsLongest
<1>4. CASE S = {} BY <1>2, <1>3, <1>4 DEF HasLongest
<1>5. CASE S # {}
  <2>1. PICK n \in S : Lookup(t, family, ip) = Own(t, n) /\ \A o \in S : o.cidr <= n.cidr
    BY <1>3, <1>5 DEF HasLongest
  <2>2. longest \in S /\ \A o \in S : o.cidr <= longest.cidr
    <3> HIDE DEF S
    <3> QED BY <2>1
  <2> HIDE DEF longest
  <2>3. longest = n BY <2>1, <2>2, <1>1, OneLongest
  <2>4. n \in Alloc(t) /\ Own(t, n) \in Peer BY <1>1, TableType DEF Match, Linked
  <2>5. \A p \in Peer : n \in Entries(p) <=> p = Own(t, n)
    <3>1. \A p \in Peer : Entries(p) = Owned(t, p) BY <1>1, EntriesAre DEF Entries
    <3> QED BY <3>1, <2>4 DEF Owned
  <2>6. (CHOOSE p \in Peer : longest \in Entries(p)) = Own(t, n)
    <3> DEFINE q == CHOOSE p \in Peer : longest \in Entries(p)
    <3>1. q \in Peer /\ longest \in Entries(q) BY <2>3, <2>4, <2>5
    <3> HIDE DEF q
    <3>2. q = Own(t, n) BY <3>1, <2>3, <2>5
    <3> QED BY <3>2 DEF q
  <2> HIDE DEF S
  <2> QED BY <1>2, <1>5, <2>1, <2>6 DEF longest
<1> QED BY <1>4, <1>5

\* ... and that this owner is configured.
LEMMA ConfiguredFromIInv == IInv => RoutesToConfiguredPeers
<1> SUFFICES ASSUME IInv, NEW family \in Family, NEW ip \in Address
             PROVE  Lookup(allowedips, family, ip) \in keyMap \cup {Nil}
  BY DEF RoutesToConfiguredPeers
<1> DEFINE t == allowedips
           S == Match(t, family, ip)
<1>1. WellFormed(t) /\ Linked(t) BY DEF IInv, WellFormed
<1>2. HasLongest(t, S, Lookup(t, family, ip)) BY <1>1, LookupFindsLongest
<1>3. CASE Lookup(t, family, ip) = Nil BY <1>3
<1>4. CASE Lookup(t, family, ip) # Nil
  <2>1. PICK n \in S : Lookup(t, family, ip) = Own(t, n) BY <1>2, <1>4 DEF HasLongest
  <2>2. n \in Alloc(t) /\ Own(t, n) \in Peer BY <1>1, TableType DEF Match, Linked
  <2>3. n \in Owned(t, Own(t, n)) BY <2>2 DEF Owned
  <2> QED BY <2>1, <2>2, <2>3 DEF IInv, OnlyConfigured
<1> QED BY <1>3, <1>4

-------------------------------------------------------------------------------
(* The refinement of RoutingTable. *)

OwnerOf(t) == [n \in Named |-> IF \E p \in Peer : n \in Owned(t, p)
                               THEN CHOOSE p \in Peer : n \in Owned(t, p) ELSE Nil]

\* The owner of a prefix is the one peer that has its node.
LEMMA OwnerIs ==
    ASSUME NEW t, NEW n \in Named
    PROVE  /\ OwnerOf(t)[n] \in Peer \cup {Nil}
           /\ \A p \in Peer : OwnerOf(t)[n] = p <=> n \in Owned(t, p)
<1>1. \A p, q \in Peer : n \in Owned(t, p) /\ n \in Owned(t, q) => p = q BY DEF Owned
<1>2. OwnerOf(t)[n] = IF \E p \in Peer : n \in Owned(t, p) THEN CHOOSE p \in Peer : n \in Owned(t, p) ELSE Nil
  BY DEF OwnerOf
<1>3. CASE \E p \in Peer : n \in Owned(t, p) BY <1>1, <1>2, <1>3
<1>4. CASE ~\E p \in Peer : n \in Owned(t, p) BY <1>2, <1>4, NilAssumption
<1> QED BY <1>3, <1>4

\* The owner of a prefix is known by its node.
LEMMA SameOwner ==
    ASSUME NEW t, NEW n \in Named, NEW x \in Peer \cup {Nil}, \A p \in Peer : x = p <=> n \in Owned(t, p)
    PROVE  OwnerOf(t)[n] = x
BY OwnerIs, NilAssumption

\* How one step can change the owners of prefixes.
TableStep ==
    \/ allowedips' = allowedips
    \/ \E peers \in SUBSET Peer : Freed(allowedips, allowedips', peers)
    \/ /\ ipc.peer \in Peer
       /\ \E n \in Named : \/ Given(allowedips, allowedips', n, ipc.peer)
                           \/ n \in Owned(allowedips, ipc.peer) /\ Taken(allowedips, allowedips', n)

\* Every action changes the table in one of these ways.
LEMMA NextTableStep == ASSUME IInv, [Next]_vars PROVE TableStep
<1> USE DEF IInv
<1>1. ASSUME NEW peers \in SUBSET keyMap, removePeerLocked(peers) PROVE TableStep
  <2>1. Freed(allowedips, allowedips', peers) BY <1>1, RemoveFacts
  <2>2. peers \in SUBSET Peer BY DEF TypeOK
  <2> QED BY <2>1, <2>2 DEF TableStep
<1>2. ASSUME NEW p, RemovePeer(p) PROVE TableStep
  <2>1. {p} \cap keyMap \in SUBSET keyMap /\ removePeerLocked({p} \cap keyMap) BY <1>2 DEF RemovePeer
  <2> QED BY <2>1, <1>1
<1>3. ASSUME ReplacePeersLine PROVE TableStep
  <2>1. keyMap \in SUBSET keyMap /\ removePeerLocked(keyMap) BY <1>3 DEF ReplacePeersLine, RemoveAllPeers
  <2> QED BY <2>1, <1>1
<1>4. ASSUME ReplaceAllowedIpsLine, ~ipc.dummy PROVE TableStep
  <2>1. ipc.peer \in Peer BY <1>4 DEF ReplaceAllowedIpsLine, CurrentOK
  <2>2. allowedips' = RemoveByPeer(allowedips, ipc.peer) BY <1>4 DEF ReplaceAllowedIpsLine
  <2>3. Freed(allowedips, allowedips', {ipc.peer}) BY <2>1, <2>2, RemoveByPeerWF
  <2>4. {ipc.peer} \in SUBSET Peer BY <2>1
  <2> QED BY <2>3, <2>4 DEF TableStep
<1>5. ASSUME NEW p \in AllowedIp, AllowedIpLine(p), ~ipc.dummy PROVE TableStep
  <2>1. ipc.peer \in Peer /\ p.family \in Family /\ p.ip \in Address /\ p.cidr \in Cidr
    BY <1>5, PrefixAssumption DEF AllowedIpLine, CurrentOK
  <2>2. allowedips' = Insert(allowedips, p.family, p.ip, p.cidr, ipc.peer) BY <1>5 DEF AllowedIpLine
  <2>3. Given(allowedips, allowedips', NodeOf(p.family, p.ip, p.cidr), ipc.peer) BY <2>1, <2>2, InsertWF
  <2>4. NodeOf(p.family, p.ip, p.cidr) \in Named BY DEF Named
  <2> QED BY <2>1, <2>3, <2>4 DEF TableStep
<1>6. ASSUME NEW p \in AllowedIp, NotAllowedIpLine(p), ~ipc.dummy PROVE TableStep
  <2>1. ipc.peer \in Peer /\ p.family \in Family /\ p.ip \in Address /\ p.cidr \in Cidr
    BY <1>6, PrefixAssumption DEF NotAllowedIpLine, CurrentOK
  <2> DEFINE n == NodeOf(p.family, p.ip, p.cidr)
  <2>2. allowedips' = RemovePrefix(allowedips, p.family, p.ip, p.cidr, ipc.peer) BY <1>6 DEF NotAllowedIpLine
  <2>3. allowedips' = allowedips \/ (n \in Owned(allowedips, ipc.peer) /\ Taken(allowedips, allowedips', n))
    BY <2>1, <2>2, RemovePrefixWF
  <2>4. n \in Named BY DEF Named
  <2> HIDE DEF n
  <2> QED BY <2>1, <2>3, <2>4 DEF TableStep
<1>7. ASSUME allowedips' = allowedips PROVE TableStep BY <1>7 DEF TableStep
<1>8. [Next]_vars =>
         \/ allowedips' = allowedips \/ \E p : RemovePeer(p)
         \/ ReplacePeersLine \/ (ReplaceAllowedIpsLine /\ ~ipc.dummy)
         \/ \E p \in AllowedIp : (AllowedIpLine(p) \/ NotAllowedIpLine(p)) /\ ~ipc.dummy
  <2> SUFFICES ASSUME [Next]_vars, allowedips' # allowedips
               PROVE  \/ \E p : RemovePeer(p)
                      \/ ReplacePeersLine \/ (ReplaceAllowedIpsLine /\ ~ipc.dummy)
                      \/ \E p \in AllowedIp : (AllowedIpLine(p) \/ NotAllowedIpLine(p)) /\ ~ipc.dummy
    OBVIOUS
  <2>1. ~Up /\ ~UpPeers /\ ~UpFails /\ ~Down /\ ~DownPeers /\ ~BeginSet /\ ~EndSet /\ ~InvalidLine /\ ~UNCHANGED vars
        /\ (\A key \in Peer : ~PublicKeyLine(key)) /\ (\A secs \in Intervals : ~PersistentKeepaliveLine(secs))
    BY DEF Up, UpPeers, UpFails, Down, DownPeers, BeginSet, EndSet, InvalidLine, vars, PublicKeyLine, PersistentKeepaliveLine
  <2>2. \A key \in Peer : PrivateKeyLine(key) => RemovePeer(key) BY DEF PrivateKeyLine, SetPrivateKey
  <2>3. UpdateOnlyLine => RemovePeer(ipc.peer) BY DEF UpdateOnlyLine
  <2>4. RemoveLine => RemovePeer(ipc.peer) BY DEF RemoveLine
  <2>5. ReplaceAllowedIpsLine => ~ipc.dummy BY DEF ReplaceAllowedIpsLine
  <2>6. \A p \in AllowedIp : AllowedIpLine(p) \/ NotAllowedIpLine(p) => ~ipc.dummy
    BY DEF AllowedIpLine, NotAllowedIpLine
  <2> QED BY <2>1, <2>2, <2>3, <2>4, <2>5, <2>6 DEF Next, DeviceLine, PeerLine
<1> QED BY <1>2, <1>3, <1>4, <1>5, <1>6, <1>7, <1>8

\* Each of them is a step of RoutingTable: Claim, GiveUp or Leave, or none.
LEMMA OwnerStep == ASSUME IInv, IInv', [Next]_vars PROVE [Routes!Next]_Owner
<1> DEFINE t == allowedips
           u == allowedips'
<1>1. Owner = OwnerOf(t)
  <2>1. \A p \in Peer : Entries(p) = Owned(t, p) BY EntriesAre DEF Entries, IInv
  <2> QED BY <2>1 DEF Owner, OwnerOf
<1>2. Owner' = OwnerOf(u)
  <2>1. WellFormed(u) BY DEF IInv
  <2>2. \A p \in Peer : Entries(p)' = Owned(u, p) BY <2>1, EntriesAre DEF Entries
  <2> QED BY <2>2 DEF Owner, OwnerOf
<1>3. DOMAIN OwnerOf(t) = Named /\ DOMAIN OwnerOf(u) = Named BY DEF OwnerOf
<1>f. OwnerOf(t) = [m \in Named |-> OwnerOf(t)[m]] /\ OwnerOf(u) = [m \in Named |-> OwnerOf(u)[m]] BY DEF OwnerOf
<1>4. TableStep BY NextTableStep
<1>5. CASE allowedips' = allowedips BY <1>5, <1>1, <1>2
<1>6. ASSUME NEW peers \in SUBSET Peer, Freed(t, u, peers) PROVE Routes!Leave(peers)
  <2>1. \A m \in Named : OwnerOf(u)[m] = IF OwnerOf(t)[m] \in peers THEN Nil ELSE OwnerOf(t)[m]
    <3> TAKE m \in Named
    <3> DEFINE x == IF OwnerOf(t)[m] \in peers THEN Nil ELSE OwnerOf(t)[m]
    <3>1. x \in Peer \cup {Nil} BY OwnerIs
    <3>2. \A p \in Peer : x = p <=> m \in Owned(u, p)
      <4> TAKE p \in Peer
      <4>1. Owned(u, p) = IF p \in peers THEN {} ELSE Owned(t, p) BY <1>6 DEF Freed
      <4>2. OwnerOf(t)[m] = p <=> m \in Owned(t, p) BY OwnerIs
      <4> QED BY <4>1, <4>2, NilAssumption
    <3> HIDE DEF x
    <3>3. OwnerOf(u)[m] = x BY <3>1, <3>2, SameOwner
    <3> QED BY <3>3 DEF x
  <2>2. OwnerOf(u) = [m \in Named |-> IF OwnerOf(t)[m] \in peers THEN Nil ELSE OwnerOf(t)[m]]
    BY <2>1, <1>f
  <2> QED BY <2>2, <1>1, <1>2 DEF Routes!Leave
<1>7. ASSUME NEW n \in Named, ipc.peer \in Peer, Given(t, u, n, ipc.peer) PROVE Routes!Claim(n)
  <2>1. \A m \in Named : OwnerOf(u)[m] = IF m = n THEN ipc.peer ELSE OwnerOf(t)[m]
    <3> TAKE m \in Named
    <3> DEFINE x == IF m = n THEN ipc.peer ELSE OwnerOf(t)[m]
    <3>1. x \in Peer \cup {Nil} BY <1>7, OwnerIs
    <3>2. \A p \in Peer : x = p <=> m \in Owned(u, p)
      <4> TAKE p \in Peer
      <4>1. Owned(u, p) = IF p = ipc.peer THEN Owned(t, p) \cup {n} ELSE Owned(t, p) \ {n} BY <1>7 DEF Given
      <4>2. OwnerOf(t)[m] = p <=> m \in Owned(t, p) BY OwnerIs
      <4> QED BY <4>1, <4>2
    <3> HIDE DEF x
    <3>3. OwnerOf(u)[m] = x BY <3>1, <3>2, SameOwner
    <3> QED BY <3>3 DEF x
  <2>2. OwnerOf(u) = [OwnerOf(t) EXCEPT ![n] = ipc.peer] BY <2>1, <1>f
  <2> QED BY <2>2, <1>1, <1>2 DEF Routes!Claim
<1>8. ASSUME NEW n \in Named, ipc.peer \in Peer, n \in Owned(t, ipc.peer), Taken(t, u, n) PROVE Routes!GiveUp(n)
  <2>0. OwnerOf(t)[n] = ipc.peer BY <1>8, OwnerIs
  <2>1. \A m \in Named : OwnerOf(u)[m] = IF m = n THEN Nil ELSE OwnerOf(t)[m]
    <3> TAKE m \in Named
    <3> DEFINE x == IF m = n THEN Nil ELSE OwnerOf(t)[m]
    <3>1. x \in Peer \cup {Nil} BY OwnerIs
    <3>2. \A p \in Peer : x = p <=> m \in Owned(u, p)
      <4> TAKE p \in Peer
      <4>1. Owned(u, p) = Owned(t, p) \ {n} BY <1>8 DEF Taken
      <4>2. OwnerOf(t)[m] = p <=> m \in Owned(t, p) BY OwnerIs
      <4> QED BY <4>1, <4>2, NilAssumption
    <3> HIDE DEF x
    <3>3. OwnerOf(u)[m] = x BY <3>1, <3>2, SameOwner
    <3> QED BY <3>3 DEF x
  <2>2. OwnerOf(u) = [OwnerOf(t) EXCEPT ![n] = Nil] BY <2>1, <1>f
  <2> QED BY <2>0, <2>2, <1>1, <1>2 DEF Routes!GiveUp
<1>9. CASE \E peers \in SUBSET Peer : Freed(t, u, peers) BY <1>6, <1>9 DEF Routes!Next
<1>10. CASE /\ ipc.peer \in Peer
            /\ \E n \in Named : \/ Given(t, u, n, ipc.peer)
                                \/ n \in Owned(t, ipc.peer) /\ Taken(t, u, n)
  BY <1>7, <1>8, <1>10 DEF Routes!Next
<1> QED BY <1>4, <1>5, <1>9, <1>10 DEF TableStep

\* At first no prefix has an owner.
LEMMA OwnerInit == ASSUME Init PROVE Routes!Init
<1>1. WellFormed(allowedips) /\ \A p \in Peer : Owned(allowedips, p) = {} BY EmptyWF DEF Init
<1>2. \A p \in Peer : Entries(p) = {} BY <1>1, EntriesAre DEF Entries
<1>3. Owner = [n \in Named |-> Nil] BY <1>2 DEF Owner
<1> QED BY <1>3 DEF Routes!Init

-------------------------------------------------------------------------------

\* In every sequence of set operations, valid or not, of Up and of Down, the trie
\* is in order, only configured peers have prefixes, and the peers an operation
\* has named so far run, but for the one at hand, which handlePostConfig starts.
THEOREM PeerConfigInvariant == Spec => []IInv
BY InitIInv, NextIInv, PTL DEF Spec

\* The device, its peers and the trie keep their types.
THEOREM PeerConfigTypes == Spec => []TypeOK
<1>1. IInv => TypeOK BY DEF IInv
<1> QED BY <1>1, PeerConfigInvariant, PTL

\* insert and remove in allowedips.go keep the trie one: parent pointers and child
\* fields are inverse, prefixes grow downwards on their side, and a node without a
\* peer has two children.  For any address width and any prefixes and peers.
THEOREM TrieKeepsShape == Spec => []TrieShape
BY ShapeFromIInv, PeerConfigInvariant, PTL

\* Lookup in allowedips.go returns the peer of the longest prefix that contains the
\* address, after any sequence of insertions, removals and removed peers.
THEOREM LookupIsLongestPrefix == Spec => []LongestPrefixWins
BY LongestFromIInv, PeerConfigInvariant, PTL

\* Lookup never returns a peer removePeerLocked has taken out of the key map, nor
\* the dummy of a refused peer.
THEOREM RoutesOnlyToConfigured == Spec => []RoutesToConfiguredPeers
BY ConfiguredFromIInv, PeerConfigInvariant, PTL

\* When a set operation on a device that is up has been accepted, every configured
\* peer it named runs: each was started by the handlePostConfig that followed its
\* lines.
THEOREM AcceptedRun == Spec => []AcceptedPeersRun
<1>1. IInv => AcceptedPeersRun BY DEF IInv
<1> QED BY <1>1, PeerConfigInvariant, PTL

\* The trie implements a table from prefixes to owners: each line of uapi.go makes
\* one step of RoutingTable or none, however many nodes it links and unlinks.
THEOREM TableImplementsRoutes == Spec => ImplementsRoutes
<1>1. Init => Routes!Init BY OwnerInit
<1>2. IInv /\ IInv' /\ [Next]_vars => [Routes!Next]_Owner BY OwnerStep
<1> QED BY <1>1, <1>2, PeerConfigInvariant, PTL DEF Spec, ImplementsRoutes, Routes!Spec
===============================================================================
