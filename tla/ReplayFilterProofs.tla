-------------------------- MODULE ReplayFilterProofs --------------------------
(***************************************************************************)
(* The anti-replay filter implements the sliding window for every size of  *)
(* the block and of the ring, every limit and every set of counters.       *)
(***************************************************************************)
EXTENDS ReplayFilter, TLAPS

\* Division with remainder: what Block and Bit make of a counter.
LEMMA Division ==
    ASSUME NEW c \in Nat, NEW d \in Nat \ {0}
    PROVE  /\ c \div d \in Nat /\ c % d \in 0 .. d - 1
           /\ c = (c \div d) * d + (c % d)
  OBVIOUS

\* Among RingBlocks consecutive blocks no two share a slot of the ring.
LEMMA SlotsDistinct ==
    ASSUME NEW R \in Nat \ {0}, NEW j \in Nat, NEW k \in Nat,
           j < k, k - j < R
    PROVE  j % R # k % R
<1> DEFINE qj == j \div R
           qk == k \div R
<1>1. qj \in Nat /\ qk \in Nat /\ j = qj * R + (j % R) /\ k = qk * R + (k % R)
  BY Division
<1>2. j % R \in 0 .. R - 1 /\ k % R \in 0 .. R - 1
  BY Division
<1> HIDE DEF qj, qk
<1>3. SUFFICES ASSUME j % R = k % R PROVE FALSE
  OBVIOUS
<1>4. k - j = qk * R - qj * R
  BY <1>1, <1>2, <1>3
<1>5. CASE qk <= qj
  <2>1. qk * R <= qj * R
    BY <1>5, <1>1
  <2> QED BY <2>1, <1>4, <1>1
<1>6. CASE qk >= qj + 1
  <2>1. qk * R >= (qj + 1) * R
    BY <1>6, <1>1
  <2>2. (qj + 1) * R = qj * R + R
    BY <1>1
  <2> QED BY <2>1, <2>2, <1>4, <1>1
<1> QED BY <1>5, <1>6, <1>1

\* A quotient and a remainder determine each other.
LEMMA DivisionUnique ==
    ASSUME NEW d \in Nat \ {0}, NEW k \in Nat, NEW n \in Nat,
           NEW a \in 0 .. d - 1, NEW b \in 0 .. d - 1,
           k * d + a = n * d + b
    PROVE  k = n /\ a = b
<1>1. CASE k < n
  <2>1. n * d >= (k + 1) * d
    BY <1>1
  <2>2. (k + 1) * d = k * d + d
    OBVIOUS
  <2> QED BY <2>1, <2>2
<1>2. CASE n < k
  <2>1. k * d >= (n + 1) * d
    BY <1>2
  <2>2. (n + 1) * d = n * d + d
    OBVIOUS
  <2> QED BY <2>1, <2>2
<1>3. CASE k = n
  BY <1>3
<1> QED BY <1>1, <1>2, <1>3

\* Moving over RingBlocks blocks empties every slot of the ring.
LEMMA SlotsCovered ==
    ASSUME NEW R \in Nat \ {0}, NEW m \in Nat, NEW s \in 0 .. R - 1
    PROVE  \E i \in m + 1 .. m + R : i % R = s
<1> DEFINE q == (m + R - s) \div R
           i == q * R + s
<1>1. m + R - s \in Nat
  OBVIOUS
<1>2. /\ q \in Nat /\ (m + R - s) % R \in 0 .. R - 1
      /\ m + R - s = q * R + ((m + R - s) % R)
  BY <1>1, Division
<1> HIDE DEF q
<1>3. q * R \in Nat
  BY <1>2
<1>4. i \in m + 1 .. m + R
  BY <1>2, <1>3 DEF i
<1>5. i \div R \in Nat /\ i % R \in 0 .. R - 1 /\ i = (i \div R) * R + (i % R)
  <2>1. i \in Nat
    BY <1>3
  <2> HIDE DEF i
  <2> QED BY <2>1, Division
<1>6. (i \div R) * R + (i % R) = q * R + s
  BY <1>5
<1> HIDE DEF i
<1>7. i % R = s
  <2> DEFINE u == i \div R
             v == i % R
  <2>1. u \in Nat /\ v \in 0 .. R - 1 /\ u * R + v = q * R + s
    BY <1>5, <1>6
  <2> HIDE DEF u, v
  <2>2. v = s
    BY <2>1, <1>2, DivisionUnique
  <2> QED BY <2>2 DEF v
<1> QED BY <1>4, <1>7

-------------------------------------------------------------------------------
(* The invariant.                                                             *)

\* The blocks from the one of the highest counter down, as many as the ring has.
Exact(r, acc, top) ==
    \A k \in 0 .. top : k > top - RingBlocks =>
        \A b \in 0 .. BlockBits - 1 :
            b \in r[Slot(k)] <=> k * BlockBits + b \in acc

Ring == [0 .. RingBlocks - 1 -> SUBSET (0 .. BlockBits - 1)]

Inv == TypeOK /\ accepted \subseteq 0 .. last /\ RingIsExact

\* A block and a bit make up a counter.
LEMMA CounterParts ==
    ASSUME NEW c \in Nat
    PROVE  /\ Block(c) \in Nat /\ Bit(c) \in 0 .. BlockBits - 1
           /\ c = Block(c) * BlockBits + Bit(c)
           /\ Slot(Block(c)) \in 0 .. RingBlocks - 1
<1>1. BlockBits \in Nat \ {0} /\ RingBlocks \in Nat \ {0}
  BY SizeAssumption
<1>2. Block(c) \in Nat /\ Bit(c) \in 0 .. BlockBits - 1
      /\ c = Block(c) * BlockBits + Bit(c)
  BY <1>1, Division DEF Block, Bit
<1>3. Slot(Block(c)) \in 0 .. RingBlocks - 1
  BY <1>1, <1>2, Division DEF Slot
<1> QED BY <1>2, <1>3

\* Block is monotonic, and a counter in a later block is larger.
LEMMA BlockOrder ==
    ASSUME NEW c \in Nat, NEW d \in Nat, c <= d
    PROVE  Block(c) <= Block(d)
<1>1. BlockBits \in Nat \ {0}
  BY SizeAssumption
<1>2. /\ Block(c) \in Nat /\ Bit(c) \in 0 .. BlockBits - 1
      /\ c = Block(c) * BlockBits + Bit(c)
      /\ Block(d) \in Nat /\ Bit(d) \in 0 .. BlockBits - 1
      /\ d = Block(d) * BlockBits + Bit(d)
  BY CounterParts
<1>3. SUFFICES ASSUME Block(c) >= Block(d) + 1 PROVE FALSE
  BY <1>2
<1>4. Block(c) * BlockBits >= (Block(d) + 1) * BlockBits
  BY <1>1, <1>2, <1>3
<1>5. (Block(d) + 1) * BlockBits = Block(d) * BlockBits + BlockBits
  BY <1>1, <1>2
<1>6. Block(d) * BlockBits \in Nat /\ Block(c) * BlockBits \in Nat
  BY <1>1, <1>2
<1> QED BY <1>1, <1>2, <1>4, <1>5, <1>6

\* A counter that is not behind the window lies in a block the ring still has.
LEMMA WindowBlock ==
    ASSUME NEW c \in Nat, last \in Nat, c <= last, ~Behind(c)
    PROVE  Block(c) > Block(last) - RingBlocks
<1>1. BlockBits \in Nat \ {0} /\ RingBlocks \in Nat \ {0}
  BY SizeAssumption
<1>2. /\ Block(c) \in Nat /\ Bit(c) \in 0 .. BlockBits - 1
      /\ c = Block(c) * BlockBits + Bit(c)
      /\ Block(last) \in Nat /\ Bit(last) \in 0 .. BlockBits - 1
      /\ last = Block(last) * BlockBits + Bit(last)
  BY CounterParts
<1>3. last - c <= (RingBlocks - 1) * BlockBits
  <2>1. windowSize \in Int
    BY <1>1 DEF windowSize
  <2> QED BY <2>1 DEF Behind, windowSize
<1>4. SUFFICES ASSUME Block(last) >= Block(c) + RingBlocks PROVE FALSE
  BY <1>1, <1>2
<1>5. Block(last) * BlockBits >= (Block(c) + RingBlocks) * BlockBits
  BY <1>1, <1>2, <1>4
<1>6. (Block(c) + RingBlocks) * BlockBits
          = Block(c) * BlockBits + RingBlocks * BlockBits
  BY <1>1, <1>2
<1>7. (RingBlocks - 1) * BlockBits = RingBlocks * BlockBits - BlockBits
  BY <1>1
<1>8. /\ Block(last) * BlockBits \in Nat /\ Block(c) * BlockBits \in Nat
      /\ RingBlocks * BlockBits \in Nat
  BY <1>1, <1>2
<1> QED BY <1>1, <1>2, <1>3, <1>5, <1>6, <1>7, <1>8

\* Setting a bit in one block and accepting its counter leaves the others exact.
LEMMA SetBitExact ==
    ASSUME NEW r \in Ring, NEW acc \in SUBSET Nat, NEW top \in Nat,
           NEW n \in 0 .. top, n > top - RingBlocks,
           NEW bit \in 0 .. BlockBits - 1,
           Exact(r, acc, top)
    PROVE  Exact([r EXCEPT ![Slot(n)] = @ \cup {bit}],
                 acc \cup {n * BlockBits + bit}, top)
<1>1. BlockBits \in Nat \ {0} /\ RingBlocks \in Nat \ {0}
  BY SizeAssumption
<1> DEFINE r2 == [r EXCEPT ![Slot(n)] = @ \cup {bit}]
           acc2 == acc \cup {n * BlockBits + bit}
<1>2. SUFFICES ASSUME NEW k \in 0 .. top, k > top - RingBlocks,
                      NEW b \in 0 .. BlockBits - 1
               PROVE  b \in r2[Slot(k)] <=> k * BlockBits + b \in acc2
  BY DEF Exact
<1>3. b \in r[Slot(k)] <=> k * BlockBits + b \in acc
  BY <1>2 DEF Exact
<1>4. Slot(k) \in 0 .. RingBlocks - 1 /\ Slot(n) \in 0 .. RingBlocks - 1
  BY <1>1, Division DEF Slot
<1>5. CASE k = n
  <2>1. r2[Slot(k)] = r[Slot(k)] \cup {bit}
    BY <1>4, <1>5 DEF Ring
  <2>2. k * BlockBits + b = n * BlockBits + bit <=> b = bit
    BY <1>1, <1>5, DivisionUnique
  <2> QED BY <2>1, <2>2, <1>3
<1>6. CASE k # n
  <2>1. Slot(k) # Slot(n)
    <3>1. k \in Nat /\ n \in Nat /\ n - k < RingBlocks /\ k - n < RingBlocks
      BY <1>1, <1>2
    <3>2. CASE k < n
      BY <3>1, <3>2, <1>1, SlotsDistinct DEF Slot
    <3>3. CASE n < k
      BY <3>1, <3>3, <1>1, SlotsDistinct DEF Slot
    <3> QED BY <3>1, <3>2, <3>3, <1>6
  <2>2. r2[Slot(k)] = r[Slot(k)]
    BY <2>1, <1>4 DEF Ring
  <2>3. k * BlockBits + b # n * BlockBits + bit
    BY <1>1, <1>6, DivisionUnique
  <2> QED BY <2>2, <2>3, <1>3
<1> QED BY <1>5, <1>6

\* Moving the window forward empties the blocks it enters and no other that it
\* still has.
LEMMA MovedExact ==
    ASSUME Inv, NEW c \in Nat, c > last
    PROVE  Moved(c) \in Ring /\ Exact(Moved(c), accepted, Block(c))
<1>1. BlockBits \in Nat \ {0} /\ RingBlocks \in Nat \ {0}
  BY SizeAssumption
<1>2. last \in Nat /\ ring \in Ring /\ accepted \subseteq 0 .. last
  BY DEF Inv, TypeOK, Ring
<1> DEFINE m == Block(last)
           n == Block(c)
           diff == IF n - m > RingBlocks THEN RingBlocks ELSE n - m
<1>3. m \in Nat /\ n \in Nat /\ m <= n
  BY <1>2, CounterParts, BlockOrder
<1>4. Moved(c) = [b \in 0 .. RingBlocks - 1 |->
                    IF \E i \in m + 1 .. m + diff : Slot(i) = b THEN {} ELSE ring[b]]
  BY <1>2 DEF Moved, Ring
<1>5. Exact(ring, accepted, m)
  BY DEF Inv, RingIsExact, Exact
<1>6. /\ last = m * BlockBits + Bit(last) /\ Bit(last) \in 0 .. BlockBits - 1
  BY <1>2, CounterParts
<1> HIDE DEF m, n
<1>7. Moved(c) \in Ring
  <2> HIDE DEF diff
  <2> QED BY <1>2, <1>4 DEF Ring
<1>8. ASSUME NEW k \in 0 .. n, k > n - RingBlocks, NEW b \in 0 .. BlockBits - 1
      PROVE  b \in Moved(c)[Slot(k)] <=> k * BlockBits + b \in accepted
  <2>1. k \in Nat /\ Slot(k) \in 0 .. RingBlocks - 1
    BY <1>1, <1>3, Division DEF Slot
  <2>2. CASE k <= m
    <3>1. diff = n - m
      BY <2>1, <2>2, <1>1, <1>3, <1>8
    <3>2. ASSUME NEW i \in m + 1 .. m + diff PROVE Slot(i) # Slot(k)
      <4>1. i \in Nat /\ k < i /\ i - k < RingBlocks
        BY <3>1, <2>1, <2>2, <1>1, <1>3, <1>8
      <4> QED BY <4>1, <2>1, <1>1, SlotsDistinct DEF Slot
    <3>3. Moved(c)[Slot(k)] = ring[Slot(k)]
      BY <3>2, <2>1, <1>4
    <3>4. k \in 0 .. m /\ k > m - RingBlocks
      BY <2>1, <2>2, <1>1, <1>3, <1>8
    <3> QED BY <3>3, <3>4, <1>5 DEF Exact
  <2>3. CASE k > m
    <3>1. \E i \in m + 1 .. m + diff : Slot(i) = Slot(k)
      <4>1. CASE n - m > RingBlocks
        BY <4>1, <2>1, <1>1, <1>3, SlotsCovered DEF Slot
      <4>2. CASE ~(n - m > RingBlocks)
        <5>1. k \in m + 1 .. m + diff
          BY <4>2, <2>1, <2>3, <1>1, <1>3
        <5> QED BY <5>1
      <4> QED BY <4>1, <4>2
    <3>2. Moved(c)[Slot(k)] = {}
      BY <3>1, <2>1, <1>4
    <3>3. k * BlockBits >= (m + 1) * BlockBits
      BY <2>1, <2>3, <1>1, <1>3
    <3>4. (m + 1) * BlockBits = m * BlockBits + BlockBits
      BY <1>1, <1>3
    <3>5. m * BlockBits \in Nat /\ k * BlockBits \in Nat
      BY <2>1, <1>1, <1>3
    <3>6. k * BlockBits + b > last
      BY <3>3, <3>4, <3>5, <1>1, <1>6
    <3> QED BY <3>2, <3>5, <3>6, <1>2
  <2> QED BY <2>2, <2>3, <2>1, <1>3
<1> QED BY <1>7, <1>8 DEF Exact, n

\* ValidateCounter knows exactly whether the counter was accepted before.
LEMMA CheckAndSetBitStep ==
    ASSUME Inv, NEW c \in Counter, CheckAndSetBit(c)
    PROVE  Inv' /\ Abstract!Next
<1>1. BlockBits \in Nat \ {0} /\ RingBlocks \in Nat \ {0} /\ c \in Nat
  BY SizeAssumption
<1>2. last \in Nat /\ ring \in Ring /\ accepted \subseteq 0 .. last
      /\ verdict \in BOOLEAN
  BY DEF Inv, TypeOK, Ring
<1> DEFINE r == IF c > last THEN Moved(c) ELSE ring
           top == IF c > last THEN c ELSE last
           n == Block(c)
           old == r[Slot(n)]
<1>3. r \in Ring /\ Exact(r, accepted, Block(top))
  <2>1. CASE c > last
    BY <2>1, <1>1, MovedExact
  <2>2. CASE ~(c > last)
    BY <2>2, <1>2 DEF Inv, RingIsExact, Exact
  <2> QED BY <2>1, <2>2
<1>4. /\ last' = top
      /\ ring' = [r EXCEPT ![Slot(n)] = old \cup {Bit(c)}]
      /\ verdict' = (Bit(c) \notin old)
      /\ accepted' = IF Bit(c) \in old THEN accepted ELSE accepted \cup {c}
      /\ ~Overlimit(c) /\ ~Behind(c)
  BY DEF CheckAndSetBit
<1>5. top \in Nat /\ c <= top /\ last <= top
  BY <1>1, <1>2
<1>6. /\ n \in 0 .. Block(top) /\ n > Block(top) - RingBlocks
      /\ Block(top) \in Nat
  <2>1. n \in Nat /\ Block(top) \in Nat /\ n <= Block(top)
    BY <1>1, <1>5, CounterParts, BlockOrder
  <2>2. CASE c > last
    BY <2>1, <2>2, <1>1
  <2>3. CASE ~(c > last)
    BY <2>1, <2>3, <1>1, <1>2, <1>4, WindowBlock
  <2> QED BY <2>1, <2>2, <2>3
<1>7. /\ Bit(c) \in 0 .. BlockBits - 1 /\ c = n * BlockBits + Bit(c)
      /\ Slot(n) \in 0 .. RingBlocks - 1
  BY <1>1, CounterParts
<1> HIDE DEF r, n, top
<1>8. Bit(c) \in old <=> c \in accepted
  BY <1>3, <1>6, <1>7 DEF Exact
<1>9. accepted' = accepted \cup {c}
  BY <1>4, <1>8
<1>10. Inv'
  <2>1. ring' \in Ring
    BY <1>3, <1>4, <1>7 DEF Ring
  <2>2. accepted' \subseteq 0 .. last'
    BY <1>1, <1>2, <1>4, <1>5, <1>9
  <2>3. Exact(ring', accepted', Block(top))
    <3>1. accepted \in SUBSET Nat
      BY <1>2
    <3>2. Exact([r EXCEPT ![Slot(n)] = @ \cup {Bit(c)}],
                accepted \cup {n * BlockBits + Bit(c)}, Block(top))
      BY <3>1, <1>3, <1>6, <1>7, SetBitExact
    <3>3. /\ ring' = [r EXCEPT ![Slot(n)] = @ \cup {Bit(c)}]
          /\ accepted' = accepted \cup {n * BlockBits + Bit(c)}
      BY <1>4, <1>7, <1>9
    <3> QED BY <3>2, <3>3
  <2>4. RingIsExact'
    BY <2>3, <1>4 DEF Exact, RingIsExact, Slot, Block
  <2>5. TypeOK'
    BY <2>1, <2>2, <1>2, <1>4, <1>5 DEF TypeOK, Ring
  <2> QED BY <2>2, <2>4, <2>5 DEF Inv
<1>11. Abstract!Next
  <2>1. c < Limit
    BY <1>1, <1>4, SizeAssumption DEF Overlimit
  <2>2. windowSize \in Nat /\ last <= c + windowSize
    BY <1>1, <1>2, <1>4 DEF Behind, windowSize
  <2>3. CASE c \in accepted
    <3>1. Abstract!Reject(c)
      <4>1. last' = last /\ accepted' = accepted
        BY <2>3, <1>2, <1>4, <1>1, <1>9 DEF top
      <4>2. verdict' = FALSE
        BY <2>3, <1>4, <1>8
      <4> QED BY <4>1, <4>2, <2>3 DEF Abstract!Reject, Abstract!Fresh
    <3> QED BY <3>1 DEF Abstract!Next
  <2>4. CASE c \notin accepted
    <3>1. Abstract!Accept(c)
      <4>1. verdict' = TRUE
        BY <2>4, <1>4, <1>8
      <4> QED BY <4>1, <2>1, <2>2, <2>4, <1>4, <1>9
              DEF Abstract!Accept, Abstract!Fresh, top
    <3> QED BY <3>1 DEF Abstract!Next
  <2> QED BY <2>3, <2>4
<1> QED BY <1>10, <1>11

\* Every step keeps the invariant and is a step of the sliding window.
LEMMA FilterStep ==
    ASSUME Inv, [Next]_vars
    PROVE  Inv' /\ [Abstract!Next]_(Abstract!vars)
<1>1. CASE UNCHANGED vars
  BY <1>1 DEF vars, Abstract!vars, Inv, TypeOK, RingIsExact
<1>2. CASE Reset
  <2>1. BlockBits \in Nat \ {0} /\ RingBlocks \in Nat \ {0}
    BY SizeAssumption
  <2>2. Block(0) = 0 /\ Slot(0) = 0
    BY <2>1 DEF Block, Slot
  <2>3. ring' = [ring EXCEPT ![0] = {}] /\ last' = 0 /\ accepted' = {}
        /\ verdict' = verdict
    BY <1>2 DEF Reset
  <2>4. TypeOK'
    BY <2>1, <2>3 DEF Inv, TypeOK
  <2>5. ring'[0] = {}
    BY <2>1, <2>3 DEF Inv, TypeOK
  <2>6. RingIsExact'
    BY <2>2, <2>3, <2>5 DEF RingIsExact
  <2>7. Abstract!Next
    BY <2>3 DEF Abstract!Next, Abstract!Reset
  <2> QED BY <2>3, <2>4, <2>6, <2>7 DEF Inv
<1>3. ASSUME NEW c \in Counter, RejectCounter(c)
      PROVE  Inv' /\ Abstract!Next
  <2>1. verdict' = FALSE /\ last' = last /\ ring' = ring /\ accepted' = accepted
    BY <1>3 DEF RejectCounter
  <2>2. Inv'
    BY <2>1 DEF Inv, TypeOK, RingIsExact
  <2>3. ~Abstract!Fresh(c)
    <3>1. /\ c \in Nat /\ last \in Nat /\ BlockBits \in Nat \ {0}
          /\ RingBlocks \in Nat \ {0} /\ Limit \in Nat
      BY SizeAssumption DEF Inv, TypeOK
    <3>2. windowSize \in Nat
      BY <3>1 DEF windowSize
    <3> QED BY <3>1, <3>2, <1>3
            DEF RejectCounter, Overlimit, Behind, Abstract!Fresh
  <2>4. Abstract!Reject(c)
    BY <2>1, <2>3 DEF Abstract!Reject
  <2> QED BY <2>2, <2>4 DEF Abstract!Next
<1> QED
  BY <1>1, <1>2, <1>3, CheckAndSetBitStep DEF Next, ValidateCounter

\* An empty filter is exact and is an empty window.
LEMMA FilterInit ==
    ASSUME Init
    PROVE  Inv /\ Abstract!Init
<1>1. BlockBits \in Nat \ {0} /\ RingBlocks \in Nat \ {0}
  BY SizeAssumption
<1>2. Block(0) = 0 /\ Slot(0) = 0
  BY <1>1 DEF Block, Slot
<1>3. TypeOK /\ accepted \subseteq 0 .. last
  BY <1>1 DEF Init, TypeOK
<1>4. RingIsExact
  BY <1>1, <1>2 DEF Init, RingIsExact
<1> QED BY <1>3, <1>4 DEF Init, Inv, Abstract!Init

\* The bits of the ring are exact in every reachable state, whatever Reset and
\* earlier laps left behind in the blocks outside the window.
THEOREM RingAlwaysExact == Spec => [](TypeOK /\ RingIsExact)
<1>1. Init => Inv
  BY FilterInit
<1>2. Inv /\ [Next]_vars => Inv'
  BY FilterStep
<1>3. Inv => TypeOK /\ RingIsExact
  BY DEF Inv
<1> QED BY <1>1, <1>2, <1>3, PTL DEF Spec

\* ValidateCounter implements the sliding window of ReplayWindow: no counter is
\* accepted twice between two resets, none that is fresh is refused.
THEOREM FilterImplementsWindow == Spec => ImplementsWindow
<1>1. Init => Inv /\ Abstract!Init
  BY FilterInit
<1>2. Inv /\ [Next]_vars => Inv' /\ [Abstract!Next]_(Abstract!vars)
  BY FilterStep
<1> QED BY <1>1, <1>2, PTL DEF Spec, ImplementsWindow, Abstract!Spec
===============================================================================
