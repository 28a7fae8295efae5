----------------------------- MODULE ReplayFilter -----------------------------
(***************************************************************************)
(* The anti-replay filter of package replay (RFC 6479): a ring of blocks   *)
(* of bits that slides over the counters.  The code has 64 bits in a block *)
(* and 128 blocks; here both are parameters.  A block is the set of the    *)
(* bits that are set.                                                      *)
(*                                                                         *)
(* A "mutant:" comment marks a deliberately wrong variant of the           *)
(* definition that follows it; the property tells the two apart.           *)
(***************************************************************************)
EXTENDS Integers

CONSTANTS BlockBits,   \* blockBits
          RingBlocks,  \* ringBlocks
          Limit,       \* RejectAfterMessages
          Counter      \* the counters that packets carry

ASSUME SizeAssumption ==
    /\ BlockBits \in Nat \ {0} /\ RingBlocks \in Nat \ {0}
    /\ Limit \in Nat /\ Counter \subseteq Nat

VARIABLES last,     \* Filter.last
          ring,     \* Filter.ring
          verdict,  \* what ValidateCounter returned last
          accepted  \* history: the counters accepted since the last Reset

vars == <<last, ring, verdict, accepted>>

windowSize == (RingBlocks - 1) * BlockBits
Block(c) == c \div BlockBits
Bit(c) == c % BlockBits
Slot(k) == k % RingBlocks

TypeOK ==
    /\ last \in Nat
    /\ ring \in [0 .. RingBlocks - 1 -> SUBSET (0 .. BlockBits - 1)]
    /\ verdict \in BOOLEAN
    /\ accepted \subseteq Nat

\* "The zero value for Filter is an empty filter ready to use."
Init ==
    /\ last = 0
    /\ ring = [b \in 0 .. RingBlocks - 1 |-> {}]
    /\ verdict = FALSE
    /\ accepted = {}

\* Only the first block is emptied: the others are when the window reaches them.
Reset ==
    /\ last' = 0
    /\ ring' = [ring EXCEPT ![0] = {}]
    /\ accepted' = {}
    /\ UNCHANGED verdict

\* The blocks the window moves over on its way to c are emptied.
\* mutant: the block the window arrives at is not emptied
MovedShort(c) ==
    LET current == Block(last)
        diff == IF Block(c) - current > RingBlocks THEN RingBlocks
                ELSE Block(c) - current
    IN  [b \in DOMAIN ring |->
            IF \E i \in current + 1 .. current + diff - 1 : Slot(i) = b THEN {}
            ELSE ring[b]]
Moved(c) ==
    LET current == Block(last)
        diff == IF Block(c) - current > RingBlocks THEN RingBlocks
                ELSE Block(c) - current
    IN  [b \in DOMAIN ring |->
            IF \E i \in current + 1 .. current + diff : Slot(i) = b THEN {}
            ELSE ring[b]]

Overlimit(c) == c >= Limit
\* mutant: the window is taken to be the whole ring
BehindRing(c) == c <= last /\ last - c > RingBlocks * BlockBits
Behind(c) == c <= last /\ last - c > windowSize

\* ValidateCounter returns false at once ...
RejectCounter(c) ==
    /\ Overlimit(c) \/ Behind(c)
    /\ verdict' = FALSE
    /\ UNCHANGED <<last, ring, accepted>>

\* ... or moves the window forward if it has to, and checks and sets the bit.
CheckAndSetBit(c) ==
    LET r == IF c > last THEN Moved(c) ELSE ring
        old == r[Slot(Block(c))]
    IN  /\ ~Overlimit(c) /\ ~Behind(c)
        /\ last' = IF c > last THEN c ELSE last
        /\ ring' = [r EXCEPT ![Slot(Block(c))] = old \cup {Bit(c)}]
        /\ verdict' = (Bit(c) \notin old)
        /\ accepted' = IF Bit(c) \in old THEN accepted ELSE accepted \cup {c}

ValidateCounter(c) == RejectCounter(c) \/ CheckAndSetBit(c)

Next == Reset \/ \E c \in Counter : ValidateCounter(c)

Spec == Init /\ [][Next]_vars

-------------------------------------------------------------------------------
(* Properties                                                                 *)

\* Every block the window can still reach back to holds exactly the bits of
\* the counters accepted since the last Reset, although Reset empties only the
\* first block and later blocks keep what an earlier lap of the ring left.
RingIsExact ==
    \A k \in 0 .. Block(last) : k > Block(last) - RingBlocks =>
        \A b \in 0 .. BlockBits - 1 :
            b \in ring[Slot(k)] <=> k * BlockBits + b \in accepted

\* The filter answers as the sliding window over a set of counters does:
\* nothing is accepted twice, and nothing fresh within the window is refused.
Abstract == INSTANCE ReplayWindow WITH Window <- windowSize
ImplementsWindow == Abstract!Spec
===============================================================================
