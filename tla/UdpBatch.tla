------------------------------- MODULE UdpBatch -------------------------------
(***************************************************************************)
(* How the UDP bind packs the datagrams of one batch into messages for the *)
(* kernel to segment, and takes the messages the kernel has coalesced      *)
(* apart again (coalesceMessages and splitCoalescedMessages of             *)
(* conn/bind_std.go, the control message of conn/gso_linux.go).            *)
(*                                                                         *)
(* A buffer is the sequence of its bytes; a message is one buffer and the  *)
(* segment size in its control data, 0 if there is none.                   *)
(*                                                                         *)
(* A "mutant:" comment marks a deliberately wrong variant of the           *)
(* definition that follows it; the properties tell the two apart.          *)
(***************************************************************************)
EXTENDS Integers, Sequences, SequencesExt

CONSTANTS
    MaxPayload,     \* maxIPv4PayloadLen
    MaxDatagrams,   \* udpSegmentMaxDatagrams
    BufferCap,      \* capacity of a buffer
    BatchSize       \* IdealBatchSize

ASSUME BatchAssumption ==
    /\ {MaxPayload, MaxDatagrams, BufferCap, BatchSize} \subseteq Nat \ {0}
    /\ BatchSize % MaxDatagrams = 0

\* The pieces of at most size bytes a buffer is cut into, the last may be shorter.
Pieces(buf, size) ==
    [j \in 1 .. (Len(buf) + size - 1) \div size |->
        SubSeq(buf, (j - 1) * size + 1, IF j * size > Len(buf) THEN Len(buf) ELSE j * size)]

\* What the kernel makes of a message.
Segments(msg) == IF msg.gso = 0 THEN <<msg.buf>> ELSE Pieces(msg.buf, msg.gso)

AllSegments(msgs) == FlattenSeq([i \in DOMAIN msgs |-> Segments(msgs[i])])

-----------------------------------------------------------------------------
(* Sending *)

\* The variables of coalesceMessages; base is the last of msgs.
Started == [msgs |-> <<>>, gsoSize |-> 0, dgramCnt |-> 0, endBatch |-> FALSE]

\* mutant: a short datagram does not end the batch
FitsAnyLength(s, buf) ==
    LET base == s.msgs[Len(s.msgs)].buf
    IN /\ Len(buf) + Len(base) <= MaxPayload
       /\ Len(buf) <= s.gsoSize
       /\ Len(buf) <= BufferCap - Len(base)
       /\ s.dgramCnt < MaxDatagrams

Fits(s, buf) ==
    LET base == s.msgs[Len(s.msgs)].buf
    IN /\ Len(buf) + Len(base) <= MaxPayload
       /\ Len(buf) <= s.gsoSize
       /\ Len(buf) <= BufferCap - Len(base)
       /\ s.dgramCnt < MaxDatagrams
       /\ ~s.endBatch

\* The control data of the last message gets the segment size.
SetGSO(s) == [s EXCEPT !.msgs[Len(s.msgs)].gso = s.gsoSize]

AppendToBase(s, buf, last) ==
    LET a == [s EXCEPT !.msgs[Len(s.msgs)].buf = @ \o buf,
                       !.dgramCnt = @ + 1,
                       !.endBatch = @ \/ Len(buf) < s.gsoSize]
    IN IF last THEN SetGSO(a) ELSE a

NewBase(s, buf) ==
    LET a == IF s.dgramCnt > 1 THEN SetGSO(s) ELSE s
    IN [msgs |-> Append(a.msgs, [buf |-> buf, gso |-> 0]),
        gsoSize |-> Len(buf), dgramCnt |-> 1, endBatch |-> FALSE]

coalesceMessages(bufs) ==
    LET Add(s, i) == IF i > 1 /\ Fits(s, bufs[i]) THEN AppendToBase(s, bufs[i], i = Len(bufs))
                     ELSE NewBase(s, bufs[i])
    IN FoldLeftDomain(Add, Started, bufs).msgs

\* Without offload every buffer is a message of its own.
singleMessages(bufs) == [i \in DOMAIN bufs |-> [buf |-> bufs[i], gso |-> 0]]

-----------------------------------------------------------------------------
(* Receiving *)

\* The last messages of the batch are the ones read into, so that there is a
\* place for each piece in front of them.
readAt == BatchSize - BatchSize \div MaxDatagrams + 1

EmptyMessage == [buf |-> <<>>, gso |-> 0]

Overflows(n, i) == n > i

\* Message i is copied piece by piece to the places from n + 1 on.
splitMessage(s, i) ==
    LET pieces == Segments(s.msgs[i])
        Copy(t, j) == IF t.err \/ Overflows(t.n + 1, i) THEN [t EXCEPT !.err = TRUE]
                      ELSE [t EXCEPT !.msgs[t.n + 1] = [buf |-> pieces[j], gso |-> 0], !.n = @ + 1]
        a == FoldLeftDomain(Copy, s, pieces)
    IN IF ~a.err /\ a.n # i THEN [a EXCEPT !.msgs[i] = EmptyMessage] ELSE a

\* A message of length 0 ends the walk.
splitCoalescedMessages(msgs) ==
    LET Split(s, i) == IF s.err \/ s.done \/ i < readAt THEN s
                       ELSE IF s.msgs[i].buf = <<>> THEN [s EXCEPT !.done = TRUE]
                       ELSE splitMessage(s, i)
    IN FoldLeftDomain(Split, [msgs |-> msgs, n |-> 0, err |-> FALSE, done |-> FALSE], msgs)
===============================================================================
