------------------------------- MODULE Offload -------------------------------
(***************************************************************************)
(* Segmentation offload between the tunnel and the kernel                  *)
(* (tun/offload_linux.go, Read and Write of tun/tun_linux.go).  A read     *)
(* from the TUN device splits one large packet of the kernel into          *)
(* segments; the segments cross the network, which loses and reorders      *)
(* them, together with packets of other senders; a write coalesces the     *)
(* packets of one batch into large ones, which the kernel splits again.    *)
(*                                                                         *)
(* A payload is the sequence of its bytes.  Headers are abstracted to what *)
(* the code compares: flow is the key of the flow tables (addresses,       *)
(* ports, acknowledgement number), ip the fields ipHeadersCanCoalesce      *)
(* looks at, options the TCP options, csum whether the checksum is right,  *)
(* odd marks a packet the code never coalesces (fragments, inconsistent    *)
(* lengths, other flags).                                                  *)
(*                                                                         *)
(* A "mutant:" comment marks a deliberately wrong variant of the           *)
(* definition that follows it; the properties tell the two apart.          *)
(***************************************************************************)
EXTENDS Integers, Sequences, SequencesExt, FiniteSets

CONSTANTS
    Flow,          \* flows
    SeqRange,        \* 2^32: number of TCP sequence numbers
    BufferCap,     \* payload a buffer has room for
    OutBuffers,    \* number of buffers of one read
    KernelPacket,  \* packets read from the TUN device
    Stray,         \* packets of other senders
    MaxBatch       \* bound: packets of one write

ASSUME OffloadAssumption ==
    /\ SeqRange \in Nat \ {0} /\ BufferCap \in Nat /\ OutBuffers \in Nat \ {0} /\ MaxBatch \in Nat

VARIABLES
    pc,        \* "read", "link", "gro", "write", "written"
    input,     \* the packet of the kernel
    link,      \* packets on the network
    batch,     \* the packets of the write, as they came
    bufs,      \* the same buffers while they are coalesced
    hdr,       \* the virtio header in front of each buffer: segment size, or none yet
    table,     \* tcpGROTable and udpGROTable
    next,      \* index of the packet handleGRO is at
    toWrite,   \* indices of the buffers to write
    received   \* what the kernel makes of each of them

vars == <<pc, input, link, batch, bufs, hdr, table, next, toWrite, received>>

Packet == [proto : {"tcp", "udp"}, flow : Flow, ip : Nat, options : Nat, seq : 0 .. SeqRange - 1,
           data : Seq(Nat), psh : BOOLEAN, csum : BOOLEAN, odd : BOOLEAN]
Item == [buf : Nat, sentSeq : 0 .. SeqRange - 1, numMerged : Nat, gsoSize : Nat,
         pshSet : BOOLEAN, cSumKnownInvalid : BOOLEAN]

Stale == -1   \* the header has not been written: its bytes are left over
NoTable == [f \in Flow |-> <<>>]

Init ==
    /\ pc = "read"
    /\ input \in KernelPacket
    /\ link = {} /\ batch = <<>> /\ bufs = <<>> /\ hdr = <<>>
    /\ table = NoTable
    /\ next = 1 /\ toWrite = <<>> /\ received = <<>>

-----------------------------------------------------------------------------
(* Reading: gsoSplit. *)

SegmentCount(p, size) == (Len(p.data) + size - 1) \div size

\* mutant: every segment keeps the flags of the packet
FlagsAsTheyAre(p, size, i) == p.psh

\* PSH stays on the last segment only (FIN likewise: it makes a packet odd).
SegmentPsh(p, size, i) == p.psh /\ i = SegmentCount(p, size)

\* Segment i: the headers are copied, the sequence number moves on by the
\* segments before, the checksum is computed anew.
Segment(p, size, i) ==
    LET from == (i - 1) * size + 1
        to == IF i * size > Len(p.data) THEN Len(p.data) ELSE i * size
    IN [p EXCEPT !.data = SubSeq(p.data, from, to),
                 !.seq = IF p.proto = "tcp" THEN (@ + size * (i - 1)) % SeqRange ELSE @,
                 !.psh = SegmentPsh(p, size, i),
                 !.csum = TRUE]

\* The segments a read returns: with too many for the buffers one buffer is
\* left unused and the rest is dropped.
gsoSplit(p, size) ==
    LET n == SegmentCount(p, size)
    IN [i \in 1 .. (IF n > OutBuffers THEN OutBuffers - 1 ELSE n) |-> Segment(p, size, i)]

\* handleVirtioRead: a packet that needs no segmentation only gets its checksum.
ReadTun ==
    /\ pc = "read"
    /\ link' = IF input.size = 0 THEN {[input.packet EXCEPT !.csum = TRUE]}
               ELSE ToSet(gsoSplit(input.packet, input.size))
    /\ pc' = "link"
    /\ UNCHANGED <<input, batch, bufs, hdr, table, next, toWrite, received>>

-----------------------------------------------------------------------------
(* The network and the tunnel: external. *)

\* The packets of one write arrive in any order, some are lost, and strays
\* come in between.
Arrive ==
    /\ pc = "link"
    /\ Len(batch) < MaxBatch
    /\ \E p \in (link \cup Stray) \ ToSet(batch) : batch' = Append(batch, p)
    /\ UNCHANGED <<pc, input, link, bufs, hdr, table, next, toWrite, received>>

BeginWrite ==
    /\ pc = "link" /\ batch # <<>>
    /\ pc' = "gro"
    /\ bufs' = batch
    /\ hdr' = [i \in DOMAIN batch |-> Stale]
    /\ UNCHANGED <<input, link, batch, table, next, toWrite, received>>

-----------------------------------------------------------------------------
(* Writing: coalescing. *)

NewItem(i, p, known) ==
    [buf |-> i, sentSeq |-> p.seq, numMerged |-> 0, gsoSize |-> Len(p.data),
     pshSet |-> p.psh, cSumKnownInvalid |-> known]

insert(i, p, known) == [table EXCEPT ![p.flow] = Append(@, NewItem(i, p, known))]

ipHeadersCanCoalesce(p, q) == p.ip = q.ip

\* Nothing comes after a packet that is smaller than the segment size.
EndsWhole(item) == Len(bufs[item.buf].data) % item.gsoSize = 0

\* mutant: a larger packet may follow
FollowsAnySize(p, item) == EndsWhole(item)

FollowsInSize(p, item) == EndsWhole(item) /\ Len(p.data) <= item.gsoSize

udpPacketsCanCoalesce(p, item) ==
    ipHeadersCanCoalesce(p, bufs[item.buf]) /\ FollowsInSize(p, item)

\* The sequence number behind the item, if all its packets have its size.
NextSeq(item) == (item.sentSeq + item.gsoSize * (item.numMerged + 1)) % SeqRange

InFrontInSize(p, item) ==
    /\ ~p.psh
    /\ Len(p.data) >= item.gsoSize
    /\ Len(p.data) > item.gsoSize => item.numMerged = 0

tcpPacketsCanCoalesce(p, item) ==
    IF p.options # bufs[item.buf].options \/ ~ipHeadersCanCoalesce(p, bufs[item.buf])
    THEN "unavailable"
    ELSE IF p.seq = NextSeq(item)
    THEN IF ~item.pshSet /\ FollowsInSize(p, item) THEN "append" ELSE "unavailable"
    ELSE IF (p.seq + Len(p.data)) % SeqRange = item.sentSeq /\ InFrontInSize(p, item)
    THEN "prepend" ELSE "unavailable"

HasRoom(p, item) == Len(bufs[item.buf].data) + Len(p.data) <= BufferCap

\* What an attempt to coalesce says before it changes anything.
Outcome(p, item) ==
    IF ~HasRoom(p, item) THEN "insufficientCap"
    ELSE IF item.numMerged = 0 /\ (item.cSumKnownInvalid \/ ~bufs[item.buf].csum)
    THEN "itemInvalidCSum"
    ELSE IF ~p.csum THEN "pktInvalidCSum" ELSE "success"

Merged(p, item) ==
    [item EXCEPT !.numMerged = @ + 1, !.gsoSize = IF Len(p.data) > @ THEN Len(p.data) ELSE @]

\* The packet goes to the end of the item's buffer; PSH goes to its header.
appendPacket(p, item) ==
    /\ bufs' = [bufs EXCEPT ![item.buf].data = @ \o p.data, ![item.buf].psh = @ \/ p.psh]
    /\ UNCHANGED hdr

\* The packet's buffer takes the item's payload, and the buffers change places.
prependPacket(i, p, item) ==
    /\ bufs' = [bufs EXCEPT ![item.buf] = [p EXCEPT !.data = @ \o bufs[item.buf].data],
                            ![i] = bufs[item.buf]]
    /\ hdr' = [hdr EXCEPT ![item.buf] = hdr[i], ![i] = hdr[item.buf]]

SetItem(flow, k, item) == [table EXCEPT ![flow][k] = item]

\* The packet is written as it is, with an empty header.
groNoop(i) ==
    /\ hdr' = [hdr EXCEPT ![i] = 0]
    /\ toWrite' = Append(toWrite, i)
    /\ UNCHANGED <<bufs, table>>

\* The packet is written once its header is known.
groTableInsert(i, t) ==
    /\ table' = t
    /\ toWrite' = Append(toWrite, i)
    /\ UNCHANGED <<bufs, hdr>>

Candidate(p) == ~p.odd /\ p.data # <<>>

\* The items of the flow are tried from the last to the first.  An item with a
\* wrong checksum is deleted from the table; the walk goes on below it.
Attempts(p) ==
    LET items == table[p.flow]
        walk[k \in 0 .. Len(items)] ==
            IF k = 0 THEN [at |-> 0, can |-> "unavailable", deleted |-> {}]
            ELSE LET can == tcpPacketsCanCoalesce(p, items[k])
                     outcome == Outcome(p, items[k])
                 IN IF can = "unavailable" \/ outcome = "insufficientCap" THEN walk[k - 1]
                    ELSE IF outcome = "itemInvalidCSum"
                    THEN [walk[k - 1] EXCEPT !.deleted = @ \cup {k}]
                    ELSE [at |-> k, can |-> IF outcome = "success" THEN can ELSE outcome,
                          deleted |-> {}]
    IN walk[Len(items)]

deleteAt(flow, deleted) ==
    [table EXCEPT ![flow] =
        [k \in 1 .. Len(@) - Cardinality(deleted) |->
            @[CHOOSE j \in DOMAIN @ \ deleted : Cardinality((1 .. j) \ deleted) = k]]]

tcpGRO(i, p) ==
    IF ~Candidate(p) THEN groNoop(i)
    ELSE LET try == Attempts(p)
             item == table[p.flow][try.at]
             left == deleteAt(p.flow, try.deleted)
         IN CASE try.can = "append" ->
                   /\ appendPacket(p, item)
                   /\ table' = [left EXCEPT ![p.flow][try.at] =
                                   [Merged(p, item) EXCEPT !.pshSet = @ \/ p.psh]]
                   /\ UNCHANGED toWrite
              [] try.can = "prepend" ->
                   /\ prependPacket(i, p, item)
                   /\ table' = [left EXCEPT ![p.flow][try.at] =
                                   [Merged(p, item) EXCEPT !.sentSeq = p.seq]]
                   /\ UNCHANGED toWrite
              [] try.can = "pktInvalidCSum" ->
                   /\ hdr' = [hdr EXCEPT ![i] = 0]
                   /\ toWrite' = Append(toWrite, i)
                   /\ table' = left
                   /\ UNCHANGED bufs
              [] OTHER ->
                   groTableInsert(i, [left EXCEPT ![p.flow] = Append(@, NewItem(i, p, FALSE))])

\* mutant: any item of the flow will do
FirstItem(flow) == IF table[flow] = <<>> THEN 0 ELSE 1

\* Only the last item is tried, so that the datagrams of a flow stay in order.
LastItem(flow) == Len(table[flow])

udpGRO(i, p) ==
    IF ~Candidate(p) THEN groNoop(i)
    ELSE LET last == LastItem(p.flow)
             item == table[p.flow][last]
             can == last > 0 /\ udpPacketsCanCoalesce(p, item)
         IN IF can /\ Outcome(p, item) = "success"
            THEN /\ appendPacket(p, item)
                 /\ table' = SetItem(p.flow, last, [item EXCEPT !.numMerged = @ + 1])
                 /\ UNCHANGED toWrite
            ELSE groTableInsert(i, insert(i, p, can /\ Outcome(p, item) = "pktInvalidCSum"))

\* handleGRO: the packets one after the other.
GroPacket ==
    /\ pc = "gro" /\ next <= Len(bufs)
    /\ next' = next + 1
    /\ IF bufs[next].proto = "tcp" THEN tcpGRO(next, bufs[next]) ELSE udpGRO(next, bufs[next])
    /\ UNCHANGED <<pc, input, link, batch, received>>

Items == UNION {ToSet(table[f]) : f \in Flow}

\* applyTCPCoalesceAccounting, applyUDPCoalesceAccounting: the header of every
\* buffer in the tables.
Account ==
    /\ pc = "gro" /\ next > Len(bufs)
    /\ hdr' = [i \in DOMAIN hdr |->
                  IF \E item \in Items : item.buf = i
                  THEN LET item == CHOOSE t \in Items : t.buf = i
                       IN IF item.numMerged > 0 THEN item.gsoSize ELSE 0
                  ELSE hdr[i]]
    /\ pc' = "write"
    /\ UNCHANGED <<input, link, batch, bufs, table, next, toWrite, received>>

-----------------------------------------------------------------------------
(* What the kernel makes of the buffers that are written: external. *)

KernelSegment(p, size, i) ==
    [p EXCEPT !.data = SubSeq(p.data, (i - 1) * size + 1,
                              IF i * size > Len(p.data) THEN Len(p.data) ELSE i * size),
              !.seq = IF p.proto = "tcp" THEN (@ + size * (i - 1)) % SeqRange ELSE @,
              !.psh = p.psh /\ i * size >= Len(p.data)]

Split(p, size) ==
    IF size = 0 THEN <<p>>
    ELSE [i \in 1 .. (Len(p.data) + size - 1) \div size |-> KernelSegment(p, size, i)]

\* A checksum is written into the packet, somewhere.
Damaged(p) == [p EXCEPT !.odd = TRUE]

\* The kernel takes the bytes in front of a packet for its header, whatever
\* they are: left over ones may make it refuse the packet, write a checksum
\* into it or split it.
KernelSegments(p, size) ==
    IF size # Stale THEN {Split(p, size)}
    ELSE {<<>>, <<Damaged(p)>>} \cup {Split(p, n) : n \in 0 .. BufferCap}

\* The buffers are written one after the other; then the tables are reset.
WriteTun ==
    /\ pc = "write"
    /\ received' \in {r \in [DOMAIN toWrite -> UNION {KernelSegments(bufs[i], hdr[i]) : i \in DOMAIN bufs}] :
                        \A k \in DOMAIN toWrite :
                            r[k] \in KernelSegments(bufs[toWrite[k]], hdr[toWrite[k]])}
    /\ table' = NoTable
    /\ pc' = "written"
    /\ UNCHANGED <<input, link, batch, bufs, hdr, next, toWrite>>

Next == ReadTun \/ Arrive \/ BeginWrite \/ GroPacket \/ Account \/ WriteTun

Spec == Init /\ [][Next]_vars

-----------------------------------------------------------------------------
(* Properties. *)

\* Every variable keeps its type, and the tables only refer to buffers of the
\* batch that will be written.
TypeOK ==
    /\ pc \in {"read", "link", "gro", "write", "written"}
    /\ \A p \in link : p \in Packet
    /\ \A i \in DOMAIN bufs : bufs[i] \in Packet /\ Len(bufs[i].data) <= BufferCap
    /\ DOMAIN hdr = DOMAIN bufs
    /\ \A item \in Items : item \in Item /\ item.buf \in ToSet(toWrite)
    /\ next \in 1 .. MaxBatch + 1

Bare(p) == [p EXCEPT !.psh = FALSE]

\* Buffers that are written behind a header that is not.
Headless == {i \in ToSet(toWrite) : hdr[i] = Stale}

\* What the kernel gets, and what it gets of the buffers with a header.
Received == FlattenSeq(received)
Intact == FlattenSeq([k \in DOMAIN received |-> IF toWrite[k] \in Headless THEN <<>> ELSE received[k]])

\* Whatever tcpGRO and udpGRO have appended, prepended, swapped and left alone,
\* the kernel gets back exactly the packets of the batch, each once, with its
\* own bytes under its own sequence number, save the ones in front of which no
\* header was written: each of these is one packet with a wrong checksum, alone
\* in its buffer, and no other packet is lost or changed because of it.
EveryPacketOnce ==
    pc = "written" =>
        /\ \A i \in Headless : ~bufs[i].csum
        /\ Len(Intact) = Len(batch) - Cardinality(Headless)
        /\ {Bare(p) : p \in ToSet(Intact) \cup {bufs[i] : i \in Headless}}
               = {Bare(p) : p \in ToSet(batch)}

Datagrams(s, flow) == SelectSeq(s, LAMBDA p : p.proto = "udp" /\ p.flow = flow)
Coalescible(s) == SelectSeq(s, Candidate)

\* The datagrams of a flow that udpGRO puts into the table reach the kernel in
\* the order they came in, although some travel in the buffer of another.
UdpInOrder ==
    pc = "written" =>
        \A f \in Flow : Coalescible(Datagrams(Received, f)) = Coalescible(Datagrams(batch, f))

\* The comment in udpGRO: "With UDP we only check the last item, otherwise we
\* could reorder packets for a given flow."
UdpFlowInOrder ==
    pc = "written" => \A f \in Flow : Datagrams(Received, f) = Datagrams(batch, f)

LastByte(p) == p.data[Len(p.data)]

\* PSH ends a push of the sender: gsoSplit leaves it on the segment with the
\* last byte only, and coalescing never moves it to another packet that the
\* kernel gets behind a header.
PshNotMoved ==
    /\ \A p \in link : p.psh => LastByte(p) = LastByte(input.packet)
    /\ pc = "written" => \A p \in ToSet(Intact) : p.psh =>
           \E q \in ToSet(batch) : q.psh /\ Bare(q) = Bare(p)

\* The comments in tcpPacketsCanCoalesce: "PSH can only be set on the final
\* segment in a reassembled group", where it stays.
PshKept ==
    pc = "written" => \A q \in ToSet(batch) : q.psh =>
        \E p \in ToSet(Received) : p.psh /\ Bare(q) = Bare(p)

\* handleGRO: it "writes the indices of the resulting packets into toWrite",
\* and each of those is handed to the kernel behind a header.
EveryHeaderWritten == pc = "written" => Headless = {}
===============================================================================
