----------------------------- MODULE MCStdNetBind -----------------------------
(* Instances of StdNetBind for TLC. *)
EXTENDS StdNetBind

CONSTANTS peer, cookie

Senders == {peer, cookie}
Peers == {peer}
AnySystem == SUBSET {"v4", "v6"}
Ports == {1, 2}

\* Buffer k of a batch, with n bytes.
Buffer(k, n) == [i \in 1 .. n |-> <<k, i>>]
Batch(lens) == [k \in DOMAIN lens |-> Buffer(k, lens[k])]

\* A single one; more datagrams than one message may have, more bytes, and a
\* short one in the middle.
SomeBatches == {Batch(l) : l \in {<<1>>, <<1, 1, 1, 1>>, <<2, 2, 2>>, <<2, 1, 2>>}}

\* Datagrams with no, one or two bytes, and what the kernel has coalesced of
\* datagrams with one or two, in every order a read may return them.
KernelMessages(k) ==
    {[buf |-> Buffer(k, n), gso |-> 0] : n \in 0 .. 2}
    \cup {[buf |-> Buffer(k, n), gso |-> 1] : n \in 2 .. MaxDatagrams}
    \cup {[buf |-> Buffer(k, n), gso |-> 2] : n \in 3 .. BufferCap}
Reads ==
    {<<m>> : m \in KernelMessages(1)} \cup {<<m, n>> : m \in KernelMessages(1), n \in KernelMessages(2)}

\* They are batches for which BatchArrives is proved.
ASSUME BatchesHaveBytes == NoEmptyDatagram(Batches)
===============================================================================
