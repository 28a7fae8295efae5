------------------------------ MODULE MCOffload ------------------------------
(* Instances of Offload for TLC. *)
EXTENDS Offload

CONSTANTS a, u

Flows == {a, u}

Tcp(seq, data, psh) ==
    [proto |-> "tcp", flow |-> a, ip |-> 0, options |-> 0, seq |-> seq, data |-> data,
     psh |-> psh, csum |-> TRUE, odd |-> FALSE]
Udp(data) == [Tcp(0, data, FALSE) EXCEPT !.proto = "udp", !.flow = u]

\* A stream that wraps around the sequence numbers, with a short last segment;
\* the same in more segments than there are buffers; a batch of datagrams; a
\* packet that is not segmented.
KernelPackets ==
    {[packet |-> Tcp(6, <<1, 2, 3, 4, 5>>, TRUE), size |-> 2],
     [packet |-> Tcp(6, <<1, 2, 3, 4, 5>>, TRUE), size |-> 1],
     [packet |-> Udp(<<1, 2, 3, 4, 5>>), size |-> 2],
     [packet |-> Tcp(6, <<1, 2>>, FALSE), size |-> 0]}

\* Packets that go on with the stream, in front of it and behind it, larger and
\* smaller; one each that differs in what keeps it apart.
Neighbours ==
    {Tcp(3, <<6, 7, 8>>, FALSE), Tcp(3, <<9, 10, 11, 12>>, TRUE), Tcp(5, <<13>>, FALSE),
     [Tcp(0, <<14, 15>>, FALSE) EXCEPT !.csum = FALSE],
     [Tcp(0, <<16, 17>>, FALSE) EXCEPT !.options = 1],
     Udp(<<18, 19>>), Udp(<<20>>), [Udp(<<21, 22>>) EXCEPT !.csum = FALSE],
     Udp(<<>>),
     [Tcp(2, <<23>>, FALSE) EXCEPT !.odd = TRUE]}
===============================================================================
