--------------------------- MODULE MCNoiseSession ---------------------------
(* NoiseSession on small sets of devices, workers and indices.              *)
EXTENDS NoiseSession, TLC

CONSTANTS n1, n2, w1, w2  \* two devices, and names of workers

\* Each device generates two ephemerals: both may start a handshake, so
\* initiations cross, or one of them rekeys.
TwoEach == [n \in Node |-> 2]

\* n1 generates two ephemerals and n2 one: n1 retries while n2 answers once.
TwoAndOne == [n \in Node |-> IF n = n1 THEN 2 ELSE 1]

\* One CPU each, or two CPUs for n2.
OneCpu == [n \in Node |-> {w1}]
TwoCpus == [n \in Node |-> IF n = n2 THEN {w1, w2} ELSE {w1}]

\* Non-zero indices are interchangeable, and so are the devices when they have
\* the same bound and the same number of CPUs.
Interchangeable == Permutations(Index \ {ZeroIndex})
InterchangeableDevices == Interchangeable \cup Permutations(Node)
=============================================================================
