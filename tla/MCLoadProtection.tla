--------------------------- MODULE MCLoadProtection ---------------------------
(* Instances of LoadProtection for TLC. *)
EXTENDS LoadProtection, TLC

CONSTANTS w1, w2, a1, a2

OneWorker == {w1}
TwoWorkers == {w1, w2}
OneAddress == {a1}
TwoAddresses == {a1, a2}

\* The workers are alike, and so are the addresses.
AllAlike == Permutations({w1, w2}) \cup Permutations({a1, a2})
===============================================================================
