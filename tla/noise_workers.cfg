SPECIFICATION Spec
CONSTANTS
    n1 = n1  n2 = n2
    w1 = w1  w2 = w2
    Node = {n1, n2}
    Worker = {w1, w2}
    Started <- TwoCpus
    Index = {zero, i1, i2}
    ZeroIndex = zero
    None = none
    MaxEph <- TwoAndOne
    MaxDerived = 2
SYMMETRY Interchangeable
INVARIANTS NoStaleEntry IndicesResolve SessionAgreement
