SPECIFICATION Spec
CONSTANTS
    n1 = n1  n2 = n2
    w1 = w1  w2 = w2
    Node = {n1, n2}
    Worker = {w1}
    Started <- OneCpu
    Index = {i1, i2, i3}
    ZeroIndex = zero
    None = none
    MaxEph <- TwoEach
    MaxDerived = 2
SYMMETRY InterchangeableDevices
INVARIANTS TypeOK NoStaleEntry IndicesResolve KeyConfirmed SessionAgreement
