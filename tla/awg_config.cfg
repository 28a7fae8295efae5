SPECIFICATION Spec
CONSTANTS
    WordSize = 6
    Paddings <- TwoPaddings
    Contents <- Lengths
    Requests <- Mixed
INVARIANTS
    AcceptedDisjoint
    Recognised
CHECK_DEADLOCK FALSE
