\* Two machines with clocks of their own, stamps 1..4, the two newest kept.
SPECIFICATION Spec
CONSTANTS
    Machines <- TwoMachines
    Keep = 2
    MaxStamp = 4
\* the stamps run out
CHECK_DEADLOCK FALSE
INVARIANTS
    RetentionKeepsNewest
PROPERTY RetentionBounds
