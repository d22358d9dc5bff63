\* Six-bit addresses of three bytes; the cap is the size of one of the blocks.
CONSTANTS
    Width = 2
    Bytes = 3
    MaxTargets = 8
SPECIFICATION Spec
CHECK_DEADLOCK FALSE
INVARIANTS
    ExpansionIsExact
