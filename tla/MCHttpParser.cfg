\* Requests cut into at most three pieces; a 5-bit uint64_t.
CONSTANTS
    Wires <- MCWires
    ULLONG_MAX = 31
    HTTP_MAX_HEADER_SIZE = 64
    MaxPieces = 3
    Refusals = {FALSE, TRUE}
SPECIFICATION Spec
INVARIANTS AssertionsHold DecodesRequests HeaderSizeBounded
PROPERTY CallReturns
\* A connection may stay silent for ever.
CHECK_DEADLOCK FALSE
