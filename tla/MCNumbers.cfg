SPECIFICATION Spec
CONSTANTS
    Integral <- MCIntegral
    Fractional <- MCFractional
    Foreign <- MCForeign
INVARIANTS
    NumberKept
PROPERTIES
    LoadsExactly
    DynamicAgrees
    PreferredEncodings
CHECK_DEADLOCK FALSE
