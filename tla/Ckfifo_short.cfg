SPECIFICATION Spec
CONSTANTS
    Bytes <- TwoValues
    size = 4
    Modulus = 8
INVARIANT AllOrNothing
