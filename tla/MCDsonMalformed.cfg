SPECIFICATION Spec
CONSTANTS
    Formats = {"dson"}
    Alphabet <- MCAlphabet
    Seeds <- MCSeeds
    Blanks <- MCBlanks
    MaxBlanks = 2
    Viable <- MCViable
    MaxLength <- ShortLength
    TextLimit = 2
    CborLimit = 3
    SizeLimit = 20
    BadNames = {"xFF"}
    Malformed = {"malformed_scalar", "malformed_sequence", "malformed_object"}
INVARIANTS
    MalformedRefused
CHECK_DEADLOCK FALSE
