SPECIFICATION Spec
CONSTANTS
    Documents <- OmittedFlattening
    Names = {"a", "b", "aa"}
    NoName = ""
    Text <- MCText
    Scalars = {"1", "24", "null"}
    Encoding <- MCEncoding
    NotText = {}
    NotFinite = {}
INVARIANTS
    CountsHonoured
CHECK_DEADLOCK FALSE
