SPECIFICATION Spec
CONSTANTS
    Documents <- FlatteningOne
    Names = {"a", "b", "aa"}
    NoName = ""
    Text <- MCText
    Scalars = {"1", "24", "null"}
    Encoding <- MCEncoding
    NotText = {}
    NotFinite = {}
INVARIANTS
    StrictRoundTrip
CHECK_DEADLOCK FALSE
