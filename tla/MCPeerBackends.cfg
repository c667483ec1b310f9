SPECIFICATION Spec
CONSTANTS
    Documents <- AllDocuments
    Names = {"a", "b", "aa", "", "xFF", "V", "W", "t", "c", "cc", "Ok", "Err", "index", "value"}
    NoName = ""
    Text <- MCText
    Scalars = {"0", "1", "24", "null", "V", "W"}
    Encoding <- MCEncoding
    NotText = {"xFF"}
    NotFinite = {}
INVARIANTS
    RefusedOnCollision
    ReadBack
    CborCanonical
    PrintedAlike
    RoundTrip
CHECK_DEADLOCK FALSE
