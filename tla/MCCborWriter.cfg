SPECIFICATION Spec
CONSTANTS
    Names = {"b", "aa", "xFF"}
    Text <- MCText
    Scalars = {"null", "inf"}
    Encoding <- MCEncoding
    Unencodable = {"inf"}
    Ids = {0}
    Sizes = {0, 1, 2, 3}
    ObjectForms <- MCAllObjectForms
    MaxDepth = 2
CONSTRAINT ItemsBounded
INVARIANTS
    TypeOK
    CountsKept
    RepeatsNoticed
    FinishedDecodes
    EntriesWhole
PROPERTY
    ImplementsContract
