SPECIFICATION Spec
CONSTANTS
    Names = {"b", "aa"}
    Text <- MCText
    Scalars = {"null"}
    Encoding <- MCEncoding
    Unencodable = {}
    Ids = {0}
    Sizes = {2}
    ObjectForms <- MCNamedForms
    MaxDepth = 3
INVARIANTS
    FinishedDecodes
    PlainObjectsCanonical
