SPECIFICATION Spec
CONSTANTS
    Names = {"a", "b", "xFF"}
    Scalars = {"v", "NaN"}
    Unencodable = {"xFF", "NaN"}
    Sizes = {0, 1, 2}
    ObjectForms = {TRUE}
    MaxTokens = 8
    MaxDepth = 2
INVARIANTS
    TypeOK
    ParserCatchesMiscounts
PROPERTY
    ImplementsJson
