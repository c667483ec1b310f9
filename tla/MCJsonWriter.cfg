SPECIFICATION Spec
CONSTANTS
    Names = {"a", "b", "xFF"}
    Scalars = {"v", "NaN"}
    Unencodable = {"xFF", "NaN"}
    ObjectForms = {TRUE}
    MaxTokens = 8
    MaxDepth = 3
INVARIANTS
    TypeOK
    SeparatorsWellPlaced
    EveryPrefixCompletes
PROPERTY
    ImplementsContract
