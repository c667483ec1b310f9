SPECIFICATION Spec
CONSTANTS
    Names = {"a", "b"}
    NoName = ""
    Scalars = {"v", "w"}
    ObjectForms = {FALSE, TRUE}
    MaxTokens = 9
    MaxDepth = 3
INVARIANTS
    ValueFollowsJson
    StacksAgree
CHECK_DEADLOCK FALSE
