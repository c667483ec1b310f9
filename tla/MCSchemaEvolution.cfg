SPECIFICATION Spec
CONSTANTS
    Schemas <- MCSchemas
    MembersFor <- MCMembersFor
    Scalars <- MCScalars
    MaxMembers = 3
    Null = "null"
    Strings = {"V", "v1", "W", "U"}
INVARIANTS
    SuppliedOnce
    UnknownIgnored
    AnyOrder
    SkippedInputIgnored
    VariantsReadAsTypes
CHECK_DEADLOCK FALSE
