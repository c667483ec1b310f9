SPECIFICATION Spec
CONSTANTS
    Formats = {"json", "dson", "cbor", "cbor_labels", "json_layout", "dson_layout",
               "utf8", "text", "json_string", "dson_string"}
    Alphabet <- MCAlphabet
    Seeds <- MCSeeds
    Blanks <- MCBlanks
    MaxBlanks = 2
    Viable <- MCViable
    MaxLength <- MCMaxLength
    TextLimit = 2
    CborLimit = 3
    SizeLimit = 20
    BadNames = {"xFF"}
    Malformed = {}
INVARIANTS
    JsonReadersAgree
    DsonReadersAgree
    LocationsFound
    RepeatedKeyLocated
    IndexFindsAll
    FoundByName
    Utf8WellFormed
    StringsKept
    JsonStringsDecode
CHECK_DEADLOCK FALSE
