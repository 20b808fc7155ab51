SPECIFICATION Spec
CONSTANTS
    Texts <- MCTexts
    Parts <- MCParts
    Inputs <- FG
    Programs <- BuiltPrograms
    RawSize <- MCRawSize
    Value <- MCValue
    Strlen <- MCStrlen
    Architectures <- MCArchitectures
    AddressSpace <- MCAddressSpace
    DefaultArch = "MC6809"
    SIZE_MODULUS = 32
    CHUNK = 2
    LINE_ARG_MAX = 3
    OPEN_MAX = 2
    EVALUATE = FALSE
INVARIANTS
    AcceptsExactlyClean
    EntersEveryLabel
