SPECIFICATION Spec
CONSTANTS
    a = a
    Letters = {a}
    Special = {"blank", "comma", "newline", "colon", "semicolon", "dquote", "squote", "lbracket", "rbracket"}
    LINEBUFFERSIZE = 8
    LINE_ARG_MAX = 3
INVARIANTS
    TypeOK
    FieldsSeparated
    AcceptsWellFormed
    StoresTheLine
