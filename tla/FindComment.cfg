SPECIFICATION Spec
CONSTANTS
    a = a
    Letters = {a}
    Special = {"blank", "comma", "newline", "colon", "semicolon"}
    LINEBUFFERSIZE = 7
    LINE_ARG_MAX = 3
INVARIANTS
    CommentIsInert
