SPECIFICATION Spec
CONSTANTS
    Blocks = {b1, b2, b3, b4}
    Cells = {c1, c2, c3}
    NULL = NULL
INVARIANTS
    NoUseAfterFree
PROPERTIES
    ImplementsTracked
    LoopsEnd
