SPECIFICATION SpecTokens
CONSTANTS
    Words = {"a", ".x", "1x"}
    Kind <- MCKind
    Operators = {"(", ")", "*", "+", "|"}
    LONGEST = 7
    Locals = {".x"}
    Parents = {"", "m"}
CONSTRAINT Bounded
INVARIANTS
    StackAscends
    ReturnsPostfix
    ReturnsInOrder
    AcceptsBalanced
    ListsAreStacks
    PreparesList
    LosesOnlyParens
