SPECIFICATION SpecTokens
CONSTANTS
    Words = {"a"}
    Kind <- MCKind
    Operators = {"(", ")", "*", "+"}
    LONGEST = 5
    Locals = {}
    Parents = {""}
INVARIANTS
    FollowsTheManual
