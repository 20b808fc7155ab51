SPECIFICATION Spec
CONSTANTS
    ArgumentLists <- MCArgumentLists
    Archs = {"MC6809", "HD6309"}
    Bodies = {"bitor"}
INVARIANTS
    ReadsTerms
