SPECIFICATION Spec
CONSTANTS
    CommandLines <- MCCommandLines
    Disks <- MCDisks
    Locals = {"a.x"}
    Supported = {"MC6809"}
    Builds = {"debug", "release"}
    Blocks = {b1, b2, b3, b4, b5, b6}
    NULL = NULL
INVARIANTS
    TypeOK
    FreesTracked
    ExitFreesMemory
    ListsFiles
    ListsLabels
    ExitTells
    NamesHaveRoom
PROPERTIES
    UsesMemory
SYMMETRY MCSymmetry
