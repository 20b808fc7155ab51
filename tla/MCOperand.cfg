SPECIFICATION Spec
CONSTANTS
    ArgumentLists <- MCArgumentLists
    Archs = {"MC6809", "HD6309"}
    Bodies = {"stub", "bitor"}
INVARIANTS
    StaysInText
    
    
    
PROPERTIES
    Terminates
