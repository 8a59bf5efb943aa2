SPECIFICATION Spec
CONSTANTS
    EXTERNAL = EXTERNAL  INTERNAL = INTERNAL
    Purpose <- MCPurpose
    Importable <- MCImportable
    Window = 2
    Invalid = {1}
    Main = main
    Payer = {w1, w2}
    User = {u1, u2}
    MaxUsed = 2
SYMMETRY MCSymmetry
INVARIANTS TypeOK KeysInOrder FreshForEachCall
PROPERTIES OpensWithWindow CurrentKept
