SPECIFICATION Spec
CONSTANTS
    n1 = n1
    n2 = n2
    n3 = n3
    Nodes <- MCNodes
    Nobody = Nobody
    MaxEdits = 3
    MaxRepeating = 2
    MaxLoaded = 1
    MaxBroken = 1
    LastImport = 0
    LastBreakOff = 1
    MaxAsked = 2
SYMMETRY Symmetry
INVARIANTS
    ExportedShape
    CyclesAreCut
    EditorInStep
