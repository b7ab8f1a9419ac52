\* Push, pop, release, destroy and re-create with planes running out.
CONSTANTS
    MaxFrames = 3
    Pts = {1, 2}
    Nodes = {n1, n2, n3, n4, n5}
    Blocks = {b1, b2, b3}
    NULL = NULL
    HeapFails = TRUE
SYMMETRY MCSymmetry
SPECIFICATION Spec
INVARIANTS TypeOK ListOK NodesAccounted PlanesIntact
PROPERTY ImplementsFifo
