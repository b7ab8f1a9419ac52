\* One push on an ample heap already loses a plane.
CONSTANTS
    MaxFrames = 3
    Pts = {1, 2}
    Nodes = {n1, n2, n3, n4}
    Blocks = {b1, b2, b3, b4}
    NULL = NULL
    HeapFails = FALSE
SPECIFICATION Spec
INVARIANT PlanesOwned
