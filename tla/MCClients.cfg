\* Two servers whose instances come and go.
SPECIFICATION Spec
CONSTANTS
    ServerIds = {a, b}
    MaxInstances = 3
SYMMETRY Symmetry
INVARIANTS InRange Rotates
