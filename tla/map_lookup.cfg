SPECIFICATION Spec
CONSTANTS
    r1 = r1
    r2 = r2
    r3 = r3
    r4 = r4
    Requests = {r1, r2, r3, r4}
    Null = Null
    InitialCapacity = 3
SYMMETRY Symmetry
INVARIANTS
    NeverAnothers
    LostOnlyAmongMany
