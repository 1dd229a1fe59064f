SPECIFICATION TreeSpec
CONSTANTS
    Users = {u1, u2, u3}
    None = None
    Movers = {m1, m2}
INVARIANTS Acyclic
SYMMETRY Symmetry
