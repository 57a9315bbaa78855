CONSTANTS
  Clients = {c1, c2, c3}
  Keys = {k1, k2}
  Vals = {v1, v2}
  None = None

SPECIFICATION Spec

SYMMETRY MCSymmetry

INVARIANT TypeOK
PROPERTY KVSpec
