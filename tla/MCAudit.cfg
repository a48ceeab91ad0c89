SPECIFICATION Spec
CONSTANTS
  Writers = {w1, w2}
  CaseRefs = {c1}
  Bodies = {b1, b2}
  Omitting = {b2}
  Ids <- ThreeIds
  MaxTime = 3
SYMMETRY WriterSymmetry
INVARIANTS
  TypeOK
  Linked
  CalmLogVerifies
  RemovalDetected
