SPECIFICATION Spec
CONSTANTS
  None = None
  Requests = {q1, q2}
  SessionIds = {s1}
  Keys = {k1, k2}
  Docs = {d1, d2}
  Payloads = {p1}
  Rotations = {t1}
  MaxVersion = 1
SYMMETRY Symmetry
INVARIANTS
  SessionsNeverAhead
PROPERTIES
  ImplementsAtomicAccount
  OnlyCurrentSessionsWrite
  AckedRotationIsInForce
  RefusedRotationIsNotInForce
