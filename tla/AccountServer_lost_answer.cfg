SPECIFICATION Spec
CONSTANTS
  None = None
  Requests = {q1, q2}
  SessionIds = {s1}
  Keys = {k1, k2}
  Docs = {d1}
  Payloads = {p1}
  Rotations = {t1}
  MaxVersion = 1
SYMMETRY Symmetry
PROPERTIES
  LostAnswerIsRecovered
