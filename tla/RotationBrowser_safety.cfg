SPECIFICATION Spec
CONSTANTS
  t1 = t1
  t2 = t2
  x1 = x1
  x2 = x2
  Keys = {k1, k2}
  Docs = {d1}
  Payloads = {p1}
  Rotations = {x1, x2}
  MaxVersion = 2
  None = None
  Tabs = {t1, t2}
  Cases <- BrowserCases
SYMMETRY Symmetry
INVARIANTS RotatorHoldsKey
PROPERTIES SuccessIsTrue OnlyOvertakenWritesStrand
