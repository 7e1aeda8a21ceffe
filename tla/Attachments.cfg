SPECIFICATION Spec
CONSTANTS
  a1 = a1  a2 = a2
  m1 = m1  m2 = m2  m3 = m3
  e1 = e1
  w1 = w1  w2 = w2
  None = None
  Uploads = {a1, a2}
  Messages = {m1, m2, m3}
  Entries = {e1}
  Workers = {w1, w2}
  MaxMishaps = 1
SYMMETRY MCSymmetry
CHECK_DEADLOCK FALSE
INVARIANT TypeOK
INVARIANT ReferencesAreServed
INVARIANT NothingIsLeftBehind
INVARIANT RepliesGoWithTheThread
