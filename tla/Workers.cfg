CONSTANTS
  j1 = j1
  j2 = j2
  r1 = r1
  Worker = {w1, w2}
  Request = {r1, r2, r3, r4}
  Jti = {j1, j2}
  JtiOf <- TwoTokens
  Faults = TRUE
SPECIFICATION Spec
SYMMETRY Symmetric
INVARIANT TypeOK
INVARIANT AtMostOncePerWorker
INVARIANT RecordedIsFinal
CHECK_DEADLOCK FALSE
