SPECIFICATION Spec
CONSTANTS
  Thread = {t1, t2}
  NoThread = NoThread
  Window = 1
  ExpiresAt = 1
  MaxCalls = 2
  MaxTime = 2
INVARIANTS TypeOK NoncesNeverClash
PROPERTIES ExpiryAnswersAgree ActsAtMostOnce
SYMMETRY Alike
