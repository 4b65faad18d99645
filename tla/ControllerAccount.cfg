SPECIFICATION FairSpec
CONSTANTS
  Thread = {t1, t2}
  NoThread = NoThread
  Message = {e1, e2}
  NoMessage = NoMessage
  MaxCalls = 2
INVARIANTS TypeOK MutualExclusion LastErrorIsLatestFailure PoisonShutsTheHandle
PROPERTIES IsAtomic EveryCallReturns
