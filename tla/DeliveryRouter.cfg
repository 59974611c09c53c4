SPECIFICATION FairSpec
CONSTANTS
  Attempts = {a1, a2}
  NoAttempt = NoAttempt
  Cancellable = {a1}
  Batches = {{"cluster", "cicd"}, {"source", "atrest"}}
  WorkBound = 1
  StaleAfter = 1
INVARIANTS OneDeliveryAtATime NoForeignPush
PROPERTIES LockRecovers RowSettles
