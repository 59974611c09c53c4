SPECIFICATION FairSpec
CONSTANTS
  Attempts = {a1}
  NoAttempt = NoAttempt
  Cancellable = {a1}
  Batches = {{"cluster"}}
  WorkBound = 1
  StaleAfter = 2
PROPERTIES CancelledRowSettles
