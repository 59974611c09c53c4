SPECIFICATION Spec
CONSTANTS
  Attempts = {a1}
  NoAttempt = NoAttempt
  Cancellable = {}
  Batches = {{"cluster", "cicd"}, {"cluster", "source"}}
  WorkBound = 1
  StaleAfter = 2
INVARIANTS ReportedCategoriesLand
