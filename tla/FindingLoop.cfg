SPECIFICATION FairSpec
CONSTANTS
  Findings = {f1}
  Contract = {f1}
  Runs = {w1, w2}
  MaxRows = 3
  Threshold = 2
  CooldownAt = 2
INVARIANTS RetriesBounded EscalationsBounded
PROPERTIES FailureIsAnswered
