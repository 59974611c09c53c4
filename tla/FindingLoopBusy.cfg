SPECIFICATION FairSpec
CONSTANTS
  Findings = {f1}
  Contract = {f1}
  Runs = {w1}
  MaxRows = 2
  Threshold = 2
  CooldownAt = 2
PROPERTIES AlwaysRetriedOrEscalated
