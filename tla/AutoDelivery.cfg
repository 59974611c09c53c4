SPECIFICATION FairSpec
CONSTANTS
  f1 = f1
  f2 = f2
  Files <- MCFiles
  Findings = {f1, f2}
  NoFinding = NoFinding
  Batches <- MCBatches
  Remediable = {f1, f2}
  SourceOnly = {f2}
  PropertyChecked = {f1}
  MaxFiles = 2
  MaxIterations = 2
INVARIANTS DeliveredIsValidated EveryClusterJudged ResultIsHonest
PROPERTIES CallEnds
CHECK_DEADLOCK FALSE
