SPECIFICATION FairSpec
CONSTANTS
  Jobs = {j1, j2}
  NoJob = NoJob
  GenTimeout = 2
  SideBound = 1
  DeliverTimeout = 2
  ReapAge = 5
INVARIANTS CompletedChainHasOnboardJob
PROPERTIES OnboardNeverFalseFailed OnboardTerminalIsFinal EveryJobEnds
