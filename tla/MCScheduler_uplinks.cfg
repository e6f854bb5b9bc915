CONSTANTS
  core = core  access = access  server = server  guest = guest
  None = None
  Order <- ChainOrder
  Parents <- Uplinks
  FailuresToDown <- OneEach
  RecoveriesToUp <- OneEach
  Outcomes <- PlainEach
  MaxConcurrency = 2
  StoreMayFail = FALSE
  MaxCycles <- RootsTwice
SPECIFICATION MCSpec
INVARIANTS NoLostProblem
