CONSTANTS
  core = core  access = access  server = server  guest = guest
  None = None
  Order <- PairOrder
  Parents <- Pair
  FailuresToDown <- OneEach
  RecoveriesToUp <- TwoEach
  Outcomes <- PlainParents
  MaxConcurrency = 2
  StoreMayFail = FALSE
  MaxCycles <- ThreeEach
SPECIFICATION MCSpec
INVARIANTS NoLostProblem
