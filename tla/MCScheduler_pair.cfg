CONSTANTS
  core = core  access = access  server = server  guest = guest
  None = None
  Order <- PairOrder
  Parents <- Pair
  FailuresToDown <- TwoEach
  RecoveriesToUp <- OneEach
  Outcomes <- PlainParents
  MaxConcurrency = 1
  StoreMayFail = TRUE
  MaxCycles <- ThreeEach
SPECIFICATION MCFairSpec
INVARIANTS PollsSerialised HolderNeverWaits RootsAlertedExactly
PROPERTIES KeepsPagerPromise EveryPollReturns
\* Each loop ends after its MaxCycles polls; EveryPollReturns is what tells that
\* end from tasks that wait for each other.
CHECK_DEADLOCK FALSE
