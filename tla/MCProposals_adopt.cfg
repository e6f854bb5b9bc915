CONSTANTS
  None = None
  Slugged <- SlugOf
  Odd <- NotSafe
  Situations <- All
  MaxHosts = 4
  MaxExcluded = 5
  Addresses <- AllAddresses
  Ranked <- HostOrder
  Hyphenated <- WithHyphen
SPECIFICATION ProposalsSpec
INVARIANTS LoadedIffSound AdoptedLoads RescanProposesNothing ScansTheRequest 
\* Discovery ends when it has written its proposals twice.
CHECK_DEADLOCK FALSE
