CONSTANTS
  ntfy = ntfy  server = server  switch = switch  maintenance = maintenance
  None = None
  Monitors = {server, switch}
  Parents <- BehindSwitch
  Targets = {ntfy}
  NotifyOn <- DefaultNotifyOn
  Wanted <- AllTargets
  Situations <- FourSituations
SPECIFICATION MCFairSpec
INVARIANTS ObservedIsStored TransitionsStored CloseWaitsForCommit MissedOnlyWhenCutOrFailed
PROPERTIES StopEnds
\* The service exits.
CHECK_DEADLOCK FALSE
