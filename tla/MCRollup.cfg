CONSTANTS
  core = core  access = access  server = server  guest = guest
  None = None
  Order <- FourMonitors
  Group <- TwoGroups
  NonCritical = {server}
SPECIFICATION Spec
INVARIANTS BlockedIffOutageChain BlockerIsRootCause GroupShowsWorst
PROPERTIES OutageOnlySpreads
