CONSTANTS
  password = password  sshkey = sshkey  apikey = apikey  nas = nas  domain = domain  esx = esx
  None = None  h1 = h1  h2 = h2  h3 = h3  h4 = h4
  Hosts = {h1, h2, h3, h4}
  Networks <- SmallNetworks
  Creds <- Everything
  PasswordOnly = {password}
  MaxAuthFailures = 1
  Concurrency = 2
  RequireTls <- TlsRequired
  TrustOnFirstUse = TRUE
  Garbling = TRUE
SPECIFICATION FairSpec
INVARIANTS NeverOvershoots BoundedOvershoot OneHostUntilProven TriedOnlyBehindGate
PROPERTIES RetiredIsLeftAlone EveryScanEnds
\* The scan ends; EveryScanEnds says that it does so only when every host is done.
CHECK_DEADLOCK FALSE
