CONSTANTS
  password = password  sshkey = sshkey  apikey = apikey  nas = nas  domain = domain  esx = esx
  None = None  h1 = h1  h2 = h2  h3 = h3  h4 = h4
  Hosts = {h1, h2, h3}
  Networks <- WebServers
  Creds <- UnifiOnly
  PasswordOnly = {}
  MaxAuthFailures = 1
  Concurrency = 3
  RequireTls <- TlsRequired
  TrustOnFirstUse = TRUE
  Garbling = FALSE
SPECIFICATION FairSpec
INVARIANTS NeverOvershoots
CHECK_DEADLOCK FALSE
