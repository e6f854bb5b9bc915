CONSTANTS
  files = files  sql = sql  print = print  alice = alice  bob = bob  t1 = t1  t2 = t2
  None = None
  Monitors = {files, sql, print}
  Threads = {t1, t2}
  Accounts = {alice, bob}
  Account <- AccountOfEach
  Paths = {alice, bob}
  Cache <- OwnCache
  Ttl = 2
  Lifetime = 3
  Boot = 0
  MaxTime = 6
SPECIFICATION MCSpec
INVARIANTS FreshTicket
