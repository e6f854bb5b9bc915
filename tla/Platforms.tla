------------------------------- MODULE Platforms -------------------------------
(***************************************************************************)
(* The checks of storage and hypervisors (watchpost/checks/platforms.py):  *)
(* TrueNAS, Proxmox VE and vSphere.  A reply is None when the connection,  *)
(* the certificate, the credential or the call failed; otherwise it is the *)
(* list the API returned, with None for a property that is not set.        *)
(***************************************************************************)
EXTENDS Verdicts

-----------------------------------------------------------------------------
(* TrueNAS *)

PoolState(p) == IF ~ p.healthy THEN "fail" ELSE IF p.warning THEN "warn" ELSE "ok"

PoolUsed(p) == Pct(p.allocated, p.size)

\* _pool
Pool(p) == CheckResult(PoolState(p), PoolUsed(p))

\* Faulty variant: the state of the first pool.
WorstPool_First(pools) == PoolState(pools[1])

WorstPool(pools) == Worst({PoolState(p) : p \in Range(pools)})

\* _pools: the worst state with the fullest pool.
Pools(pools) ==
  LET used == {PoolUsed(p) : p \in Range(pools)} \ {None}
  IN  IF pools = <<>> THEN Fail
      ELSE CheckResult(WorstPool(pools), IF used = {} THEN None ELSE Max(used))

\* ALERT_LEVELS
Levels == <<"INFO", "NOTICE", "WARNING", "ERROR", "CRITICAL", "ALERT", "EMERGENCY">>
LevelOf(level) == SelectInSeq(Levels, LAMBDA l : l = level)

\* Faulty variant: how bad it is follows from the mildest of the alerts.
Gravest_Mildest(active) == Min({LevelOf(a.level) : a \in active})

Gravest(active) == Max({LevelOf(a.level) : a \in active})

\* _alerts: those that were not dismissed, of the chosen level or a worse one; a level
\* that is not known counts for nothing.
TrueNASAlerts(m, alerts) ==
  LET active == {a \in alerts : ~ a.dismissed /\ LevelOf(a.level) >= LevelOf(m.min_alert_level)}
  IN  IF active = {} THEN Ok(0)
      ELSE CheckResult(IF Gravest(active) >= LevelOf("CRITICAL") THEN "fail" ELSE "warn",
                   Cardinality(active))

TrueNAS(m, r) ==
  IF r = None THEN Fail
  ELSE CASE m.mode = "alerts" -> TrueNASAlerts(m, r)
         [] m.mode = "pools"  -> Pools(r)
         [] m.mode = "pool"   ->
              LET p == FirstOf(r, LAMBDA x : x.name = m.pool) IN IF p = None THEN Fail ELSE Pool(p)

-----------------------------------------------------------------------------
(* Proxmox VE: nodes, guests and storages in one list *)

\* A token without permissions sees an empty list.
Node(m, n) ==
  IF n = None \/ n.status # "online" THEN Fail
  ELSE CASE m.mode = "node_cpu"    -> Ok(OrZero(n.cpu))
         [] m.mode = "node_memory" -> Stated(Pct(n.mem, n.maxmem))
         [] m.mode = "node"        -> Ok(OrZero(n.uptime))

Guest(g) ==
  IF g = None \/ g.status # "running" \/ g.hastate = "error" THEN Fail ELSE Ok(OrZero(g.cpu))

Storage(s) ==
  IF s = None \/ s.status # "available" THEN Fail ELSE Stated(Pct(s.disk, s.maxdisk))

Proxmox(m, r) ==
  IF r \in {None, <<>>} THEN Fail
  ELSE CASE m.mode = "guest" ->
              Guest(FirstOf(r, LAMBDA i : i.type = "guest" /\ m.guest \in {i.name, i.vmid}))
         [] m.mode = "storage" ->
              Storage(FirstOf(r, LAMBDA i : i.type = "storage" /\ i.name = m.storage
                                            /\ m.node \in {None, i.node}))
         [] OTHER -> Node(m, FirstOf(r, LAMBDA i : i.type = "node" /\ i.name = m.node))

-----------------------------------------------------------------------------
(* vSphere: the rows of the property collector *)

Host(m, h) ==
  IF h.connection # "connected" THEN Fail
  ELSE CASE m.mode = "host_cpu"    -> Stated(Pct(h.cpu, OrZero(h.mhz) * OrZero(h.cores)))
         [] m.mode = "host_memory" -> Stated(Pct(h.mem, OrZero(h.memory)))
         [] m.mode = "host" ->
              IF h.status = "red" THEN Fail
              ELSE CheckResult(IF h.maintenance \/ h.status = "yellow" THEN "warn" ELSE "ok",
                           OrZero(h.uptime))

Datastore(d) ==
  IF ~ d.accessible THEN Fail
  ELSE Stated(Pct(OrZero(d.capacity) - OrZero(d.free), OrZero(d.capacity)))

\* Without VMware Tools there is no heartbeat to judge by.
VM(v) ==
  IF v.power # "poweredOn" \/ v.heartbeat = "red" THEN Fail
  ELSE CheckResult(IF v.heartbeat = "yellow" THEN "warn" ELSE "ok", Pct(v.cpu, v.maxcpu))

\* Several hosts, and the monitor does not say which.
Ambiguous(m, rows) == m.entity = None /\ m.mode \notin {"datastore", "vm"} /\ Len(rows) > 1

VSphere(m, r) ==
  IF r = None THEN Fail
  ELSE LET row == FirstOf(r, LAMBDA x : m.entity \in {None, x.name})
       IN  IF Ambiguous(m, r) \/ row = None THEN Fail
           ELSE CASE m.mode = "datastore" -> Datastore(row)
                  [] m.mode = "vm"        -> VM(row)
                  [] OTHER                -> Host(m, row)
=============================================================================
