-------------------------------- MODULE Agents --------------------------------
(***************************************************************************)
(* The checks that ask an agent on the host and remember nothing           *)
(* (watchpost/checks/snmp.py: oid, cpu and memory; watchpost/checks/ssh.py *)
(* but uptime and container; watchpost/checks/windows.py).  A reply is     *)
(* None when there was no answer: a time out, a refused credential, a host *)
(* key that is not known, an exit code.                                    *)
(***************************************************************************)
EXTENDS Verdicts

\* sum(), where None counts for nothing.
Total(numbers) ==
  LET upTo[i \in 0..Len(numbers)] == IF i = 0 THEN 0 ELSE upTo[i - 1] + OrZero(numbers[i])
  IN  upTo[Len(numbers)]

Oid(r) == IF r = None \/ r.raw = None THEN Fail ELSE Ok(r.number)

\* hrProcessorLoad of each core.
SnmpCpu(r) == IF r = None \/ r.loads = <<>> THEN Fail ELSE Ok(Total(r.loads) \div Len(r.loads))

\* The first row of the storage table that is RAM. The agent may leave out any of
\* the numbers, which then counts as zero.
SnmpMemory(r) ==
  IF r = None \/ r.ram = <<>> THEN Fail
  ELSE LET row == r.ram[1]
       IN  IF OrZero(row.size) <= 0 THEN Fail ELSE Ok(Pct(OrZero(row.used), row.size))

\* Two readings of /proc/stat a second apart: the time that was not idle.
LinuxCpu(r) ==
  IF r = None \/ Len(r.samples) # 2 THEN Fail
  ELSE LET total == r.samples[2].total - r.samples[1].total
           idle  == r.samples[2].idle - r.samples[1].idle
       IN  IF total <= 0 THEN Fail ELSE Ok(100 - (100 * idle) \div total)

LinuxMemory(r) ==
  IF r = None \/ r.total = None \/ r.available = None THEN Fail
  ELSE Stated(Pct(r.total - r.available, r.total))

\* df reports the file system a path is on: only a mount point counts.
Disk(m, r) == IF r = None \/ r.mount # m.mount THEN Fail ELSE Ok(r.used)

Load(r) == IF r = None THEN Fail ELSE Ok((100 * r.load) \div Max({r.cores, 1}))

\* systemctl is-active, and Get-Service.
Service(r) == IF r = None \/ r.status # "running" THEN Fail ELSE Ok(None)

\* A command or script, and the number on its last line.
Command(r) == IF r = None \/ r.number = None THEN Fail ELSE Ok(r.number)

\* A container counts as a problem if it is unhealthy, or stopped although its
\* restart policy would have it run.
Troubled(c) ==
  \/ c.health = "unhealthy"
  \/ c.status # "running" /\ c.policy \in {"always", "unless-stopped"}

\* docker ps, then docker inspect of what it listed, which fails as a whole if one of
\* them is gone by then.
Summary(m, r) ==
  IF r = None \/ r.gone THEN Fail
  ELSE Counted(m.th, Cardinality({c \in r.containers : Troubled(c)}), "fail")

\* The rows of a WQL query, None for one that is no number.
Wmi(m, r) ==
  IF r = None THEN Fail
  ELSE IF m.aggregate = "count" THEN Ok(Len(r.rows))
  ELSE LET places  == {i \in DOMAIN r.rows : r.rows[i] # None}
           numbers == {r.rows[i] : i \in places}
       IN  IF places = {} THEN Fail
           ELSE CheckResult(IF places # DOMAIN r.rows THEN "warn" ELSE "ok",
                        CASE m.aggregate = "first" -> r.rows[Min(places)]
                          [] m.aggregate = "sum" -> Total(r.rows)
                          [] m.aggregate = "avg" -> Total(r.rows) \div Cardinality(places)
                          [] m.aggregate = "max" -> Max(numbers)
                          [] m.aggregate = "min" -> Min(numbers))
=============================================================================
