-------------------------------- MODULE Replies --------------------------------
(***************************************************************************)
(* A monitor whose check remembers nothing (watchpost/checks/__init__.py:  *)
(* REGISTRY, watchpost/checks/base.py: Check.run): each poll gets some     *)
(* reply, and the verdict follows from it and from what is configured.     *)
(***************************************************************************)
EXTENDS Net, Agents, Platforms, Apps

CONSTANT Monitored   \* pairs of a monitor and the replies it may get

VARIABLES probed,    \* the monitor
          reply,     \* the last reply
          judged     \* the verdict on it

replyVars == <<probed, reply, judged>>

\* REGISTRY, and what a check does with its mode.
Probed(m, r) ==
  CASE m.type = "ping"     -> Ping(m, r)
    [] m.type = "tcp"      -> Tcp(m, r)
    [] m.type = "http"     -> Http(m, r)
    [] m.type = "dns"      -> Dns(m, r)
    [] m.type = "tls_cert" -> TlsCert(m, r)
    [] m.type = "mqtt"     -> Mqtt(m, r)
    [] m.type = "snmp" ->
         (CASE m.mode = "oid" -> Oid(r) [] m.mode = "cpu" -> SnmpCpu(r) [] m.mode = "memory" -> SnmpMemory(r))
    [] m.type = "linux" ->
         (CASE m.mode = "cpu"     -> LinuxCpu(r)
            [] m.mode = "memory"  -> LinuxMemory(r)
            [] m.mode = "disk"    -> Disk(m, r)
            [] m.mode = "load"    -> Load(r)
            [] m.mode = "service" -> Service(r)
            [] m.mode = "command" -> Command(r))
    [] m.type = "winrm"         -> IF m.mode = "service" THEN Service(r) ELSE Command(r)
    [] m.type = "wmi"           -> Wmi(m, r)
    [] m.type = "docker"        -> Summary(m, r)
    [] m.type = "truenas"       -> TrueNAS(m, r)
    [] m.type = "proxmox"       -> Proxmox(m, r)
    [] m.type = "vsphere"       -> VSphere(m, r)
    [] m.type = "homeassistant" -> HomeAssistant(m, r)
    [] m.type = "unifi"         -> UniFi(m, r)
    [] m.type = "technitium"    -> Technitium(m, r)

\* Check.thresholds, and TlsCertCheck's.
ThresholdsOf(m) == IF m.type = "tls_cert" /\ m.th = None THEN DefaultThresholds ELSE m.th

\* Check.run
Judge(m, r) == Applied(ThresholdsOf(m), Probed(m, r))

Answers(m, r) ==
  /\ probed' = m /\ reply' = r
  /\ judged' = Judge(m, r)

RepliesInit ==
  \E p \in Monitored : probed = p[1] /\ reply \in p[2] /\ judged = Judge(probed, reply)

\* The next poll.
Run == \E p \in Monitored : p[1] = probed /\ \E r \in p[2] : Answers(probed, r)

RepliesSpec == RepliesInit /\ [][Run]_replyVars

-----------------------------------------------------------------------------
(* Which reply is worse, whatever the check makes of it *)

Burdens  == {"rtt", "ms", "used", "load", "allocated", "cpu", "mem", "disk", "failures", "number"}
Reserves == {"received", "days", "available", "free"}
Assets   == {"healthy", "valid", "accessible"}
Troubles == {"warning", "maintenance", "gone", "update", "updatable"}
Fine     == {"200", "expected", "ok", "online", "running", "available", "connected", "poweredOn", "green", "ONLINE", "CONNECTED"}

AtLeast(x, y) == x = y \/ (None \notin {x, y} /\ x >= y)

\* One number of two lists for one: the list of a core for each, of a row for each.
EachAtLeast(xs, ys) == Len(xs) = Len(ys) /\ \A i \in DOMAIN xs : AtLeast(xs[i], ys[i])

\* In as much time between two readings, less of it idle; or a reading is missing.
NoMoreIdle(xs, ys) ==
  \/ Len(xs) # 2
  \/ /\ Len(ys) = 2
     /\ \A i \in 1..2 : xs[i].total = ys[i].total
     /\ xs[2].idle - xs[1].idle <= ys[2].idle - ys[1].idle

\* As much memory and more of it used; or none is found.
NoLessUsed(xs, ys) ==
  xs = <<>> \/ (ys # <<>> /\ xs[1].size = ys[1].size /\ OrZero(xs[1].used) >= OrZero(ys[1].used))

\* What a reply says under one name is at least as bad as what another says.
NoBetterIn(name, worse, better) ==
  \/ worse = better
  \/ name \in Burdens  /\ AtLeast(worse, better)
  \/ name \in Reserves /\ AtLeast(better, worse)
  \/ name \in Assets   /\ better
  \/ name \in Troubles /\ worse
  \/ name \in {"status", "state", "banner", "text", "power", "heartbeat", "connection"} /\ better \in Fine
  \/ name = "answers" /\ worse \subseteq better
  \/ name = "containers" /\ better \subseteq worse
  \/ name = "loads" /\ (worse = <<>> \/ EachAtLeast(worse, better))
  \/ name = "rows" /\ EachAtLeast(worse, better)
  \/ name = "samples" /\ NoMoreIdle(worse, better)
  \/ name = "ram" /\ NoLessUsed(worse, better)

\* What the monitor is about, and must not be missing.
Required(m) ==
  CASE m.type = "mqtt"                             -> {name \in {"message", "number"} : m.topic /\ (name = "number" => m.numeric)}
    [] m.type = "snmp" /\ m.mode = "oid"           -> {"raw"}
    [] m.type = "linux" /\ m.mode = "memory"       -> {"total", "available"}
    [] m.type \in {"linux", "winrm"} /\ m.mode = "command" -> {"number"}
    [] m.type = "proxmox" /\ m.mode = "node_memory" -> {"mem", "maxmem"}
    [] m.type = "proxmox" /\ m.mode = "storage"    -> {"disk", "maxdisk"}
    [] m.type = "vsphere" /\ m.mode = "host_cpu"   -> {"cpu", "mhz", "cores"}
    [] m.type = "vsphere" /\ m.mode = "host_memory" -> {"mem", "memory"}
    [] m.type = "vsphere" /\ m.mode = "datastore"  -> {"capacity"}
    [] m.type = "unifi" /\ m.mode = "device_cpu"   -> {"cpu"}
    [] m.type = "unifi" /\ m.mode = "device_memory" -> {"mem"}
    [] OTHER -> {}

NoBetterRecord(m, worse, better) ==
  /\ DOMAIN worse = DOMAIN better
  /\ \A name \in DOMAIN worse :
       NoBetterIn(name, worse[name], better[name]) \/ (name \in Required(m) /\ worse[name] = None)

\* A monitor of all items of a list, or of one of them.
OfAll(m) ==
  (m.type = "truenas" /\ m.mode = "pools") \/ (m.type = "unifi" /\ m.mode \in {"devices", "cameras", "firmware"})
OfOne(m) ==
  \/ m.type = "truenas" /\ m.mode = "pool"
  \/ m.type \in {"proxmox", "vsphere"}
  \/ m.type = "unifi" /\ m.mode \notin {"info", "devices", "cameras", "firmware"}

\* For each item there is one that is no better; no pool at all is the worst.
NoBetterItems(m, worse, better) ==
  /\ m.type = "truenas" => better # <<>>
  /\ \A i \in DOMAIN better : \E j \in DOMAIN worse : NoBetterRecord(m, worse[j], better[i])

\* No answer is the worst. Of pools, devices, alerts and entities more is worse; a
\* list in which one item is looked for is compared item by item.
NoBetter(m, worse, better) ==
  \/ worse = None
  \/ /\ better # None
     /\ CASE m.type = "homeassistant" /\ m.mode = "entity" ->
               \/ worse.state \in {"unavailable", "unknown"}
               \/ worse.state = better.state /\ AtLeast(worse.number, better.number)
          [] m.type = "homeassistant" /\ m.mode \in {"unavailable", "updates"} -> better \subseteq worse
          [] m.type = "truenas" /\ m.mode = "alerts" -> better \subseteq worse
          [] OfAll(m) -> (m.type = "truenas" /\ worse = <<>>) \/ NoBetterItems(m, worse, better)
          [] OfOne(m) ->
               \/ worse = <<>>
               \/ Len(worse) = Len(better) /\ \A i \in DOMAIN worse : NoBetterRecord(m, worse[i], better[i])
          [] OTHER -> NoBetterRecord(m, worse, better)

\* A reply that is worse in some respects and better in none never gets a better
\* result. Worse is: no reply; a number or a state that is worse, or missing where
\* the monitor is about it; a busier core; a larger number in a row of a query; a
\* pool, device, container, alert or entity in trouble more; a device or a pool more.
\* (checks/base.py:44-65 and every _probe)
WorseReplyNeverBetter ==
  [][probed' = probed /\ NoBetter(probed, reply', reply)
       => Rank[judged'.result] >= Rank[judged.result]]_replyVars

\* The monitor of one device or camera that is like one of all of them.
OneOf(m) == [m EXCEPT !.mode = IF @ = "devices" THEN "device" ELSE "camera"]

PoolResults == {Applied(probed.th, Pool(p)).result : p \in Range(reply)}

DeviceResults ==
  {Applied(probed.th, Device(OneOf(probed), d)).result : d \in {d \in Range(reply) : d.name \notin probed.ignore}}

\* The results of the parts a monitor of a whole looks at, if each had a monitor of
\* its own with the same thresholds.
PartResults ==
  CASE reply # None /\ probed.type = "truenas" /\ probed.mode = "pools" -> PoolResults
    [] reply # None /\ probed.type = "unifi" /\ probed.mode \in {"devices", "cameras"} /\ probed.th = None ->
         DeviceResults
    [] OTHER -> {}

\* A monitor of all pools, devices or cameras is never better off than a monitor of
\* one of them would be. (platforms.py:137-164; apps.py:195-217, 240-266)
AggregateHidesNothing == \A r \in PartResults : Rank[r] <= Rank[judged.result]
=============================================================================
