------------------------------ MODULE SoundReplies ------------------------------
(***************************************************************************)
(* What the theorems about Replies assume of the monitors and of what the  *)
(* checks read: types and modes the configuration knows, thresholds that   *)
(* point the way a value gets worse, and replies with the fields a check   *)
(* asks for, of the kind it expects.                                       *)
(***************************************************************************)
EXTENDS Replies

\* The types and modes the configuration knows.
Known(m) ==
  \/ m.type \in {"ping", "tcp", "http", "dns", "tls_cert", "mqtt", "docker", "wmi"}
  \/ m.type = "snmp" /\ m.mode \in {"oid", "cpu", "memory"}
  \/ m.type = "linux" /\ m.mode \in {"cpu", "memory", "disk", "load", "service", "command"}
  \/ m.type = "winrm" /\ m.mode \in {"service", "command"}
  \/ m.type = "truenas" /\ m.mode \in {"alerts", "pools", "pool"}
  \/ m.type = "proxmox" /\ m.mode \in {"guest", "storage", "node", "node_cpu", "node_memory"}
  \/ m.type = "vsphere" /\ m.mode \in {"datastore", "vm", "host", "host_cpu", "host_memory"}
  \/ m.type = "homeassistant" /\ m.mode \in {"api", "entity", "updates", "unavailable"}
  \/ m.type = "unifi" /\ m.mode \in {"info", "devices", "cameras", "firmware", "device", "camera",
                                     "device_cpu", "device_memory"}
  \/ m.type = "technitium" /\ m.mode \in {"update", "stats"}

\* Thresholds point the way in which the value gets worse: down for the days a
\* certificate is valid, up for everything else.
Toward(m) == IF m.type = "tls_cert" THEN "below" ELSE "above"

ThresholdsFit(m) ==
  LET th == ThresholdsOf(m)
  IN  th = None \/ /\ th.direction = Toward(m)
                   /\ {th.warn, th.crit} \subseteq Int \union {None}

\* A monitor that says what it expects, expects what is fine; one with a mode says it.
Expects(m) ==
  /\ m.type = "ping" => m.count \in Nat
  /\ m.type = "http" => "200" \in m.expect_status
  /\ m.type = "unifi" => "mode" \in DOMAIN m
  /\ m.type = "wmi" => m.aggregate \in {"first", "sum", "avg", "max", "min", "count"}

Monitors(m) == Known(m) /\ ThresholdsFit(m) /\ Expects(m)

\* What is fine for this monitor, of all that is for one or the other.
FineFor(m, name) ==
  CASE name \in {"banner", "text"} -> {"expected"}
    [] name = "connection"         -> {"connected"}
    [] name = "power"              -> {"poweredOn"}
    [] name = "state" /\ m.type = "unifi"            -> {Good(m)}
    [] name = "status" /\ m.type = "http"             -> {"200"}
    [] name = "status" /\ m.type \in {"linux", "winrm"} -> {"running"}
    [] name = "status" /\ m.type = "technitium"       -> {"ok"}
    [] name = "status" /\ m.type = "proxmox" ->
         {CASE m.mode = "guest" -> "running" [] m.mode = "storage" -> "available" [] OTHER -> "online"}
    [] OTHER -> Fine

\* Numbers that are not negative: what was counted, and totals that a share is of.
Amounts == {"received", "total", "size", "maxmem", "maxdisk", "maxcpu", "mhz", "cores", "memory", "capacity", "free", "queries"}

\* A field of a reply.
FieldSound(m, name, x) ==
  /\ name \in Burdens \union Reserves => x \in Int \union {None}
  /\ name \in Amounts => x \in Nat \union {None}
  /\ name = "cores" /\ m.type = "linux" => x # None
  /\ name \in Assets \union Troubles => x \in BOOLEAN
  /\ name = "loads" => x \in Seq(Int)
  /\ name = "rows" => x \in Seq(Int \union {None})
  /\ name = "samples" => x \in Seq([total : Int, idle : Int])
  /\ name = "ram" => x \in Seq([size : Nat \union {None}, used : Int \union {None}])
  /\ name \in {"status", "state", "banner", "text", "power", "heartbeat", "connection"} /\ x \in Fine
       => x \in FineFor(m, name)

\* What a check of this type, or of this type and mode, asks a reply for, or each item
\* of a list.
TypeFields ==
  [ping     |-> {"received", "rtt"},
   tcp      |-> {"banner", "ms"},
   http     |-> {"status", "text", "ms"},
   dns      |-> {"answers", "ms"},
   tls_cert |-> {"valid", "days"},
   mqtt     |-> {"message", "text", "number"},
   wmi      |-> {"rows"},
   docker   |-> {"gone", "containers"}]

PoolFields  == {"name", "healthy", "warning", "allocated", "size"}
NodeFields  == {"type", "name", "status", "cpu", "mem", "maxmem", "uptime"}
HostFields  == {"name", "connection", "status", "maintenance", "uptime", "cpu", "mhz", "cores", "mem", "memory"}
DeviceFields == {"name", "mac", "state"}

ModeFields ==
  [snmp    |-> [oid |-> {"raw", "number"}, cpu |-> {"loads"}, memory |-> {"ram"}],
   linux   |-> [cpu |-> {"samples"}, memory |-> {"total", "available"}, disk |-> {"mount", "used"},
                load |-> {"load", "cores"}, service |-> {"status"}, command |-> {"number"}],
   winrm   |-> [service |-> {"status"}, command |-> {"number"}],
   truenas |-> [pools |-> PoolFields, pool |-> PoolFields],
   proxmox |-> [node |-> NodeFields, node_cpu |-> NodeFields, node_memory |-> NodeFields,
                guest   |-> {"type", "name", "vmid", "status", "hastate", "cpu"},
                storage |-> {"type", "name", "node", "status", "disk", "maxdisk"}],
   vsphere |-> [host |-> HostFields, host_cpu |-> HostFields, host_memory |-> HostFields,
                datastore |-> {"name", "accessible", "capacity", "free"},
                vm        |-> {"name", "power", "heartbeat", "cpu", "maxcpu"}],
   homeassistant |-> [api |-> {"running"}, entity |-> {"state", "number"}],
   unifi   |-> [info |-> {}, devices |-> DeviceFields, cameras |-> DeviceFields, device |-> DeviceFields, camera |-> DeviceFields,
                device_cpu |-> DeviceFields \union {"cpu"}, device_memory |-> DeviceFields \union {"mem"},
                firmware |-> {"name", "mac", "updatable"}],
   technitium |-> [update |-> {"status", "update"}, stats |-> {"status", "queries", "failures"}]]

Fields(m) == IF m.type \in DOMAIN TypeFields THEN TypeFields[m.type] ELSE ModeFields[m.type][m.mode]

AsksFor(m, x) ==
  /\ x # None /\ Fields(m) \subseteq DOMAIN x
  /\ \A name \in DOMAIN x : FieldSound(m, name, x[name])

\* The reply is a set, a list or a record.
OfSets(m) ==
  (m.type = "homeassistant" /\ m.mode \in {"unavailable", "updates"}) \/ (m.type = "truenas" /\ m.mode = "alerts")
OfLists(m) == OfAll(m) \/ OfOne(m)

\* An item that is not what the monitor is about: Proxmox puts everything in one list.
Beside(m, x) ==
  /\ m.type = "proxmox" /\ x # None /\ "type" \in DOMAIN x
  /\ x.type # CASE m.mode = "guest" -> "guest" [] m.mode = "storage" -> "storage" [] OTHER -> "node"

ReplySound(m, r) ==
  \/ r = None
  \/ OfSets(m) /\ IsFiniteSet(r)
  \/ /\ OfLists(m) /\ r \in Seq(Range(r))
     /\ \A i \in DOMAIN r : AsksFor(m, r[i]) \/ Beside(m, r[i])
     /\ m.type = "unifi" => \A i, j \in DOMAIN r : r[i].mac = r[j].mac => i = j
  \/ /\ ~ OfSets(m) /\ ~ OfLists(m)
     /\ AsksFor(m, r)
     /\ m.type = "docker" => IsFiniteSet(r.containers)

\* Monitors as the configuration has them, and replies as their checks understand them.
Sensible ==
  /\ None \notin Int
  /\ \A p \in Monitored : Monitors(p[1]) /\ \A r \in p[2] : ReplySound(p[1], r)
=============================================================================
