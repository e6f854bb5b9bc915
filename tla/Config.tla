-------------------------------- MODULE Config --------------------------------
(***************************************************************************)
(* What the configuration guarantees about monitors once it is loaded      *)
(* (watchpost/config.py: _mode_args of every type of monitor, the patterns *)
(* of its fields, _unique_names, _references, resolve_monitor and          *)
(* _check_dependencies).  The monitors are a sequence, everything else is  *)
(* the record of settings.  A name is a sequence of words.  Its slug is the  *)
(* sequence of what slugging leaves of each word, so that names that differ*)
(* in case or punctuation only have the same slug.                         *)
(***************************************************************************)
EXTENDS Lists

CONSTANTS Slugged(_),   \* what is left of a word: a sequence of words
          Odd,          \* pairs of a field and a value that the pattern of the field refuses
          None

Slug(name) == FlattenSeq([i \in DOMAIN name |-> Slugged(name[i])])

\* The monitors of a configuration.
MonitorList(ms) == IsList(ms) /\ \A i \in DOMAIN ms : IsList(ms[i].depends_on)

\* _unique_names, over a sequence of monitors.
UniqueNames(ms) ==
  \A i, j \in DOMAIN ms : Slug(ms[i].name) = Slug(ms[j].name) => i = j

\* resolve_monitor: the position of the first monitor with that name or slug,
\* or 0.
Resolve(ms, ref) == SelectInSeq(ms, LAMBDA m : ref \in {m.name, Slug(m.name)})

\* The types of credential a type of monitor accepts; the others take none.
Expected ==
  [snmp |-> {"snmpv2c", "snmpv3"}, winrm |-> {"winrm"}, wmi |-> {"winrm"}, mqtt |-> {"mqtt"},
   linux |-> {"ssh"}, docker |-> {"ssh"}, truenas |-> {"truenas"}, proxmox |-> {"proxmox"},
   vsphere |-> {"vsphere"}, homeassistant |-> {"homeassistant"}, unifi_network |-> {"unifi"},
   unifi_protect |-> {"unifi"}, technitium |-> {"technitium"}]

\* _mode_args: the modes of a type that single out one part, and which.
Singles ==
  [snmp |-> [oid |-> "oid", interface |-> "interface"],
   winrm |-> [service |-> "service", powershell |-> "script"],
   linux |-> [service |-> "service", command |-> "command"],
   docker |-> [container |-> "container"],
   truenas |-> [pool |-> "pool"],
   proxmox |-> [machine |-> "machine", cpu |-> "machine", memory |-> "machine",
                guest |-> "guest", storage |-> "storage"],
   vsphere |-> [datastore |-> "datastore", guest |-> "guest"],
   homeassistant |-> [entity |-> "entity"],
   unifi_network |-> [device |-> "device", device_cpu |-> "device", device_memory |-> "device"],
   unifi_protect |-> [camera |-> "camera"]]

\* The part that the mode of m singles out is named, and not by an empty name.
NamesItsPart(m) ==
  m.type \in DOMAIN Singles /\ m.mode \in DOMAIN Singles[m.type] =>
    m.part[1] = Singles[m.type][m.mode] /\ m.part[2] # ""

\* The parts that must match a pattern: _SAFE_UNIT, _SAFE_MOUNT and _SAFE_CONTAINER, a
\* drive letter, and the id of an entity.
Patterned == [linux |-> {"service", "mount"}, docker |-> {"container"}, winrm |-> {"disk"},
              homeassistant |-> {"entity"}]

\* Most of these become part of a command line, as does _SAFE_DOCKER_CMD.
SafeInCommands(m) ==
  /\ m.type \in DOMAIN Patterned /\ m.part[1] \in Patterned[m.type] => m.part \notin Odd
  /\ m.type = "docker" => <<"docker_command", m.docker_command>> \notin Odd

\* What a monitor is validated for by itself.
Valid(m) == NamesItsPart(m) /\ SafeInCommands(m)

\* The parts of _references that are about one monitor: its credential, its
\* alerts, and thresholds for its forecast to project to.
MonitorRefers(m, s) ==
  /\ m.credential # None =>
       m.credential \in DOMAIN s.credentials /\ s.credentials[m.credential] \in Expected[m.type]
  /\ m.alerts \subseteq DOMAIN s.alerts
  /\ m.forecast => m.thresholds \/ m.type = "tls_cert"

\* The credentials that can be written in more than one way: what each way needs. An
\* ssh account can have either or both.
Needed(way) ==
  CASE way = "authPriv"    -> {"priv_password"}
    [] way = "authNoPriv"  -> {}
    [] way = "certificate" -> {"cert_pem", "cert_key_pem"}
    [] way = "kerberos"    -> {"principal", "keytab_path"}
    [] way = "ntlm"        -> {"username", "password"}

\* _priv_needed, _shape and _one_method, for the fields that are given.
Shaped(form) == IF form.way = "ssh" THEN form.given \cap {"private_key", "password"} # {}
                ELSE Needed(form.way) \subseteq form.given

\* The parts that are not about a monitor: the credentials of alerts, discovery and
\* directory, and a user of the web page with a password or neither.
SettingsRefer(s) ==
  /\ \A a \in DOMAIN s.alerts : s.alerts[a] \in DOMAIN s.credentials \union {None}
  /\ Range(s.discovery) \subseteq DOMAIN s.credentials
  /\ s.directory # None =>
       s.directory \in DOMAIN s.credentials /\ s.credentials[s.directory] = "ldap"
  /\ s.user <=> s.password

\* parents(): the monitors the depends_on of monitor i names, by position.
ParentsOf(ms, i) ==
  Only([k \in DOMAIN ms[i].depends_on |-> Resolve(ms, ms[i].depends_on[k])], DOMAIN ms)

\* The first loop of _check_dependencies.
KnownParents(ms) ==
  \A i \in DOMAIN ms : \A k \in DOMAIN ms[i].depends_on :
    Resolve(ms, ms[i].depends_on[k]) \notin {0, i}

\* What a cycle ends the search with.
Cycle == <<"cycle">>

\* The colours the monitors can have, and what visit can be called with.
Colours(ms) == [DOMAIN ms -> {"white", "grey", "black"}]
Calls(ms) == (DOMAIN ms) \X Colours(ms)

\* Visits one after the other, from the colours c on.
VisitAll(visit, monitors, c) ==
  LET upTo[k \in 0..Len(monitors)] ==
        IF k = 0 THEN c
        ELSE LET d == upTo[k - 1] IN IF d = Cycle THEN Cycle ELSE visit[<<monitors[k], d>>]
  IN  upTo[Len(monitors)]

\* Faulty variant: a monitor that is still being visited counts as done.
VisitOne_AnyColour(ms, visit, i, c) ==
  LET after == VisitAll(visit, ParentsOf(ms, i), [c EXCEPT ![i] = "grey"])
  IN  IF c[i] # "white" THEN c ELSE IF after = Cycle THEN Cycle ELSE [after EXCEPT ![i] = "black"]

\* visit: grey closes a cycle, black is done, white turns grey until all its parents
\* are visited.
VisitOne(ms, visit, i, c) ==
  LET after == VisitAll(visit, ParentsOf(ms, i), [c EXCEPT ![i] = "grey"])
  IN  CASE c[i] = "grey"  -> Cycle
        [] c[i] = "black" -> c
        [] OTHER          -> IF after = Cycle THEN Cycle ELSE [after EXCEPT ![i] = "black"]

\* What visit makes of a monitor and the colours so far. The calls are nested no deeper
\* than there are monitors: each of them has turned one grey.
Visit(ms) ==
  LET within[depth \in 0..Len(ms)] ==
        IF depth = 0 THEN [call \in Calls(ms) |-> Cycle]
        ELSE [call \in Calls(ms) |-> VisitOne(ms, within[depth - 1], call[1], call[2])]
  IN  within[Len(ms)]

\* The second half of _check_dependencies: depth first from every monitor.
NoCycle(ms) ==
  VisitAll(Visit(ms), [i \in DOMAIN ms |-> i], [i \in DOMAIN ms |-> "white"]) # Cycle

\* Each monitor by itself, then all of them together.
Loads(ms, s) ==
  /\ \A form \in s.forms : Shaped(form)
  /\ \A i \in DOMAIN ms : Valid(ms[i])
  /\ UniqueNames(ms)
  /\ \A i \in DOMAIN ms : MonitorRefers(ms[i], s)
  /\ KnownParents(ms) /\ NoCycle(ms)
  /\ SettingsRefer(s)

-----------------------------------------------------------------------------
\* No monitor is behind itself: taking away, again and again, the monitors all
\* of whose parents are gone leaves nothing.
Acyclic(ms) ==
  LET left[n \in 0..Len(ms)] ==
        IF n = 0 THEN DOMAIN ms
        ELSE {i \in left[n - 1] : Range(ParentsOf(ms, i)) \cap left[n - 1] # {}}
  IN  left[Len(ms)] = {}
=============================================================================
