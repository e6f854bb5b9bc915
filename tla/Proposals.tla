------------------------------ MODULE Proposals ------------------------------
(***************************************************************************)
(* From what a network scan found to proposed monitors                     *)
(* (watchpost/discovery.py: discover, _key, propose and render), between   *)
(* the loading of the configuration that discovery starts from and the     *)
(* loading of the one its user makes by pasting the proposals.             *)
(* A monitor is reduced to its name, what it watches and what it refers to:*)
(* `part' is the field that singles out one part of the host.              *)
(***************************************************************************)
EXTENDS Config, Targets

CONSTANTS Situations    \* the [config, settings, network, request] it may start with

Whole == <<"whole", None>>

Monitor(name, type, host, mode, part, credential) ==
  [name |-> name, type |-> type, host |-> host, mode |-> mode, part |-> part,
   credential |-> credential, docker_command |-> "docker", alerts |-> {}, forecast |-> FALSE,
   thresholds |-> FALSE, depends_on |-> <<>>]

\* Faulty variant: a monitor that was renamed is not the same monitor.
KeyOf_ByName(m) == <<m.name, m.type, m.host, m.mode, m.part>>

\* _key, of a valid monitor; any other ends discovery. The fields it compares are not all
\* that single out a part.
KeyOf(m) ==
  <<m.type, m.host, m.mode,
    IF m.part[1] \in {"port", "url", "interface", "service", "disk"} THEN m.part ELSE Whole>>

\* The modes whose proposals come with thresholds and a forecast.
Measured == {"memory", "interface", "disk", "pool", "storage", "datastore", "device_memory"}

-----------------------------------------------------------------------------
(* propose. A finding has the address and label of a host and, for each kind *)
(* of probe, the parts it found, or None where it did not succeed. What the  *)
(* max_* settings cut off is not among the parts.                            *)

Nothing == [address |-> None, label |-> None, worked |-> <<>>, icmp |-> FALSE, ports |-> <<>>, snmp |-> None,
            winrm |-> None, ssh |-> None, web |-> <<>>, tls |-> <<>>, proxmox |-> None,
            vsphere |-> None, homeassistant |-> FALSE, technitium |-> FALSE, unifi |-> None,
            truenas |-> None, mqtt |-> <<>>]

\* What a host reports is in lists.
IsFinding(f) ==
  /\ DOMAIN f = DOMAIN Nothing
  /\ IsList(f.ports) /\ IsList(f.web) /\ IsList(f.tls) /\ IsList(f.mqtt)
  /\ f.snmp # None => IsList(f.snmp)
  /\ f.winrm # None => IsList(f.winrm.disks) /\ IsList(f.winrm.services)
  /\ f.ssh # None => /\ IsList(f.ssh.mounts) /\ IsList(f.ssh.units)
                     /\ f.ssh.containers # None => IsList(f.ssh.containers)
  /\ \A h \in {f.proxmox, f.vsphere} \ {None} :
       IsList(h.machines) /\ IsList(h.stores) /\ IsList(h.guests)
  /\ f.unifi # None => /\ IsList(f.unifi.sites) /\ IsList(f.unifi.devices)
                       /\ f.unifi.cameras # None => IsList(f.unifi.cameras)
  /\ f.truenas # None => IsList(f.truenas)

ASSUME ProposalsAssumption ==
  \A s \in Situations :
    /\ MonitorList(s.config) /\ \A m \in Range(s.config) : IsList(m.name)
    /\ {"credentials", "alerts", "discovery"} \subseteq DOMAIN s.settings
    /\ IsList(s.settings.discovery) /\ s.request \in ScanRequest
    /\ \A f \in s.network : IsFinding(f)

\* The kind of probe that found what a monitor of this type watches.
ProbeOf(type) ==
  CASE type \in {"linux", "docker"} -> "ssh"
    [] type \in {"unifi_network", "unifi_protect"} -> "unifi"
    [] OTHER -> type

\* add and plat: a monitor of the host, with the credential that worked there and
\* with no depends_on. What is measured has thresholds to forecast by.
Add(f, suffix, type, mode, part) ==
  [Monitor(<<f.label>> \o suffix, type, f.address, mode, part,
           IF ProbeOf(type) \in DOMAIN f.worked THEN f.worked[ProbeOf(type)] ELSE None)
     EXCEPT !.forecast = mode \in Measured, !.thresholds = mode \in Measured]

\* Monitors of the host as a whole, one for each mode.
Modes(f, type, modes) == [i \in DOMAIN modes |-> Add(f, <<modes[i]>>, type, modes[i], Whole)]

\* One monitor for each of the parts.
ForEach(parts, M(_)) == [i \in DOMAIN parts |-> M(parts[i])]

\* Parts without a name are passed over where they can be.
Named(parts) == Only(parts, Range(parts) \ {""})

Tcp(f, suffix, port) == Add(f, suffix, "tcp", "", <<"port", port>>)

Ping(f) == IF f.icmp THEN <<Add(f, <<"ping">>, "ping", "", Whole)>> ELSE <<>>

Snmp(f) ==
  IF f.snmp = None THEN <<>>
  ELSE Modes(f, "snmp", <<"uptime", "CPU", "memory">>)
       \o ForEach(f.snmp, LAMBDA x : Add(f, <<x>>, "snmp", "interface", <<"interface", x>>))

Windows(f) ==
  IF f.winrm = None THEN <<>>
  ELSE Modes(f, "winrm", <<"CPU", "memory">>)
       \o ForEach(f.winrm.disks, LAMBDA x : Add(f, <<x, "disk">>, "winrm", "disk", <<"disk", x>>))
       \o ForEach(f.winrm.services, LAMBDA x : Add(f, <<x>>, "winrm", "service", <<"service", x>>))

Docker(f) ==
  IF f.ssh.containers = None THEN <<>>
  ELSE Modes(f, "docker", <<"containers">>)
       \o ForEach(Named(f.ssh.containers),
                  LAMBDA x : Add(f, <<x>>, "docker", "container", <<"container", x>>))

\* A host nobody could log in to is watched by its SSH port.
Linux(f) ==
  IF f.ssh = None THEN IF "22" \in Range(f.ports) THEN <<Tcp(f, <<"SSH">>, "22")>> ELSE <<>>
  ELSE Modes(f, "linux", <<"CPU", "memory", "uptime">>)
       \o ForEach(f.ssh.mounts, LAMBDA x : Add(f, <<"disk", x>>, "linux", "disk", <<"mount", x>>))
       \o ForEach(f.ssh.units, LAMBDA x : Add(f, <<x>>, "linux", "service", <<"service", x>>))
       \o Docker(f)

Rdp(f) == IF "3389" \in Range(f.ports) THEN <<Tcp(f, <<"RDP">>, "3389")>> ELSE <<>>

\* The ports on which an API answered, which is watched instead of a web page.
ApiPorts(f) ==
  {p \in {"8006", "443", "8123", "5380"} :
     CASE p = "8006" -> f.proxmox # None
       [] p = "443"  -> f.vsphere # None \/ f.truenas # None \/ f.unifi # None
       [] p = "8123" -> f.homeassistant
       [] p = "5380" -> f.technitium}

Web(f) ==
  ForEach(Only(f.web, Range(f.web) \ ApiPorts(f)),
          LAMBDA p : Add(f, <<"web", p>>, "http", "", <<"url", p>>))
  \o ForEach(Only(f.tls, Range(f.tls) \ (Range(f.mqtt) \union {"5986"})),
             LAMBDA p : Add(f, <<"cert", p>>, "tls_cert", "", <<"port", p>>))

\* Only when nothing was proposed so far: the first open port.
FallBack(f, before) ==
  IF f.icmp \/ before # <<>> \/ f.ports = <<>> THEN <<>>
  ELSE <<Tcp(f, <<"port", f.ports[1]>>, f.ports[1])>>

\* Machines, under a label each, storage, and what runs on the machines: each guest
\* depends on the monitor of its machine, if there is one.
Hypervisor(f, type, label, part, stores, h) ==
  LET machine(x) == Add(f, label[x], type, "machine", part[x])
      deps(g)    == IF g.on \in Range(h.machines) THEN <<machine(g.on).name>> ELSE <<>>
  IN  ForEach(h.machines, machine)
      \o (ForEach(h.machines, LAMBDA x : Add(f, label[x] \o <<"CPU">>, type, "cpu", part[x]))
          \o ForEach(h.machines, LAMBDA x : Add(f, label[x] \o <<"memory">>, type, "memory", part[x]))
          \o stores)
      \o ForEach(h.guests, LAMBDA g : [Add(f, <<"VM", g.name>>, type, "guest", <<"guest", g.name>>)
                                         EXCEPT !.depends_on = deps(g)])

\* A storage that is not shared is named with its node.
Proxmox(f) ==
  IF f.proxmox = None THEN <<>>
  ELSE LET h == f.proxmox
       IN  Hypervisor(f, "proxmox", [x \in Range(h.machines) |-> <<"node", x>>],
                      [x \in Range(h.machines) |-> <<"machine", x>>],
                      ForEach(h.stores, LAMBDA s :
                        Add(f, <<"storage", s.name>> \o (IF s.on = None THEN <<>> ELSE <<"on", s.on>>),
                            "proxmox", "storage", <<"storage", s.name>>)), h)

\* The only host needs no name.
Vsphere(f) ==
  IF f.vsphere = None THEN <<>>
  ELSE LET h      == f.vsphere
           single == Len(h.machines) = 1
       IN  Hypervisor(f, "vsphere",
                      [x \in Range(h.machines) |-> IF single THEN <<"ESXi">> ELSE <<"ESXi", x>>],
                      [x \in Range(h.machines) |-> IF single THEN Whole ELSE <<"machine", x>>],
                      ForEach(h.stores, LAMBDA s :
                        Add(f, <<"datastore", s.name>>, "vsphere", "datastore", <<"datastore", s.name>>)), h)

Apps(f) ==
  (IF f.homeassistant THEN Modes(f, "homeassistant", <<"api", "unavailable", "updates">>) ELSE <<>>)
  \o (IF f.technitium THEN Modes(f, "technitium", <<"stats", "update">>) ELSE <<>>)

\* The sites are told apart only where there is more than one; the devices of all sites
\* are in one list.
Sites(f) ==
  LET sites   == f.unifi.sites
      tag(x)  == IF Len(sites) > 1 THEN <<x>> ELSE <<>>
      part(x) == IF Len(sites) > 1 THEN <<"site", x>> ELSE Whole
  IN  ForEach(sites, LAMBDA x : Add(f, <<"devices">> \o tag(x), "unifi_network", "devices", part(x)))
      \o ForEach(sites, LAMBDA x : Add(f, <<"firmware">> \o tag(x), "unifi_network", "firmware", part(x)))

Devices(f) ==
  LET devices == Named(f.unifi.devices)
  IN  ForEach(devices, LAMBDA x : Add(f, <<x>>, "unifi_network", "device", <<"device", x>>))
      \o ForEach(devices, LAMBDA x : Add(f, <<x, "CPU">>, "unifi_network", "device_cpu", <<"device", x>>))
      \o ForEach(devices, LAMBDA x : Add(f, <<x, "memory">>, "unifi_network", "device_memory", <<"device", x>>))

Cameras(f) ==
  IF f.unifi.cameras = None THEN <<>>
  ELSE Modes(f, "unifi_protect", <<"cameras">>)
       \o ForEach(Named(f.unifi.cameras),
                  LAMBDA x : Add(f, <<"camera", x>>, "unifi_protect", "camera", <<"camera", x>>))

Unifi(f) == IF f.unifi = None THEN <<>> ELSE Sites(f) \o Devices(f) \o Cameras(f)

Truenas(f) ==
  IF f.truenas = None THEN <<>>
  ELSE Modes(f, "truenas", <<"pools", "alerts">>)
       \o ForEach(f.truenas, LAMBDA x : Add(f, <<"pool", x>>, "truenas", "pool", <<"pool", x>>))

Mqtt(f) == ForEach(f.mqtt, LAMBDA p : Add(f, <<"MQTT", p>>, "mqtt", "", <<"port", p>>))

Propose(f) ==
  LET own == Ping(f) \o Snmp(f) \o Windows(f) \o Linux(f) \o Rdp(f) \o Web(f)
  IN  own \o FallBack(f, own) \o Proxmox(f) \o Vsphere(f) \o Apps(f) \o Unifi(f)
          \o Truenas(f) \o Mqtt(f)

-----------------------------------------------------------------------------
VARIABLES config,    \* the configured monitors
          settings,  \* the rest of the configuration
          network,   \* the hosts that respond to a scan
          request,   \* what discovery is asked to scan
          hosts,     \* what it scanned
          findings,  \* the hosts that responded, in the order of the targets
          phase,     \* "load", "refused", "failed", "render" or "done"
          host,      \* the finding being rendered
          todo,      \* its proposals that have not been looked at
          keep,      \* those that are kept
          renamed,   \* what each of its names has become
          file,      \* the proposals of the hosts before
          round      \* 1, then 2 after the proposals were adopted

asked == <<settings, network, request>>
proposalVars == <<config, asked, hosts, findings, phase, host, todo, keep, renamed, file, round>>

ProposalsOf(fs, i) == IF i <= Len(fs) THEN Propose(fs[i]) ELSE <<>>

\* discover: credentials that are asked for replace those of the configuration.
Overridden(s, r) == IF r.credentials = <<>> THEN s ELSE [s EXCEPT !.discovery = r.credentials]

\* Discoverer: the kinds of probe that need a credential, and the ones there are for
\* each of them among those that discovery may use.
Probes == {"snmp", "winrm", "ssh", "proxmox", "vsphere", "homeassistant", "unifi",
           "technitium", "truenas"}
CredentialsFor(kind, s) ==
  LET types == IF kind = "snmp" THEN {"snmpv2c", "snmpv3"} ELSE {kind}
  IN  Only(s.discovery, {c \in DOMAIN s.credentials : s.credentials[c] \in types})

\* A finding: nothing where there is no credential to ask with. The first one stands
\* for whichever worked; a broker may also answer without.
Found(f, s) ==
  LET asks   == {k \in Probes \union {"mqtt"} : CredentialsFor(k, s) # <<>>}
      usable == asks \ {"mqtt"}
  IN  [x \in DOMAIN f |-> IF x = "worked" THEN [k \in asks |-> CredentialsFor(k, s)[1]]
                          ELSE IF x \in Probes \ usable THEN Nothing[x]
                          ELSE f[x]]

\* run: the findings of the hosts that respond.
Responses(hs) ==
  LET responding == Only(hs, {f.address : f \in network})
  IN  [i \in DOMAIN responding |->
         Found(CHOOSE f \in network : f.address = responding[i], Overridden(settings, request))]

\* load_config, then discover up to render.
Load ==
  /\ phase = "load"
  /\ hosts' = IF Loads(config, settings) THEN Scanned(request, DOMAIN settings.credentials) ELSE <<>>
  /\ findings' = IF hosts' = Refused THEN <<>> ELSE Responses(hosts')
  /\ phase' = IF ~ Loads(config, settings) THEN "refused"
              ELSE IF hosts' = Refused THEN "failed"
              ELSE IF findings' = <<>> THEN "done" ELSE "render"
  /\ host' = 1 /\ todo' = ProposalsOf(findings', 1)
  /\ keep' = <<>> /\ renamed' = <<>> /\ file' = <<>>
  /\ UNCHANGED <<config, asked, round>>

\* `existing': the name of the last configured monitor with that identity.
ExistingName(k) == config[Max({i \in DOMAIN config : KeyOf(config[i]) = k})].name

\* `taken': the slugs of everything configured or proposed so far.
Taken == {Slug(m.name) : m \in Range(config \o file \o keep)}

\* `renamed' once m got that name, for the dependents on the same host.
Rename(m, name) ==
  [d \in DOMAIN renamed \union {m.name} |-> IF d = m.name THEN name ELSE renamed[d]]

Configured(m) == \E i \in DOMAIN config : KeyOf(config[i]) = KeyOf(m)

\* _key raises, and nothing is written.
FailOnInvalid ==
  /\ phase = "render" /\ todo # <<>> /\ ~ Valid(Head(todo))
  /\ phase' = "failed"
  /\ UNCHANGED <<config, asked, hosts, findings, host, todo, keep, renamed, file, round>>

SkipConfigured ==
  /\ phase = "render" /\ todo # <<>> /\ Valid(Head(todo)) /\ Configured(Head(todo))
  /\ renamed' = Rename(Head(todo), ExistingName(KeyOf(Head(todo))))
  /\ todo' = Tail(todo)
  /\ UNCHANGED <<config, asked, hosts, findings, phase, host, keep, file, round>>

\* The names tried for m, in order: its own, with the address, with a number.
Candidate(m, n) ==
  CASE n = 0 -> m.name
    [] n = 1 -> Append(m.name, findings[host].address)
    [] OTHER -> m.name \o <<findings[host].address, ToString(n)>>

\* Faulty variant: a name with the address is taken to be free.
FreeName_OneTry(m) ==
  IF Slug(m.name) \in Taken THEN Candidate(m, 1) ELSE m.name

FreeName(m) ==
  LET free == {n \in 0..(Cardinality(Taken) + 1) : Slug(Candidate(m, n)) \notin Taken}
  IN  Candidate(m, Min(free))

KeepNew ==
  /\ phase = "render" /\ todo # <<>> /\ Valid(Head(todo)) /\ ~ Configured(Head(todo))
  /\ LET name == FreeName(Head(todo))
     IN  /\ renamed' = Rename(Head(todo), name)
         /\ keep' = Append(keep, [Head(todo) EXCEPT !.name = name])
  /\ todo' = Tail(todo)
  /\ UNCHANGED <<config, asked, hosts, findings, phase, host, file, round>>

\* Faulty variant: depends_on keeps the names that were proposed at first.
NewName_AsProposed(d) == d

NewName(d) == IF d \in DOMAIN renamed THEN renamed[d] ELSE d

\* The proposals of the host are complete: their depends_on is rewritten, and
\* the next host begins or the file is written.
NextHost ==
  /\ phase = "render" /\ todo = <<>>
  /\ file' = file \o [i \in DOMAIN keep |->
       [keep[i] EXCEPT !.depends_on = [k \in DOMAIN @ |-> NewName(@[k])]]]
  /\ host' = host + 1 /\ todo' = ProposalsOf(findings, host + 1)
  /\ keep' = <<>> /\ renamed' = <<>>
  /\ phase' = IF host < Len(findings) THEN "render" ELSE "done"
  /\ UNCHANGED <<config, asked, hosts, findings, round>>

\* The user pastes every proposal into the configuration and discovers again, with
\* the targets in this order or in the other.
Adopt ==
  /\ phase = "done" /\ round = 1
  /\ config' = config \o file
  /\ \E targets \in {request.targets, Reverse(request.targets)} :
       request' = [request EXCEPT !.targets = targets]
  /\ phase' = "load" /\ round' = 2
  /\ UNCHANGED <<settings, network, hosts, findings, host, todo, keep, renamed, file>>

ProposalsInit ==
        /\ \E s \in Situations :
             /\ config = s.config /\ settings = s.settings
             /\ network = s.network /\ request = s.request
        /\ phase = "load" /\ host = 1 /\ round = 1 /\ hosts = <<>> /\ findings = <<>>
        /\ todo = <<>> /\ keep = <<>> /\ renamed = <<>> /\ file = <<>>

ProposalsNext == Load \/ FailOnInvalid \/ SkipConfigured \/ KeepNew \/ NextHost \/ Adopt

ProposalsSpec == ProposalsInit /\ [][ProposalsNext]_proposalVars

-----------------------------------------------------------------------------
\* Discovery and the service start only from a configuration whose monitors name what
\* they watch, whose slugs are unique, whose references hold and whose depends_on is
\* known and without cycles. As far as these go (which fields a monitor has, and of which
\* type they are, is taken for granted), they refuse no such configuration.
\* (config.py:291-297, 313, 347-350, 367-377, 385-387, 469, 700-708, 710-759, 770-793)
Sound ==
  /\ UniqueNames(config) /\ KnownParents(config) /\ Acyclic(config)
  /\ \A m \in Range(config) : Valid(m) /\ MonitorRefers(m, settings)
  /\ SettingsRefer(settings) /\ \A form \in settings.forms : Shaped(form)

LoadedIffSound == phase # "load" => (phase = "refused" <=> ~ Sound)

\* Every address the targets stand for, with every mention of it.
Mentioned == FlattenSeq([i \in DOMAIN AllTargets(request) |-> AllTargets(request)[i].hosts])

\* Each host is scanned once: what the targets mention and the exclusions do not,
\* in the order it is first mentioned, and never more than max_hosts.
\* "in order, de-duplicated" (discovery.py:175, 1451-1455)
ScansTheRequest ==
  phase \in {"render", "done"} =>
    LET First(a) == SelectInSeq(Mentioned, LAMBDA b : b = a)
    IN  /\ Range(hosts) = Range(Mentioned) \ Excluded(request.exclude)
        /\ \A i, j \in DOMAIN hosts : i < j => First(hosts[i]) < First(hosts[j])
        /\ Len(hosts) <= MaxHosts

\* Targets are networks, ranges, addresses and names (config.py:641 "CIDR
\* (192.0.2.0/24), range (192.0.2.10-192.0.2.40), single IP, or hostname."), and
\* discovery fails only if a credential it is told to use is not configured; a target has
\* a reference left in it; the directory fails; there are no targets; counting every
\* mention there are more than max_hosts, or exactly as many and a first address of an
\* IPv6 network; an exclusion is larger than 2^32; a network or range cannot be parsed or
\* ends before it starts, or a name has a hyphen, which is taken for a range; or a host
\* reports a part that no monitor can name. (discovery.py:174-217, 1012, 1352, 1428-1455)
FailsForAReason ==
  LET targets == Range(AllTargets(request))
  IN  phase = "failed" =>
        \/ \E c \in Range(request.credentials) : c \notin DOMAIN settings.credentials
        \/ request.unresolved
        \/ ~ request.answers
        \/ targets = {}
        \/ Len(Mentioned) > MaxHosts
        \/ Len(Mentioned) = MaxHosts /\ \E x \in targets : x.size > Len(x.hosts)
        \/ \E x \in Range(request.exclude) : x.size > MaxExcluded
        \/ \E x \in targets \union Range(request.exclude) : Raises(x)
        \/ \E i \in DOMAIN findings : \E m \in Range(Propose(findings[i])) : ~ Valid(m)

\* Whatever was configured, however much the hosts look alike and whatever they report,
\* what discovery writes can be pasted: the configuration loads with it.
\* discovery.py:1011 "guarantees every proposal would load", docs/VERIFICATION.md:22
\* "proposals merged into a config that validates"
AdoptedLoads == round = 2 => phase # "refused"

\* Once they are pasted, a scan of the same network proposes nothing.
\* (discovery.py:1008-1014, 1343-1356: a monitor that got another name is still
\* recognised)
RescanProposesNothing == round = 2 /\ phase = "done" => file = <<>>
=============================================================================
