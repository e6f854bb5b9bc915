----------------------------- MODULE MCProposals -----------------------------
(* Proposals for small configurations and networks.                          *)
EXTENDS Proposals

\* Two words that only differ in punctuation; "!" is nothing but punctuation.
SlugOf(word) == CASE word = "web.1" -> <<"web", "1">>
                  [] word = "web-1" -> <<"web", "1">>
                  [] word = "!"     -> <<>>
                  [] OTHER          -> <<word>>

\* Hosts that resemble one another.
Cluster == [Nothing EXCEPT !.address = "a1", !.label = "pve", !.icmp = TRUE, !.web = <<"8006">>,
              !.proxmox = [machines |-> <<"n1", "n2">>,
                           stores |-> <<[name |-> "tank", on |-> None], [name |-> "tank", on |-> "n1"]>>,
                           guests |-> <<[name |-> "web.1", on |-> "n1"],
                                        [name |-> "web-1", on |-> "n2"]>>]]
OtherCluster == [Cluster EXCEPT !.address = "a2"]
Esxi    == [Nothing EXCEPT !.address = "a3", !.label = "pve", !.ports = <<"443", "902">>,
              !.vsphere = [machines |-> <<"n1">>, stores |-> <<[name |-> "tank", on |-> None]>>,
                           guests |-> <<[name |-> "web.1", on |-> "n1"]>>]]
DockerHost == [Nothing EXCEPT !.address = "a1", !.label = "web.1", !.ports = <<"22">>,
              !.ssh = [mounts |-> <<"!">>, units |-> <<"web.1">>,
                       containers |-> <<"web-1", "", "web.1">>]]
Replica == [DockerHost EXCEPT !.address = "a2", !.label = "web-1"]
Silent  == [Nothing EXCEPT !.address = "a2", !.label = "web.1", !.ports = <<"3389", "22">>]
Printer == [Nothing EXCEPT !.address = "a4", !.label = "web-1", !.ports = <<"9100">>, !.tls = <<"443">>]
Gateway == [Nothing EXCEPT !.address = "a4", !.label = "gw", !.snmp = <<"web.1">>,
              !.unifi = [sites |-> <<"web.1", "web-1">>, devices |-> <<"web.1", "web-1">>,
                         cameras |-> <<"">>],
              !.mqtt = <<"1883">>]
Server  == [Nothing EXCEPT !.address = "a3", !.label = "web.1", !.icmp = TRUE,
              !.winrm = [disks |-> <<"C:">>, services |-> <<"web-1">>],
              !.truenas = <<"web.1">>, !.homeassistant = TRUE, !.technitium = TRUE]

\* Hosts that report what no monitor can name.
Share   == [Replica EXCEPT !.ssh.mounts = <<"!", "a b">>]
Unnamed == [Esxi EXCEPT !.vsphere.guests = <<[name |-> "", on |-> None]>>]

Networks == {{}, {Cluster, OtherCluster}, {Cluster, Esxi}, {DockerHost, Replica},
             {DockerHost, Silent, Printer}, {Gateway, Server}}
Refusing == {{DockerHost, Share}, {Cluster, Unnamed}}

\* Requests: a range, the same with an address twice, addresses and exclusions, a
\* directory with accounts of every kind, and those that end in an error.
HostOrder == <<"a1", "a2", "a3", "a4", "a5">>
WithHyphen == {"a-6"}
AllAddresses == Range(HostOrder) \union WithHyphen

\* What the patterns of these fields refuse.
NotSafe == {"service", "mount", "container", "disk", "entity", "docker_command"} \X {"a b"}

\* A network or range of IPv4 addresses, an IPv6 network, and what cannot be expanded.
Block(list) == [kind |-> "block", size |-> Len(list), hosts |-> list]
Block6(list) == [kind |-> "block", size |-> Len(list) + 1, hosts |-> list]
Wrong == [kind |-> "wrong", size |-> 0, hosts |-> <<>>]
Request(targets, exclude, computers) ==
  [targets |-> targets, exclude |-> exclude, computers |-> computers,
   credentials |-> <<>>, unresolved |-> FALSE, include_disabled |-> FALSE, answers |-> TRUE]
Four == Block(<<"a1", "a2", "a3", "a4">>)
Domain == <<Computer("a4", FALSE, "recent", TRUE), Computer("a2", FALSE, "recent", TRUE),
            Computer("", FALSE, "recent", TRUE), Computer("a3", TRUE, "recent", TRUE),
            Computer("a3", FALSE, "stale", TRUE), Computer("a3", FALSE, "never", TRUE),
            Computer("a3", FALSE, "recent", FALSE)>>
Whole4 == Request(<<Four>>, <<>>, <<>>)
Requests ==
  {Whole4, Request(<<Four, Single("a2")>>, <<>>, <<>>), Request(<<Four, Four>>, <<>>, <<>>),
   Request(<<Block(<<"a3", "a4">>), Single("a1"), Single("a2"), Single("a5")>>, <<Single("a4")>>, <<>>),
   Request(<<Single("a2"), Single("a1"), Single("a2")>>, <<>>, <<>>),
   Request(<<Single("a-6"), Single("a1")>>, <<>>, <<>>), Request(<<Single("a1")>>, <<>>, Domain), Request(<<>>, <<>>, <<>>),
   [Request(<<Four>>, <<>>, Domain) EXCEPT !.answers = FALSE],
   [Request(<<Four>>, <<>>, <<>>) EXCEPT !.unresolved = TRUE],
   [Request(<<Four>>, <<>>, <<>>) EXCEPT !.credentials = <<"pve", "gone">>],
   [Request(<<Four>>, <<>>, <<>>) EXCEPT !.credentials = <<"key">>],
   Request(<<Wrong>>, <<>>, <<>>), Request(<<Four>>, <<Wrong>>, <<>>),
   Request(<<Block6(<<"a1", "a2", "a3">>)>>, <<>>, <<>>), Request(<<Block6(<<"a1", "a2", "a3", "a4">>)>>, <<>>, <<>>),
   Request(<<Four>>, <<Block6(<<"a2", "a3", "a4", "a5">>)>>, <<>>),
   Request(<<Four>>, <<Block6(<<"a1", "a2", "a3", "a4", "a5">>)>>, <<>>),
   [Request(<<>>, <<Block(<<"a1", "a2">>)>>, Domain) EXCEPT !.include_disabled = TRUE]}

\* Settings with a credential of every type, with fewer, and with one reference that
\* does not hold.
Base == [credentials |-> [pub |-> "snmpv2c", v3 |-> "snmpv3", win |-> "winrm", key |-> "ssh",
                          pve |-> "proxmox", esx |-> "vsphere", ha |-> "homeassistant",
                          un |-> "unifi", dns |-> "technitium", nas |-> "truenas",
                          broker |-> "mqtt", ad |-> "ldap"],
         alerts |-> [ntfy |-> None, mqtt |-> "broker"], directory |-> "ad",
         discovery |-> <<"v3", "pub", "win", "key", "pve", "esx", "ha", "un", "dns", "nas", "broker">>,
         forms |-> {[way |-> "authNoPriv", given |-> {}], [way |-> "ssh", given |-> {"password"}],
                    [way |-> "kerberos", given |-> {"principal", "keytab_path"}]},
         user |-> FALSE, password |-> FALSE]
Fewer == [Base EXCEPT !.discovery = <<"pub", "key", "un">>, !.directory = None,
                      !.user = TRUE, !.password = TRUE]
Broken == {[Base EXCEPT !.alerts = [mqtt |-> "gone"]], [Base EXCEPT !.discovery = <<"gone">>],
           [Base EXCEPT !.directory = "key"], [Base EXCEPT !.directory = "gone"],
           [Base EXCEPT !.password = TRUE],
           [Base EXCEPT !.forms = {[way |-> "authPriv", given |-> {}]}],
           [Base EXCEPT !.forms = {[way |-> "certificate", given |-> {"cert_pem"}]}],
           [Base EXCEPT !.forms = {[way |-> "ntlm", given |-> {"username"}]}],
           [Base EXCEPT !.forms = {[way |-> "ssh", given |-> {"passphrase"}]}]}

\* Every configuration of three monitors, with names that may collide and each
\* depending on nothing, on one monitor or on two.
Names == {<<"web.1">>, <<"web-1">>, <<"b">>, <<"c">>}
Refs  == {<<>>} \union {<<r>> : r \in {<<"web", "1">>, <<"b">>, <<"c">>, <<"d">>}}
         \union {<<<<"web.1">>, <<"b">>>>, <<<<"b">>, <<"c">>>>}
ByHand(name, deps) == [Monitor(name, "ping", "a9", "", Whole, None) EXCEPT !.depends_on = deps]
HandWritten == {<<ByHand(n1, d1), ByHand(n2, d2), ByHand(n3, d3)>> :
                 n1, n2 \in {<<"web.1">>, <<"web-1">>, <<"b">>}, n3 \in {<<"c">>, <<"b">>},
                 d1, d2, d3 \in Refs}

\* Configurations with up to two monitors of these networks, the second of
\* which depends on the first, under their proposed names or under others.
Known == UNION {Range(Propose(Found(f, Base))) : f \in UNION Networks}
Renamings(m) == {m, [m EXCEPT !.name = <<"mine", m.name[Len(m.name)]>>]}
Paired == {m \in Known : m.host = "a1" /\ m.part[1] \in {"machine", "guest", "container"}}
Alone == {<<[x EXCEPT !.depends_on = <<>>]>> : x \in UNION {Renamings(m) : m \in Known}}
Pairs == {<<[x EXCEPT !.depends_on = <<>>], [y EXCEPT !.depends_on = <<x.name>>]>> :
            x \in UNION {Renamings(m) : m \in Paired}, y \in Paired}

Box == Monitor(<<"box">>, "linux", "a9", "memory", Whole, "key")
Referring ==
  {[Box EXCEPT !.credential = "gone"], [Box EXCEPT !.credential = "pub"], [Box EXCEPT !.alerts = {"ntfy"}],
   [Box EXCEPT !.alerts = {"gone"}], [Box EXCEPT !.forecast = TRUE],
   [Box EXCEPT !.forecast = TRUE, !.thresholds = TRUE], [Box EXCEPT !.type = "wmi", !.credential = "win"],
   [Box EXCEPT !.mode = "service"], [Box EXCEPT !.mode = "service", !.part = <<"service", "">>],
   [Box EXCEPT !.mode = "service", !.part = <<"service", "a b">>],
   [Box EXCEPT !.mode = "service", !.part = <<"service", "a">>],
   [Box EXCEPT !.mode = "disk", !.part = <<"mount", "a b">>],
   [Box EXCEPT !.type = "docker", !.mode = "summary"],
   [Box EXCEPT !.type = "docker", !.mode = "summary", !.docker_command = "a b"],
   [Box EXCEPT !.type = "winrm", !.credential = "win", !.mode = "disk", !.part = <<"disk", "a b">>],
   [Box EXCEPT !.type = "homeassistant", !.credential = "ha", !.mode = "entity", !.part = <<"entity", "a b">>]}

Situation(configs, settingss, networks, requests) ==
  [config : configs, settings : settingss, network : networks, request : requests]
All == Situation(HandWritten, {Base}, {{}}, {Whole4})
  \union Situation({<<m>> : m \in Referring} \union {<<>>}, Broken \union {Base}, {{}}, {Whole4})
  \union Situation(Alone, {Base}, Networks \ {{}}, {Whole4})
  \union Situation(Pairs, {Base}, {{Cluster, Esxi}, {DockerHost, Replica}}, {Whole4})
  \union Situation({<<>>}, {Base, Fewer}, Networks \union Refusing, {Whole4})
  \union Situation({<<>>}, {Base}, Networks, Requests)
=============================================================================
