------------------------------ MODULE MCHostScan ------------------------------
(* HostScan on a few hosts and kinds of device. *)
EXTENDS HostScan, TLC

CONSTANTS password, sshkey, apikey, nas, domain, esx   \* credentials
CONSTANTS h1, h2, h3, h4                          \* addresses

\* The credentials of an instance, by service.
NoCreds == [s \in Services |-> <<>>]

Everything == [NoCreds EXCEPT !["winrm"] = <<domain>>, !["ssh"] = <<password, sshkey>>,
                              !["unifi"] = <<apikey>>, !["truenas"] = <<nas>>,
                              !["vsphere"] = <<esx>>]
UnifiOnly  == [NoCreds EXCEPT !["unifi"] = <<apikey>>]

\* Kinds of device.
Linux(hostkey) == [runs |-> {"ssh"}, open |-> {"ssh"}, cert |-> "plain", hostkey |-> hostkey]
Console == [runs |-> {"unifi"}, open |-> {"api"}, cert |-> "valid", hostkey |-> "unlisted"]
Windows == [runs |-> {"winrm"}, open |-> {"winrm"}, cert |-> "valid", hostkey |-> "unlisted"]
Esxi    == [runs |-> {"vsphere"}, open |-> {"api"}, cert |-> "valid", hostkey |-> "unlisted"]
\* An unknown web server with a certificate of its own making.
Web     == [runs |-> {}, open |-> {"api"}, cert |-> "invalid", hostkey |-> "unlisted"]

\* The scan treats hosts alike, so which host is which device does not matter.
\* Hosts interact through the credentials they share: four that share
\* them, half of one kind and half of the other or all alike, and hosts that do not.
Four(a, b, c, d) == h1 :> a @@ h2 :> b @@ h3 :> c @@ h4 :> d
Mixtures(x, y) == {Four(x, x, x, x), Four(x, x, y, y), Four(y, y, y, y)}
SmallNetworks ==
  Mixtures(Linux("known"), Linux("unlisted")) \union Mixtures(Console, Web)
  \union {Four(Windows, Windows, Windows, Windows),
          Four(Windows, Linux("unlisted"), Console, Web),
          Four(Esxi, Windows, Console, Web)}

\* Web servers with a good certificate, some of them UniFi consoles.
WebServers == [Hosts -> {Console, [Web EXCEPT !.cert = "valid"]}]

TlsRequired == [x \in {"winrm", "api"} |-> TRUE]
=============================================================================
