------------------------------- MODULE MCReplies -------------------------------
(* Monitors of every type and mode, and a few replies that tell their rules apart. *)
EXTENDS SoundReplies, TLC

\* Thresholds of the samples: none, and at the values below.
Above == {None, Thresholds("above", 50, 100)}
Share == {0, 50, 100}

\* Every monitor of the set may get every reply of the set.
May(monitors, answers) == monitors \X {answers \union {None}}

\* Lists of one or two.
OneOrTwo(items) == {<<i>> : i \in items} \union (items \X items)

NetSamples ==
     May([type : {"ping"}, count : {2}, th : Above], [received : 0..2, rtt : Share])
  \union May([type : {"tcp"}, send : BOOLEAN, expect : BOOLEAN, th : Above],
             [banner : {"expected", "other", "broken"}, ms : Share])
  \union May([type : {"http"}, expect_status : {{"200"}, {"200", "204"}}, expect_text : BOOLEAN, th : Above],
             [status : {"200", "204", "500"}, text : {"expected", "other"}, ms : Share])
  \union May([type : {"dns"}, expect : SUBSET {"a", "b"}, th : Above],
             [answers : SUBSET {"a", "b"} \ {{}}, ms : Share])
  \union May([type : {"tls_cert"}, verify : BOOLEAN, th : {None, Thresholds("below", 3, None)}],
             [valid : BOOLEAN, days : {-1, 0, 1, 7, 8, 21, 22}])
  \union May([type : {"mqtt"}, topic : BOOLEAN, expect : BOOLEAN, numeric : BOOLEAN, th : Above],
             [message : {None, "some"}, text : {"expected", "other"}, number : Share \union {None}])

AgentSamples ==
     May([type : {"snmp"}, mode : {"oid"}, th : Above],
         [raw : {None, "some"}, number : Share \union {None}])
  \union May([type : {"snmp"}, mode : {"cpu"}, th : Above],
             [loads : {<<>>} \union OneOrTwo(Share)])
  \union May([type : {"snmp"}, mode : {"memory"}, th : Above],
             [ram : {<<>>, <<[size |-> 0, used |-> 0]>>} \union
                    {<<[size |-> 2, used |-> u]>> : u \in {None} \union 0..2}])
  \union May([type : {"linux"}, mode : {"cpu"}, th : Above],
             [samples : {<<>>} \union OneOrTwo([total : {0, 2}, idle : {0, 1}])])
  \union May([type : {"linux"}, mode : {"memory"}, th : Above],
             [total : {None, 0, 2}, available : {None} \union 0..2])
  \union May([type : {"linux"}, mode : {"disk"}, mount : {"/data"}, th : Above],
             [mount : {"/", "/data"}, used : Share])
  \union May([type : {"linux"}, mode : {"load"}, th : Above], [load : 0..2, cores : 0..2])
  \union May([type : {"linux", "winrm"}, mode : {"service"}, th : {None}],
             [status : {"running", "stopped"}])
  \union May([type : {"linux", "winrm"}, mode : {"command"}, th : Above],
             [number : Share \union {None}])
  \union May([type : {"wmi"}, aggregate : {"first", "sum", "avg", "max", "min", "count"}, th : Above],
             [rows : {<<>>} \union OneOrTwo({None, 0, 50})])
  \union May([type : {"docker"}, mode : {"summary"}, th : {None, Thresholds("above", 1, 2)}],
             [gone : BOOLEAN,
              containers : SUBSET [status : {"running", "exited"}, policy : {"always", "no"},
                                   health : {None, "unhealthy"}]])

HostRow(name, h) == h @@ [name |-> name, mhz |-> 1, cores |-> 2, memory |-> 2, uptime |-> 1]
Idle == [connection |-> "connected", status |-> "green", maintenance |-> FALSE, cpu |-> 0, mem |-> 0]

PlatformSamples ==
     May([type : {"truenas"}, mode : {"pool"}, pool : {"tank"}, th : Above]
           \union [type : {"truenas"}, mode : {"pools"}, th : Above],
         {<<>>} \union
         UNION {{<<p @@ [name |-> "tank"]>>, <<p @@ [name |-> "tank"], q @@ [name |-> "backup"]>>} :
            p, q \in [healthy : BOOLEAN, warning : BOOLEAN, allocated : {None, 1, 2}, size : {2}]})
  \union May([type : {"truenas"}, mode : {"alerts"}, min_alert_level : {"INFO", "ERROR"},
              th : {None, Thresholds("above", None, 2)}],
             SUBSET [level : {"NOTICE", "ERROR", "ALERT", "UNKNOWN"}, dismissed : BOOLEAN])
  \union May([type : {"proxmox"}, mode : {"node", "node_cpu", "node_memory"}, node : {"pve"}, th : Above],
             {<<>>, <<[type |-> "guest"]>>} \union
             {<<n @@ [type |-> "node", name |-> "pve", uptime |-> 1]>> :
                n \in [status : {"online", "offline"}, cpu : {None, 100}, mem : {None} \union 0..2, maxmem : {2}]})
  \union May([type : {"proxmox"}, mode : {"guest"}, guest : {"web"}, th : Above],
             {<<g @@ [type |-> "guest", name |-> "web", vmid |-> 100]>> :
                g \in [status : {"running", "stopped"}, hastate : {None, "error"}, cpu : {None, 50, 100}]})
  \union May([type : {"proxmox"}, mode : {"storage"}, storage : {"local"}, node : {None, "pve"}, th : Above],
             {<<s @@ [type |-> "storage", name |-> "local"]>> :
                s \in [status : {"available", "unknown"}, node : {"pve", "pve2"}, disk : {None} \union 0..2, maxdisk : {2}]})
  \union May([type : {"vsphere"}, mode : {"host", "host_cpu", "host_memory"}, entity : {None, "esx"}, th : Above],
             {<<HostRow("esx", h)>> :
                h \in [connection : {"connected", "notResponding"}, status : {"green", "yellow", "red"},
                       maintenance : BOOLEAN, cpu : {None} \union 0..2, mem : 0..2]}
             \union {<<>>, <<HostRow("esx1", Idle), HostRow("esx2", Idle)>>})
  \union May([type : {"vsphere"}, mode : {"datastore"}, entity : {"ssd"}, th : Above],
             {<<d @@ [name |-> "ssd"]>> : d \in [accessible : BOOLEAN, capacity : {None, 2}, free : 0..2]})
  \union May([type : {"vsphere"}, mode : {"vm"}, entity : {"web"}, th : Above],
             {<<v @@ [name |-> "web", maxcpu |-> 2]>> :
                v \in [power : {"poweredOn", "poweredOff"}, heartbeat : {None, "green", "yellow", "red"},
                       cpu : {None} \union 0..2]})

AppSamples ==
     May([type : {"homeassistant"}, mode : {"api"}, th : {None}], [running : BOOLEAN])
  \union May([type : {"homeassistant"}, mode : {"entity"}, expect : {{}, {"on"}}, th : Above],
             {[state |-> s, number |-> None] : s \in {"on", "off", "unknown"}} \union
             {[state |-> "number", number |-> n] : n \in Share})
  \union May([type : {"homeassistant"}, mode : {"unavailable"}, ignore : {{}, {"sun"}}, domains : {{}, {"sensor"}},
              th : {None, Thresholds("above", 1, 2)}]
               \union [type : {"homeassistant"}, mode : {"updates"}, th : {None, Thresholds("above", 1, 2)}],
             SUBSET {[id |-> "sun", domain |-> "sensor", state |-> "unavailable"],
                     [id |-> "lamp", domain |-> "light", state |-> "unavailable"],
                     [id |-> "core", domain |-> "update", state |-> "on"]})
  \union May([type : {"unifi"}, mode : {"devices", "firmware"}, ignore : {{}, {"ap"}}, th : {None, Thresholds("above", 1, 2)}]
               \union [type : {"unifi"}, mode : {"device", "device_cpu", "device_memory"}, device : {"ap"}, th : Above],
             {<<>>} \union
             UNION {{<<[name |-> "ap", mac |-> "m1", cpu |-> 50, mem |-> 100, updatable |-> FALSE] @@ a>>,
                     <<[name |-> "ap", mac |-> "m1", cpu |-> 50, mem |-> 100, updatable |-> TRUE] @@ a,
                       [name |-> "sw", mac |-> "m2", cpu |-> None, mem |-> None, updatable |-> TRUE] @@ b>>} :
                a, b \in [state : {"ONLINE", "OFFLINE", "UPDATING"}]})
  \union May([type : {"unifi"}, mode : {"cameras"}, ignore : {{}, {"door"}}, th : {None, Thresholds("above", 1, 2)}]
               \union [type : {"unifi"}, mode : {"camera"}, device : {"door"}, th : {None}],
             {<<>>} \union
             UNION {{<<[name |-> "door", mac |-> "m1"] @@ a>>,
                     <<[name |-> "door", mac |-> "m1"] @@ a, [name |-> "yard", mac |-> "m2"] @@ b>>} :
                a, b \in [state : {"CONNECTED", "CONNECTING", "DISCONNECTED"}]})
  \union May([type : {"unifi"}, mode : {"info"}, th : {None}], {[version |-> "7"]})
  \union May([type : {"technitium"}, mode : {"update"}, th : {None, Thresholds("above", 1, 2)}],
             [status : {"ok", "error"}, update : BOOLEAN])
  \union May([type : {"technitium"}, mode : {"stats"}, th : Above],
             [status : {"ok", "error"}, queries : {None, 0, 2}, failures : {None} \union 0..2])

Samples == NetSamples \union AgentSamples \union PlatformSamples \union AppSamples

\* The samples are what the theorems about replies assume.
ASSUME SamplesAssumption == Sensible
=============================================================================
