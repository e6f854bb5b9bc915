------------------------------- MODULE HostScan -------------------------------
(***************************************************************************)
(* Network discovery with credentials (watchpost/discovery.py: Discoverer).*)
(* Many hosts are scanned at once. Each host goes through the services in a*)
(* fixed order; for each one it passes a gate (TLS, host key) and is then  *)
(* offered the configured credentials in order, under the lockout rules:   *)
(* a credential that is rejected too often is retired, and until it has    *)
(* worked somewhere it is tried on one host at a time.                     *)
(* SNMP and MQTT, which have no lockout, and the unauthenticated probes are*)
(* left out; what they find is part of the device.                         *)
(***************************************************************************)
EXTENDS Naturals, FiniteSets, SequencesExt

CONSTANTS Hosts,            \* the addresses being scanned
          Networks,         \* what device each host may turn out to be
          Creds,            \* Creds[s]: the credentials of service s, in order
          PasswordOnly,     \* the SSH credentials without a private key
          MaxAuthFailures,  \* discovery.max_auth_failures
          Concurrency,      \* discovery.concurrency: hosts scanned at once
          RequireTls,       \* RequireTls["winrm"]: winrm_require_valid_tls,
                            \* RequireTls["api"]: api_require_valid_tls
          TrustOnFirstUse,  \* ssh_trust_on_first_use
          Garbling,         \* whether a device may answer what cannot be parsed
          None

\* The services with lockable credentials; the last three share the port
\* https_api_port.
ApiServices == {"vsphere", "unifi", "truenas"}
Services == {"winrm", "ssh", "proxmox", "homeassistant", "technitium"} \union ApiServices

Port(s) == IF s \in ApiServices THEN "api" ELSE s

CredSet == UNION {Range(Creds[s]) : s \in Services}

\* _tls_probe: a handshake without validation tells whether the port speaks TLS; one
\* with validation, which takes a DNS name, whether the certificate can be trusted.
Certificate(speaks, named, trusted) ==
  IF ~ speaks THEN "plain" ELSE IF named /\ trusted THEN "valid" ELSE "invalid"

\* _host_key_state, with the comparison that the connect makes: "changed" is a key
\* other than the one listed.
HostKey(listed, parses, same) ==
  IF ~ listed THEN "unlisted" ELSE IF ~ parses THEN "unusable"
  ELSE IF same THEN "known" ELSE "changed"

\* What a device shows: the services it runs, its open ports, the certificate
\* of those ports and its host key as known_hosts has it.
Device == [runs : SUBSET Services, open : SUBSET {Port(s) : s \in Services},
           cert : {Certificate(speaks, named, trusted) : speaks, named, trusted \in BOOLEAN},
           hostkey : {HostKey(listed, parses, same) : listed, parses, same \in BOOLEAN}]

\* A credential is of one type, so of one service.
ASSUME ScanAssumption ==
  /\ Networks \in SUBSET [Hosts -> Device]
  /\ Creds \in [Services -> Seq(CredSet)]
  /\ \A s, u \in Services : \A i \in 1..Len(Creds[s]), j \in 1..Len(Creds[u]) :
       Creds[s][i] = Creds[u][j] => s = u /\ i = j
  /\ PasswordOnly \in SUBSET CredSet
  /\ MaxAuthFailures \in Nat \ {0}
  /\ Concurrency \in Nat \ {0}
  /\ RequireTls \in [{"winrm", "api"} -> BOOLEAN] /\ TrustOnFirstUse \in BOOLEAN /\ Garbling \in BOOLEAN
  /\ None \notin Services

VARIABLES device,    \* what each host turns out to be
          failures,  \* auth_failures of each credential
          proven,    \* the credentials counted as having worked
          lockq,     \* _cred_locks: the holder, then the waiters in FIFO order
          pc,        \* what the scan of each host is doing
          stage,     \* the position in Stages it has reached
          service,   \* the service whose credentials it is offered
          cur,       \* the position in Creds[service]
          crashed,   \* an exception has ended the whole scan
          accepted,  \* credentials a host has authenticated (history)
          tried      \* the <<host, credential>> tried so far (history)

gate == <<failures, proven, lockq>>
scan == <<pc, stage, service, cur>>
history == <<accepted, tried>>
vars == <<device, gate, scan, crashed, history>>

Scanning == {h \in Hosts : pc[h] \notin {"idle", "done"}}

\* The credential host h is at, and whether it has passed the last one.
At(h) == Creds[service[h]][cur[h]]
Exhausted(h) == cur[h] > Len(Creds[service[h]])

\* Faulty variant: one rejection too many.
Retired_OffByOne(c) == failures[c] > MaxAuthFailures

Retired(c) == failures[c] >= MaxAuthFailures

-----------------------------------------------------------------------------
(* The gates: whether any credential of a service may be sent to a device. *)

\* Proxmox, vSphere, UniFi and TrueNAS.
TlsGate(d) == d.cert = "valid" \/ (d.cert = "invalid" /\ ~ RequireTls["api"])

\* Home Assistant and Technitium, which are also served over plain HTTP.
HttpGate(d) == TlsGate(d) \/ (d.cert = "plain" /\ ~ RequireTls["api"])

WinrmGate(d) == d.cert # "plain" /\ (d.cert = "valid" \/ ~ RequireTls["winrm"])

SshGate(d) == /\ d.hostkey # "unusable"
              /\ d.hostkey = "unlisted" => TrustOnFirstUse

GateOpen(s, d) ==
  CASE s = "winrm" -> WinrmGate(d)
    [] s = "ssh" -> SshGate(d)
    [] s \in {"homeassistant", "technitium"} -> HttpGate(d)
    [] OTHER -> TlsGate(d)

-----------------------------------------------------------------------------
(* What an attempt with one credential can end in, by whether the device   *)
(* really runs the service.                                                *)
(*   accept    authenticated, and the answer is a finding                  *)
(*   reject    refused: counts against the credential                      *)
(*   error     anything else that was caught                               *)
(*   mismatch  the SSH host key is not the known one; nothing was sent     *)
(*   foreign   UniFi's "not-unifi": the port answers 404                   *)
(*   garbled   authenticated, and parsing the answer raises                *)

Answering(runs) == {"reject", "error"} \union (IF runs THEN {"accept"} ELSE {})
MayGarble(runs) == IF runs /\ Garbling THEN {"garbled"} ELSE {}

\* One that is given up after its timeout is an error here; that its thread goes on,
\* and may be refused unseen, is left out.
WinrmAnswers(runs) == Answering(runs) \union MayGarble(runs)

\* A number in the probe's output may not be one.
SshAnswers(d) ==
  IF d.hostkey = "changed" THEN {"mismatch", "error"}
  ELSE Answering("ssh" \in d.runs) \union MayGarble("ssh" \in d.runs)

ProxmoxAnswers(runs) == Answering(runs) \union MayGarble(runs)

HomeassistantAnswers(runs) == Answering(runs) \union MayGarble(runs)

\* A refusal is a word in the JSON of a Technitium server, not an HTTP status.
TechnitiumAnswers(runs) == IF runs THEN Answering(runs) ELSE {"error"}

\* Only fingerprinted hosts get this far.
VsphereAnswers(runs) == Answering(runs)

UnifiAnswers(runs) == Answering(runs) \union (IF runs THEN {} ELSE {"foreign"})

\* The login runs inside a websocket session that only a TrueNAS opens.
TruenasAnswers(runs) == IF runs THEN Answering(runs) ELSE {"error"}

AnswersOf(s, d) ==
  CASE s = "winrm"         -> WinrmAnswers(s \in d.runs)
    [] s = "ssh"           -> SshAnswers(d)
    [] s = "proxmox"       -> ProxmoxAnswers(s \in d.runs)
    [] s = "homeassistant" -> HomeassistantAnswers(s \in d.runs)
    [] s = "technitium"    -> TechnitiumAnswers(s \in d.runs)
    [] s = "vsphere"       -> VsphereAnswers(s \in d.runs)
    [] s = "unifi"         -> UnifiAnswers(s \in d.runs)
    [] s = "truenas"       -> TruenasAnswers(s \in d.runs)

\* The answers after which no other credential of the service is tried.
Settling == {"accept", "mismatch", "foreign"}

\* Faulty variant: an attempt that went wrong for another reason proves it too.
Proves_NotRejected(answer) == answer # "reject"

\* The answers after which the credential counts as having worked.
Proves(answer) == answer \in {"accept", "foreign", "garbled"}

-----------------------------------------------------------------------------
(* scan_host: the order of the services. *)

Stages == <<"winrm", "ssh", "proxmox", "homeassistant", "technitium", "api">>

\* _is_vsphere: a fingerprint without credentials, which also fails if the host
\* does not answer in time.
IsVsphere(d) == IF "vsphere" \in d.runs THEN BOOLEAN ELSE {FALSE}

\* The first service of a stage that is tried on a device with that fingerprint, or
\* None.
FirstOf(st, vsphere) ==
  IF st # "api" THEN IF Creds[st] # <<>> THEN st ELSE None
  ELSE IF vsphere
       THEN IF Creds["vsphere"] # <<>> THEN "vsphere" ELSE None
  ELSE IF Creds["unifi"] # <<>> THEN "unifi"
  ELSE IF Creds["truenas"] # <<>> THEN "truenas" ELSE None

\* run: a permit of the semaphore lets the scan of a host begin.
Start(h) ==
  /\ ~ crashed /\ pc[h] = "idle" /\ Cardinality(Scanning) < Concurrency
  /\ pc' = [pc EXCEPT ![h] = "stage"]
  /\ UNCHANGED <<device, gate, stage, service, cur, crashed, history>>

\* The stages host h has not reached yet and that have something for it.
Ahead(h, vsphere) == {i \in stage[h]..Len(Stages) :
                        /\ Stages[i] \in device[h].open
                        /\ FirstOf(Stages[i], vsphere) # None}

\* On to the next stage whose port is open and that has credentials to offer.
NextStage(h) ==
  /\ ~ crashed /\ pc[h] = "stage"
  /\ \E vsphere \in IsVsphere(device[h]) : \E i \in Ahead(h, vsphere) :
       /\ \A j \in Ahead(h, vsphere) : i <= j
       /\ stage' = [stage EXCEPT ![h] = i]
       /\ service' = [service EXCEPT ![h] = FirstOf(Stages[i], vsphere)]
  /\ pc' = [pc EXCEPT ![h] = "gate"]
  /\ UNCHANGED <<device, gate, cur, crashed, history>>

\* The scan of h is over and its permit free.
Finish(h) ==
  /\ ~ crashed /\ pc[h] = "stage"
  /\ \E vsphere \in IsVsphere(device[h]) : Ahead(h, vsphere) = {}
  /\ pc' = [pc EXCEPT ![h] = "done"]
  /\ UNCHANGED <<device, gate, stage, service, cur, crashed, history>>

\* Faulty variant: TrueNAS is on the same port, so its gate is taken as passed.
Leave_SameGate(h, found) ==
  IF service[h] = "unifi" /\ ~ found /\ Creds["truenas"] # <<>>
  THEN /\ pc' = [pc EXCEPT ![h] = "next"]
       /\ service' = [service EXCEPT ![h] = "truenas"]
       /\ cur' = [cur EXCEPT ![h] = 1]
       /\ UNCHANGED stage
  ELSE /\ pc' = [pc EXCEPT ![h] = "stage"]
       /\ stage' = [stage EXCEPT ![h] = @ + 1]
       /\ service' = [service EXCEPT ![h] = None]
       /\ cur' = [cur EXCEPT ![h] = 1]

\* Host h is done with its service: on to the next stage, or from a UniFi
\* attempt without result to TrueNAS on the same port.
Leave(h, found) ==
  IF service[h] = "unifi" /\ ~ found /\ Creds["truenas"] # <<>>
  THEN /\ pc' = [pc EXCEPT ![h] = "gate"]
       /\ service' = [service EXCEPT ![h] = "truenas"]
       /\ cur' = [cur EXCEPT ![h] = 1]
       /\ UNCHANGED stage
  ELSE /\ pc' = [pc EXCEPT ![h] = "stage"]
       /\ stage' = [stage EXCEPT ![h] = @ + 1]
       /\ service' = [service EXCEPT ![h] = None]
       /\ cur' = [cur EXCEPT ![h] = 1]

\* The gate of the service is passed, or closes it for this host.
PassGate(h) ==
  /\ ~ crashed /\ pc[h] = "gate"
  /\ IF GateOpen(service[h], device[h])
     THEN pc' = [pc EXCEPT ![h] = "next"] /\ UNCHANGED <<stage, service, cur>>
     ELSE Leave(h, FALSE)
  /\ UNCHANGED <<device, gate, crashed, history>>

-----------------------------------------------------------------------------
(* The loop over the credentials of a service, and _with_cred. *)

\* A password is not offered to a host whose key is not trusted already.
Withheld(h) == At(h) \in PasswordOnly /\ device[h].hostkey = "unlisted"

Ready(h) == ~ crashed /\ pc[h] = "next"

GiveUp(h) == /\ Ready(h) /\ Exhausted(h)
             /\ Leave(h, FALSE)
             /\ UNCHANGED <<device, gate, crashed, history>>

Skip(h) == /\ Ready(h) /\ ~ Exhausted(h) /\ (Retired(At(h)) \/ Withheld(h))
           /\ cur' = [cur EXCEPT ![h] = @ + 1]
           /\ UNCHANGED <<device, gate, pc, stage, service, crashed, history>>

Wanted(h) == Ready(h) /\ ~ Exhausted(h) /\ ~ Retired(At(h)) /\ ~ Withheld(h)

\* A proven credential is tried without the lock.
TryProven(h) == /\ Wanted(h) /\ At(h) \in proven
                /\ pc' = [pc EXCEPT ![h] = "trying"]
                /\ UNCHANGED <<device, gate, stage, service, cur, crashed, history>>

\* Any other one behind the lock, at once if the lock is free.
TryUnproven(h) ==
  /\ Wanted(h) /\ At(h) \notin proven
  /\ pc' = [pc EXCEPT ![h] = IF lockq[At(h)] = <<>> THEN "trying" ELSE "waiting"]
  /\ lockq' = [lockq EXCEPT ![At(h)] = Append(@, h)]
  /\ UNCHANGED <<device, failures, proven, stage, service, cur, crashed, history>>

\* Faulty variant: the failures are not looked at again under the lock.
StillWanted_Unchecked(c) == TRUE

\* The check under the lock: what the holders before did may have retired it.
StillWanted(c) == ~ Retired(c)

\* A waiter gets the lock.
Granted(h) ==
  /\ ~ crashed /\ pc[h] = "waiting" /\ Head(lockq[At(h)]) = h
  /\ IF StillWanted(At(h))
     THEN /\ pc' = [pc EXCEPT ![h] = "trying"]
          /\ UNCHANGED <<lockq, cur>>
     ELSE /\ pc' = [pc EXCEPT ![h] = "next"]
          /\ lockq' = [lockq EXCEPT ![At(h)] = Tail(@)]
          /\ cur' = [cur EXCEPT ![h] = @ + 1]
  /\ UNCHANGED <<device, failures, proven, stage, service, crashed, history>>

\* The queue of the credential host h is at, without h if it holds the lock.
Released(h) ==
  [lockq EXCEPT ![At(h)] = IF @ # <<>> /\ Head(@) = h THEN Tail(@) ELSE @]

\* Faulty variant: an attempt that went wrong keeps the lock.
Unlock_OnSuccessOnly(h, answer) == IF answer \in Settling THEN Released(h) ELSE lockq

\* Leaving `async with', if the attempt was made under the lock.
Unlock(h, answer) == Released(h)

\* The attempt ends: the host is done with the service, or its next credential
\* is tried. An answer that cannot be parsed is not caught, and gather() in run
\* lets it end the scan of every host.
Answer(h, answer) ==
  /\ ~ crashed /\ pc[h] = "trying"
  /\ failures' = [failures EXCEPT ![At(h)] = IF answer = "reject" THEN @ + 1 ELSE @]
  /\ proven' = IF Proves(answer) THEN proven \union {At(h)} ELSE proven
  /\ lockq' = Unlock(h, answer)
  /\ accepted' = IF answer \in {"accept", "garbled"} THEN accepted \union {At(h)} ELSE accepted
  /\ tried' = IF answer = "mismatch" THEN tried ELSE tried \union {<<h, At(h)>>}
  /\ crashed' = (answer = "garbled")
  /\ IF answer \in Settling
     THEN Leave(h, answer = "accept")
     ELSE /\ pc' = [pc EXCEPT ![h] = "next"]
          /\ cur' = [cur EXCEPT ![h] = @ + 1]
          /\ UNCHANGED <<stage, service>>
  /\ UNCHANGED device

-----------------------------------------------------------------------------
Init == /\ device \in Networks
        /\ failures = [c \in CredSet |-> 0]
        /\ proven = {}
        /\ lockq = [c \in CredSet |-> <<>>]
        /\ pc = [h \in Hosts |-> "idle"]
        /\ stage = [h \in Hosts |-> 1]
        /\ service = [h \in Hosts |-> None]
        /\ cur = [h \in Hosts |-> 1]
        /\ crashed = FALSE
        /\ accepted = {} /\ tried = {}

Step(h) == \/ Start(h) \/ NextStage(h) \/ Finish(h) \/ PassGate(h) \/ GiveUp(h)
           \/ Skip(h) \/ TryProven(h) \/ TryUnproven(h) \/ Granted(h)
           \/ pc[h] = "trying" /\ \E answer \in AnswersOf(service[h], device[h]) : Answer(h, answer)

Next == \E h \in Hosts : Step(h)

Spec == Init /\ [][Next]_vars

\* Every attempt has a timeout, and asyncio resumes whatever is ready.
FairSpec == Spec /\ \A h \in Hosts : WF_vars(Step(h))

-----------------------------------------------------------------------------
Busy == {"gate", "next", "waiting", "trying"}

Trying(c) == {h \in Hosts : pc[h] = "trying" /\ At(h) = c}

\* However many hosts are scanned at once, a credential that has not worked
\* anywhere is rejected MaxAuthFailures times at most.
\* THREAT-MODEL.md:45 "so parallel scanning can not overshoot the limit"
NeverOvershoots ==
  \A c \in CredSet \ accepted : failures[c] <= MaxAuthFailures

\* One that has worked is tried in parallel, and then the limit is exceeded by
\* the attempts that were already under way at most. (discovery.py:813-818)
BoundedOvershoot ==
  \A c \in CredSet :
    failures[c] + Cardinality(Trying(c)) <= MaxAuthFailures + Concurrency - 1

\* Until a credential has succeeded once, attempts with it are made one host at a
\* time. (discovery.py:16-18)
OneHostUntilProven ==
  \A c \in CredSet \ accepted : \A g, h \in Trying(c) : g = h

\* No attempt with a credential begins once it is retired. (discovery.py:795, 816)
RetiredIsLeftAlone ==
  [][\A h \in Hosts : pc[h] # "trying" /\ pc'[h] = "trying" => ~ Retired(At(h))]_vars

\* Whatever way a host's scan takes through the services, a credential is tried
\* only on a port that is open and past the gate of its own service, and an SSH
\* password only on a host whose key was trusted before.
\* (discovery.py:489-498, 566-582, 635-676)
TriedOnlyBehindGate ==
  \A s \in Services, h \in Hosts : \A i \in 1..Len(Creds[s]) :
    <<h, Creds[s][i]>> \in tried =>
      /\ Port(s) \in device[h].open
      /\ GateOpen(s, device[h])
      /\ Creds[s][i] \in PasswordOnly => device[h].hostkey # "unlisted"

\* Every host's scan ends, or an exception ends them all: no credential lock is
\* kept by a host that has moved on. (discovery.py:815, 986-998)
EveryScanEnds == \A h \in Hosts : <>(pc[h] = "done" \/ crashed)
=============================================================================
