--------------------------- MODULE HostScan_proofs ----------------------------
(***************************************************************************)
(* For any hosts, credentials, limit and concurrency: how often a          *)
(* credential is rejected, on how many hosts at a time it is tried, and    *)
(* what is behind the gates it is tried through.                           *)
(***************************************************************************)
EXTENDS HostScan, SequenceTheorems, FiniteSetTheorems, TLAPS

\* Where the scan of each host is.
PlacesTyped ==
  /\ pc \in [Hosts -> {"idle", "stage", "done"} \union Busy]
  /\ stage \in [Hosts -> Nat \ {0}]
  /\ service \in [Hosts -> Services \union {None}]
  /\ cur \in [Hosts -> Nat \ {0}]

TypeOK ==
  /\ failures \in [CredSet -> Nat] /\ proven \subseteq CredSet
  /\ lockq \in [CredSet -> Seq(Hosts)]
  /\ PlacesTyped

\* Where the scan of a host is fits what the host shows.
Placed(h) ==
  /\ pc[h] \in Busy => service[h] \in Services /\ Port(service[h]) \in device[h].open
  /\ pc[h] \in {"next", "waiting", "trying"} => GateOpen(service[h], device[h])
  /\ pc[h] \in {"waiting", "trying"} => ~ Exhausted(h) /\ ~ Withheld(h)

AllPlaced == \A h \in Hosts : Placed(h)

Holds(h) == lockq[At(h)] # <<>> /\ Head(lockq[At(h)]) = h

\* Who waits is in the queue; who tries a credential that is not proven holds its lock.
Queued(h) ==
  /\ pc[h] = "waiting" => \E i \in DOMAIN lockq[At(h)] : lockq[At(h)][i] = h
  /\ pc[h] = "trying" => At(h) \in proven \/ Holds(h)

LocksSound == \A h \in Hosts : Queued(h)

\* The permits of the semaphore.
PermitsSound == IsFiniteSet(Scanning) /\ Cardinality(Scanning) <= Concurrency

\* A credential that is not proven stays within the limit, and so does the attempt
\* that is made with it.
UnprovenWithin ==
  \A c \in CredSet \ proven :
    failures[c] <= MaxAuthFailures /\ (Trying(c) # {} => failures[c] < MaxAuthFailures)

\* Only a UniFi key can be proven without being accepted.
ProvenSound == proven \subseteq accepted \union Range(Creds["unifi"])

IInv ==
  /\ TypeOK /\ AllPlaced /\ LocksSound /\ PermitsSound /\ UnprovenWithin /\ ProvenSound
  /\ BoundedOvershoot /\ TriedOnlyBehindGate

-----------------------------------------------------------------------------
(* What the definitions return *)

\* The credential a host is at is one of its service.
LEMMA AtType ==
  ASSUME NEW h \in Hosts, service[h] \in Services, cur[h] \in Nat \ {0}, ~ Exhausted(h)
  PROVE  /\ At(h) \in CredSet /\ At(h) \in Range(Creds[service[h]])
         /\ cur[h] \in 1..Len(Creds[service[h]])
<1>1. Creds[service[h]] \in Seq(CredSet)
  BY ScanAssumption
<1>2. Len(Creds[service[h]]) \in Nat /\ DOMAIN Creds[service[h]] = 1..Len(Creds[service[h]])
  BY <1>1, LenProperties
<1>3. cur[h] \in 1..Len(Creds[service[h]])
  BY <1>2 DEF Exhausted
<1>4. At(h) \in CredSet
  BY <1>1, <1>3, ElementOfSeq DEF At
<1> QED
  BY <1>2, <1>3, <1>4 DEF At, Range

\* Where a host tries a credential or waits for one, it is at one.
LEMMA AtOfBusy ==
  ASSUME TypeOK, NEW h \in Hosts, Placed(h), pc[h] \in {"waiting", "trying"}
  PROVE  At(h) \in CredSet /\ At(h) \in Range(Creds[service[h]])
<1>1. service[h] \in Services /\ cur[h] \in Nat \ {0} /\ ~ Exhausted(h)
  BY DEF TypeOK, PlacesTyped, Placed, Busy
<1> QED
  BY <1>1, AtType

\* The first service of a stage is one on the port of that stage.
LEMMA FirstOfType ==
  ASSUME NEW i \in 1..6, NEW v \in BOOLEAN, FirstOf(Stages[i], v) # None
  PROVE  FirstOf(Stages[i], v) \in Services /\ Port(FirstOf(Stages[i], v)) = Stages[i]
<1> DEFINE st == Stages[i]
<1>1. st \in {"winrm", "ssh", "proxmox", "homeassistant", "technitium", "api"}
  BY DEF Stages
<1> HIDE DEF st
<1>2. CASE st = "api"
  <2>1. FirstOf(st, v) \in {"vsphere", "unifi", "truenas", None}
    BY <1>2 DEF FirstOf
  <2> QED
    BY <1>2, <2>1 DEF st, Services, ApiServices, Port
<1>3. CASE st # "api"
  <2>1. FirstOf(st, v) \in {st, None}
    BY <1>3 DEF FirstOf
  <2> QED
    BY <1>1, <1>3, <2>1 DEF st, Services, ApiServices, Port
<1> QED
  BY <1>2, <1>3

\* Only a UniFi check answers "foreign".
LEMMA ForeignIsUnifi ==
  ASSUME NEW s \in Services, NEW d, "foreign" \in AnswersOf(s, d)
  PROVE  s = "unifi"
BY DEF AnswersOf, Services, ApiServices, WinrmAnswers, SshAnswers, ProxmoxAnswers,
       HomeassistantAnswers, TechnitiumAnswers, VsphereAnswers, TruenasAnswers, Answering, MayGarble

-----------------------------------------------------------------------------
(* A step of one host *)

\* The scans of all other hosts stay where they are.
OthersStay(h) ==
  /\ UNCHANGED device
  /\ \A g \in Hosts \ {h} :
       pc'[g] = pc[g] /\ stage'[g] = stage[g] /\ service'[g] = service[g] /\ cur'[g] = cur[g]

LEMMA OthersPlaced ==
  ASSUME AllPlaced, NEW h \in Hosts, OthersStay(h), Placed(h)'
  PROVE  AllPlaced'
<1> SUFFICES ASSUME NEW g \in Hosts \ {h} PROVE Placed(g)'
  BY DEF AllPlaced
<1>1. Placed(g)
  BY DEF AllPlaced
<1> QED
  BY <1>1 DEF OthersStay, Placed, Exhausted, Withheld, At

\* What a step of h does to the queues: nothing, h joins one, or h leaves one as its head.
QueueStep(h) ==
  \/ UNCHANGED lockq
  \/ \E c \in CredSet :
       \/ lockq' = [lockq EXCEPT ![c] = Append(lockq[c], h)]
       \/ /\ lockq[c] # <<>> /\ Head(lockq[c]) = h
          /\ lockq' = [lockq EXCEPT ![c] = Tail(lockq[c])]

LEMMA QueueType ==
  ASSUME TypeOK, NEW h \in Hosts, QueueStep(h)
  PROVE  lockq' \in [CredSet -> Seq(Hosts)]
<1>1. \A c \in CredSet : lockq[c] \in Seq(Hosts)
  BY DEF TypeOK
<1>2. \A c \in CredSet : Append(lockq[c], h) \in Seq(Hosts)
  BY <1>1, AppendProperties
<1>3. \A c \in CredSet : lockq[c] # <<>> => Tail(lockq[c]) \in Seq(Hosts)
  BY <1>1, HeadTailProperties
<1> QED
  BY <1>1, <1>2, <1>3 DEF QueueStep, TypeOK

\* Another host that is in a queue stays in it, and at its head if it was there.
LEMMA OthersStayQueued ==
  ASSUME TypeOK, NEW h \in Hosts, NEW g \in Hosts \ {h}, QueueStep(h), NEW c \in CredSet
  PROVE  /\ (\E i \in DOMAIN lockq[c] : lockq[c][i] = g)
              => \E i \in DOMAIN lockq'[c] : lockq'[c][i] = g
         /\ (lockq[c] # <<>> /\ Head(lockq[c]) = g)
              => (lockq'[c] # <<>> /\ Head(lockq'[c]) = g)
<1> DEFINE q == lockq[c]
<1>1. q \in Seq(Hosts) /\ DOMAIN q = 1..Len(q) /\ Len(q) \in Nat
  BY LenProperties DEF TypeOK
<1>2. CASE lockq'[c] = q
  BY <1>2
<1>3. CASE lockq'[c] = Append(q, h)
  <2>1. /\ Append(q, h) \in Seq(Hosts) /\ Len(Append(q, h)) = Len(q) + 1
        /\ \A i \in 1..Len(q) : Append(q, h)[i] = q[i]
        /\ DOMAIN Append(q, h) = 1..(Len(q) + 1)
    BY <1>1, AppendProperties, LenProperties
  <2>2. Append(q, h) # <<>>
    BY <1>1, AppendProperties
  <2>3. q # <<>> => Len(q) >= 1
    BY <1>1, EmptySeq
  <2>4. q # <<>> => Head(Append(q, h)) = Head(q)
    BY <1>1, <2>1, <2>3
  <2> QED
    BY <1>1, <1>3, <2>1, <2>2, <2>4
<1>4. CASE q # <<>> /\ Head(q) = h /\ lockq'[c] = Tail(q)
  <2>1. /\ Tail(q) \in Seq(Hosts) /\ Len(Tail(q)) = Len(q) - 1
        /\ \A i \in 1..Len(Tail(q)) : Tail(q)[i] = q[i + 1]
        /\ DOMAIN Tail(q) = 1..(Len(q) - 1)
    BY <1>1, <1>4, HeadTailProperties, LenProperties
  <2>2. ASSUME NEW i \in DOMAIN q, q[i] = g PROVE \E k \in DOMAIN Tail(q) : Tail(q)[k] = g
    <3>1. q[1] = h
      BY <1>1, <1>4
    <3>2. i - 1 \in 1..(Len(q) - 1) /\ (i - 1) + 1 = i
      <4>1. i # 1
        BY <2>2, <3>1
      <4> QED
        BY <1>1, <4>1
    <3>3. Tail(q)[i - 1] = g
      BY <2>1, <2>2, <3>2
    <3> QED
      BY <2>1, <3>2, <3>3
  <2> QED
    BY <1>4, <2>2
<1> QED
  BY <1>2, <1>3, <1>4 DEF QueueStep, TypeOK

LEMMA OthersLocked ==
  ASSUME TypeOK, AllPlaced, LocksSound, NEW h \in Hosts, OthersStay(h), QueueStep(h),
         proven \subseteq proven', Queued(h)'
  PROVE  LocksSound'
<1> SUFFICES ASSUME NEW g \in Hosts \ {h} PROVE Queued(g)'
  BY DEF LocksSound
<1>1. Queued(g) /\ Placed(g)
  BY DEF LocksSound, AllPlaced
<1>2. pc'[g] = pc[g] /\ At(g)' = At(g)
  BY DEF OthersStay, At
<1>3. CASE pc[g] \in {"waiting", "trying"}
  <2>1. At(g) \in CredSet
    BY <1>1, <1>3, AtOfBusy
  <2> QED
    BY <1>1, <1>2, <1>3, <2>1, OthersStayQueued DEF Queued, Holds
<1>4. CASE pc[g] \notin {"waiting", "trying"}
  BY <1>2, <1>4 DEF Queued
<1> QED
  BY <1>3, <1>4

-----------------------------------------------------------------------------
(* Counting *)

\* The attempts after a step of h are those before it, with or without h.
LEMMA TryingNext ==
  ASSUME NEW h \in Hosts, OthersStay(h), NEW c
  PROVE  Trying(c)' = IF pc'[h] = "trying" /\ At(h)' = c THEN Trying(c) \union {h}
                      ELSE Trying(c) \ {h}
BY DEF Trying, OthersStay, At

LEMMA ScanningNext ==
  ASSUME TypeOK, PermitsSound, NEW h \in Hosts, OthersStay(h),
         pc[h] \in {"idle", "done"} /\ pc'[h] \notin {"idle", "done"}
           => Cardinality(Scanning) < Concurrency
  PROVE  PermitsSound'
<1>1. Scanning' = IF pc'[h] \notin {"idle", "done"} THEN Scanning \union {h} ELSE Scanning \ {h}
  BY DEF Scanning, OthersStay
<1>2. /\ IsFiniteSet(Scanning \union {h}) /\ IsFiniteSet(Scanning \ {h})
      /\ Cardinality(Scanning \union {h}) =
           IF h \in Scanning THEN Cardinality(Scanning) ELSE Cardinality(Scanning) + 1
      /\ Cardinality(Scanning \ {h}) =
           IF h \in Scanning THEN Cardinality(Scanning) - 1 ELSE Cardinality(Scanning)
      /\ Cardinality(Scanning) \in Nat
  BY FS_AddElement, FS_RemoveElement, FS_CardinalityType DEF PermitsSound
<1>3. h \in Scanning <=> pc[h] \notin {"idle", "done"}
  BY DEF Scanning
<1> QED
  BY <1>1, <1>2, <1>3, ScanAssumption DEF PermitsSound

\* The attempts with a credential are among the hosts that are scanned.
LEMMA TryingCount ==
  ASSUME PermitsSound, NEW c
  PROVE  /\ IsFiniteSet(Trying(c)) /\ Cardinality(Trying(c)) \in Nat
         /\ Cardinality(Trying(c)) <= Concurrency
<1>1. Trying(c) \subseteq Scanning
  BY DEF Trying, Scanning
<1>2. IsFiniteSet(Trying(c)) /\ Cardinality(Trying(c)) <= Cardinality(Scanning)
  BY <1>1, FS_Subset DEF PermitsSound
<1>3. Cardinality(Trying(c)) \in Nat /\ Cardinality(Scanning) \in Nat
  BY <1>2, FS_CardinalityType DEF PermitsSound
<1> QED
  BY <1>2, <1>3, ScanAssumption DEF PermitsSound

\* A step after which the same attempts are under way.
LEMMA QuietCounts ==
  ASSUME IInv, NEW h \in Hosts, OthersStay(h), pc[h] # "trying", pc'[h] # "trying",
         UNCHANGED <<failures, proven>>
  PROVE  UnprovenWithin' /\ BoundedOvershoot'
<1>1. \A c \in CredSet : Trying(c)' = Trying(c)
  BY TryingNext DEF Trying
<1> QED
  BY <1>1 DEF IInv, UnprovenWithin, BoundedOvershoot

\* An attempt begins: with a credential that is not retired, and with one that is not
\* proven nowhere else.
LEMMA BeginCounts ==
  ASSUME IInv, NEW h \in Hosts, OthersStay(h), At(h) \in CredSet, At(h)' = At(h),
         PermitsSound', ~ Retired(At(h)), UNCHANGED <<failures, proven>>
  PROVE  UnprovenWithin' /\ BoundedOvershoot'
<1> DEFINE k == At(h)
<1>1. failures[k] \in Nat /\ failures[k] < MaxAuthFailures
  BY ScanAssumption DEF IInv, TypeOK, Retired
<1>2. \A c \in CredSet : c # k => Trying(c)' = Trying(c)
  <2>1. \A c : c # k => h \notin Trying(c)
    BY DEF Trying
  <2> QED
    BY <2>1, TryingNext
<1>3. UnprovenWithin'
  BY <1>1, <1>2 DEF IInv, UnprovenWithin
<1>4. BoundedOvershoot'
  <2>1. \A c \in CredSet : Cardinality(Trying(c)') \in Nat /\ Cardinality(Trying(c)') <= Concurrency
    <3> SUFFICES ASSUME NEW c \in CredSet
                 PROVE  Cardinality(Trying(c)') \in Nat /\ Cardinality(Trying(c)') <= Concurrency
      OBVIOUS
    <3>1. Trying(c)' \subseteq Scanning'
      BY DEF Trying, Scanning
    <3>2. IsFiniteSet(Trying(c)') /\ Cardinality(Trying(c)') <= Cardinality(Scanning')
      BY <3>1, FS_Subset DEF PermitsSound
    <3>3. Cardinality(Trying(c)') \in Nat /\ Cardinality(Scanning') \in Nat
      BY <3>2, FS_CardinalityType DEF PermitsSound
    <3> QED
      BY <3>2, <3>3, ScanAssumption DEF PermitsSound
  <2> SUFFICES ASSUME NEW c \in CredSet
               PROVE  failures[c] + Cardinality(Trying(c)') <= MaxAuthFailures + Concurrency - 1
    BY DEF BoundedOvershoot
  <2>2. CASE c = k
    BY <1>1, <2>1, <2>2, ScanAssumption
  <2>3. CASE c # k
    BY <1>2, <2>3 DEF IInv, BoundedOvershoot
  <2> QED
    BY <2>2, <2>3
<1> QED
  BY <1>3, <1>4

-----------------------------------------------------------------------------
(* The steps *)

LEMMA InitSound == Init => IInv
<1> SUFFICES ASSUME Init PROVE IInv
  OBVIOUS
<1>1. TypeOK /\ AllPlaced /\ LocksSound /\ ProvenSound /\ TriedOnlyBehindGate
  BY EmptySeq
     DEF Init, TypeOK, PlacesTyped, AllPlaced, Placed, LocksSound, Queued, ProvenSound, Busy,
         TriedOnlyBehindGate
<1>2. Scanning = {} /\ \A c : Trying(c) = {}
  BY DEF Init, Scanning, Trying
<1>3. PermitsSound /\ UnprovenWithin /\ BoundedOvershoot
  <2>1. \A c \in CredSet : failures[c] = 0
    BY DEF Init
  <2>2. MaxAuthFailures \in Nat \ {0} /\ Concurrency \in Nat \ {0}
    BY ScanAssumption
  <2>3. PermitsSound
    BY <1>2, <2>2, FS_EmptySet DEF PermitsSound
  <2>4. UnprovenWithin
    BY <1>2, <2>1, <2>2 DEF UnprovenWithin
  <2>5. BoundedOvershoot
    <3>1. \A c : Cardinality(Trying(c)) = 0
      BY <1>2, FS_EmptySet
    <3> QED
      BY <2>1, <2>2, <3>1 DEF BoundedOvershoot
  <2> QED
    BY <2>3, <2>4, <2>5
<1> QED
  BY <1>1, <1>3 DEF IInv

\* What every step but the end of an attempt leaves alone.
Counters == <<failures, proven, accepted, tried, device>>

\* A step after which the same attempts are under way.
LEMMA QuietSound ==
  ASSUME IInv, NEW h \in Hosts, OthersStay(h), PlacesTyped', Placed(h)', Queued(h)',
         QueueStep(h), pc[h] # "trying", pc'[h] # "trying", UNCHANGED Counters,
         pc[h] \in {"idle", "done"} /\ pc'[h] \notin {"idle", "done"}
           => Cardinality(Scanning) < Concurrency
  PROVE  IInv'
<1> USE DEF IInv, Counters
<1>1. TypeOK'
  BY QueueType DEF TypeOK
<1>2. AllPlaced' /\ LocksSound'
  BY OthersPlaced, OthersLocked
<1>3. PermitsSound'
  BY ScanningNext
<1>4. UnprovenWithin' /\ BoundedOvershoot'
  BY QuietCounts
<1>5. ProvenSound' /\ TriedOnlyBehindGate'
  BY DEF ProvenSound, TriedOnlyBehindGate
<1> QED
  BY <1>1, <1>2, <1>3, <1>4, <1>5

\* An attempt begins.
LEMMA BeginSound ==
  ASSUME IInv, NEW h \in Hosts, OthersStay(h), PlacesTyped', Placed(h)', Queued(h)',
         QueueStep(h), pc[h] \in {"next", "waiting"}, pc'[h] = "trying", UNCHANGED Counters,
         At(h) \in CredSet, At(h)' = At(h), ~ Retired(At(h))
  PROVE  IInv'
<1> USE DEF IInv, Counters
<1>1. TypeOK'
  BY QueueType DEF TypeOK
<1>2. AllPlaced' /\ LocksSound'
  BY OthersPlaced, OthersLocked
<1>3. PermitsSound'
  BY ScanningNext
<1>4. UnprovenWithin' /\ BoundedOvershoot'
  BY <1>3, BeginCounts
<1>5. ProvenSound' /\ TriedOnlyBehindGate'
  BY DEF ProvenSound, TriedOnlyBehindGate
<1> QED
  BY <1>1, <1>2, <1>3, <1>4, <1>5

\* The host is done with its service.
LEMMA LeaveSound ==
  ASSUME TypeOK, NEW h \in Hosts, Placed(h), pc[h] \in Busy, NEW found, Leave(h, found),
         UNCHANGED device
  PROVE  /\ PlacesTyped' /\ OthersStay(h) /\ Placed(h)' /\ Queued(h)'
         /\ pc'[h] \in {"gate", "stage"}
<1> USE DEF TypeOK
<1>1. CASE /\ service[h] = "unifi"
           /\ pc' = [pc EXCEPT ![h] = "gate"] /\ service' = [service EXCEPT ![h] = "truenas"]
           /\ cur' = [cur EXCEPT ![h] = 1] /\ UNCHANGED stage
  <2>1. PlacesTyped' /\ OthersStay(h) /\ pc'[h] = "gate" /\ service'[h] = "truenas"
    BY <1>1 DEF PlacesTyped, OthersStay, Busy, Services, ApiServices
  <2>2. Port("unifi") = Port("truenas") /\ "truenas" \in Services
    BY DEF Port, ApiServices, Services
  <2> QED
    BY <1>1, <2>1, <2>2 DEF Placed, Queued, Busy
<1>2. CASE /\ pc' = [pc EXCEPT ![h] = "stage"] /\ stage' = [stage EXCEPT ![h] = stage[h] + 1]
           /\ service' = [service EXCEPT ![h] = None] /\ cur' = [cur EXCEPT ![h] = 1]
  BY <1>2 DEF PlacesTyped, OthersStay, Placed, Queued, Busy
<1> QED
  BY <1>1, <1>2 DEF Leave

LEMMA StartSound ==
  ASSUME IInv, NEW h \in Hosts, Start(h)
  PROVE  IInv'
<1> USE DEF IInv, Start
<1>1. OthersStay(h) /\ PlacesTyped' /\ Placed(h)' /\ Queued(h)' /\ pc'[h] = "stage"
  BY DEF OthersStay, TypeOK, PlacesTyped, Placed, Queued, Busy
<1>2. QueueStep(h) /\ UNCHANGED Counters
  BY DEF QueueStep, Counters, gate, history
<1> QED
  BY <1>1, <1>2, QuietSound

LEMMA NextStageSound ==
  ASSUME IInv, NEW h \in Hosts, NextStage(h)
  PROVE  IInv'
<1> USE DEF IInv
<1>1. PICK v \in IsVsphere(device[h]) : \E i \in Ahead(h, v) :
        /\ stage' = [stage EXCEPT ![h] = i]
        /\ service' = [service EXCEPT ![h] = FirstOf(Stages[i], v)]
  BY DEF NextStage
<1>2. PICK i \in Ahead(h, v) :
        /\ stage' = [stage EXCEPT ![h] = i]
        /\ service' = [service EXCEPT ![h] = FirstOf(Stages[i], v)]
  BY <1>1
<1>3. v \in BOOLEAN /\ i \in 1..6 /\ Stages[i] \in device[h].open /\ FirstOf(Stages[i], v) # None
  <2>1. v \in BOOLEAN
    BY DEF IsVsphere
  <2>2. stage[h] \in Nat \ {0} /\ Len(Stages) = 6
    BY DEF TypeOK, PlacesTyped, Stages
  <2>3. i \in stage[h]..Len(Stages) /\ Stages[i] \in device[h].open /\ FirstOf(Stages[i], v) # None
    BY DEF Ahead
  <2> QED
    BY <2>1, <2>2, <2>3
<1>4. FirstOf(Stages[i], v) \in Services /\ Port(FirstOf(Stages[i], v)) = Stages[i]
  BY <1>3, FirstOfType
<1>5. pc[h] = "stage" /\ pc' = [pc EXCEPT ![h] = "gate"] /\ UNCHANGED <<device, gate, cur, history>>
  BY DEF NextStage
<1>6. pc'[h] = "gate" /\ service'[h] = FirstOf(Stages[i], v) /\ OthersStay(h) /\ PlacesTyped'
  BY <1>2, <1>3, <1>4, <1>5 DEF OthersStay, TypeOK, PlacesTyped, Busy
<1>7. Placed(h)' /\ Queued(h)'
  BY <1>3, <1>4, <1>5, <1>6 DEF Placed, Queued
<1>8. QueueStep(h) /\ UNCHANGED Counters
  BY <1>5 DEF QueueStep, Counters, gate, history
<1> QED
  BY <1>5, <1>6, <1>7, <1>8, QuietSound

LEMMA FinishSound ==
  ASSUME IInv, NEW h \in Hosts, Finish(h)
  PROVE  IInv'
<1> USE DEF IInv
<1>1. pc[h] = "stage" /\ pc' = [pc EXCEPT ![h] = "done"]
      /\ UNCHANGED <<device, gate, stage, service, cur, history>>
  BY DEF Finish
<1>2. OthersStay(h) /\ PlacesTyped' /\ Placed(h)' /\ Queued(h)' /\ pc'[h] = "done"
  BY <1>1 DEF OthersStay, TypeOK, PlacesTyped, Placed, Queued, Busy
<1>3. QueueStep(h) /\ UNCHANGED Counters
  BY <1>1 DEF QueueStep, Counters, gate, history
<1> QED
  BY <1>1, <1>2, <1>3, QuietSound

LEMMA PassGateSound ==
  ASSUME IInv, NEW h \in Hosts, PassGate(h)
  PROVE  IInv'
<1> USE DEF IInv
<1>1. pc[h] = "gate" /\ UNCHANGED <<device, gate, history>> /\ Placed(h)
  BY DEF PassGate, AllPlaced
<1>2. QueueStep(h) /\ UNCHANGED Counters
  BY <1>1 DEF QueueStep, Counters, gate, history
<1>3. /\ OthersStay(h) /\ PlacesTyped' /\ Placed(h)' /\ Queued(h)'
      /\ pc'[h] \in {"next", "gate", "stage"}
  <2>1. CASE GateOpen(service[h], device[h])
    <3>1. pc' = [pc EXCEPT ![h] = "next"] /\ UNCHANGED <<stage, service, cur>>
      BY <2>1 DEF PassGate
    <3>2. OthersStay(h) /\ PlacesTyped' /\ pc'[h] = "next"
      BY <1>1, <3>1 DEF OthersStay, TypeOK, PlacesTyped, Busy
    <3>3. Placed(h)' /\ Queued(h)'
      BY <1>1, <2>1, <3>1, <3>2 DEF Placed, Queued, Busy
    <3> QED
      BY <3>2, <3>3
  <2>2. CASE ~ GateOpen(service[h], device[h])
    <3>1. Leave(h, FALSE) /\ pc[h] \in Busy
      BY <1>1, <2>2 DEF PassGate, Busy
    <3> QED
      BY <1>1, <3>1, LeaveSound
  <2> QED
    BY <2>1, <2>2
<1> QED
  BY <1>1, <1>2, <1>3, QuietSound

LEMMA GiveUpSound ==
  ASSUME IInv, NEW h \in Hosts, GiveUp(h)
  PROVE  IInv'
<1> USE DEF IInv
<1>1. /\ pc[h] = "next" /\ pc[h] \in Busy /\ Placed(h) /\ Leave(h, FALSE)
      /\ UNCHANGED <<device, gate, history>>
  BY DEF GiveUp, Ready, AllPlaced, Busy
<1>2. QueueStep(h) /\ UNCHANGED Counters
  BY <1>1 DEF QueueStep, Counters, gate, history
<1> QED
  BY <1>1, <1>2, LeaveSound, QuietSound

\* On to the next credential.
LEMMA NextCredential ==
  ASSUME TypeOK, NEW h \in Hosts, Placed(h), pc[h] \in {"next", "waiting", "trying"},
         pc' = [pc EXCEPT ![h] = "next"], cur' = [cur EXCEPT ![h] = cur[h] + 1],
         UNCHANGED <<stage, service, device>>
  PROVE  PlacesTyped' /\ OthersStay(h) /\ Placed(h)' /\ Queued(h)' /\ pc'[h] = "next"
<1>1. PlacesTyped' /\ OthersStay(h) /\ pc'[h] = "next"
  BY DEF TypeOK, PlacesTyped, OthersStay, Busy
<1> QED
  BY <1>1 DEF Placed, Queued, Busy

LEMMA SkipSound ==
  ASSUME IInv, NEW h \in Hosts, Skip(h)
  PROVE  IInv'
<1> USE DEF IInv
<1>1. /\ pc[h] = "next" /\ Placed(h) /\ cur' = [cur EXCEPT ![h] = cur[h] + 1]
      /\ UNCHANGED <<device, gate, pc, stage, service, history>>
  BY DEF Skip, Ready, AllPlaced
<1>2. pc' = [pc EXCEPT ![h] = "next"]
  BY <1>1 DEF TypeOK, PlacesTyped
<1>3. QueueStep(h) /\ UNCHANGED Counters
  BY <1>1 DEF QueueStep, Counters, gate, history
<1> QED
  BY <1>1, <1>2, <1>3, NextCredential, QuietSound

\* A host that wants to try its credential goes on to that, or waits for the lock.
LEMMA WantedMoves ==
  ASSUME IInv, NEW h \in Hosts, Wanted(h), NEW place \in {"waiting", "trying"},
         pc' = [pc EXCEPT ![h] = place], UNCHANGED <<stage, service, cur, device>>
  PROVE  /\ PlacesTyped' /\ OthersStay(h) /\ Placed(h)' /\ pc'[h] = place /\ pc[h] = "next"
         /\ At(h) \in CredSet /\ At(h)' = At(h)
<1> USE DEF IInv
<1>1. pc[h] = "next" /\ Placed(h) /\ ~ Exhausted(h) /\ ~ Withheld(h)
  BY DEF Wanted, Ready, AllPlaced
<1>2. service[h] \in Services /\ cur[h] \in Nat \ {0}
  BY <1>1 DEF TypeOK, PlacesTyped, Placed, Busy
<1>3. At(h) \in CredSet /\ At(h)' = At(h)
  BY <1>1, <1>2, AtType DEF At
<1>4. PlacesTyped' /\ OthersStay(h) /\ pc'[h] = place
  BY DEF TypeOK, PlacesTyped, OthersStay, Busy
<1>5. Placed(h)'
  BY <1>1, <1>4 DEF Placed, Busy, Exhausted, Withheld, At
<1> QED
  BY <1>1, <1>3, <1>4, <1>5

LEMMA TryProvenSound ==
  ASSUME IInv, NEW h \in Hosts, TryProven(h)
  PROVE  IInv'
<1>1. /\ Wanted(h) /\ At(h) \in proven /\ pc' = [pc EXCEPT ![h] = "trying"]
      /\ UNCHANGED <<device, gate, stage, service, cur, history>>
  BY DEF TryProven
<1>2. /\ PlacesTyped' /\ OthersStay(h) /\ Placed(h)' /\ pc'[h] = "trying" /\ pc[h] = "next"
      /\ At(h) \in CredSet /\ At(h)' = At(h)
  BY <1>1, WantedMoves
<1>3. Queued(h)' /\ ~ Retired(At(h))
  BY <1>1, <1>2 DEF Queued, gate, Wanted
<1>4. QueueStep(h) /\ UNCHANGED Counters
  BY <1>1 DEF QueueStep, Counters, gate, history
<1> QED
  BY <1>2, <1>3, <1>4, BeginSound

LEMMA TryUnprovenSound ==
  ASSUME IInv, NEW h \in Hosts, TryUnproven(h)
  PROVE  IInv'
<1> DEFINE c == At(h)
           q == lockq[c]
<1>1. /\ Wanted(h) /\ pc' = [pc EXCEPT ![h] = IF q = <<>> THEN "trying" ELSE "waiting"]
      /\ lockq' = [lockq EXCEPT ![c] = Append(q, h)]
      /\ UNCHANGED <<device, failures, proven, stage, service, cur, history>>
  BY DEF TryUnproven
<1>2. PICK place \in {"waiting", "trying"} : place = IF q = <<>> THEN "trying" ELSE "waiting"
  OBVIOUS
<1>3. /\ PlacesTyped' /\ OthersStay(h) /\ Placed(h)' /\ pc'[h] = place /\ pc[h] = "next"
      /\ c \in CredSet /\ At(h)' = c
  BY <1>1, <1>2, WantedMoves
<1>4. QueueStep(h) /\ UNCHANGED Counters
  BY <1>1, <1>3 DEF QueueStep, Counters, history
<1>5. q \in Seq(Hosts) /\ lockq'[c] = Append(q, h)
  BY <1>1, <1>3 DEF IInv, TypeOK
<1>6. Queued(h)'
  <2>1. CASE q = <<>>
    <3>1. lockq'[c] = <<h>>
      BY <1>5, <2>1
    <3> QED
      BY <1>2, <1>3, <2>1, <3>1 DEF Queued, Holds
  <2>2. CASE q # <<>>
    <3>1. Len(q) + 1 \in DOMAIN lockq'[c] /\ lockq'[c][Len(q) + 1] = h
      BY <1>5, AppendProperties, LenProperties
    <3> QED
      BY <1>2, <1>3, <2>2, <3>1 DEF Queued
  <2> QED
    BY <2>1, <2>2
<1>7. ~ Retired(c)
  BY <1>1 DEF Wanted
<1> QED
  BY <1>2, <1>3, <1>4, <1>6, <1>7, BeginSound, QuietSound

LEMMA GrantedSound ==
  ASSUME IInv, NEW h \in Hosts, Granted(h)
  PROVE  IInv'
<1> USE DEF IInv
<1> DEFINE c == At(h)
<1>1. /\ pc[h] = "waiting" /\ Head(lockq[c]) = h /\ Placed(h) /\ Queued(h)
      /\ UNCHANGED <<device, failures, proven, stage, service, history>>
  BY DEF Granted, AllPlaced, LocksSound
<1>2. c \in CredSet
  BY <1>1, AtOfBusy
<1>3. lockq[c] # <<>>
  <2>1. lockq[c] \in Seq(Hosts)
    BY <1>2 DEF TypeOK
  <2>2. PICK i \in DOMAIN lockq[c] : TRUE
    BY <1>1 DEF Queued
  <2> QED
    BY <2>1, <2>2
<1>4. UNCHANGED Counters
  BY <1>1 DEF Counters, history
<1>5. CASE StillWanted(c)
  <2>1. pc' = [pc EXCEPT ![h] = "trying"] /\ UNCHANGED <<lockq, cur>>
    BY <1>5 DEF Granted
  <2>2. PlacesTyped' /\ OthersStay(h) /\ pc'[h] = "trying" /\ At(h)' = c
    BY <1>1, <2>1 DEF TypeOK, PlacesTyped, OthersStay, Busy, At
  <2>3. Placed(h)'
    BY <1>1, <2>1, <2>2 DEF Placed, Busy, Exhausted, Withheld, At
  <2>4. Queued(h)' /\ QueueStep(h)
    BY <1>1, <1>3, <2>1, <2>2 DEF Queued, Holds, QueueStep
  <2>5. ~ Retired(c)
    BY <1>5 DEF StillWanted
  <2> QED
    BY <1>1, <1>2, <1>4, <2>2, <2>3, <2>4, <2>5, BeginSound
<1>6. CASE ~ StillWanted(c)
  <2>1. /\ pc' = [pc EXCEPT ![h] = "next"] /\ cur' = [cur EXCEPT ![h] = cur[h] + 1]
        /\ lockq' = [lockq EXCEPT ![c] = Tail(lockq[c])]
    BY <1>6 DEF Granted
  <2>2. PlacesTyped' /\ OthersStay(h) /\ Placed(h)' /\ Queued(h)' /\ pc'[h] = "next"
    BY <1>1, <2>1, NextCredential
  <2>3. QueueStep(h)
    BY <1>1, <1>2, <1>3, <2>1 DEF QueueStep
  <2> QED
    BY <1>1, <1>4, <2>2, <2>3, QuietSound
<1> QED
  BY <1>5, <1>6

\* The end of an attempt: the counters.
LEMMA AnswerCounts ==
  ASSUME IInv, NEW h \in Hosts, OthersStay(h), pc[h] = "trying", pc'[h] # "trying",
         NEW reject \in BOOLEAN, At(h) \in CredSet, proven \subseteq proven',
         failures' = [failures EXCEPT ![At(h)] = IF reject THEN failures[At(h)] + 1
                                                 ELSE failures[At(h)]]
  PROVE  UnprovenWithin' /\ BoundedOvershoot'
<1> USE DEF IInv
<1>0. PICK k \in CredSet : k = At(h)
  OBVIOUS
<1>1. /\ failures[k] \in Nat /\ failures'[k] = IF reject THEN failures[k] + 1 ELSE failures[k]
      /\ \A c \in CredSet : c # k => failures'[c] = failures[c]
  BY <1>0 DEF TypeOK
<1>2. h \in Trying(k)
  BY <1>0 DEF Trying
<1>3. \A c \in CredSet : Trying(c)' = Trying(c) \ {h}
  BY TryingNext
<1>4. \A c \in CredSet : c # k => Trying(c)' = Trying(c)
  BY <1>0, <1>3 DEF Trying
\* Nobody else tries a credential that is not proven.
<1>5. k \notin proven => Trying(k)' = {}
  <2> SUFFICES ASSUME k \notin proven, NEW g \in Trying(k) PROVE g = h
    BY <1>3
  <2>1. Queued(g) /\ Queued(h) /\ pc[g] = "trying" /\ At(g) = k
    BY <1>0 DEF LocksSound, Trying
  <2> QED
    BY <1>0, <2>1 DEF Queued, Holds
<1>6. UnprovenWithin'
  <2> SUFFICES ASSUME NEW c \in CredSet \ proven'
               PROVE  /\ failures'[c] <= MaxAuthFailures
                      /\ Trying(c)' # {} => failures'[c] < MaxAuthFailures
    BY DEF UnprovenWithin
  <2>1. CASE c # k
    BY <1>1, <1>4, <2>1 DEF UnprovenWithin
  <2>2. CASE c = k
    <3>1. failures[k] < MaxAuthFailures
      BY <1>2, <2>2 DEF UnprovenWithin
    <3> QED
      BY <1>1, <1>5, <2>2, <3>1, ScanAssumption
  <2> QED
    BY <2>1, <2>2
<1>7. BoundedOvershoot'
  <2>1. Cardinality(Trying(k) \ {h}) = Cardinality(Trying(k)) - 1 /\ Cardinality(Trying(k)) \in Nat
    BY <1>2, TryingCount, FS_RemoveElement
  <2>2. failures'[k] + Cardinality(Trying(k)') <= MaxAuthFailures + Concurrency - 1
    <3>1. failures[k] + Cardinality(Trying(k)) <= MaxAuthFailures + Concurrency - 1
      BY DEF BoundedOvershoot
    <3>2. Cardinality(Trying(k)') = Cardinality(Trying(k)) - 1
      BY <1>3, <2>1
    <3>3. MaxAuthFailures \in Nat /\ Concurrency \in Nat
      BY ScanAssumption
    <3> QED
      BY <1>1, <2>1, <3>1, <3>2, <3>3
  <2> QED
    BY <1>1, <1>4, <2>2 DEF BoundedOvershoot
<1> QED
  BY <1>6, <1>7

LEMMA AnswerSound ==
  ASSUME IInv, NEW h \in Hosts, NEW answer \in AnswersOf(service[h], device[h]), Answer(h, answer)
  PROVE  IInv'
<1> USE DEF IInv
<1> DEFINE c == At(h)
<1>1. /\ pc[h] = "trying" /\ pc[h] \in Busy /\ Placed(h)
      /\ UNCHANGED device /\ service[h] \in Services
  BY DEF Answer, AllPlaced, Placed, Busy
<1>2. c \in CredSet /\ c \in Range(Creds[service[h]])
  BY <1>1, AtOfBusy
<1>3. /\ OthersStay(h) /\ PlacesTyped' /\ Placed(h)' /\ Queued(h)'
      /\ pc'[h] \in {"next", "gate", "stage"}
  <2>1. CASE answer \in Settling
    <3>1. Leave(h, answer = "accept")
      BY <2>1 DEF Answer
    <3> QED
      BY <1>1, <3>1, LeaveSound
  <2>2. CASE answer \notin Settling
    <3>1. /\ pc' = [pc EXCEPT ![h] = "next"] /\ cur' = [cur EXCEPT ![h] = cur[h] + 1]
          /\ UNCHANGED <<stage, service>>
      BY <2>2 DEF Answer
    <3> QED
      BY <1>1, <3>1, NextCredential
  <2> QED
    BY <2>1, <2>2
<1>4. QueueStep(h)
  <2>1. lockq' = [lockq EXCEPT ![c] = IF lockq[c] # <<>> /\ Head(lockq[c]) = h
                                      THEN Tail(lockq[c]) ELSE lockq[c]]
    BY DEF Answer, Unlock, Released
  <2>2. CASE lockq[c] # <<>> /\ Head(lockq[c]) = h
    BY <1>2, <2>1, <2>2 DEF QueueStep
  <2>3. CASE ~ (lockq[c] # <<>> /\ Head(lockq[c]) = h)
    <3>1. lockq' = lockq
      BY <1>2, <2>1, <2>3 DEF TypeOK
    <3> QED
      BY <3>1 DEF QueueStep
  <2> QED
    BY <2>2, <2>3
<1>5. proven' = IF Proves(answer) THEN proven \union {c} ELSE proven
  BY DEF Answer
<1>6. failures' = [failures EXCEPT ![c] = IF answer = "reject" THEN failures[c] + 1 ELSE failures[c]]
  BY DEF Answer
<1>7. TypeOK'
  <2>1. failures' \in [CredSet -> Nat]
    BY <1>2, <1>6 DEF TypeOK
  <2> QED
    BY <1>2, <1>3, <1>4, <1>5, <2>1, QueueType DEF TypeOK
<1>8. AllPlaced' /\ LocksSound'
  BY <1>3, <1>4, <1>5, OthersPlaced, OthersLocked
<1>9. PermitsSound'
  BY <1>1, <1>3, ScanningNext
<1>10. UnprovenWithin' /\ BoundedOvershoot'
  <2>1. PICK reject \in BOOLEAN : reject <=> answer = "reject"
    BY Zenon
  <2>2. failures' = [failures EXCEPT ![c] = IF reject THEN failures[c] + 1 ELSE failures[c]]
    BY <1>6, <2>1
  <2> QED
    BY <1>1, <1>2, <1>3, <1>5, <2>2, AnswerCounts
<1>11. ProvenSound'
  <2>1. accepted' = IF answer \in {"accept", "garbled"} THEN accepted \union {c} ELSE accepted
    BY DEF Answer
  <2>2. answer = "foreign" => c \in Range(Creds["unifi"])
    BY <1>1, <1>2, ForeignIsUnifi
  <2> QED
    BY <1>5, <2>1, <2>2 DEF ProvenSound, Proves
<1>12. TriedOnlyBehindGate'
  <2> SUFFICES ASSUME NEW s \in Services, NEW g \in Hosts, NEW i \in 1..Len(Creds[s]),
                      <<g, Creds[s][i]>> \in tried'
               PROVE  /\ Port(s) \in device[g].open /\ GateOpen(s, device[g])
                      /\ Creds[s][i] \in PasswordOnly => device[g].hostkey # "unlisted"
    BY <1>1 DEF TriedOnlyBehindGate
  <2>1. CASE <<g, Creds[s][i]>> \in tried
    BY <2>1 DEF TriedOnlyBehindGate
  <2>2. CASE g = h /\ Creds[s][i] = c
    <3>1. cur[h] \in 1..Len(Creds[service[h]])
      BY <1>1, AtType DEF Placed, TypeOK, PlacesTyped
    <3>2. s = service[h]
      BY <1>1, <2>2, <3>1, ScanAssumption DEF At
    <3> QED
      BY <1>1, <2>2, <3>2 DEF Placed, Withheld
  <2>3. tried' = IF answer = "mismatch" THEN tried ELSE tried \union {<<h, c>>}
    BY DEF Answer
  <2> QED
    BY <2>1, <2>2, <2>3
<1> QED
  BY <1>7, <1>8, <1>9, <1>10, <1>11, <1>12

LEMMA StepSound == IInv /\ [Next]_vars => IInv'
<1> SUFFICES ASSUME IInv, [Next]_vars PROVE IInv'
  OBVIOUS
<1>1. ASSUME NEW h \in Hosts, Step(h) PROVE IInv'
  BY <1>1, StartSound, NextStageSound, FinishSound, PassGateSound, GiveUpSound, SkipSound,
     TryProvenSound, TryUnprovenSound, GrantedSound, AnswerSound DEF Step
<1>2. CASE UNCHANGED vars
  BY <1>2 DEF vars, gate, scan, history, IInv, TypeOK, PlacesTyped, AllPlaced, Placed, LocksSound,
              Queued, Holds, At, Exhausted, Withheld, PermitsSound, Scanning, UnprovenWithin,
              Trying, ProvenSound, BoundedOvershoot, TriedOnlyBehindGate
<1> QED
  BY <1>1, <1>2 DEF Next

-----------------------------------------------------------------------------
THEOREM Invariance == Spec => []IInv
<1>1. Init => IInv
  BY InitSound
<1>2. IInv /\ [Next]_vars => IInv'
  BY StepSound
<1> QED
  BY <1>1, <1>2, PTL DEF Spec

\* However many hosts are scanned at once, the limit on rejections is exceeded by less
\* than that number, for every credential. (discovery.py:813-818)
THEOREM OvershootBounded == Spec => []BoundedOvershoot
<1>1. IInv => BoundedOvershoot
  BY DEF IInv
<1> QED
  BY <1>1, Invariance, PTL

\* No credential is tried on a port that is closed or behind a gate that is, whatever
\* the hosts show and in whatever order they are scanned. (discovery.py:489-498, 566-582)
THEOREM GatesHold == Spec => []TriedOnlyBehindGate
<1>1. IInv => TriedOnlyBehindGate
  BY DEF IInv
<1> QED
  BY <1>1, Invariance, PTL

\* Where no UniFi key is configured, a credential that no host has accepted is not
\* rejected more often than the limit. A UniFi key is the exception because "not-unifi"
\* counts as a success. (discovery.py:793-818)
THEOREM LimitHolds ==
  ASSUME Creds["unifi"] = <<>>
  PROVE  Spec => []NeverOvershoots
<1>1. Range(Creds["unifi"]) = {}
  BY DEF Range
<1>2. IInv => NeverOvershoots
  BY <1>1 DEF IInv, ProvenSound, UnprovenWithin, NeverOvershoots
<1> QED
  BY <1>2, Invariance, PTL

\* Under the same condition such a credential is tried on one host at a time.
\* (discovery.py:16-18)
THEOREM OneHostAtATime ==
  ASSUME Creds["unifi"] = <<>>
  PROVE  Spec => []OneHostUntilProven
<1>1. Range(Creds["unifi"]) = {}
  BY DEF Range
<1>2. IInv => OneHostUntilProven
  BY <1>1 DEF IInv, ProvenSound, OneHostUntilProven, LocksSound, Queued, Holds, Trying
<1> QED
  BY <1>2, Invariance, PTL

\* An attempt with a retired credential never begins, not even by a host that was
\* waiting for its lock when it was retired. (discovery.py:795, 816)
THEOREM RetiredNotTried == Spec => RetiredIsLeftAlone
<1>1. IInv /\ [Next]_vars =>
        [\A h \in Hosts : pc[h] # "trying" /\ pc'[h] = "trying" => ~ Retired(At(h))]_vars
  <2> SUFFICES ASSUME IInv, NEW h \in Hosts, Step(h), NEW g \in Hosts,
                      pc[g] # "trying", pc'[g] = "trying"
               PROVE  ~ Retired(At(g))
    BY DEF Next
  <2>0. pc \in [Hosts -> {"idle", "stage", "done"} \union Busy]
    BY DEF IInv, TypeOK, PlacesTyped
  <2>1. CASE TryProven(h) \/ TryUnproven(h)
    BY <2>0, <2>1 DEF TryProven, TryUnproven, Wanted
  <2>2. CASE Granted(h)
    BY <2>0, <2>2 DEF Granted, StillWanted
  <2>3. CASE Start(h) \/ NextStage(h) \/ Finish(h) \/ Skip(h)
    BY <2>0, <2>3 DEF Start, NextStage, Finish, Skip
  <2>4. CASE PassGate(h) \/ GiveUp(h)
    BY <2>0, <2>4 DEF PassGate, GiveUp, Leave
  <2>5. ASSUME NEW answer, Answer(h, answer) PROVE FALSE
    BY <2>0, <2>5 DEF Answer, Leave
  <2> QED
    BY <2>1, <2>2, <2>3, <2>4, <2>5 DEF Step
<1> QED
  BY <1>1, Invariance, PTL DEF Spec, RetiredIsLeftAlone
=============================================================================
