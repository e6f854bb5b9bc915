-------------------------------- MODULE Checks --------------------------------
(***************************************************************************)
(* A check that remembers: what it keeps from one poll to the next         *)
(* (watchpost/checks/snmp.py, watchpost/checks/ssh.py), the thresholds its *)
(* value meets (module Verdicts), and the state machine its                *)
(* results drive, against a device that restarts, renumbers its interfaces *)
(* and is out of reach at any moment, also while a reply is on its way.    *)
(*                                                                         *)
(* One counter stands for the two of an interface, values are whole        *)
(* percents or ticks, and every other check is one that may say anything.  *)
(***************************************************************************)
EXTENDS MonitorState, Verdicts

CONSTANTS Interfaces,  \* the names of the interfaces of the device
          Watched,     \* the one the monitor names
          Indices,     \* ifIndex values
          Given,       \* the one the monitor gives in place of a name
          Speed,       \* octets an interface can carry in one unit of time
          Wrap,        \* sysUpTime starts again at 0 here (2^32 hundredths)
          Direction,   \* of the thresholds: above or below
          Warn, Crit   \* the thresholds, or None

ASSUME ChecksAssumption ==
  /\ Watched \in Interfaces /\ Given \in Indices /\ Speed \in Nat \ {0} /\ Wrap \in Nat \ {0}
  /\ None \notin Indices /\ None \notin Nat
  /\ Direction \in {"above", "below"} /\ Warn \in Nat \union {None} /\ Crit \in Nat \union {None}

\* An interface is given by its name or, as digits, by its index.
OfInterface == {"interface", "index"}

Modes == {"uptime", "container", "other"} \union OfInterface

VARIABLES
  mode,       \* mode of the monitor
  clock,      \* time of the event loop
  device,     \* the device, or the container, as it is
  memory,     \* what the check keeps from its last polls
  awaited,    \* the agent's answer about the interface, on its way to the check
  report,     \* what the last poll said besides its result
  seen,       \* the device at the last poll that read it, for the properties
  sampled,    \* when the agent read the octets in memory, for the properties
  warnings    \* polls that told of a restart, for the properties

checkVars == <<vars, mode, clock, device, memory, awaited, report, seen, sampled, warnings>>

\* Which index each interface has, None for one that is not there.
Numberings ==
  {f \in [Interfaces -> Indices \union {None}] :
     \A i, j \in Interfaces : f[i] = f[j] /\ f[i] # None => i = j}

\* A device: its uptime, RestartCount, interfaces that are up, octets each has
\* carried since the start, and their indices; for the properties, how often it
\* started again and how often its uptime wrapped.
NewDevice(index) ==
  [uptime |-> 0, count |-> 0, starts |-> 0, wraps |-> 0, index |-> index,
   linked |-> Interfaces, octets |-> [i \in Interfaces |-> 0]]

\* _if_index, _last_octets with its time, _last_uptime or _last_restarts.
NoMemory == [index |-> None, octets |-> None, at |-> None, last |-> None]

\* No answer is on its way.
Silence == [link |-> "none", octets |-> None, read |-> None]

-----------------------------------------------------------------------------
(* The device *)

\* Time passes, and each interface that is up carries what it can or less.
Pass ==
  /\ clock' = clock + 1
  /\ \E octets \in [Interfaces -> 0..Speed] :
       device' = [device EXCEPT
         !.uptime = (@ + 1) % Wrap,
         !.wraps = IF (device.uptime + 1) % Wrap = 0 THEN @ + 1 ELSE @,
         !.octets = [i \in Interfaces |->
                       @[i] + (IF i \in device.linked THEN octets[i] ELSE 0)]]
  /\ UNCHANGED <<vars, mode, memory, awaited, report, seen, sampled, warnings>>

\* A reboot, or a container that Docker restarted or that was made anew.
Restart ==
  /\ \E index \in Numberings, count \in {device.count + 1, 0} :
       device' = [NewDevice(index) EXCEPT
         !.count = count, !.starts = device.starts + 1, !.wraps = device.wraps]
  /\ UNCHANGED <<vars, mode, clock, memory, awaited, report, seen, sampled, warnings>>

Link(i) ==
  /\ device' = [device EXCEPT !.linked = IF i \in @ THEN @ \ {i} ELSE @ \union {i}]
  /\ UNCHANGED <<vars, mode, clock, memory, awaited, report, seen, sampled, warnings>>

-----------------------------------------------------------------------------
(* The poll *)

\* The result goes to the state machine.
Conclude(result, value) ==
  /\ Poll(Applied(Thresholds(Direction, Warn, Crit), CheckResult(result, value)).result)
  /\ report' = value
  /\ UNCHANGED <<mode, clock, device>>

\* Faulty variant: what was read before a failed poll is not trusted any more.
NoAnswer_Forgets ==
  /\ mode # "other"
  /\ Conclude("fail", None)
  /\ memory' = NoMemory /\ awaited' = Silence
  /\ UNCHANGED <<seen, sampled, warnings>>

\* A poll that got no answer: the check returns FAIL and keeps what it knows.
NoAnswer ==
  /\ mode # "other"
  /\ Conclude("fail", None)
  /\ awaited' = Silence
  /\ UNCHANGED <<memory, seen, sampled, warnings>>

\* Faulty variant: only a reading that tells of no restart is kept.
Kept_UnlessRestarted(reading, restarted) == IF restarted THEN memory.last ELSE reading

\* What is kept of a reading: it, whatever it told.
Kept(reading, restarted) == reading

\* A reading of a device that may have restarted since the last one.
Read(reading, restarted, result, value) ==
  /\ memory' = [memory EXCEPT !.last = Kept(reading, restarted)]
  /\ warnings' = IF restarted THEN warnings + 1 ELSE warnings
  /\ seen' = device
  /\ Conclude(result, value)
  /\ UNCHANGED <<awaited, sampled>>

\* The uptime is lower than it was.
Fell(reading) == reading < memory.last

\* _mode_uptime of both checks.
Uptime ==
  LET restarted == memory.last # None /\ Fell(device.uptime)
  IN  /\ mode = "uptime"
      /\ Read(device.uptime, restarted, IF restarted THEN "warn" ELSE "ok", device.uptime)

ContainerResult(running, health, restarted) ==
  IF ~running \/ health = "unhealthy" THEN "fail"
  ELSE IF health = "starting" \/ restarted THEN "warn"
  ELSE "ok"

\* _container: running or not, and what the health check says.
Container ==
  LET restarted == memory.last # None /\ device.count > memory.last
  IN  /\ mode = "container"
      /\ \E running \in BOOLEAN, health \in {"healthy", "starting", "unhealthy"} :
           Read(device.count, restarted,
                ContainerResult(running, health, restarted), None)

\* _resolve_if_index: digits are taken for the index itself.
Index == IF mode = "index" THEN Given ELSE device.index[Watched]

\* The index is looked up when there is none in memory.
Lookup ==
  /\ mode \in OfInterface /\ memory.index = None
  /\ IF Index = None THEN Conclude("fail", None) /\ memory' = memory
     ELSE UNCHANGED <<vars, mode, clock, device, report>> /\ memory' = [memory EXCEPT !.index = Index]
  /\ UNCHANGED <<awaited, seen, sampled, warnings>>

\* The interface that has the index; it may have moved since it was looked up.
Found == {i \in Interfaces : device.index[i] = memory.index}

\* The agent reads what it is asked: no such index, or whether the interface is up
\* and its octets, if it counts them.
Sample ==
  /\ mode \in OfInterface /\ memory.index # None /\ awaited.link = "none"
  /\ \/ /\ Found = {}
        /\ awaited' = [link |-> "absent", octets |-> None, read |-> clock]
     \/ \E i \in Found : \E octets \in {None, device.octets[i]} :
          awaited' = [link |-> IF i \in device.linked THEN "up" ELSE "down",
                      octets |-> octets, read |-> clock]
  /\ UNCHANGED <<vars, mode, clock, device, memory, report, seen, sampled, warnings>>

\* Faulty variant: a lower counter is taken for one that wrapped.
Comparable_Wraps(octets) == memory.octets # None /\ clock > memory.at

\* There is an earlier reading, and the counter has not started again.
Comparable(octets) ==
  memory.octets # None /\ clock > memory.at /\ octets >= memory.octets

\* The share of its speed the interface used since the last reading; the time
\* between the two is the one between their replies.
Utilisation(octets) ==
  IF Comparable(octets)
  THEN ((octets - memory.octets) * 100) \div (Speed * (clock - memory.at))
  ELSE None

\* The reply arrives: the index vanished, the interface is down, it has no counters,
\* or it is measured, as far as the agent tells its speed.
Answer ==
  /\ \/ /\ awaited.link = "absent"
        /\ memory' = [memory EXCEPT !.index = None] /\ sampled' = sampled
        /\ Conclude("fail", None)
     \/ /\ awaited.link = "down"
        /\ UNCHANGED <<memory, sampled>>
        /\ Conclude("fail", None)
     \/ /\ awaited.link = "up" /\ awaited.octets = None
        /\ UNCHANGED <<memory, sampled>>
        /\ Conclude("ok", None)
     \/ /\ awaited.link = "up" /\ awaited.octets # None
        /\ memory' = [memory EXCEPT !.octets = awaited.octets, !.at = clock]
        /\ sampled' = awaited.read
        /\ \E value \in {None, Utilisation(awaited.octets)} : Conclude("ok", value)
  /\ awaited' = Silence
  /\ UNCHANGED <<seen, warnings>>

\* Any other check.
Other ==
  /\ mode = "other"
  /\ \E r \in Results : Conclude(r, None)
  /\ UNCHANGED <<memory, awaited, seen, sampled, warnings>>

CheckInit ==
  /\ Init
  /\ mode \in Modes /\ clock = 0
  /\ device \in {NewDevice(index) : index \in Numberings}
  /\ memory = NoMemory /\ awaited = Silence
  /\ report = None /\ seen = None /\ sampled = None /\ warnings = 0

Probe == Uptime \/ Container \/ Lookup \/ Sample \/ Answer \/ Other \/ NoAnswer

Environment == Pass \/ Restart \/ \E i \in Interfaces : Link(i)

CheckNext == Probe \/ Environment

CheckSpec == CheckInit /\ [][CheckNext]_checkVars

-----------------------------------------------------------------------------
\* A restart that the two readings show: the uptime is lower than at the last
\* reading, or the container was restarted since and not made anew.
Shown ==
  /\ seen # None /\ device.starts > seen.starts
  /\ CASE mode = "uptime" -> device.uptime < seen.uptime
       [] mode = "container" -> device.count > seen.count

\* A restart is told by the first poll that reads the device after it, however
\* many polls got no answer in between. (snmp.py:141-144, ssh.py:172-175, 238-254)
RestartIsTold ==
  [][(seen' # seen /\ Shown) => Last(history') # "ok"]_checkVars

\* "WARNs once when the agent restarts" (config.example.yaml:210): no restart is
\* told twice, and none that did not happen, unless sysUpTime wrapped.
RestartIsToldOnce == warnings <= device.starts + device.wraps

\* A utilisation is octets that were carried: no more than the interface can carry
\* between the two times the agent read its counter, spread over the time between
\* the two replies; whatever happened between them: polls without an answer, an
\* interface that was down, a restart or an index that moved. Where both replies took
\* as long, that is a share of 100 percent at most. (snmp.py:165, 175-193)
UtilisationWasCarried ==
  [][memory'.at # memory.at /\ report' # None =>
       /\ report' >= 0
       /\ report' * (memory'.at - memory.at) <= 100 * (sampled' - sampled)]_checkVars
=============================================================================
