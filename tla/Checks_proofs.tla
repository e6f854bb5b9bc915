----------------------------- MODULE Checks_proofs -----------------------------
(***************************************************************************)
(* What the counters of one monitor mean, for every pair of thresholds and *)
(* histories of every length; and what a check makes of the readings it    *)
(* remembers, for every device, number of interfaces, speed and wrap of    *)
(* the uptime, and whatever happens to the device between two polls.  Then *)
(* that no check of any other type ranks a reply above a worse one.        *)
(***************************************************************************)
EXTENDS Checks, Inventory, SoundReplies, SequenceTheorems, FiniteSetTheorems, WellFoundedInduction, TLAPS

-----------------------------------------------------------------------------
(* The state machine of one monitor, on its own *)

\* observe keeps a monitor a monitor: the state stays one of the four states
\* and the streaks stay natural numbers.
LEMMA ObserveType ==
  ASSUME NEW s \in Monitor, NEW r \in Results,
         NEW f2d \in Nat \ {0}, NEW r2u \in Nat \ {0}
  PROVE  Observe(s, r, f2d, r2u) \in Monitor
<1>1. Count(s, r) \in Monitor
  BY SMT DEF Count, Monitor, Results
<1>2. Target(Count(s, r), r, f2d, r2u) \in States
  BY <1>1, SMT DEF Target, Monitor, States
<1> QED
  BY <1>1, <1>2, SMT DEF Observe, Monitor

\* The fields of the result, one by one.
LEMMA ObserveFields ==
  ASSUME NEW s \in Monitor, NEW r \in Results, NEW f2d \in Nat, NEW r2u \in Nat
  PROVE  LET o == Observe(s, r, f2d, r2u)
         IN /\ o.bad     = IF r = "fail" THEN s.bad + 1 ELSE 0
            /\ o.warnish = IF r # "ok" THEN s.warnish + 1 ELSE 0
            /\ o.good    = IF r = "ok" THEN s.good + 1 ELSE 0
            /\ o.state   = IF o.bad >= f2d THEN "down"
                           ELSE IF o.warnish >= f2d /\ r # "ok" THEN "warn"
                           ELSE IF o.good >= r2u THEN "up"
                           ELSE s.state
BY SMT DEF Observe, Count, Target, Monitor

\* Type correctness: the counters never leave Nat, the state never leaves the
\* four states, whatever the probes return.
THEOREM TypeCorrect == Spec => []TypeOK
<1>1. Init => TypeOK
  BY DEF Init, TypeOK, Fresh, Monitor, States
<1>2. TypeOK /\ [Next]_vars => TypeOK'
  <2> SUFFICES ASSUME TypeOK, [Next]_vars PROVE TypeOK'
    OBVIOUS
  <2>1. ASSUME NEW r \in Results, Poll(r) PROVE TypeOK'
    <3>1. mon' \in Monitor
      BY <2>1, ObserveType, ThresholdAssumption DEF Poll, TypeOK
    <3>2. history' \in Seq(Results)
      BY <2>1, AppendProperties DEF Poll, TypeOK
    <3> QED
      BY <3>1, <3>2 DEF TypeOK
  <2>2. CASE UNCHANGED vars
    BY <2>2 DEF vars, TypeOK
  <2> QED
    BY <2>1, <2>2 DEF Next
<1> QED
  BY <1>1, <1>2, PTL DEF Spec

-----------------------------------------------------------------------------
\* A streak that the new result belongs to grows by one; any other ends.
LEMMA SuffixAppend ==
  ASSUME NEW h \in Seq(Results), NEW c \in Nat, NEW S, NEW r \in Results,
         CountsSuffix(h, c, S)
  PROVE  /\ r \in S => CountsSuffix(Append(h, r), c + 1, S)
         /\ r \notin S => CountsSuffix(Append(h, r), 0, S)
<1> DEFINE g == Append(h, r)
           n == Len(h)
<1>1. n \in Nat /\ Len(g) = n + 1 /\ g[n + 1] = r /\ \A j \in 1..n : g[j] = h[j]
  BY AppendProperties, LenProperties
<1>2. c <= n /\ (\A j \in (n - c + 1)..n : h[j] \in S) /\ (c < n => h[n - c] \notin S)
  BY DEF CountsSuffix
<1> HIDE DEF g, n
<1>3. CASE r \in S
  <2>1. ASSUME NEW j \in (n + 1 - (c + 1) + 1)..(n + 1)
        PROVE  g[j] \in S
    <3>1. CASE j = n + 1
      BY <1>1, <1>3, <3>1
    <3>2. CASE j # n + 1
      <4>1. j \in (n - c + 1)..n /\ j \in 1..n
        BY <1>1, <1>2, <3>2
      <4> QED
        BY <1>1, <1>2, <4>1
    <3> QED
      BY <3>1, <3>2
  <2>2. c + 1 < n + 1 => g[n + 1 - (c + 1)] \notin S
    BY <1>1, <1>2, <1>3
  <2> QED
    BY <1>1, <1>2, <1>3, <2>1, <2>2 DEF CountsSuffix, g
<1>4. CASE r \notin S
  BY <1>1, <1>4 DEF CountsSuffix, g
<1> QED
  BY <1>3, <1>4

\* A streak counter reaches a threshold exactly when the history ends in that
\* many results of the kind.
LEMMA SuffixRun ==
  ASSUME NEW h \in Seq(Results), NEW c \in Nat, NEW S, NEW n \in Nat \ {0},
         CountsSuffix(h, c, S)
  PROVE  c >= n <=> RunOf(h, Len(h), n, S)
<1> DEFINE k == Len(h)
<1>1. k \in Nat
  BY LenProperties
<1>2. c <= k /\ (\A j \in (k - c + 1)..k : h[j] \in S) /\ (c < k => h[k - c] \notin S)
  BY DEF CountsSuffix
<1> HIDE DEF k
<1>3. ASSUME c >= n PROVE n <= k /\ \A j \in (k - n + 1)..k : h[j] \in S
  BY <1>1, <1>2, <1>3
<1>4. ASSUME c < n, n <= k PROVE ~ \A j \in (k - n + 1)..k : h[j] \in S
  <2>1. k - c \in (k - n + 1)..k /\ h[k - c] \notin S
    BY <1>1, <1>2, <1>4
  <2> QED
    BY <2>1
<1> QED
  BY <1>1, <1>3, <1>4 DEF RunOf, k

\* The counters are the lengths of the current streaks.
THEOREM CountersCorrect == Spec => []CountersAreStreaks
<1>1. Init => CountersAreStreaks
  BY DEF Init, CountersAreStreaks, CountsSuffix, Fresh
<1>2. TypeOK /\ CountersAreStreaks /\ [Next]_vars => CountersAreStreaks'
  <2> SUFFICES ASSUME TypeOK, CountersAreStreaks, [Next]_vars
               PROVE  CountersAreStreaks'
    OBVIOUS
  <2>1. ASSUME NEW r \in Results, Poll(r) PROVE CountersAreStreaks'
    <3>1. /\ history \in Seq(Results) /\ history' = Append(history, r)
          /\ mon \in Monitor
          /\ mon.bad \in Nat /\ mon.warnish \in Nat /\ mon.good \in Nat
      BY <2>1 DEF Poll, TypeOK, Monitor
    <3>2. /\ mon'.bad     = IF r = "fail" THEN mon.bad + 1 ELSE 0
          /\ mon'.warnish = IF r # "ok" THEN mon.warnish + 1 ELSE 0
          /\ mon'.good    = IF r = "ok" THEN mon.good + 1 ELSE 0
      BY <2>1, <3>1, ObserveFields, ThresholdAssumption DEF Poll
    <3>3. CountsSuffix(history', mon'.bad, {"fail"})
      <4>1. CountsSuffix(history, mon.bad, {"fail"})
        BY DEF CountersAreStreaks
      <4>2. r \in {"fail"} <=> r = "fail"
        OBVIOUS
      <4> QED
        BY <3>1, <3>2, <4>1, <4>2, SuffixAppend
    <3>4. CountsSuffix(history', mon'.warnish, {"fail", "warn"})
      <4>1. CountsSuffix(history, mon.warnish, {"fail", "warn"})
        BY DEF CountersAreStreaks
      <4>2. r \in {"fail", "warn"} <=> r # "ok"
        BY DEF Results
      <4> QED
        BY <3>1, <3>2, <4>1, <4>2, SuffixAppend
    <3>5. CountsSuffix(history', mon'.good, {"ok"})
      <4>1. CountsSuffix(history, mon.good, {"ok"})
        BY DEF CountersAreStreaks
      <4>2. r \in {"ok"} <=> r = "ok"
        OBVIOUS
      <4> QED
        BY <3>1, <3>2, <4>1, <4>2, SuffixAppend
    <3> QED
      BY <3>3, <3>4, <3>5 DEF CountersAreStreaks
  <2>2. CASE UNCHANGED vars
    BY <2>2 DEF vars, CountersAreStreaks
  <2> QED
    BY <2>1, <2>2 DEF Next
<1> QED
  BY <1>1, <1>2, TypeCorrect, PTL DEF Spec

-----------------------------------------------------------------------------
\* A later poll does not change what the history said before it.
LEMMA VerdictStable ==
  ASSUME NEW h \in Seq(Results), NEW r \in Results, NEW i \in 1..Len(h)
  PROVE  Verdict(Append(h, r), i) = Verdict(h, i)
<1>1. \A j \in 1..Len(h) : Append(h, r)[j] = h[j]
  BY AppendProperties
<1>2. Len(h) \in Nat
  BY LenProperties
<1>3. ASSUME NEW n \in Nat \ {0}, NEW S
      PROVE  RunOf(Append(h, r), i, n, S) <=> RunOf(h, i, n, S)
  BY <1>1, <1>2 DEF RunOf
<1> QED
  BY <1>3, ThresholdAssumption DEF Verdict

\* The state is the last verdict of the history: the three counters lose
\* nothing that the decision needs.
THEOREM LastVerdictCorrect == Spec => []StateIsLastVerdict
<1>1. Init => StateIsLastVerdict
  BY DEF Init, StateIsLastVerdict, Fresh
<1>2. /\ TypeOK /\ CountersAreStreaks /\ CountersAreStreaks' /\ TypeOK'
      /\ StateIsLastVerdict /\ [Next]_vars
      => StateIsLastVerdict'
  <2> SUFFICES ASSUME TypeOK, TypeOK', CountersAreStreaks', StateIsLastVerdict,
                      [Next]_vars
               PROVE  StateIsLastVerdict'
    OBVIOUS
  <2>1. ASSUME NEW r \in Results, Poll(r) PROVE StateIsLastVerdict'
    <3> DEFINE n == Len(history)
    <3>1. /\ history \in Seq(Results) /\ history' \in Seq(Results)
          /\ history' = Append(history, r)
          /\ mon \in Monitor /\ mon' \in Monitor
          /\ mon'.bad \in Nat /\ mon'.warnish \in Nat /\ mon'.good \in Nat
      BY <2>1 DEF Poll, TypeOK, Monitor
    <3>2. n \in Nat /\ Len(history') = n + 1 /\ history'[n + 1] = r
      BY <3>1, AppendProperties, LenProperties
    <3>3. \A i \in 1..n : Verdict(history', i) = Verdict(history, i)
      BY <3>1, VerdictStable
    <3>4. mon'.state = IF Verdict(history', n + 1) = "none" THEN mon.state
                       ELSE Verdict(history', n + 1)
      <4>1. /\ mon'.bad >= FailuresToDown
               <=> RunOf(history', n + 1, FailuresToDown, {"fail"})
            /\ mon'.warnish >= FailuresToDown
               <=> RunOf(history', n + 1, FailuresToDown, {"fail", "warn"})
            /\ mon'.good >= RecoveriesToUp
               <=> RunOf(history', n + 1, RecoveriesToUp, {"ok"})
        <5>1. /\ CountsSuffix(history', mon'.bad, {"fail"})
              /\ CountsSuffix(history', mon'.warnish, {"fail", "warn"})
              /\ CountsSuffix(history', mon'.good, {"ok"})
          BY DEF CountersAreStreaks
        <5>2. FailuresToDown \in Nat \ {0} /\ RecoveriesToUp \in Nat \ {0}
          BY ThresholdAssumption
        <5>3. mon'.bad >= FailuresToDown
                <=> RunOf(history', Len(history'), FailuresToDown, {"fail"})
          BY <3>1, <5>1, <5>2, SuffixRun
        <5>4. mon'.warnish >= FailuresToDown
                <=> RunOf(history', Len(history'), FailuresToDown, {"fail", "warn"})
          BY <3>1, <5>1, <5>2, SuffixRun
        <5>5. mon'.good >= RecoveriesToUp
                <=> RunOf(history', Len(history'), RecoveriesToUp, {"ok"})
          BY <3>1, <5>1, <5>2, SuffixRun
        <5> QED
          BY <3>2, <5>3, <5>4, <5>5
      <4>2. mon'.warnish >= FailuresToDown => r # "ok"
        BY <2>1, <3>1, ObserveFields, ThresholdAssumption DEF Poll
      <4>3. mon'.state = IF mon'.bad >= FailuresToDown THEN "down"
                         ELSE IF mon'.warnish >= FailuresToDown /\ r # "ok" THEN "warn"
                         ELSE IF mon'.good >= RecoveriesToUp THEN "up"
                         ELSE mon.state
        BY <2>1, <3>1, ObserveFields, ThresholdAssumption DEF Poll
      <4> QED
        BY <4>1, <4>2, <4>3 DEF Verdict
    <3> HIDE DEF n
    <3>5. CASE Verdict(history', n + 1) = "none"
      <4>1. CASE \A i \in 1..n : Verdict(history, i) = "none"
                 /\ mon.state = "pending"
        BY <3>2, <3>3, <3>4, <3>5, <4>1 DEF StateIsLastVerdict, n
      <4>2. ASSUME NEW i \in 1..n,
                   Verdict(history, i) = mon.state,
                   \A j \in (i + 1)..n : Verdict(history, j) = "none"
            PROVE  StateIsLastVerdict'
        <5>1. i \in 1..(n + 1) /\ Verdict(history', i) = mon'.state
          BY <3>2, <3>3, <3>4, <3>5, <4>2
        <5>2. \A j \in (i + 1)..(n + 1) : Verdict(history', j) = "none"
          BY <3>2, <3>3, <3>5, <4>2
        <5> QED
          BY <3>2, <5>1, <5>2 DEF StateIsLastVerdict
      <4> QED
        BY <3>2, <3>3, <3>4, <3>5, <4>1, <4>2 DEF StateIsLastVerdict, n
    <3>6. CASE Verdict(history', n + 1) # "none"
      BY <3>2, <3>4, <3>6 DEF StateIsLastVerdict
    <3> QED
      BY <3>5, <3>6
  <2>2. CASE UNCHANGED vars
    BY <2>2 DEF vars, StateIsLastVerdict
  <2> QED
    BY <2>1, <2>2 DEF Next
<1> QED
  BY <1>1, <1>2, TypeCorrect, CountersCorrect, PTL DEF Spec

-----------------------------------------------------------------------------
(* The readings of a check *)

Devices ==
  [uptime : 0..(Wrap - 1), count : Nat, starts : Nat, wraps : Nat, index : Numberings,
   linked : SUBSET Interfaces, octets : [Interfaces -> Nat]]

Typed ==
  /\ device \in Devices /\ clock \in Nat /\ mode \in Modes
  /\ memory \in [index : Indices \union {None}, octets : Nat \union {None}, at : Nat \union {None},
                 last : Nat \union {None}]
  /\ awaited \in [link : {"none", "absent", "down", "up"}, octets : Nat \union {None},
                  read : Nat \union {None}]
  /\ sampled \in Nat \union {None}
  /\ warnings \in Nat /\ history \in Seq(Results)

\* The device came from s without a restart or by one, and its uptime wrapped or not.
After(s) ==
  /\ s.starts <= device.starts /\ s.wraps <= device.wraps
  /\ s.starts = device.starts =>
       s.count = device.count /\ (s.wraps = device.wraps => s.uptime <= device.uptime)

\* What is kept is what the device said when it was last read.
ReadingSound ==
  IF memory.last = None THEN seen = None /\ warnings = 0
  ELSE /\ seen \in Devices /\ After(seen)
       /\ \/ mode = "uptime" /\ memory.last = seen.uptime
          \/ mode = "container" /\ memory.last = seen.count
       /\ warnings <= seen.starts + seen.wraps

\* At time t device d shows no more than what was carried since o was read, at time s:
\* all interfaces started again since, or the one that was read still has its index.
Within(d, index, t, o, s) ==
  \/ \A i \in Interfaces : d.octets[i] <= Speed * (t - s)
  \/ /\ index # None
     /\ \E i \in Interfaces : d.index[i] = index /\ d.octets[i] <= o + Speed * (t - s)

\* What is kept was read before it was kept, and the device is within it.
OctetsSound ==
  memory.octets # None =>
    /\ memory.at \in Nat /\ sampled \in Nat /\ sampled <= clock
    /\ Within(device, memory.index, clock, memory.octets, sampled)

\* An answer on its way: what it says was carried since what is kept was read, and an
\* interface that was not found took what it had carried with it.
AwaitedSound ==
  awaited.link # "none" =>
    /\ mode \in OfInterface /\ memory.index # None
    /\ awaited.read \in Nat /\ awaited.read <= clock
    /\ awaited.octets # None =>
         Within(device, memory.index, clock, awaited.octets, awaited.read)
    /\ awaited.octets # None /\ memory.octets # None =>
         /\ sampled <= awaited.read
         /\ awaited.octets <= memory.octets + Speed * (awaited.read - sampled)
    /\ awaited.link = "absent" /\ memory.octets # None =>
         Within(device, None, clock, memory.octets, sampled)

CInv == Typed /\ ReadingSound /\ OctetsSound /\ AwaitedSound

-----------------------------------------------------------------------------
\* The share of what could be carried in a time, times that time, is a hundred times
\* the time it takes to carry the part.
LEMMA Share ==
  ASSUME NEW part \in Nat, NEW t \in Nat \ {0}, NEW u \in Nat, part <= Speed * u
  PROVE  LET q == (part * 100) \div (Speed * t)
         IN  q \in Nat /\ q * t <= 100 * u
<1> USE ChecksAssumption
<1>1. PICK whole \in Nat \ {0} : whole = Speed * t
  OBVIOUS
<1>2. PICK q \in Int : q = (part * 100) \div whole
  OBVIOUS
<1>3. whole * q <= part * 100 /\ part * 100 < whole * (q + 1)
  BY <1>2
<1>4. q >= 0
  <2>1. ASSUME q <= -1 PROVE FALSE
    <3>1. whole * (q + 1) <= 0
      BY <1>1, <2>1
    <3> QED
      BY <1>3, <3>1
  <2> QED
    BY <2>1
<1>5. ASSUME q * t >= 100 * u + 1 PROVE FALSE
  <2>1. PICK z \in Nat : z = q * t
    BY <1>4
  <2>2. Speed * z >= Speed * (100 * u + 1)
    BY <1>5, <2>1
  <2>3. whole * q = Speed * z
    BY <1>1, <2>1
  <2>4. Speed * (100 * u + 1) = 100 * (Speed * u) + Speed
    OBVIOUS
  <2>5. PICK w \in Nat : w = Speed * u
    OBVIOUS
  <2> QED
    BY <1>3, <2>2, <2>3, <2>4, <2>5
<1>6. q * t \in Nat /\ 100 * u \in Nat
  BY <1>4
<1> QED
  BY <1>1, <1>2, <1>4, <1>5, <1>6

\* A unit of time more.
LEMMA OneMore ==
  ASSUME NEW t \in Nat
  PROVE  Speed * t \in Nat /\ Speed * (t + 1) = Speed * t + Speed
BY ChecksAssumption

\* The uptime counts on, or starts again.
LEMMA Wrapped ==
  ASSUME NEW u \in 0..(Wrap - 1)
  PROVE  (u + 1) % Wrap = IF u + 1 = Wrap THEN 0 ELSE u + 1
BY ChecksAssumption

\* Thresholds never make a result better.
LEMMA ThresholdsOnlyWorsen ==
  ASSUME NEW th, NEW r \in Results, NEW value
  PROVE  LET a == Applied(th, CheckResult(r, value)).result
         IN  a \in Results /\ (r # "ok" => a # "ok")
<1> DEFINE v == CheckResult(r, value)
<1>1. v.result = r /\ v = [result |-> r, value |-> value]
  BY DEF CheckResult
<1>2. \A x : [v EXCEPT !.result = x].result = x
  BY <1>1
<1>3. Applied(th, v).result \in {r, "fail", "warn"}
  BY <1>1, <1>2 DEF Applied
<1> QED
  BY <1>3 DEF Results

\* A poll adds a result, which is no better than what the check said.
LEMMA JustConcluded ==
  ASSUME NEW r \in Results, NEW value, history \in Seq(Results), Conclude(r, value)
  PROVE  /\ history' \in Seq(Results)
         /\ r # "ok" => Last(history') # "ok"
         /\ report' = value /\ UNCHANGED <<mode, clock, device>>
<1> DEFINE a == Applied(Thresholds(Direction, Warn, Crit), CheckResult(r, value)).result
<1>1. a \in Results /\ (r # "ok" => a # "ok")
  BY ThresholdsOnlyWorsen
<1>2. history' = Append(history, a)
  BY DEF Conclude, Poll
<1> HIDE DEF a
<1>3. history' \in Seq(Results) /\ Last(history') = a
  BY <1>1, <1>2 DEF Last
<1> QED
  BY <1>1, <1>3 DEF Conclude

LEMMA InitSound == CheckInit => CInv
<1> SUFFICES ASSUME CheckInit PROVE CInv
  OBVIOUS
<1> USE ChecksAssumption
<1>1. PICK index \in Numberings : device = NewDevice(index)
  BY DEF CheckInit
<1>2. device \in Devices
  BY <1>1 DEF NewDevice, Devices
<1>3. memory = NoMemory /\ awaited = Silence /\ sampled = None /\ seen = None /\ warnings = 0 /\ report = None /\ clock = 0
      /\ mode \in Modes /\ history = <<>>
  BY DEF CheckInit, Init
<1>4. Typed
  BY <1>2, <1>3 DEF Typed, NoMemory, Silence
<1>5. ReadingSound /\ OctetsSound /\ AwaitedSound
  BY <1>3 DEF ReadingSound, OctetsSound, AwaitedSound, NoMemory, Silence
<1> QED
  BY <1>4, <1>5 DEF CInv

\* A step that leaves the device and what is kept of it.
LEMMA Untouched ==
  ASSUME ReadingSound, OctetsSound,
         UNCHANGED <<device, clock, mode, memory, seen, sampled, warnings>>
  PROVE  ReadingSound' /\ OctetsSound'
BY DEF ReadingSound, OctetsSound, After

\* A step of the device, which stays within whatever it was within.
LEMMA StaysWithin ==
  ASSUME CInv, UNCHANGED <<mode, memory, awaited, sampled>>, clock' \in Nat, clock <= clock',
         \A ix : \A o \in Nat, s \in Nat :
           s <= clock /\ Within(device, ix, clock, o, s)
             => Within(device', ix, clock', o, s)
  PROVE  OctetsSound' /\ AwaitedSound'
<1> USE ChecksAssumption
<1>1. clock \in Nat /\ memory.octets \in Nat \union {None}
      /\ awaited.octets \in Nat \union {None}
      /\ (awaited.link # "none" => awaited.read \in Nat)
  BY DEF CInv, Typed, AwaitedSound
<1>2. OctetsSound'
  BY <1>1 DEF CInv, OctetsSound
<1>3. ASSUME awaited.link # "none"
      PROVE  /\ mode \in OfInterface /\ memory.index # None
             /\ awaited.read \in Nat /\ awaited.read <= clock'
             /\ awaited.octets # None =>
                  Within(device', memory.index, clock', awaited.octets, awaited.read)
             /\ awaited.octets # None /\ memory.octets # None =>
                  /\ sampled <= awaited.read
                  /\ awaited.octets <= memory.octets + Speed * (awaited.read - sampled)
             /\ awaited.link = "absent" /\ memory.octets # None =>
                  Within(device', None, clock', memory.octets, sampled)
  <2>1. awaited.read \in Nat /\ awaited.read <= clock /\ awaited.read <= clock' /\ mode \in OfInterface /\ memory.index # None
    BY <1>1, <1>3 DEF CInv, AwaitedSound
  <2>2. ASSUME awaited.octets # None
        PROVE  Within(device', memory.index, clock', awaited.octets, awaited.read)
    BY <1>1, <1>3, <2>1, <2>2 DEF CInv, AwaitedSound
  <2>3. ASSUME awaited.link = "absent", memory.octets # None
        PROVE  Within(device', None, clock', memory.octets, sampled)
    BY <1>1, <1>3, <2>3 DEF CInv, AwaitedSound, OctetsSound
  <2> QED
    BY <1>3, <2>1, <2>2, <2>3 DEF CInv, AwaitedSound
<1>4. AwaitedSound'
  <2>1. /\ awaited' = awaited /\ memory' = memory /\ sampled' = sampled
        /\ mode' = mode
    OBVIOUS
  <2> QED
    BY <1>3, <2>1 DEF AwaitedSound
<1> QED
  BY <1>2, <1>4

\* One that leaves it, but for what is kept of its last reading.
LEMMA Link_Sound ==
  ASSUME CInv, NEW i \in Interfaces, Link(i)
  PROVE  CInv'
<1>1. PICK linked \in SUBSET Interfaces : device' = [device EXCEPT !.linked = linked]
  <2>1. device.linked \in SUBSET Interfaces
    BY DEF CInv, Typed, Devices
  <2> QED
    BY <2>1 DEF Link
<1>2. device' \in Devices
  BY <1>1 DEF CInv, Typed, Devices
<1>3. /\ device'.starts = device.starts /\ device'.wraps = device.wraps
      /\ device'.count = device.count /\ device'.uptime = device.uptime
      /\ device'.octets = device.octets /\ device'.index = device.index
  BY <1>1 DEF CInv, Typed, Devices
<1>4. UNCHANGED <<vars, mode, clock, memory, awaited, report, seen, sampled, warnings>>
  BY DEF Link
<1>5. Typed'
  BY <1>2, <1>4 DEF CInv, Typed, vars
<1>6. ReadingSound'
  BY <1>3, <1>4 DEF CInv, ReadingSound, After
<1>7. OctetsSound' /\ AwaitedSound'
  <2>1. \A ix, o, t, s : Within(device, ix, t, o, s) => Within(device', ix, t, o, s)
    BY <1>3 DEF Within
  <2>2. clock' = clock /\ clock \in Nat
    BY <1>4 DEF CInv, Typed
  <2> QED
    BY <1>4, <2>1, <2>2, StaysWithin
<1> QED
  BY <1>5, <1>6, <1>7 DEF CInv

LEMMA Restart_Sound ==
  ASSUME CInv, Restart
  PROVE  CInv'
<1> USE ChecksAssumption
<1>1. PICK index \in Numberings, count \in Nat :
        device' = [NewDevice(index) EXCEPT
          !.count = count, !.starts = device.starts + 1, !.wraps = device.wraps]
  <2>1. {device.count + 1, 0} \subseteq Nat
    BY DEF CInv, Typed, Devices
  <2> QED
    BY <2>1, Zenon DEF Restart
<1>2. device' = [uptime |-> 0, count |-> count, starts |-> device.starts + 1,
                 wraps |-> device.wraps, index |-> index, linked |-> Interfaces,
                 octets |-> [i \in Interfaces |-> 0]]
  BY <1>1 DEF NewDevice
<1>3. device' \in Devices
  BY <1>2 DEF CInv, Typed, Devices
<1>4. UNCHANGED <<history, mode, clock, memory, awaited, report, seen, sampled, warnings>>
  BY DEF Restart, vars
<1>5. Typed'
  BY <1>3, <1>4 DEF CInv, Typed
<1>6. ReadingSound'
  <2>1. device'.starts = device.starts + 1 /\ device'.wraps = device.wraps
    BY <1>2
  <2>2. ASSUME seen \in Devices, After(seen)
        PROVE  After(seen)'
    <3>1. /\ seen.starts <= device.starts /\ seen.wraps <= device.wraps
          /\ seen.starts \in Nat /\ device.starts \in Nat
      BY <2>2 DEF After, Devices, CInv, Typed
    <3>2. seen.starts <= device'.starts /\ seen.starts # device'.starts /\ seen.wraps <= device'.wraps
      BY <2>1, <3>1
    <3> QED
      BY <1>4, <3>2 DEF After
  <2> QED
    BY <1>4, <2>2 DEF CInv, ReadingSound
<1>7. OctetsSound' /\ AwaitedSound'
  <2>1. clock \in Nat /\ clock' = clock
    BY <1>4 DEF CInv, Typed
  <2>2. ASSUME NEW s \in Nat, s <= clock
        PROVE  \A i \in Interfaces : device'.octets[i] <= Speed * (clock - s)
    <3>1. Speed * (clock - s) \in Nat
      BY <2>1, <2>2, OneMore
    <3> QED
      BY <1>2, <3>1
  <2>3. \A ix : \A o \in Nat, s \in Nat :
          s <= clock /\ Within(device, ix, clock, o, s) => Within(device', ix, clock', o, s)
    BY <2>1, <2>2 DEF Within
  <2> QED
    BY <1>4, <2>1, <2>3, StaysWithin
<1> QED
  BY <1>5, <1>6, <1>7 DEF CInv

LEMMA Pass_Sound ==
  ASSUME CInv, Pass
  PROVE  CInv'
<1> USE ChecksAssumption
<1>1. PICK carried \in [Interfaces -> 0..Speed] :
        device' = [device EXCEPT
         !.uptime = (@ + 1) % Wrap,
         !.wraps = IF (device.uptime + 1) % Wrap = 0 THEN @ + 1 ELSE @,
         !.octets = [i \in Interfaces |->
                       @[i] + (IF i \in device.linked THEN carried[i] ELSE 0)]]
  BY DEF Pass
<1> DEFINE octets == [i \in Interfaces |->
                       device.octets[i] + (IF i \in device.linked THEN carried[i] ELSE 0)]
           uptime == (device.uptime + 1) % Wrap
           wraps == IF uptime = 0 THEN device.wraps + 1 ELSE device.wraps
<1>2. device \in Devices /\ clock \in Nat
  BY DEF CInv, Typed
<1>3. device' = [uptime |-> uptime, count |-> device.count, starts |-> device.starts,
                 wraps |-> wraps, index |-> device.index, linked |-> device.linked,
                 octets |-> octets]
  BY <1>1, <1>2 DEF Devices
<1>4. uptime \in 0..(Wrap - 1) /\ (uptime = 0 \/ uptime = device.uptime + 1)
  BY <1>2, Wrapped DEF Devices
<1>5. octets \in [Interfaces -> Nat]
      /\ \A i \in Interfaces : octets[i] <= device.octets[i] + Speed
  BY <1>2 DEF Devices
<1> HIDE DEF octets, uptime
<1>6. wraps \in Nat /\ wraps >= device.wraps
      /\ (wraps = device.wraps => uptime = device.uptime + 1)
  BY <1>2, <1>4 DEF Devices
<1> HIDE DEF wraps
<1>7. device' \in Devices
  BY <1>2, <1>3, <1>4, <1>5, <1>6 DEF Devices
<1>8. UNCHANGED <<history, mode, memory, awaited, report, seen, sampled, warnings>> /\ clock' = clock + 1
  BY DEF Pass, vars
<1>9. Typed'
  BY <1>2, <1>7, <1>8 DEF CInv, Typed
<1>10. ReadingSound'
  <2>1. ASSUME seen \in Devices, After(seen) PROVE After(seen)'
    <3>1. /\ device'.starts = device.starts /\ device'.count = device.count
          /\ device'.wraps = wraps /\ device'.uptime = uptime
      BY <1>3
    <3> QED
      BY <2>1, <3>1, <1>2, <1>4, <1>6, <1>8 DEF After, Devices
  <2> QED
    BY <2>1, <1>8 DEF CInv, ReadingSound
<1>11. OctetsSound' /\ AwaitedSound'
  <2>1. device'.octets = octets /\ device'.index = device.index
    BY <1>3
  <2>2. \A i \in Interfaces : octets[i] \in Nat /\ device.octets[i] \in Nat
    BY <1>2, <1>5 DEF Devices
  <2>3. ASSUME NEW index, NEW o \in Nat, NEW s \in Nat, s <= clock,
               Within(device, index, clock, o, s)
        PROVE  Within(device', index, clock', o, s)
    <3>1. PICK most \in Nat : most = Speed * (clock - s)
      BY <1>2, <2>3, OneMore
    <3>2. Speed * (clock' - s) = most + Speed
      <4>1. clock' - s = (clock - s) + 1 /\ clock - s \in Nat
        BY <1>2, <1>8, <2>3
      <4> QED
        BY <4>1, <3>1, OneMore
    <3>3. CASE \A i \in Interfaces : device.octets[i] <= most
      <4>1. \A i \in Interfaces : octets[i] <= most + Speed
        BY <1>5, <2>2, <3>3
      <4> QED
        BY <2>1, <3>2, <4>1 DEF Within
    <3>4. CASE /\ index # None
               /\ \E i \in Interfaces : /\ device.index[i] = index
                                        /\ device.octets[i] <= o + most
      <4>1. PICK i \in Interfaces : device.index[i] = index /\ device.octets[i] <= o + most
        BY <3>4
      <4>2. octets[i] <= o + (most + Speed)
        BY <1>5, <2>2, <4>1
      <4> QED
        BY <2>1, <3>2, <3>4, <4>1, <4>2 DEF Within
    <3> QED
      BY <2>3, <3>1, <3>3, <3>4 DEF Within
  <2>4. clock' \in Nat /\ clock <= clock'
    BY <1>2, <1>8
  <2> QED
    BY <1>8, <2>3, <2>4, StaysWithin
<1> QED
  BY <1>9, <1>10, <1>11 DEF CInv

\* A poll that leaves what is kept, and awaits nothing.
LEMMA Unmeasured ==
  ASSUME CInv, NEW r \in Results, NEW value, Conclude(r, value),
         UNCHANGED <<memory, seen, sampled, warnings>>,
         awaited' \in {awaited, Silence}, awaited'.link = "none"
  PROVE  CInv'
<1>1. history' \in Seq(Results) /\ report' = value /\ UNCHANGED <<mode, clock, device>>
  BY JustConcluded DEF CInv, Typed
<1>2. Typed'
  BY <1>1 DEF CInv, Typed, Silence
<1>3. ReadingSound' /\ OctetsSound'
  BY <1>1, Untouched DEF CInv
<1>4. AwaitedSound'
  BY DEF AwaitedSound
<1> QED
  BY <1>2, <1>3, <1>4 DEF CInv

\* A reading, of either kind, of a device that restarted or not since the last one.
LEMMA Read_Sound ==
  ASSUME CInv, NEW reading \in Nat, NEW restarted \in BOOLEAN, NEW r \in Results, NEW value,
         Read(reading, restarted, r, value),
         \/ mode = "uptime" /\ reading = device.uptime
            /\ restarted = (memory.last # None /\ reading < memory.last)
         \/ mode = "container" /\ reading = device.count
            /\ restarted = (memory.last # None /\ reading > memory.last)
  PROVE  CInv'
<1> USE ChecksAssumption
<1>1. /\ history' \in Seq(Results) /\ report' = value /\ UNCHANGED <<mode, clock, device>>
      /\ memory' = [memory EXCEPT !.last = reading] /\ seen' = device
      /\ warnings' = IF restarted THEN warnings + 1 ELSE warnings
  BY JustConcluded DEF CInv, Typed, Read, Kept
<1>0. awaited' = awaited /\ awaited.link = "none" /\ sampled' = sampled
  BY DEF Read, CInv, AwaitedSound, OfInterface
<1>2. /\ memory'.last = reading /\ memory'.octets = memory.octets /\ memory'.at = memory.at
      /\ memory'.index = memory.index
      /\ memory' \in [index : Indices \union {None}, octets : Nat \union {None},
                      at : Nat \union {None}, last : Nat \union {None}]
  BY <1>1 DEF CInv, Typed
<1>3. device \in Devices /\ warnings \in Nat
  BY DEF CInv, Typed
<1>4. Typed'
  BY <1>0, <1>1, <1>2 DEF CInv, Typed
<1>5. After(device) /\ After(device)' 
  BY <1>1, <1>3 DEF After, Devices
<1>6. warnings' <= device.starts + device.wraps
  <2>1. CASE memory.last = None
    BY <1>1, <1>3, <2>1 DEF CInv, ReadingSound, Devices
  <2>2. CASE memory.last # None
    <3>1. seen \in Devices /\ After(seen) /\ warnings <= seen.starts + seen.wraps
      BY <2>2 DEF CInv, ReadingSound
    <3>2. ASSUME restarted PROVE seen.starts + seen.wraps + 1 <= device.starts + device.wraps
      <4>1. /\ seen.starts \in Nat /\ seen.wraps \in Nat /\ seen.uptime \in Nat
            /\ seen.count \in Nat
            /\ device.starts \in Nat /\ device.wraps \in Nat /\ device.uptime \in Nat
        BY <1>3, <3>1 DEF Devices
      <4>2. seen.starts # device.starts \/ seen.wraps # device.wraps
        <5>1. CASE mode = "uptime"
          <6>1. memory.last = seen.uptime /\ device.uptime < seen.uptime
            BY <2>2, <3>2, <5>1 DEF CInv, ReadingSound
          <6> QED
            BY <3>1, <4>1, <6>1 DEF After
        <5>2. CASE mode = "container"
          <6>1. memory.last = seen.count /\ device.count > seen.count
            BY <2>2, <3>2, <5>2 DEF CInv, ReadingSound
          <6> QED
            BY <3>1, <4>1, <6>1 DEF After
        <5> QED
          BY <5>1, <5>2
      <4> QED
        BY <3>1, <4>1, <4>2 DEF After
    <3>3. seen.starts + seen.wraps <= device.starts + device.wraps
      BY <1>3, <3>1 DEF After, Devices
    <3>4. seen.starts + seen.wraps \in Nat /\ device.starts + device.wraps \in Nat
      BY <1>3, <3>1 DEF Devices
    <3>5. CASE restarted
      <4>1. warnings' = warnings + 1
        BY <1>1, <3>5
      <4> QED
        BY <1>3, <3>1, <3>2, <3>4, <3>5, <4>1
    <3>6. CASE ~restarted
      <4>1. warnings' = warnings
        BY <1>1, <3>6
      <4> QED
        BY <1>3, <3>1, <3>3, <3>4, <4>1
    <3> QED
      BY <3>5, <3>6
  <2> QED
    BY <2>1, <2>2
<1>7. ReadingSound'
  BY <1>1, <1>2, <1>3, <1>5, <1>6 DEF ReadingSound, After
<1>8. OctetsSound'
  BY <1>0, <1>1, <1>2 DEF CInv, OctetsSound
<1>9. AwaitedSound'
  BY <1>0 DEF AwaitedSound
<1> QED
  BY <1>4, <1>7, <1>8, <1>9 DEF CInv

LEMMA Container_Sound ==
  ASSUME CInv, Container
  PROVE  CInv'
<1> USE ChecksAssumption
<1> DEFINE restarted == memory.last # None /\ device.count > memory.last
<1>1. PICK running \in BOOLEAN, health \in {"healthy", "starting", "unhealthy"} :
        Read(device.count, restarted, ContainerResult(running, health, restarted), None)
  BY DEF Container
<1>2. ContainerResult(running, health, restarted) \in Results
  BY DEF ContainerResult, Results
<1>3. mode = "container" /\ device.count \in Nat
  BY DEF Container, CInv, Typed, Devices
<1>4. restarted \in BOOLEAN /\ restarted = (memory.last # None /\ device.count > memory.last)
  OBVIOUS
<1> HIDE DEF restarted
<1> QED
  BY <1>1, <1>2, <1>3, <1>4, Read_Sound

LEMMA Uptime_Sound ==
  ASSUME CInv, Uptime
  PROVE  CInv'
<1> USE ChecksAssumption
<1> DEFINE restarted == memory.last # None /\ device.uptime < memory.last
           r == IF restarted THEN "warn" ELSE "ok"
<1>1. mode = "uptime" /\ device.uptime \in Nat /\ r \in Results
  BY DEF Uptime, CInv, Typed, Devices, Results
<1>2. Read(device.uptime, restarted, r, device.uptime)
  BY DEF Uptime, Fell
<1>3. restarted \in BOOLEAN /\ restarted = (memory.last # None /\ device.uptime < memory.last)
  OBVIOUS
<1> HIDE DEF restarted, r
<1> QED
  BY <1>1, <1>2, <1>3, Read_Sound

\* The index is looked up, and nothing else changes.
LEMMA Lookup_Sound ==
  ASSUME CInv, Lookup
  PROVE  CInv'
<1> USE ChecksAssumption
<1>1. /\ mode \in OfInterface /\ memory.index = None
      /\ UNCHANGED <<awaited, seen, sampled, warnings>>
  BY DEF Lookup
<1>2. awaited.link = "none" /\ memory.last = None
  BY <1>1 DEF CInv, AwaitedSound, ReadingSound, OfInterface
<1>3. CASE Conclude("fail", None) /\ memory' = memory
  BY <1>1, <1>2, <1>3, Unmeasured DEF Results
<1>4. CASE /\ Index # None /\ memory' = [memory EXCEPT !.index = Index]
           /\ UNCHANGED <<vars, mode, clock, device, report>>
  <2>1. Index \in Indices
    BY <1>4 DEF Index, CInv, Typed, Devices, Numberings
  <2>2. /\ memory'.octets = memory.octets /\ memory'.at = memory.at
        /\ memory'.last = memory.last
        /\ memory' \in [index : Indices \union {None}, octets : Nat \union {None},
                        at : Nat \union {None}, last : Nat \union {None}]
    BY <1>4, <2>1 DEF CInv, Typed
  <2>3. Typed'
    BY <1>1, <1>4, <2>2 DEF CInv, Typed, vars
  <2>4. ReadingSound'
    BY <1>1, <1>2, <1>4, <2>2 DEF CInv, ReadingSound
  <2>5. OctetsSound'
    BY <1>1, <1>4, <2>2 DEF CInv, OctetsSound, Within
  <2>6. AwaitedSound'
    BY <1>1, <1>2 DEF AwaitedSound
  <2> QED
    BY <2>3, <2>4, <2>5, <2>6 DEF CInv
<1> QED
  BY <1>3, <1>4 DEF Lookup

\* The agent reads octets that the interface carried since those kept were read.
LEMMA Sample_Sound ==
  ASSUME CInv, Sample
  PROVE  CInv'
<1> USE ChecksAssumption
<1>1. /\ mode \in OfInterface /\ memory.index # None
      /\ UNCHANGED <<vars, mode, clock, device, memory, report, seen, sampled, warnings>>
  BY DEF Sample
<1>2. clock \in Nat /\ device \in Devices /\ memory.octets \in Nat \union {None}
  BY DEF CInv, Typed
<1>3. ReadingSound' /\ OctetsSound'
  BY <1>1, Untouched DEF CInv
<1>4. CASE Found = {} /\ awaited' = [link |-> "absent", octets |-> None, read |-> clock]
  <2>1. awaited'.link = "absent" /\ awaited'.octets = None /\ awaited'.read = clock /\ awaited'.link # "none"
    BY <1>2, <1>4
  <2>2. Typed'
    BY <1>1, <1>2, <1>4 DEF CInv, Typed, vars
  <2>3. memory.octets # None => Within(device, None, clock, memory.octets, sampled)
    BY <1>4 DEF CInv, OctetsSound, Within, Found
  <2>4. AwaitedSound'
    BY <1>1, <1>2, <2>1, <2>3 DEF AwaitedSound
  <2> QED
    BY <1>3, <2>2, <2>4 DEF CInv
<1>5. ASSUME NEW i \in Found, NEW octets \in {None, device.octets[i]},
             awaited' = [link |-> IF i \in device.linked THEN "up" ELSE "down",
                         octets |-> octets, read |-> clock]
      PROVE  CInv'
  <2>1. /\ i \in Interfaces /\ device.index[i] = memory.index /\ device.octets[i] \in Nat
        /\ device.index \in Numberings
    BY <1>2 DEF Found, Devices
  <2>2. octets \in Nat \union {None}
    BY <1>5, <2>1
  <2>3. /\ awaited'.link \in {"up", "down"} /\ awaited'.link # "absent"
        /\ awaited'.octets = octets /\ awaited'.read = clock /\ awaited'.link # "none"
        /\ awaited' \in [link : {"none", "absent", "down", "up"}, octets : Nat \union {None},
                       read : Nat \union {None}]
    BY <1>2, <1>5, <2>2
  <2>4. Typed'
    BY <1>1, <2>3 DEF CInv, Typed, vars
  <2>5. ASSUME octets # None
        PROVE  Within(device, memory.index, clock, octets, clock)
    <3>1. clock - clock = 0 /\ Speed * 0 = 0
      BY <1>2
    <3>2. device.octets[i] <= octets + Speed * (clock - clock)
      BY <1>5, <2>1, <2>5, <3>1
    <3> QED
      BY <1>1, <2>1, <3>2 DEF Within
  <2>6. ASSUME octets # None, memory.octets # None
        PROVE  sampled <= clock /\ octets <= memory.octets + Speed * (clock - sampled)
    <3>1. sampled \in Nat /\ sampled <= clock
          /\ Within(device, memory.index, clock, memory.octets, sampled)
      BY <2>6 DEF CInv, OctetsSound
    <3>2. PICK most \in Nat : most = Speed * (clock - sampled)
      BY <1>2, <3>1, OneMore
    <3>3. device.octets[i] <= memory.octets + most
      <4>1. CASE \A j \in Interfaces : device.octets[j] <= most
        BY <1>2, <2>1, <2>6, <4>1
      <4>2. CASE \E j \in Interfaces : /\ device.index[j] = memory.index
                                       /\ device.octets[j] <= memory.octets + most
        <5>1. PICK j \in Interfaces : /\ device.index[j] = memory.index
                                      /\ device.octets[j] <= memory.octets + most
          BY <4>2
        <5>2. i = j
          BY <1>1, <2>1, <5>1 DEF Numberings
        <5> QED
          BY <5>1, <5>2
      <4> QED
        BY <3>1, <3>2, <4>1, <4>2 DEF Within
    <3> QED
      BY <1>5, <2>6, <3>1, <3>2, <3>3
  <2>7. AwaitedSound'
    BY <1>1, <1>2, <2>3, <2>5, <2>6 DEF AwaitedSound
  <2> QED
    BY <1>3, <2>4, <2>7 DEF CInv
<1> QED
  BY <1>4, <1>5 DEF Sample

\* What the check makes of an answer is a share of what could be carried between the
\* two readings, or nothing.
LEMMA ShareOrNone ==
  ASSUME CInv, awaited.link # "none", awaited.octets # None,
         NEW value \in {None, Utilisation(awaited.octets)}, value # None
  PROVE  /\ value \in Nat
         /\ memory.at \in Nat /\ clock > memory.at
         /\ value * (clock - memory.at) <= 100 * (awaited.read - sampled)
<1> USE ChecksAssumption
<1>1. Comparable(awaited.octets) /\ value = Utilisation(awaited.octets)
  BY DEF Utilisation
<1>2. /\ memory.octets # None /\ clock > memory.at /\ awaited.octets >= memory.octets
      /\ memory.octets \in Nat /\ awaited.octets \in Nat /\ awaited.read \in Nat
      /\ clock \in Nat /\ memory.at \in Nat /\ sampled \in Nat
  BY <1>1 DEF Comparable, CInv, OctetsSound, AwaitedSound, Typed
<1>3. /\ sampled <= awaited.read
      /\ awaited.octets <= memory.octets + Speed * (awaited.read - sampled)
  BY <1>2 DEF CInv, AwaitedSound
<1>4. PICK t \in Nat \ {0} : t = clock - memory.at
  BY <1>2
<1>5. PICK u \in Nat : u = awaited.read - sampled
  BY <1>2, <1>3
<1>6. PICK part \in Nat : part = awaited.octets - memory.octets
  BY <1>2
<1>7. Speed * u \in Nat
  BY <1>5
<1>8. part <= Speed * u
  BY <1>2, <1>3, <1>5, <1>6, <1>7
<1>9. value = (part * 100) \div (Speed * t)
  BY <1>1, <1>4, <1>6 DEF Utilisation
<1> QED
  BY <1>2, <1>4, <1>5, <1>8, <1>9, Share

\* The answer arrives, and what is kept is what it said.
LEMMA Answer_Sound ==
  ASSUME CInv, Answer
  PROVE  CInv'
<1> USE ChecksAssumption
<1>1. /\ awaited.link # "none" /\ awaited' = Silence /\ awaited'.link = "none"
      /\ awaited' \in [link : {"none", "absent", "down", "up"}, octets : Nat \union {None},
                       read : Nat \union {None}]
      /\ UNCHANGED <<seen, warnings>>
  BY DEF Answer, Silence
<1>2. /\ mode \in OfInterface /\ memory.index # None /\ memory.last = None
      /\ awaited.octets \in Nat \union {None} /\ awaited.read \in Nat /\ awaited.read <= clock
      /\ clock \in Nat
  BY <1>1 DEF CInv, AwaitedSound, ReadingSound, OfInterface, Typed
<1>3. "ok" \in Results /\ "fail" \in Results
  BY DEF Results
<1>4. AwaitedSound'
  BY <1>1 DEF AwaitedSound
<1>5. CASE /\ awaited.link = "absent"
           /\ memory' = [memory EXCEPT !.index = None] /\ sampled' = sampled
           /\ Conclude("fail", None)
  <2>1. history' \in Seq(Results) /\ UNCHANGED <<mode, clock, device>>
    BY <1>3, <1>5, JustConcluded DEF CInv, Typed
  <2>2. /\ memory'.index = None /\ memory'.octets = memory.octets
        /\ memory'.at = memory.at /\ memory'.last = None
        /\ memory' \in [index : Indices \union {None}, octets : Nat \union {None},
                        at : Nat \union {None}, last : Nat \union {None}]
    BY <1>2, <1>5 DEF CInv, Typed
  <2>3. Typed'
    BY <1>1, <1>5, <2>1, <2>2 DEF CInv, Typed
  <2>4. ReadingSound'
    BY <1>1, <1>2, <2>1, <2>2 DEF CInv, ReadingSound
  <2>5. memory.octets # None => Within(device, None, clock, memory.octets, sampled)
    BY <1>1, <1>5 DEF CInv, AwaitedSound
  <2>6. OctetsSound'
    BY <1>5, <2>1, <2>2, <2>5 DEF CInv, OctetsSound
  <2> QED
    BY <1>4, <2>3, <2>4, <2>6 DEF CInv
<1>6. CASE /\ awaited.link = "down" /\ UNCHANGED <<memory, sampled>>
           /\ Conclude("fail", None)
  BY <1>1, <1>3, <1>6, Unmeasured
<1>7. CASE /\ awaited.link = "up" /\ awaited.octets = None /\ UNCHANGED <<memory, sampled>>
           /\ Conclude("ok", None)
  BY <1>1, <1>3, <1>7, Unmeasured
<1>8. ASSUME awaited.octets # None,
             memory' = [memory EXCEPT !.octets = awaited.octets, !.at = clock],
             sampled' = awaited.read, NEW value, Conclude("ok", value)
      PROVE  CInv'
  <2>1. history' \in Seq(Results) /\ UNCHANGED <<mode, clock, device>>
    BY <1>3, <1>8, JustConcluded DEF CInv, Typed
  <2>2. /\ memory'.index = memory.index /\ memory'.octets = awaited.octets
        /\ memory'.at = clock /\ memory'.last = None
        /\ memory' \in [index : Indices \union {None}, octets : Nat \union {None},
                        at : Nat \union {None}, last : Nat \union {None}]
    BY <1>2, <1>8 DEF CInv, Typed
  <2>3. Typed'
    BY <1>1, <1>2, <1>8, <2>1, <2>2 DEF CInv, Typed
  <2>4. ReadingSound'
    BY <1>1, <1>2, <2>1, <2>2 DEF CInv, ReadingSound
  <2>5. Within(device, memory.index, clock, awaited.octets, awaited.read)
    BY <1>1, <1>8 DEF CInv, AwaitedSound
  <2>6. OctetsSound'
    BY <1>2, <1>8, <2>1, <2>2, <2>5 DEF OctetsSound
  <2> QED
    BY <1>4, <2>3, <2>4, <2>6 DEF CInv
<1> QED
  BY <1>5, <1>6, <1>7, <1>8 DEF Answer

\* Every step keeps what is kept sound.
LEMMA StepSound == CInv /\ [CheckNext]_checkVars => CInv'
<1> SUFFICES ASSUME CInv, [CheckNext]_checkVars PROVE CInv'
  OBVIOUS
<1>1. CASE Uptime
  BY <1>1, Uptime_Sound
<1>2. CASE Container
  BY <1>2, Container_Sound
<1>3. CASE Lookup \/ Sample \/ Answer
  BY <1>3, Lookup_Sound, Sample_Sound, Answer_Sound
<1>4. CASE Other
  <2>1. PICK r \in Results : Conclude(r, None)
    BY <1>4 DEF Other
  <2>2. UNCHANGED <<memory, seen, sampled, warnings>> 
        /\ awaited' = awaited /\ awaited.link = "none"
    BY <1>4 DEF Other, CInv, AwaitedSound, OfInterface
  <2> QED
    BY <2>1, <2>2, Unmeasured
<1>5. CASE NoAnswer
  <2>1. /\ Conclude("fail", None) /\ "fail" \in Results
        /\ UNCHANGED <<memory, seen, sampled, warnings>> 
        /\ awaited' = Silence /\ awaited'.link = "none"
    BY <1>5 DEF NoAnswer, Results, Silence
  <2> QED
    BY <2>1, Unmeasured
<1>6. CASE Pass
  BY <1>6, Pass_Sound
<1>7. CASE Restart
  BY <1>7, Restart_Sound
<1>8. CASE \E i \in Interfaces : Link(i)
  BY <1>8, Link_Sound
<1>9. CASE UNCHANGED checkVars
  <2>1. UNCHANGED <<history, mode, clock, device, memory, awaited, report, seen, sampled, warnings>>
    BY <1>9 DEF checkVars, vars
  <2> QED
    BY <2>1, Untouched DEF CInv, Typed, AwaitedSound
<1> QED
  BY <1>1, <1>2, <1>3, <1>4, <1>5, <1>6, <1>7, <1>8, <1>9 DEF CheckNext, Probe, Environment

\* What a check keeps is what the device said when it was read, and its counters
\* are within what the device can have carried since.
THEOREM Invariance == CheckSpec => []CInv
BY InitSound, StepSound, PTL DEF CheckSpec

\* No restart is told twice, and none that did not happen, unless the uptime
\* wrapped, for every device and wherever it wraps. (snmp.py:141-144, ssh.py:172-175)
THEOREM ToldOnce == CheckSpec => []RestartIsToldOnce
<1>1. CInv => RestartIsToldOnce
  <2> SUFFICES ASSUME CInv PROVE warnings <= device.starts + device.wraps
    BY DEF RestartIsToldOnce
  <2>1. device.starts \in Nat /\ device.wraps \in Nat /\ warnings \in Nat
    BY DEF CInv, Typed, Devices
  <2>2. CASE memory.last = None
    BY <2>1, <2>2 DEF CInv, ReadingSound
  <2>3. CASE memory.last # None
    <3>1. /\ seen.starts \in Nat /\ seen.wraps \in Nat
          /\ seen.starts <= device.starts /\ seen.wraps <= device.wraps
          /\ warnings <= seen.starts + seen.wraps
      BY <2>3 DEF CInv, ReadingSound, After, Devices
    <3> QED
      BY <2>1, <3>1
  <2> QED
    BY <2>2, <2>3
<1> QED
  BY <1>1, Invariance, PTL

\* A measured utilisation is octets that were carried: at most what the interface can
\* carry between the two times the agent read its counter, spread over the time between
\* the two replies; for every device, speed and latency, and whatever happened to the
\* interface, to its index and to the device in between. (snmp.py:165, 175-193)
THEOREM WasCarried == CheckSpec => UtilisationWasCarried
<1> DEFINE Step == memory'.at # memory.at /\ report' # None =>
                     /\ report' >= 0
                     /\ report' * (memory'.at - memory.at) <= 100 * (sampled' - sampled)
<1>1. CInv /\ [CheckNext]_checkVars => [Step]_checkVars
  <2> SUFFICES ASSUME CInv, CheckNext, memory'.at # memory.at, report' # None
               PROVE  /\ report' >= 0
                      /\ report' * (memory'.at - memory.at) <= 100 * (sampled' - sampled)
    OBVIOUS
  <2> USE ChecksAssumption
  <2>1. /\ memory \in [index : Indices \union {None}, octets : Nat \union {None},
                       at : Nat \union {None}, last : Nat \union {None}]
        /\ history \in Seq(Results) /\ clock \in Nat
    BY DEF CInv, Typed
  <2>2. CASE Answer
    <3>1. memory' # memory /\ \A x : [memory EXCEPT !.index = x].at = memory.at
      BY <2>1
    <3>2. PICK value \in {None, Utilisation(awaited.octets)} :
            /\ awaited.link # "none" /\ awaited.octets # None
            /\ memory' = [memory EXCEPT !.octets = awaited.octets, !.at = clock]
            /\ sampled' = awaited.read
            /\ Conclude("ok", value)
      BY <2>2, <3>1 DEF Answer
    <3>3. report' = value /\ memory'.at = clock
      BY <2>1, <3>2 DEF Conclude
    <3>4. value \in Nat /\ value * (clock - memory.at) <= 100 * (awaited.read - sampled)
      BY <3>2, <3>3, ShareOrNone
    <3> QED
      BY <3>2, <3>3, <3>4
  <2>3. CASE Uptime
    <3>1. memory' = [memory EXCEPT !.last = Kept(device.uptime, memory.last # None /\ Fell(device.uptime))]
      BY <2>3 DEF Uptime, Read
    <3> QED
      BY <2>1, <3>1
  <2>4. CASE Container
    <3>1. memory' = [memory EXCEPT !.last = Kept(device.count, memory.last # None /\ device.count > memory.last)]
      BY <2>4 DEF Container, Read
    <3> QED
      BY <2>1, <3>1
  <2>5. CASE Lookup
    <3>1. memory' = memory \/ memory' = [memory EXCEPT !.index = Index]
      BY <2>5 DEF Lookup
    <3> QED
      BY <2>1, <3>1
  <2>6. CASE Sample \/ Other \/ NoAnswer \/ Environment
    BY <2>6 DEF Sample, Other, NoAnswer, Environment, Pass, Restart, Link
  <2> QED
    BY <2>2, <2>3, <2>4, <2>5, <2>6 DEF CheckNext, Probe
<1>2. CheckSpec => [][Step]_checkVars
  BY <1>1, Invariance, PTL DEF CheckSpec
<1> QED
  BY <1>2 DEF UtilisationWasCarried

\* The first poll that reads a device after a restart that it shows tells of it.
\* (snmp.py:141-144, ssh.py:238-254)
THEOREM Told == CheckSpec => RestartIsTold
<1> DEFINE Step == (seen' # seen /\ Shown) => Last(history') # "ok"
<1>1. CInv /\ [CheckNext]_checkVars => [Step]_checkVars
  <2> SUFFICES ASSUME CInv, CheckNext, seen' # seen, Shown
               PROVE  Last(history') # "ok"
    OBVIOUS
  <2> USE ChecksAssumption
  <2>1. history \in Seq(Results) /\ seen # None
    BY DEF CInv, Typed, Shown
  <2>2. memory.last # None
    BY <2>1 DEF CInv, ReadingSound
  <2>3. CASE Uptime
    <3>1. mode = "uptime" /\ memory.last = seen.uptime
      BY <2>2, <2>3 DEF Uptime, CInv, ReadingSound
    <3>2. device.uptime < memory.last
      BY <3>1 DEF Shown
    <3>3. Read(device.uptime, TRUE, "warn", device.uptime)
      BY <2>2, <2>3, <3>2 DEF Uptime, Fell
    <3>4. Conclude("warn", device.uptime) /\ "warn" \in Results /\ "warn" # "ok"
      BY <3>3 DEF Read, Results
    <3> QED
      BY <2>1, <3>4, JustConcluded
  <2>4. CASE Container
    <3>1. mode = "container" /\ memory.last = seen.count
      BY <2>2, <2>4 DEF Container, CInv, ReadingSound
    <3>2. device.count > memory.last
      BY <3>1 DEF Shown
    <3>3. PICK running \in BOOLEAN, health \in {"healthy", "starting", "unhealthy"} :
            Conclude(ContainerResult(running, health, TRUE), None)
      BY <2>2, <2>4, <3>2 DEF Container, Read
    <3>4. /\ ContainerResult(running, health, TRUE) \in Results
          /\ ContainerResult(running, health, TRUE) # "ok"
      BY DEF ContainerResult, Results
    <3> QED
      BY <2>1, <3>3, <3>4, JustConcluded
  <2>5. CASE Lookup \/ Sample \/ Answer \/ Other \/ NoAnswer \/ Environment
    BY <2>5 DEF Lookup, Sample, Answer, Other, NoAnswer, Environment, Pass, Restart, Link
  <2> QED
    BY <2>3, <2>4, <2>5 DEF CheckNext, Probe
<1>2. CheckSpec => [][Step]_checkVars
  BY <1>1, Invariance, PTL DEF CheckSpec
<1> QED
  BY <1>2 DEF RestartIsTold

-----------------------------------------------------------------------------
(* A list that is read in pages: however long it is, however many devices a *)
(* request asks for and the console returns, and whatever happens to the    *)
(* list between two requests.                                               *)

ListedDevices == [name : Names, state : {"ONLINE", "OFFLINE"}]

ListTypeOK ==
  /\ devices \in Seq(ListedDevices) /\ read \in Seq(ListedDevices)
  /\ style \in {"total", "pages", "array"} /\ asking \in BOOLEAN /\ slips \in Nat

\* No two devices have one name.
NamesDiffer ==
  \A i, j \in DOMAIN devices : devices[i].name = devices[j].name => i = j

\* The next page begins behind what was read.
PositionSound == offset = Len(read) /\ (~ asking => offset = 0)

\* An item of a list says that device n is down, behind the first k.
SaysDown(list, n, k) ==
  \E i \in DOMAIN list : i > k /\ list[i].name = n /\ list[i].state # "ONLINE"

\* All devices of a set were read as down, or are still to be read.
Ahead(names) == \A n \in names : SaysDown(read, n, 0) \/ SaysDown(devices, n, offset)

\* What was down ever since the first request was read, or is still to be read, but
\* for one device at most for each that was forgotten before the page edge.
NothingSkipped ==
  asking => \E missed : /\ IsFiniteSet(missed) /\ Cardinality(missed) <= slips
                        /\ Ahead(throughout \ missed)

ListIInv == ListTypeOK /\ NamesDiffer /\ PositionSound /\ NothingSkipped

-----------------------------------------------------------------------------
(* Lists *)

\* What is left of a list without its i-th item.
LEMMA RemoveAtItems ==
  ASSUME NEW S, NEW s \in Seq(S), NEW i \in DOMAIN s
  PROVE  /\ RemoveAt(s, i) \in Seq(S)
         /\ DOMAIN RemoveAt(s, i) = 1..(Len(s) - 1)
         /\ \A j \in 1..(Len(s) - 1) : RemoveAt(s, i)[j] = IF j < i THEN s[j] ELSE s[j + 1]
<1> DEFINE front == SubSeq(s, 1, i - 1)
           back  == SubSeq(s, i + 1, Len(s))
<1>1. i \in 1..Len(s) /\ Len(s) \in Nat /\ \A j \in 1..Len(s) : s[j] \in S
  BY LenProperties, ElementOfSeq
<1>2. /\ front \in Seq(S) /\ Len(front) = i - 1
      /\ \A j \in 1..(i - 1) : front[j] = s[j]
  <2>1. \A j \in 1..(i - 1) : s[j] \in S
    BY <1>1
  <2>2. /\ front \in Seq(S) /\ Len(front) = IF 1 <= i - 1 THEN i - 1 - 1 + 1 ELSE 0
        /\ \A j \in 1..(i - 1 - 1 + 1) : front[j] = s[1 + j - 1]
    BY <1>1, <2>1, SubSeqProperties
  <2> QED
    BY <1>1, <2>2
<1>3. /\ back \in Seq(S) /\ Len(back) = Len(s) - i
      /\ \A j \in 1..(Len(s) - i) : back[j] = s[i + j]
  <2>1. \A j \in (i + 1)..Len(s) : s[j] \in S
    BY <1>1
  <2>2. /\ back \in Seq(S) /\ Len(back) = IF i + 1 <= Len(s) THEN Len(s) - (i + 1) + 1 ELSE 0
        /\ \A j \in 1..(Len(s) - (i + 1) + 1) : back[j] = s[i + 1 + j - 1]
    BY <1>1, <2>1, SubSeqProperties
  <2> QED
    BY <1>1, <2>2
<1>4. /\ front \o back \in Seq(S) /\ Len(front \o back) = Len(s) - 1
      /\ \A j \in 1..(Len(s) - 1) :
           (front \o back)[j] = IF j <= i - 1 THEN front[j] ELSE back[j - (i - 1)]
  <2> HIDE DEF front, back
  <2>1. /\ front \o back \in Seq(S) /\ Len(front \o back) = Len(front) + Len(back)
        /\ \A j \in 1..(Len(front) + Len(back)) :
             (front \o back)[j] = IF j <= Len(front) THEN front[j] ELSE back[j - Len(front)]
    BY <1>2, <1>3, ConcatProperties
  <2>2. Len(front) = i - 1 /\ Len(front) + Len(back) = Len(s) - 1
    BY <1>1, <1>2, <1>3
  <2> QED
    BY <2>1, <2>2
<1>5. \A j \in 1..(Len(s) - 1) : (front \o back)[j] = IF j < i THEN s[j] ELSE s[j + 1]
  <2> SUFFICES ASSUME NEW j \in 1..(Len(s) - 1)
               PROVE  (front \o back)[j] = IF j < i THEN s[j] ELSE s[j + 1]
    OBVIOUS
  <2>1. CASE j < i
    <3>1. j \in 1..(i - 1) /\ j <= i - 1
      BY <1>1, <2>1
    <3> QED
      BY <1>2, <1>4, <2>1, <3>1
  <2>2. CASE ~(j < i)
    <3>1. j - (i - 1) \in 1..(Len(s) - i) /\ ~(j <= i - 1) /\ i + (j - (i - 1)) = j + 1
      BY <1>1, <2>2
    <3> QED
      BY <1>3, <1>4, <2>2, <3>1
  <2> QED
    BY <2>1, <2>2
<1> QED
  BY <1>4, <1>5, LenProperties DEF RemoveAt

\* A list says of a device that it is down: then the check of all devices fails.
LEMMA DownIsFail ==
  ASSUME NEW s \in Seq(ListedDevices), NEW i \in DOMAIN s, s[i].state # "ONLINE"
  PROVE  UniFi(AllDevices, s).result = "fail"
<1>1. IsFiniteSet(Range(s))
  <2>1. s \in [1..Len(s) -> Range(s)] /\ DOMAIN s = 1..Len(s) /\ Len(s) \in Nat
    BY LenProperties DEF Range
  <2>2. s \in Surjection(1..Len(s), Range(s))
    BY <2>1 DEF Surjection, Range
  <2>3. IsFiniteSet(1..Len(s))
    BY <2>1, FS_Interval
  <2> QED
    BY <2>2, <2>3, FS_Surjection
<1>2. s[i] \in Down(AllDevices, s)
  BY DEF Down, AllDevices, Good, Range
<1>3. IsFiniteSet(Down(AllDevices, s))
  BY <1>1, FS_Subset DEF Down
<1>4. Cardinality(Down(AllDevices, s)) \in Nat /\ Cardinality(Down(AllDevices, s)) # 0
  BY <1>2, <1>3, FS_CardinalityType, FS_EmptySet
<1>5. Counted(None, Cardinality(Down(AllDevices, s)), "fail").result = "fail"
  BY <1>4 DEF Counted, CheckResult
<1>6. AllDevices.mode = "devices" /\ AllDevices.th = None
  BY DEF AllDevices
<1>7. CASE s = None
  BY <1>7 DEF UniFi, Fail, CheckResult
<1>8. CASE s # None
  <2>1. UniFi(AllDevices, s) = Counted(None, Cardinality(Down(AllDevices, s)), "fail")
    BY <1>6, <1>8 DEF UniFi
  <2> QED
    BY <1>5, <2>1
<1> QED
  BY <1>7, <1>8

\* A page is what the list has behind the offset, up to `most' items of it; or the
\* whole list.
LEMMA PageItems ==
  ASSUME ListTypeOK, PositionSound, asking, NEW most \in 1..Limit
  PROVE  /\ Page(most) \in Seq(ListedDevices)
         /\ style = "array" => Page(most) = devices
         /\ style # "array" =>
              \E last \in Int :
                /\ last = IF offset + most <= Len(devices) THEN offset + most ELSE Len(devices)
                /\ Len(Page(most)) = IF offset + 1 <= last THEN last - offset ELSE 0
                /\ \A j \in (offset + 1)..last : Page(most)[j - offset] = devices[j]
<1>1. offset \in Nat /\ most \in Nat /\ most >= 1 /\ Len(devices) \in Nat
  BY LenProperties, InventoryAssumption DEF ListTypeOK, PositionSound
<1>2. CASE style = "array"
  BY <1>2 DEF Page, ListTypeOK
<1>3. CASE style # "array"
  <2> DEFINE last == Min({offset + most, Len(devices)})
  <2>1. last = IF offset + most <= Len(devices) THEN offset + most ELSE Len(devices)
    BY <1>1 DEF Min
  <2>2. last \in Int /\ last <= Len(devices)
    BY <1>1, <2>1
  <2>3. Page(most) = SubSeq(devices, offset + 1, last)
    BY <1>3 DEF Page
  <2> HIDE DEF last
  <2>4. \A j \in (offset + 1)..last : devices[j] \in ListedDevices
    BY <1>1, <2>2, ElementOfSeq DEF ListTypeOK
  <2>5. /\ Page(most) \in Seq(ListedDevices)
        /\ Len(Page(most)) = IF offset + 1 <= last THEN last - (offset + 1) + 1 ELSE 0
        /\ \A i \in 1..(last - (offset + 1) + 1) : Page(most)[i] = devices[offset + 1 + i - 1]
    BY <1>1, <2>2, <2>3, <2>4, SubSeqProperties
  <2>6. \A j \in (offset + 1)..last : Page(most)[j - offset] = devices[j]
    <3> SUFFICES ASSUME NEW j \in (offset + 1)..last PROVE Page(most)[j - offset] = devices[j]
      OBVIOUS
    <3>1. j - offset \in 1..(last - (offset + 1) + 1) /\ offset + 1 + (j - offset) - 1 = j
      BY <1>1, <2>2
    <3> QED
      BY <2>5, <3>1
  <2>7. Len(Page(most)) = IF offset + 1 <= last THEN last - offset ELSE 0
    BY <1>1, <2>2, <2>5
  <2> QED
    BY <1>3, <2>1, <2>2, <2>5, <2>6, <2>7
<1> QED
  BY <1>2, <1>3

\* What was read before is read after; what the page takes from the list moves over.
LEMMA PageTakesOver ==
  ASSUME ListIInv, asking, NEW most \in 1..Limit,
         NEW n, SaysDown(read, n, 0) \/ SaysDown(devices, n, offset)
  PROVE  LET page == Page(most)
         IN  /\ SaysDown(read \o page, n, 0) \/ (style # "array" /\ SaysDown(devices, n, offset + Len(page)))
             /\ Complete(page) /\ style # "pages" => SaysDown(read \o page, n, 0)
<1> DEFINE page == Page(most)
<1> USE DEF ListIInv
<1>1. /\ offset \in Nat /\ Len(read) = offset /\ DOMAIN read = 1..offset
      /\ Len(devices) \in Nat /\ DOMAIN devices = 1..Len(devices)
      /\ most \in Nat /\ most >= 1
  BY LenProperties, InventoryAssumption DEF ListTypeOK, PositionSound
<1>2. page \in Seq(ListedDevices) /\ Len(page) \in Nat /\ DOMAIN page = 1..Len(page)
  BY PageItems, LenProperties
<1>3. /\ DOMAIN (read \o page) = 1..(offset + Len(page)) /\ Len(read \o page) = offset + Len(page)
      /\ \A i \in 1..offset : (read \o page)[i] = read[i]
      /\ \A i \in 1..Len(page) : (read \o page)[offset + i] = page[i]
  <2>1. /\ read \o page \in Seq(ListedDevices) /\ Len(read \o page) = offset + Len(page)
        /\ \A i \in 1..(offset + Len(page)) :
             (read \o page)[i] = IF i <= offset THEN read[i] ELSE page[i - offset]
    BY <1>1, <1>2, ConcatProperties DEF ListTypeOK
  <2>2. \A i \in 1..Len(page) : /\ offset + i \in 1..(offset + Len(page))
                                /\ ~(offset + i <= offset) /\ (offset + i) - offset = i
    BY <1>1, <1>2
  <2>3. \A i \in 1..offset : i \in 1..(offset + Len(page)) /\ i <= offset
    BY <1>1, <1>2
  <2> QED
    BY <2>1, <2>2, <2>3, LenProperties
<1> HIDE DEF page
<1>4. CASE SaysDown(read, n, 0)
  <2>1. PICK i \in 1..offset : read[i].name = n /\ read[i].state # "ONLINE"
    BY <1>1, <1>4 DEF SaysDown
  <2>2. i \in 1..(offset + Len(page)) /\ i > 0
    BY <1>1, <1>2
  <2>3. SaysDown(read \o page, n, 0)
    BY <1>3, <2>1, <2>2 DEF SaysDown
  <2> QED
    BY <2>3 DEF page
<1>5. CASE SaysDown(devices, n, offset)
  <2>1. PICK j \in 1..Len(devices) :
          j > offset /\ devices[j].name = n /\ devices[j].state # "ONLINE"
    BY <1>1, <1>5 DEF SaysDown
  <2>2. ASSUME NEW i \in 1..Len(page), page[i] = devices[j]
        PROVE  SaysDown(read \o page, n, 0)
    <3>1. offset + i \in 1..(offset + Len(page)) /\ offset + i > 0
      BY <1>1, <1>2
    <3>2. (read \o page)[offset + i] = devices[j]
      BY <1>3, <2>2
    <3>3. offset + i \in 1..Len(read \o page)
      BY <1>3, <3>1
    <3> QED
      BY <2>1, <3>1, <3>2, <3>3 DEF SaysDown
  <2>3. CASE style = "array"
    <3>1. page = devices
      BY <2>3, PageItems DEF page
    <3>2. SaysDown(read \o page, n, 0)
      BY <1>1, <2>1, <2>2, <3>1
    <3> QED
      BY <3>2 DEF page
  <2>4. CASE style # "array"
    <3>1. PICK last \in Int :
            /\ last = IF offset + most <= Len(devices) THEN offset + most ELSE Len(devices)
            /\ Len(page) = IF offset + 1 <= last THEN last - offset ELSE 0
            /\ \A k \in (offset + 1)..last : page[k - offset] = devices[k]
      BY <2>4, PageItems DEF page
    <3>2. offset + 1 <= last /\ Len(page) = last - offset
      <4>1. offset + 1 <= Len(devices) /\ offset + 1 <= offset + most
        BY <1>1, <2>1
      <4>2. offset + 1 <= last
        BY <3>1, <4>1
      <4> QED
        BY <3>1, <4>2
    <3>3. CASE j <= last
      <4>1. j \in (offset + 1)..last /\ j - offset \in 1..Len(page)
        <5>1. j \in Int /\ j >= offset + 1 /\ j - offset >= 1 /\ j - offset <= last - offset
          BY <1>1, <2>1, <3>3
        <5> QED
          BY <1>1, <3>2, <3>3, <5>1
      <4>2. SaysDown(read \o page, n, 0)
        BY <2>2, <3>1, <4>1
      <4> QED
        BY <4>2 DEF page
    <3>4. CASE j > last
      <4>1. j > offset + Len(page)
        BY <1>1, <3>2, <3>4
      <4>2. SaysDown(devices, n, offset + Len(page))
        BY <1>1, <2>1, <4>1 DEF SaysDown
      <4>3. ~(Len(read \o page) >= Len(devices))
        BY <1>1, <1>3, <2>1, <4>1
      <4>4. page # <<>>
        BY <1>1, <1>2, <3>2, EmptySeq
      <4>5. ~(Complete(page) /\ style # "pages")
        BY <2>4, <4>3, <4>4 DEF Complete, ListTypeOK
      <4> QED
        BY <2>4, <4>2, <4>5 DEF page
    <3> QED
      BY <2>1, <3>1, <3>3, <3>4
  <2> QED
    BY <2>3, <2>4
<1> QED
  BY <1>4, <1>5

-----------------------------------------------------------------------------
(* The invariant *)

LEMMA ListInitSound == InventoryInit => ListIInv
<1> SUFFICES ASSUME InventoryInit PROVE ListIInv
  OBVIOUS
<1>1. ListTypeOK /\ PositionSound /\ NothingSkipped
  BY EmptySeq DEF InventoryInit, ListTypeOK, PositionSound, NothingSkipped
<1>2. DOMAIN devices = {}
  BY DEF InventoryInit
<1> QED
  BY <1>1, <1>2 DEF ListIInv, NamesDiffer

LEMMA SitesSound ==
  ASSUME ListIInv, Sites
  PROVE  ListIInv'
<1> USE DEF ListIInv
<1>1. ListTypeOK' /\ NamesDiffer' /\ PositionSound'
  <2>1. ~ asking /\ UNCHANGED <<devices, style>> /\ asking' \in BOOLEAN /\ slips' \in Nat
    <3>1. \/ asking' = TRUE /\ slips' = 0
          \/ asking' = FALSE /\ slips' = slips
      BY Zenon DEF Sites, Concluded
    <3>2. ~ asking /\ UNCHANGED <<devices, style>>
      BY DEF Sites
    <3>3. asking' \in BOOLEAN
      BY <3>1, Zenon
    <3>4. slips' \in Nat
      BY <3>1 DEF ListTypeOK
    <3> QED
      BY <3>2, <3>3, <3>4
  <2>2. offset' = 0 /\ (read' = read \/ read' = <<>>) /\ Len(read) = 0
    BY <2>1 DEF Sites, Concluded, PositionSound
  <2>3. read' \in Seq(ListedDevices) /\ Len(read') = 0
    BY <2>2, EmptySeq DEF ListTypeOK
  <2> QED
    BY <2>1, <2>2, <2>3 DEF ListTypeOK, NamesDiffer, PositionSound
<1>2. NothingSkipped'
  <2> SUFFICES ASSUME asking' PROVE Ahead(throughout)' /\ slips' = 0
    <3>1. IsFiniteSet({}) /\ Cardinality({}) = 0 /\ throughout' \ {} = throughout'
      BY FS_EmptySet
    <3> QED
      BY <3>1 DEF NothingSkipped, Ahead, SaysDown
  <2>1. throughout' = DownNow /\ devices' = devices /\ offset' = 0 /\ slips' = 0
    BY DEF Sites, Concluded, PositionSound
  <2>2. ASSUME NEW n \in DownNow PROVE SaysDown(devices, n, 0)
    <3>1. PICK d \in Down(AllDevices, devices) : d.name = n
      BY DEF DownNow
    <3>2. PICK i \in DOMAIN devices : devices[i] = d
      BY <3>1 DEF Down, Range
    <3>3. d.state # "ONLINE"
      BY <3>1 DEF Down, AllDevices, Good
    <3>4. i > 0
      BY LenProperties DEF ListTypeOK
    <3> QED
      BY <3>1, <3>2, <3>3, <3>4 DEF SaysDown
  <2> QED
    BY <2>1, <2>2 DEF Ahead, SaysDown
<1> QED
  BY <1>1, <1>2

LEMMA RequestSound ==
  ASSUME ListIInv, Request
  PROVE  ListIInv'
<1> USE DEF ListIInv
<1>1. PICK most \in 1..Limit :
        IF Complete(Page(most))
        THEN Concluded(read \o Page(most))
        ELSE /\ read' = read \o Page(most) /\ offset' = NextPage(Page(most))
             /\ UNCHANGED <<asking, found>>
  BY DEF Request
<1>2. asking /\ UNCHANGED <<devices, style, throughout, slips>>
  BY DEF Request
<1>3. CASE Complete(Page(most))
  BY <1>1, <1>2, <1>3, EmptySeq
     DEF Concluded, ListTypeOK, NamesDiffer, PositionSound, NothingSkipped
<1>4. CASE ~ Complete(Page(most))
  <2>1. /\ read' = read \o Page(most) /\ offset' = offset + Len(Page(most))
        /\ UNCHANGED asking /\ style = "total"
    BY <1>1, <1>4 DEF NextPage, Complete
  <2>2. read' \in Seq(ListedDevices) /\ Len(read') = Len(read) + Len(Page(most))
    BY <1>2, <2>1, PageItems, ConcatProperties DEF ListTypeOK
  <2>3. ListTypeOK' /\ NamesDiffer' /\ PositionSound'
    BY <1>2, <2>1, <2>2 DEF ListTypeOK, NamesDiffer, PositionSound
  <2>4. PICK missed : /\ IsFiniteSet(missed) /\ Cardinality(missed) <= slips
                      /\ Ahead(throughout \ missed)
    BY <1>2 DEF NothingSkipped
  <2>5. \A n \in throughout \ missed : SaysDown(read', n, 0) \/ SaysDown(devices, n, offset')
    BY <1>2, <2>1, <2>4, PageTakesOver DEF Ahead
  <2>6. Ahead(throughout \ missed)'
    BY <1>2, <2>5 DEF Ahead, SaysDown
  <2> QED
    BY <1>2, <2>3, <2>4, <2>6 DEF NothingSkipped
<1> QED
  BY <1>3, <1>4

LEMMA NoReplySound ==
  ASSUME ListIInv, NoReply
  PROVE  ListIInv'
BY EmptySeq DEF NoReply, Concluded, ListIInv, ListTypeOK, NamesDiffer, PositionSound, NothingSkipped

\* The console changed, and nothing that is still to be read was skipped.
LEMMA StillAhead ==
  ASSUME NothingSkipped, UNCHANGED <<asking, read, offset, slips>>, throughout' \subseteq throughout,
         \A n \in throughout' : SaysDown(devices, n, offset) => SaysDown(devices', n, offset)
  PROVE  NothingSkipped'
<1> SUFFICES ASSUME asking PROVE NothingSkipped'
  BY DEF NothingSkipped
<1>1. PICK missed : /\ IsFiniteSet(missed) /\ Cardinality(missed) <= slips
                    /\ Ahead(throughout \ missed)
  BY DEF NothingSkipped
<1>2. \A n \in throughout' \ missed : SaysDown(read, n, 0) \/ SaysDown(devices', n, offset)
  BY <1>1 DEF Ahead
<1>3. Ahead(throughout \ missed)'
  BY <1>2 DEF Ahead, SaysDown
<1> QED
  BY <1>1, <1>3 DEF NothingSkipped

LEMMA AdoptSound ==
  ASSUME ListIInv, NEW name \in Names, Adopt(name), UNCHANGED <<style, asking, offset, read, found>>
  PROVE  ListIInv'
<1> USE DEF ListIInv
<1>1. PICK state \in {"ONLINE", "OFFLINE"} : devices' = Append(devices, Listed(name, state))
  BY DEF Adopt
<1>2. /\ devices' \in Seq(ListedDevices) /\ Len(devices) \in Nat
      /\ DOMAIN devices = 1..Len(devices) /\ DOMAIN devices' = 1..(Len(devices) + 1)
      /\ \A i \in DOMAIN devices : i \in DOMAIN devices' /\ devices'[i] = devices[i]
      /\ devices'[Len(devices) + 1].name = name
  <2>1. Listed(name, state) \in ListedDevices /\ Listed(name, state).name = name
    BY DEF Listed, ListedDevices
  <2> QED
    BY <1>1, <2>1, LenProperties, AppendProperties DEF ListTypeOK
<1>3. NamesDiffer'
  <2>1. \A i \in DOMAIN devices : devices[i].name # name
    BY DEF Adopt, Range
  <2>2. \A i \in DOMAIN devices' : i \in DOMAIN devices \/ i = Len(devices) + 1
    BY <1>2
  <2> QED
    BY <1>2, <2>1, <2>2 DEF NamesDiffer
<1>4. \A n : SaysDown(devices, n, offset) => SaysDown(devices', n, offset)
  BY <1>2 DEF SaysDown
<1>5. NothingSkipped'
  BY <1>4, StillAhead DEF Adopt
<1> QED
  BY <1>2, <1>3, <1>5 DEF ListTypeOK, PositionSound, Adopt

LEMMA ChangeSound ==
  ASSUME ListIInv, NEW i \in DOMAIN devices, Change(i), UNCHANGED <<style, asking, offset, read, found>>
  PROVE  ListIInv'
<1> USE DEF ListIInv
<1>1. PICK state \in {"ONLINE", "OFFLINE"} : devices' = [devices EXCEPT ![i].state = state]
  BY DEF Change
<1>2. /\ devices' \in Seq(ListedDevices) /\ DOMAIN devices' = DOMAIN devices
      /\ \A j \in DOMAIN devices : /\ devices'[j].name = devices[j].name
                                   /\ j # i => devices'[j] = devices[j]
  <2>1. devices[i] \in ListedDevices /\ i \in 1..Len(devices)
    BY LenProperties, ElementOfSeq DEF ListTypeOK
  <2>2. DEFINE d == [devices[i] EXCEPT !.state = state]
  <2>3. d \in ListedDevices /\ d.name = devices[i].name
    BY <2>1 DEF ListedDevices
  <2>4. devices' = [devices EXCEPT ![i] = d]
    BY <1>1
  <2>5. /\ devices' \in Seq(ListedDevices) /\ Len(devices') = Len(devices)
        /\ \A j \in 1..Len(devices) : devices'[j] = IF j = i THEN d ELSE devices[j]
    BY <2>1, <2>3, <2>4, ExceptSeq DEF ListTypeOK
  <2> QED
    BY <2>3, <2>5, LenProperties DEF ListTypeOK
<1>3. NamesDiffer'
  BY <1>2 DEF NamesDiffer
<1>4. ASSUME NEW n \in throughout', SaysDown(devices, n, offset)
      PROVE  SaysDown(devices', n, offset)
  <2>1. PICK j \in DOMAIN devices : j > offset /\ devices[j].name = n
    BY <1>4 DEF SaysDown
  <2>2. PICK d \in Down(AllDevices, devices') : d.name = n
    BY DEF Change, DownNow
  <2>3. PICK k \in DOMAIN devices' : devices'[k] = d
    BY <2>2 DEF Down, Range
  <2>4. d.state # "ONLINE"
    BY <2>2 DEF Down, AllDevices, Good
  <2>5. k = j
    BY <1>2, <2>1, <2>2, <2>3 DEF NamesDiffer
  <2> QED
    BY <1>2, <2>1, <2>2, <2>3, <2>4, <2>5 DEF SaysDown
<1>5. throughout' \subseteq throughout
  BY DEF Change
<1>6. NothingSkipped'
  BY <1>4, <1>5, StillAhead DEF Change
<1> QED
  BY <1>2, <1>3, <1>6 DEF ListTypeOK, PositionSound, Change

LEMMA ForgetSound ==
  ASSUME ListIInv, NEW i \in DOMAIN devices, Forget(i), UNCHANGED <<style, asking, offset, read, found>>
  PROVE  ListIInv'
<1> USE DEF ListIInv
<1>1. /\ devices' \in Seq(ListedDevices) /\ i \in 1..Len(devices) /\ Len(devices) \in Nat
      /\ DOMAIN devices = 1..Len(devices) /\ DOMAIN devices' = 1..(Len(devices) - 1)
      /\ \A j \in 1..(Len(devices) - 1) :
           devices'[j] = IF j < i THEN devices[j] ELSE devices[j + 1]
  BY RemoveAtItems, LenProperties DEF Forget, ListTypeOK
<1>2. offset \in Nat
  BY LenProperties DEF ListTypeOK, PositionSound
<1>3. NamesDiffer'
  <2> SUFFICES ASSUME NEW j \in DOMAIN devices', NEW k \in DOMAIN devices',
                      devices'[j].name = devices'[k].name
               PROVE  j = k
    BY DEF NamesDiffer
  <2> DEFINE Was(l) == IF l < i THEN l ELSE l + 1
  <2>1. /\ Was(j) \in DOMAIN devices /\ devices'[j] = devices[Was(j)]
        /\ Was(k) \in DOMAIN devices /\ devices'[k] = devices[Was(k)]
    BY <1>1
  <2>2. Was(j) = Was(k)
    BY <2>1 DEF NamesDiffer
  <2> QED
    BY <1>1, <2>2
<1>4. ASSUME NEW j \in DOMAIN devices, j > offset, devices[j].state # "ONLINE", j # i,
             ~(i <= offset /\ j = offset + 1)
      PROVE  SaysDown(devices', devices[j].name, offset)
  <2>1. CASE j < i
    <3>1. j \in 1..(Len(devices) - 1)
      BY <1>1, <2>1
    <3> QED
      BY <1>1, <1>4, <2>1, <3>1 DEF SaysDown
  <2>2. CASE j > i
    <3>1. j - 1 \in 1..(Len(devices) - 1) /\ ~(j - 1 < i) /\ (j - 1) + 1 = j /\ j - 1 > offset
      BY <1>1, <1>2, <1>4, <2>2
    <3>2. devices'[j - 1] = devices[j]
      BY <1>1, <3>1
    <3> QED
      BY <1>1, <1>4, <3>1, <3>2 DEF SaysDown
  <2> QED
    BY <1>1, <1>4, <2>1, <2>2
<1>5. throughout' \subseteq throughout /\ devices[i].name \notin throughout'
  BY DEF Forget
<1>6. ASSUME asking PROVE NothingSkipped'
  <2>1. PICK missed : /\ IsFiniteSet(missed) /\ Cardinality(missed) <= slips
                      /\ Ahead(throughout \ missed)
    BY <1>6 DEF NothingSkipped
  <2>2. CASE i <= offset
    <3>0. PICK over : over = devices[offset + 1].name
      OBVIOUS
    <3>1. /\ IsFiniteSet(missed \union {over})
          /\ Cardinality(missed \union {over}) <= Cardinality(missed) + 1
          /\ Cardinality(missed) \in Nat /\ Cardinality(missed \union {over}) \in Nat
      <4>1. /\ IsFiniteSet(missed \union {over})
            /\ Cardinality(missed \union {over}) =
                 IF over \in missed THEN Cardinality(missed) ELSE Cardinality(missed) + 1
        BY <2>1, FS_AddElement
      <4>2. Cardinality(missed) \in Nat
        BY <2>1, FS_CardinalityType
      <4> QED
        BY <4>1, <4>2
    <3>2. Cardinality(missed \union {over}) <= slips' /\ slips \in Nat
      BY <2>1, <2>2, <3>1 DEF Forget, ListTypeOK
    <3>3. ASSUME NEW n \in throughout' \ (missed \union {over}), SaysDown(devices, n, offset)
          PROVE  SaysDown(devices', n, offset)
      <4>1. PICK j \in DOMAIN devices :
              j > offset /\ devices[j].name = n /\ devices[j].state # "ONLINE"
        BY <3>3 DEF SaysDown
      <4>2. j # i /\ j # offset + 1
        BY <1>5, <3>0, <3>3, <4>1
      <4> QED
        BY <1>4, <4>1, <4>2
    <3>4. \A n \in throughout' \ (missed \union {over}) :
            SaysDown(read, n, 0) \/ SaysDown(devices', n, offset)
      BY <1>5, <2>1, <3>3 DEF Ahead
    <3>5. Ahead(throughout \ (missed \union {over}))'
      BY <3>4 DEF Ahead, SaysDown
    <3> QED
      BY <3>1, <3>2, <3>5 DEF NothingSkipped
  <2>3. CASE ~(i <= offset)
    <3>1. ASSUME NEW n \in throughout', SaysDown(devices, n, offset)
          PROVE  SaysDown(devices', n, offset)
      <4>1. PICK j \in DOMAIN devices :
              j > offset /\ devices[j].name = n /\ devices[j].state # "ONLINE"
        BY <3>1 DEF SaysDown
      <4>2. j # i
        BY <1>5, <3>1, <4>1
      <4> QED
        BY <1>4, <2>3, <4>1, <4>2
    <3> QED
      BY <1>5, <2>3, <3>1, StillAhead DEF Forget
  <2> QED
    BY <2>2, <2>3
<1>7. NothingSkipped'
  BY <1>6 DEF NothingSkipped
<1>8. slips' \in Nat
  BY DEF Forget, ListTypeOK
<1> QED
  BY <1>1, <1>3, <1>7, <1>8 DEF ListTypeOK, PositionSound

LEMMA ListStepSound == ListIInv /\ [InventoryNext]_inventoryVars => ListIInv'
<1> SUFFICES ASSUME ListIInv, [InventoryNext]_inventoryVars PROVE ListIInv'
  OBVIOUS
<1>1. CASE Console
  BY <1>1, AdoptSound, ChangeSound, ForgetSound DEF Console
<1>2. CASE UNCHANGED inventoryVars
  BY <1>2 DEF inventoryVars, ListIInv, ListTypeOK, NamesDiffer, PositionSound, NothingSkipped,
              Ahead, SaysDown
<1> QED
  BY <1>1, <1>2, SitesSound, RequestSound, NoReplySound DEF InventoryNext

\* Where the next page begins, what was read and what is still to be read fit together
\* in every state of a poll, for any console and any Limit. (apps.py:138-160)
THEOREM ListInvariance == InventorySpec => []ListIInv
<1>1. InventoryInit => ListIInv
  BY ListInitSound
<1>2. ListIInv /\ [InventoryNext]_inventoryVars => ListIInv'
  BY ListStepSound
<1> QED
  BY <1>1, <1>2, PTL DEF InventorySpec

\* A poll that ends says that something is down if more devices were down from its first
\* request to its last than were forgotten before the page edge.
LEMMA EndsWithFailure ==
  ASSUME ListIInv, InventoryNext, asking, ~ asking', style # "pages",
         Cardinality(throughout) > slips
  PROVE  found'.result = "fail"
<1> USE DEF ListIInv
<1>1. CASE Request
  <2>1. PICK most \in 1..Limit :
          Complete(Page(most)) /\ found' = UniFi(AllDevices, read \o Page(most))
    BY <1>1 DEF Request, Concluded
  <2>2. PICK n : SaysDown(read, n, 0) \/ SaysDown(devices, n, offset)
    <3>1. PICK missed : /\ IsFiniteSet(missed) /\ Cardinality(missed) <= slips
                        /\ Ahead(throughout \ missed)
      BY DEF NothingSkipped
    <3>2. ASSUME throughout \subseteq missed PROVE FALSE
      <4>1. Cardinality(throughout) <= Cardinality(missed)
            /\ Cardinality(throughout) \in Nat /\ Cardinality(missed) \in Nat
        BY <3>1, <3>2, FS_Subset, FS_CardinalityType
      <4> QED
        BY <3>1, <4>1 DEF ListTypeOK
    <3> QED
      BY <3>1, <3>2 DEF Ahead
  <2>3. SaysDown(read \o Page(most), n, 0)
    BY <2>1, <2>2, PageTakesOver
  <2>4. read \o Page(most) \in Seq(ListedDevices)
    BY PageItems, ConcatProperties DEF ListTypeOK
  <2>5. PICK i \in DOMAIN (read \o Page(most)) : (read \o Page(most))[i].state # "ONLINE"
    BY <2>3 DEF SaysDown
  <2> QED
    BY <2>1, <2>4, <2>5, DownIsFail
<1>2. CASE NoReply
  BY <1>2 DEF NoReply, Concluded, UniFi, Fail, CheckResult
<1> QED
  BY <1>1, <1>2 DEF InventoryNext, Sites, Console

\* A poll misses no more of the devices that are down from its first request to the last
\* than were forgotten before the page edge meanwhile, for any list, any Limit and any
\* pages the console makes of it. (apps.py:138-160)
THEOREM NothingDownIsLost == InventorySpec => DownThroughoutIsReported
<1>1. ListIInv /\ [InventoryNext]_inventoryVars =>
        [asking /\ ~asking' /\ style # "pages" /\ Cardinality(throughout) > slips
           => found'.result = "fail"]_inventoryVars
  BY EndsWithFailure
<1> QED
  BY <1>1, ListInvariance, PTL DEF InventorySpec, DownThroughoutIsReported

-----------------------------------------------------------------------------
(* What is worse gets no better verdict: for every monitor of every type,   *)
(* every pair of thresholds, and lists, rows, pools, devices, guests and    *)
(* alerts of any number.                                                    *)

-----------------------------------------------------------------------------
(* Verdicts *)

\* A result and a value, and no more.
IsVerdict(v) == v = CheckResult(v.result, v.value) /\ v.result \in Results

\* Value x is no further from the thresholds than y, or y meets none.
NoCloser(m, x, y) ==
  \/ y = None \/ x = y
  \/ x \in Int /\ y \in Int /\ IF Toward(m) = "above" THEN x >= y ELSE x <= y

\* Verdict w of monitor m is no better than v, and thresholds do not change that.
NotBetter(m, w, v) ==
  /\ IsVerdict(w) /\ IsVerdict(v)
  /\ w.result = "fail" \/ (Rank[w.result] >= Rank[v.result] /\ NoCloser(m, w.value, v.value))

\* The results and their ranks.
LEMMA Ranks ==
  /\ Rank["ok"] = 0 /\ Rank["warn"] = 1 /\ Rank["fail"] = 2
  /\ \A r \in Results : Rank[r] \in Int /\ 0 <= Rank[r] /\ Rank[r] <= 2
BY DEF Rank, Results

\* A result and a value are a verdict.
LEMMA VerdictParts ==
  ASSUME NEW r \in Results, NEW x
  PROVE  /\ IsVerdict(CheckResult(r, x))
         /\ CheckResult(r, x).result = r /\ CheckResult(r, x).value = x
BY DEF IsVerdict, CheckResult

\* What failed and what is fine are verdicts.
LEMMA PlainVerdicts ==
  /\ IsVerdict(Fail) /\ Fail.result = "fail" /\ Fail.value = None
  /\ \A x : IsVerdict(Ok(x)) /\ Ok(x).result = "ok" /\ Ok(x).value = x
BY VerdictParts DEF Fail, Ok, Results

\* What the thresholds make of a verdict, case by case.
LEMMA AppliedResult ==
  ASSUME NEW th, NEW v, IsVerdict(v)
  PROVE  Applied(th, v).result =
           IF th = None \/ v.result = "fail" \/ v.value = None THEN v.result
           ELSE IF Crossed(th, v.value, th.crit) THEN "fail"
           ELSE IF Crossed(th, v.value, th.warn) THEN "warn" ELSE v.result
<1>1. v = [result |-> v.result, value |-> v.value]
  BY DEF IsVerdict, CheckResult
<1>2. \A x : [v EXCEPT !.result = x].result = x
  BY <1>1
<1> QED
  BY <1>2 DEF Applied

\* A limit that the better of two values crosses is crossed by the other.
LEMMA CrossedToo ==
  ASSUME None \notin Int, NEW th, NEW limit \in Int \union {None},
         NEW a \in Int, NEW b \in Int,
         IF th.direction = "above" THEN b >= a ELSE b <= a,
         Crossed(th, a, limit)
  PROVE  Crossed(th, b, limit)
BY DEF Crossed

\* Thresholds keep the order of two verdicts.
LEMMA ThresholdsKeepOrder ==
  ASSUME None \notin Int, NEW m, ThresholdsFit(m), NEW w, NEW v, NotBetter(m, w, v)
  PROVE  /\ Applied(ThresholdsOf(m), w).result \in Results
         /\ Applied(ThresholdsOf(m), v).result \in Results
         /\ Rank[Applied(ThresholdsOf(m), w).result] >= Rank[Applied(ThresholdsOf(m), v).result]
<1> DEFINE th == ThresholdsOf(m)
           jw == Applied(th, w).result
           jv == Applied(th, v).result
<1>1. IsVerdict(w) /\ IsVerdict(v)
  BY DEF NotBetter
<1>2. /\ jw = IF th = None \/ w.result = "fail" \/ w.value = None THEN w.result
              ELSE IF Crossed(th, w.value, th.crit) THEN "fail"
              ELSE IF Crossed(th, w.value, th.warn) THEN "warn" ELSE w.result
      /\ jv = IF th = None \/ v.result = "fail" \/ v.value = None THEN v.result
              ELSE IF Crossed(th, v.value, th.crit) THEN "fail"
              ELSE IF Crossed(th, v.value, th.warn) THEN "warn" ELSE v.result
  BY <1>1, AppliedResult
<1>3. th = None \/ /\ th.direction = Toward(m)
                   /\ th.warn \in Int \union {None} /\ th.crit \in Int \union {None}
  BY DEF ThresholdsFit
<1>4. Toward(m) \in {"above", "below"}
  BY DEF Toward
<1> HIDE DEF th, jw, jv
<1>5. /\ w.result \in Results /\ v.result \in Results /\ "fail" \in Results /\ "warn" \in Results
      /\ jw \in Results /\ jv \in Results
  BY <1>1, <1>2 DEF IsVerdict, Results
<1>6. Rank[jw] >= Rank[w.result]
  BY <1>2, <1>5, Ranks DEF Results
<1>7. Rank[jw] >= Rank[jv]
  <2>1. CASE w.result # "fail" /\ Rank[w.result] >= Rank[v.result] /\ w.value = v.value
    BY <1>2, <1>5, <2>1, Ranks DEF Results
  <2>2. CASE w.result = "fail"
    BY <1>5, <1>6, <2>2, Ranks
  <2>3. CASE w.result # "fail" /\ Rank[w.result] >= Rank[v.result] /\ v.value = None
    BY <1>2, <1>5, <1>6, <2>3, Ranks
  <2>4. CASE /\ w.result # "fail" /\ Rank[w.result] >= Rank[v.result]
             /\ w.value \in Int /\ v.value \in Int
             /\ IF Toward(m) = "above" THEN w.value >= v.value ELSE w.value <= v.value
    <3>1. v.result # "fail" /\ w.value # None /\ v.value # None
      BY <1>5, <2>4, Ranks DEF Results
    <3>2. CASE th = None
      BY <1>2, <2>4, <3>2
    <3>3. CASE th # None
      <4>1. /\ Crossed(th, v.value, th.crit) => Crossed(th, w.value, th.crit)
            /\ Crossed(th, v.value, th.warn) => Crossed(th, w.value, th.warn)
        BY <1>3, <1>4, <2>4, <3>3, CrossedToo
      <4> QED
        BY <1>2, <1>5, <2>4, <3>1, <3>3, <4>1, Ranks DEF Results
    <3> QED
      BY <3>2, <3>3
  <2> QED
    BY <2>1, <2>2, <2>3, <2>4 DEF NotBetter, NoCloser
<1> QED
  BY <1>5, <1>7 DEF th, jw, jv

\* A failure is no better than anything, and nothing is better than itself.
LEMMA WorstOrSame ==
  ASSUME NEW m, NEW v, IsVerdict(v)
  PROVE  NotBetter(m, Fail, v) /\ NotBetter(m, v, v)
<1>1. Rank[v.result] \in Int
  BY Ranks DEF IsVerdict
<1> QED
  BY <1>1, PlainVerdicts DEF NotBetter, NoCloser

\* The result and the value are no better.
LEMMA BothWorse ==
  ASSUME NEW m, NEW rw \in Results, NEW rv \in Results, NEW x, NEW y,
         Rank[rw] >= Rank[rv], NoCloser(m, x, y)
  PROVE  NotBetter(m, CheckResult(rw, x), CheckResult(rv, y))
BY VerdictParts DEF NotBetter

\* Of two results that are fine, the value decides.
LEMMA BothOk ==
  ASSUME NEW m, NEW x, NEW y, NoCloser(m, x, y)
  PROVE  NotBetter(m, Ok(x), Ok(y))
BY BothWorse, Ranks DEF Ok, Results

-----------------------------------------------------------------------------
(* Fields *)

\* Each field of the first reply is no better than in the second.
InEveryField(w, v) ==
  DOMAIN w = DOMAIN v /\ \A name \in DOMAIN w : NoBetterIn(name, w[name], v[name])

\* Something that must not be missing is missing.
Lacks(m, w) == \E name \in Required(m) : name \in DOMAIN w /\ w[name] = None

\* A record is worse field by field, or lacks something.
LEMMA WorseOrLacking ==
  ASSUME NEW m, NEW w, NEW v, NoBetterRecord(m, w, v)
  PROVE  InEveryField(w, v) \/ Lacks(m, w)
BY DEF NoBetterRecord, InEveryField, Lacks

\* The fields by which one reply is worse than another; the others must be the same.
Compared == Burdens \union Reserves \union Assets \union Troubles \union
            {"status", "state", "banner", "text", "power", "heartbeat", "connection", "answers", "containers",
             "loads", "rows", "samples", "ram"}

\* What it means for two replies that one is no better, field by field.
LEMMA FieldOrder ==
  ASSUME NEW m, NEW w, NEW v, AsksFor(m, w), AsksFor(m, v),
         None \notin Int, InEveryField(w, v), NEW name \in Fields(m)
  PROVE  /\ name \in Burdens => /\ {w[name], v[name]} \subseteq Int \union {None}
                                /\ w[name] = v[name] \/ (w[name] \in Int /\ v[name] \in Int /\ w[name] >= v[name])
         /\ name \in Reserves => /\ {w[name], v[name]} \subseteq Int \union {None}
                                 /\ w[name] = v[name] \/ (w[name] \in Int /\ v[name] \in Int /\ w[name] <= v[name])
         /\ name \in Assets => w[name] \in BOOLEAN /\ v[name] \in BOOLEAN /\ (w[name] => v[name])
         /\ name \in Troubles => w[name] \in BOOLEAN /\ v[name] \in BOOLEAN /\ (v[name] => w[name])
         /\ name \in {"status", "state", "banner", "text", "power", "heartbeat", "connection"}
              => w[name] = v[name] \/ v[name] \in FineFor(m, name)
         /\ name = "answers" => w[name] \subseteq v[name]
         /\ name = "containers" => v[name] \subseteq w[name]
         /\ name \in Amounts => {w[name], v[name]} \subseteq Nat \union {None}
         /\ name \notin Compared => w[name] = v[name]
<1>1. /\ name \in DOMAIN w /\ name \in DOMAIN v /\ NoBetterIn(name, w[name], v[name])
      /\ FieldSound(m, name, w[name]) /\ FieldSound(m, name, v[name])
  BY DEF AsksFor, InEveryField
<1> HIDE DEF InEveryField, AsksFor
<1>2. name \in Burdens => /\ {w[name], v[name]} \subseteq Int \union {None}
                          /\ w[name] = v[name] \/ (w[name] \in Int /\ v[name] \in Int /\ w[name] >= v[name])
  BY <1>1 DEF NoBetterIn, AtLeast, FieldSound, Burdens, Reserves, Assets, Troubles
<1>3. name \in Reserves => /\ {w[name], v[name]} \subseteq Int \union {None}
                           /\ w[name] = v[name] \/ (w[name] \in Int /\ v[name] \in Int /\ w[name] <= v[name])
  BY <1>1 DEF NoBetterIn, AtLeast, FieldSound, Burdens, Reserves, Assets, Troubles
<1>4. name \in Assets => w[name] \in BOOLEAN /\ v[name] \in BOOLEAN /\ (w[name] => v[name])
  BY <1>1 DEF NoBetterIn, FieldSound, Burdens, Reserves, Assets, Troubles
<1>5. name \in Troubles => w[name] \in BOOLEAN /\ v[name] \in BOOLEAN /\ (v[name] => w[name])
  BY <1>1 DEF NoBetterIn, FieldSound, Burdens, Reserves, Assets, Troubles
<1>6. name \in {"status", "state", "banner", "text", "power", "heartbeat", "connection"}
        => w[name] = v[name] \/ v[name] \in FineFor(m, name)
  BY <1>1 DEF NoBetterIn, FieldSound, Burdens, Reserves, Assets, Troubles
<1>7. /\ name = "answers" => w[name] \subseteq v[name]
      /\ name = "containers" => v[name] \subseteq w[name]
      /\ name \in Amounts => {w[name], v[name]} \subseteq Nat \union {None}
  BY <1>1 DEF NoBetterIn, FieldSound, Burdens, Reserves, Assets, Troubles
<1>8. name \notin Compared => w[name] = v[name]
  BY <1>1 DEF NoBetterIn, Compared
<1> QED
  BY <1>2, <1>3, <1>4, <1>5, <1>6, <1>7, <1>8

\* The same for what is a list of numbers or of readings.
LEMMA NumbersOrder ==
  ASSUME NEW m, NEW w, NEW v, AsksFor(m, w), AsksFor(m, v),
         None \notin Int, InEveryField(w, v), NEW name \in Fields(m)
  PROVE  /\ name = "loads" => /\ {w[name], v[name]} \subseteq Seq(Int)
                              /\ w[name] = <<>> \/ EachAtLeast(w[name], v[name])
         /\ name = "rows" => /\ {w[name], v[name]} \subseteq Seq(Int \union {None})
                             /\ EachAtLeast(w[name], v[name])
         /\ name = "samples" => /\ {w[name], v[name]} \subseteq Seq([total : Int, idle : Int])
                                /\ w[name] = v[name] \/ NoMoreIdle(w[name], v[name])
         /\ name = "ram" => /\ {w[name], v[name]} \subseteq Seq([size : Nat \union {None}, used : Int \union {None}])
                            /\ w[name] = v[name] \/ NoLessUsed(w[name], v[name])
<1>1. /\ NoBetterIn(name, w[name], v[name])
      /\ FieldSound(m, name, w[name]) /\ FieldSound(m, name, v[name])
  BY DEF AsksFor, InEveryField
<1> HIDE DEF InEveryField, AsksFor
<1>2. \A xs : EachAtLeast(xs, xs)
  BY DEF EachAtLeast, AtLeast
<1>3. CASE name = "loads"
  BY <1>1, <1>2, <1>3 DEF NoBetterIn, FieldSound, Burdens, Reserves, Assets, Troubles
<1>4. CASE name = "rows"
  BY <1>1, <1>2, <1>4 DEF NoBetterIn, FieldSound, Burdens, Reserves, Assets, Troubles
<1>5. CASE name = "samples"
  BY <1>1, <1>5 DEF NoBetterIn, FieldSound, Burdens, Reserves, Assets, Troubles
<1>6. CASE name = "ram"
  BY <1>1, <1>6 DEF NoBetterIn, FieldSound, Burdens, Reserves, Assets, Troubles
<1> QED
  BY <1>3, <1>4, <1>5, <1>6

-----------------------------------------------------------------------------
(* Checks whose reply is one record *)

\* Two replies that are not missing, and the first is no better.
BothAnswer(m, w, v) ==
  /\ None \notin Int /\ Monitors(m)
  /\ w # None /\ v # None /\ AsksFor(m, w) /\ AsksFor(m, v)
  /\ InEveryField(w, v)

\* Two replies that are not missing, and the first is no better or lacks something.
BothSound(m, w, v) ==
  /\ None \notin Int /\ Monitors(m)
  /\ w # None /\ v # None /\ AsksFor(m, w) /\ AsksFor(m, v)
  /\ NoBetterRecord(m, w, v)

\* One of the two, and the better reply is no better than itself.
LEMMA EitherWay ==
  ASSUME NEW m, NEW w, NEW v, BothSound(m, w, v)
  PROVE  /\ BothAnswer(m, w, v) \/ (Lacks(m, w) /\ w # None)
         /\ BothAnswer(m, v, v)
<1>1. InEveryField(v, v)
  BY DEF InEveryField, NoBetterIn
<1> QED
  BY <1>1, WorseOrLacking DEF BothSound, BothAnswer

\* What is not compared and may be missing is the same.
LEMMA SameField ==
  ASSUME NEW m, NEW w, NEW v, BothSound(m, w, v), NEW name \in Fields(m),
         name \notin Compared, name \notin Required(m)
  PROVE  w[name] = v[name]
<1>1. name \in DOMAIN w /\ NoBetterIn(name, w[name], v[name])
  BY DEF BothSound, AsksFor, NoBetterRecord
<1> QED
  BY <1>1 DEF NoBetterIn, Compared

\* Fewer packets, or slower ones.
LEMMA PingOrder ==
  ASSUME NEW m, NEW w, NEW v, BothAnswer(m, w, v), m.type = "ping"
  PROVE  NotBetter(m, Ping(m, w), Ping(m, v))
<1>1. /\ m.count \in Int /\ Toward(m) = "above" /\ Fields(m) = {"received", "rtt"}
  BY DEF BothAnswer, Monitors, Expects, Toward, Fields, TypeFields
<1>2. /\ w.received = v.received \/ (w.received \in Nat /\ v.received \in Nat /\ w.received <= v.received)
      /\ w.rtt = v.rtt \/ (w.rtt \in Int /\ v.rtt \in Int /\ w.rtt >= v.rtt)
  BY <1>1, FieldOrder DEF BothAnswer, Burdens, Reserves, Amounts
<1>3. NoCloser(m, w.rtt, v.rtt)
  BY <1>1, <1>2 DEF NoCloser
<1> DEFINE result(r) == IF r.received < m.count THEN "warn" ELSE "ok"
<1>4. result(w) \in Results /\ result(v) \in Results /\ Rank[result(w)] >= Rank[result(v)]
  BY <1>1, <1>2, Ranks DEF Results
<1>5. IsVerdict(Ping(m, v))
  BY <1>4, VerdictParts, PlainVerdicts DEF Ping
<1>6. CASE w.received = 0
  BY <1>5, <1>6, WorstOrSame DEF Ping
<1>7. CASE w.received # 0
  <2>1. v.received # 0
    BY <1>2, <1>7
  <2>2. Ping(m, w) = CheckResult(result(w), w.rtt) /\ Ping(m, v) = CheckResult(result(v), v.rtt)
    BY <1>7, <2>1 DEF Ping, BothAnswer
  <2> HIDE DEF result
  <2> QED
    BY <1>3, <1>4, <2>2, BothWorse
<1> QED
  BY <1>6, <1>7

\* Another banner, or a slower one.
LEMMA TcpOrder ==
  ASSUME NEW m, NEW w, NEW v, BothAnswer(m, w, v), m.type = "tcp"
  PROVE  NotBetter(m, Tcp(m, w), Tcp(m, v))
<1>1. Toward(m) = "above" /\ Fields(m) = {"banner", "ms"} /\ FineFor(m, "banner") = {"expected"}
  BY DEF Toward, Fields, TypeFields, FineFor
<1>2. /\ w.banner = v.banner \/ v.banner = "expected"
      /\ w.ms = v.ms \/ (w.ms \in Int /\ v.ms \in Int /\ w.ms >= v.ms)
  BY <1>1, FieldOrder DEF BothAnswer, Burdens
<1>3. NotBetter(m, Ok(w.ms), Ok(v.ms))
  BY <1>1, <1>2, BothOk DEF NoCloser
<1> QED
  BY <1>2, <1>3, PlainVerdicts, WorstOrSame DEF Tcp, BothAnswer

\* Another status or text, or a slower one.
LEMMA HttpOrder ==
  ASSUME NEW m, NEW w, NEW v, BothAnswer(m, w, v), m.type = "http"
  PROVE  NotBetter(m, Http(m, w), Http(m, v))
<1>1. /\ Toward(m) = "above" /\ Fields(m) = {"status", "text", "ms"} /\ "200" \in m.expect_status
      /\ FineFor(m, "status") = {"200"} /\ FineFor(m, "text") = {"expected"}
  BY DEF Toward, Fields, TypeFields, FineFor, BothAnswer, Monitors, Expects
<1>2. /\ w.status = v.status \/ v.status = "200"
      /\ w.text = v.text \/ v.text = "expected"
      /\ w.ms = v.ms \/ (w.ms \in Int /\ v.ms \in Int /\ w.ms >= v.ms)
  BY <1>1, FieldOrder DEF BothAnswer, Burdens
<1>3. NotBetter(m, Ok(w.ms), Ok(v.ms))
  BY <1>1, <1>2, BothOk DEF NoCloser
<1> QED
  BY <1>1, <1>2, <1>3, PlainVerdicts, WorstOrSame DEF Http, BothAnswer

\* Fewer addresses, or a slower answer.
LEMMA DnsOrder ==
  ASSUME NEW m, NEW w, NEW v, BothAnswer(m, w, v), m.type = "dns"
  PROVE  NotBetter(m, Dns(m, w), Dns(m, v))
<1>1. Toward(m) = "above" /\ Fields(m) = {"answers", "ms"}
  BY DEF Toward, Fields, TypeFields
<1>2. /\ w.answers \subseteq v.answers
      /\ w.ms = v.ms \/ (w.ms \in Int /\ v.ms \in Int /\ w.ms >= v.ms)
  BY <1>1, FieldOrder DEF BothAnswer, Burdens
<1>3. NotBetter(m, Ok(w.ms), Ok(v.ms))
  BY <1>1, <1>2, BothOk DEF NoCloser
<1>4. m.expect \subseteq w.answers => m.expect \subseteq v.answers
  BY <1>2
<1> QED
  BY <1>3, <1>4, PlainVerdicts, WorstOrSame DEF Dns, BothAnswer

\* A certificate that is not valid, or for fewer days.
LEMMA TlsCertOrder ==
  ASSUME NEW m, NEW w, NEW v, BothAnswer(m, w, v), m.type = "tls_cert"
  PROVE  NotBetter(m, TlsCert(m, w), TlsCert(m, v))
<1>1. Toward(m) = "below" /\ Fields(m) = {"valid", "days"}
  BY DEF Toward, Fields, TypeFields
<1>2. /\ w.valid \in BOOLEAN /\ v.valid \in BOOLEAN /\ (w.valid => v.valid)
      /\ w.days = v.days \/ (w.days \in Int /\ v.days \in Int /\ w.days <= v.days)
  BY <1>1, FieldOrder DEF BothAnswer, Assets, Reserves
<1>3. NoCloser(m, w.days, v.days)
  BY <1>1, <1>2 DEF NoCloser
<1> DEFINE result(r) == IF Expired(r.days) THEN "fail" ELSE "ok"
<1>4. result(w) \in Results /\ result(v) \in Results /\ Rank[result(w)] >= Rank[result(v)]
  BY <1>1, <1>2, Ranks DEF Results, Expired
<1>5. IsVerdict(TlsCert(m, v))
  BY <1>4, VerdictParts, PlainVerdicts DEF TlsCert
<1>6. CASE m.verify /\ ~ w.valid
  BY <1>5, <1>6, WorstOrSame DEF TlsCert
<1>7. CASE ~ (m.verify /\ ~ w.valid)
  <2>1. ~ (m.verify /\ ~ v.valid)
    BY <1>2, <1>7
  <2>2. TlsCert(m, w) = CheckResult(result(w), w.days) /\ TlsCert(m, v) = CheckResult(result(v), v.days)
    BY <1>7, <2>1 DEF TlsCert, BothAnswer
  <2> HIDE DEF result
  <2> QED
    BY <1>3, <1>4, <2>2, BothWorse
<1> QED
  BY <1>6, <1>7

\* Another text, or a larger number, for the message.
LEMMA MqttOrder ==
  ASSUME NEW m, NEW w, NEW v, BothAnswer(m, w, v), m.type = "mqtt"
  PROVE  NotBetter(m, Mqtt(m, w), Mqtt(m, v))
<1>1. Toward(m) = "above" /\ Fields(m) = {"message", "text", "number"} /\ FineFor(m, "text") = {"expected"}
  BY DEF Toward, Fields, TypeFields, FineFor
<1>2. /\ w.message = v.message
      /\ w.text = v.text \/ v.text = "expected"
      /\ w.number = v.number \/ (w.number \in Int /\ v.number \in Int /\ w.number >= v.number)
  BY <1>1, FieldOrder DEF BothAnswer, Burdens, Compared, Reserves, Assets, Troubles
<1>3. NotBetter(m, Ok(w.number), Ok(v.number)) /\ NotBetter(m, Ok(None), Ok(None))
  BY <1>1, <1>2, BothOk DEF NoCloser
<1>4. (w.number = None <=> v.number = None) /\ w # None /\ v # None
  BY <1>2 DEF BothAnswer
<1>5. IsVerdict(Mqtt(m, v))
  BY <1>4, PlainVerdicts DEF Mqtt
<1>6. CASE m.numeric
  BY <1>2, <1>3, <1>4, <1>5, <1>6, WorstOrSame DEF Mqtt
<1>7. CASE ~ m.numeric
  BY <1>2, <1>3, <1>4, <1>5, <1>7, WorstOrSame DEF Mqtt
<1> QED
  BY <1>6, <1>7

-----------------------------------------------------------------------------
(* Shares *)

\* The larger of two numbers has the larger quotient.
LEMMA DivOrder ==
  ASSUME NEW a \in Int, NEW b \in Int, NEW d \in Nat \ {0}, a <= b
  PROVE  a \div d \in Int /\ b \div d \in Int /\ a \div d <= b \div d
<1> DEFINE p == a \div d
           q == b \div d
<1>1. /\ p \in Int /\ d * p <= a /\ a < d * (p + 1)
      /\ q \in Int /\ d * q <= b /\ b < d * (q + 1)
  OBVIOUS
<1> HIDE DEF p, q
<1>2. p <= q
  <2>1. ASSUME p >= q + 1 PROVE FALSE
    <3>1. d * p >= d * (q + 1)
      BY <1>1, <2>1
    <3> QED
      BY <1>1, <3>1
  <2> QED
    BY <1>1, <2>1
<1> QED
  BY <1>1, <1>2 DEF p, q

\* The same share, or more of the same.
LEMMA PctOrder ==
  ASSUME None \notin Int, NEW a \in Int \union {None}, NEW b \in Int \union {None},
         NEW d \in Nat \union {None}, a = b \/ (a \in Int /\ b \in Int /\ a <= b)
  PROVE  /\ Pct(a, d) \in Int \union {None} /\ Pct(b, d) \in Int \union {None}
         /\ Pct(a, d) = Pct(b, d) \/ (Pct(a, d) \in Int /\ Pct(b, d) \in Int /\ Pct(a, d) <= Pct(b, d))
<1>1. CASE a = None \/ d = None \/ d = 0
  BY <1>1 DEF Pct
<1>2. CASE a # None /\ d # None /\ d # 0
  <2>1. a \in Int /\ b \in Int /\ a <= b /\ d \in Nat \ {0}
    BY <1>2
  <2>2. 100 * a \in Int /\ 100 * b \in Int /\ 100 * a <= 100 * b
    BY <2>1
  <2>3. /\ (100 * a) \div d \in Int /\ (100 * b) \div d \in Int
        /\ (100 * a) \div d <= (100 * b) \div d
    BY <2>1, <2>2, DivOrder
  <2>4. Pct(a, d) = (100 * a) \div d /\ Pct(b, d) = (100 * b) \div d
    BY <2>1 DEF Pct
  <2> QED
    BY <2>3, <2>4
<1> QED
  BY <1>1, <1>2

\* A value the message needs is not missing from the better reply alone.
LEMMA StatedOrder ==
  ASSUME NEW m, NEW x, NEW y, NoCloser(m, x, y), x = None \/ y # None
  PROVE  NotBetter(m, Stated(x), Stated(y))
BY BothOk, WorstOrSame, PlainVerdicts DEF Stated

-----------------------------------------------------------------------------
(* The largest and the smallest number of a set *)

\* The largest of some numbers is one of them, and no smaller than any.
LEMMA LargestOf ==
  ASSUME NEW S \in SUBSET Int, IsFiniteSet(S), S # {}
  PROVE  Max(S) \in S /\ \A y \in S : Max(S) >= y
<1> DEFINE Lacking == {T \in SUBSET S : T # {} /\ ~ \E x \in T : \A y \in T : x >= y}
<1>1. Lacking = {}
  <2> SUFFICES ASSUME Lacking # {} PROVE FALSE
    OBVIOUS
  <2>1. Lacking \subseteq FiniteSubsetsOf(S)
    BY FS_Subset DEF FiniteSubsetsOf
  <2>2. PICK T \in Lacking : \A U \in Lacking : ~ (<<U, T>> \in StrictSubsetOrdering(S))
    BY <2>1, FS_StrictSubsetOrderingWellFounded, WFMin
  <2>3. PICK z \in T : TRUE
    OBVIOUS
  <2> DEFINE U == T \ {z}
  <2>4. <<U, T>> \in StrictSubsetOrdering(S)
    BY <2>3 DEF StrictSubsetOrdering
  <2>5. U \notin Lacking
    BY <2>2, <2>4
  <2>6. CASE U = {}
    <3>1. \A y \in T : z >= y
      BY <2>3, <2>6
    <3> QED
      BY <2>3, <3>1
  <2>7. CASE U # {}
    <3>1. PICK x \in U : \A y \in U : x >= y
      BY <2>5, <2>7
    <3>2. x \in T /\ x \in Int /\ z \in Int /\ \A y \in T : y = z \/ (y \in U /\ y \in Int)
      BY <2>3
    <3>3. \A y \in T : IF x >= z THEN x >= y ELSE z >= y
      BY <3>1, <3>2
    <3> QED
      BY <2>3, <3>2, <3>3
  <2> QED
    BY <2>6, <2>7
<1>2. \E x \in S : \A y \in S : x >= y
  BY <1>1
<1> QED
  BY <1>2 DEF Max

\* The smallest of some numbers is one of them, and no larger than any.
LEMMA SmallestOf ==
  ASSUME NEW S \in SUBSET Int, IsFiniteSet(S), S # {}
  PROVE  Min(S) \in S /\ \A y \in S : Min(S) <= y
<1> DEFINE T == {0 - x : x \in S}
           f == [x \in S |-> 0 - x]
<1>1. f \in Surjection(S, T)
  BY DEF Surjection
<1>2. IsFiniteSet(T) /\ T \in SUBSET Int /\ T # {}
  <2>1. \A x \in S : 0 - x \in Int
    OBVIOUS
  <2>2. T \subseteq Int /\ T # {}
    BY <2>1
  <2> HIDE DEF T, f
  <2> QED
    BY <1>1, <2>2, FS_Surjection
<1>3. Max(T) \in T /\ \A y \in T : Max(T) >= y
  <2> HIDE DEF T
  <2> QED
    BY <1>2, LargestOf
<1>4. PICK x \in S : Max(T) = 0 - x
  BY <1>3
<1>5. \A y \in S : x <= y
  <2> SUFFICES ASSUME NEW y \in S PROVE x <= y
    OBVIOUS
  <2>1. 0 - y \in T
    OBVIOUS
  <2>2. 0 - x >= 0 - y /\ x \in Int /\ y \in Int
    BY <1>3, <1>4, <2>1
  <2> QED
    BY <2>2
<1> QED
  BY <1>5 DEF Min

\* So has every set of naturals.
LEMMA LeastOf ==
  ASSUME NEW S \in SUBSET Nat, S # {}
  PROVE  Min(S) \in S /\ \A y \in S : Min(S) <= y
<1> DEFINE R == OpToRel(<, Nat)
<1>1. IsWellFoundedOn(R, Nat)
  BY NatLessThanWellFounded DEF OpToRel
<1>2. \A x, y \in Nat : <<y, x>> \in R <=> y < x
  BY DEF OpToRel
<1> HIDE DEF R
<1>3. PICK x \in S : \A y \in S : ~ (<<y, x>> \in R)
  BY <1>1, WFMin
<1>4. \A y \in S : x <= y
  <2> SUFFICES ASSUME NEW y \in S PROVE x <= y
    OBVIOUS
  <2>1. x \in Nat /\ y \in Nat
    OBVIOUS
  <2>2. ~ (y < x)
    BY <1>2, <1>3, <2>1
  <2> QED
    BY <2>1, <2>2
<1> QED
  BY <1>4 DEF Min

\* The set of what the places of a list have is finite.
LEMMA ListIsFinite ==
  ASSUME NEW n \in Nat, NEW f, NEW S, S = {f[i] : i \in 1..n}
  PROVE  IsFiniteSet(S)
<1> DEFINE g == [i \in 1..n |-> f[i]]
<1>1. g \in Surjection(1..n, S)
  BY DEF Surjection
<1>2. IsFiniteSet(1..n)
  <2>1. 1 \in Int /\ n \in Int
    OBVIOUS
  <2> QED
    BY <2>1, FS_Interval
<1> QED
  BY <1>1, <1>2, FS_Surjection

-----------------------------------------------------------------------------
(* Totals *)

\* A set that has a number if it has all smaller ones has them all.
LEMMA UpTo ==
  ASSUME NEW n \in Nat, NEW S,
         \A i \in 0..n : (\A k \in 0..(i - 1) : k \in S) => i \in S
  PROVE  0..n \subseteq S
<1> DEFINE T == {i \in 0..n : i \notin S}
<1> SUFFICES ASSUME T # {} PROVE FALSE
  OBVIOUS
<1>1. Min(T) \in T /\ \A k \in T : Min(T) <= k
  <2>1. T \in SUBSET Nat
    OBVIOUS
  <2> HIDE DEF T
  <2> QED
    BY <2>1, LeastOf
<1>2. PICK i \in T : \A k \in T : i <= k
  BY <1>1
<1>3. \A k \in 0..(i - 1) : k \in S
  BY <1>2
<1> QED
  BY <1>2, <1>3

\* f sums the first n numbers of s one after the other.
SumsUp(f, s, n) ==
  f \in [0..n -> Int] /\ f[0] = 0 /\ \A i \in 1..n : f[i] = f[i - 1] + OrZero(s[i])

\* A number that is missing counts for nothing.
LEMMA OrZeroInt ==
  /\ \A x \in Int \union {None} : None \notin Int => OrZero(x) \in Int
  /\ None \notin Int => OrZero(None) = 0 /\ \A x \in Int : OrZero(x) = x
BY DEF OrZero

\* There are sums as far as the list goes.
LEMMA SumsExist ==
  ASSUME None \notin Int, NEW s \in Seq(Int \union {None})
  PROVE  \E f : SumsUp(f, s, Len(s))
<1> DEFINE N == Len(s)
           S == {n \in 0..N : \E f : SumsUp(f, s, n)}
<1>1. N \in Nat /\ \A i \in 1..N : OrZero(s[i]) \in Int
  BY LenProperties, ElementOfSeq, OrZeroInt
<1>2. ASSUME NEW n \in 0..N, \A k \in 0..(n - 1) : k \in S PROVE n \in S
  <2>1. CASE n = 0
    <3>1. SumsUp([i \in 0..0 |-> 0], s, 0)
      BY DEF SumsUp
    <3> QED
      BY <1>1, <2>1, <3>1
  <2>2. CASE n # 0
    <3>1. n - 1 \in S /\ n - 1 \in Nat /\ n \in 1..N /\ n \in Nat
      BY <1>1, <1>2, <2>2
    <3>2. PICK f : SumsUp(f, s, n - 1)
      BY <3>1
    <3> DEFINE g == [i \in 0..n |-> IF i = n THEN f[n - 1] + OrZero(s[n]) ELSE f[i]]
    <3>3. /\ f \in [0..(n - 1) -> Int] /\ f[0] = 0
          /\ \A i \in 1..(n - 1) : f[i] = f[i - 1] + OrZero(s[i])
      BY <3>2 DEF SumsUp
    <3>4. f[n - 1] + OrZero(s[n]) \in Int
      <4>1. f[n - 1] \in Int /\ OrZero(s[n]) \in Int
        BY <1>1, <3>1, <3>3
      <4> QED
        BY <4>1
    <3>5. g \in [0..n -> Int]
      BY <3>1, <3>3, <3>4
    <3>6. g[0] = 0
      BY <3>1, <3>3
    <3>7. ASSUME NEW i \in 1..n PROVE g[i] = g[i - 1] + OrZero(s[i])
      <4>1. i - 1 \in 0..n /\ i - 1 # n /\ i \in 0..n
        BY <3>1
      <4>2. CASE i = n
        BY <4>1, <4>2
      <4>3. CASE i # n
        BY <3>1, <3>3, <4>1, <4>3
      <4> QED
        BY <4>2, <4>3
    <3> HIDE DEF g
    <3>8. SumsUp(g, s, n)
      BY <3>5, <3>6, <3>7 DEF SumsUp
    <3> QED
      BY <3>8
  <2> QED
    BY <2>1, <2>2
<1>3. 0..N \subseteq S
  <2> HIDE DEF S, N
  <2> QED
    BY <1>1, <1>2, UpTo
<1> QED
  BY <1>1, <1>3

\* The total is the last of the sums.
LEMMA TotalIsSum ==
  ASSUME None \notin Int, NEW s \in Seq(Int \union {None})
  PROVE  \E f : SumsUp(f, s, Len(s)) /\ Total(s) = f[Len(s)]
<1> DEFINE N == Len(s)
           Whole(f) == f = [i \in 0..N |-> IF i = 0 THEN 0 ELSE f[i - 1] + OrZero(s[i])]
<1>1. N \in Nat /\ \A i \in 1..N : OrZero(s[i]) \in Int
  BY LenProperties, ElementOfSeq, OrZeroInt
<1>2. PICK f : SumsUp(f, s, N)
  BY SumsExist
<1>3. f = [i \in 0..N |-> IF i = 0 THEN 0 ELSE f[i - 1] + OrZero(s[i])]
  <2>1. \A i \in 0..N : i # 0 => i \in 1..N
    BY <1>1
  <2> QED
    BY <1>2, <2>1 DEF SumsUp
<1>4. Total(s) = (CHOOSE g : Whole(g))[N]
  BY DEF Total
<1> DEFINE g == CHOOSE h : Whole(h)
<1>5. Whole(g)
  <2>1. Whole(f)
    BY <1>3
  <2> HIDE DEF Whole
  <2> QED
    BY <2>1
<1> HIDE DEF g
<1>6. /\ g[0] = 0 /\ \A i \in 1..N : g[i] = g[i - 1] + OrZero(s[i])
      /\ g = [i \in 0..N |-> g[i]]
  BY <1>1, <1>5
<1> DEFINE S == {n \in 0..N : g[n] \in Int}
<1>7. ASSUME NEW n \in 0..N, \A k \in 0..(n - 1) : k \in S PROVE n \in S
  <2>1. CASE n = 0
    BY <1>6, <2>1
  <2>2. CASE n # 0
    <3>1. n - 1 \in S /\ n \in 1..N
      BY <1>1, <1>7, <2>2
    <3>2. g[n - 1] \in Int /\ OrZero(s[n]) \in Int /\ g[n] = g[n - 1] + OrZero(s[n])
      BY <1>1, <1>6, <3>1
    <3> QED
      BY <3>2
  <2> QED
    BY <2>1, <2>2
<1>8. 0..N \subseteq S
  <2> HIDE DEF S, N
  <2> QED
    BY <1>1, <1>7, UpTo
<1>9. SumsUp(g, s, N)
  BY <1>6, <1>8 DEF SumsUp
<1> QED
  BY <1>4, <1>9 DEF g

\* Numbers that are at least as large, each of them, have a total that is.
LEMMA TotalOrder ==
  ASSUME None \notin Int, NEW ws \in Seq(Int \union {None}), NEW vs \in Seq(Int \union {None}),
         EachAtLeast(ws, vs)
  PROVE  Total(ws) \in Int /\ Total(vs) \in Int /\ Total(vs) <= Total(ws)
<1>1. PICK f : SumsUp(f, ws, Len(ws)) /\ Total(ws) = f[Len(ws)]
  BY TotalIsSum
<1>2. PICK g : SumsUp(g, vs, Len(vs)) /\ Total(vs) = g[Len(vs)]
  BY TotalIsSum
<1> DEFINE N == Len(ws)
           S == {n \in 0..N : g[n] <= f[n]}
<1>3. /\ N \in Nat /\ Len(vs) = N /\ DOMAIN ws = 1..N
      /\ \A i \in 1..N : ws[i] \in Int \union {None} /\ vs[i] \in Int \union {None} /\ AtLeast(ws[i], vs[i])
  BY LenProperties, ElementOfSeq DEF EachAtLeast
<1>4. ASSUME NEW i \in 1..N PROVE OrZero(ws[i]) \in Int /\ OrZero(vs[i]) \in Int /\ OrZero(vs[i]) <= OrZero(ws[i])
  BY <1>3 DEF AtLeast, OrZero
<1>5. /\ f \in [0..N -> Int] /\ f[0] = 0 /\ \A i \in 1..N : f[i] = f[i - 1] + OrZero(ws[i])
      /\ g \in [0..N -> Int] /\ g[0] = 0 /\ \A i \in 1..N : g[i] = g[i - 1] + OrZero(vs[i])
  BY <1>1, <1>2, <1>3 DEF SumsUp
<1>6. ASSUME NEW n \in 0..N, \A k \in 0..(n - 1) : k \in S PROVE n \in S
  <2>1. CASE n = 0
    BY <1>5, <2>1
  <2>2. CASE n # 0
    <3>1. n - 1 \in S /\ n \in 1..N /\ n - 1 \in 0..N
      BY <1>3, <1>6, <2>2
    <3>2. /\ g[n - 1] \in Int /\ f[n - 1] \in Int /\ g[n - 1] <= f[n - 1]
          /\ f[n] = f[n - 1] + OrZero(ws[n]) /\ g[n] = g[n - 1] + OrZero(vs[n])
      BY <1>5, <3>1
    <3>3. OrZero(ws[n]) \in Int /\ OrZero(vs[n]) \in Int /\ OrZero(vs[n]) <= OrZero(ws[n])
      BY <1>4, <3>1
    <3>4. g[n] <= f[n]
      BY <3>2, <3>3
    <3> QED
      BY <3>4
  <2> QED
    BY <2>1, <2>2
<1>7. 0..N \subseteq S
  <2> HIDE DEF S, N
  <2> QED
    BY <1>3, <1>6, UpTo
<1>8. N \in 0..N
  BY <1>3
<1>9. g[N] <= f[N] /\ f[N] \in Int /\ g[N] \in Int
  BY <1>5, <1>7, <1>8
<1> QED
  BY <1>1, <1>2, <1>3, <1>9

-----------------------------------------------------------------------------
(* Agents *)

\* A core that is busier, or no core at all.
LEMMA SnmpCpuOrder ==
  ASSUME NEW m, NEW w, NEW v, BothAnswer(m, w, v), m.type = "snmp", m.mode = "cpu"
  PROVE  NotBetter(m, SnmpCpu(w), SnmpCpu(v))
<1>1. /\ Toward(m) = "above" /\ Fields(m) = {"loads"} /\ None \notin Int /\ w # None /\ v # None
  BY DEF Toward, Fields, TypeFields, ModeFields, BothAnswer
<1>2. /\ w.loads \in Seq(Int) /\ v.loads \in Seq(Int)
      /\ w.loads = <<>> \/ EachAtLeast(w.loads, v.loads)
  BY <1>1, NumbersOrder DEF BothAnswer
<1>3. IsVerdict(SnmpCpu(v))
  BY PlainVerdicts DEF SnmpCpu
<1>4. CASE w.loads = <<>>
  BY <1>3, <1>4, WorstOrSame DEF SnmpCpu
<1>5. CASE w.loads # <<>>
  <2> DEFINE n == Len(w.loads)
             a == Total(v.loads)
             b == Total(w.loads)
  <2>1. EachAtLeast(w.loads, v.loads) /\ n \in Nat \ {0} /\ Len(v.loads) = n /\ v.loads # <<>>
    BY <1>2, <1>5, EmptySeq, LenProperties DEF EachAtLeast
  <2>2. a \in Int /\ b \in Int /\ a <= b
    <3>1. Seq(Int) \subseteq Seq(Int \union {None})
      BY SeqDef
    <3> QED
      BY <1>1, <1>2, <2>1, <3>1, TotalOrder
  <2>3. SnmpCpu(w) = Ok(b \div n) /\ SnmpCpu(v) = Ok(a \div n)
    BY <1>1, <1>5, <2>1 DEF SnmpCpu
  <2>4. n \in Nat \ {0}
    BY <2>1
  <2> HIDE DEF a, b, n
  <2>5. NoCloser(m, b \div n, a \div n)
    BY <1>1, <2>2, <2>4, DivOrder DEF NoCloser
  <2> QED
    BY <2>3, <2>5, BothOk
<1> QED
  BY <1>4, <1>5

\* More of the same memory used, or none that is found.
LEMMA SnmpMemoryOrder ==
  ASSUME NEW m, NEW w, NEW v, BothAnswer(m, w, v), m.type = "snmp", m.mode = "memory"
  PROVE  NotBetter(m, SnmpMemory(w), SnmpMemory(v))
<1>1. /\ Toward(m) = "above" /\ Fields(m) = {"ram"} /\ None \notin Int /\ w # None /\ v # None
  BY DEF Toward, Fields, TypeFields, ModeFields, BothAnswer
<1>2. /\ w.ram \in Seq([size : Nat \union {None}, used : Int \union {None}])
      /\ v.ram \in Seq([size : Nat \union {None}, used : Int \union {None}])
      /\ w.ram = v.ram \/ NoLessUsed(w.ram, v.ram)
  BY <1>1, NumbersOrder DEF BothAnswer
<1>3. IsVerdict(SnmpMemory(v))
  BY PlainVerdicts DEF SnmpMemory
<1>4. CASE w.ram = <<>>
  BY <1>3, <1>4, WorstOrSame DEF SnmpMemory
<1>5. CASE w.ram = v.ram
  <2>1. SnmpMemory(w) = SnmpMemory(v)
    BY <1>1, <1>5 DEF SnmpMemory
  <2> QED
    BY <1>3, <2>1, WorstOrSame
<1>6. CASE w.ram # <<>> /\ NoLessUsed(w.ram, v.ram)
  <2> DEFINE size == w.ram[1].size
             b == OrZero(w.ram[1].used)
             a == OrZero(v.ram[1].used)
  <2>1. v.ram # <<>> /\ v.ram[1].size = size /\ b >= a
    BY <1>6 DEF NoLessUsed
  <2>2. /\ w.ram[1] \in [size : Nat \union {None}, used : Int \union {None}]
        /\ v.ram[1] \in [size : Nat \union {None}, used : Int \union {None}]
    <3>1. Len(w.ram) \in Nat \ {0} /\ Len(v.ram) \in Nat \ {0}
      BY <1>2, <1>6, <2>1, EmptySeq, LenProperties
    <3>2. 1 \in 1..Len(w.ram) /\ 1 \in 1..Len(v.ram)
      BY <3>1
    <3> QED
      BY <1>2, <3>2, ElementOfSeq
  <2>3. size \in Nat \union {None} /\ a \in Int /\ b \in Int
    BY <1>1, <2>2, OrZeroInt
  <2>4. /\ SnmpMemory(w) = IF OrZero(size) <= 0 THEN Fail ELSE Ok(Pct(b, size))
        /\ SnmpMemory(v) = IF OrZero(size) <= 0 THEN Fail ELSE Ok(Pct(a, size))
    BY <1>1, <1>6, <2>1 DEF SnmpMemory
  <2>5. a <= b
    BY <2>1, <2>3
  <2> HIDE DEF a, b, size
  <2>6. NoCloser(m, Pct(b, size), Pct(a, size))
    BY <1>1, <2>3, <2>5, PctOrder DEF NoCloser
  <2>7. NotBetter(m, Ok(Pct(b, size)), Ok(Pct(a, size)))
    BY <2>6, BothOk
  <2> QED
    BY <2>4, <2>7, WorstOrSame, PlainVerdicts
<1> QED
  BY <1>2, <1>4, <1>5, <1>6

\* Less idle in as much time, or a reading that is missing.
LEMMA LinuxCpuOrder ==
  ASSUME NEW m, NEW w, NEW v, BothAnswer(m, w, v), m.type = "linux", m.mode = "cpu"
  PROVE  NotBetter(m, LinuxCpu(w), LinuxCpu(v))
<1>1. /\ Toward(m) = "above" /\ Fields(m) = {"samples"} /\ None \notin Int /\ w # None /\ v # None
  BY DEF Toward, Fields, TypeFields, ModeFields, BothAnswer
<1>2. /\ w.samples \in Seq([total : Int, idle : Int])
      /\ v.samples \in Seq([total : Int, idle : Int])
      /\ w.samples = v.samples \/ NoMoreIdle(w.samples, v.samples)
  BY <1>1, NumbersOrder DEF BothAnswer
<1>3. IsVerdict(LinuxCpu(v))
  BY PlainVerdicts DEF LinuxCpu
<1>4. CASE Len(w.samples) # 2
  BY <1>3, <1>4, WorstOrSame DEF LinuxCpu
<1>5. CASE w.samples = v.samples
  <2>1. LinuxCpu(w) = LinuxCpu(v)
    BY <1>1, <1>5 DEF LinuxCpu
  <2> QED
    BY <1>3, <2>1, WorstOrSame
<1>6. CASE Len(w.samples) = 2 /\ NoMoreIdle(w.samples, v.samples)
  <2> DEFINE total(r) == r.samples[2].total - r.samples[1].total
             idle(r)  == r.samples[2].idle - r.samples[1].idle
  <2>1. Len(v.samples) = 2 /\ total(w) = total(v) /\ idle(w) <= idle(v)
    BY <1>6 DEF NoMoreIdle
  <2>2. \A i \in 1..2 : /\ w.samples[i] \in [total : Int, idle : Int]
                        /\ v.samples[i] \in [total : Int, idle : Int]
    BY <1>2, <1>6, <2>1, ElementOfSeq
  <2>3. w.samples[1].total \in Int /\ w.samples[2].total \in Int /\ w.samples[1].idle \in Int
        /\ w.samples[2].idle \in Int /\ v.samples[1].idle \in Int /\ v.samples[2].idle \in Int
    BY <2>2
  <2> DEFINE d == total(w)
             x == 100 * idle(w)
             y == 100 * idle(v)
  <2>4. d \in Int /\ x \in Int /\ y \in Int /\ x <= y
    BY <2>1, <2>3
  <2>5. /\ LinuxCpu(w) = IF d <= 0 THEN Fail ELSE Ok(100 - x \div d)
        /\ LinuxCpu(v) = IF d <= 0 THEN Fail ELSE Ok(100 - y \div d)
    BY <1>1, <1>6, <2>1 DEF LinuxCpu
  <2> HIDE DEF d, x, y
  <2>6. CASE d <= 0
    BY <2>5, <2>6, WorstOrSame, PlainVerdicts
  <2>7. CASE ~ (d <= 0)
    <3>1. x \div d \in Int /\ y \div d \in Int /\ x \div d <= y \div d
      <4>1. d \in Nat \ {0}
        BY <2>4, <2>7
      <4> QED
        BY <2>4, <4>1, DivOrder
    <3>2. NoCloser(m, 100 - x \div d, 100 - y \div d)
      BY <1>1, <3>1 DEF NoCloser
    <3>3. NotBetter(m, Ok(100 - x \div d), Ok(100 - y \div d))
      BY <3>2, BothOk
    <3> QED
      BY <2>5, <2>7, <3>3
  <2> QED
    BY <2>6, <2>7
<1> QED
  BY <1>2, <1>4, <1>5, <1>6

\* The numbers at some places of a list, and the largest and the smallest of them.
LEMMA NumbersAt ==
  ASSUME None \notin Int, NEW s \in Seq(Int \union {None}),
         NEW P, P = {i \in DOMAIN s : s[i] # None}, P # {}
  PROVE  LET numbers == {s[i] : i \in P}
         IN  /\ Max(numbers) \in Int /\ \A i \in P : s[i] \in Int /\ Max(numbers) >= s[i]
             /\ Min(numbers) \in Int /\ \A i \in P : Min(numbers) <= s[i]
             /\ \E i \in P : Max(numbers) = s[i]
             /\ \E i \in P : Min(numbers) = s[i]
             /\ Cardinality(P) \in Nat \ {0}
             /\ Min(P) \in P
<1> DEFINE numbers == {s[i] : i \in P}
           f == [i \in P |-> s[i]]
<1>1. /\ Len(s) \in Nat /\ DOMAIN s = 1..Len(s)
      /\ \A i \in 1..Len(s) : s[i] \in Int \union {None}
  BY LenProperties, ElementOfSeq
<1>2. IsFiniteSet(P)
  <2>1. 1 \in Int /\ Len(s) \in Int
    BY <1>1
  <2>2. IsFiniteSet(1..Len(s)) /\ P \subseteq 1..Len(s)
    BY <1>1, <2>1, FS_Interval
  <2> QED
    BY <2>2, FS_Subset
<1>3. Cardinality(P) \in Nat \ {0}
  BY <1>2, FS_CardinalityType, FS_EmptySet
<1>4. Min(P) \in P
  <2>1. P \in SUBSET Nat
    BY <1>1
  <2> QED
    BY <2>1, LeastOf
<1>5. \A i \in P : s[i] \in Int /\ s[i] \in numbers
  BY <1>1
<1>6. IsFiniteSet(numbers)
  <2>1. f \in Surjection(P, numbers)
    BY DEF Surjection
  <2> HIDE DEF f, numbers
  <2> QED
    BY <1>2, <2>1, FS_Surjection
<1>7. numbers \subseteq Int /\ numbers # {} /\ \A x \in numbers : \E i \in P : x = s[i]
  BY <1>5
<1>8. /\ Max(numbers) \in numbers /\ \A y \in numbers : Max(numbers) >= y
      /\ Min(numbers) \in numbers /\ \A y \in numbers : Min(numbers) <= y
  <2> HIDE DEF numbers
  <2> QED
    BY <1>6, <1>7, LargestOf, SmallestOf
<1> QED
  BY <1>3, <1>4, <1>5, <1>7, <1>8

\* A larger number in a row.
LEMMA WmiOrder ==
  ASSUME NEW m, NEW w, NEW v, BothAnswer(m, w, v), m.type = "wmi"
  PROVE  NotBetter(m, Wmi(m, w), Wmi(m, v))
<1> DEFINE P == {i \in DOMAIN w.rows : w.rows[i] # None}
           result == IF P # DOMAIN w.rows THEN "warn" ELSE "ok"
           value(s) == CASE m.aggregate = "first" -> s[Min(P)]
                         [] m.aggregate = "sum" -> Total(s)
                         [] m.aggregate = "avg" -> Total(s) \div Cardinality(P)
                         [] m.aggregate = "max" -> Max({s[i] : i \in P})
                         [] m.aggregate = "min" -> Min({s[i] : i \in P})
<1>1. /\ Toward(m) = "above" /\ Fields(m) = {"rows"} /\ None \notin Int /\ w # None /\ v # None
      /\ m.aggregate \in {"first", "sum", "avg", "max", "min", "count"}
  BY DEF Toward, Fields, TypeFields, BothAnswer, Monitors, Expects
<1>2. /\ w.rows \in Seq(Int \union {None}) /\ v.rows \in Seq(Int \union {None})
      /\ EachAtLeast(w.rows, v.rows)
  BY <1>1, NumbersOrder DEF BothAnswer
<1>3. /\ Len(w.rows) = Len(v.rows) /\ DOMAIN v.rows = DOMAIN w.rows
      /\ \A i \in DOMAIN w.rows : AtLeast(w.rows[i], v.rows[i])
  BY <1>2, LenProperties DEF EachAtLeast
<1>4. P = {i \in DOMAIN v.rows : v.rows[i] # None}
  BY <1>3 DEF AtLeast
<1>5. CASE m.aggregate = "count"
  <2>1. Wmi(m, w) = Ok(Len(w.rows)) /\ Wmi(m, v) = Ok(Len(w.rows))
    BY <1>1, <1>3, <1>5 DEF Wmi
  <2> QED
    BY <2>1, WorstOrSame, PlainVerdicts
<1>6. CASE m.aggregate # "count" /\ P = {}
  <2>1. Wmi(m, w) = Fail
    BY <1>1, <1>6 DEF Wmi
  <2>2. Wmi(m, v) = Fail
    BY <1>1, <1>4, <1>6 DEF Wmi
  <2> QED
    BY <2>1, <2>2, WorstOrSame, PlainVerdicts
<1>7. CASE m.aggregate # "count" /\ P # {}
  <2>1. Wmi(m, w) = CheckResult(result, value(w.rows))
    BY <1>1, <1>7 DEF Wmi
  <2>2. Wmi(m, v) = CheckResult(result, value(v.rows))
    <3>1. \A Q : Q = {i \in DOMAIN v.rows : v.rows[i] # None} /\ Q # {} =>
             Wmi(m, v) = CheckResult(IF Q # DOMAIN v.rows THEN "warn" ELSE "ok",
                           CASE m.aggregate = "first" -> v.rows[Min(Q)]
                             [] m.aggregate = "sum" -> Total(v.rows)
                             [] m.aggregate = "avg" -> Total(v.rows) \div Cardinality(Q)
                             [] m.aggregate = "max" -> Max({v.rows[i] : i \in Q})
                             [] m.aggregate = "min" -> Min({v.rows[i] : i \in Q}))
      BY <1>1, <1>7 DEF Wmi
    <3> HIDE DEF P
    <3> QED
      BY <1>3, <1>4, <1>7, <3>1
  <2>3. result \in Results
    BY DEF Results
  <2> DEFINE Wnums == {w.rows[i] : i \in P}
             Vnums == {v.rows[i] : i \in P}
  <2>4. /\ Max(Wnums) \in Int /\ \A i \in P : w.rows[i] \in Int /\ Max(Wnums) >= w.rows[i]
        /\ Min(Wnums) \in Int /\ \A i \in P : Min(Wnums) <= w.rows[i]
        /\ \E i \in P : Min(Wnums) = w.rows[i]
        /\ Cardinality(P) \in Nat \ {0} /\ Min(P) \in P
    BY <1>1, <1>2, <1>7, NumbersAt
  <2>5. /\ Max(Vnums) \in Int /\ \A i \in P : v.rows[i] \in Int /\ Max(Vnums) >= v.rows[i]
        /\ Min(Vnums) \in Int /\ \A i \in P : Min(Vnums) <= v.rows[i]
        /\ \E i \in P : Max(Vnums) = v.rows[i]
    <3> HIDE DEF P
    <3> QED
      BY <1>1, <1>2, <1>4, <1>7, NumbersAt
  <2>6. \A i \in P : w.rows[i] >= v.rows[i]
    BY <1>3, <2>4, <2>5 DEF AtLeast
  <2>7. Total(w.rows) \in Int /\ Total(v.rows) \in Int /\ Total(v.rows) <= Total(w.rows)
    BY <1>1, <1>2, TotalOrder
  <2> HIDE DEF P, Wnums, Vnums, result
  <2>8. CASE m.aggregate = "first"
    <3>1. value(w.rows) = w.rows[Min(P)] /\ value(v.rows) = v.rows[Min(P)]
      BY <2>8
    <3>2. NoCloser(m, w.rows[Min(P)], v.rows[Min(P)])
      BY <1>1, <2>4, <2>5, <2>6 DEF NoCloser
    <3> HIDE DEF value
    <3> QED
      BY <2>1, <2>2, <2>3, <3>1, <3>2, BothWorse, Ranks
  <2>9. CASE m.aggregate = "sum"
    <3>1. value(w.rows) = Total(w.rows) /\ value(v.rows) = Total(v.rows)
      BY <2>9
    <3>2. NoCloser(m, Total(w.rows), Total(v.rows))
      BY <1>1, <2>7 DEF NoCloser
    <3> HIDE DEF value
    <3> QED
      BY <2>1, <2>2, <2>3, <3>1, <3>2, BothWorse, Ranks
  <2>10. CASE m.aggregate = "avg"
    <3>1. value(w.rows) = Total(w.rows) \div Cardinality(P) /\ value(v.rows) = Total(v.rows) \div Cardinality(P)
      BY <2>10
    <3>2. NoCloser(m, Total(w.rows) \div Cardinality(P), Total(v.rows) \div Cardinality(P))
      BY <1>1, <2>4, <2>7, DivOrder DEF NoCloser
    <3> HIDE DEF value
    <3> QED
      BY <2>1, <2>2, <2>3, <3>1, <3>2, BothWorse, Ranks
  <2>11. CASE m.aggregate = "max"
    <3>1. value(w.rows) = Max(Wnums) /\ value(v.rows) = Max(Vnums)
      BY <2>11 DEF Wnums, Vnums
    <3>2. PICK i \in P : Max(Vnums) = v.rows[i]
      BY <2>5
    <3>3. Max(Wnums) >= w.rows[i] /\ w.rows[i] >= v.rows[i] /\ w.rows[i] \in Int /\ v.rows[i] \in Int
      BY <2>4, <2>5, <2>6
    <3>4. NoCloser(m, Max(Wnums), Max(Vnums))
      BY <1>1, <2>4, <2>5, <3>2, <3>3 DEF NoCloser
    <3> HIDE DEF value
    <3> QED
      BY <2>1, <2>2, <2>3, <3>1, <3>4, BothWorse, Ranks
  <2>12. CASE m.aggregate = "min"
    <3>1. value(w.rows) = Min(Wnums) /\ value(v.rows) = Min(Vnums)
      BY <2>12 DEF Wnums, Vnums
    <3>2. PICK i \in P : Min(Wnums) = w.rows[i]
      BY <2>4
    <3>3. Min(Vnums) <= v.rows[i] /\ w.rows[i] >= v.rows[i] /\ w.rows[i] \in Int /\ v.rows[i] \in Int
      BY <2>4, <2>5, <2>6
    <3>4. NoCloser(m, Min(Wnums), Min(Vnums))
      BY <1>1, <2>4, <2>5, <3>2, <3>3 DEF NoCloser
    <3> HIDE DEF value
    <3> QED
      BY <2>1, <2>2, <2>3, <3>1, <3>4, BothWorse, Ranks
  <2> QED
    BY <1>1, <1>7, <2>8, <2>9, <2>10, <2>11, <2>12
<1> QED
  BY <1>5, <1>6, <1>7

\* A larger number at the OID.
LEMMA OidOrder ==
  ASSUME NEW m, NEW w, NEW v, BothAnswer(m, w, v), m.type = "snmp", m.mode = "oid"
  PROVE  NotBetter(m, Oid(w), Oid(v))
<1>1. Toward(m) = "above" /\ Fields(m) = {"raw", "number"}
  BY DEF Toward, Fields, TypeFields, ModeFields
<1>2. /\ w.raw = v.raw
      /\ w.number = v.number \/ (w.number \in Int /\ v.number \in Int /\ w.number >= v.number)
  BY <1>1, FieldOrder DEF BothAnswer, Burdens, Compared, Reserves, Assets, Troubles
<1>3. NotBetter(m, Ok(w.number), Ok(v.number))
  BY <1>1, <1>2, BothOk DEF NoCloser
<1> QED
  BY <1>2, <1>3, PlainVerdicts, WorstOrSame DEF Oid, BothAnswer

\* Less memory available of the same total.
LEMMA LinuxMemoryOrder ==
  ASSUME NEW m, NEW w, NEW v, BothAnswer(m, w, v), m.type = "linux", m.mode = "memory"
  PROVE  NotBetter(m, LinuxMemory(w), LinuxMemory(v))
<1>1. Toward(m) = "above" /\ Fields(m) = {"total", "available"} /\ None \notin Int
  BY DEF Toward, Fields, TypeFields, ModeFields, BothAnswer
<1>2. /\ w.total = v.total /\ v.total \in Nat \union {None}
      /\ {w.available, v.available} \subseteq Int \union {None}
      /\ w.available = v.available \/ (w.available \in Int /\ v.available \in Int /\ w.available <= v.available)
  BY <1>1, FieldOrder DEF BothAnswer, Burdens, Compared, Reserves, Assets, Troubles, Amounts
<1>3. CASE v.total = None \/ v.available = None
  BY <1>1, <1>2, <1>3, PlainVerdicts, WorstOrSame DEF LinuxMemory, BothAnswer
<1>4. CASE v.total # None /\ v.available # None
  <2> DEFINE uw == v.total - w.available
             uv == v.total - v.available
  <2>1. uv \in Int /\ uw \in Int /\ uv <= uw /\ w.available # None
    BY <1>1, <1>2, <1>4
  <2>2. LinuxMemory(w) = Stated(Pct(uw, v.total)) /\ LinuxMemory(v) = Stated(Pct(uv, v.total))
    BY <1>2, <1>4, <2>1 DEF LinuxMemory, BothAnswer
  <2> HIDE DEF uw, uv
  <2>5. v.total \in Nat \union {None}
    BY <1>2
  <2>3. /\ Pct(uv, v.total) \in Int \union {None} /\ Pct(uw, v.total) \in Int \union {None}
        /\ \/ Pct(uv, v.total) = Pct(uw, v.total)
           \/ /\ Pct(uv, v.total) \in Int /\ Pct(uw, v.total) \in Int
              /\ Pct(uv, v.total) <= Pct(uw, v.total)
    BY <1>1, <2>1, <2>5, PctOrder
  <2>4. NoCloser(m, Pct(uw, v.total), Pct(uv, v.total))
    BY <1>1, <2>3 DEF NoCloser
  <2> QED
    BY <1>1, <2>2, <2>3, <2>4, StatedOrder
<1> QED
  BY <1>3, <1>4

\* More of the disk used.
LEMMA DiskOrder ==
  ASSUME NEW m, NEW w, NEW v, BothAnswer(m, w, v), m.type = "linux", m.mode = "disk"
  PROVE  NotBetter(m, Disk(m, w), Disk(m, v))
<1>1. Toward(m) = "above" /\ Fields(m) = {"mount", "used"}
  BY DEF Toward, Fields, TypeFields, ModeFields
<1>2. /\ w.mount = v.mount
      /\ w.used = v.used \/ (w.used \in Int /\ v.used \in Int /\ w.used >= v.used)
  BY <1>1, FieldOrder DEF BothAnswer, Burdens, Compared, Reserves, Assets, Troubles
<1>3. NotBetter(m, Ok(w.used), Ok(v.used))
  BY <1>1, <1>2, BothOk DEF NoCloser
<1> QED
  BY <1>2, <1>3, PlainVerdicts, WorstOrSame DEF Disk, BothAnswer

\* More load on the same number of cores.
LEMMA LoadOrder ==
  ASSUME NEW m, NEW w, NEW v, BothAnswer(m, w, v), m.type = "linux", m.mode = "load"
  PROVE  NotBetter(m, Load(w), Load(v))
<1>1. Toward(m) = "above" /\ Fields(m) = {"load", "cores"} /\ None \notin Int
  BY DEF Toward, Fields, TypeFields, ModeFields, BothAnswer
<1>2. /\ w.cores = v.cores /\ v.cores \in Nat \union {None}
      /\ w.load = v.load \/ (w.load \in Int /\ v.load \in Int /\ w.load >= v.load)
  BY <1>1, FieldOrder DEF BothAnswer, Burdens, Compared, Reserves, Assets, Troubles, Amounts
<1> DEFINE d == Max({v.cores, 1})
<1>3. d \in Nat \ {0}
  <2>1. FieldSound(m, "cores", v.cores)
    BY <1>1 DEF BothAnswer, AsksFor
  <2>2. v.cores \in Nat
    BY <1>2, <2>1 DEF FieldSound
  <2> QED
    BY <2>2 DEF Max
<1>4. Load(w) = Ok((100 * w.load) \div d) /\ Load(v) = Ok((100 * v.load) \div d)
  BY <1>2 DEF Load, BothAnswer
<1> HIDE DEF d
<1>5. CASE w.load = v.load
  BY <1>4, <1>5, PlainVerdicts, WorstOrSame
<1>6. CASE w.load \in Int /\ v.load \in Int /\ w.load >= v.load
  <2>1. 100 * w.load \in Int /\ 100 * v.load \in Int /\ 100 * v.load <= 100 * w.load
    BY <1>6
  <2>2. /\ (100 * w.load) \div d \in Int /\ (100 * v.load) \div d \in Int
        /\ (100 * v.load) \div d <= (100 * w.load) \div d
    BY <1>3, <2>1, DivOrder
  <2>3. NoCloser(m, (100 * w.load) \div d, (100 * v.load) \div d)
    BY <1>1, <2>2 DEF NoCloser
  <2> QED
    BY <1>4, <2>3, BothOk
<1> QED
  BY <1>2, <1>5, <1>6

\* A service that does not run.
LEMMA ServiceOrder ==
  ASSUME NEW m, NEW w, NEW v, BothAnswer(m, w, v), m.type \in {"linux", "winrm"}, m.mode = "service"
  PROVE  NotBetter(m, Service(w), Service(v))
<1>1. Fields(m) = {"status"} /\ FineFor(m, "status") = {"running"}
  BY DEF Fields, TypeFields, ModeFields, FineFor
<1>2. w.status = v.status \/ v.status = "running"
  BY <1>1, FieldOrder DEF BothAnswer
<1> QED
  BY <1>2, PlainVerdicts, WorstOrSame DEF Service, BothAnswer

\* A larger number in the output.
LEMMA CommandOrder ==
  ASSUME NEW m, NEW w, NEW v, BothAnswer(m, w, v), m.type \in {"linux", "winrm"}, m.mode = "command"
  PROVE  NotBetter(m, Command(w), Command(v))
<1>1. Toward(m) = "above" /\ Fields(m) = {"number"} /\ None \notin Int
  BY DEF Toward, Fields, TypeFields, ModeFields, BothAnswer
<1>2. w.number = v.number \/ (w.number \in Int /\ v.number \in Int /\ w.number >= v.number)
  BY <1>1, FieldOrder DEF BothAnswer, Burdens
<1>3. NotBetter(m, Ok(w.number), Ok(v.number))
  BY <1>1, <1>2, BothOk DEF NoCloser
<1> QED
  BY <1>1, <1>2, <1>3, PlainVerdicts, WorstOrSame DEF Command, BothAnswer

-----------------------------------------------------------------------------
(* Numbers of things that are wrong *)

\* More things that are wrong are no better.
LEMMA CountedOrder ==
  ASSUME NEW m, NEW th, NEW n \in Nat, NEW k \in Nat, NEW bad \in Results,
         n >= k, Toward(m) = "above"
  PROVE  NotBetter(m, Counted(th, n, bad), Counted(th, k, bad))
<1> DEFINE result(i) == IF i > 0 /\ th = None THEN bad ELSE "ok"
<1>1. result(n) \in Results /\ result(k) \in Results /\ Rank[result(n)] >= Rank[result(k)]
  BY Ranks DEF Results
<1>2. NoCloser(m, n, k)
  BY DEF NoCloser
<1>3. Counted(th, n, bad) = CheckResult(result(n), n) /\ Counted(th, k, bad) = CheckResult(result(k), k)
  BY DEF Counted
<1> HIDE DEF result
<1> QED
  BY <1>1, <1>2, <1>3, BothWorse

\* More of the same are more.
LEMMA MoreAreMore ==
  ASSUME NEW S, NEW T, IsFiniteSet(T), S \subseteq T
  PROVE  Cardinality(S) \in Nat /\ Cardinality(T) \in Nat /\ Cardinality(T) >= Cardinality(S)
BY FS_Subset, FS_CardinalityType

\* More containers, or a daemon that is gone.
LEMMA SummaryOrder ==
  ASSUME NEW m, NEW w, NEW v, BothAnswer(m, w, v), m.type = "docker", IsFiniteSet(w.containers)
  PROVE  NotBetter(m, Summary(m, w), Summary(m, v))
<1>1. Toward(m) = "above" /\ Fields(m) = {"gone", "containers"}
  BY DEF Toward, Fields, TypeFields
<1>2. /\ w.gone \in BOOLEAN /\ v.gone \in BOOLEAN /\ (v.gone => w.gone)
      /\ v.containers \subseteq w.containers
  BY <1>1, FieldOrder DEF BothAnswer, Troubles
<1> DEFINE troubled(r) == {c \in r.containers : Troubled(c)}
<1>3. /\ Cardinality(troubled(v)) \in Nat /\ Cardinality(troubled(w)) \in Nat
      /\ Cardinality(troubled(w)) >= Cardinality(troubled(v))
  <2>1. IsFiniteSet(troubled(w))
    BY FS_Subset
  <2>2. troubled(v) \subseteq troubled(w)
    BY <1>2
  <2> HIDE DEF troubled
  <2> QED
    BY <2>1, <2>2, MoreAreMore
<1>4. NotBetter(m, Counted(m.th, Cardinality(troubled(w)), "fail"), Counted(m.th, Cardinality(troubled(v)), "fail"))
  <2>1. "fail" \in Results
    BY DEF Results
  <2> HIDE DEF troubled
  <2> QED
    BY <1>1, <1>3, <2>1, CountedOrder
<1>5. w # None /\ v # None
  BY DEF BothAnswer
<1>6. CASE w.gone
  <2>1. IsVerdict(Summary(m, v))
    BY <1>4, PlainVerdicts DEF Summary, NotBetter
  <2> QED
    BY <1>5, <1>6, <2>1, WorstOrSame DEF Summary
<1>7. CASE ~ w.gone
  BY <1>2, <1>4, <1>5, <1>7 DEF Summary
<1> QED
  BY <1>2, <1>6, <1>7

\* An error, an update, or more queries that fail.
LEMMA TechnitiumOrder ==
  ASSUME NEW m, NEW w, NEW v, BothAnswer(m, w, v), m.type = "technitium"
  PROVE  NotBetter(m, Technitium(m, w), Technitium(m, v))
<1>1. Toward(m) = "above" /\ FineFor(m, "status") = {"ok"} /\ None \notin Int /\ w # None /\ v # None
  BY DEF Toward, FineFor, BothAnswer
<1>2. m.mode \in {"update", "stats"}
  BY DEF BothAnswer, Monitors, Known
<1>3. "status" \in Fields(m)
  BY <1>2 DEF Fields, TypeFields, ModeFields
<1>4. w.status = v.status \/ v.status = "ok"
  BY <1>1, <1>3, FieldOrder DEF BothAnswer
<1>5. CASE m.mode = "update"
  <2>1. "update" \in Fields(m)
    BY <1>5 DEF Fields, TypeFields, ModeFields
  <2>2. w.update \in BOOLEAN /\ v.update \in BOOLEAN /\ (v.update => w.update)
    BY <2>1, FieldOrder DEF BothAnswer, Troubles
  <2> DEFINE n(r) == IF r.update THEN 1 ELSE 0
  <2>3. n(w) \in Nat /\ n(v) \in Nat /\ n(w) >= n(v) /\ "warn" \in Results
    BY <2>2 DEF Results
  <2>4. /\ Technitium(m, w) = IF w.status # "ok" THEN Fail ELSE Counted(m.th, n(w), "warn")
        /\ Technitium(m, v) = IF v.status # "ok" THEN Fail ELSE Counted(m.th, n(v), "warn")
    BY <1>1, <1>5 DEF Technitium
  <2> HIDE DEF n
  <2>5. NotBetter(m, Counted(m.th, n(w), "warn"), Counted(m.th, n(v), "warn"))
    BY <1>1, <2>3, CountedOrder
  <2> QED
    BY <1>4, <2>4, <2>5, PlainVerdicts, WorstOrSame DEF NotBetter
<1>6. CASE m.mode = "stats"
  <2>1. Fields(m) = {"status", "queries", "failures"}
    BY <1>6 DEF Fields, TypeFields, ModeFields
  <2>2. /\ w.queries = v.queries /\ v.queries \in Nat \union {None}
        /\ w.failures \in Int \union {None} /\ v.failures \in Int \union {None}
        /\ w.failures = v.failures \/ (w.failures \in Int /\ v.failures \in Int /\ w.failures >= v.failures)
    BY <2>1, FieldOrder DEF BothAnswer, Burdens, Compared, Reserves, Assets, Troubles, Amounts
  <2> DEFINE a == OrZero(v.failures)
             b == OrZero(w.failures)
             d == OrZero(v.queries)
             x == OrZero(Pct(b, d))
             y == OrZero(Pct(a, d))
  <2>3. /\ a \in Int \union {None} /\ b \in Int \union {None} /\ d \in Nat \union {None}
        /\ a = b \/ (a \in Int /\ b \in Int /\ a <= b)
    BY <1>1, <2>2 DEF OrZero
  <2>4. /\ Technitium(m, w) = IF w.status # "ok" THEN Fail ELSE Ok(x)
        /\ Technitium(m, v) = IF v.status # "ok" THEN Fail ELSE Ok(y)
    BY <1>1, <1>6, <2>2 DEF Technitium
  <2> HIDE DEF a, b, d
  <2>5. NoCloser(m, x, y)
    BY <1>1, <2>3, PctOrder DEF OrZero, NoCloser
  <2> HIDE DEF x, y
  <2>6. NotBetter(m, Ok(x), Ok(y))
    BY <2>5, BothOk
  <2> QED
    BY <1>4, <2>4, <2>6, PlainVerdicts, WorstOrSame DEF NotBetter
<1> QED
  BY <1>2, <1>5, <1>6

-----------------------------------------------------------------------------
(* Home Assistant, and the alerts of TrueNAS: of each, more is worse *)

\* An entity that is unknown or whose number is larger; more entities that are
\* unavailable; more updates.
LEMMA HomeAssistantOrder ==
  ASSUME NEW m, NEW w, NEW v, None \notin Int, Monitors(m), m.type = "homeassistant",
         ReplySound(m, w), ReplySound(m, v), w # None, NoBetter(m, w, v)
  PROVE  NotBetter(m, HomeAssistant(m, w), HomeAssistant(m, v))
<1>1. Toward(m) = "above" /\ v # None /\ m.mode \in {"api", "entity", "updates", "unavailable"}
  BY DEF Toward, NoBetter, Monitors, Known
<1>2. CASE m.mode = "api"
  <2>1. AsksFor(m, w) /\ AsksFor(m, v) /\ NoBetterRecord(m, w, v) /\ Fields(m) = {"running"}
    BY <1>1, <1>2 DEF NoBetter, ReplySound, OfSets, OfLists, OfAll, OfOne, Fields, TypeFields, ModeFields
  <2>2. BothSound(m, w, v)
    BY <1>1, <2>1 DEF BothSound
  <2>3. w.running = v.running
    BY <1>2, <2>1, <2>2, SameField DEF Compared, Burdens, Reserves, Assets, Troubles, Required
  <2> QED
    BY <1>1, <1>2, <2>3, PlainVerdicts, WorstOrSame DEF HomeAssistant
<1>3. CASE m.mode = "unavailable"
  <2>1. v \subseteq w /\ IsFiniteSet(w)
    BY <1>1, <1>3 DEF NoBetter, ReplySound, OfSets, OfLists, OfAll, OfOne
  <2>2. IsFiniteSet(Unavailable(m, w)) /\ Unavailable(m, v) \subseteq Unavailable(m, w)
    BY <2>1, FS_Subset DEF Unavailable
  <2>3. "ok" \in Results
    BY DEF Results
  <2>4. NotBetter(m, Counted(m.th, Cardinality(Unavailable(m, w)), "ok"),
                     Counted(m.th, Cardinality(Unavailable(m, v)), "ok"))
    BY <1>1, <2>2, <2>3, MoreAreMore, CountedOrder
  <2> QED
    BY <1>1, <1>3, <2>4 DEF HomeAssistant
<1>4. CASE m.mode = "updates"
  <2> DEFINE due(r) == {s \in r : s.domain = "update" /\ s.state = "on"}
  <2>1. v \subseteq w /\ IsFiniteSet(w)
    BY <1>1, <1>4 DEF NoBetter, ReplySound, OfSets, OfLists, OfAll, OfOne
  <2>2. IsFiniteSet(due(w)) /\ due(v) \subseteq due(w) /\ "warn" \in Results
    BY <2>1, FS_Subset DEF Results
  <2>3. /\ HomeAssistant(m, w) = Counted(m.th, Cardinality(due(w)), "warn")
        /\ HomeAssistant(m, v) = Counted(m.th, Cardinality(due(v)), "warn")
    BY <1>1, <1>4 DEF HomeAssistant
  <2> HIDE DEF due
  <2> QED
    BY <1>1, <2>2, <2>3, MoreAreMore, CountedOrder
<1>5. CASE m.mode = "entity"
  <2>1. HomeAssistant(m, w) = Entity(m, w) /\ HomeAssistant(m, v) = Entity(m, v)
    BY <1>1, <1>5 DEF HomeAssistant
  <2>2. IsVerdict(Entity(m, v))
    BY PlainVerdicts DEF Entity
  <2>3. CASE w.state \in {"unavailable", "unknown"}
    BY <2>1, <2>2, <2>3, WorstOrSame DEF Entity
  <2>4. CASE w.state = v.state /\ AtLeast(w.number, v.number)
    <3>1. AsksFor(m, w) /\ AsksFor(m, v) /\ "number" \in Fields(m)
      BY <1>1, <1>5 DEF ReplySound, OfSets, OfLists, OfAll, OfOne, Fields, TypeFields, ModeFields
    <3>2. w.number \in Int \union {None} /\ v.number \in Int \union {None}
      BY <3>1 DEF AsksFor, FieldSound, Burdens
    <3>3. NoCloser(m, w.number, v.number)
      BY <1>1, <2>4, <3>2 DEF AtLeast, NoCloser
    <3>4. NotBetter(m, Ok(w.number), Ok(v.number))
      BY <3>3, BothOk
    <3> QED
      BY <2>1, <2>4, <3>4, WorstOrSame, PlainVerdicts DEF Entity
  <2> QED
    BY <1>1, <1>5, <2>3, <2>4 DEF NoBetter, OfAll, OfOne
<1> QED
  BY <1>1, <1>2, <1>3, <1>4, <1>5

\* A level is a number from 0 to 7.
LEMMA LevelIsNumber == \A level : LevelOf(level) \in 0..7
<1> SUFFICES ASSUME NEW level PROVE LevelOf(level) \in 0..7
  OBVIOUS
<1> DEFINE I == {i \in 1..Len(Levels) : Levels[i] = level}
<1>1. Len(Levels) = 7
  BY DEF Levels
<1>2. LevelOf(level) = IF I # {} THEN Min(I) ELSE 0
  BY DEF LevelOf, SelectInSeq
<1>3. I # {} => Min(I) \in I
  <2>1. I \subseteq Nat
    OBVIOUS
  <2> HIDE DEF I
  <2> QED
    BY <2>1, LeastOf
<1> QED
  BY <1>1, <1>2, <1>3

\* More alerts: the gravest of them is at least as grave.
LEMMA AlertsOrder ==
  ASSUME NEW m, NEW w, NEW v, Toward(m) = "above", IsFiniteSet(w), v \subseteq w
  PROVE  NotBetter(m, TrueNASAlerts(m, w), TrueNASAlerts(m, v))
<1> DEFINE active(r) == {a \in r : ~ a.dismissed /\ LevelOf(a.level) >= LevelOf(m.min_alert_level)}
           result(r) == IF Gravest(active(r)) >= LevelOf("CRITICAL") THEN "fail" ELSE "warn"
           n(r) == Cardinality(active(r))
           levels(r) == {LevelOf(a.level) : a \in active(r)}
<1>1. \A r : TrueNASAlerts(m, r) = IF active(r) = {} THEN Ok(0) ELSE CheckResult(result(r), n(r))
  BY DEF TrueNASAlerts
<1>2. IsFiniteSet(active(w)) /\ active(v) \subseteq active(w)
  BY FS_Subset
<1>3. \A r : result(r) \in {"fail", "warn"}
  OBVIOUS
<1>4. n(v) \in Nat /\ n(w) \in Nat /\ n(w) >= n(v)
  <2> HIDE DEF active
  <2> QED
    BY <1>2, MoreAreMore
<1>5. ASSUME active(v) # {} PROVE Rank[result(w)] >= Rank[result(v)]
  <2>1. /\ levels(w) \in SUBSET Int /\ IsFiniteSet(levels(w)) /\ levels(w) # {}
        /\ levels(v) \in SUBSET Int /\ IsFiniteSet(levels(v)) /\ levels(v) # {}
        /\ levels(v) \subseteq levels(w)
    <3>1. levels(w) \subseteq 0..7 /\ levels(v) \subseteq levels(w) /\ levels(v) # {}
      BY <1>2, <1>5, LevelIsNumber
    <3>2. IsFiniteSet(0..7)
      <4>1. 0 \in Int /\ 7 \in Int
        OBVIOUS
      <4> QED
        BY <4>1, FS_Interval
    <3> HIDE DEF levels
    <3> QED
      BY <3>1, <3>2, FS_Subset
  <2>2. Max(levels(w)) >= Max(levels(v)) /\ Max(levels(w)) \in Int /\ Max(levels(v)) \in Int
    <3> HIDE DEF levels
    <3> QED
      BY <2>1, LargestOf
  <2>3. Gravest(active(w)) = Max(levels(w)) /\ Gravest(active(v)) = Max(levels(v))
    BY DEF Gravest
  <2>4. LevelOf("CRITICAL") \in Int
    BY LevelIsNumber
  <2> HIDE DEF levels, active
  <2> QED
    BY <2>2, <2>3, <2>4, Ranks
<1> HIDE DEF active, result, n
<1>6. CASE active(w) = {}
  <2>1. active(v) = {}
    BY <1>2, <1>6
  <2> QED
    BY <1>1, <1>6, <2>1, PlainVerdicts, WorstOrSame
<1>7. CASE active(w) # {} /\ active(v) = {}
  <2>1. NoCloser(m, n(w), 0)
    BY <1>4 DEF NoCloser
  <2>2. "ok" \in Results /\ result(w) \in Results /\ Rank[result(w)] >= Rank["ok"]
    BY <1>3, Ranks DEF Results
  <2>3. NotBetter(m, CheckResult(result(w), n(w)), CheckResult("ok", 0))
    BY <2>1, <2>2, BothWorse
  <2> QED
    BY <1>1, <1>7, <2>3 DEF Ok
<1>8. CASE active(w) # {} /\ active(v) # {}
  <2>1. NoCloser(m, n(w), n(v))
    BY <1>4 DEF NoCloser
  <2>2. result(w) \in Results /\ result(v) \in Results
    BY <1>3 DEF Results
  <2> QED
    BY <1>1, <1>5, <1>8, <2>1, <2>2, BothWorse
<1> QED
  BY <1>6, <1>7, <1>8

-----------------------------------------------------------------------------
(* Items of a list *)

\* A pool on its own.
LEMMA PoolOrder ==
  ASSUME NEW m, NEW w, NEW v, BothAnswer(m, w, v), m.type = "truenas", m.mode \in {"pools", "pool"}
  PROVE  /\ PoolState(w) \in Results /\ PoolState(v) \in Results
         /\ Rank[PoolState(w)] >= Rank[PoolState(v)]
         /\ PoolUsed(w) \in Int \union {None} /\ PoolUsed(v) \in Int \union {None}
         /\ PoolUsed(w) = PoolUsed(v) \/ (PoolUsed(w) \in Int /\ PoolUsed(v) \in Int /\ PoolUsed(w) >= PoolUsed(v))
         /\ NotBetter(m, Pool(w), Pool(v))
<1>1. Toward(m) = "above" /\ Fields(m) = PoolFields /\ None \notin Int
  BY DEF Toward, Fields, TypeFields, ModeFields, BothAnswer
<1>2. /\ w.healthy \in BOOLEAN /\ v.healthy \in BOOLEAN /\ (w.healthy => v.healthy)
      /\ w.warning \in BOOLEAN /\ v.warning \in BOOLEAN /\ (v.warning => w.warning)
  BY <1>1, FieldOrder DEF BothAnswer, PoolFields, Assets, Troubles
<1>3. /\ w.size = v.size /\ v.size \in Nat \union {None}
      /\ w.allocated \in Int \union {None} /\ v.allocated \in Int \union {None}
      /\ w.allocated = v.allocated \/ (w.allocated \in Int /\ v.allocated \in Int /\ w.allocated >= v.allocated)
  BY <1>1, FieldOrder DEF BothAnswer, PoolFields, Burdens, Reserves, Assets, Troubles, Compared, Amounts
<1>4. /\ PoolState(w) \in Results /\ PoolState(v) \in Results
      /\ Rank[PoolState(w)] >= Rank[PoolState(v)]
  BY <1>2, Ranks DEF PoolState, Results
<1>5. /\ PoolUsed(w) \in Int \union {None} /\ PoolUsed(v) \in Int \union {None}
      /\ PoolUsed(w) = PoolUsed(v) \/ (PoolUsed(w) \in Int /\ PoolUsed(v) \in Int /\ PoolUsed(w) >= PoolUsed(v))
  <2> DEFINE a == v.allocated
             b == w.allocated
             d == v.size
  <2>1. /\ a \in Int \union {None} /\ b \in Int \union {None} /\ d \in Nat \union {None}
        /\ a = b \/ (a \in Int /\ b \in Int /\ a <= b)
    BY <1>3
  <2>2. PoolUsed(w) = Pct(b, d) /\ PoolUsed(v) = Pct(a, d)
    BY <1>3 DEF PoolUsed
  <2> HIDE DEF a, b, d
  <2>3. /\ Pct(a, d) \in Int \union {None} /\ Pct(b, d) \in Int \union {None}
        /\ Pct(a, d) = Pct(b, d) \/ (Pct(a, d) \in Int /\ Pct(b, d) \in Int /\ Pct(a, d) <= Pct(b, d))
    BY <1>1, <2>1, PctOrder
  <2> QED
    BY <2>2, <2>3
<1>6. NoCloser(m, PoolUsed(w), PoolUsed(v))
  BY <1>1, <1>5 DEF NoCloser
<1> QED
  BY <1>4, <1>5, <1>6, BothWorse DEF Pool

\* A share of the same total, of things that have a name for it.
LEMMA ShareOrder ==
  ASSUME NEW m, Toward(m) = "above", None \notin Int,
         NEW b \in Int \union {None}, NEW a \in Int \union {None}, NEW d \in Nat \union {None},
         b = a \/ (b \in Int /\ a \in Int /\ b >= a)
  PROVE  /\ NoCloser(m, Pct(b, d), Pct(a, d))
         /\ NotBetter(m, Stated(Pct(b, d)), Stated(Pct(a, d)))
<1>1. a = b \/ (a \in Int /\ b \in Int /\ a <= b)
  OBVIOUS
<1>2. /\ Pct(a, d) \in Int \union {None} /\ Pct(b, d) \in Int \union {None}
      /\ Pct(a, d) = Pct(b, d) \/ (Pct(a, d) \in Int /\ Pct(b, d) \in Int /\ Pct(a, d) <= Pct(b, d))
  BY <1>1, PctOrder
<1>3. NoCloser(m, Pct(b, d), Pct(a, d))
  BY <1>2 DEF NoCloser
<1>4. Pct(b, d) = None \/ Pct(a, d) # None
  BY <1>2
<1> QED
  BY <1>3, <1>4, StatedOrder

\* A node that is offline, or fuller.
LEMMA NodeOrder ==
  ASSUME NEW m, NEW w, NEW v, BothAnswer(m, w, v), m.type = "proxmox",
         m.mode \in {"node", "node_cpu", "node_memory"}
  PROVE  NotBetter(m, Node(m, w), Node(m, v))
<1>1. /\ Toward(m) = "above" /\ Fields(m) = NodeFields /\ None \notin Int /\ w # None /\ v # None
      /\ FineFor(m, "status") = {"online"}
  BY DEF Toward, Fields, TypeFields, ModeFields, FineFor, BothAnswer
<1>2. /\ w.status = v.status \/ v.status = "online"
      /\ w.uptime = v.uptime
  BY <1>1, FieldOrder DEF BothAnswer, NodeFields, Compared, Burdens, Reserves, Assets, Troubles
<1>3. /\ w.cpu \in Int \union {None} /\ v.cpu \in Int \union {None}
      /\ w.cpu = v.cpu \/ (w.cpu \in Int /\ v.cpu \in Int /\ w.cpu >= v.cpu)
  BY <1>1, FieldOrder DEF BothAnswer, NodeFields, Burdens
<1>4. /\ w.mem \in Int \union {None} /\ v.mem \in Int \union {None}
      /\ w.mem = v.mem \/ (w.mem \in Int /\ v.mem \in Int /\ w.mem >= v.mem)
      /\ w.maxmem = v.maxmem /\ v.maxmem \in Nat \union {None}
  BY <1>1, FieldOrder DEF BothAnswer, NodeFields, Compared, Burdens, Reserves, Assets, Troubles, Amounts
<1>5. NotBetter(m, Ok(OrZero(w.cpu)), Ok(OrZero(v.cpu)))
  BY <1>1, <1>3, BothOk DEF NoCloser, OrZero
<1>6. NotBetter(m, Stated(Pct(w.mem, w.maxmem)), Stated(Pct(v.mem, v.maxmem)))
  BY <1>1, <1>4, ShareOrder
<1>7. NotBetter(m, Ok(OrZero(w.uptime)), Ok(OrZero(v.uptime)))
  BY <1>2, WorstOrSame, PlainVerdicts
<1>8. CASE v.status # "online"
  BY <1>1, <1>2, <1>8, WorstOrSame, PlainVerdicts DEF Node
<1>9. CASE v.status = "online"
  <2>1. IsVerdict(Node(m, v))
    BY <1>1, <1>5, <1>6, <1>7, <1>9 DEF Node, NotBetter
  <2>2. CASE w.status # "online"
    BY <1>1, <2>1, <2>2, WorstOrSame DEF Node
  <2>3. CASE w.status = "online"
    BY <1>1, <1>5, <1>6, <1>7, <1>9, <2>3 DEF Node
  <2> QED
    BY <2>2, <2>3
<1> QED
  BY <1>8, <1>9

\* A guest that does not run, or is busier.
LEMMA GuestOrder ==
  ASSUME NEW m, NEW w, NEW v, BothAnswer(m, w, v), m.type = "proxmox", m.mode = "guest"
  PROVE  NotBetter(m, Guest(w), Guest(v))
<1>1. /\ Toward(m) = "above" /\ Fields(m) = {"type", "name", "vmid", "status", "hastate", "cpu"}
      /\ None \notin Int /\ w # None /\ v # None /\ FineFor(m, "status") = {"running"}
  BY DEF Toward, Fields, TypeFields, ModeFields, FineFor, BothAnswer
<1>2. /\ w.status = v.status \/ v.status = "running"
      /\ w.hastate = v.hastate
  BY <1>1, FieldOrder DEF BothAnswer, Compared, Burdens, Reserves, Assets, Troubles
<1>3. /\ w.cpu \in Int \union {None} /\ v.cpu \in Int \union {None}
      /\ w.cpu = v.cpu \/ (w.cpu \in Int /\ v.cpu \in Int /\ w.cpu >= v.cpu)
  BY <1>1, FieldOrder DEF BothAnswer, Burdens
<1>4. NotBetter(m, Ok(OrZero(w.cpu)), Ok(OrZero(v.cpu)))
  BY <1>1, <1>3, BothOk DEF NoCloser, OrZero
<1> QED
  BY <1>1, <1>2, <1>4, WorstOrSame, PlainVerdicts DEF Guest

\* A storage that is not available, or fuller.
LEMMA StorageOrder ==
  ASSUME NEW m, NEW w, NEW v, BothAnswer(m, w, v), m.type = "proxmox", m.mode = "storage"
  PROVE  NotBetter(m, Storage(w), Storage(v))
<1>1. /\ Toward(m) = "above" /\ Fields(m) = {"type", "name", "node", "status", "disk", "maxdisk"}
      /\ None \notin Int /\ w # None /\ v # None /\ FineFor(m, "status") = {"available"}
  BY DEF Toward, Fields, TypeFields, ModeFields, FineFor, BothAnswer
<1>2. w.status = v.status \/ v.status = "available"
  BY <1>1, FieldOrder DEF BothAnswer
<1>3. /\ w.disk \in Int \union {None} /\ v.disk \in Int \union {None}
      /\ w.disk = v.disk \/ (w.disk \in Int /\ v.disk \in Int /\ w.disk >= v.disk)
      /\ w.maxdisk = v.maxdisk /\ v.maxdisk \in Nat \union {None}
  BY <1>1, FieldOrder DEF BothAnswer, Compared, Burdens, Reserves, Assets, Troubles, Amounts
<1>4. NotBetter(m, Stated(Pct(w.disk, w.maxdisk)), Stated(Pct(v.disk, v.maxdisk)))
  BY <1>1, <1>3, ShareOrder
<1>5. IsVerdict(Stated(Pct(v.disk, v.maxdisk)))
  BY <1>4 DEF NotBetter
<1> QED
  BY <1>1, <1>2, <1>4, <1>5, WorstOrSame, PlainVerdicts DEF Storage

\* A datastore that is not accessible, or fuller.
LEMMA DatastoreOrder ==
  ASSUME NEW m, NEW w, NEW v, BothAnswer(m, w, v), m.type = "vsphere", m.mode = "datastore"
  PROVE  NotBetter(m, Datastore(w), Datastore(v))
<1>1. /\ Toward(m) = "above" /\ Fields(m) = {"name", "accessible", "capacity", "free"} /\ None \notin Int
  BY DEF Toward, Fields, TypeFields, ModeFields, BothAnswer
<1>2. /\ w.accessible \in BOOLEAN /\ v.accessible \in BOOLEAN /\ (w.accessible => v.accessible)
      /\ w.free \in Int \union {None} /\ v.free \in Int \union {None}
      /\ w.free = v.free \/ (w.free \in Int /\ v.free \in Int /\ w.free <= v.free)
      /\ w.capacity = v.capacity /\ v.capacity \in Nat \union {None}
  BY <1>1, FieldOrder DEF BothAnswer, Compared, Burdens, Reserves, Assets, Troubles, Amounts
<1> DEFINE d == OrZero(v.capacity)
           b == d - OrZero(w.free)
           a == d - OrZero(v.free)
<1>3. /\ d \in Nat \union {None} /\ b \in Int \union {None} /\ a \in Int \union {None}
      /\ b = a \/ (b \in Int /\ a \in Int /\ b >= a)
  BY <1>1, <1>2 DEF OrZero
<1>4. /\ Datastore(w) = IF ~ w.accessible THEN Fail ELSE Stated(Pct(b, d))
      /\ Datastore(v) = IF ~ v.accessible THEN Fail ELSE Stated(Pct(a, d))
  BY <1>2 DEF Datastore
<1> HIDE DEF a, b, d
<1>5. NotBetter(m, Stated(Pct(b, d)), Stated(Pct(a, d)))
  BY <1>1, <1>3, ShareOrder
<1>6. IsVerdict(Stated(Pct(a, d)))
  BY <1>5 DEF NotBetter
<1> QED
  BY <1>2, <1>4, <1>5, <1>6, WorstOrSame, PlainVerdicts

\* A machine that is off, unwell or busier.
LEMMA VMOrder ==
  ASSUME NEW m, NEW w, NEW v, BothAnswer(m, w, v), m.type = "vsphere", m.mode = "vm"
  PROVE  NotBetter(m, VM(w), VM(v))
<1>1. /\ Toward(m) = "above" /\ Fields(m) = {"name", "power", "heartbeat", "cpu", "maxcpu"} /\ None \notin Int
      /\ FineFor(m, "power") = {"poweredOn"} /\ FineFor(m, "heartbeat") = Fine
  BY DEF Toward, Fields, TypeFields, ModeFields, BothAnswer, FineFor
<1>2. /\ w.power = v.power \/ v.power = "poweredOn"
      /\ w.heartbeat = v.heartbeat \/ v.heartbeat \in Fine
  BY <1>1, FieldOrder DEF BothAnswer
<1>3. /\ w.cpu \in Int \union {None} /\ v.cpu \in Int \union {None}
      /\ w.cpu = v.cpu \/ (w.cpu \in Int /\ v.cpu \in Int /\ w.cpu >= v.cpu)
      /\ w.maxcpu = v.maxcpu /\ v.maxcpu \in Nat \union {None}
  BY <1>1, FieldOrder DEF BothAnswer, Compared, Burdens, Reserves, Assets, Troubles, Amounts
<1>4. NoCloser(m, Pct(w.cpu, w.maxcpu), Pct(v.cpu, v.maxcpu))
  BY <1>1, <1>3, ShareOrder
<1> DEFINE result(r) == IF r.heartbeat = "yellow" THEN "warn" ELSE "ok"
<1>5. /\ result(w) \in Results /\ result(v) \in Results
      /\ v.heartbeat # "red" => w.heartbeat = "red" \/ Rank[result(w)] >= Rank[result(v)]
  BY <1>2, Ranks DEF Results, Fine
<1>6. /\ VM(w) = IF w.power # "poweredOn" \/ w.heartbeat = "red" THEN Fail
                 ELSE CheckResult(result(w), Pct(w.cpu, w.maxcpu))
      /\ VM(v) = IF v.power # "poweredOn" \/ v.heartbeat = "red" THEN Fail
                 ELSE CheckResult(result(v), Pct(v.cpu, v.maxcpu))
  BY DEF VM
<1> HIDE DEF result
<1>7. IsVerdict(VM(v))
  BY <1>5, <1>6, VerdictParts, PlainVerdicts
<1>8. CASE w.power # "poweredOn" \/ w.heartbeat = "red"
  BY <1>6, <1>7, <1>8, WorstOrSame
<1>9. CASE ~ (w.power # "poweredOn" \/ w.heartbeat = "red")
  <2>1. ~ (v.power # "poweredOn" \/ v.heartbeat = "red")
    BY <1>2, <1>9 DEF Fine
  <2> QED
    BY <1>4, <1>5, <1>6, <1>9, <2>1, BothWorse
<1> QED
  BY <1>8, <1>9

\* A host that is not connected, unwell, in maintenance, busier or fuller.
LEMMA HostOrder ==
  ASSUME NEW m, NEW w, NEW v, BothAnswer(m, w, v), m.type = "vsphere",
         m.mode \in {"host", "host_cpu", "host_memory"}
  PROVE  NotBetter(m, Host(m, w), Host(m, v))
<1>1. /\ Toward(m) = "above" /\ Fields(m) = HostFields /\ None \notin Int
      /\ FineFor(m, "connection") = {"connected"} /\ FineFor(m, "status") = Fine
  BY DEF Toward, Fields, TypeFields, ModeFields, BothAnswer, FineFor
<1>2. /\ w.connection = v.connection \/ v.connection = "connected"
      /\ w.status = v.status \/ v.status \in Fine
      /\ w.maintenance \in BOOLEAN /\ v.maintenance \in BOOLEAN /\ (v.maintenance => w.maintenance)
  BY <1>1, FieldOrder DEF BothAnswer, HostFields, Troubles
<1>3. /\ w.cpu \in Int \union {None} /\ v.cpu \in Int \union {None}
      /\ w.cpu = v.cpu \/ (w.cpu \in Int /\ v.cpu \in Int /\ w.cpu >= v.cpu)
      /\ w.mem \in Int \union {None} /\ v.mem \in Int \union {None}
      /\ w.mem = v.mem \/ (w.mem \in Int /\ v.mem \in Int /\ w.mem >= v.mem)
  BY <1>1, FieldOrder DEF BothAnswer, HostFields, Burdens
<1>4. /\ w.uptime = v.uptime /\ w.mhz = v.mhz /\ w.cores = v.cores /\ w.memory = v.memory
  BY <1>1, FieldOrder DEF BothAnswer, HostFields, Compared, Burdens, Reserves, Assets, Troubles
<1>5. v.mhz \in Nat \union {None} /\ v.cores \in Nat \union {None} /\ v.memory \in Nat \union {None}
  BY <1>1, FieldOrder DEF BothAnswer, HostFields, Amounts
<1> DEFINE hz   == OrZero(v.mhz) * OrZero(v.cores)
           size == OrZero(v.memory)
<1>6. hz \in Nat \union {None} /\ size \in Nat \union {None}
  <2>1. OrZero(v.mhz) \in Nat /\ OrZero(v.cores) \in Nat /\ size \in Nat
    BY <1>5 DEF OrZero
  <2> QED
    BY <2>1
<1> DEFINE result(r) == IF r.maintenance \/ r.status = "yellow" THEN "warn" ELSE "ok"
           body(r) ==
             CASE m.mode = "host_cpu"    -> Stated(Pct(r.cpu, hz))
               [] m.mode = "host_memory" -> Stated(Pct(r.mem, size))
               [] m.mode = "host" -> IF r.status = "red" THEN Fail
                                     ELSE CheckResult(result(r), OrZero(v.uptime))
<1>7. /\ Host(m, w) = IF w.connection # "connected" THEN Fail ELSE body(w)
      /\ Host(m, v) = IF v.connection # "connected" THEN Fail ELSE body(v)
  BY <1>4 DEF Host
<1>8. NotBetter(m, body(w), body(v))
  <2> HIDE DEF hz, size
  <2>1. CASE m.mode = "host_cpu"
    <3>1. NotBetter(m, Stated(Pct(w.cpu, hz)), Stated(Pct(v.cpu, hz)))
      BY <1>1, <1>3, <1>6, ShareOrder
    <3> QED
      BY <2>1, <3>1
  <2>2. CASE m.mode = "host_memory"
    <3>1. NotBetter(m, Stated(Pct(w.mem, size)), Stated(Pct(v.mem, size)))
      BY <1>1, <1>3, <1>6, ShareOrder
    <3> QED
      BY <2>2, <3>1
  <2>3. CASE m.mode = "host"
    <3>1. /\ result(w) \in Results /\ result(v) \in Results
          /\ v.status # "red" => w.status = "red" \/ Rank[result(w)] >= Rank[result(v)]
          /\ v.status = "red" => w.status = "red"
      BY <1>2, Ranks DEF Results, Fine
    <3> DEFINE of(r) == CheckResult(result(r), OrZero(v.uptime))
    <3>2. /\ body(w) = IF w.status = "red" THEN Fail ELSE of(w)
          /\ body(v) = IF v.status = "red" THEN Fail ELSE of(v)
      BY <2>3
    <3> HIDE DEF result, body
    <3>3. NoCloser(m, OrZero(v.uptime), OrZero(v.uptime))
      BY DEF NoCloser
    <3>4. v.status # "red" => w.status = "red" \/ NotBetter(m, of(w), of(v))
      BY <3>1, <3>3, BothWorse
    <3>5. IsVerdict(of(v))
      BY <3>1, VerdictParts
    <3> HIDE DEF of
    <3> QED
      BY <3>1, <3>2, <3>4, <3>5, WorstOrSame, PlainVerdicts
  <2> QED
    BY <2>1, <2>2, <2>3
<1> HIDE DEF body
<1>9. IsVerdict(body(v))
  BY <1>8 DEF NotBetter
<1> QED
  BY <1>2, <1>7, <1>8, <1>9, WorstOrSame, PlainVerdicts

\* A device that is not as it should be, or is busier.
LEMMA DeviceOrder ==
  ASSUME NEW m, NEW w, NEW v, BothAnswer(m, w, v), m.type = "unifi",
         m.mode \in {"device", "camera", "device_cpu", "device_memory"}
  PROVE  NotBetter(m, Device(m, w), Device(m, v))
<1>1. /\ Toward(m) = "above" /\ None \notin Int /\ "state" \in Fields(m)
      /\ FineFor(m, "state") = {Good(m)} /\ w # None /\ v # None
  BY DEF Toward, Fields, TypeFields, ModeFields, DeviceFields, BothAnswer, FineFor
<1>2. w.state = v.state \/ v.state = Good(m)
  BY <1>1, FieldOrder DEF BothAnswer
<1>3. m.mode = "device_cpu" => w.cpu = v.cpu \/ (w.cpu \in Int /\ v.cpu \in Int /\ w.cpu >= v.cpu)
  <2> SUFFICES ASSUME m.mode = "device_cpu"
               PROVE  w.cpu = v.cpu \/ (w.cpu \in Int /\ v.cpu \in Int /\ w.cpu >= v.cpu)
    OBVIOUS
  <2>1. "cpu" \in Fields(m)
    BY DEF Fields, TypeFields, ModeFields
  <2> QED
    BY <2>1, FieldOrder DEF BothAnswer, Burdens
<1>4. m.mode = "device_memory" => w.mem = v.mem \/ (w.mem \in Int /\ v.mem \in Int /\ w.mem >= v.mem)
  <2> SUFFICES ASSUME m.mode = "device_memory"
               PROVE  w.mem = v.mem \/ (w.mem \in Int /\ v.mem \in Int /\ w.mem >= v.mem)
    OBVIOUS
  <2>1. "mem" \in Fields(m)
    BY DEF Fields, TypeFields, ModeFields
  <2> QED
    BY <2>1, FieldOrder DEF BothAnswer, Burdens
<1> DEFINE load(r) == IF m.mode = "device_cpu" THEN r.cpu ELSE r.mem
<1>5. m.mode \in {"device_cpu", "device_memory"} =>
        load(w) = load(v) \/ (load(w) \in Int /\ load(v) \in Int /\ load(w) >= load(v))
  BY <1>3, <1>4
<1>6. Good(m) # "CONNECTING"
  BY DEF Good
<1>7. CASE v.state # Good(m)
  <2>1. IsVerdict(CheckResult("warn", None))
    BY VerdictParts DEF Results
  <2>2. w.state = v.state
    BY <1>2, <1>7
  <2> QED
    BY <1>1, <1>7, <2>1, <2>2, WorstOrSame, PlainVerdicts DEF Device
<1>8. CASE v.state = Good(m) /\ m.mode \in {"device", "camera"}
  <2>1. Device(m, v) = Ok(None)
    BY <1>1, <1>6, <1>8 DEF Device
  <2>2. Device(m, w) \in {Ok(None), CheckResult("warn", None), Fail}
    BY <1>1, <1>8 DEF Device
  <2>3. NotBetter(m, CheckResult("warn", None), Ok(None))
    BY BothWorse, Ranks DEF Ok, NoCloser, Results
  <2> QED
    BY <2>1, <2>2, <2>3, WorstOrSame, PlainVerdicts
<1>9. CASE v.state = Good(m) /\ m.mode \in {"device_cpu", "device_memory"}
  <2>1. Device(m, v) = IF load(v) = None THEN Fail ELSE Ok(load(v))
    BY <1>1, <1>9 DEF Device
  <2>2. Device(m, w) \in {Fail, IF load(w) = None THEN Fail ELSE Ok(load(w))}
    BY <1>1, <1>9 DEF Device
  <2> HIDE DEF load
  <2>3. NoCloser(m, load(w), load(v)) /\ (load(w) = None \/ load(v) # None \/ load(w) = load(v))
    BY <1>1, <1>5, <1>9 DEF NoCloser
  <2>4. NotBetter(m, Ok(load(w)), Ok(load(v)))
    BY <2>3, BothOk
  <2>5. load(v) = None => load(w) = None
    BY <1>1, <1>5, <1>9
  <2>6. IsVerdict(Device(m, v))
    BY <2>1, PlainVerdicts
  <2> QED
    BY <2>1, <2>2, <2>4, <2>5, <2>6, WorstOrSame
<1> QED
  BY <1>7, <1>8, <1>9

\* An item that lacks what the monitor is about fails.
LEMMA LackingItems ==
  ASSUME NEW m, NEW w, None \notin Int, w # None, Lacks(m, w)
  PROVE  /\ m.type = "proxmox" /\ m.mode \in {"node", "node_cpu", "node_memory"} => Node(m, w) = Fail
         /\ m.type = "proxmox" /\ m.mode = "guest" => Guest(w) = Fail
         /\ m.type = "proxmox" /\ m.mode = "storage" => Storage(w) = Fail
         /\ m.type = "vsphere" /\ m.mode = "datastore" => Datastore(w) = Fail
         /\ m.type = "vsphere" /\ m.mode = "vm" => VM(w) = Fail
         /\ m.type = "vsphere" /\ m.mode \in {"host", "host_cpu", "host_memory"} /\ AsksFor(m, w)
              => Host(m, w) = Fail
         /\ m.type = "unifi" /\ m.mode \in {"device", "camera", "device_cpu", "device_memory"}
              => Device(m, w) = Fail
         /\ m.type # "truenas"
         /\ m.type = "unifi" => m.mode \in {"device_cpu", "device_memory"}
<1>1. PICK name \in Required(m) : w[name] = None
  BY DEF Lacks
<1>2. Stated(None) = Fail /\ OrZero(None) = 0 /\ \A x : Pct(x, None) = None /\ Pct(None, x) = None /\ Pct(x, 0) = None
  BY DEF Stated, OrZero, Pct
<1>3. m.type = "proxmox" /\ m.mode \in {"node", "node_cpu", "node_memory"} => Node(m, w) = Fail
  BY <1>1, <1>2 DEF Required, Node
<1>4. m.type = "proxmox" /\ m.mode = "guest" => Guest(w) = Fail
  BY <1>1 DEF Required
<1>5. m.type = "proxmox" /\ m.mode = "storage" => Storage(w) = Fail
  BY <1>1, <1>2 DEF Required, Storage
<1>6. m.type = "vsphere" /\ m.mode = "datastore" => Datastore(w) = Fail
  BY <1>1, <1>2 DEF Required, Datastore
<1>7. m.type = "vsphere" /\ m.mode = "vm" => VM(w) = Fail
  BY <1>1 DEF Required
<1>8. ASSUME m.type = "vsphere", m.mode \in {"host", "host_cpu", "host_memory"}, AsksFor(m, w)
      PROVE  Host(m, w) = Fail
  <2>1. CASE m.mode = "host"
    BY <1>1, <1>8, <2>1 DEF Required
  <2>2. CASE m.mode = "host_memory"
    <3>1. w.mem = None \/ w.memory = None
      BY <1>1, <1>8, <2>2 DEF Required
    <3> QED
      BY <1>2, <2>2, <3>1 DEF Host
  <2>3. CASE m.mode = "host_cpu"
    <3>1. w.cpu = None \/ w.mhz = None \/ w.cores = None
      BY <1>1, <1>8, <2>3 DEF Required
    <3>2. w.mhz \in Nat \union {None} /\ w.cores \in Nat \union {None}
      <4>1. {"mhz", "cores"} \subseteq DOMAIN w
        BY <1>8 DEF AsksFor, Fields, TypeFields, ModeFields, HostFields
      <4> QED
        BY <1>8, <4>1 DEF AsksFor, FieldSound, Amounts
    <3>3. OrZero(w.mhz) \in Nat /\ OrZero(w.cores) \in Nat
      BY <3>2 DEF OrZero
    <3>4. w.cpu = None \/ OrZero(w.mhz) = 0 \/ OrZero(w.cores) = 0
      BY <1>2, <3>1
    <3>5. w.cpu = None \/ OrZero(w.mhz) * OrZero(w.cores) = 0
      BY <3>3, <3>4
    <3>6. Stated(Pct(w.cpu, OrZero(w.mhz) * OrZero(w.cores))) = Fail
      BY <1>2, <3>5
    <3> QED
      BY <2>3, <3>6 DEF Host
  <2> QED
    BY <1>8, <2>1, <2>2, <2>3
<1>9. m.type = "unifi" /\ m.mode \in {"device", "camera", "device_cpu", "device_memory"} => Device(m, w) = Fail
  BY <1>1 DEF Required, Device
<1>10. m.type # "truenas" /\ (m.type = "unifi" => m.mode \in {"device_cpu", "device_memory"})
  BY <1>1 DEF Required
<1> QED
  BY <1>3, <1>4, <1>5, <1>6, <1>7, <1>8, <1>9, <1>10

-----------------------------------------------------------------------------
(* Lists *)

\* Two lists that are not missing, and each item of the first is no better,
\* or lacks something.
BothList(m, w, v) ==
  /\ None \notin Int /\ Monitors(m) /\ OfLists(m)
  /\ w # None /\ v # None /\ w \in Seq(Range(w)) /\ v \in Seq(Range(v)) /\ Len(w) = Len(v)
  /\ \A i \in 1..Len(v) : \/ Beside(m, w[i]) /\ Beside(m, v[i])
                          \/ ~ Beside(m, w[i]) /\ ~ Beside(m, v[i]) /\ BothSound(m, w[i], v[i])
  /\ m.type = "unifi" => /\ \A i, j \in 1..Len(v) : w[i].mac = w[j].mac => i = j
                         /\ \A i, j \in 1..Len(v) : v[i].mac = v[j].mac => i = j

\* A sound list, compared with itself.
LEMMA ListWithItself ==
  ASSUME None \notin Int, NEW m, Monitors(m), OfLists(m), NEW v, v # None, ReplySound(m, v)
  PROVE  BothList(m, v, v)
<1>1. ~ OfSets(m)
  BY DEF OfSets, OfLists, OfAll, OfOne
<1>2. /\ v \in Seq(Range(v)) /\ \A i \in DOMAIN v : AsksFor(m, v[i]) \/ Beside(m, v[i])
      /\ m.type = "unifi" => \A i, j \in DOMAIN v : v[i].mac = v[j].mac => i = j
  BY <1>1 DEF ReplySound
<1>3. DOMAIN v = 1..Len(v)
  BY <1>2, LenProperties
<1>4. ASSUME NEW i \in 1..Len(v), ~ Beside(m, v[i]) PROVE BothSound(m, v[i], v[i])
  <2>1. AsksFor(m, v[i]) /\ v[i] # None
    BY <1>2, <1>3, <1>4 DEF AsksFor
  <2>2. NoBetterRecord(m, v[i], v[i])
    BY DEF NoBetterRecord, NoBetterIn
  <2> QED
    BY <2>1, <2>2 DEF BothSound
<1> QED
  BY <1>2, <1>3, <1>4 DEF BothList

\* Two sound lists of which one is no better, item by item.
LEMMA ListsAre ==
  ASSUME None \notin Int, NEW m, Monitors(m), OfOne(m), NEW w, NEW v, w # None,
         ReplySound(m, w), ReplySound(m, v), NoBetter(m, w, v)
  PROVE  w = <<>> \/ BothList(m, w, v)
<1> SUFFICES ASSUME w # <<>> PROVE BothList(m, w, v)
  OBVIOUS
<1>1. /\ v # None /\ Len(w) = Len(v) /\ \A i \in DOMAIN v : NoBetterRecord(m, w[i], v[i])
  <2>1. ~ (m.type = "homeassistant") /\ ~ (m.type = "truenas" /\ m.mode = "alerts") /\ ~ OfAll(m)
    BY DEF OfOne, OfAll
  <2>2. v # None /\ Len(w) = Len(v) /\ \A i \in DOMAIN w : NoBetterRecord(m, w[i], v[i])
    BY <2>1 DEF NoBetter
  <2>3. ~ OfSets(m) /\ OfLists(m)
    BY DEF OfSets, OfLists, OfAll, OfOne
  <2>4. w \in Seq(Range(w)) /\ v \in Seq(Range(v))
    BY <2>2, <2>3 DEF ReplySound
  <2> QED
    BY <2>2, <2>4, LenProperties
<1>2. OfLists(m)
  BY DEF OfLists
<1>3. BothList(m, w, w) /\ BothList(m, v, v)
  BY <1>1, <1>2, ListWithItself
<1>4. DOMAIN v = 1..Len(v)
  BY <1>3, LenProperties DEF BothList
<1>5. ASSUME NEW i \in 1..Len(v)
      PROVE  \/ Beside(m, w[i]) /\ Beside(m, v[i])
             \/ ~ Beside(m, w[i]) /\ ~ Beside(m, v[i]) /\ BothSound(m, w[i], v[i])
  <2>1. /\ NoBetterRecord(m, w[i], v[i])
        /\ BothSound(m, w[i], w[i]) \/ Beside(m, w[i])
        /\ BothSound(m, v[i], v[i]) \/ Beside(m, v[i])
    BY <1>1, <1>3, <1>4 DEF BothList
  <2>2. /\ w[i] # None /\ v[i] # None
        /\ Beside(m, w[i]) \/ AsksFor(m, w[i])
        /\ Beside(m, v[i]) \/ AsksFor(m, v[i])
    BY <2>1 DEF BothSound, Beside
  <2>3. Beside(m, w[i]) <=> Beside(m, v[i])
    <3>1. CASE m.type # "proxmox"
      BY <3>1 DEF Beside
    <3>2. CASE "type" \notin DOMAIN v[i]
      BY <2>1, <3>2 DEF Beside, NoBetterRecord
    <3>3. CASE "type" \in DOMAIN v[i]
      <4>1. "type" \in DOMAIN w[i] /\ "type" \notin Required(m)
        BY <2>1, <3>3 DEF NoBetterRecord, Required
      <4>2. NoBetterIn("type", w[i].type, v[i].type)
        BY <2>1, <4>1 DEF NoBetterRecord
      <4>3. w[i].type = v[i].type
        BY <4>2 DEF NoBetterIn, Burdens, Reserves, Assets, Troubles
      <4> QED
        BY <2>2, <3>3, <4>1, <4>3 DEF Beside
    <3> QED
      BY <3>1, <3>2, <3>3
  <2> QED
    BY <1>3, <2>1, <2>2, <2>3 DEF BothSound, BothList
<1> QED
  BY <1>1, <1>3, <1>4, <1>5 DEF BothList

\* Two lists that are not missing, and for each item of the second there is one of the
\* first that is no better.
AllList(m, w, v) ==
  /\ OfAll(m) /\ BothList(m, w, w) /\ BothList(m, v, v)
  /\ \A i \in 1..Len(v) : \E j \in 1..Len(w) : BothAnswer(m, w[j], v[i])
  /\ m.type = "truenas" => v # <<>>

\* A monitor of all items of a list is about nothing that can be missing.
LEMMA NothingLacks ==
  ASSUME NEW m, NEW w, NEW v, BothSound(m, w, v), m.type = "truenas" \/ OfAll(m)
  PROVE  BothAnswer(m, w, v)
<1>1. None \notin Int /\ w # None
  BY DEF BothSound
<1>2. ~ Lacks(m, w)
  BY <1>1, LackingItems DEF OfAll
<1> QED
  BY <1>2, EitherWay

\* Two sound lists of which one is no better as a whole.
LEMMA AllListsAre ==
  ASSUME None \notin Int, NEW m, Monitors(m), OfAll(m), NEW w, NEW v, w # None,
         ReplySound(m, w), ReplySound(m, v), NoBetter(m, w, v)
  PROVE  /\ BothList(m, w, w) /\ BothList(m, v, v)
         /\ (m.type = "truenas" /\ w = <<>>) \/ AllList(m, w, v)
<1>1. OfLists(m) /\ v # None
  BY DEF OfLists, NoBetter
<1>2. BothList(m, w, w) /\ BothList(m, v, v)
  BY <1>1, ListWithItself
<1>3. (m.type = "truenas" /\ w = <<>>) \/ NoBetterItems(m, w, v)
  <2>1. /\ ~ (m.type = "homeassistant" /\ m.mode = "entity")
        /\ ~ (m.type = "homeassistant" /\ m.mode \in {"unavailable", "updates"})
        /\ ~ (m.type = "truenas" /\ m.mode = "alerts")
        /\ ~ OfOne(m)
    BY DEF OfAll, OfOne
  <2> QED
    BY <1>1, <2>1 DEF NoBetter
<1>4. ASSUME NoBetterItems(m, w, v) PROVE AllList(m, w, v)
  <2>1. DOMAIN w = 1..Len(w) /\ DOMAIN v = 1..Len(v)
    BY <1>2, LenProperties DEF BothList
  <2>2. ASSUME NEW i \in 1..Len(v) PROVE \E j \in 1..Len(w) : BothAnswer(m, w[j], v[i])
    <3>1. PICK j \in 1..Len(w) : NoBetterRecord(m, w[j], v[i])
      BY <1>4, <2>1 DEF NoBetterItems
    <3>2. BothSound(m, w[j], w[j]) /\ BothSound(m, v[i], v[i])
      BY <1>2 DEF BothList, Beside, OfAll
    <3>3. BothSound(m, w[j], v[i])
      BY <3>1, <3>2 DEF BothSound
    <3> QED
      BY <3>3, NothingLacks
  <2> QED
    BY <1>2, <1>4, <2>2 DEF AllList, NoBetterItems
<1> QED
  BY <1>2, <1>3, <1>4

\* The first of the places in a list that fit.
LEMMA FirstPlace ==
  ASSUME NEW n \in Nat, NEW I, I \subseteq 1..n
  PROVE  LET i == IF I # {} THEN Min(I) ELSE 0
         IN  /\ i = 0 <=> I = {}
             /\ I # {} => i \in I /\ i \in 1..n
<1>1. I # {} => Min(I) \in I
  <2>1. I \subseteq Nat
    OBVIOUS
  <2> QED
    BY <2>1, LeastOf
<1>2. \A i \in I : i \in 1..n /\ i # 0
  OBVIOUS
<1> QED
  BY <1>1, <1>2

\* The item at the first of the places that fit.
ItemAt(s, I) == LET i == IF I # {} THEN Min(I) ELSE 0 IN IF i = 0 THEN None ELSE s[i]

\* Of two lists in which the same places fit, the items are None, or at one place.
LEMMA SamePlace ==
  ASSUME NEW w, NEW v, Len(v) \in Nat, NEW I, I \subseteq 1..Len(v)
  PROVE  \/ ItemAt(w, I) = None /\ ItemAt(v, I) = None
         \/ \E i \in I : ItemAt(w, I) = w[i] /\ ItemAt(v, I) = v[i]
BY FirstPlace DEF ItemAt

-----------------------------------------------------------------------------
(* One item of a list *)

\* One pool of the list.
LEMMA TrueNASPoolOrder ==
  ASSUME NEW m, NEW w, NEW v, BothList(m, w, v), m.type = "truenas", m.mode = "pool"
  PROVE  NotBetter(m, TrueNAS(m, w), TrueNAS(m, v))
<1> DEFINE fits(r) == {i \in 1..Len(r) : r[i].name = m.pool}
           I       == fits(v)
<1>1. \A i \in 1..Len(v) : BothAnswer(m, w[i], v[i])
  BY NothingLacks DEF BothList, Beside
<1>2. \A i \in 1..Len(v) : w[i].name = v[i].name
  <2>1. "name" \in Fields(m) /\ "name" \notin Compared
    BY DEF Fields, TypeFields, ModeFields, PoolFields, Compared, Burdens, Reserves, Assets, Troubles
  <2> QED
    BY <1>1, <2>1, FieldOrder DEF BothAnswer
<1>3. Len(w) = Len(v) /\ w # None /\ v # None /\ Len(v) \in Nat
  BY LenProperties DEF BothList
<1>4. fits(w) = I
  BY <1>2, <1>3
<1>5. /\ FirstOf(w, LAMBDA x : x.name = m.pool) = ItemAt(w, fits(w))
      /\ FirstOf(v, LAMBDA x : x.name = m.pool) = ItemAt(v, fits(v))
  BY DEF FirstOf, SelectInSeq, ItemAt
<1>6. /\ TrueNAS(m, w) = IF ItemAt(w, I) = None THEN Fail ELSE Pool(ItemAt(w, I))
      /\ TrueNAS(m, v) = IF ItemAt(v, I) = None THEN Fail ELSE Pool(ItemAt(v, I))
  BY <1>3, <1>4, <1>5 DEF TrueNAS
<1>7. I \subseteq 1..Len(v)
  OBVIOUS
<1> HIDE DEF I
<1>8. CASE ItemAt(w, I) = None /\ ItemAt(v, I) = None
  BY <1>6, <1>8, WorstOrSame, PlainVerdicts
<1>9. ASSUME NEW i \in I, ItemAt(w, I) = w[i], ItemAt(v, I) = v[i]
      PROVE  NotBetter(m, TrueNAS(m, w), TrueNAS(m, v))
  <2>1. BothAnswer(m, w[i], v[i]) /\ w[i] # None /\ v[i] # None
    BY <1>1, <1>7 DEF BothAnswer
  <2>2. NotBetter(m, Pool(w[i]), Pool(v[i]))
    BY <2>1, PoolOrder
  <2> QED
    BY <1>6, <1>9, <2>1, <2>2
<1> HIDE DEF fits
<1>10. \/ ItemAt(w, I) = None /\ ItemAt(v, I) = None
       \/ \E i \in I : ItemAt(w, I) = w[i] /\ ItemAt(v, I) = v[i]
  <2>1. Len(v) \in Nat
    BY <1>3
  <2>2. LET i == IF I # {} THEN Min(I) ELSE 0
        IN  (i = 0 <=> I = {}) /\ (I # {} => i \in I)
    BY <1>7, <2>1, FirstPlace
  <2> QED
    BY <2>2 DEF ItemAt
<1> QED
  BY <1>8, <1>9, <1>10

\* The item a monitor of Proxmox VE is about.
LEMMA ProxmoxOrder ==
  ASSUME NEW m, NEW w, NEW v, BothList(m, w, v), m.type = "proxmox"
  PROVE  NotBetter(m, Proxmox(m, w), Proxmox(m, v))
<1> DEFINE kind == CASE m.mode = "guest" -> "guest" [] m.mode = "storage" -> "storage" [] OTHER -> "node"
           asked(x) == CASE m.mode = "guest"   -> m.guest \in {x.name, x.vmid}
                         [] m.mode = "storage" -> x.name = m.storage /\ m.node \in {None, x.node}
                         [] OTHER              -> x.name = m.node
           fits(r) == {i \in 1..Len(r) : r[i].type = kind /\ asked(r[i])}
           I       == fits(v)
           of(x)   == CASE m.mode = "guest" -> Guest(x) [] m.mode = "storage" -> Storage(x) [] OTHER -> Node(m, x)
<1>1. /\ Len(w) = Len(v) /\ w # None /\ v # None /\ Len(v) \in Nat
      /\ m.mode \in {"guest", "storage", "node", "node_cpu", "node_memory"}
  BY LenProperties DEF BothList, Monitors, Known
<1>2. ASSUME NEW i \in 1..Len(v)
      PROVE  /\ w[i].type = kind <=> v[i].type = kind
             /\ v[i].type = kind => BothSound(m, w[i], v[i])
             /\ v[i].type = kind => (asked(w[i]) <=> asked(v[i]))
  <2>1. CASE Beside(m, w[i]) /\ Beside(m, v[i])
    BY <2>1 DEF Beside
  <2>2. CASE BothSound(m, w[i], v[i]) /\ ~ Beside(m, w[i]) /\ ~ Beside(m, v[i])
    <3>1. "type" \in Fields(m) /\ "name" \in Fields(m) /\ "type" \notin Compared /\ "name" \notin Compared
          /\ \A x \in {"type", "name", "vmid", "node"} : x \notin Required(m)
      BY <1>1 DEF Fields, TypeFields, ModeFields, NodeFields, Compared, Burdens, Reserves, Assets, Troubles, Required
    <3>2. w[i].type = v[i].type /\ w[i].name = v[i].name
      BY <2>2, <3>1, SameField
    <3>3. m.mode = "guest" => w[i].vmid = v[i].vmid
      <4>1. m.mode = "guest" => "vmid" \in Fields(m) /\ "vmid" \notin Compared
        BY DEF Fields, TypeFields, ModeFields, Compared, Burdens, Reserves, Assets, Troubles
      <4> QED
        BY <2>2, <3>1, <4>1, SameField
    <3>4. m.mode = "storage" => w[i].node = v[i].node
      <4>1. m.mode = "storage" => "node" \in Fields(m) /\ "node" \notin Compared
        BY DEF Fields, TypeFields, ModeFields, Compared, Burdens, Reserves, Assets, Troubles
      <4> QED
        BY <2>2, <3>1, <4>1, SameField
    <3>5. asked(w[i]) <=> asked(v[i])
      BY <1>1, <3>2, <3>3, <3>4
    <3> QED
      BY <2>2, <3>2, <3>5
  <2> QED
    BY <2>1, <2>2 DEF BothList
<1>3. fits(w) = I /\ fits(v) = I
  BY <1>1, <1>2
<1>4. I \subseteq 1..Len(v) /\ \A i \in I : BothSound(m, w[i], v[i])
  BY <1>2
<1>5. ASSUME NEW r, r # None, r # <<>> PROVE Proxmox(m, r) = of(ItemAt(r, fits(r)))
  <2>1. CASE m.mode = "guest"
    <3>1. FirstOf(r, LAMBDA i : i.type = "guest" /\ m.guest \in {i.name, i.vmid}) = ItemAt(r, fits(r))
      BY <2>1 DEF FirstOf, SelectInSeq, ItemAt
    <3> HIDE DEF fits
    <3> QED
      BY <1>5, <2>1, <3>1 DEF Proxmox
  <2>2. CASE m.mode = "storage"
    <3>1. FirstOf(r, LAMBDA i : i.type = "storage" /\ i.name = m.storage /\ m.node \in {None, i.node})
            = ItemAt(r, fits(r))
      BY <2>2 DEF FirstOf, SelectInSeq, ItemAt
    <3> HIDE DEF fits
    <3> QED
      BY <1>5, <2>2, <3>1 DEF Proxmox
  <2>3. CASE m.mode \notin {"guest", "storage"}
    <3>1. FirstOf(r, LAMBDA i : i.type = "node" /\ i.name = m.node) = ItemAt(r, fits(r))
      BY <2>3 DEF FirstOf, SelectInSeq, ItemAt
    <3> HIDE DEF fits
    <3> QED
      BY <1>5, <2>3, <3>1 DEF Proxmox
  <2> QED
    BY <2>1, <2>2, <2>3
<1>6. of(None) = Fail
  BY DEF Guest, Storage, Node
<1>7. ASSUME NEW i \in I PROVE NotBetter(m, of(w[i]), of(v[i]))
  <2>1. /\ BothAnswer(m, w[i], v[i]) \/ (Lacks(m, w[i]) /\ w[i] # None)
        /\ BothAnswer(m, v[i], v[i]) /\ None \notin Int
    BY <1>4, EitherWay DEF BothSound
  <2>2. CASE BothAnswer(m, w[i], v[i])
    BY <1>1, <2>2, GuestOrder, StorageOrder, NodeOrder
  <2>3. CASE Lacks(m, w[i]) /\ w[i] # None
    <3>1. of(w[i]) = Fail
      BY <1>1, <2>1, <2>3, LackingItems
    <3>2. NotBetter(m, of(v[i]), of(v[i]))
      BY <1>1, <2>1, GuestOrder, StorageOrder, NodeOrder
    <3>3. IsVerdict(of(v[i]))
      BY <3>2 DEF NotBetter
    <3> QED
      BY <3>1, <3>3, WorstOrSame
  <2> QED
    BY <2>1, <2>2, <2>3
<1> HIDE DEF I, fits, of
<1>8. NotBetter(m, of(ItemAt(w, I)), of(ItemAt(v, I)))
  <2>1. CASE ItemAt(w, I) = None /\ ItemAt(v, I) = None
    BY <1>6, <2>1, WorstOrSame, PlainVerdicts
  <2>2. ASSUME NEW i \in I, ItemAt(w, I) = w[i], ItemAt(v, I) = v[i]
        PROVE  NotBetter(m, of(ItemAt(w, I)), of(ItemAt(v, I)))
    BY <1>7, <2>2
  <2> QED
    BY <1>1, <1>4, <2>1, <2>2, SamePlace
<1>9. CASE w = <<>> \/ v = <<>>
  <2>1. w = <<>> /\ v = <<>>
    BY <1>1, <1>9, EmptySeq DEF BothList
  <2> QED
    BY <2>1, WorstOrSame, PlainVerdicts DEF Proxmox
<1>10. CASE w # <<>> /\ v # <<>>
  BY <1>1, <1>3, <1>5, <1>8, <1>10
<1> QED
  BY <1>9, <1>10

\* The row a monitor of vSphere is about.
LEMMA VSphereOrder ==
  ASSUME NEW m, NEW w, NEW v, BothList(m, w, v), m.type = "vsphere"
  PROVE  NotBetter(m, VSphere(m, w), VSphere(m, v))
<1> DEFINE fits(r) == {i \in 1..Len(r) : m.entity \in {None, r[i].name}}
           I       == fits(v)
           of(x)   == CASE m.mode = "datastore" -> Datastore(x) [] m.mode = "vm" -> VM(x) [] OTHER -> Host(m, x)
<1>1. /\ Len(w) = Len(v) /\ w # None /\ v # None /\ Len(v) \in Nat
      /\ m.mode \in {"datastore", "vm", "host", "host_cpu", "host_memory"}
  BY LenProperties DEF BothList, Monitors, Known
<1>2. \A i \in 1..Len(v) : BothSound(m, w[i], v[i])
  BY DEF BothList, Beside
<1>3. \A i \in 1..Len(v) : w[i].name = v[i].name
  <2>1. "name" \in Fields(m) /\ "name" \notin Compared /\ "name" \notin Required(m)
    BY <1>1 DEF Fields, TypeFields, ModeFields, HostFields, Compared, Burdens, Reserves, Assets, Troubles, Required
  <2> QED
    BY <1>2, <2>1, SameField
<1>4. fits(w) = I /\ fits(v) = I /\ I \subseteq 1..Len(v)
  BY <1>1, <1>3
<1>5. \A r : r # None => VSphere(m, r) =
               IF Ambiguous(m, r) \/ ItemAt(r, fits(r)) = None THEN Fail ELSE of(ItemAt(r, fits(r)))
  BY <1>1 DEF VSphere, FirstOf, SelectInSeq, ItemAt
<1>6. Ambiguous(m, w) <=> Ambiguous(m, v)
  BY <1>1 DEF Ambiguous
<1>7. ASSUME NEW i \in I PROVE NotBetter(m, of(w[i]), of(v[i])) /\ w[i] # None /\ v[i] # None
  <2>1. /\ BothAnswer(m, w[i], v[i]) \/ (Lacks(m, w[i]) /\ w[i] # None)
        /\ BothAnswer(m, v[i], v[i]) /\ None \notin Int
        /\ w[i] # None /\ v[i] # None /\ AsksFor(m, w[i])
    BY <1>2, <1>4, EitherWay DEF BothSound
  <2>2. CASE BothAnswer(m, w[i], v[i])
    BY <1>1, <2>1, <2>2, DatastoreOrder, VMOrder, HostOrder
  <2>3. CASE Lacks(m, w[i]) /\ w[i] # None
    <3>1. of(w[i]) = Fail
      BY <1>1, <2>1, <2>3, LackingItems
    <3>2. NotBetter(m, of(v[i]), of(v[i]))
      BY <1>1, <2>1, DatastoreOrder, VMOrder, HostOrder
    <3>3. IsVerdict(of(v[i]))
      BY <3>2 DEF NotBetter
    <3> QED
      BY <2>1, <3>1, <3>3, WorstOrSame
  <2> QED
    BY <2>1, <2>2, <2>3
<1> HIDE DEF I, fits, of
<1>8. CASE ItemAt(w, I) = None /\ ItemAt(v, I) = None
  BY <1>1, <1>4, <1>5, <1>8, WorstOrSame, PlainVerdicts
<1>9. ASSUME NEW i \in I, ItemAt(w, I) = w[i], ItemAt(v, I) = v[i]
      PROVE  NotBetter(m, VSphere(m, w), VSphere(m, v))
  <2>1. VSphere(m, w) = (IF Ambiguous(m, v) THEN Fail ELSE of(w[i]))
    BY <1>1, <1>4, <1>5, <1>6, <1>7, <1>9
  <2>2. VSphere(m, v) = (IF Ambiguous(m, v) THEN Fail ELSE of(v[i]))
    BY <1>1, <1>4, <1>5, <1>7, <1>9
  <2> QED
    BY <1>7, <2>1, <2>2, WorstOrSame, PlainVerdicts
<1>10. \/ ItemAt(w, I) = None /\ ItemAt(v, I) = None
       \/ \E i \in I : ItemAt(w, I) = w[i] /\ ItemAt(v, I) = v[i]
  BY <1>1, <1>4, SamePlace
<1> QED
  BY <1>8, <1>9, <1>10

-----------------------------------------------------------------------------
(* All pools *)

\* The worst of some results is one of them, and no better than any.
LEMMA WorstOf ==
  ASSUME NEW S \in SUBSET Results, S # {}
  PROVE  Worst(S) \in S /\ \A r \in S : Rank[r] <= Rank[Worst(S)]
<1>1. \E r \in S : \A s \in S : Rank[s] <= Rank[r]
  <2>1. CASE "fail" \in S
    BY <2>1, Ranks
  <2>2. CASE "fail" \notin S /\ "warn" \in S
    BY <2>2, Ranks DEF Results
  <2>3. CASE "fail" \notin S /\ "warn" \notin S
    <3>1. \A r \in S : r = "ok"
      BY <2>3 DEF Results
    <3>2. PICK r \in S : TRUE
      OBVIOUS
    <3>3. r \in S /\ \A s \in S : Rank[s] <= Rank[r]
      BY <3>1, <3>2, Ranks
    <3> QED
      BY <3>3
  <2> QED
    BY <2>1, <2>2, <2>3
<1> QED
  BY <1>1 DEF Worst

\* The worst state, and the fullest pool.
LEMMA PoolsParts ==
  ASSUME NEW n \in Nat \ {0}, NEW s, s \in Seq(Range(s)), Len(s) = n,
         \A i \in 1..n : PoolState(s[i]) \in Results /\ PoolUsed(s[i]) \in Int \union {None}
  PROVE  LET used == {PoolUsed(s[i]) : i \in 1..n} \ {None}
         IN  /\ Pools(s) = CheckResult(WorstPool(s), IF used = {} THEN None ELSE Max(used))
             /\ WorstPool(s) \in Results
             /\ \E i \in 1..n : WorstPool(s) = PoolState(s[i])
             /\ \A i \in 1..n : Rank[PoolState(s[i])] <= Rank[WorstPool(s)]
             /\ used # {} => /\ Max(used) \in used /\ Max(used) \in Int
                             /\ \A x \in used : Max(used) >= x
<1> DEFINE all    == {PoolUsed(s[i]) : i \in 1..n}
           used   == all \ {None}
           states == {PoolState(s[i]) : i \in 1..n}
<1>1. DOMAIN s = 1..n /\ Range(s) = {s[i] : i \in 1..n} /\ s # <<>>
  BY LenProperties, EmptySeq DEF Range
<1>2. /\ {PoolUsed(p) : p \in Range(s)} = all
      /\ {PoolState(p) : p \in Range(s)} = states
  BY <1>1
<1>3. Pools(s) = CheckResult(WorstPool(s), IF used = {} THEN None ELSE Max(used)) /\ WorstPool(s) = Worst(states)
  BY <1>1, <1>2 DEF Pools, WorstPool
<1>4. IsFiniteSet(all)
  <2> DEFINE f == [i \in 1..n |-> PoolUsed(s[i])]
  <2>1. all = {f[i] : i \in 1..n}
    OBVIOUS
  <2> HIDE DEF all, f
  <2> QED
    BY <2>1, ListIsFinite
<1>5. states \in SUBSET Results /\ states # {} /\ \A i \in 1..n : PoolState(s[i]) \in states
  BY <1>1
<1>6. IsFiniteSet(used) /\ used \in SUBSET Int
  BY <1>4, FS_Subset
<1>7. /\ Worst(states) \in states /\ Worst(states) \in Results
      /\ \A i \in 1..n : Rank[PoolState(s[i])] <= Rank[Worst(states)]
  <2> HIDE DEF states
  <2> QED
    BY <1>5, WorstOf
<1>8. used # {} => /\ Max(used) \in used /\ Max(used) \in Int
                   /\ \A x \in used : Max(used) >= x
  <2> HIDE DEF used
  <2> QED
    BY <1>6, LargestOf
<1>9. \E i \in 1..n : Worst(states) = PoolState(s[i])
  BY <1>7
<1> HIDE DEF states
<1> QED
  BY <1>3, <1>7, <1>8, <1>9

\* All pools: no better when a pool is worse or there is one more, and no better than
\* any pool.
LEMMA PoolsOrder ==
  ASSUME NEW m, NEW w, NEW v, AllList(m, w, v), m.type = "truenas", m.mode = "pools"
  PROVE  /\ NotBetter(m, Pools(w), Pools(v))
         /\ \A p \in Range(v) : NotBetter(m, Pools(v), Pool(p))
<1> DEFINE k == Len(w)
           n == Len(v)
           usedOf(s, size) == {PoolUsed(s[i]) : i \in 1..size} \ {None}
           fullest(s, size) == IF usedOf(s, size) = {} THEN None ELSE Max(usedOf(s, size))
<1>1. /\ k \in Nat /\ n \in Nat \ {0} /\ Toward(m) = "above" /\ None \notin Int
      /\ w \in Seq(Range(w)) /\ v \in Seq(Range(v)) /\ Range(v) = {v[i] : i \in 1..n}
  BY LenProperties, EmptySeq DEF AllList, BothList, Toward, Range
<1>2. /\ \A i \in 1..k : PoolState(w[i]) \in Results /\ PoolUsed(w[i]) \in Int \union {None}
      /\ \A i \in 1..n : PoolState(v[i]) \in Results /\ PoolUsed(v[i]) \in Int \union {None}
  <2>1. /\ \A i \in 1..k : BothAnswer(m, w[i], w[i])
        /\ \A i \in 1..n : BothAnswer(m, v[i], v[i])
    BY NothingLacks DEF AllList, BothList, Beside
  <2> QED
    BY <2>1, PoolOrder
<1>3. ASSUME NEW i \in 1..n
      PROVE  \E j \in 1..k :
               /\ Rank[PoolState(w[j])] >= Rank[PoolState(v[i])]
               /\ \/ PoolUsed(w[j]) = PoolUsed(v[i])
                  \/ PoolUsed(w[j]) \in Int /\ PoolUsed(v[i]) \in Int /\ PoolUsed(w[j]) >= PoolUsed(v[i])
  <2>1. PICK j \in 1..k : BothAnswer(m, w[j], v[i])
    BY DEF AllList
  <2>2. /\ Rank[PoolState(w[j])] >= Rank[PoolState(v[i])]
        /\ \/ PoolUsed(w[j]) = PoolUsed(v[i])
           \/ PoolUsed(w[j]) \in Int /\ PoolUsed(v[i]) \in Int /\ PoolUsed(w[j]) >= PoolUsed(v[i])
    BY <2>1, PoolOrder
  <2> QED
    BY <2>2
<1>4. k \in Nat \ {0}
  <2>1. 1 \in 1..n
    BY <1>1
  <2>2. PICK j \in 1..k : TRUE
    BY <1>3, <2>1
  <2> QED
    BY <1>1, <2>2
<1>5. /\ Pools(w) = CheckResult(WorstPool(w), fullest(w, k))
      /\ WorstPool(w) \in Results
      /\ \A i \in 1..k : Rank[PoolState(w[i])] <= Rank[WorstPool(w)]
      /\ usedOf(w, k) # {} => /\ Max(usedOf(w, k)) \in Int /\ \A x \in usedOf(w, k) : Max(usedOf(w, k)) >= x
  BY <1>1, <1>2, <1>4, PoolsParts
<1>6. /\ Pools(v) = CheckResult(WorstPool(v), fullest(v, n))
      /\ WorstPool(v) \in Results
      /\ \E i \in 1..n : WorstPool(v) = PoolState(v[i])
      /\ \A i \in 1..n : Rank[PoolState(v[i])] <= Rank[WorstPool(v)]
      /\ usedOf(v, n) # {} => /\ Max(usedOf(v, n)) \in usedOf(v, n) /\ Max(usedOf(v, n)) \in Int
                              /\ \A x \in usedOf(v, n) : Max(usedOf(v, n)) >= x
  BY <1>1, <1>2, PoolsParts
<1>7. Rank[WorstPool(w)] >= Rank[WorstPool(v)]
  <2>1. PICK i \in 1..n : WorstPool(v) = PoolState(v[i])
    BY <1>6
  <2>2. PICK j \in 1..k : Rank[PoolState(w[j])] >= Rank[PoolState(v[i])]
    BY <1>3
  <2>3. /\ Rank[PoolState(w[j])] <= Rank[WorstPool(w)]
        /\ PoolState(w[j]) \in Results /\ PoolState(v[i]) \in Results /\ WorstPool(w) \in Results
    BY <1>2, <1>5
  <2> QED
    BY <2>1, <2>2, <2>3, Ranks
<1>8. NoCloser(m, fullest(w, k), fullest(v, n))
  <2>1. CASE usedOf(v, n) = {}
    BY <2>1 DEF NoCloser
  <2>2. CASE usedOf(v, n) # {}
    <3>1. PICK i \in 1..n : Max(usedOf(v, n)) = PoolUsed(v[i]) /\ PoolUsed(v[i]) # None
      BY <1>6, <2>2
    <3>2. PICK j \in 1..k :
             \/ PoolUsed(w[j]) = PoolUsed(v[i])
             \/ PoolUsed(w[j]) \in Int /\ PoolUsed(v[i]) \in Int /\ PoolUsed(w[j]) >= PoolUsed(v[i])
      BY <1>3
    <3>3. /\ PoolUsed(w[j]) \in Int /\ PoolUsed(v[i]) \in Int /\ PoolUsed(w[j]) >= PoolUsed(v[i])
          /\ PoolUsed(w[j]) \in usedOf(w, k)
      BY <1>1, <1>2, <3>1, <3>2
    <3> HIDE DEF usedOf
    <3>4. Max(usedOf(w, k)) \in Int /\ Max(usedOf(w, k)) >= PoolUsed(w[j]) /\ usedOf(w, k) # {}
      BY <1>5, <3>3
    <3>5. Max(usedOf(w, k)) >= Max(usedOf(v, n)) /\ Max(usedOf(v, n)) \in Int
      BY <3>1, <3>3, <3>4
    <3> QED
      BY <1>1, <2>2, <3>4, <3>5 DEF NoCloser
  <2> QED
    BY <2>1, <2>2
<1>9. ASSUME NEW i \in 1..n PROVE NotBetter(m, Pools(v), Pool(v[i]))
  <2>1. NoCloser(m, fullest(v, n), PoolUsed(v[i]))
    <3>1. CASE PoolUsed(v[i]) = None
      BY <3>1 DEF NoCloser
    <3>2. CASE PoolUsed(v[i]) # None
      <4>1. PoolUsed(v[i]) \in usedOf(v, n) /\ PoolUsed(v[i]) \in Int
        BY <1>2, <3>2
      <4> HIDE DEF usedOf
      <4>2. usedOf(v, n) # {} /\ Max(usedOf(v, n)) \in Int /\ Max(usedOf(v, n)) >= PoolUsed(v[i])
        BY <1>6, <4>1
      <4> QED
        BY <1>1, <4>1, <4>2 DEF NoCloser
    <3> QED
      BY <3>1, <3>2
  <2> HIDE DEF fullest
  <2>2. Rank[WorstPool(v)] >= Rank[PoolState(v[i])]
    BY <1>2, <1>6, Ranks
  <2> QED
    BY <1>2, <1>6, <2>1, <2>2, BothWorse DEF Pool
<1> HIDE DEF fullest, n, k
<1>10. NotBetter(m, Pools(w), Pools(v))
  <2>1. WorstPool(w) \in Results /\ WorstPool(v) \in Results
    BY <1>5, <1>6
  <2>2. NotBetter(m, CheckResult(WorstPool(w), fullest(w, k)), CheckResult(WorstPool(v), fullest(v, n)))
    BY <1>7, <1>8, <2>1, BothWorse
  <2> QED
    BY <1>5, <1>6, <2>2
<1>11. \A p \in Range(v) : NotBetter(m, Pools(v), Pool(p))
  BY <1>1, <1>9
<1> QED
  BY <1>10, <1>11

-----------------------------------------------------------------------------
(* All devices, and one of them *)

\* The addresses of some devices.
AddressesOf(some) == {d.mac : d \in some}

\* Each of some devices has an address of its own.
OwnAddresses(some) == \A d, e \in some : d.mac = e.mac => d = e

\* Devices with addresses of their own are as many as their addresses.
LEMMA AddressesCounted ==
  ASSUME NEW S, IsFiniteSet(S), OwnAddresses(S)
  PROVE  IsFiniteSet(AddressesOf(S)) /\ Cardinality(AddressesOf(S)) = Cardinality(S)
<1> DEFINE g == [d \in S |-> d.mac]
           T == AddressesOf(S)
<1>1. \A d, e \in S : g[d] = g[e] => d = e
  BY DEF OwnAddresses
<1>2. g \in [S -> T] /\ \A x \in T : \E d \in S : g[d] = x
  BY DEF AddressesOf
<1> HIDE DEF g, T
<1>3. g \in Injection(S, T)
  BY <1>1, <1>2 DEF Injection, IsInjective
<1>4. g \in Surjection(S, T)
  BY <1>2 DEF Surjection
<1>5. g \in Bijection(S, T)
  BY <1>3, <1>4 DEF Bijection
<1>6. ExistsBijection(S, T)
  BY <1>5 DEF ExistsBijection
<1>7. IsFiniteSet(T) /\ Cardinality(T) = Cardinality(S)
  BY <1>4, <1>6, FS_Bijection, FS_Surjection
<1> QED
  BY <1>7 DEF T

\* The devices of a sound list.
LEMMA DevicesOfList ==
  ASSUME NEW m, NEW v, BothList(m, v, v), m.type = "unifi"
  PROVE  /\ IsFiniteSet(Range(v)) /\ OwnAddresses(Range(v))
         /\ \A d \in Range(v) : \E i \in 1..Len(v) : d = v[i]
         /\ \A i \in 1..Len(v) : v[i] \in Range(v)
<1>1. Len(v) \in Nat /\ Range(v) = {v[i] : i \in 1..Len(v)}
  BY LenProperties DEF BothList, Range
<1>2. IsFiniteSet(Range(v))
  BY <1>1, ListIsFinite
<1>3. OwnAddresses(Range(v))
  <2>1. \A i, j \in 1..Len(v) : v[i].mac = v[j].mac => i = j
    BY DEF BothList
  <2> QED
    BY <1>1, <2>1 DEF OwnAddresses
<1> QED
  BY <1>1, <1>2, <1>3

\* If each of some devices has a counterpart with its address, there are no more of them.
LEMMA NoFewer ==
  ASSUME NEW S, NEW T, IsFiniteSet(S), IsFiniteSet(T), OwnAddresses(S), OwnAddresses(T),
         \A d \in S : \E e \in T : e.mac = d.mac
  PROVE  Cardinality(S) \in Nat /\ Cardinality(T) \in Nat /\ Cardinality(T) >= Cardinality(S)
<1>1. AddressesOf(S) \subseteq AddressesOf(T)
  BY DEF AddressesOf
<1>2. /\ Cardinality(AddressesOf(S)) = Cardinality(S)
      /\ IsFiniteSet(AddressesOf(T)) /\ Cardinality(AddressesOf(T)) = Cardinality(T)
  BY AddressesCounted
<1> QED
  BY <1>1, <1>2, MoreAreMore

\* All devices of a list, or those with firmware to update.
LEMMA UniFiAllOrder ==
  ASSUME NEW m, NEW w, NEW v, AllList(m, w, v), m.type = "unifi"
  PROVE  NotBetter(m, UniFi(m, w), UniFi(m, v))
<1>1. /\ w # None /\ v # None /\ Toward(m) = "above" /\ m.mode \in {"devices", "cameras", "firmware"}
      /\ m.mode = "firmware" \/ m.mode \in {"devices", "cameras"}
      /\ BothList(m, w, w) /\ BothList(m, v, v) /\ OfAll(m)
  BY DEF AllList, BothList, Monitors, Known, OfLists, OfAll, OfOne, Toward, BothAnswer
<1> DEFINE bad(d) == IF m.mode = "firmware" THEN d.updatable ELSE d.state # Good(m)
           counted(r) == {d \in Range(r) : d.name \notin m.ignore /\ bad(d)}
<1>2. ASSUME NEW d \in counted(v) PROVE \E e \in counted(w) : e.mac = d.mac
  <2>1. PICK i \in 1..Len(v) : d = v[i]
    BY <1>1, DevicesOfList
  <2>2. PICK j \in 1..Len(w) : BothAnswer(m, w[j], v[i])
    BY DEF AllList
  <2>3. w[j].name = v[i].name /\ w[j].mac = v[i].mac
    <3>1. {"name", "mac"} \subseteq Fields(m) /\ "name" \notin Compared /\ "mac" \notin Compared
      BY <1>1 DEF Fields, TypeFields, ModeFields, DeviceFields, Compared, Burdens, Reserves, Assets, Troubles
    <3> QED
      BY <2>2, <3>1, FieldOrder DEF BothAnswer
  <2>4. bad(v[i]) => bad(w[j])
    <3>1. CASE m.mode = "firmware"
      <4>1. "updatable" \in Fields(m)
        BY <3>1 DEF Fields, TypeFields, ModeFields
      <4>2. v[i].updatable => w[j].updatable
        BY <2>2, <4>1, FieldOrder DEF BothAnswer, Troubles
      <4> QED
        BY <3>1, <4>2
    <3>2. CASE m.mode \in {"devices", "cameras"}
      <4>1. "state" \in Fields(m) /\ FineFor(m, "state") = {Good(m)}
        BY <3>2 DEF Fields, TypeFields, ModeFields, DeviceFields, FineFor
      <4>2. w[j].state = v[i].state \/ v[i].state = Good(m)
        BY <2>2, <4>1, FieldOrder DEF BothAnswer
      <4> QED
        BY <3>2, <4>2
    <3> QED
      BY <1>1, <3>1, <3>2
  <2>5. w[j] \in Range(w)
    BY <1>1, DevicesOfList
  <2> HIDE DEF bad
  <2>6. w[j] \in counted(w)
    BY <2>1, <2>3, <2>4, <2>5
  <2> QED
    BY <2>1, <2>3, <2>6
<1>3. /\ IsFiniteSet(counted(v)) /\ OwnAddresses(counted(v))
      /\ IsFiniteSet(counted(w)) /\ OwnAddresses(counted(w))
  <2>1. /\ IsFiniteSet(Range(v)) /\ OwnAddresses(Range(v))
        /\ IsFiniteSet(Range(w)) /\ OwnAddresses(Range(w))
    BY <1>1, DevicesOfList
  <2>2. counted(v) \subseteq Range(v) /\ counted(w) \subseteq Range(w)
    OBVIOUS
  <2> HIDE DEF counted
  <2> QED
    BY <2>1, <2>2, FS_Subset DEF OwnAddresses
<1>4. ASSUME NEW result \in Results
      PROVE  NotBetter(m, Counted(m.th, Cardinality(counted(w)), result), Counted(m.th, Cardinality(counted(v)), result))
  <2> HIDE DEF counted
  <2>1. /\ Cardinality(counted(v)) \in Nat /\ Cardinality(counted(w)) \in Nat
        /\ Cardinality(counted(w)) >= Cardinality(counted(v))
    BY <1>2, <1>3, NoFewer
  <2> QED
    BY <1>1, <2>1, CountedOrder
<1>5. "fail" \in Results /\ "warn" \in Results
  BY DEF Results
<1>6. CASE m.mode \in {"devices", "cameras"}
  <2>1. Down(m, w) = counted(w) /\ Down(m, v) = counted(v)
    BY <1>6 DEF Down
  <2> HIDE DEF counted
  <2> QED
    BY <1>1, <1>4, <1>5, <1>6, <2>1 DEF UniFi
<1>7. CASE m.mode = "firmware"
  <2>1. /\ {d \in Range(w) : d.updatable /\ d.name \notin m.ignore} = counted(w)
        /\ {d \in Range(v) : d.updatable /\ d.name \notin m.ignore} = counted(v)
    BY <1>7
  <2> HIDE DEF counted
  <2> QED
    BY <1>1, <1>4, <1>5, <1>7, <2>1 DEF UniFi
<1> QED
  BY <1>1, <1>6, <1>7

\* One device of a list.
LEMMA UniFiOneOrder ==
  ASSUME NEW m, NEW w, NEW v, BothList(m, w, v), OfOne(m), m.type = "unifi"
  PROVE  NotBetter(m, UniFi(m, w), UniFi(m, v))
<1> DEFINE fits(r) == {i \in 1..Len(r) : m.device \in {r[i].name, r[i].mac}}
           I       == fits(v)
<1>1. /\ Len(w) = Len(v) /\ w # None /\ v # None /\ Len(v) \in Nat
      /\ m.mode \in {"device", "camera", "device_cpu", "device_memory"}
  BY LenProperties DEF BothList, Monitors, Known, OfOne
<1>2. \A i \in 1..Len(v) : BothSound(m, w[i], v[i])
  BY DEF BothList, Beside
<1>3. \A i \in 1..Len(v) : w[i].name = v[i].name /\ w[i].mac = v[i].mac
  <2>1. \A x \in {"name", "mac"} : x \in Fields(m) /\ x \notin Compared /\ x \notin Required(m)
    BY <1>1 DEF Fields, TypeFields, ModeFields, DeviceFields, Compared, Burdens, Reserves, Assets, Troubles, Required
  <2> QED
    BY <1>2, <2>1, SameField
<1>4. fits(w) = I /\ fits(v) = I /\ I \subseteq 1..Len(v)
  BY <1>1, <1>3
<1>5. /\ FirstOf(w, LAMBDA d : m.device \in {d.name, d.mac}) = ItemAt(w, fits(w))
      /\ FirstOf(v, LAMBDA d : m.device \in {d.name, d.mac}) = ItemAt(v, fits(v))
  BY DEF FirstOf, SelectInSeq, ItemAt
<1> HIDE DEF I, fits
<1>6. UniFi(m, w) = Device(m, ItemAt(w, I)) /\ UniFi(m, v) = Device(m, ItemAt(v, I))
  BY <1>1, <1>4, <1>5 DEF UniFi
<1>7. CASE ItemAt(w, I) = None /\ ItemAt(v, I) = None
  BY <1>6, <1>7, WorstOrSame, PlainVerdicts DEF Device
<1>8. ASSUME NEW i \in I, ItemAt(w, I) = w[i], ItemAt(v, I) = v[i]
      PROVE  NotBetter(m, UniFi(m, w), UniFi(m, v))
  <2>1. /\ BothAnswer(m, w[i], v[i]) \/ (Lacks(m, w[i]) /\ w[i] # None)
        /\ BothAnswer(m, v[i], v[i]) /\ None \notin Int
    BY <1>2, <1>4, EitherWay DEF BothSound
  <2>2. CASE BothAnswer(m, w[i], v[i])
    BY <1>1, <1>6, <1>8, <2>2, DeviceOrder
  <2>3. CASE Lacks(m, w[i]) /\ w[i] # None
    <3>1. Device(m, w[i]) = Fail
      BY <1>1, <2>1, <2>3, LackingItems
    <3>2. IsVerdict(Device(m, v[i]))
      BY <1>1, <2>1, DeviceOrder DEF NotBetter
    <3> QED
      BY <1>6, <1>8, <3>1, <3>2, WorstOrSame
  <2> QED
    BY <2>1, <2>2, <2>3
<1>9. \/ ItemAt(w, I) = None /\ ItemAt(v, I) = None
      \/ \E i \in I : ItemAt(w, I) = w[i] /\ ItemAt(v, I) = v[i]
  BY <1>1, <1>4, SamePlace
<1> QED
  BY <1>7, <1>8, <1>9

\* A device or a camera that is not fine makes all of them fail.
LEMMA AllOfThemFail ==
  ASSUME NEW m, NEW v, BothList(m, v, v), m.type = "unifi", m.mode \in {"devices", "cameras"}, m.th = None,
         NEW d \in Range(v), d.name \notin m.ignore, d.state # Good(m)
  PROVE  UniFi(m, v).result = "fail"
<1>1. v # None /\ Len(v) \in Nat /\ Range(v) = {v[i] : i \in 1..Len(v)}
  BY LenProperties DEF BothList, Range
<1>2. IsFiniteSet(Range(v))
  BY <1>1, ListIsFinite
<1>3. IsFiniteSet(Down(m, v)) /\ d \in Down(m, v)
  BY <1>2, FS_Subset DEF Down
<1>4. Cardinality(Down(m, v)) \in Nat /\ Cardinality(Down(m, v)) # 0
  BY <1>3, FS_CardinalityType, FS_EmptySet
<1>5. Counted(m.th, Cardinality(Down(m, v)), "fail").result = "fail"
  BY <1>4 DEF Counted, CheckResult
<1> QED
  BY <1>1, <1>5 DEF UniFi

-----------------------------------------------------------------------------
(* Every type *)

\* Every check whose reply is one record.
LEMMA RecordsKeepOrder ==
  ASSUME NEW m, NEW w, NEW v, BothAnswer(m, w, v), ~ OfSets(m), ~ OfLists(m),
         m.type = "docker" => IsFiniteSet(w.containers), m.type # "homeassistant"
  PROVE  NotBetter(m, Probed(m, w), Probed(m, v))
<1>1. Known(m) /\ w # None /\ v # None
  BY DEF BothAnswer, Monitors
<1>2. CASE m.type \in {"ping", "tcp", "http", "dns", "tls_cert", "mqtt"}
  <2>1. CASE m.type = "ping"
    BY <2>1, PingOrder DEF Probed
  <2>2. CASE m.type = "tcp"
    BY <2>2, TcpOrder DEF Probed
  <2>3. CASE m.type = "http"
    BY <2>3, HttpOrder DEF Probed
  <2>4. CASE m.type = "dns"
    BY <2>4, DnsOrder DEF Probed
  <2>5. CASE m.type = "tls_cert"
    BY <2>5, TlsCertOrder DEF Probed
  <2>6. CASE m.type = "mqtt"
    BY <2>6, MqttOrder DEF Probed
  <2> QED
    BY <1>2, <2>1, <2>2, <2>3, <2>4, <2>5, <2>6
<1>3. CASE m.type = "snmp"
  <2>1. m.mode \in {"oid", "cpu", "memory"}
    BY <1>1, <1>3 DEF Known
  <2> QED
    BY <1>3, <2>1, OidOrder, SnmpCpuOrder, SnmpMemoryOrder DEF Probed
<1>4. CASE m.type = "linux"
  <2>1. m.mode \in {"cpu", "memory", "disk", "load", "service", "command"}
    BY <1>1, <1>4 DEF Known
  <2> QED
    BY <1>4, <2>1, LinuxCpuOrder, LinuxMemoryOrder, DiskOrder, LoadOrder, ServiceOrder, CommandOrder DEF Probed
<1>5. CASE m.type = "winrm"
  <2>1. m.mode \in {"service", "command"}
    BY <1>1, <1>5 DEF Known
  <2> QED
    BY <1>5, <2>1, ServiceOrder, CommandOrder DEF Probed
<1>6. CASE m.type = "wmi"
  BY <1>6, WmiOrder DEF Probed
<1>7. CASE m.type = "docker"
  BY <1>7, SummaryOrder DEF Probed
<1>8. CASE m.type = "unifi"
  <2>1. m.mode = "info"
    BY <1>1, <1>8 DEF OfLists, OfAll, OfOne, Known
  <2> QED
    BY <1>1, <1>8, <2>1, PlainVerdicts, WorstOrSame DEF Probed, UniFi
<1>9. CASE m.type = "technitium"
  BY <1>9, TechnitiumOrder DEF Probed
<1> QED
  BY <1>1, <1>2, <1>3, <1>4, <1>5, <1>6, <1>7, <1>8, <1>9 DEF Known, OfLists, OfAll, OfOne, OfSets

\* A record that lacks what the monitor is about fails.
LEMMA LackingRecords ==
  ASSUME NEW m, NEW w, w # None, Lacks(m, w), Known(m), ~ OfLists(m)
  PROVE  Probed(m, w) = Fail
<1>1. PICK name \in Required(m) : w[name] = None
  BY DEF Lacks
<1>2. CASE m.type = "mqtt"
  <2>1. m.topic /\ (w.message = None \/ (m.numeric /\ w.number = None))
    BY <1>1, <1>2 DEF Required
  <2>2. Mqtt(m, w) = Fail
    BY <2>1 DEF Mqtt
  <2> QED
    BY <1>2, <2>2 DEF Probed
<1>3. CASE m.type = "snmp"
  <2>1. m.mode = "oid" /\ w.raw = None
    BY <1>1, <1>3 DEF Required
  <2>2. Oid(w) = Fail
    BY <2>1 DEF Oid
  <2> QED
    BY <1>3, <2>1, <2>2 DEF Probed
<1>4. CASE m.type = "linux"
  <2>1. CASE m.mode = "memory"
    <3>1. LinuxMemory(w) = Fail
      BY <1>1, <1>4, <2>1 DEF Required, LinuxMemory
    <3> QED
      BY <1>4, <2>1, <3>1 DEF Probed
  <2>2. CASE m.mode = "command"
    <3>1. Command(w) = Fail
      BY <1>1, <1>4, <2>2 DEF Required, Command
    <3> QED
      BY <1>4, <2>2, <3>1 DEF Probed
  <2> QED
    BY <1>1, <1>4, <2>1, <2>2 DEF Required
<1>5. CASE m.type = "winrm"
  <2>1. m.mode = "command"
    BY <1>1, <1>5 DEF Required
  <2>2. Command(w) = Fail
    BY <1>1, <1>5, <2>1 DEF Required, Command
  <2> QED
    BY <1>5, <2>1, <2>2 DEF Probed
<1>6. ~ (m.type \in {"proxmox", "vsphere"}) /\ ~ (m.type = "unifi" /\ m.mode # "info")
  BY DEF OfLists, OfAll, OfOne, Known
<1>7. m.type \in {"mqtt", "snmp", "linux", "winrm"}
  BY <1>1, <1>6 DEF Required
<1> QED
  BY <1>2, <1>3, <1>4, <1>5, <1>7

\* Every check of one item of a list.
LEMMA OneKeepsOrder ==
  ASSUME NEW m, NEW w, NEW v, BothList(m, w, v), OfOne(m)
  PROVE  NotBetter(m, Probed(m, w), Probed(m, v))
<1>1. CASE m.type = "truenas" /\ m.mode = "pool"
  BY <1>1, TrueNASPoolOrder DEF Probed
<1>2. CASE m.type = "proxmox"
  BY <1>2, ProxmoxOrder DEF Probed
<1>3. CASE m.type = "vsphere"
  BY <1>3, VSphereOrder DEF Probed
<1>4. CASE m.type = "unifi"
  BY <1>4, UniFiOneOrder DEF Probed
<1> QED
  BY <1>1, <1>2, <1>3, <1>4 DEF OfOne

\* Every check of all items of a list.
LEMMA AllKeepOrder ==
  ASSUME NEW m, NEW w, NEW v, AllList(m, w, v)
  PROVE  NotBetter(m, Probed(m, w), Probed(m, v))
<1>1. CASE m.type = "truenas" /\ m.mode = "pools"
  <2>1. Probed(m, w) = Pools(w) /\ Probed(m, v) = Pools(v)
    BY <1>1 DEF Probed, TrueNAS, AllList, BothList
  <2> QED
    BY <1>1, <2>1, PoolsOrder
<1>2. CASE m.type = "unifi"
  BY <1>2, UniFiAllOrder DEF Probed
<1> QED
  BY <1>1, <1>2 DEF AllList, OfAll

\* Nothing is found in an empty list.
LEMMA EmptyListFails ==
  ASSUME NEW m, Known(m), OfOne(m) \/ (OfAll(m) /\ m.type = "truenas")
  PROVE  Probed(m, <<>>) = Fail
<1>1. ItemAt(<<>>, {}) = None
  BY DEF ItemAt
<1>2. CASE m.type = "truenas" /\ m.mode = "pools"
  BY <1>2 DEF Probed, TrueNAS, Pools
<1>3. CASE m.type = "truenas" /\ m.mode = "pool"
  <2>1. FirstOf(<<>>, LAMBDA x : x.name = m.pool) = None
    BY DEF FirstOf, SelectInSeq
  <2> QED
    BY <1>3, <2>1 DEF Probed, TrueNAS
<1>4. CASE m.type = "proxmox"
  BY <1>4 DEF Probed, Proxmox
<1>5. CASE m.type = "vsphere"
  <2>1. FirstOf(<<>>, LAMBDA x : m.entity \in {None, x.name}) = None
    BY DEF FirstOf, SelectInSeq
  <2> QED
    BY <1>5, <2>1 DEF Probed, VSphere
<1>6. CASE m.type = "unifi" /\ OfOne(m)
  <2>1. FirstOf(<<>>, LAMBDA d : m.device \in {d.name, d.mac}) = None
    BY DEF FirstOf, SelectInSeq
  <2>2. m.mode \in {"device", "camera", "device_cpu", "device_memory"}
    BY <1>6 DEF Known, OfOne
  <2> QED
    BY <1>6, <2>1, <2>2 DEF Probed, UniFi, Device
<1> QED
  BY <1>2, <1>3, <1>4, <1>5, <1>6 DEF OfOne, OfAll

\* A check of a list makes a verdict of it.
LEMMA ListVerdict ==
  ASSUME NEW m, NEW v, BothList(m, v, v)
  PROVE  IsVerdict(Probed(m, v))
<1>1. OfOne(m) \/ OfAll(m)
  BY DEF BothList, OfLists
<1>2. CASE OfOne(m)
  BY <1>2, OneKeepsOrder DEF NotBetter
<1>3. CASE OfAll(m)
  <2>1. CASE m.type = "truenas" /\ v = <<>>
    BY <1>3, <2>1, EmptyListFails, PlainVerdicts DEF BothList, Monitors
  <2>2. CASE ~ (m.type = "truenas" /\ v = <<>>)
    <3>1. \A i \in 1..Len(v) : BothAnswer(m, v[i], v[i])
      BY <1>3, NothingLacks DEF BothList, Beside, OfAll
    <3>2. AllList(m, v, v)
      BY <1>3, <2>2, <3>1 DEF AllList
    <3> QED
      BY <3>2, AllKeepOrder DEF NotBetter
  <2> QED
    BY <2>1, <2>2
<1> QED
  BY <1>1, <1>2, <1>3

\* Every check, when there is an answer.
LEMMA AnswersKeepOrder ==
  ASSUME None \notin Int, NEW m, Monitors(m), NEW w, NEW v, w # None,
         ReplySound(m, w), ReplySound(m, v), NoBetter(m, w, v)
  PROVE  NotBetter(m, Probed(m, w), Probed(m, v))
<1>1. v # None /\ Known(m)
  BY DEF NoBetter, Monitors
<1>2. CASE OfOne(m)
  <2>1. OfLists(m)
    BY <1>2 DEF OfLists
  <2>2. CASE w = <<>>
    <3>1. IsVerdict(Probed(m, v))
      BY <1>1, <2>1, ListWithItself, ListVerdict
    <3> QED
      BY <1>1, <1>2, <2>2, <3>1, EmptyListFails, WorstOrSame
  <2>3. CASE w # <<>>
    BY <1>2, <2>3, ListsAre, OneKeepsOrder
  <2> QED
    BY <2>2, <2>3
<1>3. CASE OfAll(m)
  <2>1. BothList(m, v, v) /\ ((m.type = "truenas" /\ w = <<>>) \/ AllList(m, w, v))
    BY <1>3, AllListsAre
  <2>2. CASE m.type = "truenas" /\ w = <<>>
    BY <1>1, <1>3, <2>1, <2>2, EmptyListFails, ListVerdict, WorstOrSame
  <2>3. CASE AllList(m, w, v)
    BY <2>3, AllKeepOrder
  <2> QED
    BY <2>1, <2>2, <2>3
<1>4. CASE m.type = "truenas" /\ m.mode = "alerts"
  <2>1. v \subseteq w /\ IsFiniteSet(w) /\ Toward(m) = "above"
    BY <1>1, <1>4 DEF NoBetter, ReplySound, OfSets, OfLists, OfAll, OfOne, Toward
  <2>2. Probed(m, w) = TrueNASAlerts(m, w) /\ Probed(m, v) = TrueNASAlerts(m, v)
    BY <1>1, <1>4 DEF Probed, TrueNAS
  <2> QED
    BY <2>1, <2>2, AlertsOrder
<1>5. CASE m.type = "homeassistant"
  BY <1>5, HomeAssistantOrder DEF Probed
<1>6. CASE ~ OfLists(m) /\ ~ OfSets(m) /\ m.type # "homeassistant"
  <2>1. /\ AsksFor(m, w) /\ AsksFor(m, v)
        /\ m.type = "docker" => IsFiniteSet(w.containers) /\ IsFiniteSet(v.containers)
    BY <1>1, <1>6 DEF ReplySound
  <2>2. NoBetterRecord(m, w, v)
    BY <1>1, <1>6 DEF NoBetter, OfLists, OfSets
  <2>3. BothSound(m, w, v)
    BY <1>1, <2>1, <2>2 DEF BothSound
  <2>4. CASE BothAnswer(m, w, v)
    BY <1>6, <2>1, <2>4, RecordsKeepOrder
  <2>5. CASE Lacks(m, w)
    <3>1. BothAnswer(m, v, v)
      BY <2>3, EitherWay
    <3>2. IsVerdict(Probed(m, v))
      BY <1>6, <2>1, <3>1, RecordsKeepOrder DEF NotBetter
    <3> QED
      BY <1>1, <1>6, <2>5, <3>2, LackingRecords, WorstOrSame
  <2> QED
    BY <2>3, <2>4, <2>5, EitherWay
<1> QED
  BY <1>2, <1>3, <1>4, <1>5, <1>6 DEF OfSets, OfLists

\* What a check makes of a sound reply is a result and a value.
LEMMA ProbedIsVerdict ==
  ASSUME None \notin Int, NEW m, Monitors(m), NEW v, v # None, ReplySound(m, v)
  PROVE  IsVerdict(Probed(m, v))
<1>1. CASE OfLists(m)
  BY <1>1, ListWithItself, ListVerdict
<1>2. CASE ~ OfLists(m)
  <2>1. ~ OfAll(m) /\ ~ OfOne(m) /\ NoBetterRecord(m, v, v)
    BY <1>2 DEF OfLists, NoBetterRecord, NoBetterIn
  <2>2. AtLeast(v.number, v.number)
    BY DEF AtLeast
  <2>3. NoBetter(m, v, v)
    BY <2>1, <2>2 DEF NoBetter
  <2> QED
    BY <2>3, AnswersKeepOrder DEF NotBetter
<1> QED
  BY <1>1, <1>2

\* Without an answer every check fails.
LEMMA NoAnswerFails == ASSUME NEW m, Known(m) PROVE Probed(m, None) = Fail
<1>1. CASE m.type \in {"ping", "tcp", "http", "dns", "tls_cert", "mqtt", "docker", "wmi"}
  BY <1>1 DEF Probed, Ping, Tcp, Http, Dns, TlsCert, Mqtt, Summary, Wmi
<1>2. CASE m.type = "snmp"
  BY <1>2 DEF Known, Probed, Oid, SnmpCpu, SnmpMemory
<1>3. CASE m.type = "linux"
  <2>1. m.mode \in {"cpu", "memory", "disk", "load", "service", "command"}
    BY <1>3 DEF Known
  <2> QED
    BY <1>3, <2>1 DEF Probed, LinuxCpu, LinuxMemory, Disk, Load, Service, Command
<1>4. CASE m.type = "winrm"
  BY <1>4 DEF Probed, Service, Command
<1>5. CASE m.type \in {"truenas", "proxmox", "vsphere", "homeassistant", "unifi", "technitium"}
  BY <1>5 DEF Probed, TrueNAS, Proxmox, VSphere, HomeAssistant, UniFi, Technitium
<1> QED
  BY <1>1, <1>2, <1>3, <1>4, <1>5 DEF Known

\* A reply that is no better gets a verdict that is no better.
LEMMA ProbedOrder ==
  ASSUME None \notin Int, NEW m, Monitors(m), NEW w, NEW v,
         ReplySound(m, w), ReplySound(m, v), NoBetter(m, w, v)
  PROVE  NotBetter(m, Probed(m, w), Probed(m, v))
<1>1. Probed(m, None) = Fail
  BY NoAnswerFails DEF Monitors
<1>2. CASE w = None
  <2>1. IsVerdict(Probed(m, v))
    BY <1>1, ProbedIsVerdict, PlainVerdicts
  <2> QED
    BY <1>1, <1>2, <2>1, WorstOrSame
<1>3. CASE w # None
  BY <1>3, AnswersKeepOrder
<1> QED
  BY <1>2, <1>3

-----------------------------------------------------------------------------
(* The monitor *)

\* The verdict is on the last reply, which the monitor may get.
JudgedInv ==
  /\ \E p \in Monitored : p[1] = probed /\ reply \in p[2]
  /\ judged = Judge(probed, reply)

\* The verdict is always on the last reply. (checks/base.py: Check.run)
THEOREM JudgesTheLastReply == RepliesSpec => []JudgedInv
<1>1. RepliesInit => JudgedInv
  BY DEF RepliesInit, JudgedInv
<1>2. JudgedInv /\ [Run]_replyVars => JudgedInv'
  <2>1. ASSUME JudgedInv, Run PROVE JudgedInv'
    <3>1. PICK p \in Monitored : p[1] = probed /\ \E r \in p[2] : Answers(probed, r)
      BY <2>1 DEF Run
    <3>2. PICK r \in p[2] : Answers(probed, r)
      BY <3>1
    <3>3. probed' = probed /\ reply' = r /\ judged' = Judge(probed, r)
      BY <3>2 DEF Answers
    <3>4. judged' = Judge(probed', reply') /\ reply' \in p[2] /\ p[1] = probed'
      BY <3>1, <3>3
    <3>5. Judge(probed', reply') = Judge(probed, reply)'
      BY DEF Judge
    <3> QED
      BY <3>4, <3>5 DEF JudgedInv
  <2>2. ASSUME JudgedInv, UNCHANGED replyVars PROVE JudgedInv'
    <3>1. probed' = probed /\ reply' = reply /\ judged' = judged
      BY <2>2 DEF replyVars
    <3> QED
      BY <2>2, <3>1 DEF JudgedInv
  <2> QED
    BY <2>1, <2>2
<1> QED
  BY <1>1, <1>2, PTL DEF RepliesSpec

\* The monitors of a sensible configuration, and the replies they may get.
LEMMA SensiblePair ==
  ASSUME Sensible, NEW m, NEW r, \E p \in Monitored : p[1] = m /\ r \in p[2]
  PROVE  None \notin Int /\ Monitors(m) /\ ReplySound(m, r)
BY DEF Sensible

\* A reply that is worse in some respects and better in none (NoBetter says in which)
\* never gets a better result, whatever the numbers and however many items there are.
\* (checks/base.py:44-65 and every _probe)
THEOREM WorseNeverBetter == ASSUME Sensible PROVE RepliesSpec => WorseReplyNeverBetter
<1> DEFINE Step == probed' = probed /\ NoBetter(probed, reply', reply) => Rank[judged'.result] >= Rank[judged.result]
<1>1. JudgedInv /\ JudgedInv' => Step
  <2> SUFFICES ASSUME JudgedInv, JudgedInv', probed' = probed, NoBetter(probed, reply', reply)
               PROVE  Rank[judged'.result] >= Rank[judged.result]
    OBVIOUS
  <2>1. None \notin Int /\ Monitors(probed) /\ ReplySound(probed, reply) /\ ReplySound(probed, reply')
    BY SensiblePair DEF JudgedInv
  <2>2. NotBetter(probed, Probed(probed, reply'), Probed(probed, reply))
    BY <2>1, ProbedOrder
  <2>3. Rank[Applied(ThresholdsOf(probed), Probed(probed, reply')).result]
          >= Rank[Applied(ThresholdsOf(probed), Probed(probed, reply)).result]
    BY <2>1, <2>2, ThresholdsKeepOrder DEF Monitors
  <2>4. judged = Judge(probed, reply) /\ judged' = Judge(probed, reply')
    BY DEF JudgedInv, Judge
  <2> QED
    BY <2>3, <2>4 DEF Judge
<1> QED
  BY <1>1, JudgesTheLastReply, PTL DEF WorseReplyNeverBetter

\* A monitor of all pools, and one of a pool with the same thresholds.
LEMMA PoolOfAll ==
  ASSUME NEW m, NEW v, BothList(m, v, v), m.type = "truenas", m.mode = "pools", NEW p \in Range(v)
  PROVE  Rank[Applied(m.th, Pool(p)).result] <= Rank[Judge(m, v).result]
<1>1. NotBetter(m, Pools(v), Pool(p))
  <2>1. \A i \in 1..Len(v) : BothAnswer(m, v[i], v[i])
    BY NothingLacks DEF BothList, Beside
  <2>2. v # <<>> /\ OfAll(m)
    BY DEF Range, OfAll
  <2>3. AllList(m, v, v)
    BY <2>1, <2>2 DEF AllList
  <2> QED
    BY <2>3, PoolsOrder
<1>2. ThresholdsOf(m) = m.th /\ Probed(m, v) = Pools(v)
  BY DEF ThresholdsOf, Probed, TrueNAS, BothList
<1>3. None \notin Int /\ ThresholdsFit(m)
  BY DEF BothList, Monitors
<1>4. /\ Applied(m.th, Pool(p)).result \in Results /\ Applied(m.th, Pools(v)).result \in Results
      /\ Rank[Applied(m.th, Pools(v)).result] >= Rank[Applied(m.th, Pool(p)).result]
  BY <1>1, <1>2, <1>3, ThresholdsKeepOrder
<1> QED
  BY <1>2, <1>4, Ranks DEF Judge

\* A monitor of all devices or cameras, and one of one of them.
LEMMA DeviceOfAll ==
  ASSUME NEW m, NEW v, BothList(m, v, v), m.type = "unifi", m.mode \in {"devices", "cameras"}, m.th = None,
         NEW d \in Range(v), d.name \notin m.ignore
  PROVE  Rank[Applied(m.th, Device(OneOf(m), d)).result] <= Rank[Judge(m, v).result]
<1>1. OneOf(m).mode = IF m.mode = "devices" THEN "device" ELSE "camera"
  BY DEF OneOf, BothList, Monitors, Expects
<1>2. Good(OneOf(m)) = Good(m) /\ Good(m) # "CONNECTING"
  BY <1>1 DEF Good
<1>3. Applied(m.th, Device(OneOf(m), d)) = Device(OneOf(m), d) /\ Judge(m, v) = UniFi(m, v)
  BY DEF Applied, Judge, ThresholdsOf, Probed
<1>4. IsVerdict(Device(OneOf(m), d))
  <2>1. "warn" \in Results /\ IsVerdict(CheckResult("warn", None))
    BY VerdictParts DEF Results
  <2> QED
    BY <2>1, PlainVerdicts DEF Device
<1>5. CASE d.state # Good(m)
  <2>1. UniFi(m, v).result = "fail"
    BY <1>5, AllOfThemFail
  <2> QED
    BY <1>3, <1>4, <2>1, Ranks DEF IsVerdict
<1>6. CASE d.state = Good(m)
  <2>1. d # None
    <3>1. PICK i \in 1..Len(v) : d = v[i]
      BY LenProperties DEF BothList, Range
    <3> QED
      BY <3>1 DEF BothList, BothSound, Beside
  <2>2. Device(OneOf(m), d) = Ok(None)
    BY <1>1, <1>2, <1>6, <2>1 DEF Device
  <2>3. UniFi(m, v).result \in Results
    BY ListVerdict DEF Probed, IsVerdict
  <2> QED
    BY <1>3, <2>2, <2>3, PlainVerdicts, Ranks
<1> QED
  BY <1>5, <1>6

\* A monitor of all pools, devices or cameras is never better off than a monitor of one
\* of them would be, with the same thresholds. (platforms.py:137-164; apps.py:195-217,
\* 240-266)
THEOREM NothingHidden == ASSUME Sensible PROVE RepliesSpec => []AggregateHidesNothing
<1>1. JudgedInv => AggregateHidesNothing
  <2> SUFFICES ASSUME JudgedInv, NEW r \in PartResults PROVE Rank[r] <= Rank[judged.result]
    BY DEF AggregateHidesNothing
  <2>1. None \notin Int /\ Monitors(probed) /\ ReplySound(probed, reply) /\ judged = Judge(probed, reply)
    BY SensiblePair DEF JudgedInv
  <2>2. ASSUME reply # None, OfLists(probed) PROVE BothList(probed, reply, reply)
    BY <2>1, <2>2, ListWithItself
  <2>3. CASE reply # None /\ probed.type = "truenas" /\ probed.mode = "pools"
    <3>1. PICK p \in Range(reply) : r = Applied(probed.th, Pool(p)).result
      BY <2>3 DEF PartResults, PoolResults
    <3> QED
      BY <2>1, <2>2, <2>3, <3>1, PoolOfAll DEF OfLists, OfAll
  <2>4. CASE reply # None /\ probed.type = "unifi" /\ probed.mode \in {"devices", "cameras"} /\ probed.th = None
    <3>1. r \in DeviceResults
      BY <2>4 DEF PartResults
    <3>2. PICK d \in Range(reply) : /\ d.name \notin probed.ignore
                                   /\ r = Applied(probed.th, Device(OneOf(probed), d)).result
      BY <3>1 DEF DeviceResults
    <3> QED
      BY <2>1, <2>2, <2>4, <3>2, DeviceOfAll DEF OfLists, OfAll
  <2> QED
    BY <2>3, <2>4 DEF PartResults
<1> QED
  BY <1>1, JudgesTheLastReply, PTL

=============================================================================
