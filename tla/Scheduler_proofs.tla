--------------------------- MODULE Scheduler_proofs ---------------------------
(***************************************************************************)
(* Safety of the scheduler for every dependency graph, every thresholds    *)
(* and every number of permits: polls are serialised, locks are not waited *)
(* for in a circle, roots are alerted exactly, every alert keeps the       *)
(* promise of module Pager, and no problem is left unreported.             *)
(***************************************************************************)
EXTENDS Scheduler, SequenceTheorems, WellFoundedInduction, TLAPS

-----------------------------------------------------------------------------
(* The state machine, with streaks that stop growing *)

\* observe keeps a monitor a monitor: the state stays one of the four states
\* and the streaks stay natural numbers.
THEOREM ObserveType ==
  ASSUME NEW s \in Monitor, NEW r \in Results,
         NEW f2d \in Nat \ {0}, NEW r2u \in Nat \ {0}
  PROVE  Observe(s, r, f2d, r2u) \in Monitor
<1>1. Count(s, r) \in Monitor
  BY SMT DEF Count, Monitor, Results
<1>2. Target(Count(s, r), r, f2d, r2u) \in States
  BY <1>1, SMT DEF Target, Monitor, States
<1> QED
  BY <1>1, <1>2, SMT DEF Observe, Monitor

\* The fields of the result, one by one.
LEMMA ObserveFields ==
  ASSUME NEW s \in Monitor, NEW r \in Results, NEW f2d \in Nat, NEW r2u \in Nat
  PROVE  LET o == Observe(s, r, f2d, r2u)
         IN /\ o.bad     = IF r = "fail" THEN s.bad + 1 ELSE 0
            /\ o.warnish = IF r # "ok" THEN s.warnish + 1 ELSE 0
            /\ o.good    = IF r = "ok" THEN s.good + 1 ELSE 0
            /\ o.state   = IF o.bad >= f2d THEN "down"
                           ELSE IF o.warnish >= f2d /\ r # "ok" THEN "warn"
                           ELSE IF o.good >= r2u THEN "up"
                           ELSE s.state
BY SMT DEF Observe, Count, Target, Monitor

\* Letting a streak stop growing at its threshold changes nothing: observing
\* with saturated streaks reaches the saturated result, and the same state.
\* The scheduler's model relies on it (state.py:61-79 reads the streaks only
\* through the comparisons with the thresholds).
THEOREM SaturationSound ==
  ASSUME NEW s \in Monitor, NEW r \in Results,
         NEW f2d \in Nat \ {0}, NEW r2u \in Nat \ {0}
  PROVE  SaturatedObserve(Saturate(s, f2d, r2u), r, f2d, r2u)
           = SaturatedObserve(s, r, f2d, r2u)
<1> DEFINE z == Saturate(s, f2d, r2u)
           c == Count(s, r)
           d == Count(z, r)
<1>1. z \in Monitor /\ z.state = s.state
  BY SMT DEF Saturate, Lesser, Monitor
<1>2. c \in Monitor /\ d \in Monitor /\ c.state = s.state /\ d.state = s.state
  BY <1>1, SMT DEF Count, Monitor, Results
<1>3. /\ Lesser(c.bad, f2d) = Lesser(d.bad, f2d)
      /\ Lesser(c.warnish, f2d) = Lesser(d.warnish, f2d)
      /\ Lesser(c.good, r2u) = Lesser(d.good, r2u)
  BY SMT DEF Count, Saturate, Lesser, Monitor, Results
<1>4. Target(c, r, f2d, r2u) = Target(d, r, f2d, r2u)
  BY <1>2, <1>3, SMT DEF Target, Lesser, Monitor
<1> HIDE DEF c, d
<1>5. Saturate([c EXCEPT !.state = Target(c, r, f2d, r2u)], f2d, r2u)
        = Saturate([d EXCEPT !.state = Target(d, r, f2d, r2u)], f2d, r2u)
  BY <1>2, <1>3, <1>4, SMT DEF Saturate, Monitor
<1> QED
  BY <1>5 DEF SaturatedObserve, Observe, c, d, z

\* What the scheduler reads of a streak besides the state - "is it zero" - is
\* the same before and after saturation. (scheduler.py:102)
LEMMA SaturationKeepsZero ==
  ASSUME NEW s \in Monitor, NEW f2d \in Nat \ {0}, NEW r2u \in Nat \ {0}
  PROVE  LET z == Saturate(s, f2d, r2u)
         IN  /\ z.state = s.state
             /\ z.bad > 0 <=> s.bad > 0
             /\ z.good = 0 <=> s.good = 0
BY SMT DEF Saturate, Lesser, Monitor

-----------------------------------------------------------------------------
(* Stacks *)

\* A stack of the shape that StacksSound asks for.
SoundStack(s) ==
  s = <<>> \/ \E f \in SoundFrames, r \in Seq(CallingFrames) : s = <<f>> \o r

LEMMA CallingIsSound == CallingFrames \subseteq SoundFrames /\ SoundFrames \subseteq Frames
BY DEF CallingFrames, SoundFrames

\* A frame on top of calling ones.
LEMMA PushFrame ==
  ASSUME NEW f \in SoundFrames, NEW r \in Seq(CallingFrames)
  PROVE  LET s == <<f>> \o r
         IN  s \in Seq(Frames) /\ s # <<>> /\ Head(s) = f /\ Tail(s) = r
<1>1. <<f>> \in Seq(SoundFrames) /\ r \in Seq(SoundFrames) /\ Len(<<f>>) = 1 /\ <<f>>[1] = f
  BY CallingIsSound, SeqMonotonic
<1> DEFINE s == <<f>> \o r
<1>2. /\ s \in Seq(SoundFrames) /\ Len(s) = 1 + Len(r)
      /\ \A i \in 1..(1 + Len(r)) : s[i] = IF i <= 1 THEN <<f>>[i] ELSE r[i - 1]
  BY <1>1, ConcatProperties
<1>3. Len(r) \in Nat
  BY LenProperties
<1>4. s # <<>> /\ s[1] = f
  BY <1>1, <1>2, <1>3, EmptySeq
<1>5. s \in Seq(Frames) /\ Head(s) = f
  BY <1>2, <1>4, CallingIsSound, SeqMonotonic
<1>6. /\ Tail(s) \in Seq(SoundFrames) /\ Len(Tail(s)) = Len(r)
      /\ \A i \in 1..Len(r) : Tail(s)[i] = r[i]
  <2>1. /\ Tail(s) \in Seq(SoundFrames) /\ Len(Tail(s)) = Len(s) - 1
        /\ \A i \in 1..Len(Tail(s)) : Tail(s)[i] = s[i + 1]
    BY <1>2, <1>4, HeadTailProperties
  <2> HIDE DEF s
  <2> QED
    BY <1>1, <1>2, <1>3, <2>1
<1>7. Tail(s) = r
  BY <1>1, <1>6, SeqEqual
<1> QED
  BY <1>4, <1>5, <1>7

\* What is left when a frame returns.
LEMMA PopFrame ==
  ASSUME NEW r \in Seq(CallingFrames)
  PROVE  /\ SoundStack(r)
         /\ r # <<>> => Head(r) \in CallingFrames /\ Tail(r) \in Seq(CallingFrames)
<1>1. CASE r = <<>>
  BY <1>1 DEF SoundStack
<1>2. CASE r # <<>>
  <2>1. /\ Head(r) \in CallingFrames /\ Tail(r) \in Seq(CallingFrames)
        /\ Len(Tail(r)) = Len(r) - 1
        /\ \A i \in 1..Len(Tail(r)) : Tail(r)[i] = r[i + 1]
    BY <1>2, HeadTailProperties
  <2>2. r = <<Head(r)>> \o Tail(r)
    <3> DEFINE h == Head(r)
               q == Tail(r)
    <3>1. <<h>> \in Seq(CallingFrames) /\ Len(<<h>>) = 1 /\ <<h>>[1] = r[1]
      BY <2>1
    <3>2. /\ <<h>> \o q \in Seq(CallingFrames) /\ Len(<<h>> \o q) = 1 + Len(q)
          /\ \A i \in 1..(1 + Len(q)) :
               (<<h>> \o q)[i] = IF i <= 1 THEN <<h>>[i] ELSE q[i - 1]
      BY <2>1, <3>1, ConcatProperties
    <3>3. Len(r) \in Nat /\ Len(q) \in Nat /\ Len(q) = Len(r) - 1
      BY <2>1, LenProperties
    <3>4. \A i \in 1..Len(r) : r[i] = (<<h>> \o q)[i]
      <4> HIDE DEF h
      <4>1. \A i \in 2..Len(r) : q[i - 1] = r[i]
        BY <2>1, <3>3
      <4> HIDE DEF q
      <4> QED
        BY <3>1, <3>2, <3>3, <4>1
    <3>5. Len(<<h>> \o q) = Len(r)
      BY <3>2, <3>3
    <3> QED
      BY <3>2, <3>4, <3>5, SeqEqual
  <2>3. Head(r) \in SoundFrames
    BY <2>1, CallingIsSound
  <2> QED
    BY <2>1, <2>2, <2>3 DEF SoundStack
<1> QED
  BY <1>1, <1>2

\* Replacing the stack of one task by a sound one.
LEMMA Restack ==
  ASSUME TypeOK, StacksSound, NEW t \in Monitors, NEW s, SoundStack(s),
         stack' = [stack EXCEPT ![t] = s]
  PROVE  /\ stack' \in [Monitors -> Seq(Frames)]
         /\ StacksSound'
         /\ stack'[t] = s
         /\ \A u \in Monitors \ {t} : stack'[u] = stack[u]
<1>1. s \in Seq(Frames) /\ (s # <<>> => /\ Head(s) \in SoundFrames
                                         /\ Tail(s) \in Seq(CallingFrames))
  BY PushFrame, EmptySeq DEF SoundStack
<1>2. stack \in [Monitors -> Seq(Frames)]
  BY DEF TypeOK
<1>3. /\ stack' \in [Monitors -> Seq(Frames)]
      /\ stack'[t] = s
      /\ \A u \in Monitors \ {t} : stack'[u] = stack[u]
  BY <1>1, <1>2
<1> QED
  BY <1>1, <1>3 DEF StacksSound, Top, Rest

\* What the fields of a frame are.
LEMMA FrameFields ==
  ASSUME NEW f \in SoundFrames
  PROVE  /\ f.m \in Monitors
         /\ f.fn \in {"poll_once", "on_transition", "release_children"}
         /\ f.fn = "poll_once" =>
              /\ f.pc \in {"lock", "probe", "record", "return"}
              /\ f.pc \in {"record", "return"} => f.res \in Results
         /\ f.fn = "on_transition" =>
              /\ f.pc \in {"decide", "confirm", "confirmed", "event"}
              /\ f.to \in States \ {"pending"} /\ f.i \in Nat /\ f.n \in Nat
              /\ f.pc \in {"confirm", "confirmed"} => Parents[f.m] # <<>>
              /\ f.pc = "confirm" => f.i > 0
         /\ f.fn = "release_children" =>
              /\ f.pc \in {"scan", "repoll", "polled", "event"}
              /\ f.i \in Nat \ {0}
              /\ f.pc # "scan" => f.i \in 1..Len(Order)
BY DEF SoundFrames, Frames

LEMMA PollFrameSound ==
  ASSUME NEW m \in Monitors, NEW pc \in {"lock", "probe", "record", "return"},
         NEW res \in Results \union {None},
         pc \in {"record", "return"} => res \in Results
  PROVE  /\ PollFrame(m, pc, res) \in SoundFrames
         /\ pc = "return" => PollFrame(m, pc, res) \in CallingFrames
BY DEF PollFrame, SoundFrames, CallingFrames, Frames

LEMMA TransitionFrameSound ==
  ASSUME NEW m \in Monitors, NEW to \in States \ {"pending"},
         NEW pc \in {"decide", "confirm", "confirmed", "event"}, NEW i \in Nat, NEW n \in Nat,
         pc \in {"confirm", "confirmed"} => Parents[m] # <<>>,
         pc = "confirm" => i > 0
  PROVE  /\ TransitionFrame(m, to, pc, i, n) \in SoundFrames
         /\ pc = "confirm" => TransitionFrame(m, to, pc, i, n) \in CallingFrames
BY DEF TransitionFrame, SoundFrames, CallingFrames, Frames

LEMMA ReleaseFrameSound ==
  ASSUME NEW m \in Monitors, NEW pc \in {"scan", "repoll", "polled", "event"},
         NEW i \in Nat \ {0}, NEW res \in Results \union {None},
         pc # "scan" => i \in 1..Len(Order)
  PROVE  /\ ReleaseFrame(m, pc, i, res) \in SoundFrames
         /\ pc = "repoll" => ReleaseFrame(m, pc, i, res) \in CallingFrames
BY DEF ReleaseFrame, SoundFrames, CallingFrames, Frames

\* The frames of a task about to take a step.
LEMMA TopFacts ==
  ASSUME TypeOK, StacksSound, NEW t \in Monitors, NEW fn, NEW pc, At(t, fn, pc)
  PROVE  /\ stack[t] # <<>> /\ Top(t) \in SoundFrames /\ Rest(t) \in Seq(CallingFrames)
         /\ Top(t).fn = fn /\ Top(t).pc = pc
         /\ Top(t).m \in Monitors
BY FrameFields DEF At, StacksSound

\* Monitors are observed into monitors.
LEMMA ObservedType ==
  ASSUME TypeOK, NEW m \in Monitors, NEW r \in Results
  PROVE  SaturatedObserve(mon[m], r, FailuresToDown[m], RecoveriesToUp[m]) \in Monitor
<1>1. /\ FailuresToDown[m] \in Nat \ {0} /\ RecoveriesToUp[m] \in Nat \ {0}
      /\ mon[m] \in Monitor
  BY SchedulerAssumption DEF TypeOK
<1>2. Observe(mon[m], r, FailuresToDown[m], RecoveriesToUp[m]) \in Monitor
  BY <1>1, ObserveType
<1> QED
  BY <1>1, <1>2, SMT DEF SaturatedObserve, Saturate, Lesser, Monitor

\* No transition leads back to PENDING.
LEMMA ObservedNotPending ==
  ASSUME TypeOK, NEW m \in Monitors, NEW r \in Results,
         LET new == SaturatedObserve(mon[m], r, FailuresToDown[m], RecoveriesToUp[m])
         IN  new.state # mon[m].state
  PROVE  SaturatedObserve(mon[m], r, FailuresToDown[m], RecoveriesToUp[m]).state
           \in States \ {"pending"}
<1>1. /\ FailuresToDown[m] \in Nat \ {0} /\ RecoveriesToUp[m] \in Nat \ {0}
      /\ mon[m] \in Monitor
  BY SchedulerAssumption DEF TypeOK
<1> DEFINE o == Observe(mon[m], r, FailuresToDown[m], RecoveriesToUp[m])
<1>2. SaturatedObserve(mon[m], r, FailuresToDown[m], RecoveriesToUp[m]).state = o.state
  BY DEF SaturatedObserve, Saturate
<1>3. o.state \in {"down", "warn", "up", mon[m].state}
  BY <1>1, ObserveFields
<1> HIDE DEF o
<1> QED
  BY <1>2, <1>3 DEF States

\* The first monitor is one; so is every other that a frame can name.
LEMMA NamedMonitors ==
  /\ \A i \in 1..Len(Order) : Order[i] \in Monitors
  /\ \A m \in Monitors : \A j \in 1..Len(Parents[m]) : Parents[m][j] \in Monitors
  /\ \A m \in Monitors : Len(Parents[m]) \in Nat
  /\ Len(Order) \in Nat
BY SchedulerAssumption, ElementOfSeq, LenProperties

-----------------------------------------------------------------------------
(* Queues without repetition. *)

Listed(q, u) == \E i \in 1..Len(q) : q[i] = u

NoRepeats(q) == \A i, j \in 1..Len(q) : q[i] = q[j] => i = j

LEMMA JoinQueue ==
  ASSUME NEW S, NEW q \in Seq(S), NEW t \in S, ~ Listed(q, t), NoRepeats(q)
  PROVE  LET r == Append(q, t)
         IN  /\ r \in Seq(S) /\ NoRepeats(r)
             /\ \A u : Listed(r, u) <=> u = t \/ Listed(q, u)
             /\ \A u : Listed(q, u) => r[1] = q[1]
<1> DEFINE r == Append(q, t)
           n == Len(q)
<1>1. /\ n \in Nat /\ r \in Seq(S) /\ Len(r) = n + 1 /\ r[n + 1] = t
      /\ \A i \in 1..n : r[i] = q[i]
  BY AppendProperties, LenProperties
<1>2. \A i \in 1..n : q[i] # t
  BY DEF Listed
<1>3. \A i, j \in 1..n : q[i] = q[j] => i = j
  BY DEF NoRepeats
<1> HIDE DEF r, n
<1>4. \A i, j \in 1..(n + 1) : r[i] = r[j] => i = j
  BY <1>1, <1>2, <1>3
<1>5. ASSUME NEW u PROVE (\E i \in 1..(n + 1) : r[i] = u) <=> u = t \/ \E i \in 1..n : q[i] = u
  <2>1. ASSUME NEW i \in 1..(n + 1), r[i] = u PROVE u = t \/ \E k \in 1..n : q[k] = u
    BY <1>1, <2>1
  <2>2. n + 1 \in 1..(n + 1)
    BY <1>1
  <2>3. ASSUME NEW i \in 1..n, q[i] = u PROVE \E k \in 1..(n + 1) : r[k] = u
    <3>1. i \in 1..(n + 1) /\ r[i] = u
      BY <1>1, <2>3
    <3> QED
      BY <3>1
  <2> QED
    BY <1>1, <2>1, <2>2, <2>3
<1>6. (\E i \in 1..n : TRUE) => r[1] = q[1]
  BY <1>1
<1> QED
  BY <1>1, <1>4, <1>5, <1>6 DEF Listed, NoRepeats, r, n

LEMMA LeaveQueue ==
  ASSUME NEW S, NEW q \in Seq(S), NEW t, Listed(q, t), q[1] = t, NoRepeats(q)
  PROVE  LET r == Tail(q)
         IN  /\ r \in Seq(S) /\ NoRepeats(r)
             /\ \A u : Listed(r, u) <=> u # t /\ Listed(q, u)
<1> DEFINE r == Tail(q)
           n == Len(q)
<1>1. n \in Nat /\ n > 0 /\ q # <<>>
  BY LenProperties, EmptySeq DEF Listed
<1>2. /\ r \in Seq(S) /\ Len(r) = n - 1
      /\ \A i \in 1..(n - 1) : r[i] = q[i + 1]
  BY <1>1, HeadTailProperties
<1>3. \A i, j \in 1..n : q[i] = q[j] => i = j
  BY DEF NoRepeats
<1> HIDE DEF r, n
<1>4. \A i, j \in 1..(n - 1) : r[i] = r[j] => i = j
  BY <1>1, <1>2, <1>3
<1>5. ASSUME NEW u
      PROVE  (\E i \in 1..(n - 1) : r[i] = u) <=> u # t /\ \E i \in 1..n : q[i] = u
  <2>1. ASSUME NEW i \in 1..(n - 1), r[i] = u PROVE u # t /\ \E k \in 1..n : q[k] = u
    <3>1. i + 1 \in 1..n /\ q[i + 1] = u /\ i + 1 # 1 /\ 1 \in 1..n
      BY <1>1, <1>2, <2>1
    <3> QED
      BY <1>3, <3>1
  <2>2. ASSUME NEW i \in 1..n, q[i] = u, u # t PROVE \E k \in 1..(n - 1) : r[k] = u
    <3>1. i - 1 \in 1..(n - 1) /\ r[i - 1] = u
      <4>1. i # 1
        BY <2>2
      <4>2. i - 1 \in 1..(n - 1) /\ (i - 1) + 1 = i
        BY <1>1, <4>1
      <4> QED
        BY <1>2, <2>2, <4>2
    <3> QED
      BY <3>1
  <2> QED
    BY <2>1, <2>2
<1> QED
  BY <1>1, <1>2, <1>4, <1>5 DEF Listed, NoRepeats, r, n

-----------------------------------------------------------------------------
(* What a step does to the locks, by what it does to the task that takes it. *)

LEMMA LocksSoundDef ==
  LocksSound <=>
    \A m \in Monitors :
      /\ NoRepeats(lockq[m])
      /\ \A u \in Monitors : /\ InLock(u, m) <=> Listed(lockq[m], u)
                             /\ Polling(u, m) => lockq[m][1] = u
BY DEF LocksSound, Listed, NoRepeats

LEMMA PollingIsInLock ==
  ASSUME NEW u, NEW m, Polling(u, m) PROVE InLock(u, m) /\ \A x : InLock(u, x) => x = m
BY DEF InLock, Polling, At

\* A task that does not move stays where it is.
LEMMA OthersStay ==
  ASSUME NEW u, stack'[u] = stack[u]
  PROVE  \A m : (InLock(u, m)' <=> InLock(u, m)) /\ (Polling(u, m)' <=> Polling(u, m))
BY DEF InLock, Polling, At, Top

\* The task stays where it is in the queues.
LEMMA KeepLocks ==
  ASSUME LocksSound, NEW t \in Monitors,
         \A u \in Monitors \ {t} : stack'[u] = stack[u],
         lockq' = lockq,
         \A m \in Monitors : InLock(t, m)' <=> InLock(t, m),
         \A m \in Monitors : Polling(t, m)' => lockq[m][1] = t
  PROVE  LocksSound'
<1> SUFFICES ASSUME NEW u \in Monitors, NEW m \in Monitors
             PROVE  /\ InLock(u, m)' <=> InLock(u, m)
                    /\ Polling(u, m)' => lockq[m][1] = u
  BY DEF LocksSound
<1> QED
  BY OthersStay DEF LocksSound

\* The task joins the queue of m.
LEMMA EnterLock ==
  ASSUME TypeOK, LocksSound, NEW t \in Monitors, NEW m \in Monitors,
         \A u \in Monitors \ {t} : stack'[u] = stack[u],
         lockq' = [lockq EXCEPT ![m] = Append(@, t)],
         \A x \in Monitors : ~ InLock(t, x),
         \A x \in Monitors : InLock(t, x)' <=> x = m,
         \A x \in Monitors : ~ Polling(t, x)'
  PROVE  LocksSound' /\ lockq' \in [Monitors -> Seq(Monitors)]
<1> DEFINE q == lockq[m]
           r == Append(q, t)
<1>1. q \in Seq(Monitors) /\ ~ Listed(q, t) /\ NoRepeats(q)
  BY LocksSoundDef DEF TypeOK
<1>2. /\ r \in Seq(Monitors) /\ NoRepeats(r)
      /\ \A u : Listed(r, u) <=> u = t \/ Listed(q, u)
      /\ \A u : Listed(q, u) => r[1] = q[1]
  BY <1>1, JoinQueue
<1> HIDE DEF r
<1>3. lockq'[m] = r /\ \A x \in Monitors \ {m} : lockq'[x] = lockq[x]
  BY DEF TypeOK, r
<1>4. lockq' \in [Monitors -> Seq(Monitors)]
  BY <1>2 DEF TypeOK, r
<1>5. ASSUME NEW x \in Monitors, NEW u \in Monitors
      PROVE  /\ NoRepeats(lockq'[x])
             /\ InLock(u, x)' <=> Listed(lockq'[x], u)
             /\ Polling(u, x)' => lockq'[x][1] = u
  <2>1. CASE x # m /\ u = t
    BY <1>3, <2>1, LocksSoundDef
  <2>2. CASE x # m /\ u # t
    BY <1>3, <2>2, LocksSoundDef, OthersStay
  <2>3. CASE x = m /\ u = t
    BY <1>2, <1>3, <2>3
  <2>4. CASE x = m /\ u # t
    BY <1>2, <1>3, <2>4, LocksSoundDef, OthersStay, PollingIsInLock
  <2> QED
    BY <2>1, <2>2, <2>3, <2>4
<1> QED
  BY <1>4, <1>5 DEF LocksSound, Listed, NoRepeats

\* The task that polls m leaves.
LEMMA LeaveLock ==
  ASSUME TypeOK, LocksSound, NEW t \in Monitors, NEW m \in Monitors, Polling(t, m),
         \A u \in Monitors \ {t} : stack'[u] = stack[u],
         lockq' = [lockq EXCEPT ![m] = Tail(@)],
         \A x \in Monitors : ~ InLock(t, x)' /\ ~ Polling(t, x)'
  PROVE  LocksSound' /\ lockq' \in [Monitors -> Seq(Monitors)]
<1> DEFINE q == lockq[m]
           r == Tail(q)
<1>1. q \in Seq(Monitors) /\ Listed(q, t) /\ q[1] = t /\ NoRepeats(q)
  BY LocksSoundDef, PollingIsInLock DEF TypeOK
<1>2. /\ r \in Seq(Monitors) /\ NoRepeats(r)
      /\ \A u : Listed(r, u) <=> u # t /\ Listed(q, u)
  BY <1>1, LeaveQueue
<1> HIDE DEF r
<1>3. lockq'[m] = r /\ \A x \in Monitors \ {m} : lockq'[x] = lockq[x]
  BY DEF TypeOK, r
<1>4. lockq' \in [Monitors -> Seq(Monitors)]
  BY <1>2 DEF TypeOK, r
<1>5. ASSUME NEW x \in Monitors, NEW u \in Monitors
      PROVE  /\ NoRepeats(lockq'[x])
             /\ InLock(u, x)' <=> Listed(lockq'[x], u)
             /\ Polling(u, x)' => lockq'[x][1] = u
  <2>1. CASE x # m /\ u = t
    BY <1>3, <2>1, LocksSoundDef, PollingIsInLock
  <2>2. CASE x # m /\ u # t
    BY <1>3, <2>2, LocksSoundDef, OthersStay
  <2>3. CASE x = m /\ u = t
    BY <1>2, <1>3, <2>3
  <2>4. CASE x = m /\ u # t
    BY <1>1, <1>2, <1>3, <2>4, LocksSoundDef, OthersStay
  <2> QED
    BY <2>1, <2>2, <2>3, <2>4
<1> HIDE DEF q
<1>6. ASSUME NEW u \in Monitors, NEW x \in Monitors
      PROVE  /\ InLock(u, x)' <=> \E i \in 1..Len(lockq'[x]) : lockq'[x][i] = u
             /\ Polling(u, x)' => lockq'[x][1] = u
  <2>1. (InLock(u, x)' <=> Listed(lockq'[x], u)) /\ (Polling(u, x)' => lockq'[x][1] = u)
    BY <1>5
  <2> QED
    BY <2>1, Zenon DEF Listed
<1>7. ASSUME NEW x \in Monitors
      PROVE  \A i, j \in 1..Len(lockq'[x]) : lockq'[x][i] = lockq'[x][j] => i = j
  BY <1>5, Zenon DEF NoRepeats
<1> QED
  BY <1>4, <1>6, <1>7 DEF LocksSound

-----------------------------------------------------------------------------
(* Decisions and roots. *)

Settled(m) == alertOpen[m] <=> mon[m].state \in Problem

\* Before a step of task t, roots are settled, but for the one t decides about.
LEMMA RootsBefore ==
  ASSUME IInv, NEW t \in Monitors, cpu \in {t, None}, NEW m \in Monitors,
         Parents[m] = <<>>,
         ~ (At(t, "on_transition", "decide") /\ Top(t).m = m)
  PROVE  Settled(m)
BY DEF IInv, RootsAlertedExactly, Settled

\* No other task is deciding anything.
LEMMA OnlyDecider ==
  ASSUME IInv, NEW t \in Monitors, cpu \in {t, None}, NEW u \in Monitors \ {t}
  PROVE  ~ At(u, "on_transition", "decide")
BY SchedulerAssumption DEF IInv, DecisionsSound

\* After a step that leaves no decision open, all roots must be settled.
LEMMA Decided ==
  ASSUME IInv, NEW t \in Monitors, cpu \in {t, None},
         \A u \in Monitors \ {t} : stack'[u] = stack[u],
         ~ At(t, "on_transition", "decide")',
         \A m \in Monitors : Parents[m] = <<>> => Settled(m)'
  PROVE  DecisionsSound' /\ RootsAlertedExactly'
<1>1. \A u \in Monitors : ~ At(u, "on_transition", "decide")'
  <2>1. \A u \in Monitors \ {t} :
          At(u, "on_transition", "decide")' <=> At(u, "on_transition", "decide")
    BY DEF At, Top
  <2> QED
    BY <2>1, OnlyDecider
<1> QED
  BY <1>1 DEF DecisionsSound, RootsAlertedExactly, Settled

\* A monitor without parents is never behind an outage.
LEMMA RootNotBlocked ==
  ASSUME NEW m \in Monitors, Parents[m] = <<>> PROVE ~ Blocked(m)
<1>1. \A p, q : Blocker(<<>>, p, q) = None
  BY DEF Blocker, SelectInSeq
<1> QED
  BY <1>1 DEF Blocked, BlockingParent

-----------------------------------------------------------------------------
(* Steps, by what they do to the frames. *)

Alerts == {None} \union {Alert(m, k, s) : m \in Monitors,
                           k \in States \ {"pending"}, s \in BOOLEAN}

LEMMA AlertTyped ==
  ASSUME NEW m \in Monitors, NEW k \in States \ {"pending"}, NEW b \in BOOLEAN
  PROVE  Alert(m, k, b) \in Alerts
BY DEF Alerts

LEMMA NoAlertTyped == None \in Alerts
BY DEF Alerts

\* A step outside every lock that touches neither the monitors nor the locks.
LEMMA PlainStep ==
  ASSUME IInv, NEW t \in Monitors, NEW s, SoundStack(s),
         stack' = [stack EXCEPT ![t] = s],
         UNCHANGED <<mon, lockq, semq>>,
         alertOpen' \in [Monitors -> BOOLEAN],
         dead' \in SUBSET Monitors,
         cpu \in {t, None}, cpu' \in {t, None},
         sent' \in Alerts,
         \A m \in Monitors : ~ InLock(t, m) /\ ~ InLock(t, m)',
         ~ At(t, "on_transition", "decide")',
         \A m \in Monitors : Parents[m] = <<>> => Settled(m)'
  PROVE  IInv'
<1>1. /\ stack' \in [Monitors -> Seq(Frames)] /\ StacksSound'
      /\ \A u \in Monitors \ {t} : stack'[u] = stack[u]
  BY Restack DEF IInv
<1>2. LocksSound'
  <2>1. \A m \in Monitors : ~ Polling(t, m)'
    BY DEF InLock, Polling, At
  <2> QED
    BY <1>1, <2>1, KeepLocks DEF IInv
<1>3. DecisionsSound' /\ RootsAlertedExactly'
  BY <1>1, Decided
<1>4. TypeOK'
  BY <1>1 DEF IInv, TypeOK, Alerts
<1> QED
  BY <1>1, <1>2, <1>3, <1>4 DEF IInv

\* A step that calls poll_once.
LEMMA CallStep ==
  ASSUME IInv, NEW t \in Monitors, NEW m \in Monitors, NEW under \in Seq(CallingFrames),
         CallPoll(t, m, under),
         UNCHANGED <<mon, alertOpen, semq, dead>>, sent' = None,
         cpu \in {t, None},
         \A x \in Monitors : ~ InLock(t, x),
         ~ At(t, "on_transition", "decide")
  PROVE  IInv'
<1> DEFINE f == PollFrame(m, "lock", None)
           s == <<f>> \o under
<1>1. f \in SoundFrames /\ f.fn = "poll_once" /\ f.pc = "lock" /\ f.m = m
  BY PollFrameSound DEF PollFrame
<1> HIDE DEF f
<1>2. SoundStack(s) /\ s # <<>> /\ Head(s) = f
  BY <1>1, PushFrame DEF SoundStack
<1>3. stack' = [stack EXCEPT ![t] = s]
  BY DEF CallPoll, f
<1> HIDE DEF s
<1>4. /\ stack' \in [Monitors -> Seq(Frames)] /\ StacksSound' /\ stack'[t] = s
      /\ \A u \in Monitors \ {t} : stack'[u] = stack[u]
  BY <1>2, <1>3, Restack DEF IInv
<1>5. /\ \A x \in Monitors : InLock(t, x)' <=> x = m
      /\ \A x \in Monitors : ~ Polling(t, x)'
      /\ ~ At(t, "on_transition", "decide")'
  BY <1>1, <1>2, <1>4 DEF InLock, Polling, At, Top
<1>6. LocksSound' /\ lockq' \in [Monitors -> Seq(Monitors)]
  BY <1>4, <1>5, EnterLock DEF CallPoll, IInv
<1>7. DecisionsSound' /\ RootsAlertedExactly'
  <2>1. \A x \in Monitors : Parents[x] = <<>> => Settled(x)'
    BY RootsBefore DEF Settled
  <2> QED
    BY <1>4, <1>5, <2>1, Decided
<1>8. TypeOK'
  <2>1. cpu' \in Monitors \union {None}
    BY DEF CallPoll
  <2> QED
    BY <1>4, <1>6, <2>1 DEF IInv, TypeOK
<1> QED
  BY <1>4, <1>6, <1>7, <1>8 DEF IInv

\* The frame on top is replaced by one that is not in a lock.
LEMMA ReplaceTop ==
  ASSUME IInv, NEW t \in Monitors, stack[t] # <<>>,
         NEW g \in SoundFrames, g.fn # "poll_once" \/ g.pc = "return",
         ~ (g.fn = "on_transition" /\ g.pc = "decide"),
         NEW r \in Seq(CallingFrames),
         stack' = [stack EXCEPT ![t] = <<g>> \o r]
  PROVE  /\ SoundStack(<<g>> \o r)
         /\ \A m \in Monitors : ~ InLock(t, m)'
         /\ ~ At(t, "on_transition", "decide")'
<1>1. SoundStack(<<g>> \o r) /\ <<g>> \o r # <<>> /\ Head(<<g>> \o r) = g
  BY PushFrame DEF SoundStack
<1>2. stack'[t] = <<g>> \o r
  BY <1>1, Restack DEF IInv
<1>3. stack'[t] # <<>> /\ Head(stack'[t]) = g
  BY <1>1, <1>2
<1> QED
  BY <1>1, <1>3 DEF InLock, At, Top

\* The frame on top returns.
LEMMA DropTop ==
  ASSUME IInv, NEW t \in Monitors, stack[t] # <<>>,
         NEW r \in Seq(CallingFrames),
         stack' = [stack EXCEPT ![t] = r]
  PROVE  /\ SoundStack(r)
         /\ \A m \in Monitors : ~ InLock(t, m)'
         /\ ~ At(t, "on_transition", "decide")'
<1>1. SoundStack(r) /\ (r # <<>> => Head(r) \in CallingFrames)
  BY PopFrame
<1>2. stack'[t] = r
  BY <1>1, Restack DEF IInv
<1> QED
  BY <1>1, <1>2 DEF InLock, At, Top, CallingFrames

\* A task that is in no lock.
LEMMA NotInLock ==
  ASSUME NEW t, stack[t] = <<>> \/ Top(t).fn # "poll_once" \/ Top(t).pc = "return"
  PROVE  \A m \in Monitors : ~ InLock(t, m)
BY DEF InLock

-----------------------------------------------------------------------------
(* poll_once *)

LEMMA StartPollStep ==
  ASSUME IInv, NEW t \in Monitors, StartPoll(t) PROVE IInv'
<1>1. stack[t] = <<>> /\ <<>> \in Seq(CallingFrames) /\ cpu = None /\ CallPoll(t, t, <<>>)
  BY EmptySeq DEF StartPoll, Resumed
<1>2. ~ At(t, "on_transition", "decide") /\ \A m \in Monitors : ~ InLock(t, m)
  BY <1>1 DEF At, InLock
<1> QED
  BY <1>1, <1>2, CallStep DEF StartPoll

LEMMA AcquireStep ==
  ASSUME IInv, NEW t \in Monitors, Acquire(t) PROVE IInv'
<1> DEFINE m == Top(t).m
           f == PollFrame(m, "probe", None)
           s == <<f>> \o Rest(t)
<1>1. /\ stack[t] # <<>> /\ Top(t) \in SoundFrames /\ Rest(t) \in Seq(CallingFrames)
      /\ Top(t).fn = "poll_once" /\ Top(t).pc = "lock" /\ m \in Monitors
  BY TopFacts DEF Acquire, IInv
<1>2. f \in SoundFrames /\ f.fn = "poll_once" /\ f.pc = "probe" /\ f.m = m
  BY <1>1, PollFrameSound DEF PollFrame
<1>3. stack' = [stack EXCEPT ![t] = s]
  BY DEF Acquire
<1>4. InLock(t, m)
  BY <1>1 DEF InLock
<1>5. lockq[m][1] = t
  <2>1. lockq[m] \in Seq(Monitors)
    BY <1>1 DEF IInv, TypeOK
  <2>2. \E i \in 1..Len(lockq[m]) : lockq[m][i] = t
    BY <1>1, <1>4 DEF IInv, LocksSound
  <2>3. Head(lockq[m]) = lockq[m][1]
    BY <2>1, <2>2, EmptySeq
  <2> QED
    BY <2>3 DEF Acquire, HasLock
<1> HIDE DEF m, f
<1>6. SoundStack(s) /\ s # <<>> /\ Head(s) = f
  BY <1>1, <1>2, PushFrame DEF SoundStack
<1> HIDE DEF s
<1>7. /\ stack' \in [Monitors -> Seq(Frames)] /\ StacksSound' /\ stack'[t] = s
      /\ \A u \in Monitors \ {t} : stack'[u] = stack[u]
  BY <1>3, <1>6, Restack DEF IInv
<1>8. /\ \A x \in Monitors : InLock(t, x)' <=> x = m
      /\ \A x \in Monitors : Polling(t, x)' => x = m
      /\ ~ At(t, "on_transition", "decide")'
  BY <1>2, <1>6, <1>7 DEF InLock, Polling, At, Top
<1>9. \A x \in Monitors : InLock(t, x) <=> x = m
  BY <1>4 DEF InLock, m
<1>10. LocksSound'
  BY <1>5, <1>7, <1>8, <1>9, KeepLocks DEF IInv, Acquire
<1>11. DecisionsSound' /\ RootsAlertedExactly'
  <2>1. ~ At(t, "on_transition", "decide")
    BY <1>1 DEF At
  <2>2. \A x \in Monitors : Parents[x] = <<>> => Settled(x)'
    BY <2>1, RootsBefore DEF Settled, Acquire
  <2>3. cpu \in {t, None}
    BY DEF Acquire
  <2> QED
    BY <1>7, <1>8, <2>2, <2>3, Decided
<1>12. TypeOK'
  <2>1. semq' \in Seq(Monitors)
    BY AppendProperties DEF Acquire, IInv, TypeOK
  <2> QED
    BY <1>7, <2>1 DEF IInv, TypeOK, Acquire
<1> QED
  BY <1>7, <1>10, <1>11, <1>12 DEF IInv

LEMMA RemovedFromQueue ==
  ASSUME NEW S, NEW q \in Seq(S), NEW i \in 1..Len(q)
  PROVE  RemoveAt(q, i) \in Seq(S)
<1>1. Len(q) \in Nat /\ \A j \in 1..Len(q) : q[j] \in S
  BY LenProperties
<1>2. SubSeq(q, 1, i - 1) \in Seq(S) /\ SubSeq(q, i + 1, Len(q)) \in Seq(S)
  BY <1>1, SubSeqProperties
<1> QED
  BY <1>2, ConcatProperties DEF RemoveAt

LEMMA ProbeStep ==
  ASSUME IInv, NEW t \in Monitors, Probe(t) PROVE IInv'
<1> DEFINE m == Top(t).m
<1>1. /\ stack[t] # <<>> /\ Top(t) \in SoundFrames /\ Rest(t) \in Seq(CallingFrames)
      /\ Top(t).fn = "poll_once" /\ Top(t).pc = "probe" /\ m \in Monitors
      /\ cpu = None
  BY TopFacts DEF Probe, IInv, Resumed
<1>2. PICK res \in Outcomes[m] :
        stack' = [stack EXCEPT ![t] = <<PollFrame(m, "record", res)>> \o Rest(t)]
  BY DEF Probe
<1> DEFINE f == PollFrame(m, "record", res)
           s == <<f>> \o Rest(t)
<1>3. res \in Results
  BY <1>1, SchedulerAssumption
<1>4. f \in SoundFrames /\ f.fn = "poll_once" /\ f.pc = "record" /\ f.m = m
  BY <1>1, <1>3, PollFrameSound DEF PollFrame
<1>5. Polling(t, m) /\ InLock(t, m) /\ \A x \in Monitors : InLock(t, x) => x = m
  BY <1>1 DEF Polling, InLock, At
<1> HIDE DEF m, f
<1>6. SoundStack(s) /\ s # <<>> /\ Head(s) = f
  BY <1>1, <1>4, PushFrame DEF SoundStack
<1>7. stack' = [stack EXCEPT ![t] = s]
  BY <1>2 DEF f
<1> HIDE DEF s
<1>8. /\ stack' \in [Monitors -> Seq(Frames)] /\ StacksSound' /\ stack'[t] = s
      /\ \A u \in Monitors \ {t} : stack'[u] = stack[u]
  BY <1>6, <1>7, Restack DEF IInv
<1>9. /\ \A x \in Monitors : InLock(t, x)' <=> x = m
      /\ \A x \in Monitors : Polling(t, x)' => x = m
      /\ ~ At(t, "on_transition", "decide")'
  BY <1>4, <1>6, <1>8 DEF InLock, Polling, At, Top
<1>10. LocksSound'
  <2>1. lockq[m][1] = t
    BY <1>1, <1>5 DEF IInv, LocksSound, m
  <2> QED
    BY <1>5, <1>8, <1>9, <2>1, KeepLocks DEF IInv, Probe
<1>11. DecisionsSound' /\ RootsAlertedExactly'
  <2>1. ~ At(t, "on_transition", "decide")
    BY <1>1 DEF At
  <2>2. \A x \in Monitors : Parents[x] = <<>> => Settled(x)'
    BY <1>1, <2>1, RootsBefore DEF Settled, Probe
  <2> QED
    BY <1>1, <1>8, <1>9, <2>2, Decided
<1>12. TypeOK'
  <2>1. \E i \in 1..Len(semq) : semq[i] = t
    BY DEF Probe, HasPermit
  <2>2. semq' \in Seq(Monitors)
    <3> DEFINE i == CHOOSE i \in 1..Len(semq) : semq[i] = t
    <3>1. i \in 1..Len(semq)
      BY <2>1
    <3>2. semq \in Seq(Monitors) /\ semq' = RemoveAt(semq, i)
      BY DEF Probe, IInv, TypeOK
    <3> HIDE DEF i
    <3> QED
      BY <3>1, <3>2, RemovedFromQueue
  <2> QED
    BY <1>8, <2>2 DEF IInv, TypeOK, Probe
<1> QED
  BY <1>8, <1>10, <1>11, <1>12 DEF IInv

\* A calling frame on top of calling ones.
LEMMA PushCalling ==
  ASSUME NEW f \in CallingFrames, NEW r \in Seq(CallingFrames)
  PROVE  <<f>> \o r \in Seq(CallingFrames)
<1>1. <<f>> \in Seq(CallingFrames)
  OBVIOUS
<1> QED
  BY <1>1, ConcatProperties

LEMMA RecordStep ==
  ASSUME IInv, NEW t \in Monitors, Record(t) PROVE IInv'
<1> DEFINE m   == Top(t).m
           res == Top(t).res
           new == SaturatedObserve(mon[m], res, FailuresToDown[m], RecoveriesToUp[m])
           ret == <<PollFrame(m, "return", res)>> \o Rest(t)
           d   == TransitionFrame(m, new.state, "decide", 0, 0)
           s   == IF new.state = mon[m].state THEN ret ELSE <<d>> \o ret
<1>1. /\ stack[t] # <<>> /\ Top(t) \in SoundFrames /\ Rest(t) \in Seq(CallingFrames)
      /\ Top(t).fn = "poll_once" /\ Top(t).pc = "record" /\ m \in Monitors
      /\ cpu = None /\ res \in Results
  <2>1. At(t, "poll_once", "record") /\ cpu = None
    BY DEF Record, Resumed
  <2> QED
    BY <2>1, TopFacts, FrameFields DEF IInv
<1>2. /\ mon' = [mon EXCEPT ![m] = new]
      /\ lockq' = [lockq EXCEPT ![m] = Tail(@)]
      /\ stack' = [stack EXCEPT ![t] = s]
      /\ cpu' = t /\ sent' = None /\ UNCHANGED <<alertOpen, semq, dead>>
  BY DEF Record, LocksAfter
<1>3. Polling(t, m)
  BY <1>1 DEF Polling, At
<1>4. new \in Monitor /\ (new.state # mon[m].state => new.state \in States \ {"pending"})
  BY <1>1, ObservedType, ObservedNotPending DEF IInv
<1> HIDE DEF m, res, new
<1>5. ret \in Seq(CallingFrames)
  BY <1>1, PollFrameSound, PushCalling
<1>6. new.state # mon[m].state =>
        d \in SoundFrames /\ d.fn = "on_transition" /\ d.pc = "decide" /\ d.m = m
        /\ d.to = new.state
  BY <1>1, <1>4, TransitionFrameSound DEF TransitionFrame
<1> HIDE DEF ret, d
<1>7. /\ SoundStack(s)
      /\ new.state # mon[m].state => s # <<>> /\ Head(s) = d
      /\ new.state = mon[m].state /\ s # <<>> => Head(s) \in CallingFrames
  BY <1>5, <1>6, PushFrame, PopFrame DEF SoundStack
<1> HIDE DEF s
<1>8. /\ stack' \in [Monitors -> Seq(Frames)] /\ StacksSound' /\ stack'[t] = s
      /\ \A u \in Monitors \ {t} : stack'[u] = stack[u]
  BY <1>2, <1>7, Restack DEF IInv
<1>9. \A x \in Monitors : ~ InLock(t, x)' /\ ~ Polling(t, x)'
  <2>1. CASE new.state # mon[m].state
    BY <1>6, <1>7, <1>8, <2>1 DEF InLock, Polling, At, Top
  <2>2. CASE new.state = mon[m].state
    BY <1>7, <1>8, <2>2 DEF InLock, Polling, At, Top, CallingFrames
  <2> QED
    BY <2>1, <2>2
<1>10. LocksSound' /\ lockq' \in [Monitors -> Seq(Monitors)]
  BY <1>1, <1>2, <1>3, <1>8, <1>9, LeaveLock DEF IInv, m
<1>11. mon' \in [Monitors -> Monitor] /\ mon'[m] = new
       /\ \A x \in Monitors \ {m} : mon'[x] = mon[x]
  BY <1>1, <1>2, <1>4 DEF IInv, TypeOK
<1>12. \A x \in Monitors : Parents[x] = <<>> => Settled(x)
  <2>1. ~ At(t, "on_transition", "decide")
    BY <1>1 DEF At
  <2> QED
    BY <1>1, <2>1, RootsBefore
<1>13. DecisionsSound' /\ RootsAlertedExactly'
  <2>1. CASE new.state = mon[m].state
    <3>1. ~ At(t, "on_transition", "decide")'
      BY <1>7, <1>8, <2>1 DEF At, Top, CallingFrames
    <3>2. \A x \in Monitors : Parents[x] = <<>> => Settled(x)'
      BY <1>2, <1>11, <1>12, <2>1 DEF Settled
    <3> QED
      BY <1>1, <1>8, <3>1, <3>2, Decided
  <2>2. CASE new.state # mon[m].state
    <3>1. At(t, "on_transition", "decide")' /\ Top(t)'.m = m /\ Top(t)'.to = mon'[m].state
      BY <1>6, <1>7, <1>8, <1>11, <2>2 DEF At, Top
    <3>2. \A u \in Monitors \ {t} : ~ At(u, "on_transition", "decide")'
      <4>1. \A u \in Monitors \ {t} : ~ At(u, "on_transition", "decide")
        BY <1>1, OnlyDecider
      <4> QED
        BY <1>8, <4>1 DEF At, Top
    <3>3. DecisionsSound'
      BY <1>2, <3>1, <3>2 DEF DecisionsSound
    <3>4. \A x \in Monitors \ {m} : Parents[x] = <<>> => Settled(x)'
      BY <1>2, <1>11, <1>12 DEF Settled
    <3>5. cpu' = t /\ cpu' # None
      BY <1>2, SchedulerAssumption
    <3>6. RootsAlertedExactly'
      <4> SUFFICES ASSUME NEW x \in Monitors, Parents[x] = <<>>
                   PROVE  \/ Settled(x)'
                          \/ /\ cpu' # None /\ At(t, "on_transition", "decide")'
                             /\ Top(t)'.m = x
        BY <3>5, Zenon DEF RootsAlertedExactly, Settled
      <4> QED
        BY <3>1, <3>4, <3>5
    <3> QED
      BY <3>3, <3>6
  <2> QED
    BY <2>1, <2>2
<1>14. TypeOK'
  <2>1. /\ alertOpen' \in [Monitors -> BOOLEAN] /\ semq' \in Seq(Monitors)
        /\ dead' \in SUBSET Monitors /\ cpu' \in Monitors \union {None}
    BY <1>2 DEF IInv, TypeOK
  <2>2. sent' \in Alerts
    BY <1>2, NoAlertTyped
  <2> QED
    BY <1>8, <1>10, <1>11, <2>1, <2>2 DEF TypeOK, Alerts
<1> QED
  BY <1>8, <1>10, <1>13, <1>14 DEF IInv

LEMMA ReturnStep ==
  ASSUME IInv, NEW t \in Monitors, Return(t) PROVE IInv'
<1>1. /\ stack[t] # <<>> /\ Top(t) \in SoundFrames /\ Rest(t) \in Seq(CallingFrames)
      /\ Top(t).fn = "poll_once" /\ Top(t).pc = "return"
      /\ cpu = t
  BY TopFacts DEF Return, IInv, Running
<1>2. ~ At(t, "on_transition", "decide") /\ \A m \in Monitors : ~ InLock(t, m)
  BY <1>1 DEF At, InLock
<1>3. \A x \in Monitors : Parents[x] = <<>> => Settled(x)'
  BY <1>1, <1>2, RootsBefore DEF Settled, Return
<1>4. Top(t).res \in Results
  BY <1>1, FrameFields
<1> DEFINE caller == Head(Rest(t))
           g == ReleaseFrame(caller.m, "polled", caller.i, Top(t).res)
           back == Rest(t) # <<>> /\ caller.fn = "release_children"
           s == IF back THEN <<g>> \o Tail(Rest(t)) ELSE Rest(t)
<1>5. stack' = [stack EXCEPT ![t] = s]
  BY DEF Return
<1>6. /\ SoundStack(s)
      /\ \A m \in Monitors : ~ InLock(t, m)'
      /\ ~ At(t, "on_transition", "decide")'
  <2>1. CASE back
    <3>1. caller \in CallingFrames /\ Tail(Rest(t)) \in Seq(CallingFrames)
      BY <1>1, <2>1, PopFrame
    <3>2. caller.m \in Monitors /\ caller.i \in Nat \ {0} /\ caller.i \in 1..Len(Order)
      <4>1. caller \in SoundFrames /\ caller.fn = "release_children" /\ caller.pc = "repoll"
        BY <2>1, <3>1 DEF CallingFrames
      <4> QED
        BY <4>1, FrameFields
    <3>3. g \in SoundFrames /\ g.fn = "release_children"
      BY <1>4, <3>2, ReleaseFrameSound DEF ReleaseFrame
    <3> HIDE DEF g, caller
    <3> QED
      BY <1>1, <1>5, <2>1, <3>1, <3>3, ReplaceTop
  <2>2. CASE ~ back
    <3>1. s = Rest(t)
      BY <2>2
    <3> HIDE DEF s
    <3> QED
      BY <1>1, <1>5, <3>1, DropTop
  <2> QED
    BY <2>1, <2>2
<1> HIDE DEF s
<1>7. lockq' = lockq
  BY DEF Return, LocksAfter
<1>8. /\ UNCHANGED <<mon, semq, alertOpen, dead>> /\ sent' \in Alerts /\ cpu' \in {t, None}
  BY NoAlertTyped DEF Return
<1>9. alertOpen' \in [Monitors -> BOOLEAN] /\ dead' \in SUBSET Monitors
  BY <1>8 DEF IInv, TypeOK
<1> QED
  BY <1>1, <1>2, <1>3, <1>5, <1>6, <1>7, <1>8, <1>9, PlainStep

-----------------------------------------------------------------------------
(* _on_transition *)

\* Recording the event of a decided transition.
LEMMA EventingSound ==
  ASSUME NEW f \in SoundFrames, f.fn = "on_transition"
  PROVE  /\ Eventing(f) \in SoundFrames
         /\ Eventing(f).fn = "on_transition" /\ Eventing(f).pc = "event"
BY FrameFields, TransitionFrameSound DEF Eventing, TransitionFrame

\* A decision taken at the top frame, which goes on to record the event.
LEMMA DecideStep ==
  ASSUME IInv, NEW t \in Monitors, stack[t] # <<>>, Top(t).fn = "on_transition",
         cpu = t, cpu' = None,
         stack' = [stack EXCEPT ![t] = <<Eventing(Top(t))>> \o Rest(t)],
         UNCHANGED <<mon, lockq, semq, dead>>,
         alertOpen' \in [Monitors -> BOOLEAN],
         sent' \in Alerts,
         \A m \in Monitors : Parents[m] = <<>> => Settled(m)'
  PROVE  IInv'
<1>1. Top(t) \in SoundFrames /\ Rest(t) \in Seq(CallingFrames)
  BY DEF IInv, StacksSound
<1>2. /\ Eventing(Top(t)) \in SoundFrames
      /\ Eventing(Top(t)).fn = "on_transition" /\ Eventing(Top(t)).pc = "event"
  BY <1>1, EventingSound
<1>3. /\ SoundStack(<<Eventing(Top(t))>> \o Rest(t))
      /\ \A m \in Monitors : ~ InLock(t, m)'
      /\ ~ At(t, "on_transition", "decide")'
  BY <1>1, <1>2, ReplaceTop
<1>4. \A m \in Monitors : ~ InLock(t, m)
  BY NotInLock
<1>5. dead' \in SUBSET Monitors
  BY DEF IInv, TypeOK
<1> QED
  BY <1>3, <1>4, <1>5, PlainStep

\* The top frame of a task that decides.
LEMMA Deciding ==
  ASSUME IInv, NEW t \in Monitors,
         At(t, "on_transition", "decide") \/ At(t, "on_transition", "confirmed")
  PROVE  /\ stack[t] # <<>> /\ Top(t) \in SoundFrames
         /\ Top(t).fn = "on_transition" /\ Top(t).m \in Monitors
         /\ Top(t).to \in States \ {"pending"}
         /\ At(t, "on_transition", "decide") => Top(t).to = mon[Top(t).m].state
         /\ At(t, "on_transition", "confirmed") =>
              /\ Parents[Top(t).m] # <<>>
              /\ ~ At(t, "on_transition", "decide")
<1>1. stack[t] # <<>> /\ Top(t).fn = "on_transition" /\ Top(t) \in SoundFrames
  BY DEF At, IInv, StacksSound
<1>2. At(t, "on_transition", "confirmed") => Top(t).pc = "confirmed"
  BY DEF At
<1>3. At(t, "on_transition", "decide") => Top(t).pc = "decide"
  BY DEF At
<1> QED
  BY <1>1, <1>2, <1>3, FrameFields DEF IInv, DecisionsSound

\* The flag of an alert that is sent.
LEMMA OpenAlert ==
  ASSUME alertOpen \in [Monitors -> BOOLEAN], NEW m \in Monitors,
         alertOpen' = [alertOpen EXCEPT ![m] = TRUE]
  PROVE  /\ alertOpen' \in [Monitors -> BOOLEAN] /\ alertOpen'[m] = TRUE
         /\ \A x \in Monitors \ {m} : alertOpen'[x] = alertOpen[x]
<1>1. alertOpen' \in [Monitors -> BOOLEAN]
  BY Zenon
<1>2. alertOpen'[m] = TRUE
  BY Zenon
<1>3. ASSUME NEW x \in Monitors \ {m} PROVE alertOpen'[x] = alertOpen[x]
  BY Zenon
<1> QED
  BY <1>1, <1>2, <1>3, Zenon

\* The flag of an alert that is answered.
LEMMA CloseAlert ==
  ASSUME alertOpen \in [Monitors -> BOOLEAN], NEW m \in Monitors,
         alertOpen' = [alertOpen EXCEPT ![m] = FALSE]
  PROVE  /\ alertOpen' \in [Monitors -> BOOLEAN] /\ alertOpen'[m] = FALSE
         /\ \A x \in Monitors \ {m} : alertOpen'[x] = alertOpen[x]
<1>1. alertOpen' \in [Monitors -> BOOLEAN]
  BY Zenon
<1>2. alertOpen'[m] = FALSE
  BY Zenon
<1>3. ASSUME NEW x \in Monitors \ {m} PROVE alertOpen'[x] = alertOpen[x]
  BY Zenon
<1> QED
  BY <1>1, <1>2, <1>3, Zenon

LEMMA SuppressStep ==
  ASSUME IInv, NEW t \in Monitors, Suppress(t) PROVE IInv'
<1>1. /\ At(t, "on_transition", "decide") \/ At(t, "on_transition", "confirmed")
      /\ cpu = t /\ Blocked(Top(t).m)
  BY DEF Suppress, Running
<1>2. Parents[Top(t).m] # <<>>
  BY <1>1, Deciding, RootNotBlocked
<1>3. \A m \in Monitors : Parents[m] = <<>> => Settled(m)'
  BY <1>1, <1>2, RootsBefore DEF Settled, Suppress
<1>4. sent' \in Alerts /\ alertOpen' \in [Monitors -> BOOLEAN] /\ cpu' = None
  BY NoAlertTyped DEF Suppress, IInv, TypeOK
<1> QED
  BY <1>1, <1>3, <1>4, Deciding, DecideStep DEF Suppress

LEMMA AnnounceStep ==
  ASSUME IInv, NEW t \in Monitors, Announce(t) PROVE IInv'
<1>1. /\ At(t, "on_transition", "decide") \/ At(t, "on_transition", "confirmed")
      /\ cpu = t /\ Top(t).to \in Problem
  BY DEF Announce, AnnounceReady, Running
<1> PICK m \in Monitors : m = Top(t).m
  BY <1>1, Deciding
<1>2. /\ Top(t).to \in States \ {"pending"}
      /\ Parents[m] = <<>> => Top(t).to = mon[m].state
  BY <1>1, Deciding
<1>3. alertOpen' = [alertOpen EXCEPT ![m] = TRUE] /\ mon' = mon
  BY DEF Announce, Opened
<1>4. /\ alertOpen' \in [Monitors -> BOOLEAN] /\ alertOpen'[m] = TRUE
      /\ \A x \in Monitors \ {m} : alertOpen'[x] = alertOpen[x]
  <2>1. alertOpen \in [Monitors -> BOOLEAN]
    BY DEF IInv, TypeOK
  <2> QED
    BY <1>3, <2>1, OpenAlert, Zenon
<1>5. \A x \in Monitors : Parents[x] = <<>> => Settled(x)'
  <2>1. ASSUME NEW x \in Monitors \ {m}, Parents[x] = <<>> PROVE Settled(x)'
    BY <1>1, <1>3, <1>4, <2>1, RootsBefore DEF Settled
  <2>2. Parents[m] = <<>> => Settled(m)'
    BY <1>1, <1>2, <1>3, <1>4 DEF Settled
  <2> QED
    BY <2>1, <2>2
<1>6. sent' \in Alerts
  BY <1>2, AlertTyped DEF Announce
<1> QED
  BY <1>1, <1>4, <1>5, <1>6, Deciding, DecideStep DEF Announce

LEMMA ResolveStep ==
  ASSUME IInv, NEW t \in Monitors, Resolve(t) PROVE IInv'
<1>1. /\ At(t, "on_transition", "decide") /\ cpu = t /\ Top(t).to = "up"
  BY DEF Resolve, ResolveReady, Running
<1> PICK m \in Monitors : m = Top(t).m
  BY <1>1, Deciding
<1>2. mon[m].state = "up"
  BY <1>1, Deciding
<1>3. alertOpen' = [alertOpen EXCEPT ![m] = FALSE] /\ mon' = mon
  BY DEF Resolve
<1>4. /\ alertOpen' \in [Monitors -> BOOLEAN] /\ alertOpen'[m] = FALSE
      /\ \A x \in Monitors \ {m} : alertOpen'[x] = alertOpen[x]
  <2>1. alertOpen \in [Monitors -> BOOLEAN]
    BY DEF IInv, TypeOK
  <2> QED
    BY <1>3, <2>1, CloseAlert, Zenon
<1>5. \A x \in Monitors : Parents[x] = <<>> => Settled(x)'
  <2>1. ASSUME NEW x \in Monitors \ {m}, Parents[x] = <<>> PROVE Settled(x)'
    BY <1>1, <1>3, <1>4, <2>1, RootsBefore DEF Settled
  <2>2. Settled(m)'
    BY <1>2, <1>3, <1>4 DEF Settled, Problem
  <2> QED
    BY <2>1, <2>2
<1>6. sent' \in Alerts
  BY AlertTyped DEF Resolve, States
<1> QED
  BY <1>1, <1>4, <1>5, <1>6, Deciding, DecideStep DEF Resolve

LEMMA RecoverSilentlyStep ==
  ASSUME IInv, NEW t \in Monitors, RecoverSilently(t) PROVE IInv'
<1>1. /\ At(t, "on_transition", "decide") /\ cpu = t /\ Top(t).to = "up"
      /\ ~ alertOpen[Top(t).m]
  BY DEF RecoverSilently, ResolveReady, Running
<1> PICK m \in Monitors : m = Top(t).m
  BY <1>1, Deciding
<1>2. mon[m].state = "up"
  BY <1>1, Deciding
<1>3. \A x \in Monitors : Parents[x] = <<>> => Settled(x)'
  <2>1. mon' = mon /\ alertOpen' = alertOpen
    BY DEF RecoverSilently
  <2>2. ASSUME NEW x \in Monitors \ {m}, Parents[x] = <<>> PROVE Settled(x)'
    BY <1>1, <2>1, <2>2, RootsBefore DEF Settled
  <2>3. Settled(m)'
    BY <1>1, <1>2, <2>1 DEF Settled, Problem
  <2> QED
    BY <2>2, <2>3
<1>4. sent' \in Alerts /\ alertOpen' \in [Monitors -> BOOLEAN]
  BY NoAlertTyped DEF RecoverSilently, IInv, TypeOK
<1> QED
  BY <1>1, <1>3, <1>4, Deciding, DecideStep DEF RecoverSilently

LEMMA BeginConfirmStep ==
  ASSUME IInv, NEW t \in Monitors, BeginConfirm(t) PROVE IInv'
<1> DEFINE m == Top(t).m
           g == TransitionFrame(m, Top(t).to, "confirm", 1, 0)
<1>1. At(t, "on_transition", "decide") /\ cpu = t /\ Parents[m] # <<>>
  BY DEF BeginConfirm, Running
<1>2. /\ stack[t] # <<>> /\ Rest(t) \in Seq(CallingFrames)
      /\ Top(t).fn = "on_transition" /\ m \in Monitors
      /\ Top(t).to \in States \ {"pending"}
  BY <1>1, Deciding, TopFacts DEF IInv
<1>3. g \in SoundFrames /\ g.fn = "on_transition" /\ g.pc = "confirm"
  <2>1. 1 \in Nat /\ 0 \in Nat /\ 1 > 0
    OBVIOUS
  <2>2. g \in SoundFrames
    BY <1>1, <1>2, <2>1, TransitionFrameSound
  <2> QED
    BY <2>2 DEF TransitionFrame
<1>4. stack' = [stack EXCEPT ![t] = <<g>> \o Rest(t)]
  BY DEF BeginConfirm
<1>5. \A x \in Monitors : Parents[x] = <<>> => Settled(x)'
  BY <1>1, RootsBefore DEF Settled, BeginConfirm
<1> HIDE DEF g
<1>6. /\ SoundStack(<<g>> \o Rest(t))
      /\ \A x \in Monitors : ~ InLock(t, x)'
      /\ ~ At(t, "on_transition", "decide")'
  BY <1>2, <1>3, <1>4, ReplaceTop
<1>7. \A x \in Monitors : ~ InLock(t, x)
  BY <1>2, NotInLock
<1>8. /\ UNCHANGED <<mon, lockq, semq, cpu>> /\ sent' \in Alerts
      /\ alertOpen' \in [Monitors -> BOOLEAN] /\ dead' \in SUBSET Monitors
  BY NoAlertTyped DEF BeginConfirm, IInv, TypeOK
<1> QED
  BY <1>1, <1>4, <1>5, <1>6, <1>7, <1>8, PlainStep

LEMMA ConfirmStep ==
  ASSUME IInv, NEW t \in Monitors, Confirm(t) PROVE IInv'
<1>1. At(t, "on_transition", "confirm") /\ cpu = t
  BY DEF Confirm, Running
<1>2. /\ stack[t] # <<>> /\ Top(t) \in SoundFrames /\ Rest(t) \in Seq(CallingFrames)
      /\ Top(t).fn = "on_transition" /\ Top(t).pc = "confirm"
  BY <1>1, TopFacts DEF IInv
<1>3. /\ Top(t).m \in Monitors /\ Top(t).to \in States \ {"pending"}
      /\ Top(t).i \in Nat \ {0} /\ Top(t).n \in Nat /\ Parents[Top(t).m] # <<>>
  BY <1>2, FrameFields
<1>4. ~ At(t, "on_transition", "decide") /\ \A x \in Monitors : ~ InLock(t, x)
  BY <1>2 DEF At, InLock
<1>5. UNCHANGED <<mon, alertOpen, semq, dead>> /\ sent' = None
  BY DEF Confirm
<1> DEFINE g == TransitionFrame(Top(t).m, Top(t).to, "confirmed", 0, 0)
           ps == Parents[Top(t).m]
           called(j, n) == TransitionFrame(Top(t).m, Top(t).to, "confirm", j, n)
<1>6. CASE stack' = [stack EXCEPT ![t] = <<g>> \o Rest(t)] /\ UNCHANGED <<lockq, cpu>>
  <2>1. g \in SoundFrames /\ g.fn = "on_transition" /\ g.pc = "confirmed"
    BY <1>3, TransitionFrameSound DEF TransitionFrame
  <2> HIDE DEF g
  <2>2. /\ SoundStack(<<g>> \o Rest(t))
        /\ \A x \in Monitors : ~ InLock(t, x)'
        /\ ~ At(t, "on_transition", "decide")'
    BY <1>2, <1>6, <2>1, ReplaceTop
  <2>3. \A x \in Monitors : Parents[x] = <<>> => Settled(x)'
    BY <1>1, <1>4, <1>5, RootsBefore DEF Settled
  <2>4. sent' \in Alerts /\ alertOpen' \in [Monitors -> BOOLEAN] /\ dead' \in SUBSET Monitors
    BY <1>5, NoAlertTyped DEF IInv, TypeOK
  <2> QED
    BY <1>1, <1>4, <1>5, <1>6, <2>2, <2>3, <2>4, PlainStep
<1>7. ASSUME NEW j \in 1..Len(ps), NEW n \in Nat,
             CallPoll(t, ps[j], <<called(j, n)>> \o Rest(t))
      PROVE  IInv'
  <2>1. ps[j] \in Monitors
    BY <1>3, <1>7, NamedMonitors
  <2>2. called(j, n) \in CallingFrames
    BY <1>3, <1>7, TransitionFrameSound
  <2>3. <<called(j, n)>> \o Rest(t) \in Seq(CallingFrames)
    BY <1>2, <2>2, PushCalling
  <2> HIDE DEF called, ps
  <2> QED
    BY <1>1, <1>4, <1>5, <1>7, <2>1, <2>3, CallStep
<1>8. \/ stack' = [stack EXCEPT ![t] = <<g>> \o Rest(t)] /\ UNCHANGED <<lockq, cpu>>
      \/ \E j \in Top(t).i..Len(ps) :
           CallPoll(t, ps[j], <<called(j, IF j = Top(t).i THEN Top(t).n + 1 ELSE 1)>> \o Rest(t))
  BY DEF Confirm
<1>9. ASSUME NEW j \in Top(t).i..Len(ps)
      PROVE  /\ j \in 1..Len(ps)
             /\ (IF j = Top(t).i THEN Top(t).n + 1 ELSE 1) \in Nat
  <2>1. Len(ps) \in Nat
    BY <1>3, NamedMonitors
  <2> QED
    BY <1>3, <2>1
<1> HIDE DEF g, ps, called
<1>10. CASE \E j \in Top(t).i..Len(ps) :
              CallPoll(t, ps[j],
                <<called(j, IF j = Top(t).i THEN Top(t).n + 1 ELSE 1)>> \o Rest(t))
  <2>1. PICK j \in Top(t).i..Len(ps) :
          CallPoll(t, ps[j],
            <<called(j, IF j = Top(t).i THEN Top(t).n + 1 ELSE 1)>> \o Rest(t))
    BY <1>10
  <2> QED
    BY <1>7, <1>9, <2>1
<1> QED
  BY <1>6, <1>8, <1>10

LEMMA EventRecordedStep ==
  ASSUME IInv, NEW t \in Monitors, EventRecorded(t) PROVE IInv'
<1>1. At(t, "on_transition", "event") /\ cpu = None
  BY DEF EventRecorded, Resumed
<1>2. /\ stack[t] # <<>> /\ Rest(t) \in Seq(CallingFrames)
      /\ Top(t).fn = "on_transition" /\ Top(t).pc = "event" /\ Top(t).m \in Monitors
  BY <1>1, TopFacts DEF IInv
<1>3. ~ At(t, "on_transition", "decide") /\ \A x \in Monitors : ~ InLock(t, x)
  BY <1>2 DEF At, InLock
<1> DEFINE g == ReleaseFrame(Top(t).m, "scan", 1, None)
           s == IF Top(t).to = "up" THEN <<g>> \o Rest(t) ELSE Rest(t)
<1>4. stack' = [stack EXCEPT ![t] = s]
  BY DEF EventRecorded
<1>5. g \in SoundFrames /\ g.fn = "release_children"
  <2>1. 1 \in Nat \ {0} /\ "scan" \in {"scan", "repoll", "polled", "event"}
        /\ None \in Results \union {None}
    OBVIOUS
  <2>2. g \in SoundFrames
    BY <1>2, <2>1, ReleaseFrameSound
  <2> QED
    BY <2>2 DEF ReleaseFrame
<1> HIDE DEF g
<1>6. /\ SoundStack(s)
      /\ \A m \in Monitors : ~ InLock(t, m)'
      /\ ~ At(t, "on_transition", "decide")'
  <2>1. CASE Top(t).to = "up"
    BY <1>2, <1>4, <1>5, <2>1, ReplaceTop
  <2>2. CASE Top(t).to # "up"
    BY <1>2, <1>4, <2>2, DropTop
  <2> QED
    BY <2>1, <2>2
<1> HIDE DEF s
<1>7. /\ UNCHANGED <<mon, alertOpen, lockq, semq, dead>> /\ sent' \in Alerts /\ cpu' = t
  BY NoAlertTyped DEF EventRecorded
<1>8. \A x \in Monitors : Parents[x] = <<>> => Settled(x)'
  BY <1>1, <1>3, <1>7, RootsBefore DEF Settled
<1>9. alertOpen' \in [Monitors -> BOOLEAN] /\ dead' \in SUBSET Monitors
  BY <1>7 DEF IInv, TypeOK
<1> QED
  BY <1>1, <1>3, <1>4, <1>6, <1>7, <1>8, <1>9, PlainStep

-----------------------------------------------------------------------------
(* _release_children *)

LEMMA ReleaseStep ==
  ASSUME IInv, NEW t \in Monitors, Release(t) PROVE IInv'
<1>1. At(t, "release_children", "scan") /\ cpu = t
  BY DEF Release, Running
<1>2. /\ stack[t] # <<>> /\ Top(t) \in SoundFrames /\ Rest(t) \in Seq(CallingFrames)
      /\ Top(t).fn = "release_children" /\ Top(t).pc = "scan"
  BY <1>1, TopFacts DEF IInv
<1>3. Top(t).m \in Monitors /\ Top(t).i \in Nat \ {0}
  BY <1>2, FrameFields
<1>4. ~ At(t, "on_transition", "decide") /\ \A x \in Monitors : ~ InLock(t, x)
  BY <1>2 DEF At, InLock
<1>5. UNCHANGED <<mon, alertOpen, semq, dead>> /\ sent' = None
  BY DEF Release
<1>6. CASE stack' = [stack EXCEPT ![t] = Rest(t)] /\ UNCHANGED <<lockq, cpu>>
  <2>1. /\ SoundStack(Rest(t))
        /\ \A x \in Monitors : ~ InLock(t, x)'
        /\ ~ At(t, "on_transition", "decide")'
    BY <1>2, <1>6, DropTop
  <2>2. \A x \in Monitors : Parents[x] = <<>> => Settled(x)'
    BY <1>1, <1>4, <1>5, RootsBefore DEF Settled
  <2>3. sent' \in Alerts /\ alertOpen' \in [Monitors -> BOOLEAN] /\ dead' \in SUBSET Monitors
    BY <1>5, NoAlertTyped DEF IInv, TypeOK
  <2> QED
    BY <1>1, <1>4, <1>5, <1>6, <2>1, <2>2, <2>3, PlainStep
<1> DEFINE calling(j) == ReleaseFrame(Top(t).m, "repoll", j, None)
<1>7. ASSUME NEW j \in Top(t).i..Len(Order),
             CallPoll(t, Order[j], <<calling(j)>> \o Rest(t))
      PROVE  IInv'
  <2>1. j \in 1..Len(Order) /\ j \in Nat \ {0} /\ Order[j] \in Monitors
    BY <1>3, NamedMonitors
  <2>2. calling(j) \in CallingFrames
    BY <1>3, <2>1, ReleaseFrameSound
  <2>3. <<calling(j)>> \o Rest(t) \in Seq(CallingFrames)
    BY <1>2, <2>2, PushCalling
  <2> HIDE DEF calling
  <2> QED
    BY <1>1, <1>4, <1>5, <1>7, <2>1, <2>3, CallStep
<1>8. \/ stack' = [stack EXCEPT ![t] = Rest(t)] /\ UNCHANGED <<lockq, cpu>>
      \/ \E j \in Top(t).i..Len(Order) : CallPoll(t, Order[j], <<calling(j)>> \o Rest(t))
  BY DEF Release
<1> QED
  BY <1>6, <1>7, <1>8

\* The frame of _release_children moves on to "event" or to the next child.
LEMMA ReleaseMoves ==
  ASSUME IInv, NEW t \in Monitors, NEW pc \in {"polled", "event"},
         At(t, "release_children", pc), cpu \in {t, None}, cpu' \in {t, None},
         NEW g, g = ReleaseFrame(Top(t).m, "event", Top(t).i, None)
                \/ g = ReleaseFrame(Top(t).m, "scan", Top(t).i + 1, None),
         stack' = [stack EXCEPT ![t] = <<g>> \o Rest(t)],
         UNCHANGED <<mon, lockq, semq, dead>>, sent' \in Alerts,
         alertOpen' \in [Monitors -> BOOLEAN],
         \A x \in Monitors : Parents[x] = <<>> => Settled(x)'
  PROVE  IInv'
<1>1. /\ stack[t] # <<>> /\ Top(t) \in SoundFrames /\ Rest(t) \in Seq(CallingFrames)
      /\ Top(t).fn = "release_children" /\ Top(t).pc = pc
  BY TopFacts DEF IInv
<1>2. Top(t).m \in Monitors /\ Top(t).i \in Nat \ {0} /\ Top(t).i \in 1..Len(Order)
  BY <1>1, FrameFields
<1>3. g \in SoundFrames /\ g.fn = "release_children"
  <2>1. Top(t).i + 1 \in Nat \ {0}
    BY <1>2
  <2> QED
    BY <1>2, <2>1, ReleaseFrameSound DEF ReleaseFrame
<1>4. /\ SoundStack(<<g>> \o Rest(t))
      /\ \A x \in Monitors : ~ InLock(t, x)'
      /\ ~ At(t, "on_transition", "decide")'
  BY <1>1, <1>3, ReplaceTop
<1>5. \A x \in Monitors : ~ InLock(t, x)
  BY <1>1 DEF InLock
<1>6. dead' \in SUBSET Monitors
  BY DEF IInv, TypeOK
<1> QED
  BY <1>4, <1>5, <1>6, PlainStep

LEMMA RemindStep ==
  ASSUME IInv, NEW t \in Monitors, Remind(t) PROVE IInv'
<1>1. At(t, "release_children", "polled") /\ cpu = t /\ ~ At(t, "on_transition", "decide")
  BY DEF Remind, Running, At
<1>2. Top(t).i \in 1..Len(Order)
  BY <1>1, TopFacts, FrameFields DEF IInv
<1> PICK child \in Monitors : child = Order[Top(t).i]
  BY <1>2, NamedMonitors
<1>3. mon[child].state \in Problem /\ ~ alertOpen[child]
  BY DEF Remind, StillUnreported, Unreported
<1>4. Parents[child] # <<>>
  BY <1>1, <1>3, RootsBefore DEF Settled
<1>5. /\ alertOpen' = [alertOpen EXCEPT ![child] = TRUE]
      /\ sent' = Alert(child, mon[child].state, TRUE)
      /\ UNCHANGED <<mon, lockq, semq, dead>> /\ cpu' = None
      /\ stack' = [stack EXCEPT ![t] =
           <<ReleaseFrame(Top(t).m, "event", Top(t).i, None)>> \o Rest(t)]
  BY DEF Remind, Opened
<1>6. /\ alertOpen' \in [Monitors -> BOOLEAN]
      /\ \A x \in Monitors \ {child} : alertOpen'[x] = alertOpen[x]
  <2>1. alertOpen \in [Monitors -> BOOLEAN]
    BY DEF IInv, TypeOK
  <2> QED
    BY <1>5, <2>1, OpenAlert, Zenon
<1>7. \A x \in Monitors : Parents[x] = <<>> => Settled(x)'
  BY <1>1, <1>4, <1>5, <1>6, RootsBefore DEF Settled
<1>8. sent' \in Alerts
  BY <1>3, <1>5, AlertTyped DEF Problem, States
<1> QED
  BY <1>1, <1>5, <1>6, <1>7, <1>8, ReleaseMoves

LEMMA PassOverStep ==
  ASSUME IInv, NEW t \in Monitors, PassOver(t) PROVE IInv'
<1>1. At(t, "release_children", "polled") /\ cpu = t /\ ~ At(t, "on_transition", "decide")
  BY DEF PassOver, Running, At
<1>2. /\ UNCHANGED <<mon, alertOpen, lockq, semq, cpu, dead>> /\ sent' \in Alerts
      /\ stack' = [stack EXCEPT ![t] =
           <<ReleaseFrame(Top(t).m, "scan", Top(t).i + 1, None)>> \o Rest(t)]
  BY NoAlertTyped DEF PassOver
<1>3. alertOpen' \in [Monitors -> BOOLEAN]
  BY <1>2 DEF IInv, TypeOK
<1>4. \A x \in Monitors : Parents[x] = <<>> => Settled(x)'
  BY <1>1, <1>2, RootsBefore DEF Settled
<1> QED
  BY <1>1, <1>2, <1>3, <1>4, ReleaseMoves

LEMMA ReminderRecordedStep ==
  ASSUME IInv, NEW t \in Monitors, ReminderRecorded(t) PROVE IInv'
<1>1. At(t, "release_children", "event") /\ cpu = None /\ ~ At(t, "on_transition", "decide")
  BY DEF ReminderRecorded, Resumed, At
<1>2. /\ UNCHANGED <<mon, alertOpen, lockq, semq, dead>> /\ sent' \in Alerts /\ cpu' = t
      /\ stack' = [stack EXCEPT ![t] =
           <<ReleaseFrame(Top(t).m, "scan", Top(t).i + 1, None)>> \o Rest(t)]
  BY NoAlertTyped DEF ReminderRecorded
<1>3. alertOpen' \in [Monitors -> BOOLEAN]
  BY <1>2 DEF IInv, TypeOK
<1>4. \A x \in Monitors : Parents[x] = <<>> => Settled(x)'
  BY <1>1, <1>2, RootsBefore DEF Settled
<1> QED
  BY <1>1, <1>2, <1>3, <1>4, ReleaseMoves

-----------------------------------------------------------------------------

LEMMA StoreFailsStep ==
  ASSUME IInv, NEW t \in Monitors, StoreFails(t) PROVE IInv'
<1>1. /\ cpu = None /\ stack' = [stack EXCEPT ![t] = <<>>]
      /\ UNCHANGED <<mon, alertOpen, semq, cpu>> /\ sent' \in Alerts
      /\ dead' = dead \union {t}
      /\ lockq' = LocksAfterFailure(t)
  BY NoAlertTyped DEF StoreFails, Resumed
<1>2. SoundStack(<<>>)
  BY DEF SoundStack
<1>3. /\ stack' \in [Monitors -> Seq(Frames)] /\ StacksSound' /\ stack'[t] = <<>>
      /\ \A u \in Monitors \ {t} : stack'[u] = stack[u]
  BY <1>1, <1>2, Restack DEF IInv
<1>4. /\ \A x \in Monitors : ~ InLock(t, x)' /\ ~ Polling(t, x)'
      /\ ~ At(t, "on_transition", "decide")'
  BY <1>3 DEF InLock, Polling, At
<1>5. ~ At(t, "on_transition", "decide")
  BY DEF StoreFails, At
<1>6. \A x \in Monitors : Parents[x] = <<>> => Settled(x)'
  BY <1>1, <1>5, RootsBefore DEF Settled
<1>7. /\ alertOpen' \in [Monitors -> BOOLEAN] /\ dead' \in SUBSET Monitors
  BY <1>1 DEF IInv, TypeOK
<1>8. CASE At(t, "poll_once", "record")
  <2> PICK m \in Monitors : m = Top(t).m
    BY <1>8, TopFacts DEF IInv
  <2>1. Polling(t, m) /\ lockq' = [lockq EXCEPT ![m] = Tail(@)]
    BY <1>1, <1>8 DEF Polling, LocksAfterFailure
  <2>2. LocksSound' /\ lockq' \in [Monitors -> Seq(Monitors)]
    BY <1>3, <1>4, <2>1, LeaveLock DEF IInv
  <2>3. DecisionsSound' /\ RootsAlertedExactly'
    BY <1>1, <1>3, <1>4, <1>6, Decided
  <2>4. TypeOK'
    BY <1>1, <1>3, <1>7, <2>2 DEF IInv, TypeOK, Alerts
  <2> QED
    BY <1>3, <2>2, <2>3, <2>4 DEF IInv
<1>9. CASE ~ At(t, "poll_once", "record")
  <2>1. lockq' = lockq
    BY <1>1, <1>9 DEF LocksAfterFailure
  <2>2. \A x \in Monitors : ~ InLock(t, x)
    BY <1>9 DEF StoreFails, At, InLock
  <2> QED
    BY <1>1, <1>2, <1>4, <1>6, <1>7, <2>1, <2>2, PlainStep
<1> QED
  BY <1>8, <1>9

-----------------------------------------------------------------------------
(* Theorems *)

LEMMA InitSound == Init => IInv
<1> SUFFICES ASSUME Init PROVE IInv
  OBVIOUS
<1>1. TypeOK
  <2>1. Fresh \in Monitor
    BY DEF Fresh, Monitor, States
  <2> QED
    BY <2>1 DEF Init, TypeOK
<1>2. StacksSound /\ DecisionsSound
  BY DEF Init, StacksSound, DecisionsSound, At
<1>3. LocksSound
  BY DEF Init, LocksSound, InLock, Polling, At
<1>4. RootsAlertedExactly
  BY DEF Init, RootsAlertedExactly, Fresh, Problem
<1> QED
  BY <1>1, <1>2, <1>3, <1>4 DEF IInv

LEMMA StepSound == IInv /\ [Next]_vars => IInv'
<1> SUFFICES ASSUME IInv, [Next]_vars PROVE IInv'
  OBVIOUS
<1>1. ASSUME NEW t \in Monitors, StartPoll(t) \/ Continue(t) PROVE IInv'
  BY <1>1, StartPollStep, AcquireStep, ProbeStep, RecordStep, ReturnStep,
     SuppressStep, AnnounceStep, BeginConfirmStep, ConfirmStep, ResolveStep,
     RecoverSilentlyStep, EventRecordedStep, ReleaseStep, RemindStep, PassOverStep,
     ReminderRecordedStep, StoreFailsStep DEF Continue
<1>2. CASE UNCHANGED vars
  BY <1>2 DEF vars, IInv, TypeOK, StacksSound, LocksSound, DecisionsSound,
              RootsAlertedExactly, InLock, Polling, At, Top, Rest
<1> QED
  BY <1>1, <1>2 DEF Next

\* The inductive invariant holds in every reachable state.
THEOREM Invariance == Spec => []IInv
BY InitSound, StepSound, PTL DEF Spec

\* Type correctness: the frames, queues and alerts are what they are meant to
\* be, whatever the checks answer and whenever an insert fails.
THEOREM TypeCorrect == Spec => []TypeOK
<1>1. IInv => TypeOK
  BY DEF IInv
<1> QED
  BY <1>1, Invariance, PTL

\* No monitor is probed or recorded by two tasks at once, for every dependency
\* graph. (scheduler.py:71-75)
THEOREM PollsAreSerialised == Spec => []PollsSerialised
<1>1. IInv => PollsSerialised
  BY DEF IInv, LocksSound, PollsSerialised
<1> QED
  BY <1>1, Invariance, PTL

\* A task that holds a lock waits for no other lock, however deep confirmations
\* and recoveries nest; so locks are never waited for in a circle.
THEOREM HoldersNeverWait == Spec => []HolderNeverWaits
<1>1. IInv => HolderNeverWaits
  <2> SUFFICES ASSUME IInv, NEW m \in Monitors, lockq[m] # <<>>
               PROVE  LET h == Head(lockq[m])
                      IN  /\ \/ At(h, "poll_once", "lock") \/ Polling(h, m)
                          /\ Top(h).m = m
    BY DEF HolderNeverWaits
  <2>1. lockq[m] \in Seq(Monitors)
    BY DEF IInv, TypeOK
  <2>2. Len(lockq[m]) \in Nat \ {0} /\ Head(lockq[m]) = lockq[m][1]
    BY <2>1, EmptySeq
  <2>3. Head(lockq[m]) \in Monitors /\ InLock(Head(lockq[m]), m)
    BY <2>1, <2>2 DEF IInv, LocksSound
  <2> DEFINE h == Head(lockq[m])
  <2>4. Top(h) \in SoundFrames
    BY <2>3 DEF InLock, IInv, StacksSound
  <2> QED
    BY <2>3, <2>4, FrameFields DEF InLock, At, Polling
<1> QED
  BY <1>1, Invariance, PTL

\* A monitor with no parents has an open alert exactly while it has a problem,
\* for every graph around it. (scheduler.py:114-129)
THEOREM RootsAreAlertedExactly == Spec => []RootsAlertedExactly
<1>1. IInv => RootsAlertedExactly
  BY DEF IInv
<1> QED
  BY <1>1, Invariance, PTL

\* The scheduler implements Pager: a problem is announced only for a monitor that
\* is not behind an outage at that moment, a recovery only for an announced
\* problem, a reminder only for one nobody was told about.
THEOREM PagerPromiseKept == Spec => KeepsPagerPromise
<1>1. Init => PagerView!Init
  BY DEF Init, PagerView!Init
<1>2. IInv /\ [Next]_vars => [PagerView!Next]_(PagerView!vars)
  <2> SUFFICES ASSUME IInv, [Next]_vars PROVE [PagerView!Next]_(PagerView!vars)
    OBVIOUS
  <2> DEFINE open    == {m \in Monitors : alertOpen[m]}
             blocked == {m \in Monitors : Blocked(m)}
  <2>0. alertOpen \in [Monitors -> BOOLEAN]
    BY DEF IInv, TypeOK
  <2>1. ASSUME mon' = mon PROVE blocked' = blocked
    BY <2>1 DEF Blocked, StateOf
  <2>2. ASSUME alertOpen' = alertOpen, sent' = None PROVE PagerView!Next
    BY <2>2 DEF PagerView!Next, PagerView!Quiet
  <2>3. ASSUME NEW t \in Monitors, Announce(t) PROVE PagerView!Next
    <3>1. At(t, "on_transition", "decide") \/ At(t, "on_transition", "confirmed")
      BY <2>3 DEF Announce, AnnounceReady
    <3> PICK m \in Monitors : m = Top(t).m
      BY <3>1, Deciding
    <3>2. Top(t).to \in {"down", "warn"} /\ ~ Blocked(m) /\ mon' = mon
      BY <2>3 DEF Announce, AnnounceReady, Problem
    <3>3. alertOpen' = [alertOpen EXCEPT ![m] = TRUE] /\ sent' = Alert(m, Top(t).to, FALSE)
      BY <2>3 DEF Announce, Opened
    <3>4. open' = open \union {m}
      <4>1. /\ alertOpen' \in [Monitors -> BOOLEAN] /\ alertOpen'[m] = TRUE
            /\ \A x \in Monitors \ {m} : alertOpen'[x] = alertOpen[x]
        BY <2>0, <3>3, OpenAlert, Zenon
      <4> QED
        BY <4>1, Zenon
    <3>5. PagerView!Announce(m)
      BY <2>1, <3>2, <3>3, <3>4 DEF PagerView!Announce, PagerView!Announcement, Alert
    <3> QED
      BY <3>5 DEF PagerView!Next
  <2>4. ASSUME NEW t \in Monitors, Remind(t) PROVE PagerView!Next
    <3>1. At(t, "release_children", "polled")
      BY <2>4 DEF Remind
    <3>2. Top(t).i \in 1..Len(Order)
      BY <3>1, TopFacts, FrameFields DEF IInv
    <3> PICK m \in Monitors : m = Order[Top(t).i]
      BY <3>2, NamedMonitors
    <3>3. /\ mon[m].state \in {"down", "warn"} /\ ~ Blocked(m) /\ ~ alertOpen[m]
          /\ mon' = mon
      BY <2>4 DEF Remind, StillUnreported, Unreported, Problem
    <3>4. alertOpen' = [alertOpen EXCEPT ![m] = TRUE] /\ sent' = Alert(m, mon[m].state, TRUE)
      BY <2>4 DEF Remind, Opened
    <3>5. open' = open \union {m}
      <4>1. /\ alertOpen' \in [Monitors -> BOOLEAN] /\ alertOpen'[m] = TRUE
            /\ \A x \in Monitors \ {m} : alertOpen'[x] = alertOpen[x]
        BY <2>0, <3>4, OpenAlert, Zenon
      <4> QED
        BY <4>1, Zenon
    <3>6. PagerView!Remind(m)
      BY <2>1, <3>3, <3>4, <3>5 DEF PagerView!Remind, PagerView!Announcement, Alert
    <3> QED
      BY <3>6 DEF PagerView!Next
  <2>5. ASSUME NEW t \in Monitors, Resolve(t) PROVE PagerView!Next
    <3>1. At(t, "on_transition", "decide")
      BY <2>5 DEF Resolve
    <3> PICK m \in Monitors : m = Top(t).m
      BY <3>1, Deciding
    <3>2. alertOpen[m] /\ mon' = mon
      BY <2>5 DEF Resolve, ResolveReady
    <3>3. alertOpen' = [alertOpen EXCEPT ![m] = FALSE] /\ sent' = Alert(m, "up", FALSE)
      BY <2>5 DEF Resolve
    <3>4. open' = open \ {m}
      <4>1. /\ alertOpen' \in [Monitors -> BOOLEAN] /\ alertOpen'[m] = FALSE
            /\ \A x \in Monitors \ {m} : alertOpen'[x] = alertOpen[x]
        BY <2>0, <3>3, CloseAlert, Zenon
      <4> QED
        BY <4>1, Zenon
    <3>5. PagerView!Resolve(m)
      BY <2>1, <3>2, <3>3, <3>4 DEF PagerView!Resolve, PagerView!Announcement, Alert
    <3> QED
      BY <3>5 DEF PagerView!Next
  <2>6. ASSUME NEW t \in Monitors, StartPoll(t) \/ Continue(t),
               ~ Announce(t), ~ Remind(t), ~ Resolve(t)
        PROVE  alertOpen' = alertOpen /\ sent' = None
    BY <2>6 DEF StartPoll, Continue, Acquire, Probe, Record, Return, Suppress,
                BeginConfirm, Confirm, RecoverSilently, EventRecorded, Release,
                PassOver, ReminderRecorded, StoreFails
  <2>7. CASE UNCHANGED vars
    <3>1. blocked' = blocked /\ open' = open /\ sent' = sent
      BY <2>1, <2>7 DEF vars
    <3> QED
      BY <3>1 DEF PagerView!vars
  <2> QED
    BY <2>2, <2>3, <2>4, <2>5, <2>6, <2>7 DEF Next
<1> QED
  BY <1>1, <1>2, Invariance, PTL DEF Spec, KeepsPagerPromise, PagerView!Spec
-----------------------------------------------------------------------------
(* Who is behind an outage *)

\* Config refuses a circle of depends_on, so every monitor has a level above
\* those of its parents.
Levels(level) ==
  /\ level \in [Monitors -> 0..Len(Order)]
  /\ \A m \in Monitors : \A p \in Range(Parents[m]) : level[p] < level[m]

Acyclic == \E level : Levels(level)

LEMMA ParentsAreMonitors ==
  ASSUME NEW m \in Monitors
  PROVE  /\ Parents[m] \in Seq(Monitors)
         /\ \A p \in Range(Parents[m]) : p \in Monitors /\ Parents[m] # <<>>
<1>1. Parents[m] \in Seq(Monitors)
  BY SchedulerAssumption
<1>2. /\ Len(Parents[m]) \in Nat /\ DOMAIN Parents[m] = 1..Len(Parents[m])
      /\ \A i \in 1..Len(Parents[m]) : Parents[m][i] \in Monitors
  BY <1>1, LenProperties, ElementOfSeq
<1>3. Len(<<>>) = 0
  OBVIOUS
<1> QED
  BY <1>1, <1>2, <1>3 DEF Range

\* A set of monitors that has a monitor if it has all its parents has them all.
LEMMA Descend ==
  ASSUME Acyclic, NEW S, \A m \in Monitors : Range(Parents[m]) \subseteq S => m \in S
  PROVE  Monitors \subseteq S
<1> PICK level : Levels(level)
  BY DEF Acyclic
<1> DEFINE R == {ss \in Nat \X Nat : ss[1] < ss[2]}
           T == {level[m] : m \in Monitors \ S}
<1> SUFFICES ASSUME NEW x \in Monitors, x \notin S PROVE FALSE
  OBVIOUS
<1>1. IsWellFoundedOn(R, Nat)
  BY NatLessThanWellFounded DEF OpToRel
<1>2. \A m \in Monitors : level[m] \in Nat
  BY NamedMonitors DEF Levels
<1>3. T \in SUBSET Nat /\ T # {}
  BY <1>2
<1> HIDE DEF R
<1>4. PICK n \in T : \A y \in T : <<y, n>> \notin R
  BY <1>1, <1>3, WFMin
<1>5. PICK m \in Monitors \ S : n = level[m]
  BY <1>4
<1>6. ASSUME NEW p \in Range(Parents[m]) PROVE p \in S
  <2>1. p \in Monitors /\ level[p] < level[m]
    BY ParentsAreMonitors DEF Levels
  <2>2. level[p] \in Nat /\ level[m] \in Nat
    BY <1>2, <2>1
  <2>3. <<level[p], n>> \in R
    BY <1>5, <2>1, <2>2 DEF R
  <2> QED
    BY <1>4, <2>1, <2>3
<1> QED
  BY <1>5, <1>6

\* The positions of the parents that block, and the first of them.
Blocking(ps, s, up) == {i \in 1..Len(ps) : Blocks(ps[i], s, up)}

First(ps, s, up) == IF Blocking(ps, s, up) # {} THEN Min(Blocking(ps, s, up)) ELSE 0

LEMMA BlockerByFirst ==
  ASSUME NEW ps, NEW s, NEW up
  PROVE  Blocker(ps, s, up) =
           IF First(ps, s, up) = 0 THEN None
           ELSE IF up[ps[First(ps, s, up)]] # None THEN up[ps[First(ps, s, up)]]
                ELSE ps[First(ps, s, up)]
BY DEF Blocker, SelectInSeq, First, Blocking

\* The first parent that answers is one that blocks; there is one unless none does.
LEMMA FirstBlocking ==
  ASSUME NEW ps \in Seq(Monitors), NEW s, NEW up
  PROVE  \/ First(ps, s, up) = 0 /\ \A q \in Range(ps) : ~ Blocks(q, s, up)
         \/ /\ First(ps, s, up) \in 1..Len(ps)
            /\ ps[First(ps, s, up)] \in Range(ps)
            /\ Blocks(ps[First(ps, s, up)], s, up)
<1> DEFINE I == Blocking(ps, s, up)
           R == {ss \in Nat \X Nat : ss[1] < ss[2]}
<1>1. Len(ps) \in Nat /\ DOMAIN ps = 1..Len(ps)
  BY LenProperties
<1>2. CASE I = {}
  BY <1>1, <1>2 DEF Range, First, Blocking
<1>3. CASE I # {}
  <2>1. I \in SUBSET Nat
    BY <1>1 DEF Blocking
  <2>2. \E x \in I : \A y \in I : x <= y
    <3>1. IsWellFoundedOn(R, Nat)
      BY NatLessThanWellFounded DEF OpToRel
    <3> HIDE DEF R, I
    <3>2. PICK x \in I : \A y \in I : <<y, x>> \notin R
      BY <1>3, <2>1, <3>1, WFMin
    <3>3. \A y \in I : ~ (y < x)
      BY <2>1, <3>2 DEF R
    <3> QED
      BY <2>1, <3>3
  <2>3. Min(I) \in I
    BY <2>2 DEF Min
  <2> QED
    BY <1>1, <1>3, <2>3 DEF First, Blocking, Range
<1> QED
  BY <1>2, <1>3

\* It depends on nothing but the parents' own answers.
LEMMA BlockerLocal ==
  ASSUME NEW ps \in Seq(Monitors), NEW s, NEW f, NEW g, \A q \in Range(ps) : f[q] = g[q]
  PROVE  Blocker(ps, s, f) = Blocker(ps, s, g)
<1>1. \A k \in 1..Len(ps) : f[ps[k]] = g[ps[k]]
  BY LenProperties DEF Range
<1>2. Blocking(ps, s, f) = Blocking(ps, s, g)
  BY <1>1 DEF Blocking, Blocks
<1>3. First(ps, s, f) = First(ps, s, g)
  BY <1>2 DEF First
<1>4. First(ps, s, f) = 0 \/ First(ps, s, f) \in 1..Len(ps)
  BY FirstBlocking
<1> QED
  BY <1>1, <1>3, <1>4, BlockerByFirst

\* f answers as the recursion says for the monitors below level n.
Solves(f, n, level, s) ==
  /\ f = [m \in Monitors |-> f[m]]
  /\ \A m \in Monitors : level[m] < n => f[m] = Blocker(Parents[m], s, f)

\* The recursion of Upstream has a solution, so its equation holds.
LEMMA UpstreamEquation ==
  ASSUME Acyclic, NEW s
  PROVE  LET up == Upstream(Parents, s)
         IN  up = [m \in Monitors |-> Blocker(Parents[m], s, up)]
<1> PICK level : Levels(level)
  BY DEF Acyclic
<1>1. \A m \in Monitors : level[m] \in Nat /\ level[m] < Len(Order) + 1
  BY NamedMonitors DEF Levels
<1> DEFINE R == {ss \in Nat \X Nat : ss[1] < ss[2]}
           T == {n \in Nat : ~ \E f : Solves(f, n, level, s)}
<1>2. T = {}
  <2> SUFFICES ASSUME T # {} PROVE FALSE
    OBVIOUS
  <2>1. IsWellFoundedOn(R, Nat)
    BY NatLessThanWellFounded DEF OpToRel
  <2>2. T \in SUBSET Nat
    OBVIOUS
  <2> HIDE DEF R, T
  <2>3. PICK n \in T : \A y \in T : <<y, n>> \notin R
    BY <2>1, <2>2, WFMin
  <2>4. n # 0
    <3> DEFINE f == [m \in Monitors |-> None]
    <3>1. f = [m \in Monitors |-> f[m]]
      OBVIOUS
    <3> HIDE DEF f
    <3>2. Solves(f, 0, level, s)
      BY <1>1, <3>1 DEF Solves
    <3> QED
      BY <2>3, <3>2 DEF T
  <2>5. n - 1 \in Nat /\ <<n - 1, n>> \in R
    BY <2>2, <2>3, <2>4 DEF R
  <2>6. PICK f : Solves(f, n - 1, level, s)
    BY <2>3, <2>5 DEF T
  <2> DEFINE g == [m \in Monitors |-> Blocker(Parents[m], s, f)]
  <2>7. ASSUME NEW m \in Monitors, level[m] < n
        PROVE  g[m] = Blocker(Parents[m], s, g)
    <3>1. \A q \in Range(Parents[m]) : q \in Monitors /\ level[q] < n - 1
      <4> TAKE q \in Range(Parents[m])
      <4>1. q \in Monitors /\ level[q] < level[m]
        BY ParentsAreMonitors DEF Levels
      <4>2. level[q] \in Nat /\ level[m] \in Nat /\ n \in Nat
        BY <1>1, <2>2, <2>3, <4>1
      <4> QED
        BY <2>7, <4>1, <4>2
    <3>2. \A q \in Range(Parents[m]) : f[q] = g[q]
      BY <2>6, <3>1 DEF Solves
    <3>3. g[m] = Blocker(Parents[m], s, f)
      OBVIOUS
    <3> HIDE DEF g
    <3> QED
      BY <3>2, <3>3, ParentsAreMonitors, BlockerLocal
  <2>8. g = [m \in Monitors |-> g[m]]
    OBVIOUS
  <2> HIDE DEF g
  <2>9. Solves(g, n, level, s)
    BY <2>7, <2>8 DEF Solves
  <2> QED
    BY <2>3, <2>9 DEF T
<1>3. PICK f : Solves(f, Len(Order) + 1, level, s)
  <2>1. Len(Order) + 1 \in Nat
    BY NamedMonitors
  <2> QED
    BY <1>2, <2>1
<1>4. f = [m \in Monitors |-> Blocker(Parents[m], s, f)]
  BY <1>1, <1>3 DEF Solves
<1>5. Upstream(Parents, s) = CHOOSE up : up = [m \in Monitors |-> Blocker(Parents[m], s, up)]
  <2>1. DOMAIN Parents = Monitors
    BY SchedulerAssumption
  <2> QED
    BY <2>1 DEF Upstream
<1> QED
  BY <1>4, <1>5

\* m is behind an outage in the states s.
Behind(s, m) == BlockingParent(Parents, s, m) # None

\* A monitor is behind an outage exactly if a parent is DOWN, or is behind one
\* itself and not UP.
LEMMA BehindEquation ==
  ASSUME Acyclic, NEW s, NEW m \in Monitors
  PROVE  Behind(s, m) <=>
           \E q \in Range(Parents[m]) : s[q] = "down" \/ (Behind(s, q) /\ s[q] # "up")
<1> DEFINE up == Upstream(Parents, s)
           ps == Parents[m]
<1>1. \A x \in Monitors : BlockingParent(Parents, s, x) = up[x]
  BY UpstreamEquation DEF BlockingParent
<1>2. ps \in Seq(Monitors) /\ \A q \in Range(ps) : q \in Monitors
  BY ParentsAreMonitors
<1>3. \A q \in Range(ps) : Blocks(q, s, up) <=> s[q] = "down" \/ (Behind(s, q) /\ s[q] # "up")
  BY <1>1, <1>2 DEF Blocks, Behind
<1>4. BlockingParent(Parents, s, m) = Blocker(ps, s, up)
  BY DEF BlockingParent
<1> HIDE DEF up
<1>5. CASE First(ps, s, up) = 0
  <2>1. Blocker(ps, s, up) = None
    BY <1>5, BlockerByFirst
  <2>2. \A q \in Range(ps) : ~ Blocks(q, s, up)
    BY <1>2, <1>5, FirstBlocking
  <2> QED
    BY <1>3, <1>4, <2>1, <2>2 DEF Behind
<1>6. CASE First(ps, s, up) # 0
  <2> DEFINE q == ps[First(ps, s, up)]
  <2>1. q \in Range(ps) /\ Blocks(q, s, up)
    BY <1>2, <1>6, FirstBlocking
  <2>2. Blocker(ps, s, up) # None
    BY <1>2, <1>6, <2>1, BlockerByFirst, SchedulerAssumption
  <2> QED
    BY <1>3, <1>4, <2>1, <2>2 DEF Behind
<1> QED
  BY <1>5, <1>6

\* Who is behind an outage stays there while parents that are DOWN stay DOWN and
\* parents that are not UP do not come UP.
LEMMA OutageStays ==
  ASSUME Acyclic, NEW s, NEW z,
         \A m \in Monitors : \A q \in Range(Parents[m]) :
           /\ s[q] = "down" => z[q] = "down"
           /\ s[q] # "up" => z[q] # "up",
         NEW x \in Monitors, Behind(s, x)
  PROVE  Behind(z, x)
<1> DEFINE S == {m \in Monitors : Behind(s, m) => Behind(z, m)}
<1>1. ASSUME NEW m \in Monitors, Range(Parents[m]) \subseteq S PROVE m \in S
  BY <1>1, BehindEquation
<1>2. Monitors \subseteq S
  <2> HIDE DEF S
  <2> QED
    BY <1>1, Descend
<1> QED
  BY <1>2

\* What lies above a monitor: the pairs that every transitive relation over the
\* parents has.
Transitive(R) ==
  \A x \in Monitors : \A q \in Range(Parents[x]) :
    /\ <<x, q>> \in R
    /\ \A y \in Monitors : <<q, y>> \in R => <<x, y>> \in R

Above(x) ==
  {y \in Monitors : \A R \in SUBSET (Monitors \X Monitors) : Transitive(R) => <<x, y>> \in R}

LEMMA AboveEquation ==
  ASSUME NEW x \in Monitors
  PROVE  Above(x) = Range(Parents[x]) \union UNION {Above(q) : q \in Range(Parents[x])}
<1> DEFINE Next1(z) == Range(Parents[z]) \union UNION {Above(q) : q \in Range(Parents[z])}
<1>1. \A z \in Monitors : \A q \in Range(Parents[z]) : q \in Monitors
  BY ParentsAreMonitors
<1>2. \A z, y : y \in Above(z) <=>
                  /\ y \in Monitors
                  /\ \A R \in SUBSET (Monitors \X Monitors) : Transitive(R) => <<z, y>> \in R
  BY DEF Above
<1>3. ASSUME NEW z \in Monitors PROVE Next1(z) \subseteq Above(z)
  <2>1. ASSUME NEW y \in Range(Parents[z]) PROVE y \in Above(z)
    BY <1>1, <1>2 DEF Transitive
  <2>2. ASSUME NEW q \in Range(Parents[z]), NEW y \in Above(q) PROVE y \in Above(z)
    <3>1. q \in Monitors /\ y \in Monitors
      BY <1>1, <1>2
    <3> QED
      BY <1>2, <3>1 DEF Transitive
  <2> QED
    BY <2>1, <2>2
<1>4. Above(x) \subseteq Next1(x)
  <2> DEFINE R == {zw \in Monitors \X Monitors : zw[2] \in Next1(zw[1])}
  <2>1. ASSUME NEW z \in Monitors, NEW q \in Range(Parents[z]) PROVE <<z, q>> \in R
    BY <1>1
  <2>2. ASSUME NEW z \in Monitors, NEW q \in Range(Parents[z]), NEW w \in Monitors,
               <<q, w>> \in R
        PROVE  <<z, w>> \in R
    <3>1. w \in Above(q)
      BY <1>1, <1>3, <2>2
    <3> QED
      BY <3>1
  <2>3. R \in SUBSET (Monitors \X Monitors) /\ Transitive(R)
    <3>1. R \in SUBSET (Monitors \X Monitors)
      OBVIOUS
    <3> HIDE DEF R
    <3> QED
      BY <2>1, <2>2, <3>1 DEF Transitive
  <2>4. \A y \in Above(x) : <<x, y>> \in R
    <3> HIDE DEF R
    <3> QED
      BY <1>2, <2>3
  <2> QED
    BY <2>4
<1> QED
  BY <1>3, <1>4

\* The recursion of _ancestors has a solution, so its equation holds.
LEMMA AncestorsEquation ==
  ASSUME NEW x \in Monitors
  PROVE  Ancestors(Parents, x)
           = Range(Parents[x]) \union UNION {Ancestors(Parents, q) : q \in Range(Parents[x])}
<1> DEFINE Equation(f) ==
             f = [z \in Monitors |-> Range(Parents[z]) \union UNION {f[q] : q \in Range(Parents[z])}]
           anc == CHOOSE f : Equation(f)
<1>1. \A z \in Monitors : \A q \in Range(Parents[z]) : q \in Monitors
  BY ParentsAreMonitors
<1>2. \E f : Equation(f)
  <2> DEFINE f == [z \in Monitors |-> Above(z)]
  <2>1. \A z \in Monitors : f[z] = Range(Parents[z]) \union UNION {f[q] : q \in Range(Parents[z])}
    <3> TAKE z \in Monitors
    <3>1. {f[q] : q \in Range(Parents[z])} = {Above(q) : q \in Range(Parents[z])}
      BY <1>1
    <3> QED
      BY <3>1, AboveEquation
  <2>2. f = [z \in Monitors |-> f[z]]
    OBVIOUS
  <2> HIDE DEF f
  <2>3. Equation(f)
    BY <2>1, <2>2
  <2> QED
    BY <2>3
<1>3. Equation(anc)
  BY <1>2
<1>4. \A z \in Monitors : Ancestors(Parents, z) = anc[z]
  <2>1. DOMAIN Parents = Monitors
    BY SchedulerAssumption
  <2> QED
    BY <2>1 DEF Ancestors
<1>5. {Ancestors(Parents, q) : q \in Range(Parents[x])} = {anc[q] : q \in Range(Parents[x])}
  BY <1>1, <1>4
<1> HIDE DEF anc
<1>6. anc[x] = Range(Parents[x]) \union UNION {anc[q] : q \in Range(Parents[x])}
  BY <1>3
<1> QED
  BY <1>4, <1>5, <1>6

\* A monitor with ancestors has parents.
LEMMA OrphansHaveNoAncestors ==
  ASSUME NEW m \in Monitors, NEW a \in Ancestors(Parents, m)
  PROVE  Parents[m] # <<>>
<1>1. \E q \in Range(Parents[m]) : TRUE
  BY AncestorsEquation
<1> QED
  BY <1>1, ParentsAreMonitors

\* Who comes out from behind an outage when only p changes is below p.
LEMMA FreedByAncestor ==
  ASSUME Acyclic, NEW s, NEW z, NEW p, \A q \in Monitors \ {p} : z[q] = s[q],
         NEW x \in Monitors, Behind(s, x), ~ Behind(z, x)
  PROVE  p \in Ancestors(Parents, x)
<1> DEFINE S == {m \in Monitors : p \notin Ancestors(Parents, m) /\ Behind(s, m) => Behind(z, m)}
<1>1. ASSUME NEW m \in Monitors, Range(Parents[m]) \subseteq S PROVE m \in S
  <2> SUFFICES ASSUME p \notin Ancestors(Parents, m), Behind(s, m) PROVE Behind(z, m)
    OBVIOUS
  <2>1. PICK q \in Range(Parents[m]) : s[q] = "down" \/ (Behind(s, q) /\ s[q] # "up")
    BY BehindEquation
  <2>2. q \in Monitors /\ q \in S
    BY <1>1, ParentsAreMonitors
  <2>3. q # p /\ p \notin Ancestors(Parents, q)
    BY AncestorsEquation
  <2>4. z[q] = s[q] /\ (Behind(s, q) => Behind(z, q))
    BY <2>2, <2>3
  <2> QED
    BY <2>1, <2>4, BehindEquation
<1>2. Monitors \subseteq S
  <2> HIDE DEF S
  <2> QED
    BY <1>1, Descend
<1> QED
  BY <1>2

-----------------------------------------------------------------------------
(* What a stack owes, frame by frame *)

LEMMA OwedByHead ==
  ASSUME NEW s \in Seq(Frames), s # <<>>, NEW a, NEW m
  PROVE  OwedUnder(a, s, m) <=> Owes(Head(s), a, m) \/ OwedUnder(Head(s), Tail(s), m)
<1> DEFINE r == Tail(s)
<1>1. /\ Len(s) \in Nat /\ Len(r) = Len(s) - 1 /\ Head(s) = s[1] /\ r \in Seq(Frames)
      /\ \A i \in 1..Len(r) : r[i] = s[i + 1]
  BY HeadTailProperties, LenProperties
<1> HIDE DEF r
<1>2. r # <<>> <=> Len(s) >= 2
  <2>1. r = <<>> <=> Len(r) = 0
    BY <1>1, EmptySeq
  <2> QED
    BY <1>1, <2>1
<1>3. r # <<>> => Head(r) = s[2]
  BY <1>1, <1>2
<1>4. (\E k \in 2..Len(s) : Owes(s[k], s[k - 1], m)) <=>
        \/ Len(s) >= 2 /\ Owes(s[2], s[1], m)
        \/ \E k \in 2..Len(r) : Owes(r[k], r[k - 1], m)
  <2>1. ASSUME NEW k \in 2..Len(s), Owes(s[k], s[k - 1], m), k # 2
        PROVE  \E i \in 2..Len(r) : Owes(r[i], r[i - 1], m)
    <3>1. /\ k - 1 \in 2..Len(r) /\ k - 1 \in 1..Len(r) /\ (k - 1) - 1 \in 1..Len(r)
          /\ (k - 1) + 1 = k /\ ((k - 1) - 1) + 1 = k - 1
      BY <1>1, <2>1
    <3>2. r[k - 1] = s[k] /\ r[(k - 1) - 1] = s[k - 1]
      BY <1>1, <3>1
    <3> QED
      BY <2>1, <3>1, <3>2
  <2>2. ASSUME NEW k \in 2..Len(r), Owes(r[k], r[k - 1], m)
        PROVE  \E i \in 2..Len(s) : Owes(s[i], s[i - 1], m)
    <3>1. k + 1 \in 2..Len(s) /\ k \in 1..Len(r) /\ k - 1 \in 1..Len(r)
          /\ (k - 1) + 1 = k /\ (k + 1) - 1 = k
      BY <1>1, <2>2
    <3>2. r[k] = s[k + 1] /\ r[k - 1] = s[k]
      BY <1>1, <3>1
    <3> QED
      BY <2>2, <3>1, <3>2
  <2>3. Len(s) >= 2 => 2 \in 2..Len(s) /\ 2 - 1 = 1
    BY <1>1
  <2> QED
    BY <2>1, <2>2, <2>3
<1> QED
  BY <1>1, <1>2, <1>3, <1>4 DEF OwedUnder, r

LEMMA CallsByHead ==
  ASSUME NEW s \in Seq(Frames), s # <<>>, NEW a
  PROVE  CallsUnder(a, s) <=> Called(a, Head(s)) /\ CallsUnder(Head(s), Tail(s))
<1> DEFINE r == Tail(s)
<1>1. /\ Len(s) \in Nat /\ Len(r) = Len(s) - 1 /\ Head(s) = s[1] /\ r \in Seq(Frames)
      /\ \A i \in 1..Len(r) : r[i] = s[i + 1]
  BY HeadTailProperties, LenProperties
<1> HIDE DEF r
<1>2. r # <<>> <=> Len(s) >= 2
  <2>1. r = <<>> <=> Len(r) = 0
    BY <1>1, EmptySeq
  <2> QED
    BY <1>1, <2>1
<1>3. r # <<>> => Head(r) = s[2]
  BY <1>1, <1>2
<1>4. (\A k \in 2..Len(s) : Called(s[k - 1], s[k])) <=>
        /\ Len(s) >= 2 => Called(s[1], s[2])
        /\ \A k \in 2..Len(r) : Called(r[k - 1], r[k])
  <2>1. ASSUME NEW k \in 2..Len(s), k # 2, \A i \in 2..Len(r) : Called(r[i - 1], r[i])
        PROVE  Called(s[k - 1], s[k])
    <3>1. /\ k - 1 \in 2..Len(r) /\ k - 1 \in 1..Len(r) /\ (k - 1) - 1 \in 1..Len(r)
          /\ (k - 1) + 1 = k /\ ((k - 1) - 1) + 1 = k - 1
      BY <1>1, <2>1
    <3>2. r[k - 1] = s[k] /\ r[(k - 1) - 1] = s[k - 1]
      BY <1>1, <3>1
    <3> QED
      BY <2>1, <3>1, <3>2
  <2>2. ASSUME NEW k \in 2..Len(r), \A i \in 2..Len(s) : Called(s[i - 1], s[i])
        PROVE  Called(r[k - 1], r[k])
    <3>1. k + 1 \in 2..Len(s) /\ k \in 1..Len(r) /\ k - 1 \in 1..Len(r)
          /\ (k - 1) + 1 = k /\ (k + 1) - 1 = k
      BY <1>1, <2>2
    <3>2. r[k] = s[k + 1] /\ r[k - 1] = s[k]
      BY <1>1, <3>1
    <3> QED
      BY <2>2, <3>1, <3>2
  <2>3. Len(s) >= 2 => 2 \in 2..Len(s) /\ 2 - 1 = 1
    BY <1>1
  <2> QED
    BY <2>1, <2>2, <2>3
<1> QED
  BY <1>1, <1>2, <1>3, <1>4 DEF CallsUnder, r

LEMMA NothingUnder == \A a, m : ~ OwedUnder(a, <<>>, m) /\ CallsUnder(a, <<>>)
<1>1. Len(<<>>) = 0
  OBVIOUS
<1> QED
  BY <1>1 DEF OwedUnder, CallsUnder

\* Only _release_children looks at what is above it, and only at whether that
\* has returned "ok".
Paid(a) == a.pc = "return" /\ a.res = "ok"

LEMMA AboveMatters ==
  ASSUME NEW f, NEW m, NEW a, NEW b,
         f.fn # "release_children" \/ Paid(a) \/ ~ Paid(b)
  PROVE  Owes(f, a, m) => Owes(f, b, m)
BY DEF Owes, Paid

LEMMA UnderMatters ==
  ASSUME NEW s, NEW m, NEW a, NEW b, OwedUnder(a, s, m),
         s # <<>> => Head(s).fn # "release_children" \/ Paid(a) \/ ~ Paid(b)
  PROVE  OwedUnder(b, s, m)
BY AboveMatters DEF OwedUnder

\* A transition or a release is called by poll_once, which owes nobody anything:
\* whatever replaces it may stand there too.
LEMMA CalledByPoll ==
  ASSUME NEW f \in SoundFrames, f.fn # "poll_once", NEW s, CallsUnder(f, s), NEW g
  PROVE  /\ CallsUnder(g, s)
         /\ \A m : OwedUnder(f, s, m) => OwedUnder(g, s, m)
<1>1. s # <<>> => Head(s).fn \notin {"on_transition", "release_children"}
  BY DEF CallsUnder, Called
<1>2. CallsUnder(g, s)
  BY <1>1 DEF CallsUnder, Called
<1> QED
  BY <1>1, <1>2, UnderMatters

\* poll_once owes nobody anything itself.
LEMMA PollOwesNothing ==
  ASSUME NEW f, f.fn = "poll_once", NEW a, NEW m PROVE ~ Owes(f, a, m)
BY DEF Owes

\* A task with frames, taken apart.
LEMMA OwedBefore ==
  ASSUME IInv, NEW t \in Monitors, stack[t] # <<>>, NEW m
  PROVE  Owed(t, m) <=> Owes(Top(t), None, m) \/ OwedUnder(Top(t), Rest(t), m)
<1>1. stack[t] \in Seq(Frames)
  BY DEF IInv, TypeOK
<1> QED
  BY <1>1, OwedByHead DEF Owed, Top, Rest

\* The same for the frames under the top one.
LEMMA RestApart ==
  ASSUME NEW r \in Seq(CallingFrames), r # <<>>, NEW a
  PROVE  /\ CallsUnder(a, r) <=> Called(a, Head(r)) /\ CallsUnder(Head(r), Tail(r))
         /\ \A m : OwedUnder(a, r, m) <=> \/ Owes(Head(r), a, m)
                                          \/ OwedUnder(Head(r), Tail(r), m)
<1>1. r \in Seq(Frames)
  BY CallingIsSound, SeqMonotonic
<1> QED
  BY <1>1, OwedByHead, CallsByHead

\* After a step that leaves frame g on top of the frames r.
LEMMA OnTop ==
  ASSUME IInv, NEW t \in Monitors, NEW g \in SoundFrames, NEW r \in Seq(CallingFrames),
         stack' = [stack EXCEPT ![t] = <<g>> \o r]
  PROVE  /\ stack'[t] # <<>> /\ Top(t)' = g /\ Rest(t)' = r
         /\ \A u \in Monitors \ {t} : stack'[u] = stack[u]
         /\ \A m : Owed(t, m)' <=> Owes(g, None, m) \/ OwedUnder(g, r, m)
<1> DEFINE s == <<g>> \o r
<1>1. SoundStack(s) /\ s \in Seq(Frames) /\ s # <<>> /\ Head(s) = g /\ Tail(s) = r
  BY PushFrame DEF SoundStack
<1> HIDE DEF s
<1>2. stack'[t] = s /\ \A u \in Monitors \ {t} : stack'[u] = stack[u]
  BY <1>1, Restack DEF IInv, s
<1>3. \A m : OwedUnder(None, s, m) <=> Owes(g, None, m) \/ OwedUnder(g, r, m)
  BY <1>1, OwedByHead
<1> QED
  BY <1>1, <1>2, <1>3 DEF Owed, Top, Rest

\* After a step that leaves the frames r.
LEMMA Returned ==
  ASSUME IInv, NEW t \in Monitors, NEW r \in Seq(CallingFrames),
         stack' = [stack EXCEPT ![t] = r]
  PROVE  /\ stack'[t] = r
         /\ \A u \in Monitors \ {t} : stack'[u] = stack[u]
         /\ \A m : Owed(t, m)' <=> OwedUnder(None, r, m)
<1>1. SoundStack(r)
  BY PopFrame
<1>2. stack'[t] = r /\ \A u \in Monitors \ {t} : stack'[u] = stack[u]
  BY <1>1, Restack DEF IInv
<1> QED
  BY <1>2 DEF Owed

-----------------------------------------------------------------------------
(* Debts are paid, step by step *)

Debts == CallsSound /\ AnswersSound /\ Informed

\* A step that observes nothing.
LEMMA DebtStep ==
  ASSUME DebtInv, NEW t \in Monitors, mon' = mon,
         \A u \in Monitors \ {t} : stack'[u] = stack[u],
         stack'[t] # <<>> => CallsUnder(Top(t)', Rest(t)'),
         At(t, "poll_once", "record")' => Top(t)'.res \in Outcomes[Top(t)'.m],
         \A m \in Monitors :
           Unreported(m)' => /\ Unreported(m)
                             /\ Owed(t, m) => Owed(t, m)' \/ Blocked(m)
  PROVE  Debts'
<1>1. CallsSound'
  BY DEF DebtInv, CallsSound, Top, Rest
<1>2. AnswersSound'
  <2>1. \A u \in Monitors \ {t} :
          At(u, "poll_once", "record")' => Top(u)'.res \in Outcomes[Top(u)'.m]
    BY DEF DebtInv, AnswersSound, At, Top
  <2> QED
    BY <2>1 DEF DebtInv, AnswersSound
<1>3. Informed'
  <2> SUFFICES ASSUME NEW m \in Monitors, Unreported(m)'
               PROVE  Blocked(m)' \/ \E u \in Monitors : Owed(u, m)'
    BY DEF Informed
  <2>1. Blocked(m)' <=> Blocked(m)
    BY DEF Blocked, StateOf
  <2>2. \A u \in Monitors \ {t} : Owed(u, m)' <=> Owed(u, m)
    BY DEF Owed
  <2> QED
    BY <2>1, <2>2 DEF DebtInv, Informed
<1> QED
  BY <1>1, <1>2, <1>3 DEF Debts

\* The calls of the task that takes a step.
LEMMA CallsBefore ==
  ASSUME DebtInv, NEW t \in Monitors, stack[t] # <<>>
  PROVE  /\ IInv /\ Top(t) \in SoundFrames /\ Rest(t) \in Seq(CallingFrames)
         /\ CallsUnder(Top(t), Rest(t))
BY DEF DebtInv, IInv, StacksSound, CallsSound

\* A transition or a release goes on, as frame g.
LEMMA MoveDebt ==
  ASSUME DebtInv, NEW t \in Monitors, mon' = mon,
         stack[t] # <<>>, Top(t).fn # "poll_once",
         NEW g \in SoundFrames, g.fn # "poll_once",
         stack' = [stack EXCEPT ![t] = <<g>> \o Rest(t)],
         \A m \in Monitors :
           Unreported(m)' => /\ Unreported(m)
                             /\ Owes(Top(t), None, m) => Owes(g, None, m) \/ Blocked(m)
  PROVE  Debts'
<1>1. /\ IInv /\ Top(t) \in SoundFrames /\ Rest(t) \in Seq(CallingFrames)
      /\ CallsUnder(Top(t), Rest(t))
  BY CallsBefore
<1>2. /\ stack'[t] # <<>> /\ Top(t)' = g /\ Rest(t)' = Rest(t)
      /\ \A u \in Monitors \ {t} : stack'[u] = stack[u]
      /\ \A m : Owed(t, m)' <=> Owes(g, None, m) \/ OwedUnder(g, Rest(t), m)
  BY <1>1, OnTop
<1>3. /\ CallsUnder(g, Rest(t))
      /\ \A m : OwedUnder(Top(t), Rest(t), m) => OwedUnder(g, Rest(t), m)
  BY <1>1, CalledByPoll
<1>4. \A m : Owed(t, m) <=> Owes(Top(t), None, m) \/ OwedUnder(Top(t), Rest(t), m)
  BY <1>1, OwedBefore
<1>5. ~ At(t, "poll_once", "record")'
  BY <1>2 DEF At
<1> QED
  BY <1>2, <1>3, <1>4, <1>5, DebtStep

\* A transition or a release returns.
LEMMA EndDebt ==
  ASSUME DebtInv, NEW t \in Monitors, mon' = mon, alertOpen' = alertOpen,
         stack[t] # <<>>, Top(t).fn # "poll_once",
         stack' = [stack EXCEPT ![t] = Rest(t)],
         \A m \in Monitors : Unreported(m) => ~ Owes(Top(t), None, m)
  PROVE  Debts'
<1>1. /\ IInv /\ Top(t) \in SoundFrames /\ Rest(t) \in Seq(CallingFrames)
      /\ CallsUnder(Top(t), Rest(t))
  BY CallsBefore
<1>2. /\ stack'[t] = Rest(t)
      /\ \A u \in Monitors \ {t} : stack'[u] = stack[u]
      /\ \A m : Owed(t, m)' <=> OwedUnder(None, Rest(t), m)
  BY <1>1, Returned
<1>3. /\ CallsUnder(None, Rest(t))
      /\ \A m : OwedUnder(Top(t), Rest(t), m) => OwedUnder(None, Rest(t), m)
  BY <1>1, CalledByPoll
<1>4. \A m : Owed(t, m) <=> Owes(Top(t), None, m) \/ OwedUnder(Top(t), Rest(t), m)
  BY <1>1, OwedBefore
<1>5. stack'[t] # <<>> => CallsUnder(Top(t)', Rest(t)')
  BY <1>1, <1>2, <1>3, RestApart DEF Top, Rest
<1>6. ~ At(t, "poll_once", "record")'
  <2>1. stack'[t] # <<>> => Top(t)' \in CallingFrames
    BY <1>1, <1>2, PopFrame DEF Top
  <2> QED
    BY <2>1 DEF At, CallingFrames
<1>7. \A m \in Monitors : Unreported(m)' <=> Unreported(m)
  BY DEF Unreported
<1> QED
  BY <1>2, <1>3, <1>4, <1>5, <1>6, <1>7, DebtStep

\* A transition or a release calls poll_once(p) and waits as frame h.
LEMMA AskDebt ==
  ASSUME DebtInv, NEW t \in Monitors, mon' = mon, alertOpen' = alertOpen,
         stack[t] # <<>>, Top(t).fn # "poll_once",
         NEW p \in Monitors, NEW h \in CallingFrames, h.fn # "poll_once",
         h.fn = "release_children" => Order[h.i] = p,
         CallPoll(t, p, <<h>> \o Rest(t)),
         \A m \in Monitors :
           Unreported(m) => (Owes(Top(t), None, m) => Owes(h, PollFrame(p, "lock", None), m))
  PROVE  Debts'
<1> DEFINE g == PollFrame(p, "lock", None)
           r == <<h>> \o Rest(t)
<1>1. /\ IInv /\ Top(t) \in SoundFrames /\ Rest(t) \in Seq(CallingFrames)
      /\ CallsUnder(Top(t), Rest(t))
  BY CallsBefore
<1>2. /\ g \in SoundFrames /\ g.fn = "poll_once" /\ g.pc = "lock" /\ g.m = p
      /\ h \in SoundFrames
  BY PollFrameSound, CallingIsSound DEF PollFrame
<1>3. r \in Seq(CallingFrames) /\ r # <<>> /\ Head(r) = h /\ Tail(r) = Rest(t)
  BY <1>1, <1>2, PushCalling, PushFrame
<1>4. stack' = [stack EXCEPT ![t] = <<g>> \o r]
  BY DEF CallPoll
<1>5. ASSUME NEW m \in Monitors, Unreported(m), Owes(Top(t), None, m) PROVE Owes(h, g, m)
  BY <1>5
<1> HIDE DEF g, r
<1>6. /\ stack'[t] # <<>> /\ Top(t)' = g /\ Rest(t)' = r
      /\ \A u \in Monitors \ {t} : stack'[u] = stack[u]
      /\ \A m : Owed(t, m)' <=> Owes(g, None, m) \/ OwedUnder(g, r, m)
  BY <1>1, <1>2, <1>3, <1>4, OnTop
<1>7. /\ CallsUnder(h, Rest(t))
      /\ \A m : OwedUnder(Top(t), Rest(t), m) => OwedUnder(h, Rest(t), m)
  BY <1>1, CalledByPoll
<1>8. /\ CallsUnder(g, r) <=> Called(g, h) /\ CallsUnder(h, Rest(t))
      /\ \A m : OwedUnder(g, r, m) <=> Owes(h, g, m) \/ OwedUnder(h, Rest(t), m)
  <2>1. /\ CallsUnder(g, r) <=> Called(g, Head(r)) /\ CallsUnder(Head(r), Tail(r))
        /\ \A m : OwedUnder(g, r, m) <=> \/ Owes(Head(r), g, m)
                                         \/ OwedUnder(Head(r), Tail(r), m)
    BY <1>3, RestApart
  <2> QED
    BY <1>3, <2>1
<1>9. CallsUnder(g, r)
  BY <1>2, <1>7, <1>8 DEF Called
<1>10. \A m : Owed(t, m) <=> Owes(Top(t), None, m) \/ OwedUnder(Top(t), Rest(t), m)
  BY <1>1, OwedBefore
<1>11. ~ At(t, "poll_once", "record")'
  BY <1>2, <1>6 DEF At
<1>12. \A m \in Monitors : Unreported(m)' <=> Unreported(m)
  BY DEF Unreported
<1> QED
  BY <1>5, <1>6, <1>7, <1>8, <1>9, <1>10, <1>11, <1>12, DebtStep

LEMMA StartPollDebt ==
  ASSUME DebtInv, NEW t \in Monitors, StartPoll(t) PROVE Debts'
<1> DEFINE g == PollFrame(t, "lock", None)
<1>1. /\ stack[t] = <<>> /\ <<>> \in Seq(CallingFrames) /\ CallPoll(t, t, <<>>)
      /\ mon' = mon /\ alertOpen' = alertOpen /\ IInv
  BY EmptySeq DEF StartPoll, DebtInv
<1>2. g \in SoundFrames /\ g.fn = "poll_once" /\ g.pc = "lock"
  BY PollFrameSound DEF PollFrame
<1>3. stack' = [stack EXCEPT ![t] = <<g>> \o <<>>]
  BY <1>1 DEF CallPoll
<1> HIDE DEF g
<1>4. /\ stack'[t] # <<>> /\ Top(t)' = g /\ Rest(t)' = <<>>
      /\ \A u \in Monitors \ {t} : stack'[u] = stack[u]
  BY <1>1, <1>2, <1>3, OnTop
<1>5. \A m : ~ Owed(t, m)
  BY <1>1, NothingUnder DEF Owed
<1>6. CallsUnder(g, <<>>)
  BY NothingUnder
<1>7. ~ At(t, "poll_once", "record")'
  BY <1>2, <1>4 DEF At
<1>8. \A m \in Monitors : Unreported(m)' <=> Unreported(m)
  BY <1>1 DEF Unreported
<1> QED
  BY <1>1, <1>4, <1>5, <1>6, <1>7, <1>8, DebtStep

\* A poll that has not returned yet goes on.
LEMMA PollDebt ==
  ASSUME DebtInv, NEW t \in Monitors, mon' = mon, alertOpen' = alertOpen,
         stack[t] # <<>>, Top(t).fn = "poll_once", Top(t).pc # "return",
         NEW g \in SoundFrames, g.fn = "poll_once", g.pc # "return", g.m = Top(t).m,
         g.pc = "record" => g.res \in Outcomes[g.m],
         stack' = [stack EXCEPT ![t] = <<g>> \o Rest(t)]
  PROVE  Debts'
<1>1. /\ IInv /\ Top(t) \in SoundFrames /\ Rest(t) \in Seq(CallingFrames)
      /\ CallsUnder(Top(t), Rest(t))
  BY CallsBefore
<1>2. /\ stack'[t] # <<>> /\ Top(t)' = g /\ Rest(t)' = Rest(t)
      /\ \A u \in Monitors \ {t} : stack'[u] = stack[u]
      /\ \A m : Owed(t, m)' <=> Owes(g, None, m) \/ OwedUnder(g, Rest(t), m)
  BY <1>1, OnTop
<1>3. \A m : Owed(t, m) <=> Owes(Top(t), None, m) \/ OwedUnder(Top(t), Rest(t), m)
  BY <1>1, OwedBefore
<1>4. \A m : OwedUnder(Top(t), Rest(t), m) => OwedUnder(g, Rest(t), m)
  BY UnderMatters DEF Paid
<1>5. CallsUnder(g, Rest(t))
  BY <1>1 DEF CallsUnder, Called
<1>6. At(t, "poll_once", "record")' => Top(t)'.res \in Outcomes[Top(t)'.m]
  BY <1>2 DEF At
<1>7. \A m \in Monitors : Unreported(m)' <=> Unreported(m)
  BY DEF Unreported
<1>8. \A m : ~ Owes(Top(t), None, m)
  BY PollOwesNothing
<1> QED
  BY <1>2, <1>3, <1>4, <1>5, <1>6, <1>7, <1>8, DebtStep

LEMMA AcquireDebt ==
  ASSUME DebtInv, NEW t \in Monitors, Acquire(t) PROVE Debts'
<1> DEFINE g == PollFrame(Top(t).m, "probe", None)
<1>1. /\ stack[t] # <<>> /\ Top(t).fn = "poll_once" /\ Top(t).pc = "lock"
      /\ Top(t).m \in Monitors
  BY TopFacts DEF Acquire, DebtInv, IInv
<1>2. g \in SoundFrames /\ g.fn = "poll_once" /\ g.pc = "probe" /\ g.m = Top(t).m
  BY <1>1, PollFrameSound DEF PollFrame
<1>3. /\ mon' = mon /\ alertOpen' = alertOpen
      /\ stack' = [stack EXCEPT ![t] = <<g>> \o Rest(t)]
  BY DEF Acquire
<1> HIDE DEF g
<1> QED
  BY <1>1, <1>2, <1>3, PollDebt

LEMMA ProbeDebt ==
  ASSUME DebtInv, NEW t \in Monitors, Probe(t) PROVE Debts'
<1>1. /\ stack[t] # <<>> /\ Top(t).fn = "poll_once" /\ Top(t).pc = "probe"
      /\ Top(t).m \in Monitors
  BY TopFacts DEF Probe, DebtInv, IInv
<1>2. PICK res \in Outcomes[Top(t).m] :
        stack' = [stack EXCEPT ![t] = <<PollFrame(Top(t).m, "record", res)>> \o Rest(t)]
  BY DEF Probe
<1> DEFINE g == PollFrame(Top(t).m, "record", res)
<1>3. res \in Results
  BY <1>1, SchedulerAssumption
<1>4. /\ g \in SoundFrames /\ g.fn = "poll_once" /\ g.pc = "record" /\ g.m = Top(t).m
      /\ g.res = res
  BY <1>1, <1>3, PollFrameSound DEF PollFrame
<1>5. /\ mon' = mon /\ alertOpen' = alertOpen
      /\ stack' = [stack EXCEPT ![t] = <<g>> \o Rest(t)]
  BY <1>2 DEF Probe
<1> HIDE DEF g
<1> QED
  BY <1>1, <1>4, <1>5, PollDebt

\* What monitors below others need: they are UP after one success, and their
\* parents answer "ok" or "fail" only.
PromptRecovery == \A m \in Monitors : Parents[m] # <<>> => RecoveriesToUp[m] = 1

ParentsUpOrDown ==
  \A m \in Monitors : \A p \in Range(Parents[m]) : "warn" \notin Outcomes[p]

LEMMA ObservedState ==
  ASSUME IInv, NEW m \in Monitors, NEW r \in Results
  PROVE  LET new == SaturatedObserve(mon[m], r, FailuresToDown[m], RecoveriesToUp[m])
         IN  /\ new.state \in {"down", "warn", "up", mon[m].state}
             /\ r = "ok" /\ RecoveriesToUp[m] = 1 => new.state = "up"
             /\ r # "warn" /\ mon[m].bad = mon[m].warnish /\ mon[m].state # "warn" =>
                  new.bad = new.warnish /\ new.state # "warn"
<1> DEFINE f2d == FailuresToDown[m]
           r2u == RecoveriesToUp[m]
           o   == Observe(mon[m], r, f2d, r2u)
           new == SaturatedObserve(mon[m], r, f2d, r2u)
<1>1. f2d \in Nat \ {0} /\ r2u \in Nat \ {0} /\ mon[m] \in Monitor
  BY SchedulerAssumption DEF IInv, TypeOK
<1>2. /\ o.bad     = IF r = "fail" THEN mon[m].bad + 1 ELSE 0
      /\ o.warnish = IF r # "ok" THEN mon[m].warnish + 1 ELSE 0
      /\ o.good    = IF r = "ok" THEN mon[m].good + 1 ELSE 0
      /\ o.state   = IF o.bad >= f2d THEN "down"
                     ELSE IF o.warnish >= f2d /\ r # "ok" THEN "warn"
                     ELSE IF o.good >= r2u THEN "up"
                     ELSE mon[m].state
  BY <1>1, ObserveFields
<1>3. /\ mon[m].bad \in Nat /\ mon[m].warnish \in Nat /\ mon[m].good \in Nat
  BY <1>1 DEF Monitor
<1>4. new.state = o.state /\ new.bad = Lesser(o.bad, f2d) /\ new.warnish = Lesser(o.warnish, f2d)
  BY DEF SaturatedObserve, Saturate
<1> HIDE DEF o, new, f2d, r2u
<1>5. new.state \in {"down", "warn", "up", mon[m].state}
  BY <1>2, <1>4
<1>6. r = "ok" /\ r2u = 1 => new.state = "up"
  BY <1>1, <1>2, <1>3, <1>4
<1>7. r # "warn" /\ mon[m].bad = mon[m].warnish /\ mon[m].state # "warn" =>
        new.bad = new.warnish /\ new.state # "warn"
  BY <1>1, <1>2, <1>3, <1>4 DEF Results
<1> QED
  BY <1>5, <1>6, <1>7 DEF new, f2d, r2u

\* Whatever waited for the poll of m keeps its debts, but for the one to m itself
\* when the poll ended well.
LEMMA PollPays ==
  ASSUME DebtInv, NEW t \in Monitors, stack[t] # <<>>, Top(t).fn = "poll_once",
         NEW h, h.res = Top(t).res,
         NEW x \in Monitors, OwedUnder(Top(t), Rest(t), x)
  PROVE  \/ OwedUnder(h, Rest(t), x)
         \/ x = Top(t).m /\ Top(t).res = "ok" /\ Parents[x] # <<>>
<1>1. CallsUnder(Top(t), Rest(t))
  BY CallsBefore
<1>2. CASE Rest(t) # <<>> /\ Owes(Head(Rest(t)), Top(t), x) /\ ~ Owes(Head(Rest(t)), h, x)
  <2> DEFINE f == Head(Rest(t))
  <2>1. /\ f.fn = "release_children" /\ f.m \in Ancestors(Parents, x)
        /\ Order[f.i] = x /\ h.res = "ok"
    BY <1>2, Zenon DEF Owes
  <2>2. Top(t).m = Order[f.i]
    BY <1>1, <1>2, <2>1 DEF CallsUnder, Called
  <2> QED
    BY <2>1, <2>2, OrphansHaveNoAncestors
<1> QED
  BY <1>2 DEF OwedUnder

LEMMA RecordDebt ==
  ASSUME DebtInv, Acyclic, PromptRecovery, ParentsUpOrDown, NEW t \in Monitors, Record(t)
  PROVE  Debts'
<1> DEFINE m   == Top(t).m
           res == Top(t).res
           new == SaturatedObserve(mon[m], res, FailuresToDown[m], RecoveriesToUp[m])
           h   == PollFrame(m, "return", res)
           d   == TransitionFrame(m, new.state, "decide", 0, 0)
           ret == <<h>> \o Rest(t)
<1>1. /\ IInv /\ Top(t) \in SoundFrames /\ Rest(t) \in Seq(CallingFrames)
      /\ CallsUnder(Top(t), Rest(t)) /\ stack[t] # <<>>
      /\ Top(t).fn = "poll_once" /\ Top(t).pc = "record" /\ m \in Monitors
      /\ res \in Results /\ res \in Outcomes[m]
  <2>1. At(t, "poll_once", "record") /\ IInv
    BY DEF Record, DebtInv
  <2>2. res \in Outcomes[m]
    BY <2>1 DEF DebtInv, AnswersSound
  <2> QED
    BY <2>1, <2>2, TopFacts, CallsBefore, FrameFields DEF IInv
<1>2. /\ mon' = [mon EXCEPT ![m] = new] /\ alertOpen' = alertOpen
      /\ stack' = [stack EXCEPT ![t] = IF new.state = mon[m].state THEN ret ELSE <<d>> \o ret]
  BY DEF Record
<1>3. new \in Monitor /\ (new.state # mon[m].state => new.state \in States \ {"pending"})
  BY <1>1, ObservedType, ObservedNotPending DEF IInv
<1>4. /\ new.state \in {"down", "warn", "up", mon[m].state}
      /\ res = "ok" /\ RecoveriesToUp[m] = 1 => new.state = "up"
      /\ res # "warn" /\ mon[m].bad = mon[m].warnish /\ mon[m].state # "warn" =>
           new.bad = new.warnish /\ new.state # "warn"
  BY <1>1, ObservedState
<1>5. /\ h \in SoundFrames /\ h \in CallingFrames /\ h.fn = "poll_once" /\ h.pc = "return"
      /\ h.m = m /\ h.res = res
  BY <1>1, PollFrameSound DEF PollFrame
<1>6. new.state # mon[m].state =>
        /\ d \in SoundFrames /\ d.fn = "on_transition" /\ d.pc = "decide" /\ d.m = m
        /\ d.to = new.state
  BY <1>1, <1>3, TransitionFrameSound DEF TransitionFrame
<1>7. CallsUnder(h, Rest(t))
  BY <1>1, <1>5 DEF CallsUnder, Called
<1> HIDE DEF h, d, new
<1>8. /\ stack'[t] # <<>> /\ \A u \in Monitors \ {t} : stack'[u] = stack[u]
      /\ CallsUnder(Top(t)', Rest(t)')
      /\ ~ At(t, "poll_once", "record")'
      /\ \A x : OwedUnder(h, Rest(t), x) => Owed(t, x)'
      /\ new.state # mon[m].state => \A x : Owes(d, None, x) => Owed(t, x)'
  <2>1. CASE new.state = mon[m].state
    <3>1. stack' = [stack EXCEPT ![t] = <<h>> \o Rest(t)]
      BY <1>2, <2>1
    <3>2. /\ stack'[t] # <<>> /\ Top(t)' = h /\ Rest(t)' = Rest(t)
          /\ \A u \in Monitors \ {t} : stack'[u] = stack[u]
          /\ \A x : Owed(t, x)' <=> Owes(h, None, x) \/ OwedUnder(h, Rest(t), x)
      BY <1>1, <1>5, <3>1, OnTop
    <3> QED
      BY <1>5, <1>7, <2>1, <3>2 DEF At
  <2>2. CASE new.state # mon[m].state
    <3>1. ret \in Seq(CallingFrames) /\ ret # <<>> /\ Head(ret) = h /\ Tail(ret) = Rest(t)
      BY <1>1, <1>5, PushCalling, PushFrame
    <3>2. stack' = [stack EXCEPT ![t] = <<d>> \o ret]
      BY <1>2, <2>2
    <3> HIDE DEF ret
    <3>3. /\ stack'[t] # <<>> /\ Top(t)' = d /\ Rest(t)' = ret
          /\ \A u \in Monitors \ {t} : stack'[u] = stack[u]
          /\ \A x : Owed(t, x)' <=> Owes(d, None, x) \/ OwedUnder(d, ret, x)
      BY <1>1, <1>6, <2>2, <3>1, <3>2, OnTop
    <3>4. /\ CallsUnder(d, ret) <=> Called(d, h) /\ CallsUnder(h, Rest(t))
          /\ \A x : OwedUnder(d, ret, x) <=> Owes(h, d, x) \/ OwedUnder(h, Rest(t), x)
      <4>1. /\ CallsUnder(d, ret) <=> Called(d, Head(ret)) /\ CallsUnder(Head(ret), Tail(ret))
            /\ \A x : OwedUnder(d, ret, x) <=> \/ Owes(Head(ret), d, x)
                                               \/ OwedUnder(Head(ret), Tail(ret), x)
        BY <3>1, RestApart
      <4> QED
        BY <3>1, <4>1
    <3>5. Called(d, h)
      BY <1>5 DEF Called
    <3> QED
      BY <1>6, <1>7, <2>2, <3>3, <3>4, <3>5 DEF At
  <2> QED
    BY <2>1, <2>2
<1>9. mon'[m] = new /\ \A x \in Monitors \ {m} : mon'[x] = mon[x]
  BY <1>1, <1>2 DEF IInv, TypeOK
<1>10. CallsSound'
  BY <1>8 DEF DebtInv, CallsSound, Top, Rest
<1>11. AnswersSound'
  <2>1. \A u \in Monitors :
          At(u, "poll_once", "record")' => Top(u)'.res \in Outcomes[Top(u)'.m]
    BY <1>8 DEF DebtInv, AnswersSound, At, Top
  <2>2. ASSUME NEW x \in Monitors, "warn" \notin Outcomes[x]
        PROVE  mon'[x].bad = mon'[x].warnish /\ mon'[x].state # "warn"
    <3>1. mon[x].bad = mon[x].warnish /\ mon[x].state # "warn"
      BY <2>2 DEF DebtInv, AnswersSound
    <3>2. CASE x = m
      BY <1>1, <1>4, <1>9, <2>2, <3>1, <3>2
    <3>3. CASE x # m
      BY <1>9, <3>1, <3>3
    <3> QED
      BY <3>2, <3>3
  <2> QED
    BY <2>1, <2>2 DEF AnswersSound
<1>12. Informed'
  <2> SUFFICES ASSUME NEW x \in Monitors, Unreported(x)'
               PROVE  Blocked(x)' \/ \E u \in Monitors : Owed(u, x)'
    BY DEF Informed
  <2>1. \A u \in Monitors \ {t} : Owed(u, x)' <=> Owed(u, x)
    BY <1>8 DEF Owed
  <2>2. ASSUME NEW u \in Monitors, Owed(u, x)
        PROVE  \E w \in Monitors : Owed(w, x)'
    <3>1. CASE u # t
      BY <2>1, <2>2, <3>1
    <3>2. CASE u = t
      <4>1. OwedUnder(Top(t), Rest(t), x)
        BY <1>1, <2>2, <3>2, OwedBefore, PollOwesNothing
      <4>2. \/ OwedUnder(h, Rest(t), x)
            \/ x = m /\ res = "ok" /\ Parents[x] # <<>>
        BY <1>1, <1>5, <4>1, PollPays
      <4>3. x = m /\ res = "ok" /\ Parents[x] # <<>> => FALSE
        <5>1. x = m /\ res = "ok" /\ Parents[x] # <<>> => mon'[x].state = "up"
          BY <1>4, <1>9 DEF PromptRecovery
        <5> QED
          BY <5>1 DEF Unreported, Problem
      <4> QED
        BY <1>8, <4>2, <4>3
    <3> QED
      BY <3>1, <3>2
  <2> DEFINE z == StateOf'
  <2>3. /\ Blocked(x) <=> Behind(StateOf, x)
        /\ Blocked(x)' <=> Behind(z, x)
    BY DEF Blocked, Behind
  <2>4. /\ \A q \in Monitors : StateOf[q] = mon[q].state
        /\ \A q \in Monitors : z[q] = mon'[q].state
    BY DEF StateOf
  <2>5. StateOf = [q \in Monitors |-> StateOf[q]] /\ z = [q \in Monitors |-> z[q]]
    BY DEF StateOf
  <2> HIDE DEF z
  <2>6. CASE new.state = mon[m].state
    <3>1. \A q \in Monitors : z[q] = StateOf[q]
      BY <1>1, <1>9, <2>4, <2>6
    <3>2. z = StateOf
      BY <2>5, <3>1
    <3>3. Unreported(x)
      BY <1>2, <1>9, <2>6 DEF Unreported
    <3>4. Blocked(x) \/ \E u \in Monitors : Owed(u, x)
      BY <3>3 DEF DebtInv, Informed
    <3> QED
      BY <2>2, <2>3, <3>2, <3>4
  <2>7. CASE new.state # mon[m].state /\ x = m
    <3>1. d.to \in Problem /\ d.m = x /\ d.fn = "on_transition" /\ d.pc = "decide"
      BY <1>6, <1>9, <2>7 DEF Unreported
    <3>2. Owes(d, None, x)
      BY <3>1 DEF Owes
    <3> QED
      BY <1>8, <2>7, <3>2
  <2>8. CASE new.state # mon[m].state /\ x # m
    <3>1. Unreported(x)
      BY <1>2, <1>9, <2>8 DEF Unreported
    <3>2. CASE Blocked(x) /\ ~ Blocked(x)'
      <4>1. Behind(StateOf, x) /\ ~ Behind(z, x)
        BY <2>3, <3>2
      <4>2. \A q \in Monitors \ {m} : z[q] = StateOf[q]
        BY <1>9, <2>4
      <4>3. m \in Ancestors(Parents, x)
        BY <4>1, <4>2, FreedByAncestor
      <4>4. new.state = "up"
        <5> SUFFICES ASSUME new.state # "up" PROVE FALSE
          OBVIOUS
        <5>1. ASSUME NEW y \in Monitors, NEW q \in Range(Parents[y])
              PROVE  /\ StateOf[q] = "down" => z[q] = "down"
                     /\ StateOf[q] # "up" => z[q] # "up"
          <6>1. CASE q # m
            BY <4>2, <6>1, ParentsAreMonitors
          <6>2. CASE q = m
            <7>1. "warn" \notin Outcomes[m]
              BY <6>2 DEF ParentsUpOrDown
            <7>2. z[q] = new.state /\ new.state # "warn"
              BY <1>1, <1>9, <1>11, <2>4, <6>2, <7>1 DEF AnswersSound
            <7> QED
              BY <1>4, <2>8, <7>2
          <6> QED
            BY <6>1, <6>2
        <5> QED
          BY <4>1, <5>1, OutageStays
      <4>5. Owes(d, None, x)
        BY <1>6, <2>8, <4>3, <4>4 DEF Owes
      <4> QED
        BY <1>8, <2>8, <4>5
    <3> QED
      BY <2>2, <3>1, <3>2 DEF DebtInv, Informed
  <2> QED
    BY <2>6, <2>7, <2>8
<1> QED
  BY <1>10, <1>11, <1>12 DEF Debts

LEMMA ReturnDebt ==
  ASSUME DebtInv, NEW t \in Monitors, Return(t) PROVE Debts'
<1> DEFINE caller == Head(Rest(t))
           g == ReleaseFrame(caller.m, "polled", caller.i, Top(t).res)
<1>1. /\ IInv /\ Top(t) \in SoundFrames /\ Rest(t) \in Seq(CallingFrames)
      /\ CallsUnder(Top(t), Rest(t)) /\ stack[t] # <<>>
      /\ Top(t).fn = "poll_once" /\ Top(t).pc = "return" /\ Top(t).res \in Results
  <2>1. At(t, "poll_once", "return") /\ IInv
    BY DEF Return, DebtInv
  <2> QED
    BY <2>1, TopFacts, CallsBefore, FrameFields DEF IInv
<1>2. mon' = mon /\ \A m \in Monitors : Unreported(m)' <=> Unreported(m)
  BY DEF Return, Unreported
<1>3. \A m : Owed(t, m) <=> OwedUnder(Top(t), Rest(t), m)
  BY <1>1, OwedBefore, PollOwesNothing
<1>4. CASE Rest(t) # <<>> /\ caller.fn = "release_children"
  <2> DEFINE r == Tail(Rest(t))
  <2>1. stack' = [stack EXCEPT ![t] = <<g>> \o r]
    BY <1>4 DEF Return
  <2>2. caller \in CallingFrames /\ caller \in SoundFrames /\ r \in Seq(CallingFrames)
    BY <1>1, <1>4, PopFrame, CallingIsSound
  <2>3. caller.m \in Monitors /\ caller.i \in Nat \ {0} /\ caller.i \in 1..Len(Order)
        /\ caller.pc = "repoll"
    <3>1. caller.fn = "release_children" /\ caller.pc = "repoll"
      BY <1>4, <2>2 DEF CallingFrames
    <3> QED
      BY <2>2, <3>1, FrameFields
  <2>4. /\ g \in SoundFrames /\ g.fn = "release_children" /\ g.pc = "polled"
        /\ g.m = caller.m /\ g.i = caller.i /\ g.res = Top(t).res
    BY <1>1, <2>3, ReleaseFrameSound DEF ReleaseFrame
  <2>5. /\ CallsUnder(caller, r)
        /\ \A m : OwedUnder(Top(t), Rest(t), m) <=>
                    Owes(caller, Top(t), m) \/ OwedUnder(caller, r, m)
    BY <1>1, <1>4, RestApart
  <2>6. ASSUME NEW m, Owes(caller, Top(t), m) PROVE Owes(g, None, m)
    BY <1>1, <1>4, <2>3, <2>4, <2>6 DEF Owes
  <2> HIDE DEF g, caller, r
  <2>7. /\ CallsUnder(g, r)
        /\ \A m : OwedUnder(caller, r, m) => OwedUnder(g, r, m)
    BY <1>4, <2>2, <2>5, CalledByPoll
  <2>8. /\ stack'[t] # <<>> /\ Top(t)' = g /\ Rest(t)' = r
        /\ \A u \in Monitors \ {t} : stack'[u] = stack[u]
        /\ \A m : Owed(t, m)' <=> Owes(g, None, m) \/ OwedUnder(g, r, m)
    BY <1>1, <2>1, <2>2, <2>4, OnTop
  <2>9. ~ At(t, "poll_once", "record")'
    BY <2>4, <2>8 DEF At
  <2> QED
    BY <1>2, <1>3, <2>5, <2>6, <2>7, <2>8, <2>9, DebtStep
<1>5. CASE ~ (Rest(t) # <<>> /\ caller.fn = "release_children")
  <2>1. stack' = [stack EXCEPT ![t] = Rest(t)]
    BY <1>5 DEF Return
  <2>2. /\ stack'[t] = Rest(t)
        /\ \A u \in Monitors \ {t} : stack'[u] = stack[u]
        /\ \A m : Owed(t, m)' <=> OwedUnder(None, Rest(t), m)
    BY <1>1, <2>1, Returned
  <2>3. \A m : OwedUnder(Top(t), Rest(t), m) => OwedUnder(None, Rest(t), m)
    BY <1>5, UnderMatters
  <2>4. stack'[t] # <<>> => CallsUnder(Top(t)', Rest(t)')
    BY <1>1, <2>2, RestApart DEF Top, Rest
  <2>5. ~ At(t, "poll_once", "record")'
    <3>1. stack'[t] # <<>> => Top(t)' \in CallingFrames
      BY <1>1, <2>2, PopFrame DEF Top
    <3> QED
      BY <3>1 DEF At, CallingFrames
  <2> QED
    BY <1>2, <1>3, <2>2, <2>3, <2>4, <2>5, DebtStep
<1> QED
  BY <1>4, <1>5

\* The top frame of a transition or a release, and what it is about.
LEMMA TurnFacts ==
  ASSUME DebtInv, NEW t \in Monitors, NEW fn \in {"on_transition", "release_children"}, NEW pc,
         At(t, fn, pc)
  PROVE  /\ IInv /\ stack[t] # <<>> /\ Top(t) \in SoundFrames /\ Rest(t) \in Seq(CallingFrames)
         /\ Top(t).fn = fn /\ Top(t).fn # "poll_once" /\ Top(t).pc = pc
         /\ Top(t).m \in Monitors
         /\ fn = "on_transition" =>
              /\ Top(t).to \in States \ {"pending"} /\ Top(t).i \in Nat /\ Top(t).n \in Nat
              /\ Eventing(Top(t)) \in SoundFrames
              /\ Eventing(Top(t)).fn = "on_transition"
              /\ Eventing(Top(t)).to = Top(t).to /\ Eventing(Top(t)).m = Top(t).m
         /\ fn = "release_children" =>
              /\ Top(t).i \in Nat \ {0}
              /\ pc # "scan" => Top(t).i \in 1..Len(Order)
<1>1. /\ IInv /\ stack[t] # <<>> /\ Top(t) \in SoundFrames /\ Rest(t) \in Seq(CallingFrames)
      /\ Top(t).fn = fn /\ Top(t).pc = pc /\ Top(t).m \in Monitors
  BY TopFacts DEF DebtInv, IInv
<1>2. fn # "poll_once"
  OBVIOUS
<1>3. fn = "on_transition" =>
        /\ Eventing(Top(t)) \in SoundFrames /\ Eventing(Top(t)).fn = "on_transition"
        /\ Eventing(Top(t)).to = Top(t).to /\ Eventing(Top(t)).m = Top(t).m
  BY <1>1, EventingSound DEF Eventing, TransitionFrame
<1> QED
  BY <1>1, <1>2, <1>3, FrameFields

\* Nothing is newly unreported while no alert closes and no state changes.
LEMMA SameReports ==
  ASSUME mon' = mon, alertOpen' = alertOpen
  PROVE  \A m : Unreported(m)' <=> Unreported(m)
BY DEF Unreported

LEMMA SuppressDebt ==
  ASSUME DebtInv, NEW t \in Monitors, Suppress(t) PROVE Debts'
<1>1. /\ At(t, "on_transition", "decide") \/ At(t, "on_transition", "confirmed")
      /\ Top(t).to \in Problem /\ Blocked(Top(t).m)
      /\ mon' = mon /\ alertOpen' = alertOpen
      /\ stack' = [stack EXCEPT ![t] = <<Eventing(Top(t))>> \o Rest(t)]
  BY DEF Suppress
<1>2. /\ stack[t] # <<>> /\ Top(t).fn = "on_transition"
      /\ Eventing(Top(t)) \in SoundFrames /\ Eventing(Top(t)).fn = "on_transition"
  BY <1>1, TurnFacts
<1>3. ASSUME NEW m \in Monitors, Owes(Top(t), None, m) PROVE Blocked(m)
  BY <1>1, <1>2, <1>3 DEF Owes, Problem
<1> QED
  BY <1>1, <1>2, <1>3, SameReports, MoveDebt

LEMMA AnnounceDebt ==
  ASSUME DebtInv, NEW t \in Monitors, Announce(t) PROVE Debts'
<1>1. /\ At(t, "on_transition", "decide") \/ At(t, "on_transition", "confirmed")
      /\ Top(t).to \in Problem /\ mon' = mon
      /\ alertOpen' = [alertOpen EXCEPT ![Top(t).m] = TRUE]
      /\ stack' = [stack EXCEPT ![t] = <<Eventing(Top(t))>> \o Rest(t)]
  BY DEF Announce, AnnounceReady, Opened
<1>2. /\ stack[t] # <<>> /\ Top(t).fn = "on_transition" /\ Top(t).m \in Monitors
      /\ Eventing(Top(t)) \in SoundFrames /\ Eventing(Top(t)).fn = "on_transition"
  BY <1>1, TurnFacts
<1>3. /\ alertOpen'[Top(t).m] = TRUE
      /\ \A x \in Monitors \ {Top(t).m} : alertOpen'[x] = alertOpen[x]
  <2>1. alertOpen \in [Monitors -> BOOLEAN]
    BY DEF DebtInv, IInv, TypeOK
  <2> QED
    BY <1>1, <1>2, <2>1, OpenAlert, Zenon
<1>4. ASSUME NEW m \in Monitors, Unreported(m)'
      PROVE  Unreported(m) /\ ~ Owes(Top(t), None, m)
  <2>1. m # Top(t).m
    BY <1>3, <1>4 DEF Unreported
  <2>2. Unreported(m)
    BY <1>1, <1>3, <1>4, <2>1 DEF Unreported
  <2> QED
    BY <1>1, <1>2, <2>1, <2>2 DEF Owes, Problem
<1> QED
  BY <1>1, <1>2, <1>4, MoveDebt

LEMMA BeginConfirmDebt ==
  ASSUME DebtInv, NEW t \in Monitors, BeginConfirm(t) PROVE Debts'
<1> DEFINE g == TransitionFrame(Top(t).m, Top(t).to, "confirm", 1, 0)
<1>1. /\ At(t, "on_transition", "decide") /\ Parents[Top(t).m] # <<>>
      /\ mon' = mon /\ alertOpen' = alertOpen
      /\ stack' = [stack EXCEPT ![t] = <<g>> \o Rest(t)]
  BY DEF BeginConfirm
<1>2. /\ stack[t] # <<>> /\ Top(t).fn = "on_transition" /\ Top(t).m \in Monitors
      /\ Top(t).to \in States \ {"pending"}
  BY <1>1, TurnFacts
<1>3. /\ g \in SoundFrames /\ g.fn = "on_transition" /\ g.pc = "confirm"
      /\ g.m = Top(t).m /\ g.to = Top(t).to
  <2>1. 1 \in Nat /\ 0 \in Nat /\ 1 > 0
    OBVIOUS
  <2>2. g \in SoundFrames
    BY <1>1, <1>2, <2>1, TransitionFrameSound
  <2> QED
    BY <2>2 DEF TransitionFrame
<1> HIDE DEF g
<1>4. ASSUME NEW m \in Monitors, Owes(Top(t), None, m) PROVE Owes(g, None, m)
  BY <1>2, <1>3, <1>4 DEF Owes
<1> QED
  BY <1>1, <1>2, <1>3, <1>4, SameReports, MoveDebt

LEMMA ConfirmDebt ==
  ASSUME DebtInv, NEW t \in Monitors, Confirm(t) PROVE Debts'
<1>1. At(t, "on_transition", "confirm") /\ mon' = mon /\ alertOpen' = alertOpen
  BY DEF Confirm
<1>2. /\ stack[t] # <<>> /\ Top(t).fn = "on_transition" /\ Top(t).pc = "confirm"
      /\ Top(t).m \in Monitors /\ Top(t).to \in States \ {"pending"}
      /\ Top(t).i \in Nat \ {0} /\ Top(t).n \in Nat /\ Parents[Top(t).m] # <<>>
  BY <1>1, TurnFacts, FrameFields
<1> DEFINE g == TransitionFrame(Top(t).m, Top(t).to, "confirmed", 0, 0)
           ps == Parents[Top(t).m]
           called(j, n) == TransitionFrame(Top(t).m, Top(t).to, "confirm", j, n)
<1>3. CASE stack' = [stack EXCEPT ![t] = <<g>> \o Rest(t)]
  <2>1. /\ g \in SoundFrames /\ g.fn = "on_transition" /\ g.pc = "confirmed"
        /\ g.m = Top(t).m /\ g.to = Top(t).to
    BY <1>2, TransitionFrameSound DEF TransitionFrame
  <2> HIDE DEF g
  <2>2. ASSUME NEW m \in Monitors, Owes(Top(t), None, m) PROVE Owes(g, None, m)
    BY <1>2, <2>1, <2>2 DEF Owes
  <2> QED
    BY <1>1, <1>2, <1>3, <2>1, <2>2, SameReports, MoveDebt
<1>4. ASSUME NEW j \in 1..Len(ps), NEW n \in Nat,
             CallPoll(t, ps[j], <<called(j, n)>> \o Rest(t))
      PROVE  Debts'
  <2> DEFINE h == called(j, n)
  <2>1. ps[j] \in Monitors
    BY <1>2, <1>4, NamedMonitors
  <2>2. /\ h \in CallingFrames /\ h.fn = "on_transition" /\ h.pc = "confirm"
        /\ h.m = Top(t).m /\ h.to = Top(t).to
    <3>1. j \in Nat /\ j > 0
      BY <1>2, <1>4, LenProperties DEF SchedulerAssumption
    <3>2. h \in CallingFrames
      BY <1>2, <1>4, <3>1, TransitionFrameSound
    <3> QED
      BY <3>2 DEF TransitionFrame
  <2> HIDE DEF called, ps
  <2>3. CallPoll(t, ps[j], <<h>> \o Rest(t))
    BY <1>4
  <2> HIDE DEF h
  <2>4. ASSUME NEW m \in Monitors, NEW a, Owes(Top(t), None, m) PROVE Owes(h, a, m)
    BY <1>2, <2>2, <2>4 DEF Owes
  <2> QED
    BY <1>1, <1>2, <2>1, <2>2, <2>3, <2>4, AskDebt
<1>5. \/ stack' = [stack EXCEPT ![t] = <<g>> \o Rest(t)]
      \/ \E j \in Top(t).i..Len(ps) :
           CallPoll(t, ps[j], <<called(j, IF j = Top(t).i THEN Top(t).n + 1 ELSE 1)>> \o Rest(t))
  BY DEF Confirm
<1>6. ASSUME NEW j \in Top(t).i..Len(ps)
      PROVE  /\ j \in 1..Len(ps)
             /\ (IF j = Top(t).i THEN Top(t).n + 1 ELSE 1) \in Nat
  <2>1. Len(ps) \in Nat
    BY <1>2, NamedMonitors
  <2> QED
    BY <1>2, <2>1
<1> HIDE DEF g, ps, called
<1>7. CASE \E j \in Top(t).i..Len(ps) :
             CallPoll(t, ps[j],
               <<called(j, IF j = Top(t).i THEN Top(t).n + 1 ELSE 1)>> \o Rest(t))
  BY <1>4, <1>6, <1>7
<1> QED
  BY <1>3, <1>5, <1>7

LEMMA ResolveDebt ==
  ASSUME DebtInv, NEW t \in Monitors, Resolve(t) PROVE Debts'
<1>1. /\ At(t, "on_transition", "decide") /\ Top(t).to = "up" /\ mon' = mon
      /\ alertOpen' = [alertOpen EXCEPT ![Top(t).m] = FALSE]
      /\ stack' = [stack EXCEPT ![t] = <<Eventing(Top(t))>> \o Rest(t)]
  BY DEF Resolve, ResolveReady
<1>2. /\ stack[t] # <<>> /\ Top(t).fn = "on_transition" /\ Top(t).m \in Monitors
      /\ Eventing(Top(t)) \in SoundFrames /\ Eventing(Top(t)).fn = "on_transition"
      /\ Eventing(Top(t)).to = "up" /\ Eventing(Top(t)).m = Top(t).m
  BY <1>1, TurnFacts
<1>3. mon[Top(t).m].state = "up"
  BY <1>1, Deciding DEF DebtInv
<1>4. \A x \in Monitors \ {Top(t).m} : alertOpen'[x] = alertOpen[x]
  <2>1. alertOpen \in [Monitors -> BOOLEAN]
    BY DEF DebtInv, IInv, TypeOK
  <2> QED
    BY <1>1, <1>2, <2>1, CloseAlert, Zenon
<1>5. ASSUME NEW m \in Monitors, Unreported(m)' PROVE Unreported(m)
  <2>1. m # Top(t).m
    BY <1>1, <1>3, <1>5 DEF Unreported, Problem
  <2> QED
    BY <1>1, <1>4, <1>5, <2>1 DEF Unreported
<1>6. ASSUME NEW m \in Monitors, Owes(Top(t), None, m) PROVE Owes(Eventing(Top(t)), None, m)
  BY <1>1, <1>2, <1>6 DEF Owes, Problem
<1> QED
  BY <1>1, <1>2, <1>5, <1>6, MoveDebt

LEMMA RecoverSilentlyDebt ==
  ASSUME DebtInv, NEW t \in Monitors, RecoverSilently(t) PROVE Debts'
<1>1. /\ At(t, "on_transition", "decide") /\ Top(t).to = "up"
      /\ mon' = mon /\ alertOpen' = alertOpen
      /\ stack' = [stack EXCEPT ![t] = <<Eventing(Top(t))>> \o Rest(t)]
  BY DEF RecoverSilently
<1>2. /\ stack[t] # <<>> /\ Top(t).fn = "on_transition"
      /\ Eventing(Top(t)) \in SoundFrames /\ Eventing(Top(t)).fn = "on_transition"
      /\ Eventing(Top(t)).to = "up" /\ Eventing(Top(t)).m = Top(t).m
  BY <1>1, TurnFacts
<1>3. ASSUME NEW m \in Monitors, Owes(Top(t), None, m) PROVE Owes(Eventing(Top(t)), None, m)
  BY <1>1, <1>2, <1>3 DEF Owes, Problem
<1> QED
  BY <1>1, <1>2, <1>3, SameReports, MoveDebt

LEMMA EventRecordedDebt ==
  ASSUME DebtInv, NEW t \in Monitors, EventRecorded(t) PROVE Debts'
<1> DEFINE g == ReleaseFrame(Top(t).m, "scan", 1, None)
<1>1. /\ At(t, "on_transition", "event") /\ mon' = mon /\ alertOpen' = alertOpen
      /\ stack' = [stack EXCEPT ![t] = IF Top(t).to = "up" THEN <<g>> \o Rest(t) ELSE Rest(t)]
  BY DEF EventRecorded
<1>2. /\ stack[t] # <<>> /\ Top(t).fn = "on_transition" /\ Top(t).pc = "event"
      /\ Top(t).m \in Monitors
  BY <1>1, TurnFacts
<1>3. g \in SoundFrames /\ g.fn = "release_children" /\ g.m = Top(t).m /\ g.i = 1 /\ g.pc = "scan"
  <2>1. 1 \in Nat \ {0} /\ "scan" \in {"scan", "repoll", "polled", "event"}
        /\ None \in Results \union {None}
    OBVIOUS
  <2>2. g \in SoundFrames
    BY <1>2, <2>1, ReleaseFrameSound
  <2> QED
    BY <2>2 DEF ReleaseFrame
<1> HIDE DEF g
<1>4. CASE Top(t).to = "up"
  <2>1. stack' = [stack EXCEPT ![t] = <<g>> \o Rest(t)]
    BY <1>1, <1>4
  <2>2. ASSUME NEW m \in Monitors, Owes(Top(t), None, m) PROVE Owes(g, None, m)
    <3>1. Top(t).m \in Ancestors(Parents, m)
      BY <1>2, <2>2 DEF Owes
    <3>2. PICK j \in DOMAIN Order : Order[j] = m
      BY DEF Monitors
    <3>3. j \in 1..Len(Order) /\ (1 < j \/ 1 = j)
      BY <3>2, SchedulerAssumption, LenProperties
    <3> QED
      BY <1>3, <3>1, <3>2, <3>3 DEF Owes
  <2> QED
    BY <1>1, <1>2, <1>3, <2>1, <2>2, SameReports, MoveDebt
<1>5. CASE Top(t).to # "up"
  <2>1. \A m \in Monitors : ~ Owes(Top(t), None, m)
    BY <1>2, <1>5 DEF Owes
  <2>2. stack' = [stack EXCEPT ![t] = Rest(t)]
    BY <1>1, <1>5
  <2> QED
    BY <1>1, <1>2, <2>1, <2>2, EndDebt
<1> QED
  BY <1>4, <1>5

\* A release that is looking owes m a look exactly while m is ahead of it.
LEMMA ScanOwes ==
  ASSUME NEW f \in SoundFrames, f.fn = "release_children", f.pc = "scan",
         NEW a, NEW m \in Monitors
  PROVE  Owes(f, a, m) <=> /\ f.m \in Ancestors(Parents, m)
                           /\ \E j \in f.i..Len(Order) : Order[j] = m
<1>1. f.i \in Nat \ {0} /\ Len(Order) \in Nat
  BY FrameFields, NamedMonitors
<1> QED
  BY <1>1 DEF Owes

LEMMA ReleaseDebt ==
  ASSUME DebtInv, NEW t \in Monitors, Release(t) PROVE Debts'
<1>1. At(t, "release_children", "scan") /\ mon' = mon /\ alertOpen' = alertOpen
  BY DEF Release
<1>2. /\ stack[t] # <<>> /\ Top(t) \in SoundFrames /\ Top(t).fn = "release_children"
      /\ Top(t).pc = "scan" /\ Top(t).m \in Monitors /\ Top(t).i \in Nat \ {0}
  BY <1>1, TurnFacts
<1> DEFINE todo == {j \in Top(t).i..Len(Order) : /\ Top(t).m \in Ancestors(Parents, Order[j])
                                                  /\ Unreported(Order[j])}
           calling(j) == ReleaseFrame(Top(t).m, "repoll", j, None)
<1>3. ASSUME NEW m \in Monitors, Unreported(m), Owes(Top(t), None, m)
      PROVE  \E j \in todo : Order[j] = m
  BY <1>2, <1>3, ScanOwes
<1>4. \/ todo = {} /\ stack' = [stack EXCEPT ![t] = Rest(t)]
      \/ \E j \in todo : /\ \A k \in todo : j <= k
                         /\ CallPoll(t, Order[j], <<calling(j)>> \o Rest(t))
  BY DEF Release
<1>5. CASE todo = {} /\ stack' = [stack EXCEPT ![t] = Rest(t)]
  <2>1. \A m \in Monitors : Unreported(m) => ~ Owes(Top(t), None, m)
    BY <1>3, <1>5
  <2> QED
    BY <1>1, <1>2, <1>5, <2>1, EndDebt
<1>6. ASSUME NEW j \in todo, \A k \in todo : j <= k,
             CallPoll(t, Order[j], <<calling(j)>> \o Rest(t))
      PROVE  Debts'
  <2> DEFINE h == calling(j)
  <2>1. /\ j \in 1..Len(Order) /\ j \in Nat \ {0} /\ Order[j] \in Monitors
        /\ Top(t).m \in Ancestors(Parents, Order[j])
    BY <1>2, <1>6, NamedMonitors
  <2>2. /\ h \in CallingFrames /\ h.fn = "release_children" /\ h.pc = "repoll"
        /\ h.m = Top(t).m /\ h.i = j
    BY <1>2, <2>1, ReleaseFrameSound DEF ReleaseFrame
  <2>3. CallPoll(t, Order[j], <<h>> \o Rest(t))
    BY <1>6
  <2>4. PollFrame(Order[j], "lock", None).pc = "lock"
    BY DEF PollFrame
  <2>5. ASSUME NEW m \in Monitors, Unreported(m), Owes(Top(t), None, m)
        PROVE  \E k \in 1..Len(Order) : Order[k] = m /\ (j < k \/ j = k)
    <3>1. PICK k \in todo : Order[k] = m
      BY <1>3, <2>5
    <3>2. j <= k /\ k \in 1..Len(Order)
      BY <1>2, <1>6, <3>1, NamedMonitors
    <3> QED
      BY <2>1, <3>1, <3>2
  <2> HIDE DEF h, calling, todo
  <2>6. ASSUME NEW m \in Monitors, Unreported(m), Owes(Top(t), None, m)
        PROVE  Owes(h, PollFrame(Order[j], "lock", None), m)
    <3>1. Top(t).m \in Ancestors(Parents, m)
      BY <1>2, <2>6 DEF Owes
    <3> QED
      BY <2>2, <2>4, <2>5, <2>6, <3>1 DEF Owes
  <2> QED
    BY <1>1, <1>2, <2>1, <2>2, <2>3, <2>6, AskDebt
<1> QED
  BY <1>4, <1>5, <1>6

\* A release that goes on to the next child has dealt with this one.
LEMMA NextChild ==
  ASSUME NEW f \in SoundFrames, f.fn = "release_children", f.pc \in {"polled", "event"},
         NEW m \in Monitors, Owes(f, None, m)
  PROVE  \/ /\ Owes(ReleaseFrame(f.m, "scan", f.i + 1, None), None, m)
            /\ Owes(ReleaseFrame(f.m, "event", f.i, None), None, m)
         \/ f.pc = "polled" /\ f.res # "ok" /\ Order[f.i] = m
<1>1. f.i \in Nat \ {0} /\ f.m \in Ancestors(Parents, m)
  BY FrameFields DEF Owes
<1>2. PICK j \in 1..Len(Order) :
        /\ Order[j] = m
        /\ f.i < j \/ (f.i = j /\ f.pc = "polled" /\ f.res # "ok")
  BY DEF Owes
<1> DEFINE g == ReleaseFrame(f.m, "scan", f.i + 1, None)
           e == ReleaseFrame(f.m, "event", f.i, None)
<1>3. /\ g.fn = "release_children" /\ g.m = f.m /\ g.i = f.i + 1 /\ g.pc = "scan"
      /\ e.fn = "release_children" /\ e.m = f.m /\ e.i = f.i
  BY DEF ReleaseFrame
<1> HIDE DEF g, e
<1>4. CASE f.i < j
  <2>1. g.i < j \/ g.i = j
    BY <1>1, <1>3, <1>4
  <2> QED
    BY <1>1, <1>2, <1>3, <1>4, <2>1 DEF Owes, g, e
<1> QED
  BY <1>2, <1>4

LEMMA RemindDebt ==
  ASSUME DebtInv, NEW t \in Monitors, Remind(t) PROVE Debts'
<1> DEFINE child == Order[Top(t).i]
           g == ReleaseFrame(Top(t).m, "event", Top(t).i, None)
<1>1. /\ At(t, "release_children", "polled") /\ mon' = mon
      /\ alertOpen' = [alertOpen EXCEPT ![child] = TRUE]
      /\ stack' = [stack EXCEPT ![t] = <<g>> \o Rest(t)]
  BY DEF Remind, Opened
<1>2. /\ stack[t] # <<>> /\ Top(t) \in SoundFrames /\ Top(t).fn = "release_children"
      /\ Top(t).pc = "polled" /\ Top(t).m \in Monitors
      /\ Top(t).i \in Nat \ {0} /\ Top(t).i \in 1..Len(Order) /\ child \in Monitors
  BY <1>1, TurnFacts, NamedMonitors
<1>3. g \in SoundFrames /\ g.fn = "release_children"
  BY <1>2, ReleaseFrameSound DEF ReleaseFrame
<1>4. /\ alertOpen'[child] = TRUE
      /\ \A x \in Monitors \ {child} : alertOpen'[x] = alertOpen[x]
  <2>1. alertOpen \in [Monitors -> BOOLEAN]
    BY DEF DebtInv, IInv, TypeOK
  <2> QED
    BY <1>1, <1>2, <2>1, OpenAlert, Zenon
<1>5. ASSUME NEW m \in Monitors, Unreported(m)'
      PROVE  Unreported(m) /\ (Owes(Top(t), None, m) => Owes(g, None, m))
  <2>1. m # child
    BY <1>4, <1>5 DEF Unreported
  <2>2. Unreported(m)
    BY <1>1, <1>4, <1>5, <2>1 DEF Unreported
  <2> QED
    BY <1>2, <2>1, <2>2, NextChild
<1> HIDE DEF g
<1> QED
  BY <1>1, <1>2, <1>3, <1>5, MoveDebt

LEMMA PassOverDebt ==
  ASSUME DebtInv, NEW t \in Monitors, PassOver(t) PROVE Debts'
<1> DEFINE g == ReleaseFrame(Top(t).m, "scan", Top(t).i + 1, None)
<1>1. /\ At(t, "release_children", "polled") /\ ~ StillUnreported(Top(t))
      /\ mon' = mon /\ alertOpen' = alertOpen
      /\ stack' = [stack EXCEPT ![t] = <<g>> \o Rest(t)]
  BY DEF PassOver
<1>2. /\ stack[t] # <<>> /\ Top(t) \in SoundFrames /\ Top(t).fn = "release_children"
      /\ Top(t).pc = "polled" /\ Top(t).m \in Monitors /\ Top(t).i \in Nat \ {0}
  BY <1>1, TurnFacts
<1>3. g \in SoundFrames /\ g.fn = "release_children"
  <2>1. Top(t).i + 1 \in Nat \ {0}
    BY <1>2
  <2> QED
    BY <1>2, <2>1, ReleaseFrameSound DEF ReleaseFrame
<1>4. ASSUME NEW m \in Monitors, Unreported(m), Owes(Top(t), None, m)
      PROVE  Owes(g, None, m) \/ Blocked(m)
  BY <1>1, <1>2, <1>4, NextChild DEF StillUnreported
<1> HIDE DEF g
<1> QED
  BY <1>1, <1>2, <1>3, <1>4, SameReports, MoveDebt

LEMMA ReminderRecordedDebt ==
  ASSUME DebtInv, NEW t \in Monitors, ReminderRecorded(t) PROVE Debts'
<1> DEFINE g == ReleaseFrame(Top(t).m, "scan", Top(t).i + 1, None)
<1>1. /\ At(t, "release_children", "event")
      /\ mon' = mon /\ alertOpen' = alertOpen
      /\ stack' = [stack EXCEPT ![t] = <<g>> \o Rest(t)]
  BY DEF ReminderRecorded
<1>2. /\ stack[t] # <<>> /\ Top(t) \in SoundFrames /\ Top(t).fn = "release_children"
      /\ Top(t).pc = "event" /\ Top(t).m \in Monitors /\ Top(t).i \in Nat \ {0}
  BY <1>1, TurnFacts
<1>3. g \in SoundFrames /\ g.fn = "release_children"
  <2>1. Top(t).i + 1 \in Nat \ {0}
    BY <1>2
  <2> QED
    BY <1>2, <2>1, ReleaseFrameSound DEF ReleaseFrame
<1>4. ASSUME NEW m \in Monitors, Owes(Top(t), None, m) PROVE Owes(g, None, m)
  BY <1>2, <1>4, NextChild
<1> HIDE DEF g
<1> QED
  BY <1>1, <1>2, <1>3, <1>4, SameReports, MoveDebt

-----------------------------------------------------------------------------

LEMMA InitDebts == Init => Debts
<1> SUFFICES ASSUME Init PROVE Debts
  OBVIOUS
<1>1. CallsSound /\ AnswersSound
  BY DEF Init, CallsSound, AnswersSound, At, Fresh
<1>2. Informed
  BY DEF Init, Informed, Unreported, Fresh, Problem
<1> QED
  BY <1>1, <1>2 DEF Debts

LEMMA StepDebts ==
  ASSUME Acyclic, PromptRecovery, ParentsUpOrDown, ~ StoreMayFail
  PROVE  DebtInv /\ [Next]_vars => DebtInv'
<1> SUFFICES ASSUME DebtInv, [Next]_vars PROVE DebtInv'
  OBVIOUS
<1>1. ASSUME NEW t \in Monitors, StartPoll(t) \/ Continue(t) PROVE Debts'
  <2>1. ~ StoreFails(t)
    BY DEF StoreFails
  <2> QED
    BY <1>1, <2>1, StartPollDebt, AcquireDebt, ProbeDebt, RecordDebt, ReturnDebt,
       SuppressDebt, AnnounceDebt, BeginConfirmDebt, ConfirmDebt, ResolveDebt,
       RecoverSilentlyDebt, EventRecordedDebt, ReleaseDebt, RemindDebt, PassOverDebt,
       ReminderRecordedDebt DEF Continue
<1>2. ASSUME UNCHANGED vars PROVE Debts'
  <2>1. CallsSound'
    BY <1>2 DEF vars, DebtInv, CallsSound, Top, Rest
  <2>2. AnswersSound'
    BY <1>2 DEF vars, DebtInv, AnswersSound, At, Top
  <2>3. Informed'
    BY <1>2 DEF vars, DebtInv, Informed, Owed, Unreported, Blocked, StateOf
  <2> QED
    BY <2>1, <2>2, <2>3 DEF Debts
<1>3. IInv'
  BY StepSound DEF DebtInv
<1>4. Debts'
  BY <1>1, <1>2 DEF Next
<1> QED
  BY <1>3, <1>4 DEF DebtInv, Debts

\* Nobody is left uninformed, in any dependency graph without circles: whenever all
\* is quiet, a problem that is not behind an outage has been alerted. It holds
\* where a monitor with parents is UP after one success, a monitor that others
\* depend on answers up or down only, and the store takes every row; run
\* lost_recovery shows what happens without the first of these.
\* (scheduler.py:114-161)
THEOREM NoProblemIsLost ==
  ASSUME Acyclic, PromptRecovery, ParentsUpOrDown, ~ StoreMayFail
  PROVE  Spec => []NoLostProblem
<1>1. Init => DebtInv
  BY InitSound, InitDebts DEF DebtInv, Debts
<1>2. DebtInv /\ [Next]_vars => DebtInv'
  BY StepDebts
<1>3. DebtInv => NoLostProblem
  BY NothingUnder DEF DebtInv, Informed, NoLostProblem, Quiescent, Unreported, Owed
<1> QED
  BY <1>1, <1>2, <1>3, PTL DEF Spec
=============================================================================
