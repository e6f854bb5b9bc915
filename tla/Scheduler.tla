------------------------------- MODULE Scheduler -------------------------------
(***************************************************************************)
(* The polling and alerting core (watchpost/scheduler.py) as asyncio runs  *)
(* it.  Every monitor has one task (_loop) that polls it for ever.  A task *)
(* has a stack of coroutine frames, because poll_once awaits _on_transition*)
(* and _release_children, which await poll_once of other monitors in turn. *)
(*                                                                         *)
(* Tasks are cooperative: `cpu' names the task whose code is between two   *)
(* awaits, and no other task takes a step until it suspends (cpu = None).  *)
(* What code does between two awaits is thus atomic for the others, even   *)
(* where it is split into several actions here.                            *)
(***************************************************************************)
EXTENDS StateMachine, Dependencies

CONSTANTS Order,            \* the enabled monitors, in configured order
          Parents,          \* Parents[m]: depends_on of m, a sequence
          FailuresToDown,   \* failures_to_down of each monitor
          RecoveriesToUp,   \* recoveries_to_up of each monitor
          MaxConcurrency,   \* server.max_concurrency
          Outcomes,         \* the results the check of each monitor can have:
                            \* one without thresholds never returns WARN
          StoreMayFail      \* whether an insert into the store may raise

Monitors == {Order[i] : i \in DOMAIN Order}

ASSUME SchedulerAssumption ==
  /\ Order \in Seq(Monitors)
  /\ Parents \in [Monitors -> Seq(Monitors)]
  /\ FailuresToDown \in [Monitors -> Nat \ {0}]
  /\ RecoveriesToUp \in [Monitors -> Nat \ {0}]
  /\ MaxConcurrency \in Nat \ {0}
  /\ Outcomes \in [Monitors -> SUBSET Results]
  /\ StoreMayFail \in BOOLEAN
  /\ None \notin Monitors

VARIABLES
  mon,        \* MonitorState of each monitor, its streaks saturated
  alertOpen,  \* MonitorState.alert_open
  stack,      \* the coroutine frames of each task, innermost first
  lockq,      \* _locks[m]: the holder, then the waiters in FIFO order
  semq,       \* _sem: the first MaxConcurrency entries hold a permit
  cpu,        \* the task that is running, or None between two awaits
  dead,       \* tasks that ended with an exception
  sent        \* the alert handed to the Alerter by the last step, or None

vars == <<mon, alertOpen, stack, lockq, semq, cpu, dead, sent>>

-----------------------------------------------------------------------------
(* Frames. *)

\* poll_once(m): waits for the lock, then for the probe, then for the insert.
PollFrame(m, pc, res) == [fn |-> "poll_once", m |-> m, pc |-> pc, res |-> res]

\* _on_transition(m, to): i and n are the parent being confirmed and the polls
\* it has been given (parent and attempts in _confirm_parents).
TransitionFrame(m, to, pc, i, n) ==
  [fn |-> "on_transition", m |-> m, to |-> to, pc |-> pc, i |-> i, n |-> n]

\* _release_children(m): i is the monitor of Order being looked at, res what
\* its fresh poll returned.
ReleaseFrame(m, pc, i, res) ==
  [fn |-> "release_children", m |-> m, pc |-> pc, i |-> i, res |-> res]

Frames ==
  [fn : {"poll_once"}, m : Monitors, pc : {"lock", "probe", "record", "return"},
   res : Results \union {None}]
  \union
  [fn : {"on_transition"}, m : Monitors, to : States \ {"pending"},
   pc : {"decide", "confirm", "confirmed", "event"}, i : Nat, n : Nat]
  \union
  [fn : {"release_children"}, m : Monitors, pc : {"scan", "repoll", "polled", "event"},
   i : Nat \ {0}, res : Results \union {None}]

Top(t)  == Head(stack[t])
Rest(t) == Tail(stack[t])

\* Task t's innermost frame is fn, about to do pc.
At(t, fn, pc) == stack[t] # <<>> /\ Top(t).fn = fn /\ Top(t).pc = pc

Running(t) == cpu = t
Resumed(t) == cpu = None

-----------------------------------------------------------------------------
(* Calling poll_once(m) over the frames `under'. Entering `async with lock'    *)
(* takes a free lock without suspending; otherwise the task queues behind it. *)
CallPoll(t, m, under) ==
  /\ stack' = [stack EXCEPT ![t] = <<PollFrame(m, "lock", None)>> \o under]
  /\ lockq' = [lockq EXCEPT ![m] = Append(@, t)]
  /\ cpu' = IF lockq[m] = <<>> THEN t ELSE None

\* _loop: the interval has elapsed.
StartPoll(t) ==
  /\ Resumed(t) /\ t \notin dead /\ stack[t] = <<>>
  /\ CallPoll(t, t, <<>>)
  /\ sent' = None
  /\ UNCHANGED <<mon, alertOpen, semq, dead>>

\* Faulty variant: every call makes a lock of its own.
HasLock_OfItsOwn(t) == TRUE

\* Task t, queued for the lock of the monitor it is to poll, has it.
HasLock(t) == Head(lockq[Top(t).m]) = t

\* The lock is taken; _probe asks for the semaphore and suspends there or in
\* check.run().
Acquire(t) ==
  /\ cpu \in {t, None} /\ At(t, "poll_once", "lock")
  /\ HasLock(t)
  /\ stack' = [stack EXCEPT ![t] = <<PollFrame(Top(t).m, "probe", None)>> \o Rest(t)]
  /\ semq' = Append(semq, t)
  /\ cpu' = None
  /\ sent' = None
  /\ UNCHANGED <<mon, alertOpen, lockq, dead>>

\* The holders of a permit are the first MaxConcurrency in the queue.
HasPermit(t) == \E i \in 1..Len(semq) : i <= MaxConcurrency /\ semq[i] = t

\* check.run() ends, whatever it found (an exception counts as FAIL); the
\* permit goes to the next waiter and the insert into the store begins.
Probe(t) ==
  /\ Resumed(t) /\ At(t, "poll_once", "probe") /\ HasPermit(t)
  /\ \E r \in Outcomes[Top(t).m] :
       stack' = [stack EXCEPT ![t] = <<PollFrame(Top(t).m, "record", r)>> \o Rest(t)]
  /\ semq' = RemoveAt(semq, CHOOSE i \in 1..Len(semq) : semq[i] = t)
  /\ sent' = None
  /\ UNCHANGED <<mon, alertOpen, lockq, cpu, dead>>

\* Faulty variant: the lock is held until poll_once returns, as it would be if
\* _on_transition were awaited inside the `async with'.
LocksAfter_WholePoll(m, step) ==
  IF step = "returned" THEN [lockq EXCEPT ![m] = Tail(@)] ELSE lockq

\* The locks after a step of poll_once(m): released, and handed to the first
\* waiter, once the result is observed and before _on_transition is awaited.
LocksAfter(m, step) ==
  IF step = "observed" THEN [lockq EXCEPT ![m] = Tail(@)] ELSE lockq

\* The row is in the store: observe the result, release the lock, and go on to
\* _on_transition if the state changed.
Record(t) ==
  /\ Resumed(t) /\ At(t, "poll_once", "record")
  /\ LET f   == Top(t)
         new == SaturatedObserve(mon[f.m], f.res, FailuresToDown[f.m], RecoveriesToUp[f.m])
         ret == <<PollFrame(f.m, "return", f.res)>> \o Rest(t)
     IN  /\ mon' = [mon EXCEPT ![f.m] = new]
         /\ lockq' = LocksAfter(f.m, "observed")
         /\ stack' = [stack EXCEPT ![t] =
              IF new.state = mon[f.m].state
              THEN ret
              ELSE <<TransitionFrame(f.m, new.state, "decide", 0, 0)>> \o ret]
  /\ cpu' = t
  /\ sent' = None
  /\ UNCHANGED <<alertOpen, semq, dead>>

\* poll_once returns: to _loop, which sleeps, to _confirm_parents, or to
\* _release_children, which keeps the result.
Return(t) ==
  /\ Running(t) /\ At(t, "poll_once", "return")
  /\ LET caller == Head(Rest(t))
     IN  stack' = [stack EXCEPT ![t] =
           IF Rest(t) # <<>> /\ caller.fn = "release_children"
           THEN <<ReleaseFrame(caller.m, "polled", caller.i, Top(t).res)>> \o Tail(Rest(t))
           ELSE Rest(t)]
  /\ lockq' = LocksAfter(Top(t).m, "returned")
  /\ cpu' = IF Rest(t) = <<>> THEN None ELSE t
  /\ sent' = None
  /\ UNCHANGED <<mon, alertOpen, semq, dead>>

-----------------------------------------------------------------------------
(* _on_transition *)

StateOf == [m \in Monitors |-> mon[m].state]

Blocked(m) == BlockingParent(Parents, StateOf, m) # None

Alert(m, kind, still) == [m |-> m, kind |-> kind, still |-> still]

\* The frame of _on_transition waiting for record_event.
Eventing(f) == TransitionFrame(f.m, f.to, "event", 0, 0)

\* A problem behind an outage: recorded, not alerted.
Suppress(t) ==
  /\ Running(t) /\ (At(t, "on_transition", "decide") \/ At(t, "on_transition", "confirmed"))
  /\ Top(t).to \in Problem /\ Blocked(Top(t).m)
  /\ stack' = [stack EXCEPT ![t] = <<Eventing(Top(t))>> \o Rest(t)]
  /\ cpu' = None
  /\ sent' = None
  /\ UNCHANGED <<mon, alertOpen, lockq, semq, dead>>

\* The conditions under which the problem of the top frame is alerted.
AnnounceReady(t) ==
  /\ \/ At(t, "on_transition", "decide") /\ Parents[Top(t).m] = <<>>
     \/ At(t, "on_transition", "confirmed")
  /\ Top(t).to \in Problem /\ ~ Blocked(Top(t).m)

\* Faulty variant: the alert is sent and forgotten.
Opened_Never(m) == alertOpen

\* The open alerts once m's problem has been alerted.
Opened(m) == [alertOpen EXCEPT ![m] = TRUE]

\* A problem of its own: alerted.
Announce(t) ==
  /\ Running(t) /\ AnnounceReady(t)
  /\ alertOpen' = Opened(Top(t).m)
  /\ sent' = Alert(Top(t).m, Top(t).to, FALSE)
  /\ stack' = [stack EXCEPT ![t] = <<Eventing(Top(t))>> \o Rest(t)]
  /\ cpu' = None
  /\ UNCHANGED <<mon, lockq, semq, dead>>

\* Not blocked so far, but there are parents to confirm first.
BeginConfirm(t) ==
  /\ Running(t) /\ At(t, "on_transition", "decide")
  /\ Top(t).to \in Problem /\ ~ Blocked(Top(t).m) /\ Parents[Top(t).m] # <<>>
  /\ stack' = [stack EXCEPT ![t] =
       <<TransitionFrame(Top(t).m, Top(t).to, "confirm", 1, 0)>> \o Rest(t)]
  /\ sent' = None
  /\ UNCHANGED <<mon, alertOpen, lockq, semq, cpu, dead>>

\* Failing but not yet DOWN, or never polled at all.
Unsettled(p) ==
  /\ mon[p].state # "down"
  /\ mon[p].bad > 0 \/ (mon[p].state = "pending" /\ mon[p].good = 0)

\* _confirm_parents, from one poll to the next: the current parent again while
\* it is unsettled and has attempts left, otherwise the next unsettled one.
Confirm(t) ==
  /\ Running(t) /\ At(t, "on_transition", "confirm")
  /\ LET f    == Top(t)
         ps   == Parents[f.m]
         todo == {j \in f.i..Len(ps) :
                    /\ Unsettled(ps[j])
                    /\ j = f.i => f.n < FailuresToDown[ps[j]]}
     IN  \/ /\ todo = {}
            /\ stack' = [stack EXCEPT ![t] =
                 <<TransitionFrame(f.m, f.to, "confirmed", 0, 0)>> \o Rest(t)]
            /\ UNCHANGED <<lockq, cpu>>
         \/ \E j \in todo :
              /\ \A k \in todo : j <= k
              /\ CallPoll(t, ps[j],
                   <<TransitionFrame(f.m, f.to, "confirm", j,
                                     IF j = f.i THEN f.n + 1 ELSE 1)>> \o Rest(t))
  /\ sent' = None
  /\ UNCHANGED <<mon, alertOpen, semq, dead>>

\* Faulty variant: every recovery is alerted.
ResolveReady_Always(t) == Top(t).to = "up"

\* The recovery of the top frame answers an alert.
ResolveReady(t) == Top(t).to = "up" /\ alertOpen[Top(t).m]

\* UP after an alerted problem: close it and say so.
Resolve(t) ==
  /\ Running(t) /\ At(t, "on_transition", "decide") /\ ResolveReady(t)
  /\ alertOpen' = [alertOpen EXCEPT ![Top(t).m] = FALSE]
  /\ sent' = Alert(Top(t).m, "up", FALSE)
  /\ stack' = [stack EXCEPT ![t] = <<Eventing(Top(t))>> \o Rest(t)]
  /\ cpu' = None
  /\ UNCHANGED <<mon, lockq, semq, dead>>

\* UP with nothing to answer.
RecoverSilently(t) ==
  /\ Running(t) /\ At(t, "on_transition", "decide")
  /\ Top(t).to = "up" /\ ~ ResolveReady(t)
  /\ stack' = [stack EXCEPT ![t] = <<Eventing(Top(t))>> \o Rest(t)]
  /\ cpu' = None
  /\ sent' = None
  /\ UNCHANGED <<mon, alertOpen, lockq, semq, dead>>

\* The event row is in the store: an UP goes on to _release_children, anything
\* else returns to the poll_once that called it.
EventRecorded(t) ==
  /\ Resumed(t) /\ At(t, "on_transition", "event")
  /\ stack' = [stack EXCEPT ![t] =
       IF Top(t).to = "up"
       THEN <<ReleaseFrame(Top(t).m, "scan", 1, None)>> \o Rest(t)
       ELSE Rest(t)]
  /\ cpu' = t
  /\ sent' = None
  /\ UNCHANGED <<mon, alertOpen, lockq, semq, dead>>

-----------------------------------------------------------------------------
(* _release_children *)

\* A problem that nobody has been told about.
Unreported(m) == mon[m].state \in Problem /\ ~ alertOpen[m]

\* On to the next unreported descendant and its fresh poll, or return.
Release(t) ==
  /\ Running(t) /\ At(t, "release_children", "scan")
  /\ LET f    == Top(t)
         todo == {j \in f.i..Len(Order) : /\ f.m \in Ancestors(Parents, Order[j])
                                          /\ Unreported(Order[j])}
     IN  \/ /\ todo = {}
            /\ stack' = [stack EXCEPT ![t] = Rest(t)]
            /\ UNCHANGED <<lockq, cpu>>
         \/ \E j \in todo :
              /\ \A k \in todo : j <= k
              /\ CallPoll(t, Order[j], <<ReleaseFrame(f.m, "repoll", j, None)>> \o Rest(t))
  /\ sent' = None
  /\ UNCHANGED <<mon, alertOpen, semq, dead>>

\* Faulty variant: every ancestor has to be UP before the child is reported.
StillUnreported_AllUp(f) ==
  /\ f.res # "ok" /\ Unreported(Order[f.i])
  /\ \A a \in Ancestors(Parents, Order[f.i]) : mon[a].state = "up"

\* After the fresh poll the child still fails, has not been alerted meanwhile
\* and is not behind another outage.
StillUnreported(f) ==
  /\ f.res # "ok" /\ Unreported(Order[f.i])
  /\ ~ Blocked(Order[f.i])

\* "still down after <parent> recovered": a separate problem, alerted now.
Remind(t) ==
  /\ Running(t) /\ At(t, "release_children", "polled") /\ StillUnreported(Top(t))
  /\ LET child == Order[Top(t).i]
     IN  /\ alertOpen' = Opened(child)
         /\ sent' = Alert(child, mon[child].state, TRUE)
  /\ stack' = [stack EXCEPT ![t] =
       <<ReleaseFrame(Top(t).m, "event", Top(t).i, None)>> \o Rest(t)]
  /\ cpu' = None
  /\ UNCHANGED <<mon, lockq, semq, dead>>

\* Recovering, recovered, already alerted or still blocked: the next child.
PassOver(t) ==
  /\ Running(t) /\ At(t, "release_children", "polled") /\ ~ StillUnreported(Top(t))
  /\ stack' = [stack EXCEPT ![t] =
       <<ReleaseFrame(Top(t).m, "scan", Top(t).i + 1, None)>> \o Rest(t)]
  /\ sent' = None
  /\ UNCHANGED <<mon, alertOpen, lockq, semq, cpu, dead>>

\* The reminder's event row is in the store: the next child.
ReminderRecorded(t) ==
  /\ Resumed(t) /\ At(t, "release_children", "event")
  /\ stack' = [stack EXCEPT ![t] =
       <<ReleaseFrame(Top(t).m, "scan", Top(t).i + 1, None)>> \o Rest(t)]
  /\ cpu' = t
  /\ sent' = None
  /\ UNCHANGED <<mon, alertOpen, lockq, semq, dead>>

-----------------------------------------------------------------------------
\* Faulty variant: the lock is taken and released without try/finally.
LocksAfterFailure_Leak(t) == lockq

\* What an exception in the top frame does to the locks: `async with' releases
\* the one that is held while a result is being recorded.
LocksAfterFailure(t) ==
  IF At(t, "poll_once", "record") THEN [lockq EXCEPT ![Top(t).m] = Tail(@)] ELSE lockq

\* An insert raises (disk full, database locked). Nothing between the store
\* and _loop catches it: every frame is unwound and the task is over.
StoreFails(t) ==
  /\ StoreMayFail /\ Resumed(t)
  /\ \/ At(t, "poll_once", "record")
     \/ At(t, "on_transition", "event")
     \/ At(t, "release_children", "event")
  /\ lockq' = LocksAfterFailure(t)
  /\ stack' = [stack EXCEPT ![t] = <<>>]
  /\ dead' = dead \union {t}
  /\ sent' = None
  /\ UNCHANGED <<mon, alertOpen, semq, cpu>>

Init ==
  /\ mon = [m \in Monitors |-> Fresh]
  /\ alertOpen = [m \in Monitors |-> FALSE]
  /\ stack = [m \in Monitors |-> <<>>]
  /\ lockq = [m \in Monitors |-> <<>>]
  /\ semq = <<>>
  /\ cpu = None
  /\ dead = {}
  /\ sent = None

\* A step of a coroutine that has been started.
Continue(t) ==
  \/ Acquire(t) \/ Probe(t) \/ Record(t) \/ Return(t)
  \/ Suppress(t) \/ Announce(t) \/ BeginConfirm(t) \/ Confirm(t)
  \/ Resolve(t) \/ RecoverSilently(t) \/ EventRecorded(t)
  \/ Release(t) \/ Remind(t) \/ PassOver(t) \/ ReminderRecorded(t)
  \/ StoreFails(t)

Next == \E t \in Monitors : StartPoll(t) \/ Continue(t)

Spec == Init /\ [][Next]_vars

\* asyncio runs the ready callbacks in FIFO order, every check has a timeout
\* and every insert ends, so no task that can go on is passed over for ever.
FairSpec == Spec /\ \A t \in Monitors : SF_vars(StartPoll(t)) /\ SF_vars(Continue(t))

-----------------------------------------------------------------------------
\* The frames as the actions leave them, and those that wait for the call above
\* them to return.
SoundFrames ==
  {f \in Frames :
     /\ f.fn = "poll_once" /\ f.pc \in {"record", "return"} => f.res \in Results
     /\ f.fn = "on_transition" /\ f.pc \in {"confirm", "confirmed"}
          => Parents[f.m] # <<>> /\ (f.pc = "confirm" => f.i > 0)
     /\ f.fn = "release_children" /\ f.pc # "scan" => f.i \in 1..Len(Order)}

CallingFrames ==
  {f \in SoundFrames :
     /\ f.fn = "poll_once" => f.pc = "return"
     /\ f.fn = "on_transition" => f.pc = "confirm"
     /\ f.fn = "release_children" => f.pc = "repoll"}

TypeOK ==
  /\ mon \in [Monitors -> Monitor]
  /\ alertOpen \in [Monitors -> BOOLEAN]
  /\ stack \in [Monitors -> Seq(Frames)]
  /\ lockq \in [Monitors -> Seq(Monitors)]
  /\ semq \in Seq(Monitors)
  /\ cpu \in Monitors \union {None}
  /\ dead \in SUBSET Monitors
  /\ sent \in {None} \union {Alert(m, k, s) : m \in Monitors,
                              k \in States \ {"pending"}, s \in BOOLEAN}

Quiescent == \A t \in Monitors : stack[t] = <<>>

\* Task t is polling m: it has the lock and has not yet observed the result.
Polling(t, m) == (At(t, "poll_once", "probe") \/ At(t, "poll_once", "record"))
                 /\ Top(t).m = m

\* A monitor is never polled by two tasks at once, although its own loop, a
\* child confirming it and a recovering parent all poll it: so the results are
\* observed in the order they were probed and stored. (scheduler.py:71-75)
PollsSerialised ==
  \A t, u \in Monitors : \A m \in Monitors :
    Polling(t, m) /\ Polling(u, m) => t = u

\* The task that holds a lock is busy with that monitor's poll and nothing else:
\* it waits for the semaphore, its probe or the store, never for a second lock,
\* however deep confirmations and recoveries are nested. So locks cannot be
\* waited for in a circle. (scheduler.py:71-77: the lock is given up before
\* _on_transition is awaited)
HolderNeverWaits ==
  \A m \in Monitors :
    lockq[m] # <<>> =>
      LET h == Head(lockq[m])
      IN  /\ \/ At(h, "poll_once", "lock") \/ Polling(h, m)
          /\ Top(h).m = m

\* A monitor with no parents is alerted exactly while it is DOWN or WARN: its
\* alert is open whenever it has a problem and closed whenever it has none,
\* except for the instant in which its own task decides. (scheduler.py:114-129)
RootsAlertedExactly ==
  \A m \in Monitors :
    Parents[m] = <<>> =>
      \/ alertOpen[m] <=> mon[m].state \in Problem
      \/ /\ cpu # None /\ At(cpu, "on_transition", "decide")
         /\ Top(cpu).m = m

\* Nobody is left uninformed: when all is quiet, a problem that is not behind an
\* outage has been alerted, by its own transition or by a recovering parent.
\* README "Dependencies": "any still failing on their own are alerted then".
NoLostProblem ==
  Quiescent =>
    \A m \in Monitors : mon[m].state \in Problem => alertOpen[m] \/ Blocked(m)

\* Task t is in the `async with' of poll_once(m), or waits to enter it.
InLock(t, m) == /\ stack[t] # <<>> /\ Top(t).fn = "poll_once" /\ Top(t).pc # "return"
                /\ Top(t).m = m

\* The stacks are calls that wait for the call above them.
StacksSound ==
  \A t \in Monitors : stack[t] # <<>> => /\ Top(t) \in SoundFrames
                                        /\ Rest(t) \in Seq(CallingFrames)

\* A lock's queue lists, once each, the tasks whose innermost frame is in the
\* `async with' of that lock, and who probes or records is at its head.
LocksSound ==
  /\ \A t, m \in Monitors :
       /\ InLock(t, m) <=> \E i \in 1..Len(lockq[m]) : lockq[m][i] = t
       /\ Polling(t, m) => lockq[m][1] = t
  /\ \A m \in Monitors : \A i, j \in 1..Len(lockq[m]) :
       lockq[m][i] = lockq[m][j] => i = j

\* A decision about a transition is taken before anyone else runs, and about
\* the state the monitor is still in.
DecisionsSound ==
  \A t \in Monitors :
    At(t, "on_transition", "decide") => cpu = t /\ Top(t).to = mon[Top(t).m].state

\* The inductive invariant of Scheduler_proofs.
IInv == TypeOK /\ StacksSound /\ LocksSound /\ DecisionsSound /\ RootsAlertedExactly

\* Frame f, called by nobody or by what `above' is doing, will still look at m and
\* tell of its problem: m's own transition that is not decided yet, the recovery
\* of an ancestor on its way to _release_children, or _release_children that has
\* not come past m, or is past it only once the fresh poll says otherwise.
Owes(f, above, m) ==
  \/ /\ f.fn = "on_transition" /\ f.to \in Problem /\ f.pc # "event"
     /\ f.m = m
  \/ /\ f.fn = "on_transition" /\ f.to = "up"
     /\ f.m \in Ancestors(Parents, m)
  \/ /\ f.fn = "release_children" /\ f.m \in Ancestors(Parents, m)
     /\ \E j \in 1..Len(Order) :
          /\ Order[j] = m
          /\ \/ f.i < j
             \/ f.i = j /\ f.pc = "scan"
             \/ f.i = j /\ f.pc = "repoll" /\ ~ (above.pc = "return" /\ above.res = "ok")
             \/ f.i = j /\ f.pc = "polled" /\ f.res # "ok"

\* A frame of the stack s owes m a look. What is above s[1] is `above'.
OwedUnder(above, s, m) ==
  \/ s # <<>> /\ Owes(Head(s), above, m)
  \/ \E k \in 2..Len(s) : Owes(s[k], s[k - 1], m)

Owed(t, m) == OwedUnder(None, stack[t], m)

\* Every problem nobody has been told about is behind an outage or owed a look.
Informed ==
  \A m \in Monitors : Unreported(m) => Blocked(m) \/ \E t \in Monitors : Owed(t, m)

\* Who calls whom: confirmations and releases wait for a poll_once, a release for
\* that of the child it is looking at.
Called(above, f) ==
  /\ f.fn \in {"on_transition", "release_children"} => above.fn = "poll_once"
  /\ f.fn = "release_children" => above.m = Order[f.i]

CallsUnder(above, s) ==
  /\ s # <<>> => Called(above, Head(s))
  /\ \A k \in 2..Len(s) : Called(s[k - 1], s[k])

CallsSound == \A t \in Monitors : stack[t] # <<>> => CallsUnder(Top(t), Rest(t))

\* What is about to be observed is something the check can answer, and a check
\* that never answers WARN never makes its monitor WARN.
AnswersSound ==
  /\ \A t \in Monitors :
       At(t, "poll_once", "record") => Top(t).res \in Outcomes[Top(t).m]
  /\ \A m \in Monitors :
       "warn" \notin Outcomes[m] => mon[m].bad = mon[m].warnish /\ mon[m].state # "warn"

\* The inductive invariant for NoLostProblem.
DebtInv == IInv /\ CallsSound /\ AnswersSound /\ Informed

\* The promise to whoever is paged (module Pager).
PagerView == INSTANCE Pager WITH
  open    <- {m \in Monitors : alertOpen[m]},
  blocked <- {m \in Monitors : Blocked(m)}

KeepsPagerPromise == PagerView!Spec

\* Every poll that is started returns to its loop, with all the confirmations
\* and re-polls it sets off, even when other tasks die while they hold a lock.
EveryPollReturns == \A t \in Monitors : stack[t] # <<>> ~> stack[t] = <<>>
=============================================================================
