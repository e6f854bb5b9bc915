------------------------------- MODULE Service -------------------------------
(***************************************************************************)
(* The running service from start to exit (watchpost/__main__.py: _serve;  *)
(* watchpost/scheduler.py: _loop, poll_once, _on_transition,               *)
(* _confirm_parents, _release_children, _maintenance, start, stop): one    *)
(* task per monitor that polls it, and in the middle of its transitions    *)
(* other monitors too, stores and alerts; the maintenance task; deliveries *)
(* that nobody waits for; and a stop that cancels them all wherever they   *)
(* are.  Which results make a transition, and which relatives are polled   *)
(* then, is left open here (module Scheduler decides it); what is alerted  *)
(* is any announcement of the Pager.                                       *)
(***************************************************************************)
EXTENDS Alerter, Store

CONSTANTS maintenance,   \* the maintenance task
          Parents        \* depends_on of each monitor

ASSUME ServiceAssumption == /\ maintenance \notin Monitors
                            /\ Parents \in [Monitors -> SUBSET Monitors]

Tasks == Monitors \union {maintenance}

\* Scheduler._ancestors, and the descendants that _release_children goes through.
Ancestors[m \in Monitors] == Parents[m] \union UNION {Ancestors[p] : p \in Parents[m]}
Behind(m) == {c \in Monitors : m \in Ancestors[c]}

VARIABLES at,        \* the call each task is in
          outer,     \* the calls around it, outermost first
          told,      \* results the state machine of each monitor has observed
          changes,   \* events of each monitor: transitions and reminders
          phase,     \* running, stopping, closing, closed or exited
          cut        \* deliveries that the exit interrupted

taskVars == <<at, outer, told, changes, phase>>
serviceVars == <<alertVars, storeVars, taskVars, cut>>

\* What a call is doing, for which monitor, and the event it has to write:
\* recording a result; confirming the parents after a transition; eventing, that
\* is recording the event; releasing the descendants; still: recording a reminder.
\* The loop itself is idle, or over with what its last call had to write.
Call(doing, m, n) == [doing |-> doing, of |-> m, n |-> n]

\* Nothing is announced and no delivery moves.
Silent == sent' = None /\ UNCHANGED <<open, blocked, handed, pending, inbox, failures>>

NoAlert == Silent /\ UNCHANGED cut

Moves(x, call) == at' = [at EXCEPT ![x] = call] /\ UNCHANGED outer

-----------------------------------------------------------------------------
(* The task of a monitor *)

\* What a task polls next: its own monitor after the sleep, a parent before it
\* decides about an alert, a descendant after a recovery.
Polls(t) ==
  CASE at[t].doing = "idle"       -> {t}
    [] at[t].doing = "confirming" -> Parents[at[t].of]
    [] at[t].doing = "releasing"  -> Behind(at[t].of)
    [] OTHER                      -> {}

\* The lock of a monitor, from the probe to the state machine.
Locked(m) == \E t \in Monitors : at[t].doing = "recording" /\ at[t].of = m

\* The monitor was probed under its lock; its result goes to the store.
RecordResult(t) ==
  /\ phase = "running"
  /\ \E m \in Polls(t) :
       /\ ~ Locked(m)
       /\ Submit(t, Insert(Row("results", m, told[m] + 1)))
       /\ at' = [at EXCEPT ![t] = Call("recording", m, 0)]
       /\ outer' = [outer EXCEPT ![t] = Append(@, at[t])]
  /\ NoAlert
  /\ UNCHANGED <<told, changes, phase, txn, db, gone, closed>>

\* The poll is over and the call around it goes on.
Return(t) ==
  /\ at' = [at EXCEPT ![t] = Last(outer[t])]
  /\ outer' = [outer EXCEPT ![t] = Front(@)]
  /\ jobs' = Without(t)
  /\ NoAlert
  /\ UNCHANGED changes

\* The polled monitor is a descendant with a problem nobody knows of: a reminder.
Still(t) ==
  LET m == at[t].of
  IN  /\ Last(outer[t]).doing = "releasing"
      /\ HandOver(m)
      /\ changes' = [changes EXCEPT ![m] = @ + 1]
      /\ Submit(t, Insert(Row("events", m, changes[m] + 1)))
      /\ Moves(t, Call("still", m, changes[m] + 1))
      /\ UNCHANGED cut

\* An alert is handed over, or nobody is to know; event n of m goes to the store.
Decide(t, m, n) ==
  /\ HandOver(m) \/ Silent
  /\ Submit(t, Insert(Row("events", m, n)))
  /\ Moves(t, Call("eventing", m, n))
  /\ UNCHANGED cut

\* The row is in: the state machine observes the result. After a transition the
\* parents may have to be confirmed.
Observe(t) ==
  LET m == at[t].of
  IN  /\ phase = "running" /\ at[t].doing = "recording" /\ Outcome(t, "done")
      /\ told' = [told EXCEPT ![m] = @ + 1]
      /\ \/ Return(t) \/ Still(t)
         \/ /\ changes' = [changes EXCEPT ![m] = @ + 1]
            /\ \/ Decide(t, m, changes[m] + 1)
               \/ /\ Parents[m] # {}
                  /\ Moves(t, Call("confirming", m, changes[m] + 1))
                  /\ jobs' = Without(t)
                  /\ NoAlert
      /\ UNCHANGED <<phase, txn, db, gone, closed>>

\* The parents are known.
Confirmed(t) ==
  /\ phase = "running" /\ at[t].doing = "confirming"
  /\ Decide(t, at[t].of, at[t].n)
  /\ UNCHANGED <<told, changes, phase, txn, db, gone, closed>>

\* The event is in: a recovery releases the descendants, after a problem the poll
\* is over. After a reminder the next descendant follows.
EventStored(t) ==
  /\ phase = "running" /\ Outcome(t, "done")
  /\ \/ at[t].doing = "eventing" /\ (Return(t) \/ Still(t))
     \/ at[t].doing = "still" /\ Return(t)
     \/ /\ at[t].doing = "eventing" /\ Behind(at[t].of) # {}
        /\ Moves(t, Call("releasing", at[t].of, 0))
        /\ jobs' = Without(t)
        /\ NoAlert
        /\ UNCHANGED changes
  /\ UNCHANGED <<told, phase, txn, db, gone, closed>>

\* All descendants were polled, or passed over.
Released(t) ==
  /\ phase = "running" /\ at[t].doing = "releasing" /\ Return(t)
  /\ UNCHANGED <<told, phase, txn, db, gone, closed>>

\* An exception of the store goes through all calls of the task and ends the loop
\* for good, whichever monitor was polled; the maintenance logs it and goes on.
AfterError(x) == IF x = maintenance THEN Call("idle", x, 0) ELSE [at[x] EXCEPT !.doing = "over"]

StoreRaised(x) ==
  /\ phase = "running" /\ Outcome(x, "failed")
  /\ jobs' = Without(x)
  /\ Moves(x, AfterError(x))
  /\ NoAlert
  /\ UNCHANGED <<told, changes, phase, txn, db, gone, closed>>

\* _maintenance: prune deletes from the results, then from the events.
Prune ==
  /\ phase = "running"
  /\ \/ /\ at[maintenance].doing = "idle"
        /\ Submit(maintenance, Delete("results"))
        /\ Moves(maintenance, Call("results", maintenance, 0))
     \/ /\ at[maintenance].doing = "results" /\ Outcome(maintenance, "done")
        /\ Submit(maintenance, Delete("events"))
        /\ Moves(maintenance, Call("events", maintenance, 0))
     \/ /\ at[maintenance].doing = "events" /\ Outcome(maintenance, "done")
        /\ jobs' = Without(maintenance)
        /\ Moves(maintenance, Call("idle", maintenance, 0))
  /\ NoAlert
  /\ UNCHANGED <<told, changes, phase, txn, db, gone, closed>>

\* A worker thread goes on, whatever the tasks do.
Work(j) ==
  /\ Execute(j) \/ Commit(j)
  /\ NoAlert
  /\ UNCHANGED taskVars

\* A delivery goes on while the event loop runs.
Progress ==
  /\ phase \in {"running", "stopping"}
  /\ \E d \in pending : Deliver(d) \/ Fail(d) \/ WakeUp(d)
  /\ UNCHANGED <<storeVars, taskVars, cut>>

-----------------------------------------------------------------------------
(* Stopping *)

\* A signal, or the web server ended: stop() cancels every task.
Stop ==
  /\ phase = "running"
  /\ phase' = "stopping"
  /\ NoAlert
  /\ UNCHANGED <<storeVars, at, outer, told, changes>>

\* The await of a task raises CancelledError, also if what it awaited is ready.
Cancelled(x) ==
  /\ phase = "stopping" /\ at[x].doing # "over"
  /\ Abandon(x)
  /\ Moves(x, [at[x] EXCEPT !.doing = "over"])
  /\ NoAlert
  /\ UNCHANGED <<told, changes, phase, txn, db, gone, closed>>

\* stop() returned; the event loop waits in close() for the lock of the store.
StopReturns ==
  /\ phase = "stopping" /\ \A x \in Tasks : at[x].doing = "over"
  /\ phase' = "closing"
  /\ NoAlert
  /\ UNCHANGED <<storeVars, at, outer, told, changes>>

Close ==
  /\ phase = "closing" /\ CloseStore
  /\ phase' = "closed"
  /\ NoAlert
  /\ UNCHANGED <<at, outer, told, changes>>

\* asyncio.run cancels what is left: the deliveries, whether or not the target
\* had it already.
Cut(d) ==
  /\ phase = "closed" /\ d \in pending
  /\ pending' = pending \ {d}
  /\ cut' = cut \union {<<d.n, d.target>>}
  /\ \/ UNCHANGED inbox
     \/ d.pc = "sending" /\ inbox' = [inbox EXCEPT ![d.target] = Append(@, d.n)]
  /\ sent' = None
  /\ UNCHANGED <<open, blocked, handed, failures, storeVars, taskVars>>

\* The last thread of the executor has returned.
Exit ==
  /\ phase = "closed" /\ pending = {} /\ jobs = {}
  /\ phase' = "exited"
  /\ NoAlert
  /\ UNCHANGED <<storeVars, at, outer, told, changes>>

ServiceInit ==
  /\ AlertInit /\ StoreInit
  /\ at = [x \in Tasks |-> Call("idle", x, 0)] /\ outer = [m \in Monitors |-> <<>>]
  /\ told = [m \in Monitors |-> 0] /\ changes = [m \in Monitors |-> 0]
  /\ phase = "running" /\ cut = {}

Loop(t) ==
  RecordResult(t) \/ Observe(t) \/ Confirmed(t) \/ EventStored(t) \/ Released(t)

Ending == StopReturns \/ Close \/ Exit \/ (\E x \in Tasks : Cancelled(x)) \/ \E d \in pending : Cut(d)

ServiceNext ==
  \/ \E t \in Monitors : Loop(t)
  \/ \E x \in Tasks : StoreRaised(x)
  \/ Prune \/ Progress \/ Stop \/ Ending
  \/ \E j \in jobs : Work(j)

ServiceSpec == ServiceInit /\ [][ServiceNext]_serviceVars

-----------------------------------------------------------------------------
\* One row per poll: every result the state machine observed is in the database,
\* or was removed by retention; whatever is cancelled, raised or closed.
\* (scheduler.py:70-75, store.py:52-66)
ObservedIsStored ==
  \A m \in Monitors : \A n \in 1..told[m] : Row("results", m, n) \in db \union gone

\* A call of task t still has to write event n of m, or its loop ended first.
HasToWrite(t, m, n) ==
  \E c \in {at[t]} \union Range(outer[t]) : c.of = m /\ c.n = n

\* One row per event: one that is missing is held by the calls of a task, whether of
\* that monitor, a child or an ancestor, that is about to store it, or was when a
\* stop or an error of the store ended its loop; a loop that goes on loses none, and
\* one that ended loses no more than the calls it was in.
\* (scheduler.py:93-161, store.py:68-72)
TransitionsStored ==
  \A m \in Monitors : \A n \in 1..changes[m] :
    \/ Row("events", m, n) \in db \union gone
    \/ \E t \in Monitors : HasToWrite(t, m, n)

\* The connection is not closed between the execution of a statement and its
\* commit, cancelled or not. (store.py:52-57, 133-135)
CloseWaitsForCommit == closed => \A j \in jobs : j.pc # "running"

\* A target misses an alert it wanted only if two attempts failed or the exit cut
\* the delivery. (alerts.py:51-71, __main__.py:62-66)
MissedOnlyWhenCutOrFailed ==
  pending = {} =>
    \A n \in DOMAIN handed, x \in Targets :
      IF x \in Wanted[handed[n].m] /\ handed[n].kind \in NotifyOn[x]
      THEN \/ n \in Range(inbox[x])
           \/ Occurrences(n, failures[x]) = 2
           \/ <<n, x>> \in cut
      ELSE n \notin Range(inbox[x])

\* A stop ends in the exit of the process, whatever the tasks were doing.
\* (__main__.py:62-66, scheduler.py:203-206)
StopEnds == phase = "stopping" ~> phase = "exited"
=============================================================================
