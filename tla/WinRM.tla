-------------------------------- MODULE WinRM --------------------------------
(***************************************************************************)
(* WinRM and WMI calls (watchpost/checks/windows.py).  Each call is one    *)
(* blocking function run on a pool of threads; the coroutine that asked    *)
(* for it waits a limited time and then gives up, which takes back a call  *)
(* still in the queue and leaves a running one running.  Calls with a      *)
(* Kerberos account share one process-wide environment variable, and are   *)
(* serialised by _KRB_CALL_LOCK.                                           *)
(*                                                                         *)
(* Time is counted in units far longer than a timeout (hours): it passes   *)
(* while a call waits for the lock or talks to its host, and not between   *)
(* looking at the age of a ticket and connecting with it.                  *)
(***************************************************************************)
EXTENDS Naturals, Sequences, SequencesExt

CONSTANTS Monitors,   \* monitors of type winrm and wmi
          Threads,    \* the threads of WINRM_POOL (16 in the code)
          Accounts,   \* the pairs (principal, keytab)
          Account,    \* the account of each monitor; None: NTLM or certificate
          Paths,      \* names of ticket caches
          Cache,      \* _krb_ccache_path
          Ttl,        \* _KRB_TICKET_TTL
          Lifetime,   \* how long the domain accepts a ticket
          Boot,       \* what time.monotonic() shows when the service starts
          None

ASSUME WinRMAssumption ==
  /\ Account \in [Monitors -> Accounts \union {None}] /\ None \notin Accounts
  /\ Cache \in [Accounts -> Paths] /\ None \notin Paths
  /\ None \notin Threads /\ None \notin Monitors
  /\ Ttl \in Nat /\ Lifetime \in Nat /\ Boot \in Nat

VARIABLES
  now,        \* time.monotonic()
  lastKinit,  \* _krb_last_kinit; an account not in it reads as 0
  tickets,    \* the ticket in each cache file: whose, and obtained when
  env,        \* os.environ["KRB5CCNAME"]
  lock,       \* the thread that holds _KRB_CALL_LOCK
  waiting,    \* the monitors whose coroutine awaits an answer
  queue,      \* calls no thread has started, oldest first
  thread      \* what each thread does

krbVars == <<now, lastKinit, tickets, env, lock>>
vars == <<now, lastKinit, tickets, env, lock, waiting, queue, thread>>

Ticket(a, at) == [of |-> a, at |-> at]
NoTicket == Ticket(None, 0)

\* A thread: the monitor it calls, where it is in _run_ps_sync, and whether the
\* coroutine still waits for it.
Doing(m, pc, awaited) == [job |-> m, pc |-> pc, awaited |-> awaited]
Free == Doing(None, "free", FALSE)

\* Where _run_ps_sync is with the lock held (and where it is without the lock,
\* for the other transports: connect and talk).
Inside == {"kinit", "point", "connect", "talk"}

\* The account thread t calls with.
AccountOf(t) == IF thread[t].job = None THEN None ELSE Account[thread[t].job]

At(t, pc) == thread[t].pc = pc
Goto(t, pc) == thread' = [thread EXCEPT ![t].pc = pc]

-----------------------------------------------------------------------------
\* run_ps: the poll of a monitor hands its call to the pool. The scheduler
\* polls a monitor once at a time.
Call(m) ==
  /\ m \notin waiting
  /\ waiting' = waiting \union {m}
  /\ queue' = Append(queue, m)
  /\ UNCHANGED <<krbVars, thread>>

\* wait_for: the time is up. A queued call is cancelled; a thread that started
\* it goes on, for nobody.
GiveUp(m) ==
  /\ m \in waiting
  /\ waiting' = waiting \ {m}
  /\ \/ \E i \in DOMAIN queue :
          queue[i] = m /\ queue' = RemoveAt(queue, i) /\ UNCHANGED thread
     \/ /\ ~Contains(queue, m)
        /\ thread' = [t \in Threads |->
                        IF thread[t].job = m THEN [thread[t] EXCEPT !.awaited = FALSE]
                        ELSE thread[t]]
        /\ UNCHANGED queue
  /\ UNCHANGED krbVars

\* Faulty variant: Kerberos calls run in parallel like the others.
FirstStep_Unlocked(m) == IF Account[m] = None THEN "connect" ELSE "kinit"

\* _run_ps_sync: only a Kerberos call asks for the lock.
FirstStep(m) == IF Account[m] = None THEN "connect" ELSE "lock"

Take(t) ==
  /\ At(t, "free") /\ queue # <<>>
  /\ thread' = [thread EXCEPT ![t] = Doing(Head(queue), FirstStep(Head(queue)), TRUE)]
  /\ queue' = Tail(queue)
  /\ UNCHANGED <<krbVars, waiting>>

Lock(t) ==
  /\ At(t, "lock") /\ lock = None
  /\ lock' = t
  /\ Goto(t, "kinit")
  /\ UNCHANGED <<now, lastKinit, tickets, env, waiting, queue>>

\* Faulty variant: an exception leaves the lock taken.
Released_NotOnFailure(t) == IF lock = t /\ At(t, "talk") THEN None ELSE lock

\* The lock after thread t left its `with' block, if it was in it.
Released(t) == IF lock = t THEN None ELSE lock

\* The call returns or raises, and its coroutine goes on if it is still there.
Finish(t) ==
  /\ lock' = Released(t)
  /\ waiting' = IF thread[t].awaited THEN waiting \ {thread[t].job} ELSE waiting
  /\ thread' = [thread EXCEPT ![t] = Free]
  /\ UNCHANGED <<now, env, queue>>

\* Faulty variant: an account that ever had a ticket keeps it.
Fresh_Forever(a) == lastKinit[a] # 0

\* _kinit: the ticket is young enough. An account without a record counts as
\* one that got its ticket at time 0 of the monotonic clock.
Fresh(a) == now < lastKinit[a] + Ttl

TicketsAfter(a) == [tickets EXCEPT ![Cache[a]] = Ticket(a, now)]

\* _kinit: nothing to do, a new ticket, or KerberosError (no keytab, kinit
\* failed or timed out), which leaves the record as it was.
Kinit(t) ==
  LET a == AccountOf(t)
  IN  /\ At(t, "kinit")
      /\ \/ /\ Fresh(a)
            /\ Goto(t, "point")
            /\ UNCHANGED <<krbVars, waiting, queue>>
         \/ /\ ~Fresh(a)
            /\ tickets' = TicketsAfter(a)
            /\ lastKinit' = [lastKinit EXCEPT ![a] = now]
            /\ Goto(t, "point")
            /\ UNCHANGED <<now, env, lock, waiting, queue>>
         \/ /\ ~Fresh(a)
            /\ Finish(t)
            /\ UNCHANGED <<lastKinit, tickets>>

\* _session: the environment variable names the cache of this account.
Point(t) ==
  /\ At(t, "point")
  /\ env' = Cache[AccountOf(t)]
  /\ Goto(t, "connect")
  /\ UNCHANGED <<now, lastKinit, tickets, lock, waiting, queue>>

\* run_ps connects, reading the variable and the ticket in the case of
\* Kerberos, or is refused.
Connect(t) ==
  /\ At(t, "connect")
  /\ \/ Goto(t, "talk") /\ UNCHANGED <<krbVars, waiting, queue>>
     \/ Finish(t) /\ UNCHANGED <<lastKinit, tickets>>

\* The host answers, or the call fails.
Talk(t) == At(t, "talk") /\ Finish(t) /\ UNCHANGED <<lastKinit, tickets>>

Tick ==
  /\ \A t \in Threads : ~At(t, "point") /\ ~At(t, "connect")
  /\ now' = now + 1
  /\ UNCHANGED <<lastKinit, tickets, env, lock, waiting, queue, thread>>

Init ==
  /\ now = Boot
  /\ lastKinit = [a \in Accounts |-> 0]
  /\ tickets = [p \in Paths |-> NoTicket]
  /\ env = None /\ lock = None
  /\ waiting = {} /\ queue = <<>>
  /\ thread = [t \in Threads |-> Free]

Step(t) == Take(t) \/ Lock(t) \/ Kinit(t) \/ Point(t) \/ Connect(t) \/ Talk(t)

Next == \/ \E m \in Monitors : Call(m) \/ GiveUp(m)
        \/ \E t \in Threads : Step(t)
        \/ Tick

Spec == Init /\ [][Next]_vars

\* A thread goes on in the end: kinit and the requests to a host have timeouts of
\* their own, and a free lock is given to a thread that waits. No coroutine has to
\* give up.
Fairness == \A t \in Threads : WF_vars(Step(t))

-----------------------------------------------------------------------------
TypeOK ==
  /\ now \in Nat
  /\ lastKinit \in [Accounts -> Nat]
  /\ tickets \in [Paths -> [of : Accounts \union {None}, at : Nat]]
  /\ env \in Paths \union {None}
  /\ lock \in Threads \union {None}
  /\ waiting \subseteq Monitors
  /\ queue \in Seq(Monitors)
  /\ thread \in [Threads -> [job : Monitors \union {None},
                             pc : {"free", "lock"} \union Inside,
                             awaited : BOOLEAN]]

\* Thread t is in the `with _KRB_CALL_LOCK' block.
InBlock(t) == thread[t].pc \in Inside /\ AccountOf(t) # None

\* The lock is held exactly by the one thread that is in the block, whatever
\* became of the coroutines: a failed kinit, a refused connection and a caller
\* that gave up all leave it free in the end. (windows.py:129-133, 139-153)
LockIsHeldByWorker == \A t \in Threads : lock = t <=> InBlock(t)

\* A Kerberos call talks to its host as the account of its monitor: nothing
\* repoints KRB5CCNAME from before it connects until it is done, not even a
\* call that was given up long ago. (windows.py:62-68, 118-120)
OwnPrincipal ==
  \A t \in Threads :
    AccountOf(t) # None /\ thread[t].pc \in {"connect", "talk"} => env = Cache[AccountOf(t)]

\* A Kerberos call connects with a ticket of its own account that the domain
\* still accepts. _kinit: "Ensure a fresh Kerberos ticket for principal
\* exists". (windows.py:76-98)
FreshTicket ==
  \A t \in Threads :
    AccountOf(t) # None /\ At(t, "connect") =>
      LET ticket == tickets[Cache[AccountOf(t)]]
      IN  ticket.of = AccountOf(t) /\ now < ticket.at + Lifetime

\* However long the Kerberos calls wait for one another, and although calls that were
\* given up keep their threads, a call that nobody gives up does not stay in the queue
\* for ever: it is started. (windows.py:31-34, 67-68, 139-142)
EveryCallIsTaken ==
  \A m \in Monitors : Contains(queue, m) ~> ~Contains(queue, m)
=============================================================================
