----------------------------- MODULE WinRM_proofs -----------------------------
(***************************************************************************)
(* For every pool, every set of monitors and accounts: Kerberos calls      *)
(* exclude each other and connect as the account of their monitor; and, on *)
(* a host that has been up for at least the time a ticket is kept, with a  *)
(* ticket that is still accepted.                                          *)
(***************************************************************************)
EXTENDS WinRM, SequenceTheorems, TLAPS

\* A thread that does nothing has no monitor, and every other has one; only calls
\* with an account take the way through the lock.
JobsSound ==
  \A t \in Threads :
    /\ thread[t].job = None <=> At(t, "free")
    /\ thread[t].pc \in {"lock", "kinit", "point"} => AccountOf(t) # None

Safe == TypeOK /\ JobsSound /\ LockIsHeldByWorker /\ OwnPrincipal

-----------------------------------------------------------------------------
LEMMA TailType ==
  ASSUME NEW S, NEW s \in Seq(S), s # <<>>
  PROVE  Head(s) \in S /\ Tail(s) \in Seq(S)
BY HeadTailProperties

LEMMA RemoveAtType ==
  ASSUME NEW S, NEW s \in Seq(S), NEW i \in DOMAIN s
  PROVE  RemoveAt(s, i) \in Seq(S)
<1>1. i \in 1..Len(s) /\ Len(s) \in Nat /\ \A j \in 1..Len(s) : s[j] \in S
  BY LenProperties, ElementOfSeq
<1>2. SubSeq(s, 1, i - 1) \in Seq(S)
  <2>1. \A j \in 1..(i - 1) : s[j] \in S
    BY <1>1
  <2> QED
    BY <1>1, <2>1, SubSeqProperties
<1>3. SubSeq(s, i + 1, Len(s)) \in Seq(S)
  <2>1. \A j \in (i + 1)..Len(s) : s[j] \in S
    BY <1>1
  <2> QED
    BY <1>1, <2>1, SubSeqProperties
<1> QED
  BY <1>2, <1>3, ConcatProperties DEF RemoveAt

-----------------------------------------------------------------------------
LEMMA InitSafe == Init => Safe
BY WinRMAssumption, EmptySeq
   DEF Init, Safe, TypeOK, JobsSound, LockIsHeldByWorker, OwnPrincipal, InBlock, AccountOf,
       At, Free, Doing, NoTicket, Ticket, Inside

\* The types of the thread records.
ThreadType ==
  thread \in [Threads -> [job : Monitors \union {None}, pc : {"free", "lock"} \union Inside,
                          awaited : BOOLEAN]]

\* Thread t becomes r, and every other thread stays what it is.
Becomes(t, r) ==
  /\ thread'[t] = r
  /\ \A u \in Threads \ {t} : thread'[u] = thread[u]

LEMMA BecomesType ==
  ASSUME ThreadType, NEW t \in Threads, NEW r, thread' = [thread EXCEPT ![t] = r]
  PROVE  /\ Becomes(t, r)
         /\ r \in [job : Monitors \union {None}, pc : {"free", "lock"} \union Inside,
                    awaited : BOOLEAN] => ThreadType'
BY DEF ThreadType, Becomes

LEMMA GotoBecomes ==
  ASSUME ThreadType, NEW t \in Threads, NEW pc \in {"free", "lock"} \union Inside, Goto(t, pc)
  PROVE  /\ ThreadType'
         /\ Becomes(t, [job |-> thread[t].job, pc |-> pc, awaited |-> thread[t].awaited])
<1> DEFINE r == [job |-> thread[t].job, pc |-> pc, awaited |-> thread[t].awaited]
<1>1. thread[t] \in [job : Monitors \union {None}, pc : {"free", "lock"} \union Inside,
                     awaited : BOOLEAN]
  BY DEF ThreadType
<1>2. thread' = [thread EXCEPT ![t] = [thread[t] EXCEPT !.pc = pc]]
  BY DEF Goto
<1>3. [thread[t] EXCEPT !.pc = pc] = r
  BY <1>1
<1>4. r \in [job : Monitors \union {None}, pc : {"free", "lock"} \union Inside,
             awaited : BOOLEAN]
  BY <1>1
<1>5. thread' = [thread EXCEPT ![t] = r]
  BY <1>2, <1>3
<1> HIDE DEF r
<1>6. Becomes(t, r) /\ ThreadType'
  BY <1>4, <1>5, BecomesType
<1> QED
  BY <1>6 DEF r

LEMMA FinishBecomes ==
  ASSUME ThreadType, NEW t \in Threads, Finish(t)
  PROVE  /\ ThreadType'
         /\ Becomes(t, [job |-> None, pc |-> "free", awaited |-> FALSE])
<1> DEFINE r == [job |-> None, pc |-> "free", awaited |-> FALSE]
<1>1. r \in [job : Monitors \union {None}, pc : {"free", "lock"} \union Inside,
             awaited : BOOLEAN]
  OBVIOUS
<1>2. thread' = [thread EXCEPT ![t] = r]
  BY DEF Finish, Free, Doing
<1> HIDE DEF r
<1>3. Becomes(t, r) /\ ThreadType'
  BY <1>1, <1>2, BecomesType
<1> QED
  BY <1>3 DEF r

\* The account of a record of thread.
OfRecord(r) == IF r.job = None THEN None ELSE Account[r.job]

\* The records a thread can have.
SoundRecord(r) ==
  /\ r \in [job : Monitors \union {None}, pc : {"free", "lock"} \union Inside, awaited : BOOLEAN]
  /\ r.job = None <=> r.pc = "free"
  /\ r.pc \in {"lock", "kinit", "point"} => OfRecord(r) # None

\* One thread changes its record, and with it the lock and the variable.
LEMMA RoleChange ==
  ASSUME Safe, NEW t \in Threads, NEW r, Becomes(t, r), SoundRecord(r),
         lock' = t <=> r.pc \in Inside /\ OfRecord(r) # None,
         \A u \in Threads \ {t} : lock' = u <=> lock = u,
         OfRecord(r) # None /\ r.pc \in {"connect", "talk"} => env' = Cache[OfRecord(r)],
         env' = env \/ InBlock(t)
  PROVE  JobsSound' /\ LockIsHeldByWorker' /\ OwnPrincipal'
<1>1. JobsSound'
  BY DEF Safe, JobsSound, SoundRecord, Becomes, At, OfRecord, AccountOf
<1>2. InBlock(t)' <=> lock' = t
  BY DEF InBlock, AccountOf, OfRecord, Becomes
<1>3. \A u \in Threads \ {t} : AccountOf(u)' = AccountOf(u) /\ InBlock(u)' = InBlock(u)
  BY DEF InBlock, AccountOf, Becomes
<1>4. LockIsHeldByWorker'
  BY <1>2, <1>3 DEF Safe, LockIsHeldByWorker
<1>5. AccountOf(t)' = OfRecord(r) /\ thread'[t].pc = r.pc
  BY DEF AccountOf, OfRecord, Becomes
<1>6. ASSUME NEW u \in Threads \ {t}, AccountOf(u)' # None, thread'[u].pc \in {"connect", "talk"}
      PROVE  env' = Cache[AccountOf(u)']
  <2>1. AccountOf(u) # None /\ thread[u].pc \in {"connect", "talk"}
    BY <1>3, <1>6 DEF Becomes
  <2>2. InBlock(u) /\ env = Cache[AccountOf(u)]
    BY <2>1 DEF Safe, OwnPrincipal, InBlock, Inside
  <2>3. ~InBlock(t)
    BY <2>2 DEF Safe, LockIsHeldByWorker
  <2> QED
    BY <1>3, <2>2, <2>3
<1>7. OwnPrincipal'
  BY <1>5, <1>6 DEF OwnPrincipal
<1> QED
  BY <1>1, <1>4, <1>7

\* What LockIsHeldByWorker and OwnPrincipal read of a thread.
SameRole(t) == thread'[t].job = thread[t].job /\ thread'[t].pc = thread[t].pc

LEMMA StepSafe == Safe /\ [Next]_vars => Safe'
<1> SUFFICES ASSUME Safe, [Next]_vars PROVE Safe'
  OBVIOUS
<1>t. /\ ThreadType /\ queue \in Seq(Monitors) /\ waiting \subseteq Monitors
      /\ \A t \in Threads : SoundRecord(thread[t])
  <2>1. ThreadType /\ queue \in Seq(Monitors) /\ waiting \subseteq Monitors
    BY DEF Safe, TypeOK, ThreadType
  <2>2. ASSUME NEW t \in Threads PROVE SoundRecord(thread[t])
    BY <2>1 DEF Safe, JobsSound, At, AccountOf, SoundRecord, OfRecord, ThreadType
  <2> QED
    BY <2>1, <2>2
<1>g. ASSUME ThreadType', queue' \in Seq(Monitors), waiting' \subseteq Monitors,
             \A t \in Threads : SameRole(t), UNCHANGED krbVars
      PROVE  Safe'
  <2>1. TypeOK'
    BY <1>g DEF Safe, TypeOK, ThreadType, krbVars
  <2>2. \A t \in Threads : AccountOf(t)' = AccountOf(t) /\ thread'[t].pc = thread[t].pc
    BY <1>g DEF AccountOf, SameRole
  <2>3. JobsSound'
    BY <1>g, <2>2 DEF Safe, JobsSound, At, SameRole
  <2>4. LockIsHeldByWorker' /\ OwnPrincipal'
    BY <1>g, <2>2 DEF Safe, LockIsHeldByWorker, OwnPrincipal, InBlock, krbVars
  <2> QED
    BY <2>1, <2>3, <2>4 DEF Safe
<1>1. ASSUME NEW m \in Monitors, Call(m) PROVE Safe'
  <2>1. queue' \in Seq(Monitors)
    BY <1>t, <1>1, AppendProperties DEF Call
  <2>2. waiting' \subseteq Monitors /\ UNCHANGED krbVars /\ thread' = thread
    BY <1>t, <1>1 DEF Call
  <2>3. ThreadType' /\ \A t \in Threads : SameRole(t)
    BY <1>t, <2>2 DEF ThreadType, SameRole
  <2> QED
    BY <1>g, <2>1, <2>2, <2>3
<1>2. ASSUME NEW m \in Monitors, GiveUp(m) PROVE Safe'
  <2>0. waiting' \subseteq Monitors /\ UNCHANGED krbVars
    BY <1>t, <1>2 DEF GiveUp
  <2>1. CASE \E i \in DOMAIN queue : queue' = RemoveAt(queue, i) /\ UNCHANGED thread
    <3>1. queue' \in Seq(Monitors)
      BY <1>t, <2>1, RemoveAtType
    <3>2. ThreadType' /\ \A t \in Threads : SameRole(t)
      BY <1>t, <2>1 DEF ThreadType, SameRole
    <3> QED
      BY <1>g, <2>0, <3>1, <3>2
  <2>2. CASE /\ thread' = [t \in Threads |->
                             IF thread[t].job = m THEN [thread[t] EXCEPT !.awaited = FALSE]
                             ELSE thread[t]]
             /\ UNCHANGED queue
    <3>1. \A t \in Threads :
            thread'[t] = IF thread[t].job = m THEN [thread[t] EXCEPT !.awaited = FALSE]
                         ELSE thread[t]
      BY <2>2
    <3>2. \A t \in Threads : SameRole(t) /\ SoundRecord(thread'[t])
      BY <1>t, <3>1 DEF ThreadType, SameRole, SoundRecord, OfRecord
    <3>3. ThreadType'
      BY <2>2, <3>2 DEF ThreadType, SoundRecord
    <3> QED
      BY <1>g, <1>t, <2>0, <2>2, <3>2, <3>3
  <2> QED
    BY <1>2, <2>1, <2>2 DEF GiveUp
<1>3. ASSUME NEW t \in Threads, Take(t) PROVE Safe'
  <2> DEFINE m == Head(queue)
             r == [job |-> m, pc |-> FirstStep(m), awaited |-> TRUE]
  <2>1. m \in Monitors /\ queue' \in Seq(Monitors)
    BY <1>t, <1>3, TailType DEF Take
  <2>2. SoundRecord(r) /\ r.pc \in {"connect", "lock"} /\ (r.pc = "connect" <=> OfRecord(r) = None)
    BY <2>1, WinRMAssumption DEF FirstStep, SoundRecord, OfRecord, Inside
  <2>3. UNCHANGED <<krbVars, waiting>> /\ At(t, "free") /\ thread' = [thread EXCEPT ![t] = r]
    BY <1>3 DEF Take, Doing
  <2> HIDE DEF r
  <2>4. ThreadType' /\ Becomes(t, r)
    BY <1>t, <2>2, <2>3, BecomesType DEF SoundRecord
  <2>5. TypeOK'
    BY <2>1, <2>3, <2>4 DEF Safe, TypeOK, ThreadType, krbVars
  <2>6. lock # t
    BY <2>3 DEF Safe, LockIsHeldByWorker, InBlock, At, Inside
  <2>7. JobsSound' /\ LockIsHeldByWorker' /\ OwnPrincipal'
    BY <2>2, <2>3, <2>4, <2>6, RoleChange DEF krbVars, Inside
  <2> QED
    BY <2>5, <2>7 DEF Safe
<1>m. ASSUME NEW t \in Threads, NEW pc \in Inside, Goto(t, pc), ~At(t, "free")
      PROVE  \E r : /\ ThreadType' /\ Becomes(t, r) /\ r.pc = pc /\ OfRecord(r) = AccountOf(t)
                    /\ (pc \in {"kinit", "point"} => AccountOf(t) # None) => SoundRecord(r)
  <2> DEFINE r == [job |-> thread[t].job, pc |-> pc, awaited |-> thread[t].awaited]
  <2>1. ThreadType' /\ Becomes(t, r)
    BY <1>t, <1>m, GotoBecomes
  <2>2. r.pc = pc /\ OfRecord(r) = AccountOf(t)
    BY DEF OfRecord, AccountOf
  <2>3. SoundRecord(thread[t])
    BY <1>t
  <2>4. (pc \in {"kinit", "point"} => AccountOf(t) # None) => SoundRecord(r)
    BY <1>m, <2>2, <2>3 DEF SoundRecord, At, Inside
  <2> QED
    BY <2>1, <2>2, <2>4
<1>4. ASSUME NEW t \in Threads, Lock(t) PROVE Safe'
  <2>1. AccountOf(t) # None /\ "kinit" \in Inside /\ ~At(t, "free")
    BY <1>4 DEF Safe, JobsSound, Lock, At, Inside
  <2>2. PICK r : /\ ThreadType' /\ Becomes(t, r) /\ r.pc = "kinit" /\ OfRecord(r) = AccountOf(t)
                 /\ SoundRecord(r)
    BY <1>4, <1>m, <2>1 DEF Lock
  <2>3. TypeOK'
    BY <1>4, <2>2 DEF Lock, Safe, TypeOK, ThreadType
  <2>4. JobsSound' /\ LockIsHeldByWorker' /\ OwnPrincipal'
    BY <1>4, <2>1, <2>2, RoleChange, WinRMAssumption DEF Lock
  <2> QED
    BY <2>3, <2>4 DEF Safe
<1>5. ASSUME NEW t \in Threads, Finish(t), UNCHANGED <<lastKinit, tickets>> PROVE Safe'
  <2> DEFINE r == [job |-> None, pc |-> "free", awaited |-> FALSE]
  <2>1. ThreadType' /\ Becomes(t, r)
    BY <1>t, <1>5, FinishBecomes
  <2>2. /\ lock' = Released(t) /\ waiting' \subseteq Monitors /\ UNCHANGED <<now, env, queue>>
    BY <1>t, <1>5 DEF Finish
  <2>3. SoundRecord(r) /\ r.pc \notin Inside /\ OfRecord(r) = None
    BY DEF SoundRecord, OfRecord, Inside
  <2>4. lock' # t /\ \A u \in Threads \ {t} : lock' = u <=> lock = u
    BY <2>2, WinRMAssumption DEF Released
  <2>5. TypeOK'
    BY <1>5, <2>1, <2>2 DEF Released, Safe, TypeOK, ThreadType
  <2> HIDE DEF r
  <2>6. JobsSound' /\ LockIsHeldByWorker' /\ OwnPrincipal'
    BY <2>1, <2>2, <2>3, <2>4, RoleChange
  <2> QED
    BY <2>5, <2>6 DEF Safe
<1>6. ASSUME NEW t \in Threads, Kinit(t) PROVE Safe'
  <2> DEFINE a == AccountOf(t)
  <2>1. At(t, "kinit") /\ a # None /\ "point" \in Inside /\ InBlock(t) /\ ~At(t, "free")
    BY <1>6 DEF Kinit, Safe, JobsSound, At, Inside, InBlock
  <2>2. a \in Accounts /\ Cache[a] \in Paths /\ lock = t
    BY <1>t, <2>1, WinRMAssumption DEF AccountOf, ThreadType, Safe, LockIsHeldByWorker
  <2>3. CASE Finish(t) /\ UNCHANGED <<lastKinit, tickets>>
    BY <1>5, <2>3
  <2>4. ASSUME Goto(t, "point"), UNCHANGED <<now, env, lock, waiting, queue>>,
               lastKinit' \in [Accounts -> Nat],
               tickets' \in [Paths -> [of : Accounts \union {None}, at : Nat]]
        PROVE  Safe'
    <3>1. PICK r : /\ ThreadType' /\ Becomes(t, r) /\ r.pc = "point" /\ OfRecord(r) = AccountOf(t)
                   /\ SoundRecord(r)
      BY <1>m, <2>1, <2>4
    <3>2. TypeOK'
      BY <2>4, <3>1 DEF Safe, TypeOK, ThreadType
    <3>3. JobsSound' /\ LockIsHeldByWorker' /\ OwnPrincipal'
      BY <2>1, <2>2, <2>4, <3>1, RoleChange
    <3> QED
      BY <3>2, <3>3 DEF Safe
  <2>5. CASE Goto(t, "point") /\ UNCHANGED <<krbVars, waiting, queue>>
    BY <2>4, <2>5 DEF krbVars, Safe, TypeOK
  <2>6. CASE /\ tickets' = TicketsAfter(a)
             /\ lastKinit' = [lastKinit EXCEPT ![a] = now]
             /\ Goto(t, "point")
             /\ UNCHANGED <<now, env, lock, waiting, queue>>
    <3>1. Ticket(a, now) \in [of : Accounts \union {None}, at : Nat]
      BY <2>2 DEF Ticket, Safe, TypeOK
    <3>2. /\ tickets' \in [Paths -> [of : Accounts \union {None}, at : Nat]]
          /\ lastKinit' \in [Accounts -> Nat]
      BY <2>2, <2>6, <3>1 DEF TicketsAfter, Safe, TypeOK
    <3> QED
      BY <2>4, <2>6, <3>2
  <2> QED
    BY <1>6, <2>3, <2>5, <2>6 DEF Kinit
<1>7. ASSUME NEW t \in Threads, Point(t) PROVE Safe'
  <2>1. At(t, "point") /\ AccountOf(t) # None /\ "connect" \in Inside /\ InBlock(t) /\ ~At(t, "free")
    BY <1>7 DEF Point, Safe, JobsSound, At, Inside, InBlock
  <2>2. env' \in Paths /\ lock = t
    BY <1>t, <1>7, <2>1, WinRMAssumption DEF Point, AccountOf, ThreadType, Safe, LockIsHeldByWorker
  <2>3. PICK r : /\ ThreadType' /\ Becomes(t, r) /\ r.pc = "connect" /\ OfRecord(r) = AccountOf(t)
                 /\ SoundRecord(r)
    BY <1>7, <1>m, <2>1 DEF Point
  <2>4. TypeOK'
    BY <1>7, <2>2, <2>3 DEF Point, Safe, TypeOK, ThreadType
  <2>5. JobsSound' /\ LockIsHeldByWorker' /\ OwnPrincipal'
    BY <1>7, <2>1, <2>2, <2>3, RoleChange DEF Point
  <2> QED
    BY <2>4, <2>5 DEF Safe
<1>8. ASSUME NEW t \in Threads, Connect(t) PROVE Safe'
  <2>1. CASE Goto(t, "talk") /\ UNCHANGED <<krbVars, waiting, queue>>
    <3>1. At(t, "connect") /\ "talk" \in Inside /\ ~At(t, "free") /\ "connect" \in Inside
      BY <1>8 DEF Connect, At, Inside
    <3>2. PICK r : /\ ThreadType' /\ Becomes(t, r) /\ r.pc = "talk" /\ OfRecord(r) = AccountOf(t)
                   /\ SoundRecord(r)
      BY <1>m, <2>1, <3>1
    <3>3. TypeOK'
      BY <2>1, <3>2 DEF krbVars, Safe, TypeOK, ThreadType
    <3>4. /\ lock = t <=> AccountOf(t) # None
          /\ AccountOf(t) # None => env = Cache[AccountOf(t)]
      BY <3>1 DEF Safe, LockIsHeldByWorker, OwnPrincipal, InBlock, At
    <3>5. JobsSound' /\ LockIsHeldByWorker' /\ OwnPrincipal'
      BY <2>1, <3>1, <3>2, <3>4, RoleChange DEF krbVars
    <3> QED
      BY <3>3, <3>5 DEF Safe
  <2>2. CASE Finish(t) /\ UNCHANGED <<lastKinit, tickets>>
    BY <1>5, <2>2
  <2> QED
    BY <1>8, <2>1, <2>2 DEF Connect
<1>9. ASSUME NEW t \in Threads, Talk(t) PROVE Safe'
  BY <1>5, <1>9 DEF Talk
<1>10. CASE Tick
  <2>1. TypeOK'
    BY <1>10 DEF Tick, Safe, TypeOK
  <2>2. JobsSound' /\ LockIsHeldByWorker' /\ OwnPrincipal'
    BY <1>10 DEF Tick, Safe, JobsSound, LockIsHeldByWorker, OwnPrincipal, InBlock, AccountOf, At
  <2> QED
    BY <2>1, <2>2 DEF Safe
<1>11. CASE UNCHANGED vars
  BY <1>11 DEF vars, Safe, TypeOK, JobsSound, LockIsHeldByWorker, OwnPrincipal, InBlock, AccountOf, At
<1> QED
  BY <1>1, <1>2, <1>3, <1>4, <1>6, <1>7, <1>8, <1>9, <1>10, <1>11 DEF Next, Step

\* Safety of the lock and of the environment variable in every behaviour: the
\* types, one holder that always works for it, and calls that reach their host
\* as the account of their monitor. (windows.py:59-156)
THEOREM KerberosSafe == Spec => [](TypeOK /\ LockIsHeldByWorker /\ OwnPrincipal)
<1>1. Safe => TypeOK /\ LockIsHeldByWorker /\ OwnPrincipal
  BY DEF Safe
<1> QED
  BY InitSafe, StepSafe, <1>1, PTL DEF Spec

-----------------------------------------------------------------------------
(* Tickets *)

\* What the configuration and the host have to grant: every account has a cache
\* file of its own, the service keeps tickets no longer than the domain does,
\* and the host is up for that long when the service starts.
TicketAssumption ==
  /\ \A a, b \in Accounts : Cache[a] = Cache[b] => a = b
  /\ Ttl <= Lifetime /\ 0 < Lifetime
  /\ Ttl <= Boot

\* What the service believes of a ticket is so.
RecordsSound ==
  /\ Boot <= now
  /\ \A a \in Accounts : lastKinit[a] # 0 => tickets[Cache[a]] = Ticket(a, lastKinit[a])

\* The ticket of a thread that is about to use it.
ReadyToUse ==
  \A t \in Threads :
    AccountOf(t) # None /\ (At(t, "point") \/ At(t, "connect")) =>
      LET ticket == tickets[Cache[AccountOf(t)]]
      IN  ticket.of = AccountOf(t) /\ now < ticket.at + Lifetime

TicketInv == Safe /\ RecordsSound /\ ReadyToUse

\* Thread t has, or is about to have, a ticket in use.
Using(t) == AccountOf(t) # None /\ thread[t].pc \in {"point", "connect"}

\* The ticket in the cache of account a serves it now.
Serves(a) == tickets[Cache[a]].of = a /\ now < tickets[Cache[a]].at + Lifetime

LEMMA StepTickets ==
  ASSUME TicketAssumption, TicketInv, Safe', [Next]_vars
  PROVE  RecordsSound' /\ ReadyToUse'
<1>i. ReadyToUse <=> \A t \in Threads : Using(t) => Serves(AccountOf(t))
  BY DEF ReadyToUse, Using, Serves, At
<1>j. ReadyToUse' <=> \A t \in Threads : Using(t)' => Serves(AccountOf(t))'
  BY DEF ReadyToUse, Using, Serves, At
<1>x. \A t, u \in Threads : InBlock(t) /\ Using(u) => u = t
  BY DEF TicketInv, Safe, LockIsHeldByWorker, InBlock, Using, Inside
<1>f. ASSUME UNCHANGED <<now, lastKinit, tickets>>,
             \A u \in Threads : Using(u)' => Using(u) /\ AccountOf(u)' = AccountOf(u)
      PROVE  RecordsSound' /\ ReadyToUse'
  <2>1. RecordsSound'
    BY <1>f DEF TicketInv, RecordsSound
  <2>2. \A a \in Accounts : Serves(a)' <=> Serves(a)
    BY <1>f DEF Serves
  <2>3. ASSUME NEW u \in Threads, Using(u)' PROVE Serves(AccountOf(u))'
    BY <1>f, <1>i, <2>3 DEF TicketInv, Serves
  <2> QED
    BY <1>j, <2>1, <2>3
<1>2. ASSUME NEW m \in Monitors, Call(m) \/ GiveUp(m) PROVE RecordsSound' /\ ReadyToUse'
  <2>1. UNCHANGED <<now, lastKinit, tickets>>
    BY <1>2 DEF Call, GiveUp, krbVars
  <2>2. \A t \in Threads : thread'[t].job = thread[t].job /\ thread'[t].pc = thread[t].pc
    <3>1. CASE UNCHANGED thread
      BY <3>1
    <3>2. CASE thread' = [t \in Threads |->
                            IF thread[t].job = m THEN [thread[t] EXCEPT !.awaited = FALSE]
                            ELSE thread[t]]
      BY <3>2 DEF TicketInv, Safe, TypeOK
    <3> QED
      BY <1>2, <3>1, <3>2 DEF Call, GiveUp
  <2> QED
    BY <1>f, <2>1, <2>2 DEF Using, AccountOf
<1>3. ASSUME NEW t \in Threads, Take(t) PROVE RecordsSound' /\ ReadyToUse'
  <2> DEFINE m == Head(queue)
  <2>1. m \in Monitors
    BY <1>3, TailType DEF Take, TicketInv, Safe, TypeOK
  <2>2. /\ thread'[t].job = m /\ thread'[t].pc = FirstStep(m)
        /\ \A u \in Threads \ {t} : thread'[u] = thread[u]
    <3> DEFINE r == [job |-> m, pc |-> FirstStep(m), awaited |-> TRUE]
    <3>1. thread' = [thread EXCEPT ![t] = r] /\ ThreadType
      BY <1>3 DEF Take, Doing, TicketInv, Safe, TypeOK, ThreadType
    <3>2. r.job = m /\ r.pc = FirstStep(m)
      OBVIOUS
    <3> HIDE DEF r
    <3>3. Becomes(t, r)
      BY <3>1, BecomesType
    <3> QED
      BY <3>2, <3>3 DEF Becomes
  <2>3. ~Using(t)'
    BY <2>1, <2>2, WinRMAssumption DEF Using, AccountOf, FirstStep
  <2> QED
    <3>1. UNCHANGED <<now, lastKinit, tickets>>
      BY <1>3 DEF Take, krbVars
    <3>2. \A u \in Threads : Using(u)' => Using(u) /\ AccountOf(u)' = AccountOf(u)
      BY <2>2, <2>3 DEF Using, AccountOf
    <3> QED
      BY <1>f, <3>1, <3>2
<1>s. ASSUME NEW t \in Threads, NEW pc, Goto(t, pc)
      PROVE  /\ thread'[t].job = thread[t].job /\ thread'[t].pc = pc
             /\ \A u \in Threads \ {t} : thread'[u] = thread[u]
  BY <1>s DEF Goto, TicketInv, Safe, TypeOK
<1>4. ASSUME NEW t \in Threads, Lock(t) PROVE RecordsSound' /\ ReadyToUse'
  <2>1. Goto(t, "kinit") /\ UNCHANGED <<now, lastKinit, tickets>>
    BY <1>4 DEF Lock
  <2> QED
    BY <1>f, <1>s, <2>1 DEF Using, AccountOf
<1>5. ASSUME NEW t \in Threads, Finish(t), UNCHANGED <<lastKinit, tickets>>
      PROVE  RecordsSound' /\ ReadyToUse'
  <2>1. thread'[t] = Free /\ (\A u \in Threads \ {t} : thread'[u] = thread[u]) /\ now' = now
    BY <1>5 DEF Finish, TicketInv, Safe, TypeOK
  <2>2. ~Using(t)'
    BY <2>1 DEF Using, Free, Doing
  <2> QED
    BY <1>5, <1>f, <2>1, <2>2 DEF Using, AccountOf
<1>6. ASSUME NEW t \in Threads, Point(t) \/ Connect(t) \/ Talk(t) PROVE RecordsSound' /\ ReadyToUse'
  <2>1. CASE Finish(t) /\ UNCHANGED <<lastKinit, tickets>>
    BY <1>5, <2>1
  <2>2. CASE At(t, "connect") /\ Goto(t, "talk") /\ UNCHANGED krbVars
    BY <1>f, <1>s, <2>2 DEF Using, AccountOf, At, krbVars
  <2>3. CASE At(t, "point") /\ Goto(t, "connect") /\ UNCHANGED <<now, lastKinit, tickets>>
    BY <1>f, <1>s, <2>3 DEF Using, AccountOf, At
  <2> QED
    BY <1>6, <2>1, <2>2, <2>3 DEF Point, Connect, Talk
<1>7. ASSUME NEW t \in Threads, Kinit(t) PROVE RecordsSound' /\ ReadyToUse'
  <2> DEFINE a == AccountOf(t)
  <2>1. InBlock(t) /\ a \in Accounts /\ Cache[a] \in Paths /\ thread[t].pc = "kinit"
    BY <1>7, WinRMAssumption
       DEF Kinit, At, TicketInv, Safe, TypeOK, JobsSound, InBlock, AccountOf, Inside
  <2>2. CASE Finish(t) /\ UNCHANGED <<lastKinit, tickets>>
    BY <1>5, <2>2
  <2>3. ASSUME Goto(t, "point"), Serves(a)', RecordsSound' PROVE RecordsSound' /\ ReadyToUse'
    <3>1. \A u \in Threads \ {t} : ~Using(u)'
      BY <1>s, <1>x, <2>1, <2>3 DEF Using, AccountOf
    <3>2. AccountOf(t)' = a
      BY <1>s, <2>3 DEF AccountOf
    <3> QED
      BY <1>j, <2>3, <3>1, <3>2 DEF Serves
  <2>4. CASE Fresh(a) /\ Goto(t, "point") /\ UNCHANGED krbVars
    <3>1. lastKinit[a] \in Nat /\ now \in Nat /\ Boot <= now
      BY <2>1 DEF TicketInv, Safe, TypeOK, RecordsSound
    <3>2. lastKinit[a] # 0
      BY <2>4, <3>1, WinRMAssumption DEF Fresh, TicketAssumption
    <3>3. tickets[Cache[a]] = Ticket(a, lastKinit[a])
      BY <2>1, <3>2 DEF TicketInv, RecordsSound
    <3>4. Serves(a)
      BY <2>4, <3>1, <3>3, WinRMAssumption DEF Serves, Ticket, Fresh, TicketAssumption
    <3>5. UNCHANGED <<now, lastKinit, tickets>> /\ AccountOf(t)' = a
      BY <1>s, <2>4 DEF krbVars, AccountOf
    <3>6. Serves(a)'
      BY <3>4, <3>5 DEF Serves
    <3>7. RecordsSound'
      BY <3>5 DEF TicketInv, RecordsSound
    <3> QED
      BY <2>3, <2>4, <3>6, <3>7
  <2>5. CASE /\ tickets' = TicketsAfter(a)
             /\ lastKinit' = [lastKinit EXCEPT ![a] = now]
             /\ Goto(t, "point")
             /\ UNCHANGED <<now, env, lock, waiting, queue>>
    <3>1. tickets'[Cache[a]] = Ticket(a, now) /\ lastKinit'[a] = now
      BY <2>1, <2>5 DEF TicketsAfter, TicketInv, Safe, TypeOK
    <3>2. \A b \in Accounts \ {a} : tickets'[Cache[b]] = tickets[Cache[b]] /\ lastKinit'[b] = lastKinit[b]
      BY <2>1, <2>5, WinRMAssumption DEF TicketsAfter, TicketInv, Safe, TypeOK, TicketAssumption
    <3>3. RecordsSound'
      BY <2>5, <3>1, <3>2 DEF TicketInv, RecordsSound
    <3>4. Serves(a)'
      <4>0. AccountOf(t)' = AccountOf(t)
        BY <1>s, <2>5 DEF AccountOf
      <4>1. now' = now /\ now \in Nat
        BY <2>5 DEF TicketInv, Safe, TypeOK
      <4>2. Ticket(a, now).of = a /\ Ticket(a, now).at = now
        BY DEF Ticket
      <4>3. now < now + Lifetime
        BY <4>1, WinRMAssumption DEF TicketAssumption
      <4> QED
        BY <3>1, <4>0, <4>1, <4>2, <4>3 DEF Serves
    <3> QED
      BY <2>3, <2>5, <3>3, <3>4
  <2> QED
    BY <1>7, <2>2, <2>4, <2>5 DEF Kinit
<1>8. CASE Tick
  <2>1. \A u \in Threads : ~Using(u)'
    BY <1>8 DEF Tick, Using, AccountOf, At
  <2>2. RecordsSound'
    BY <1>8, WinRMAssumption DEF Tick, TicketInv, RecordsSound, Safe, TypeOK
  <2> QED
    BY <1>j, <2>1, <2>2
<1>9. CASE UNCHANGED vars
  BY <1>9, <1>f DEF vars, Using, AccountOf
<1> QED
  BY <1>2, <1>3, <1>4, <1>6, <1>7, <1>8, <1>9 DEF Next, Step

\* A Kerberos call connects with a ticket of its own that is still accepted, if
\* TicketAssumption holds; the run kerberos_boot shows what happens on a host
\* that was started less than Ttl ago. (windows.py:76-98)
THEOREM TicketsFresh == ASSUME TicketAssumption PROVE Spec => []FreshTicket
<1>1. Init => TicketInv
  <2>1. Init => RecordsSound
    BY WinRMAssumption DEF Init, RecordsSound
  <2>2. Init => ReadyToUse
    BY WinRMAssumption DEF Init, ReadyToUse, AccountOf, Free, Doing
  <2> QED
    BY InitSafe, <2>1, <2>2 DEF TicketInv
<1>2. TicketInv /\ [Next]_vars => TicketInv'
  BY StepSafe, StepTickets, TicketAssumption DEF TicketInv
<1>3. TicketInv => FreshTicket
  BY DEF TicketInv, ReadyToUse, FreshTicket
<1> QED
  BY <1>1, <1>2, <1>3, PTL DEF Spec
=============================================================================
