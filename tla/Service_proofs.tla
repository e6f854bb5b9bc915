---------------------------- MODULE Service_proofs ----------------------------
(***************************************************************************)
(* For any monitors, dependencies and targets, and wherever a stop finds   *)
(* the tasks: what a state machine has observed is in the database, every  *)
(* event that is not was lost with a task or is being stored, and the      *)
(* connection is not closed under a statement.                             *)
(***************************************************************************)
EXTENDS Service, SequenceTheorems, FiniteSetTheorems, TLAPS

Rows == [table : {"results", "events"}, by : Monitors, n : Nat]
Statements == {Insert(row) : row \in Rows} \union {Delete(table) : table \in {"results", "events"}}
Jobs == [by : Tasks, stmt : Statements, pc : {"queued", "running", "done", "failed"},
         awaited : BOOLEAN]

\* The calls of the tasks of monitors. One that records a result, or releases
\* descendants, has no event to write.
Calls ==
  {c \in [doing : {"idle", "recording", "confirming", "eventing", "still", "releasing", "over"},
          of : Monitors, n : Nat] : c.doing \in {"recording", "releasing"} => c.n = 0}

TypeOK ==
  /\ jobs \subseteq Jobs
  /\ DOMAIN at = Tasks
  /\ \A t \in Monitors : at[t] \in Calls
  /\ outer \in [Monitors -> Seq(Calls)]
  /\ told \in [Monitors -> Nat] /\ changes \in [Monitors -> Nat]

\* Around a call there is the loop, and calls that wait for a poll.
Nested(t) ==
  at[t].doing # "over" =>
    /\ at[t].doing = "idle" <=> outer[t] = <<>>
    /\ \A i \in 1..Len(outer[t]) :
         outer[t][i].doing \in IF i = 1 THEN {"idle"} ELSE {"confirming", "releasing"}

CallsSound == \A t \in Monitors : Nested(t)

\* The lock of a monitor: one task at a time is between its probe and its state machine.
OneRecords ==
  \A t, u \in Monitors :
    at[t].doing = "recording" /\ at[u].doing = "recording" /\ at[t].of = at[u].of => t = u

\* The lock: one statement at a time is between its execution and its commit.
OneRuns == \A j, k \in jobs : j.pc = "running" /\ k.pc = "running" => j = k

\* A task awaits one statement at a time.
OneAwaited == \A j, k \in jobs : j.awaited /\ k.awaited /\ j.by = k.by => j = k

\* What task x writes in its call.
Writes(x, stmt) ==
  IF x \in Monitors
  THEN \/ /\ at[x].doing = "recording"
          /\ stmt = Insert(Row("results", at[x].of, told[at[x].of] + 1))
       \/ /\ at[x].doing \in {"eventing", "still"}
          /\ stmt = Insert(Row("events", at[x].of, at[x].n))
  ELSE at[x].doing \in {"results", "events"}

AwaitsItsOwn == \A j \in jobs : j.awaited => Writes(j.by, j.stmt)

\* A statement that runs is in the transaction, and one that is done is committed.
OutcomesTrue ==
  \A j \in jobs :
    /\ j.pc = "running" => j.stmt \in txn
    /\ j.pc = "done" /\ j.stmt.do = "insert" => j.stmt.row \in db \union gone

JobsSound ==
  /\ TypeOK /\ CallsSound /\ OneRecords
  /\ OneRuns /\ OneAwaited /\ AwaitsItsOwn /\ OutcomesTrue /\ CloseWaitsForCommit

IInv == JobsSound /\ ObservedIsStored /\ TransitionsStored

-----------------------------------------------------------------------------
LEMMA InitSound == ServiceInit => IInv
<1> SUFFICES ASSUME ServiceInit PROVE IInv
  OBVIOUS
<1>1. TypeOK /\ CallsSound /\ OneRecords
  BY ServiceAssumption DEF ServiceInit, StoreInit, TypeOK, CallsSound, Nested, OneRecords, Calls,
                           Call, Tasks
<1>2. OneRuns /\ OneAwaited /\ AwaitsItsOwn /\ OutcomesTrue /\ CloseWaitsForCommit
  BY DEF ServiceInit, StoreInit, OneRuns, OneAwaited, AwaitsItsOwn, OutcomesTrue,
         CloseWaitsForCommit
<1>3. ObservedIsStored /\ TransitionsStored
  BY DEF ServiceInit, ObservedIsStored, TransitionsStored
<1> QED
  BY <1>1, <1>2, <1>3 DEF IInv, JobsSound

\* What a monitor writes is a statement.
LEMMA InsertType ==
  ASSUME NEW table \in {"results", "events"}, NEW m \in Monitors, NEW n \in Nat
  PROVE  /\ Insert(Row(table, m, n)) \in Statements
         /\ Insert(Row(table, m, n)).do = "insert"
         /\ Insert(Row(table, m, n)).row = Row(table, m, n)
BY DEF Statements, Rows, Row, Insert

\* What the last call of a list of calls is, and what is around it.
LEMMA FrontAndLast ==
  ASSUME NEW s \in Seq(Calls), s # <<>>
  PROVE  /\ Len(s) \in Nat \ {0} /\ Last(s) \in Calls /\ Last(s) = s[Len(s)]
         /\ Front(s) \in Seq(Calls) /\ Len(Front(s)) = Len(s) - 1
         /\ \A i \in 1..(Len(s) - 1) : Front(s)[i] = s[i]
         /\ Range(s) = Range(Front(s)) \union {Last(s)}
<1>1. Len(s) \in Nat \ {0} /\ DOMAIN s = 1..Len(s) /\ \A i \in 1..Len(s) : s[i] \in Calls
  BY EmptySeq, LenProperties, ElementOfSeq
<1>2. Last(s) = s[Len(s)] /\ Last(s) \in Calls
  BY <1>1 DEF Last
<1>3. /\ Front(s) \in Seq(Calls) /\ Len(Front(s)) = Len(s) - 1
      /\ \A i \in 1..(Len(s) - 1) : Front(s)[i] = s[i]
  BY <1>1 DEF Front
<1>4. DOMAIN Front(s) = 1..(Len(s) - 1)
  BY <1>3, LenProperties
<1>5. 1..Len(s) = 1..(Len(s) - 1) \union {Len(s)}
  BY <1>1
<1>6. Range(s) = Range(Front(s)) \union {Last(s)}
  BY <1>1, <1>2, <1>3, <1>4, <1>5 DEF Range
<1> QED
  BY <1>1, <1>2, <1>3, <1>6

\* The jobs after a step in which task x took its outcome, if it awaited one, and
\* went on to a call, perhaps with a statement of its own.
Replaced(x, call, stmt) ==
  /\ at' = [at EXCEPT ![x] = call]
  /\ \A k \in jobs' :
       \/ k \in jobs /\ ~ (k.by = x /\ k.awaited)
       \/ k = Job(x, stmt, "queued", TRUE) /\ Writes(x, stmt)'

\* What the step did to the calls, with no monitor recorded by two tasks, and a
\* result observed only by the task that recorded it.
Calling(x, call) ==
  /\ outer' \in [Monitors -> Seq(Calls)]
  /\ \A t \in Monitors \ {x} : outer'[t] = outer[t]
  /\ x \in Monitors => call \in Calls /\ Nested(x)'
  /\ \A t \in Monitors \ {x} :
       at[t].doing = "recording" =>
         /\ x \in Monitors => call.doing # "recording" \/ call.of # at[t].of
         /\ told'[at[t].of] = told[at[t].of]

LEMMA ReplacedSound ==
  ASSUME JobsSound, NEW x \in Tasks, NEW call, NEW stmt \in Statements,
         Replaced(x, call, stmt), Calling(x, call),
         told' \in [Monitors -> Nat], changes' \in [Monitors -> Nat],
         UNCHANGED <<txn, db, gone, closed>>
  PROVE  JobsSound'
<1> USE DEF JobsSound, Replaced
<1> DEFINE new == Job(x, stmt, "queued", TRUE)
<1>1. new \in Jobs /\ new.by = x /\ new.pc = "queued" /\ new.awaited /\ new.stmt = stmt
  BY DEF Job, Jobs
<1>2. \A k \in jobs' : (k \in jobs /\ ~ (k.by = x /\ k.awaited)) \/ (k = new /\ Writes(x, stmt)')
  OBVIOUS
<1> HIDE DEF new
<1>3. /\ DOMAIN at' = Tasks /\ at'[x] = call
      /\ \A y \in Tasks \ {x} : at'[y] = at[y]
  BY DEF TypeOK
<1>4. TypeOK'
  <2>1. \A t \in Monitors : at'[t] \in Calls
    BY <1>3 DEF TypeOK, Calling, Tasks
  <2> QED
    BY <1>1, <1>2, <1>3, <2>1 DEF TypeOK, Calling
<1>5. CallsSound'
  <2> SUFFICES ASSUME NEW t \in Monitors, t # x PROVE Nested(t)'
    BY DEF CallsSound, Calling
  <2>1. at'[t] = at[t] /\ outer'[t] = outer[t]
    BY <1>3 DEF Calling, Tasks
  <2> QED
    BY <2>1 DEF CallsSound, Nested
<1>6. OneRecords'
  BY <1>3 DEF OneRecords, Calling, Tasks
<1>7. OneRuns'
  BY <1>1, <1>2 DEF OneRuns
<1>8. OneAwaited'
  BY <1>1, <1>2 DEF OneAwaited
<1>9. AwaitsItsOwn'
  <2> SUFFICES ASSUME NEW k \in jobs', k.awaited PROVE Writes(k.by, k.stmt)'
    BY DEF AwaitsItsOwn
  <2>1. CASE k = new /\ Writes(x, stmt)'
    BY <1>1, <2>1
  <2>2. CASE k \in jobs /\ k.by # x
    <3>1. k.by \in Tasks /\ Writes(k.by, k.stmt)
      BY <2>2 DEF TypeOK, Jobs, AwaitsItsOwn
    <3>2. at'[k.by] = at[k.by]
      BY <1>3, <2>2, <3>1
    <3> QED
      BY <2>2, <3>1, <3>2 DEF Writes, Calling
  <2> QED
    BY <1>2, <2>1, <2>2
<1>10. OutcomesTrue'
  BY <1>1, <1>2 DEF OutcomesTrue
<1>11. CloseWaitsForCommit'
  BY <1>1, <1>2 DEF CloseWaitsForCommit
<1> QED
  BY <1>4, <1>5, <1>6, <1>7, <1>8, <1>9, <1>10, <1>11

\* The statement a task awaits is the one whose outcome it takes.
LEMMA OutcomeIsOwn ==
  ASSUME JobsSound, NEW x \in Tasks, NEW pc, Outcome(x, pc)
  PROVE  \E j \in jobs : j.by = x /\ j.pc = pc /\ j.awaited /\ Writes(x, j.stmt)
BY DEF JobsSound, Outcome, AwaitsItsOwn

\* A task without a statement.
LEMMA NothingAwaited ==
  ASSUME JobsSound, NEW t \in Monitors, at[t].doing \in {"idle", "confirming", "releasing"}
  PROVE  \A k \in jobs : ~ (k.by = t /\ k.awaited)
BY DEF JobsSound, AwaitsItsOwn, Writes

\* The call of a task.
LEMMA ItsCall ==
  ASSUME JobsSound, NEW t \in Monitors
  PROVE  /\ t \in Tasks /\ at[t] \in Calls /\ at[t].of \in Monitors /\ at[t].n \in Nat
         /\ at[t].doing \in {"recording", "releasing"} => at[t].n = 0
         /\ outer[t] \in Seq(Calls) /\ Nested(t)
         /\ \A m \in Monitors : told[m] \in Nat /\ changes[m] \in Nat
BY DEF JobsSound, TypeOK, CallsSound, Calls, Tasks

\* The event of a call is written, or it has none.
Settles(t) == at[t].n = 0 \/ Row("events", at[t].of, at[t].n) \in db \union gone

\* The events after a step of task t.
LEMMA EventsKept ==
  ASSUME TransitionsStored, NEW t \in Monitors, UNCHANGED <<db, gone>>,
         \A u \in Monitors \ {t} : at'[u] = at[u] /\ outer'[u] = outer[u],
         \A m \in Monitors : changes[m] \in Nat,
         \A m \in Monitors : \A n \in 1..changes'[m] : n \in 1..changes[m] \/ HasToWrite(t, m, n)',
         \A m \in Monitors, n \in Nat \ {0} :
           HasToWrite(t, m, n) =>
             HasToWrite(t, m, n)' \/ Row("events", m, n) \in db \union gone
  PROVE  TransitionsStored'
<1> SUFFICES ASSUME NEW m \in Monitors, NEW n \in 1..changes'[m],
                    Row("events", m, n) \notin db \union gone
             PROVE  \E u \in Monitors : HasToWrite(u, m, n)'
  BY DEF TransitionsStored
<1>1. CASE n \in 1..changes[m]
  <2>1. PICK u \in Monitors : HasToWrite(u, m, n)
    BY <1>1 DEF TransitionsStored
  <2>2. CASE u = t
    BY <1>1, <2>1, <2>2
  <2>3. CASE u # t
    BY <2>1, <2>3 DEF HasToWrite
  <2> QED
    BY <2>2, <2>3
<1> QED
  BY <1>1

\* A poll inside the call: nothing is forgotten of it.
LEMMA PushKeeps ==
  ASSUME NEW t \in Monitors, outer[t] \in Seq(Calls), at[t] \in Calls,
         outer'[t] = Append(outer[t], at[t]), NEW m, NEW n, HasToWrite(t, m, n)
  PROVE  HasToWrite(t, m, n)'
<1>1. /\ DOMAIN outer'[t] = 1..(Len(outer[t]) + 1) /\ DOMAIN outer[t] = 1..Len(outer[t])
      /\ outer'[t][Len(outer[t]) + 1] = at[t]
      /\ \A i \in 1..Len(outer[t]) : outer'[t][i] = outer[t][i]
      /\ Len(outer[t]) \in Nat
  BY AppendProperties, LenProperties
<1>2. PICK c \in {at[t]} \union Range(outer[t]) : c.of = m /\ c.n = n
  BY DEF HasToWrite
<1>3. c \in Range(outer'[t])
  <2>1. CASE c = at[t]
    BY <1>1, <2>1 DEF Range
  <2>2. CASE c \in Range(outer[t])
    BY <1>1, <2>2 DEF Range
  <2> QED
    BY <1>2, <2>1, <2>2
<1> QED
  BY <1>2, <1>3 DEF HasToWrite

-----------------------------------------------------------------------------
(* The task of a monitor, and the maintenance *)

LEMMA RecordResultSound ==
  ASSUME IInv, NEW t \in Monitors, RecordResult(t)
  PROVE  IInv'
<1> USE DEF IInv
<1>1. /\ t \in Tasks /\ at[t] \in Calls /\ outer[t] \in Seq(Calls) /\ Nested(t)
      /\ \A m \in Monitors : told[m] \in Nat /\ changes[m] \in Nat
  BY ItsCall
<1>2. PICK m \in Polls(t) :
        /\ ~ Locked(m)
        /\ Submit(t, Insert(Row("results", m, told[m] + 1)))
        /\ at' = [at EXCEPT ![t] = Call("recording", m, 0)]
        /\ outer' = [outer EXCEPT ![t] = Append(@, at[t])]
  BY DEF RecordResult
<1>3. at[t].doing \in {"idle", "confirming", "releasing"} /\ m \in Monitors
  <2>1. at[t].of \in Monitors
    BY ItsCall
  <2>2. Parents[at[t].of] \subseteq Monitors /\ Behind(at[t].of) \subseteq Monitors
    BY <2>1, ServiceAssumption DEF Behind
  <2>3. CASE at[t].doing = "idle"
    BY <2>3 DEF Polls
  <2>4. CASE at[t].doing = "confirming"
    BY <2>2, <2>4 DEF Polls
  <2>5. CASE at[t].doing = "releasing"
    BY <2>2, <2>5 DEF Polls
  <2>6. CASE at[t].doing \notin {"idle", "confirming", "releasing"}
    BY <2>6 DEF Polls
  <2> QED
    BY <2>3, <2>4, <2>5, <2>6
<1>4. UNCHANGED <<told, changes, txn, db, gone, closed>>
  BY DEF RecordResult
<1> DEFINE stmt == Insert(Row("results", m, told[m] + 1))
           call == Call("recording", m, 0)
<1>5. stmt \in Statements
  BY <1>1, <1>3, InsertType
<1>6. /\ call \in Calls /\ call.doing = "recording" /\ call.of = m
  BY <1>3 DEF Call, Calls
<1>7. /\ at'[t] = call /\ outer'[t] = Append(outer[t], at[t])
      /\ \A u \in Monitors \ {t} : at'[u] = at[u] /\ outer'[u] = outer[u]
      /\ outer' \in [Monitors -> Seq(Calls)]
  <2>1. t \in DOMAIN at /\ DOMAIN outer = Monitors
    BY <1>1 DEF JobsSound, TypeOK
  <2>2. Append(outer[t], at[t]) \in Seq(Calls)
    BY <1>1, AppendProperties
  <2> QED
    BY <1>2, <2>1, <2>2 DEF JobsSound, TypeOK
<1>8. Replaced(t, call, stmt)
  <2>1. \A k \in jobs : ~ (k.by = t /\ k.awaited)
    BY <1>3, NothingAwaited
  <2>2. Writes(t, stmt)'
    BY <1>4, <1>6, <1>7 DEF Writes
  <2> QED
    BY <1>2, <2>1, <2>2 DEF Submit, Without, Replaced
<1>9. Nested(t)'
  <2>1. /\ Len(outer'[t]) = Len(outer[t]) + 1 /\ Len(outer[t]) \in Nat
        /\ outer'[t][Len(outer[t]) + 1] = at[t]
        /\ \A i \in 1..Len(outer[t]) : outer'[t][i] = outer[t][i]
    BY <1>1, <1>7, AppendProperties, LenProperties
  <2>2. outer'[t] # <<>>
    BY <2>1
  <2>3. at[t].doing = "idle" <=> Len(outer[t]) = 0
    BY <1>1, <1>3, EmptySeq DEF Nested
  <2>4. ASSUME NEW i \in 1..Len(outer'[t])
        PROVE  outer'[t][i].doing \in IF i = 1 THEN {"idle"} ELSE {"confirming", "releasing"}
    <3>1. CASE i \in 1..Len(outer[t])
      BY <1>1, <1>3, <2>1, <3>1 DEF Nested
    <3>2. CASE i = Len(outer[t]) + 1
      BY <1>3, <2>1, <2>3, <3>2
    <3> QED
      BY <2>1, <3>1, <3>2
  <2> QED
    BY <1>6, <1>7, <2>2, <2>4 DEF Nested
<1>10. Calling(t, call)
  BY <1>2, <1>4, <1>6, <1>7, <1>9 DEF Calling, Locked
<1>11. JobsSound'
  BY <1>1, <1>4, <1>5, <1>8, <1>10, ReplacedSound DEF JobsSound, TypeOK
<1>12. ObservedIsStored'
  BY <1>4 DEF ObservedIsStored
<1>13. TransitionsStored'
  BY <1>1, <1>4, <1>7, PushKeeps, EventsKept
<1> QED
  BY <1>11, <1>12, <1>13

\* What a step of task t may do to the counts of results.
Told(t) ==
  /\ told' \in [Monitors -> Nat]
  /\ \A u \in Monitors \ {t} : at[u].doing = "recording" => told'[at[u].of] = told[at[u].of]

\* The poll is over, and its event is written.
LEMMA ReturnSound ==
  ASSUME JobsSound, TransitionsStored, NEW t \in Monitors, Return(t), Told(t), Settles(t),
         at[t].doing \in {"recording", "eventing", "still", "releasing"},
         UNCHANGED <<txn, db, gone, closed>>
  PROVE  JobsSound' /\ TransitionsStored'
<1> DEFINE last == Last(outer[t])
<1>1. /\ t \in Tasks /\ at[t] \in Calls /\ outer[t] \in Seq(Calls) /\ Nested(t)
      /\ \A m \in Monitors : changes[m] \in Nat
  BY ItsCall
<1>2. outer[t] # <<>>
  BY <1>1 DEF Nested
<1>3. /\ Len(outer[t]) \in Nat \ {0} /\ last \in Calls /\ last = outer[t][Len(outer[t])]
      /\ Front(outer[t]) \in Seq(Calls) /\ Len(Front(outer[t])) = Len(outer[t]) - 1
      /\ \A i \in 1..(Len(outer[t]) - 1) : Front(outer[t])[i] = outer[t][i]
      /\ Range(outer[t]) = Range(Front(outer[t])) \union {last}
  BY <1>1, <1>2, FrontAndLast
<1>4. /\ at' = [at EXCEPT ![t] = last] /\ at'[t] = last /\ outer'[t] = Front(outer[t])
      /\ \A u \in Monitors \ {t} : at'[u] = at[u] /\ outer'[u] = outer[u]
      /\ outer' \in [Monitors -> Seq(Calls)] /\ jobs' = Without(t) /\ UNCHANGED changes
  BY <1>1, <1>3 DEF Return, JobsSound, TypeOK
<1>5. last.doing \in IF Len(outer[t]) = 1 THEN {"idle"} ELSE {"confirming", "releasing"}
  <2>1. \A i \in 1..Len(outer[t]) :
          outer[t][i].doing \in IF i = 1 THEN {"idle"} ELSE {"confirming", "releasing"}
    BY <1>1 DEF Nested
  <2>2. Len(outer[t]) \in 1..Len(outer[t])
    BY <1>3
  <2> QED
    BY <1>3, <2>1, <2>2
<1> HIDE DEF last
<1>6. Nested(t)'
  <2>1. outer'[t] = <<>> <=> Len(outer[t]) = 1
    <3>1. outer'[t] \in Seq(Calls) /\ Len(outer'[t]) = Len(outer[t]) - 1
      BY <1>3, <1>4
    <3>2. outer'[t] = <<>> <=> Len(outer'[t]) = 0
      BY <3>1, EmptySeq
    <3> QED
      BY <1>3, <3>1, <3>2
  <2>2. ASSUME NEW i \in 1..Len(outer'[t])
        PROVE  outer'[t][i].doing \in IF i = 1 THEN {"idle"} ELSE {"confirming", "releasing"}
    <3>1. i \in 1..(Len(outer[t]) - 1) /\ i \in 1..Len(outer[t]) /\ outer'[t][i] = outer[t][i]
      BY <1>3, <1>4
    <3> QED
      BY <1>1, <3>1 DEF Nested
  <2> QED
    BY <1>4, <1>5, <2>1, <2>2 DEF Nested
<1>7. Calling(t, last)
  BY <1>3, <1>4, <1>5, <1>6 DEF Calling, Told
<1>8. Replaced(t, last, Delete("results")) /\ Delete("results") \in Statements
  BY <1>4 DEF Replaced, Without, Statements
<1>9. JobsSound'
  BY <1>1, <1>4, <1>7, <1>8, ReplacedSound DEF Told, JobsSound, TypeOK
<1>10. TransitionsStored'
  <2>1. ASSUME NEW m \in Monitors, NEW n \in Nat \ {0}, HasToWrite(t, m, n)
        PROVE  HasToWrite(t, m, n)' \/ Row("events", m, n) \in db \union gone
    <3>1. PICK c \in {at[t]} \union Range(outer[t]) : c.of = m /\ c.n = n
      BY <2>1 DEF HasToWrite
    <3>2. CASE c = at[t]
      BY <3>1, <3>2 DEF Settles
    <3>3. CASE c \in Range(outer[t])
      BY <1>3, <1>4, <3>1, <3>3 DEF HasToWrite
    <3> QED
      BY <3>1, <3>2, <3>3
  <2> QED
    BY <1>1, <1>4, <2>1, EventsKept
<1> QED
  BY <1>9, <1>10

\* The task goes on with another call for the monitor, and its event.
LEMMA MovesSound ==
  ASSUME JobsSound, TransitionsStored, NEW t \in Monitors, Told(t), UNCHANGED <<txn, db, gone, closed>>,
         at[t].doing \in {"recording", "confirming", "eventing"},
         NEW call \in Calls, Moves(t, call), call.of = at[t].of,
         NEW stmt \in Statements,
         \/ /\ call.doing \in {"eventing", "still"} /\ Submit(t, stmt)
            /\ stmt = Insert(Row("events", call.of, call.n))
         \/ call.doing \in {"confirming", "releasing"} /\ jobs' = Without(t),
         \/ changes' = changes /\ (Settles(t) \/ call.n = at[t].n)
         \/ /\ changes' = [changes EXCEPT ![at[t].of] = @ + 1] /\ call.n = changes[at[t].of] + 1
            /\ Settles(t)
  PROVE  JobsSound' /\ TransitionsStored'
<1>1. /\ t \in Tasks /\ at[t] \in Calls /\ outer[t] \in Seq(Calls) /\ Nested(t)
      /\ \A m \in Monitors : changes[m] \in Nat
      /\ at[t].of \in Monitors
  BY ItsCall
<1>2. /\ at' = [at EXCEPT ![t] = call] /\ at'[t] = call /\ outer' = outer
      /\ \A u \in Monitors \ {t} : at'[u] = at[u]
      /\ outer' \in [Monitors -> Seq(Calls)] /\ changes' \in [Monitors -> Nat]
  BY <1>1 DEF Moves, JobsSound, TypeOK
<1>3. call.doing \in {"eventing", "still", "confirming", "releasing"}
  OBVIOUS
<1>4. Calling(t, call)
  BY <1>1, <1>2, <1>3 DEF Calling, Told, Nested
<1>5. Replaced(t, call, stmt)
  BY <1>1, <1>2 DEF Replaced, Submit, Without, Writes
<1>6. JobsSound'
  BY <1>1, <1>2, <1>4, <1>5, ReplacedSound DEF Told
<1>7. TransitionsStored'
  <2>1. ASSUME NEW m \in Monitors, NEW n \in 1..changes'[m]
        PROVE  n \in 1..changes[m] \/ HasToWrite(t, m, n)'
    <3>1. CASE changes' = changes
      BY <3>1
    <3>2. CASE changes' = [changes EXCEPT ![at[t].of] = @ + 1] /\ call.n = changes[at[t].of] + 1
      <4>1. CASE m # at[t].of
        BY <3>2, <4>1 DEF JobsSound, TypeOK
      <4>2. CASE m = at[t].of
        <5>1. n \in 1..changes[m] \/ n = call.n
          BY <1>1, <3>2, <4>2 DEF JobsSound, TypeOK
        <5> QED
          BY <1>2, <4>2, <5>1 DEF HasToWrite
      <4> QED
        BY <4>1, <4>2
    <3> QED
      BY <3>1, <3>2
  <2>2. ASSUME NEW m \in Monitors, NEW n \in Nat \ {0}, HasToWrite(t, m, n)
        PROVE  HasToWrite(t, m, n)' \/ Row("events", m, n) \in db \union gone
    <3>1. PICK c \in {at[t]} \union Range(outer[t]) : c.of = m /\ c.n = n
      BY <2>2 DEF HasToWrite
    <3>2. CASE c = at[t]
      BY <1>2, <3>1, <3>2 DEF Settles, HasToWrite
    <3>3. CASE c \in Range(outer[t])
      BY <1>2, <3>1, <3>3 DEF HasToWrite
    <3> QED
      BY <3>1, <3>2, <3>3
  <2> QED
    BY <1>1, <1>2, <2>1, <2>2, EventsKept
<1> QED
  BY <1>6, <1>7

\* A reminder, and a decision about event n.
LEMMA StillSound ==
  ASSUME JobsSound, TransitionsStored, NEW t \in Monitors, Still(t), Told(t), Settles(t),
         at[t].doing \in {"recording", "eventing"}, UNCHANGED <<txn, db, gone, closed>>
  PROVE  JobsSound' /\ TransitionsStored'
<1>1. PICK m \in Monitors : m = at[t].of /\ changes[m] + 1 \in Nat
  BY ItsCall
<1>2. PICK call \in Calls : call = Call("still", m, changes[m] + 1)
  BY <1>1 DEF Call, Calls
<1>3. PICK stmt \in Statements : stmt = Insert(Row("events", m, changes[m] + 1))
  BY <1>1, InsertType
<1>4. call.doing = "still" /\ call.of = m /\ call.n = changes[m] + 1
  BY <1>2 DEF Call
<1>5. /\ Moves(t, call) /\ Submit(t, stmt) /\ changes' = [changes EXCEPT ![at[t].of] = @ + 1]
  BY <1>1, <1>2, <1>3 DEF Still
<1> QED
  BY <1>1, <1>3, <1>4, <1>5, MovesSound

LEMMA DecideSound ==
  ASSUME JobsSound, TransitionsStored, NEW t \in Monitors, NEW n \in Nat, Told(t),
         Decide(t, at[t].of, n), at[t].doing \in {"recording", "confirming"},
         UNCHANGED <<txn, db, gone, closed>>,
         \/ changes' = changes /\ n = at[t].n
         \/ /\ changes' = [changes EXCEPT ![at[t].of] = @ + 1] /\ n = changes[at[t].of] + 1
            /\ Settles(t)
  PROVE  JobsSound' /\ TransitionsStored'
<1>1. PICK m \in Monitors : m = at[t].of
  BY ItsCall
<1>2. PICK call \in Calls : call = Call("eventing", m, n)
  BY DEF Call, Calls
<1>3. PICK stmt \in Statements : stmt = Insert(Row("events", m, n))
  BY InsertType
<1>4. call.doing = "eventing" /\ call.of = m /\ call.n = n
  BY <1>2 DEF Call
<1>5. /\ Moves(t, call) /\ Submit(t, stmt)
  BY <1>1, <1>2, <1>3 DEF Decide
<1> QED
  BY <1>1, <1>3, <1>4, <1>5, MovesSound

LEMMA ObserveSound ==
  ASSUME IInv, NEW t \in Monitors, Observe(t)
  PROVE  IInv'
<1> USE DEF IInv
<1>1. PICK m \in Monitors : m = at[t].of /\ told[m] \in Nat /\ changes[m] \in Nat
  BY ItsCall
<1>2. t \in Tasks /\ at[t].doing = "recording" /\ at[t].n = 0 /\ UNCHANGED <<txn, db, gone, closed>>
  BY ItsCall DEF Observe
<1>3. Row("results", m, told[m] + 1) \in db \union gone
  <2>1. PICK j \in jobs : j.pc = "done" /\ j.awaited /\ Writes(t, j.stmt)
    BY <1>2, OutcomeIsOwn DEF Observe
  <2>2. j.stmt = Insert(Row("results", m, told[m] + 1))
    BY <1>1, <1>2, <2>1 DEF Writes
  <2> QED
    BY <1>1, <2>1, <2>2, InsertType DEF JobsSound, OutcomesTrue
<1>4. /\ told' = [told EXCEPT ![m] = told[m] + 1] /\ told' \in [Monitors -> Nat]
      /\ \A k \in Monitors \ {m} : told'[k] = told[k]
  BY <1>1 DEF Observe, JobsSound, TypeOK
<1>5. ObservedIsStored'
  <2> SUFFICES ASSUME NEW k \in Monitors, NEW n \in 1..told'[k]
               PROVE  Row("results", k, n) \in db \union gone
    BY <1>2 DEF ObservedIsStored
  <2>1. CASE k # m \/ n <= told[m]
    BY <1>1, <1>4, <2>1 DEF ObservedIsStored, JobsSound, TypeOK
  <2>2. CASE k = m /\ n = told[m] + 1
    BY <1>3, <2>2
  <2> QED
    BY <1>1, <1>4, <2>1, <2>2 DEF JobsSound, TypeOK
<1>6. Told(t)
  <2> SUFFICES ASSUME NEW u \in Monitors \ {t}, at[u].doing = "recording"
               PROVE  told'[at[u].of] = told[at[u].of]
    BY <1>4 DEF Told
  <2>1. at[u].of \in Monitors /\ at[u].of # m
    BY <1>1, <1>2, ItsCall DEF JobsSound, OneRecords
  <2> QED
    BY <1>4, <2>1
<1>7. Settles(t)
  BY <1>2 DEF Settles
<1>8. CASE Return(t)
  BY <1>2, <1>5, <1>6, <1>7, <1>8, ReturnSound
<1>11. CASE Still(t)
  BY <1>2, <1>5, <1>6, <1>7, <1>11, StillSound
<1>9. ASSUME changes' = [changes EXCEPT ![m] = @ + 1],
             Decide(t, m, changes[m] + 1)
      PROVE  IInv'
  <2>1. PICK n \in Nat : n = changes[m] + 1
    BY <1>1
  <2>2. /\ Decide(t, at[t].of, n) /\ n = changes[at[t].of] + 1
        /\ changes' = [changes EXCEPT ![at[t].of] = @ + 1]
    BY <1>1, <1>9, <2>1
  <2>3. JobsSound' /\ TransitionsStored'
    BY <1>2, <1>6, <1>7, <2>2, DecideSound
  <2> QED
    BY <1>5, <2>3
<1>10. ASSUME changes' = [changes EXCEPT ![m] = @ + 1],
              Moves(t, Call("confirming", m, changes[m] + 1)), jobs' = Without(t)
       PROVE  IInv'
  <2>1. PICK call \in Calls : call = Call("confirming", m, changes[m] + 1)
    <3>1. PICK n \in Nat : n = changes[m] + 1
      BY <1>1
    <3>2. Call("confirming", m, n) \in Calls
      BY DEF Call, Calls
    <3> QED
      BY <3>1, <3>2
  <2>2. call.doing = "confirming" /\ call.of = m /\ call.n = changes[m] + 1
    BY <2>1 DEF Call
  <2>3. Delete("results") \in Statements
    BY DEF Statements
  <2>4. JobsSound' /\ TransitionsStored'
    BY <1>1, <1>2, <1>6, <1>7, <1>10, <2>1, <2>2, <2>3, MovesSound
  <2> QED
    BY <1>5, <2>4
<1> QED
  BY <1>1, <1>8, <1>9, <1>10, <1>11 DEF Observe

LEMMA ConfirmedSound ==
  ASSUME IInv, NEW t \in Monitors, Confirmed(t)
  PROVE  IInv'
<1> USE DEF IInv
<1>1. at[t].n \in Nat /\ UNCHANGED <<told, changes, txn, db, gone, closed>>
  BY ItsCall DEF Confirmed
<1>2. Told(t)
  BY <1>1 DEF Told, JobsSound, TypeOK
<1>3. JobsSound' /\ TransitionsStored'
  BY <1>1, <1>2, DecideSound DEF Confirmed
<1>4. ObservedIsStored'
  BY <1>1 DEF ObservedIsStored
<1> QED
  BY <1>3, <1>4

LEMMA EventStoredSound ==
  ASSUME IInv, NEW t \in Monitors, EventStored(t)
  PROVE  IInv'
<1> USE DEF IInv
<1>1. /\ t \in Tasks /\ at[t].doing \in {"eventing", "still"} /\ Outcome(t, "done")
      /\ UNCHANGED <<told, txn, db, gone, closed>>
  BY DEF EventStored, Tasks
<1>2. at[t].of \in Monitors /\ at[t].n \in Nat
  BY ItsCall
<1>3. Settles(t)
  <2>1. PICK j \in jobs : j.pc = "done" /\ Writes(t, j.stmt)
    BY <1>1, OutcomeIsOwn
  <2>2. j.stmt = Insert(Row("events", at[t].of, at[t].n))
    BY <1>1, <2>1 DEF Writes
  <2> QED
    BY <1>2, <2>1, <2>2, InsertType DEF JobsSound, OutcomesTrue, Settles
<1>4. Told(t)
  BY <1>1 DEF Told, JobsSound, TypeOK
<1>5. ObservedIsStored'
  BY <1>1 DEF ObservedIsStored
<1>6. CASE Return(t)
  BY <1>1, <1>3, <1>4, <1>5, <1>6, ReturnSound
<1>7. CASE at[t].doing = "eventing" /\ Still(t)
  BY <1>1, <1>3, <1>4, <1>5, <1>7, StillSound
<1>8. ASSUME at[t].doing = "eventing", Moves(t, Call("releasing", at[t].of, 0)), jobs' = Without(t),
             UNCHANGED changes
      PROVE  IInv'
  <2>1. PICK call \in Calls : call = Call("releasing", at[t].of, 0)
    BY <1>2 DEF Call, Calls
  <2>2. call.doing = "releasing" /\ call.of = at[t].of
    BY <2>1 DEF Call
  <2>3. Delete("results") \in Statements
    BY DEF Statements
  <2>4. JobsSound' /\ TransitionsStored'
    BY <1>1, <1>3, <1>4, <1>8, <2>1, <2>2, <2>3, MovesSound
  <2> QED
    BY <1>5, <2>4
<1> QED
  BY <1>6, <1>7, <1>8 DEF EventStored

LEMMA ReleasedSound ==
  ASSUME IInv, NEW t \in Monitors, Released(t)
  PROVE  IInv'
<1> USE DEF IInv
<1>1. at[t].n = 0 /\ UNCHANGED <<told, txn, db, gone, closed>>
  BY ItsCall DEF Released
<1>2. Told(t) /\ Settles(t)
  BY <1>1 DEF Told, Settles, JobsSound, TypeOK
<1>3. JobsSound' /\ TransitionsStored'
  BY <1>1, <1>2, ReturnSound DEF Released
<1>4. ObservedIsStored'
  BY <1>1 DEF ObservedIsStored
<1> QED
  BY <1>3, <1>4

\* A task whose loop ends has what its calls had to write, and writes it no more.
LEMMA OverKeeps ==
  ASSUME JobsSound, TransitionsStored, NEW t \in Monitors,
         at' = [at EXCEPT ![t] = [at[t] EXCEPT !.doing = "over"]],
         UNCHANGED <<outer, changes, db, gone>>
  PROVE  /\ at'[t] \in Calls /\ at'[t].doing = "over"
         /\ TransitionsStored'
<1>1. /\ at[t] \in Calls /\ \A m \in Monitors : changes[m] \in Nat
  BY ItsCall
<1>2. /\ at'[t] = [at[t] EXCEPT !.doing = "over"]
      /\ \A u \in Monitors \ {t} : at'[u] = at[u]
  BY DEF JobsSound, TypeOK, Tasks
<1>3. /\ at'[t] \in Calls /\ at'[t].doing = "over" /\ at'[t].of = at[t].of /\ at'[t].n = at[t].n
  BY <1>1, <1>2 DEF Calls
<1>4. \A m, n : HasToWrite(t, m, n) => HasToWrite(t, m, n)'
  BY <1>3 DEF HasToWrite
<1>5. TransitionsStored'
  BY <1>1, <1>2, <1>4, EventsKept
<1> QED
  BY <1>3, <1>5

\* So does nothing that happens to the maintenance.
LEMMA MaintenanceKeeps ==
  ASSUME JobsSound, TransitionsStored, NEW call, at' = [at EXCEPT ![maintenance] = call],
         UNCHANGED <<outer, changes, db, gone>>
  PROVE  /\ at'[maintenance] = call /\ \A t \in Monitors : at'[t] = at[t]
         /\ TransitionsStored'
<1>1. maintenance \in Tasks /\ maintenance \notin Monitors
  BY ServiceAssumption DEF Tasks
<1>2. at'[maintenance] = call /\ \A t \in Monitors : at'[t] = at[t]
  BY <1>1 DEF JobsSound, TypeOK
<1> QED
  BY <1>2 DEF TransitionsStored, HasToWrite

LEMMA StoreRaisedSound ==
  ASSUME IInv, NEW x \in Tasks, StoreRaised(x)
  PROVE  IInv'
<1> USE DEF IInv
<1>1. /\ UNCHANGED <<outer, told, changes, txn, db, gone, closed>> /\ jobs' = Without(x)
      /\ at' = [at EXCEPT ![x] = AfterError(x)]
  BY DEF StoreRaised, Moves
<1>2. Replaced(x, AfterError(x), Delete("results")) /\ Delete("results") \in Statements
  BY <1>1 DEF Replaced, Without, Statements
<1>3. ObservedIsStored'
  BY <1>1 DEF ObservedIsStored
<1>4. CASE x = maintenance
  <2>1. TransitionsStored'
    BY <1>1, <1>4, MaintenanceKeeps
  <2>2. Calling(x, AfterError(x))
    BY <1>1, <1>4, ServiceAssumption DEF Calling, JobsSound, TypeOK
  <2> QED
    BY <1>1, <1>2, <1>3, <2>1, <2>2, ReplacedSound DEF JobsSound, TypeOK
<1>5. CASE x \in Monitors
  <2>1. at' = [at EXCEPT ![x] = [at[x] EXCEPT !.doing = "over"]]
    BY <1>1, <1>5, ServiceAssumption DEF AfterError
  <2>2. /\ at'[x] \in Calls /\ at'[x].doing = "over" /\ TransitionsStored'
    BY <1>1, <1>5, <2>1, OverKeeps
  <2>3. at'[x] = AfterError(x)
    BY <1>1 DEF JobsSound, TypeOK
  <2>4. Calling(x, AfterError(x))
    BY <1>1, <2>2, <2>3 DEF Calling, JobsSound, TypeOK, Nested
  <2> QED
    BY <1>1, <1>2, <1>3, <2>2, <2>4, ReplacedSound DEF JobsSound, TypeOK
<1> QED
  BY <1>4, <1>5 DEF Tasks

LEMMA PruneSound ==
  ASSUME IInv, Prune
  PROVE  IInv'
<1> USE DEF IInv
<1>1. /\ maintenance \in Tasks /\ maintenance \notin Monitors
      /\ UNCHANGED <<told, changes, txn, db, gone, closed>>
      /\ \A table \in {"results", "events"} : Delete(table) \in Statements
  BY ServiceAssumption DEF Prune, Tasks, Statements
<1>2. \E doing \in {"idle", "results", "events"}, table \in {"results", "events"} :
        /\ Replaced(maintenance, Call(doing, maintenance, 0), Delete(table))
        /\ UNCHANGED outer
  <2>1. \A doing : Moves(maintenance, Call(doing, maintenance, 0)) => at'[maintenance].doing = doing
    BY <1>1 DEF JobsSound, TypeOK, Moves, Call
  <2>2. ASSUME NEW doing \in {"results", "events"}, Submit(maintenance, Delete(doing)),
               Moves(maintenance, Call(doing, maintenance, 0))
        PROVE  /\ Replaced(maintenance, Call(doing, maintenance, 0), Delete(doing))
               /\ UNCHANGED outer
    <3>1. Writes(maintenance, Delete(doing))'
      BY <1>1, <2>1, <2>2 DEF Writes
    <3> QED
      BY <2>2, <3>1 DEF Replaced, Submit, Without, Moves
  <2>3. ASSUME jobs' = Without(maintenance), Moves(maintenance, Call("idle", maintenance, 0))
        PROVE  /\ Replaced(maintenance, Call("idle", maintenance, 0), Delete("results"))
               /\ UNCHANGED outer
    BY <2>3 DEF Replaced, Without, Moves
  <2> QED
    BY <2>2, <2>3 DEF Prune
<1>3. PICK doing \in {"idle", "results", "events"}, table \in {"results", "events"} :
        /\ Replaced(maintenance, Call(doing, maintenance, 0), Delete(table))
        /\ UNCHANGED outer
  BY <1>2
<1>4. Calling(maintenance, Call(doing, maintenance, 0))
  BY <1>1, <1>3 DEF Calling, JobsSound, TypeOK
<1>5. JobsSound'
  BY <1>1, <1>3, <1>4, ReplacedSound DEF JobsSound, TypeOK
<1>6. ObservedIsStored'
  BY <1>1 DEF ObservedIsStored
<1>7. TransitionsStored'
  BY <1>1, <1>3, MaintenanceKeeps DEF Replaced
<1> QED
  BY <1>5, <1>6, <1>7

-----------------------------------------------------------------------------
(* The worker threads *)

\* What the steps of a thread leave alone keeps what is stored.
LEMMA StoredStays ==
  ASSUME ObservedIsStored, TransitionsStored, UNCHANGED <<at, outer, told, changes>>,
         db \union gone \subseteq db' \union gone'
  PROVE  ObservedIsStored' /\ TransitionsStored'
BY DEF ObservedIsStored, TransitionsStored, HasToWrite

\* A thread goes on with a job, and what it did to the database is what the job says.
LEMMA GoesOnSound ==
  ASSUME JobsSound, NEW j \in jobs, NEW pc \in {"running", "done", "failed"},
         jobs' \subseteq (jobs \ {j}) \union {[j EXCEPT !.pc = pc]},
         UNCHANGED <<at, outer, told, changes, closed>>,
         pc = "running" => ~ closed /\ LockFree /\ j.stmt \in txn',
         pc = "done" /\ j.stmt.do = "insert" => j.stmt.row \in db' \union gone',
         txn \subseteq txn' \/ \A k \in jobs \ {j} : k.pc # "running",
         db \union gone \subseteq db' \union gone'
  PROVE  JobsSound'
<1> USE DEF JobsSound
<1> DEFINE new == [j EXCEPT !.pc = pc]
<1>1. j \in Jobs
  BY DEF TypeOK
<1>2. new \in Jobs /\ new.pc = pc /\ new.by = j.by /\ new.stmt = j.stmt /\ new.awaited = j.awaited
  BY <1>1 DEF Jobs
<1>3. \A k \in jobs' : (k \in jobs /\ k # j) \/ k = new
  OBVIOUS
<1> HIDE DEF new
<1>4. TypeOK'
  BY <1>2, <1>3 DEF TypeOK
<1>5. OneRuns'
  BY <1>2, <1>3 DEF OneRuns, LockFree
<1>6. OneAwaited'
  BY <1>2, <1>3 DEF OneAwaited
<1>7. AwaitsItsOwn'
  BY <1>2, <1>3 DEF AwaitsItsOwn, Writes
<1>8. OutcomesTrue'
  BY <1>2, <1>3 DEF OutcomesTrue
<1>9. CloseWaitsForCommit'
  BY <1>2, <1>3 DEF CloseWaitsForCommit
<1>10. CallsSound' /\ OneRecords'
  BY DEF CallsSound, Nested, OneRecords
<1> QED
  BY <1>4, <1>5, <1>6, <1>7, <1>8, <1>9, <1>10

LEMMA ExecuteSound ==
  ASSUME IInv, NEW j \in jobs, Execute(j), UNCHANGED <<at, outer, told, changes>>
  PROVE  IInv'
<1> USE DEF IInv
<1>1. LockFree /\ UNCHANGED <<db, gone, closed>>
  BY DEF Execute
<1>2. JobsSound'
  <2>1. CASE /\ ~closed /\ jobs' = (jobs \ {j}) \union {[j EXCEPT !.pc = "running"]}
             /\ txn' = txn \union {j.stmt}
    BY <1>1, <2>1, GoesOnSound
  <2>2. CASE jobs' = Settled(j, "failed") /\ UNCHANGED txn
    <3>1. jobs' \subseteq (jobs \ {j}) \union {[j EXCEPT !.pc = "failed"]}
      BY <2>2 DEF Settled
    <3> QED
      BY <1>1, <2>2, <3>1, GoesOnSound
  <2> QED
    BY <2>1, <2>2 DEF Execute
<1> QED
  BY <1>1, <1>2, StoredStays

LEMMA CommitSound ==
  ASSUME IInv, NEW j \in jobs, Commit(j), UNCHANGED <<at, outer, told, changes>>
  PROVE  IInv'
<1> USE DEF IInv
<1>1. j.pc = "running" /\ UNCHANGED closed
  BY DEF Commit
<1>2. CASE jobs' = Settled(j, "failed") /\ UNCHANGED <<txn, db, gone>>
  <2>1. jobs' \subseteq (jobs \ {j}) \union {[j EXCEPT !.pc = "failed"]}
    BY <1>2 DEF Settled
  <2> QED
    BY <1>1, <1>2, <2>1, GoesOnSound, StoredStays
<1>3. ASSUME NEW age, Committed(j, age) PROVE IInv'
  <2>1. jobs' \subseteq (jobs \ {j}) \union {[j EXCEPT !.pc = "done"]}
    BY <1>3 DEF Committed, Settled
  <2>2. db' \union gone' = db \union Inserted(txn) \union gone \union Old(txn, age)
    BY <1>3 DEF Committed
  <2>3. j.stmt.do = "insert" => j.stmt.row \in db' \union gone'
    <3>1. j.stmt \in txn
      BY <1>1 DEF JobsSound, OutcomesTrue
    <3> QED
      BY <2>2, <3>1 DEF Inserted
  <2>4. \A k \in jobs \ {j} : k.pc # "running"
    BY <1>1 DEF JobsSound, OneRuns
  <2> QED
    BY <1>1, <2>1, <2>2, <2>3, <2>4, GoesOnSound, StoredStays
<1> QED
  BY <1>2, <1>3 DEF Commit

-----------------------------------------------------------------------------
(* Stopping *)

LEMMA CancelledSound ==
  ASSUME IInv, NEW x \in Tasks, Cancelled(x)
  PROVE  IInv'
<1> USE DEF IInv
<1>1. /\ UNCHANGED <<outer, told, changes, txn, db, gone, closed>>
      /\ at' = [at EXCEPT ![x] = [at[x] EXCEPT !.doing = "over"]] /\ Abandon(x)
  BY DEF Cancelled, Moves
<1>2. ObservedIsStored'
  BY <1>1 DEF ObservedIsStored
<1>3. /\ TransitionsStored' /\ (x \in Monitors => at'[x] \in Calls /\ at'[x].doing = "over")
      /\ \A y \in Tasks \ {x} : at'[y] = at[y]
  <2>1. \A y \in Tasks \ {x} : at'[y] = at[y]
    BY <1>1 DEF JobsSound, TypeOK
  <2>2. CASE x \in Monitors
    BY <1>1, <2>1, <2>2, OverKeeps
  <2>3. CASE x = maintenance
    BY <1>1, <2>1, <2>3, MaintenanceKeeps, ServiceAssumption
  <2> QED
    BY <2>2, <2>3 DEF Tasks
\* Every job is one of another task, or one of x that nobody awaits any more.
<1>4. \A k \in jobs' :
        \/ k \in jobs /\ k.by # x
        \/ \E j \in jobs : /\ k \in Jobs /\ j.by = x /\ k.by = x /\ k.stmt = j.stmt /\ k.pc = j.pc
                           /\ k = [j EXCEPT !.awaited = FALSE] /\ ~ k.awaited
  <2> SUFFICES ASSUME NEW k \in jobs', ~ (k \in jobs /\ k.by # x)
               PROVE  \E j \in jobs :
                        /\ k \in Jobs /\ j.by = x /\ k.by = x /\ k.stmt = j.stmt /\ k.pc = j.pc
                        /\ k = [j EXCEPT !.awaited = FALSE] /\ ~ k.awaited
    OBVIOUS
  <2>1. PICK j \in jobs : j.by = x /\ k = [j EXCEPT !.awaited = FALSE]
    BY <1>1 DEF Abandon, Without
  <2>2. j \in Jobs
    BY DEF JobsSound, TypeOK
  <2>3. k \in Jobs /\ k.by = x /\ k.stmt = j.stmt /\ k.pc = j.pc /\ ~ k.awaited
    BY <2>1, <2>2 DEF Jobs
  <2> QED
    BY <2>1, <2>3
<1>5. JobsSound'
  <2> USE DEF JobsSound
  <2>1. TypeOK'
    <3>1. \A k \in jobs' : k \in Jobs
      BY <1>4 DEF TypeOK
    <3>2. \A t \in Monitors : at'[t] \in Calls
      BY <1>3 DEF TypeOK, Tasks
    <3> QED
      BY <1>1, <3>1, <3>2 DEF TypeOK
  <2>7. CallsSound' /\ OneRecords'
    BY <1>1, <1>3 DEF CallsSound, Nested, OneRecords, Tasks
  <2>2. OneRuns'
    <3> SUFFICES ASSUME NEW k \in jobs', NEW l \in jobs', k.pc = "running", l.pc = "running"
                 PROVE  k = l
      BY DEF OneRuns
    <3>1. PICK i \in jobs : /\ i.pc = "running" /\ (i.by = x <=> k.by = x)
                            /\ k = IF i.by = x THEN [i EXCEPT !.awaited = FALSE] ELSE i
      BY <1>4
    <3>2. PICK j \in jobs : /\ j.pc = "running" /\ (j.by = x <=> l.by = x)
                            /\ l = IF j.by = x THEN [j EXCEPT !.awaited = FALSE] ELSE j
      BY <1>4
    <3>3. i = j
      BY <3>1, <3>2 DEF OneRuns
    <3> QED
      BY <3>1, <3>2, <3>3
  <2>3. OneAwaited'
    BY <1>4 DEF OneAwaited
  <2>4. AwaitsItsOwn'
    <3> SUFFICES ASSUME NEW k \in jobs', k.awaited PROVE Writes(k.by, k.stmt)'
      BY DEF AwaitsItsOwn
    <3>1. k \in jobs /\ k.by # x /\ k.by \in Tasks
      BY <1>4 DEF TypeOK, Jobs
    <3>2. Writes(k.by, k.stmt) /\ at'[k.by] = at[k.by]
      BY <1>3, <3>1 DEF AwaitsItsOwn
    <3> QED
      BY <1>1, <3>2 DEF Writes
  <2>5. OutcomesTrue'
    BY <1>1, <1>4 DEF OutcomesTrue
  <2>6. CloseWaitsForCommit'
    BY <1>1, <1>4 DEF CloseWaitsForCommit
  <2> QED
    BY <2>1, <2>2, <2>3, <2>4, <2>5, <2>6, <2>7
<1> QED
  BY <1>2, <1>3, <1>5

LEMMA CloseSound ==
  ASSUME IInv, Close
  PROVE  IInv'
<1> USE DEF IInv
<1>1. UNCHANGED <<jobs, db, gone, at, outer, told, changes>> /\ \A j \in jobs : j.pc # "running"
  BY DEF Close, CloseStore, MayClose, LockFree
<1>2. JobsSound'
  BY <1>1 DEF JobsSound, TypeOK, CallsSound, Nested, OneRecords, OneRuns, OneAwaited, AwaitsItsOwn,
              Writes, OutcomesTrue, CloseWaitsForCommit
<1> QED
  BY <1>1, <1>2, StoredStays

\* Steps that do not touch the store or the loops.
LEMMA ElsewhereSound ==
  ASSUME IInv, UNCHANGED <<storeVars, at, outer, told, changes>>
  PROVE  IInv'
BY DEF storeVars, IInv, JobsSound, TypeOK, CallsSound, Nested, OneRecords, OneRuns, OneAwaited,
       AwaitsItsOwn, Writes, OutcomesTrue, CloseWaitsForCommit, ObservedIsStored,
       TransitionsStored, HasToWrite

LEMMA StepSound == IInv /\ [ServiceNext]_serviceVars => IInv'
<1> SUFFICES ASSUME IInv, [ServiceNext]_serviceVars PROVE IInv'
  OBVIOUS
<1>1. ASSUME NEW m \in Monitors, Loop(m) PROVE IInv'
  BY <1>1, RecordResultSound, ObserveSound, ConfirmedSound, EventStoredSound, ReleasedSound DEF Loop
<1>2. ASSUME NEW j \in jobs, Work(j) PROVE IInv'
  BY <1>2, ExecuteSound, CommitSound DEF Work, taskVars
<1>3. CASE Ending
  <2>1. CASE StopReturns \/ Exit \/ \E d \in pending : Cut(d)
    <3>1. UNCHANGED <<storeVars, at, outer, told, changes>>
      BY <2>1 DEF StopReturns, Exit, Cut, taskVars
    <3> QED
      BY <3>1, ElsewhereSound
  <2> QED
    BY <1>3, <2>1, CloseSound, CancelledSound DEF Ending
<1>4. CASE Progress \/ Stop \/ UNCHANGED serviceVars
  <2>1. UNCHANGED <<storeVars, at, outer, told, changes>>
    BY <1>4 DEF Progress, Stop, taskVars, serviceVars
  <2> QED
    BY <2>1, ElsewhereSound
<1> QED
  BY <1>1, <1>2, <1>3, <1>4, StoreRaisedSound, PruneSound DEF ServiceNext

-----------------------------------------------------------------------------
THEOREM Invariance == ServiceSpec => []IInv
<1>1. ServiceInit => IInv
  BY InitSound
<1>2. IInv /\ [ServiceNext]_serviceVars => IInv'
  BY StepSound
<1> QED
  BY <1>1, <1>2, PTL DEF ServiceSpec

\* Every result a state machine observed is in the database, or was removed by
\* retention: for any monitors, whatever raises, is cancelled or closed.
\* (scheduler.py:70-75, store.py:52-66)
THEOREM ObservedStored == ServiceSpec => []ObservedIsStored
<1>1. IInv => ObservedIsStored
  BY DEF IInv
<1> QED
  BY <1>1, Invariance, PTL

\* An event that is not is held by the calls of a task, of whichever monitor: about to
\* be stored, or given up when that task's loop ended. (scheduler.py:93-161, store.py:68-72)
THEOREM EventsStored == ServiceSpec => []TransitionsStored
<1>1. IInv => TransitionsStored
  BY DEF IInv
<1> QED
  BY <1>1, Invariance, PTL

\* The connection is never closed while a statement is executed and not committed,
\* although threads go on for tasks that were cancelled. (store.py:52-57, 133-135)
THEOREM ClosedAfterCommit == ServiceSpec => []CloseWaitsForCommit
<1>1. IInv => CloseWaitsForCommit
  BY DEF IInv, JobsSound
<1> QED
  BY <1>1, Invariance, PTL

-----------------------------------------------------------------------------
(* Deliveries *)

Alerts == [m : Monitors, kind : Kinds, still : BOOLEAN]

DeliveriesTyped ==
  /\ handed \in Seq(Alerts)
  /\ pending \subseteq [n : 1..Len(handed), target : Targets, attempt : {1, 2},
                        pc : {"sending", "sleeping"}]
  /\ inbox \in [Targets -> Seq(1..Len(handed))]
  /\ failures \in [Targets -> Seq(1..Len(handed))]

\* Only one delivery takes an alert to a target.
OneDelivery == \A d, e \in pending : d.n = e.n /\ d.target = e.target => d = e

\* Nothing goes to a target that does not want it.
OnlyWanted ==
  /\ \A d \in pending : d.target \in TargetsFor(handed[d.n])
  /\ \A x \in Targets : \A n \in Range(inbox[x]) : x \in TargetsFor(handed[n])

\* A delivery is at the attempt that its failures say.
AttemptsCounted ==
  \A d \in pending :
    Occurrences(d.n, failures[d.target]) = IF d.pc = "sending" THEN d.attempt - 1 ELSE d.attempt

\* What a target wants is on its way, arrived, failed twice, or was cut.
Accounted(n, x) ==
  \/ \E d \in pending : d.n = n /\ d.target = x
  \/ n \in Range(inbox[x])
  \/ Occurrences(n, failures[x]) = 2
  \/ <<n, x>> \in cut

NoneForgotten == \A n \in 1..Len(handed) : \A x \in TargetsFor(handed[n]) : Accounted(n, x)

DeliveriesSound ==
  DeliveriesTyped /\ OneDelivery /\ OnlyWanted /\ AttemptsCounted /\ NoneForgotten

\* Counting in a sequence that grows.
LEMMA Appended ==
  ASSUME NEW S, NEW s \in Seq(S), NEW k \in S
  PROVE  /\ Append(s, k) \in Seq(S)
         /\ Range(Append(s, k)) = Range(s) \union {k}
         /\ Range(s) \subseteq S
<1>1. /\ Append(s, k) \in Seq(S) /\ Len(Append(s, k)) = Len(s) + 1
      /\ \A i \in 1..Len(s) : Append(s, k)[i] = s[i]
      /\ Append(s, k)[Len(s) + 1] = k
  BY AppendProperties
<1>2. /\ Len(s) \in Nat /\ DOMAIN s = 1..Len(s) /\ DOMAIN Append(s, k) = 1..(Len(s) + 1)
      /\ \A i \in 1..Len(s) : s[i] \in S
  BY <1>1, LenProperties, ElementOfSeq
<1>3. 1..(Len(s) + 1) = 1..Len(s) \union {Len(s) + 1}
  BY <1>2
<1>4. /\ Range(Append(s, k)) = {Append(s, k)[i] : i \in 1..(Len(s) + 1)}
      /\ Range(s) = {s[i] : i \in 1..Len(s)}
  BY <1>2 DEF Range
<1> QED
  BY <1>1, <1>2, <1>3, <1>4

LEMMA OccurrencesAppended ==
  ASSUME NEW S, NEW s \in Seq(S), NEW k \in S, NEW n
  PROVE  /\ Occurrences(n, s) \in Nat
         /\ n \notin Range(s) => Occurrences(n, s) = 0
         /\ Occurrences(n, Append(s, k)) = IF n = k THEN Occurrences(n, s) + 1 ELSE Occurrences(n, s)
<1> DEFINE At(q) == {i \in DOMAIN q : q[i] = n}
<1>1. /\ Append(s, k) \in Seq(S) /\ Len(Append(s, k)) = Len(s) + 1
      /\ \A i \in 1..Len(s) : Append(s, k)[i] = s[i]
      /\ Append(s, k)[Len(s) + 1] = k
  BY AppendProperties
<1>2. Len(s) \in Nat /\ DOMAIN s = 1..Len(s) /\ DOMAIN Append(s, k) = 1..(Len(s) + 1)
  BY <1>1, LenProperties
<1>3. IsFiniteSet(At(s))
  <2>1. IsFiniteSet(1..Len(s)) /\ At(s) \in SUBSET (1..Len(s))
    BY <1>2, FS_Interval
  <2> HIDE DEF At
  <2> QED
    BY <2>1, FS_Subset
<1>4. Occurrences(n, s) = Cardinality(At(s)) /\ Occurrences(n, Append(s, k)) = Cardinality(At(Append(s, k)))
  BY DEF Occurrences
<1>5. Occurrences(n, s) \in Nat
  BY <1>3, <1>4, FS_CardinalityType
<1>6. ASSUME n \notin Range(s) PROVE Occurrences(n, s) = 0
  <2>1. At(s) = {}
    BY <1>6 DEF Range
  <2> QED
    BY <1>4, <2>1, FS_EmptySet
<1>7. CASE n = k
  <2>1. At(Append(s, k)) = At(s) \union {Len(s) + 1} /\ Len(s) + 1 \notin At(s)
    BY <1>1, <1>2, <1>7
  <2> HIDE DEF At
  <2> QED
    BY <1>3, <1>4, <1>5, <1>6, <1>7, <2>1, FS_AddElement
<1>8. CASE n # k
  <2>1. At(Append(s, k)) = At(s)
    BY <1>1, <1>2, <1>8
  <2> HIDE DEF At
  <2> QED
    BY <1>4, <1>5, <1>6, <1>8, <2>1
<1> QED
  BY <1>7, <1>8

\* The targets of an alert that was handed over.
LEMMA TargetsAreTargets ==
  ASSUME NEW a \in Alerts
  PROVE  TargetsFor(a) \subseteq Targets
BY AlerterAssumption DEF Alerts, TargetsFor

LEMMA HandOverSound ==
  ASSUME DeliveriesSound, NEW m \in Monitors, HandOver(m), UNCHANGED cut
  PROVE  DeliveriesSound'
<1> USE DEF DeliveriesSound
<1> DEFINE N == Len(handed)
           new == {Delivery(N + 1, x, 1, "sending") : x \in TargetsFor(sent')}
<1>1. sent' \in Alerts
  <2>1. \A kind \in Kinds, still \in BOOLEAN : Announcement(m, kind, still) \in Alerts
    BY DEF Announcement, Alerts
  <2>2. \E kind \in Kinds, still \in BOOLEAN : sent' = Announcement(m, kind, still)
    BY Zenon DEF HandOver, Announce, Remind, Resolve, Kinds
  <2> QED
    BY <2>1, <2>2
<1>2. /\ handed' \in Seq(Alerts) /\ Len(handed') = N + 1 /\ N \in Nat
      /\ handed'[N + 1] = sent' /\ \A n \in 1..N : handed'[n] = handed[n]
  BY <1>1, AppendProperties, LenProperties DEF HandOver, DeliveriesTyped
<1>3. /\ pending' = pending \union new
      /\ UNCHANGED <<inbox, failures>>
  BY <1>2 DEF HandOver
<1>4. TargetsFor(sent') \subseteq Targets
  BY <1>1, TargetsAreTargets
<1>5. \A d \in new : /\ d.n = N + 1 /\ d.target \in TargetsFor(sent') /\ d.attempt = 1
                     /\ d.pc = "sending"
                     /\ d \in [n : 1..(N + 1), target : Targets, attempt : {1, 2},
                               pc : {"sending", "sleeping"}]
  BY <1>2, <1>4 DEF Delivery
<1>6. \A d \in pending : d.n \in 1..N /\ d.target \in Targets
  BY DEF DeliveriesTyped
<1>7. 1..N \subseteq 1..(N + 1) /\ N + 1 \notin 1..N
  BY <1>2
<1>8. \A x \in Targets : Range(inbox[x]) \subseteq 1..N /\ N + 1 \notin Range(failures[x])
  BY <1>7, Appended DEF DeliveriesTyped, Range
<1> HIDE DEF new
<1>9. DeliveriesTyped'
  <2>1. \A x \in Targets : inbox[x] \in Seq(1..(N + 1)) /\ failures[x] \in Seq(1..(N + 1))
    BY <1>7, SeqMonotonic DEF DeliveriesTyped
  <2>2. pending' \subseteq [n : 1..(N + 1), target : Targets, attempt : {1, 2},
                            pc : {"sending", "sleeping"}]
    BY <1>3, <1>5, <1>7 DEF DeliveriesTyped
  <2> QED
    BY <1>2, <1>3, <2>1, <2>2 DEF DeliveriesTyped
<1>10. OneDelivery'
  <2>1. \A d, e \in new : d.target = e.target => d = e
    BY DEF new, Delivery
  <2> QED
    BY <1>3, <1>5, <1>6, <1>7, <2>1 DEF OneDelivery
<1>11. OnlyWanted'
  BY <1>2, <1>3, <1>5, <1>6, <1>8 DEF OnlyWanted
<1>12. AttemptsCounted'
  <2>1. \A x \in Targets : Occurrences(N + 1, failures[x]) = 0
    <3> TAKE x \in Targets
    <3>1. failures[x] \in Seq(1..(N + 1)) /\ N + 1 \in 1..(N + 1)
      BY <1>2, <1>7, SeqMonotonic DEF DeliveriesTyped
    <3> QED
      BY <1>8, <3>1, OccurrencesAppended
  <2> QED
    BY <1>3, <1>4, <1>5, <2>1 DEF AttemptsCounted
<1>13. NoneForgotten'
  <2> SUFFICES ASSUME NEW n \in 1..(N + 1), NEW x \in TargetsFor(handed'[n])
               PROVE  Accounted(n, x)'
    BY <1>2 DEF NoneForgotten
  <2>1. CASE n = N + 1
    <3>1. Delivery(N + 1, x, 1, "sending") \in new
      BY <1>2, <2>1 DEF new
    <3> QED
      BY <1>3, <2>1, <3>1 DEF Accounted, Delivery
  <2>2. CASE n # N + 1
    <3>1. n \in 1..N /\ x \in TargetsFor(handed[n])
      BY <1>2, <2>2
    <3>2. Accounted(n, x)
      BY <3>1 DEF NoneForgotten
    <3> QED
      BY <1>3, <3>2 DEF Accounted
  <2> QED
    BY <2>1, <2>2
<1> QED
  BY <1>9, <1>10, <1>11, <1>12, <1>13

\* What a sequence that has stayed or got one more element has gained.
LEMMA MoreAtTheEnd ==
  ASSUME NEW S, NEW s \in Seq(S), NEW k \in S, NEW more,
         more = s \/ more = Append(s, k)
  PROVE  /\ more \in Seq(S)
         /\ Range(s) \subseteq Range(more)
         /\ \A n \in Range(more) : n \in Range(s) \/ (n = k /\ more = Append(s, k))
         /\ \A n : n # k => Occurrences(n, more) = Occurrences(n, s)
<1>1. CASE more = s
  BY <1>1
<1>2. CASE more = Append(s, k)
  BY <1>2, Appended, OccurrencesAppended
<1> QED
  BY <1>1, <1>2

\* A delivery that goes on as one of the same alert to the same target, or ends with
\* its target accounted for.
CarriedOn(d, more) ==
  /\ UNCHANGED handed
  /\ pending' = (pending \ {d}) \union more
  /\ \/ UNCHANGED inbox
     \/ inbox' = [inbox EXCEPT ![d.target] = Append(@, d.n)]
  /\ \/ UNCHANGED failures
     \/ failures' = [failures EXCEPT ![d.target] = Append(@, d.n)]
  /\ cut \subseteq cut'
  /\ \A e, f \in more : e = f
  /\ \A e \in more :
       /\ e \in [n : 1..Len(handed), target : Targets, attempt : {1, 2}, pc : {"sending", "sleeping"}]
       /\ e.n = d.n /\ e.target = d.target
       /\ Occurrences(d.n, failures'[d.target]) = IF e.pc = "sending" THEN e.attempt - 1 ELSE e.attempt

LEMMA CarriedOnSound ==
  ASSUME DeliveriesSound, NEW d \in pending, NEW more, CarriedOn(d, more),
         Accounted(d.n, d.target)'
  PROVE  DeliveriesSound'
<1> USE DEF DeliveriesSound
<1>1. d.n \in 1..Len(handed) /\ d.target \in Targets
  BY DEF DeliveriesTyped
<1>2. \A x \in Targets : /\ inbox[x] \in Seq(1..Len(handed)) /\ inbox'[x] \in Seq(1..Len(handed))
                         /\ Range(inbox[x]) \subseteq Range(inbox'[x])
                         /\ \A n \in Range(inbox'[x]) :
                              n \in Range(inbox[x]) \/ (n = d.n /\ x = d.target)
  <2> DEFINE S == 1..Len(handed)
  <2>1. inbox \in [Targets -> Seq(S)]
    BY DEF DeliveriesTyped
  <2>2. inbox' = inbox \/ inbox' = [inbox EXCEPT ![d.target] = Append(@, d.n)]
    BY DEF CarriedOn
  <2>3. d.n \in S
    BY <1>1
  <2> HIDE DEF S
  <2> TAKE x \in Targets
  <2>4. inbox[x] \in Seq(S)
    BY <2>1
  <2>5. \/ inbox'[x] = inbox[x]
        \/ x = d.target /\ inbox'[x] = Append(inbox[x], d.n)
    BY <2>1, <2>2
  <2>6. /\ inbox'[x] \in Seq(S)
        /\ Range(inbox[x]) \subseteq Range(inbox'[x])
        /\ \A n \in Range(inbox'[x]) : n \in Range(inbox[x]) \/ (n = d.n /\ x = d.target)
        /\ \A n : n # d.n \/ x # d.target => Occurrences(n, inbox'[x]) = Occurrences(n, inbox[x])
    BY <2>3, <2>4, <2>5, MoreAtTheEnd
  <2> QED
    BY <2>4, <2>6 DEF S
<1>3. \A x \in Targets :
        /\ failures[x] \in Seq(1..Len(handed)) /\ failures'[x] \in Seq(1..Len(handed))
        /\ \A n : n # d.n \/ x # d.target => Occurrences(n, failures'[x]) = Occurrences(n, failures[x])
  <2> DEFINE S == 1..Len(handed)
  <2>1. failures \in [Targets -> Seq(S)]
    BY DEF DeliveriesTyped
  <2>2. failures' = failures \/ failures' = [failures EXCEPT ![d.target] = Append(@, d.n)]
    BY DEF CarriedOn
  <2>3. d.n \in S
    BY <1>1
  <2> HIDE DEF S
  <2> TAKE x \in Targets
  <2>4. failures[x] \in Seq(S)
    BY <2>1
  <2>5. \/ failures'[x] = failures[x]
        \/ x = d.target /\ failures'[x] = Append(failures[x], d.n)
    BY <2>1, <2>2
  <2>6. /\ failures'[x] \in Seq(S)
        /\ Range(failures[x]) \subseteq Range(failures'[x])
        /\ \A n \in Range(failures'[x]) : n \in Range(failures[x]) \/ (n = d.n /\ x = d.target)
        /\ \A n : n # d.n \/ x # d.target => Occurrences(n, failures'[x]) = Occurrences(n, failures[x])
    BY <2>3, <2>4, <2>5, MoreAtTheEnd
  <2> QED
    BY <2>4, <2>6 DEF S
<1>4. DeliveriesTyped'
  <2>1. inbox' \in [Targets -> Seq(1..Len(handed))] /\ failures' \in [Targets -> Seq(1..Len(handed))]
    BY <1>2, <1>3 DEF DeliveriesTyped, CarriedOn
  <2> QED
    BY <2>1 DEF DeliveriesTyped, CarriedOn
<1>5. \A e \in pending' : \/ e \in more /\ e.n = d.n /\ e.target = d.target
                          \/ e \in pending /\ (e.n # d.n \/ e.target # d.target)
  BY DEF CarriedOn, OneDelivery
<1>6. OneDelivery'
  BY <1>5 DEF OneDelivery, CarriedOn
<1>7. OnlyWanted'
  <2>1. d.target \in TargetsFor(handed[d.n])
    BY DEF OnlyWanted
  <2> QED
    BY <1>2, <1>5, <2>1 DEF OnlyWanted, CarriedOn
<1>8. AttemptsCounted'
  <2>1. \A e \in pending : e.target \in Targets
    BY DEF DeliveriesTyped
  <2> QED
    BY <1>3, <1>5, <2>1 DEF AttemptsCounted, CarriedOn
<1>9. NoneForgotten'
  <2> SUFFICES ASSUME NEW n \in 1..Len(handed), NEW x \in TargetsFor(handed[n]),
                      n # d.n \/ x # d.target
               PROVE  Accounted(n, x)'
    BY DEF NoneForgotten, CarriedOn
  <2>1. Accounted(n, x)
    BY DEF NoneForgotten
  <2>2. x \in Targets
    BY TargetsAreTargets, ElementOfSeq DEF DeliveriesTyped
  <2>3. ASSUME NEW e \in pending, e.n = n, e.target = x
        PROVE  e \in pending'
    BY <2>3 DEF CarriedOn
  <2> QED
    BY <1>2, <1>3, <2>1, <2>2, <2>3 DEF Accounted, CarriedOn
<1> QED
  BY <1>4, <1>6, <1>7, <1>8, <1>9

LEMMA DeliverSound ==
  ASSUME DeliveriesSound, NEW d \in pending, Deliver(d), UNCHANGED cut
  PROVE  DeliveriesSound'
<1>1. CarriedOn(d, {})
  BY DEF Deliver, CarriedOn
<1>2. d.n \in 1..Len(handed) /\ d.target \in Targets
  BY DEF DeliveriesSound, DeliveriesTyped
<1>3. d.n \in Range(inbox'[d.target])
  BY <1>2, Appended DEF Deliver, DeliveriesSound, DeliveriesTyped
<1> QED
  BY <1>1, <1>3, CarriedOnSound DEF Accounted

LEMMA FailSound ==
  ASSUME DeliveriesSound, NEW d \in pending, Fail(d), UNCHANGED cut
  PROVE  DeliveriesSound'
<1> DEFINE e == Delivery(d.n, d.target, d.attempt, "sleeping")
<1>1. /\ d.n \in 1..Len(handed) /\ d.target \in Targets /\ d.attempt \in {1, 2}
      /\ failures[d.target] \in Seq(1..Len(handed))
  BY DEF DeliveriesSound, DeliveriesTyped
<1>2. /\ e.n = d.n /\ e.target = d.target /\ e.attempt = d.attempt /\ e.pc = "sleeping"
      /\ e \in [n : 1..Len(handed), target : Targets, attempt : {1, 2}, pc : {"sending", "sleeping"}]
  BY <1>1 DEF Delivery
<1>3. Occurrences(d.n, failures[d.target]) = d.attempt - 1
  BY DEF DeliveriesSound, AttemptsCounted, Fail
<1>4. failures'[d.target] = Append(failures[d.target], d.n)
  BY <1>1 DEF Fail, DeliveriesSound, DeliveriesTyped
<1>5. Occurrences(d.n, failures'[d.target]) = d.attempt
  <2>1. Occurrences(d.n, Append(failures[d.target], d.n)) = Occurrences(d.n, failures[d.target]) + 1
    BY <1>1, OccurrencesAppended
  <2>2. (d.attempt - 1) + 1 = d.attempt
    BY <1>1
  <2> QED
    BY <1>3, <1>4, <2>1, <2>2
<1>6. pending' = (pending \ {d}) \union {e}
  BY DEF Fail
<1> HIDE DEF e
<1>7. CarriedOn(d, {e})
  BY <1>2, <1>5, <1>6 DEF CarriedOn, Fail
<1>8. Accounted(d.n, d.target)'
  BY <1>2, <1>6 DEF Accounted
<1> QED
  BY <1>7, <1>8, CarriedOnSound

\* The loop over the attempts ends only after two failures.
LEMMA WakeUpSound ==
  ASSUME DeliveriesSound, NEW d \in pending, WakeUp(d), UNCHANGED cut
  PROVE  DeliveriesSound'
<1> DEFINE e == Delivery(d.n, d.target, 2, "sending")
<1>1. d.n \in 1..Len(handed) /\ d.target \in Targets /\ d.attempt \in {1, 2}
  BY DEF DeliveriesSound, DeliveriesTyped
<1>2. Occurrences(d.n, failures[d.target]) = d.attempt /\ failures' = failures
  BY DEF DeliveriesSound, AttemptsCounted, WakeUp
<1>3. CASE d.attempt = 1
  <2>1. /\ e.n = d.n /\ e.target = d.target /\ e.attempt = 2 /\ e.pc = "sending"
        /\ e \in [n : 1..Len(handed), target : Targets, attempt : {1, 2}, pc : {"sending", "sleeping"}]
    BY <1>1 DEF Delivery
  <2>2. pending' = (pending \ {d}) \union {e}
    BY <1>3 DEF WakeUp, Retries
  <2> HIDE DEF e
  <2>3. CarriedOn(d, {e})
    BY <1>2, <1>3, <2>1, <2>2 DEF CarriedOn, WakeUp
  <2>4. Accounted(d.n, d.target)'
    BY <2>1, <2>2 DEF Accounted
  <2> QED
    BY <2>3, <2>4, CarriedOnSound
<1>4. CASE d.attempt # 1
  <2>1. CarriedOn(d, {})
    BY <1>4 DEF CarriedOn, WakeUp, Retries
  <2>2. Accounted(d.n, d.target)'
    BY <1>1, <1>2, <1>4 DEF Accounted
  <2> QED
    BY <2>1, <2>2, CarriedOnSound
<1> QED
  BY <1>3, <1>4

LEMMA CutSound ==
  ASSUME DeliveriesSound, NEW d \in pending, Cut(d)
  PROVE  DeliveriesSound'
<1>1. CarriedOn(d, {})
  BY DEF Cut, CarriedOn
<1>2. Accounted(d.n, d.target)'
  BY DEF Cut, Accounted
<1> QED
  BY <1>1, <1>2, CarriedOnSound

LEMMA DeliveriesStep ==
  JobsSound /\ DeliveriesSound /\ [ServiceNext]_serviceVars => DeliveriesSound'
<1> SUFFICES ASSUME JobsSound, DeliveriesSound, [ServiceNext]_serviceVars PROVE DeliveriesSound'
  OBVIOUS
<1>1. ASSUME UNCHANGED <<handed, pending, inbox, failures, cut>> PROVE DeliveriesSound'
  BY <1>1 DEF DeliveriesSound, DeliveriesTyped, OneDelivery, OnlyWanted, AttemptsCounted,
              NoneForgotten, Accounted
<1> USE DEF NoAlert, Silent
<1>2. ASSUME NEW t \in Monitors, Loop(t) PROVE DeliveriesSound'
  <2>1. at[t].of \in Monitors
    BY ItsCall
  <2>2. CASE RecordResult(t) \/ Return(t)
    BY <1>1, <2>2 DEF RecordResult, Return
  <2>3. CASE Still(t) \/ \E n : Decide(t, at[t].of, n)
    BY <1>1, <2>1, <2>3, HandOverSound DEF Still, Decide
  <2>4. CASE NoAlert
    BY <1>1, <2>4
  <2>5. RecordResult(t) \/ Return(t) \/ Still(t) \/ (\E n : Decide(t, at[t].of, n)) \/ NoAlert
    BY <1>2 DEF Loop, Observe, Confirmed, EventStored, Released
  <2> QED
    BY <2>2, <2>3, <2>4, <2>5
<1>3. ASSUME NEW x \in Tasks, StoreRaised(x) PROVE DeliveriesSound'
  BY <1>1, <1>3 DEF StoreRaised
<1>4. CASE Prune \/ Stop
  BY <1>1, <1>4 DEF Prune, Stop
<1>5. CASE Progress
  BY <1>5, DeliverSound, FailSound, WakeUpSound DEF Progress
<1>6. CASE Ending
  <2>1. CASE StopReturns \/ Close \/ Exit
    BY <1>1, <2>1 DEF StopReturns, Close, Exit
  <2>2. ASSUME NEW x \in Tasks, Cancelled(x) PROVE DeliveriesSound'
    BY <1>1, <2>2 DEF Cancelled
  <2> QED
    BY <1>6, <2>1, <2>2, CutSound DEF Ending
<1>7. ASSUME NEW j \in jobs, Work(j) PROVE DeliveriesSound'
  BY <1>1, <1>7 DEF Work
<1>8. CASE UNCHANGED serviceVars
  BY <1>1, <1>8 DEF serviceVars, alertVars
<1> QED
  BY <1>2, <1>3, <1>4, <1>5, <1>6, <1>7, <1>8 DEF ServiceNext

\* Once nothing is on its way, every target that wanted an alert has it, or two attempts
\* failed, or the exit cut the delivery; and no target has one it did not want.
\* (alerts.py:51-71, __main__.py:62-66)
THEOREM NoneMissed == ServiceSpec => []MissedOnlyWhenCutOrFailed
<1>1. ServiceInit => DeliveriesSound
  <2> SUFFICES ASSUME ServiceInit PROVE DeliveriesSound
    OBVIOUS
  <2>1. /\ handed = <<>> /\ pending = {} /\ inbox = [x \in Targets |-> <<>>]
        /\ failures = [x \in Targets |-> <<>>]
    BY DEF ServiceInit, AlertInit
  <2>2. Len(handed) = 0 /\ 1..Len(handed) = {} /\ \A S : <<>> \in Seq(S)
    BY <2>1
  <2>3. Range(<<>>) = {}
    BY DEF Range
  <2> QED
    BY <2>1, <2>2, <2>3 DEF DeliveriesSound, DeliveriesTyped, OneDelivery, OnlyWanted,
                            AttemptsCounted, NoneForgotten
<1>2. DeliveriesSound => MissedOnlyWhenCutOrFailed
  <2> SUFFICES ASSUME DeliveriesSound, pending = {},
                      NEW n \in DOMAIN handed, NEW x \in Targets
               PROVE  IF x \in TargetsFor(handed[n])
                      THEN \/ n \in Range(inbox[x])
                           \/ Occurrences(n, failures[x]) = 2
                           \/ <<n, x>> \in cut
                      ELSE n \notin Range(inbox[x])
    BY DEF MissedOnlyWhenCutOrFailed, TargetsFor
  <2>1. n \in 1..Len(handed)
    BY LenProperties DEF DeliveriesSound, DeliveriesTyped
  <2> QED
    BY <2>1 DEF DeliveriesSound, OnlyWanted, NoneForgotten, Accounted
<1>3. IInv => JobsSound
  BY DEF IInv
<1> QED
  BY <1>1, <1>2, <1>3, DeliveriesStep, Invariance, PTL DEF ServiceSpec
=============================================================================
