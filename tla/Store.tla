-------------------------------- MODULE Store --------------------------------
(***************************************************************************)
(* The history store (watchpost/store.py): statements that tasks of the    *)
(* event loop hand to worker threads, one connection, and a lock that is   *)
(* held from the execution of a statement to its commit.  Rows are         *)
(* numbered by their writer; reading changes nothing and is left out.      *)
(***************************************************************************)
EXTENDS Naturals

VARIABLES jobs,     \* statements handed over, until their task took the outcome
          txn,      \* statements executed and not committed
          db,       \* rows that are committed
          gone,     \* rows that retention removed
          closed    \* the connection is closed

storeVars == <<jobs, txn, db, gone, closed>>

\* Row n that task x writes to a table.
Row(table, x, n) == [table |-> table, by |-> x, n |-> n]
Insert(row) == [do |-> "insert", row |-> row]
Delete(table) == [do |-> "delete", table |-> table]

\* A statement of task x: waiting for a thread and for the lock, running with
\* the lock held, or done or failed with the outcome on its way to the task. If
\* the task was cancelled nobody awaits it.
Job(x, stmt, pc, awaited) == [by |-> x, stmt |-> stmt, pc |-> pc, awaited |-> awaited]

\* Nobody is between the execution of a statement and its commit.
LockFree == \A j \in jobs : j.pc # "running"

StoreInit == jobs = {} /\ txn = {} /\ db = {} /\ gone = {} /\ closed = FALSE

\* The outcome of x's statement, if it is there.
Outcome(x, pc) == \E j \in jobs : j.by = x /\ j.pc = pc /\ j.awaited

\* The task takes the outcome.
Without(x) == {j \in jobs : j.by # x}

\* _run and prune: asyncio.to_thread. The task has taken what it awaited before.
Submit(x, stmt) == jobs' = Without(x) \union {Job(x, stmt, "queued", TRUE)}

\* Faulty variant: an exception is swallowed on the way to the task.
Settled_AlwaysDone(j, pc) ==
  (jobs \ {j}) \union (IF j.awaited THEN {[j EXCEPT !.pc = "done"]} ELSE {})

\* Faulty variant: the lock is released by the task that takes the outcome.
Settled_ByTask(j, pc) == (jobs \ {j}) \union {IF j.awaited THEN [j EXCEPT !.pc = pc] ELSE j}

\* A statement ended, and with it its hold of the lock: its task is told, if it
\* is still there.
Settled(j, pc) == (jobs \ {j}) \union (IF j.awaited THEN {[j EXCEPT !.pc = pc]} ELSE {})

\* A thread takes the lock and executes a statement. It raises on a closed
\* connection, and when the database refuses.
Execute(j) ==
  /\ j \in jobs /\ j.pc = "queued" /\ LockFree
  /\ \/ /\ ~closed
        /\ jobs' = (jobs \ {j}) \union {[j EXCEPT !.pc = "running"]}
        /\ txn' = txn \union {j.stmt}
     \/ /\ jobs' = Settled(j, "failed")
        /\ UNCHANGED txn
  /\ UNCHANGED <<db, gone, closed>>

\* The rows a committed transaction inserts, and one way to choose the rows
\* past their retention: each table loses its oldest.
Inserted(t) == {s.row : s \in {s \in t : s.do = "insert"}}
Old(t, age) ==
  {r \in db : r.n < age /\ \E s \in t : s.do = "delete" /\ s.table = r.table}

\* Faulty variant: the statement is executed and never committed.
Committed_Never(j, age) == jobs' = Settled(j, "done") /\ UNCHANGED <<txn, db, gone>>

\* The transaction ends with whatever it holds, and the lock is free.
Committed(j, age) ==
  /\ jobs' = Settled(j, "done")
  /\ db' = (db \union Inserted(txn)) \ Old(txn, age)
  /\ gone' = gone \union Old(txn, age)
  /\ txn' = {}

\* commit() succeeds, or raises: the statement then stays in the transaction of
\* the connection, and goes in with the next commit.
Commit(j) ==
  /\ j \in jobs /\ j.pc = "running"
  /\ \/ \E age \in {0} \union {r.n + 1 : r \in db} : Committed(j, age)
     \/ jobs' = Settled(j, "failed") /\ UNCHANGED <<txn, db, gone>>
  /\ UNCHANGED closed

\* Task x is cancelled while it waits for the store: a statement goes on for
\* nobody, or is taken back if no thread has started it.
Abandon(x) ==
  LET mine == jobs \ Without(x)
      going == {j \in mine : j.pc \in {"queued", "running"}}
  IN  \/ jobs' = Without(x) \union {[j EXCEPT !.awaited = FALSE] : j \in going}
      \/ (\A j \in mine : j.pc # "running") /\ jobs' = Without(x)

\* Faulty variant: the connection is closed under whoever is using it.
MayClose_Anytime == TRUE

\* close() needs the lock.
MayClose == LockFree

\* Statements that were never committed are rolled back.
CloseStore == MayClose /\ closed' = TRUE /\ txn' = {} /\ UNCHANGED <<jobs, db, gone>>
=============================================================================
