-------------------------------- MODULE Pager --------------------------------
(***************************************************************************)
(* What the scheduler promises to whoever is paged, with polls, locks and  *)
(* confirmations left out (the rules at the top of                         *)
(* watchpost/scheduler.py): a problem is announced only for a monitor that *)
(* is not behind an outage, a recovery only for a monitor whose problem    *)
(* was announced, and a reminder ("still down after ... recovered") only   *)
(* for a problem nobody was told about.                                    *)
(***************************************************************************)
EXTENDS Naturals

CONSTANTS Monitors, None

VARIABLES open,      \* the monitors whose problem has been announced
          blocked,   \* the monitors that are behind an outage
          sent       \* the announcement made by the last step, or None

vars == <<open, blocked, sent>>

Announcement(m, kind, still) == [m |-> m, kind |-> kind, still |-> still]

Init == open = {} /\ blocked \in SUBSET Monitors /\ sent = None

\* A new problem, or an announced one that changed between WARN and DOWN.
Announce(m) ==
  /\ m \notin blocked
  /\ \E kind \in {"down", "warn"} : sent' = Announcement(m, kind, FALSE)
  /\ open' = open \union {m}
  /\ UNCHANGED blocked

\* A problem that outlived the outage in front of it.
Remind(m) ==
  /\ m \notin blocked /\ m \notin open
  /\ \E kind \in {"down", "warn"} : sent' = Announcement(m, kind, TRUE)
  /\ open' = open \union {m}
  /\ UNCHANGED blocked

\* The end of an announced problem.
Resolve(m) ==
  /\ m \in open
  /\ sent' = Announcement(m, "up", FALSE)
  /\ open' = open \ {m}
  /\ UNCHANGED blocked

\* Anything the scheduler does in between, outages that come and go included.
Quiet ==
  /\ sent' = None
  /\ blocked' \in SUBSET Monitors
  /\ UNCHANGED open

Next == Quiet \/ \E m \in Monitors : Announce(m) \/ Remind(m) \/ Resolve(m)

Spec == Init /\ [][Next]_vars
=============================================================================
