----------------------------- MODULE MonitorState -----------------------------
(***************************************************************************)
(* One monitor fed an arbitrary sequence of probe results                  *)
(* (watchpost/state.py: MonitorState.observe), with the sequence kept as   *)
(* history, so that what the streak counters decide can be compared with   *)
(* what the whole history says.                                            *)
(***************************************************************************)
EXTENDS StateMachine, Sequences

CONSTANTS FailuresToDown,    \* failures_to_down of the monitor
          RecoveriesToUp     \* recoveries_to_up of the monitor

\* The configuration accepts any integer; 0 is outside the intended use (a
\* threshold of 0 is reached by every poll), so the module starts at 1.
ASSUME ThresholdAssumption == /\ FailuresToDown \in Nat \ {0}
                              /\ RecoveriesToUp \in Nat \ {0}

VARIABLES mon,        \* the monitor
          history     \* the results it observed, oldest first

vars == <<mon, history>>

Init == mon = Fresh /\ history = <<>>

\* One poll hands its result to observe().
Poll(r) ==
  /\ mon' = Observe(mon, r, FailuresToDown, RecoveriesToUp)
  /\ history' = Append(history, r)

Next == \E r \in Results : Poll(r)

Spec == Init /\ [][Next]_vars

-----------------------------------------------------------------------------
\* The last n results up to poll i are all in S.
RunOf(h, i, n, S) == n <= i /\ \A j \in (i - n + 1)..i : h[j] \in S

\* What the history up to poll i says on its own: DOWN after FailuresToDown
\* failures in a row, WARN after as many non-OK results in a row, UP after
\* RecoveriesToUp OK results in a row, and nothing otherwise.
Verdict(h, i) ==
  IF RunOf(h, i, FailuresToDown, {"fail"}) THEN "down"
  ELSE IF RunOf(h, i, FailuresToDown, {"fail", "warn"}) THEN "warn"
  ELSE IF RunOf(h, i, RecoveriesToUp, {"ok"}) THEN "up"
  ELSE "none"

TypeOK == /\ mon \in Monitor
          /\ history \in Seq(Results)

\* c is the length of the longest suffix of h inside S.
CountsSuffix(h, c, S) ==
  /\ c <= Len(h)
  /\ \A j \in (Len(h) - c + 1)..Len(h) : h[j] \in S
  /\ c < Len(h) => h[Len(h) - c] \notin S

\* The three counters are the lengths of the current streaks: failures, non-OK
\* results and OK results. (state.py:61-71)
CountersAreStreaks ==
  /\ CountsSuffix(history, mon.bad, {"fail"})
  /\ CountsSuffix(history, mon.warnish, {"fail", "warn"})
  /\ CountsSuffix(history, mon.good, {"ok"})

\* The state is the last verdict the history has given, PENDING if it never
\* gave one: DOWN means that FailuresToDown failures in a row happened and that
\* since then there were neither RecoveriesToUp OK results in a row nor
\* FailuresToDown problem results in a row ending in a WARN.
\* (state.py:73-85 decides it from three counters, without the history.)
StateIsLastVerdict ==
  \/ /\ mon.state = "pending"
     /\ \A i \in 1..Len(history) : Verdict(history, i) = "none"
  \/ \E i \in 1..Len(history) :
       /\ Verdict(history, i) = mon.state
       /\ \A j \in (i + 1)..Len(history) : Verdict(history, j) = "none"
=============================================================================
