----------------------------- MODULE StateMachine -----------------------------
(***************************************************************************)
(* The per-monitor state machine of watchpost/state.py as operators on a   *)
(* record, so that the modules about one monitor and about the whole       *)
(* scheduler share one definition of MonitorState.observe.                 *)
(***************************************************************************)
EXTENDS Naturals

\* The outcome of one probe.
Results == {"ok", "warn", "fail"}

\* State of a monitor; every monitor starts PENDING.
States == {"pending", "up", "warn", "down"}

\* scheduler._PROBLEM: the states that open an alert.
Problem == {"down", "warn"}

\* Transition.alertable: the first PENDING -> UP is not news.
Alertable(previous, current) == ~ (previous = "pending" /\ current = "up")

\* The fields of MonitorState that observe reads and writes.
Monitor == [state : States, bad : Nat, warnish : Nat, good : Nat]

Fresh == [state |-> "pending", bad |-> 0, warnish |-> 0, good |-> 0]

\* Faulty variant: a WARN result does not reset the streak of failures.
Count_WarnKeepsBad(s, r) ==
  [state   |-> s.state,
   bad     |-> IF r = "fail" THEN s.bad + 1 ELSE IF r = "warn" THEN s.bad ELSE 0,
   warnish |-> IF r # "ok" THEN s.warnish + 1 ELSE 0,
   good    |-> IF r = "ok" THEN s.good + 1 ELSE 0]

\* The three streaks after one more result.
Count(s, r) ==
  [state   |-> s.state,
   bad     |-> IF r = "fail" THEN s.bad + 1 ELSE 0,
   warnish |-> IF r # "ok" THEN s.warnish + 1 ELSE 0,
   good    |-> IF r = "ok" THEN s.good + 1 ELSE 0]

\* Faulty variant: WARN is tested before DOWN, so failures never reach DOWN.
Target_WarnFirst(s, r, f2d, r2u) ==
  IF s.warnish >= f2d /\ r # "ok" THEN "warn"
  ELSE IF s.bad >= f2d THEN "down"
  ELSE IF s.good >= r2u THEN "up"
  ELSE s.state

\* Faulty variant: "no threshold reached" is stored as if it were a state.
Target_NoneStored(s, r, f2d, r2u) ==
  IF s.bad >= f2d THEN "down"
  ELSE IF s.warnish >= f2d /\ r # "ok" THEN "warn"
  ELSE IF s.good >= r2u THEN "up"
  ELSE "none"

\* Where the streaks point. The state itself where no threshold is reached, so
\* that "no transition" is Target(s, r, ...) = s.state, as in the code.
Target(s, r, f2d, r2u) ==
  IF s.bad >= f2d THEN "down"
  ELSE IF s.warnish >= f2d /\ r # "ok" THEN "warn"
  ELSE IF s.good >= r2u THEN "up"
  ELSE s.state

\* MonitorState.observe. It returns a Transition exactly when the state of the
\* result differs from s.state.
Observe(s, r, f2d, r2u) ==
  LET c == Count(s, r)
  IN  [c EXCEPT !.state = Target(c, r, f2d, r2u)]

-----------------------------------------------------------------------------
(***************************************************************************)
(* The code never reads a streak beyond "has it reached its threshold" and *)
(* "is it zero", so a streak may stop growing at its threshold.  The       *)
(* saturated machine has finitely many states; Scheduler_proofs shows that *)
(* it is the same machine.                                                 *)
(***************************************************************************)
Lesser(a, b) == IF a < b THEN a ELSE b

Saturate(s, f2d, r2u) ==
  [state   |-> s.state,
   bad     |-> Lesser(s.bad, f2d),
   warnish |-> Lesser(s.warnish, f2d),
   good    |-> Lesser(s.good, r2u)]

SaturatedObserve(s, r, f2d, r2u) == Saturate(Observe(s, r, f2d, r2u), f2d, r2u)
=============================================================================
