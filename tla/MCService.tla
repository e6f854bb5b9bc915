------------------------------ MODULE MCService ------------------------------
(* Service with a bounded number of polls, alerts, failed attempts and errors: a   *)
(* behaviour has one of several combinations of them.                              *)
EXTENDS Service, TLC

CONSTANTS ntfy, server, switch   \* a target, two monitors
CONSTANT Situations              \* bounds: what there may be in one behaviour

VARIABLE bounds                  \* the situation of this behaviour

\* notify_on: the default of every target.
DefaultNotifyOn == [x \in Targets |-> {"down", "up"}]
AllTargets == [m \in Monitors |-> Targets]

\* The server is behind the switch.
BehindSwitch == [m \in Monitors |-> IF m = server THEN {switch} ELSE {}]

\* Results observed, alerts handed over, attempts that fail at one target, rows that
\* retention removes, and loops that an error ends.
Bounds(polls, alerts, attempts, removed, errors) ==
  [polls |-> polls, alerts |-> alerts, attempts |-> attempts, removed |-> removed,
   errors |-> errors]

\* Polls inside polls, with errors of the store; reminders; both attempts at an alert;
\* retention.
FourSituations ==
  {Bounds(3, 0, 0, 0, 2), Bounds(2, 1, 0, 0, 2), Bounds(1, 1, 2, 0, 1), Bounds(1, 0, 0, 1, 2)}

\* What the bounds allow.
Within ==
  /\ bounds' = bounds
  /\ told'[server] + told'[switch] <= bounds.polls
  /\ Len(handed') <= bounds.alerts
  /\ \A x \in Targets : Len(failures'[x]) <= bounds.attempts
  /\ Cardinality(gone') <= bounds.removed
  /\ bounds.removed = 0 => at'[maintenance].doing \in {"idle", "over"}
  /\ phase' = "running" => Cardinality({x \in Tasks : at'[x].doing = "over"}) <= bounds.errors

MCNext == ServiceNext /\ Within

MCInit == ServiceInit /\ blocked = {} /\ bounds \in Situations

MCSpec == MCInit /\ [][MCNext]_<<serviceVars, bounds>>

\* Worker threads run, cancelled tasks are resumed, and the event loop goes on.
MCFairSpec ==
  /\ MCSpec
  /\ WF_serviceVars(\E j \in jobs : Work(j) /\ Within)
  /\ WF_serviceVars(Ending /\ Within)
=============================================================================
