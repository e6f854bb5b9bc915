------------------------------- MODULE Alerter -------------------------------
(***************************************************************************)
(* Delivery of the scheduler's alerts to the notification targets          *)
(* (watchpost/alerts.py).  The alerts come from the abstract Pager: any    *)
(* alert its promise allows may be handed over at any time, because        *)
(* Scheduler._send starts a task for each and waits for none of them.      *)
(***************************************************************************)
EXTENDS Pager, SequencesExt

CONSTANTS Targets,    \* config.alerts
          NotifyOn,   \* notify_on of each target
          Wanted      \* the targets each monitor notifies: its `alerts', or all

Kinds == {"up", "warn", "down"}

ASSUME AlerterAssumption == /\ NotifyOn \in [Targets -> SUBSET Kinds]
                            /\ Wanted \in [Monitors -> SUBSET Targets]
                            /\ None \notin Monitors

VARIABLES handed,     \* the alerts handed over so far, oldest first
          pending,    \* the deliveries in progress
          inbox,      \* what each target received: positions in handed
          failures    \* failed attempts of each delivery, for the properties

alertVars == <<vars, handed, pending, inbox, failures>>

\* _deliver: attempt 1 or 2 of alert n at a target, sending or sleeping after a
\* failure.
Delivery(n, target, attempt, pc) ==
  [n |-> n, target |-> target, attempt |-> attempt, pc |-> pc]

\* notify: the targets of the monitor that want this kind of alert.
TargetsFor(a) == {x \in Wanted[a.m] : a.kind \in NotifyOn[x]}

\* Scheduler._send and Alerter.notify: a delivery per target starts.
HandOver(m) ==
  /\ Announce(m) \/ Remind(m) \/ Resolve(m)
  /\ handed' = Append(handed, sent')
  /\ pending' = pending \union
       {Delivery(Len(handed'), x, 1, "sending") : x \in TargetsFor(sent')}
  /\ UNCHANGED <<inbox, failures>>

\* The outages change, or the scheduler has nothing to say.
Idle == Quiet /\ UNCHANGED <<handed, pending, inbox, failures>>

\* The target took the alert.
Deliver(d) ==
  /\ d \in pending /\ d.pc = "sending"
  /\ inbox' = [inbox EXCEPT ![d.target] = Append(@, d.n)]
  /\ pending' = pending \ {d}
  /\ sent' = None
  /\ UNCHANGED <<open, blocked, handed, failures>>

\* The attempt raised. The target may have the alert all the same: the answer
\* was lost, or the MQTT state was published and the event was not.
Fail(d) ==
  /\ d \in pending /\ d.pc = "sending"
  /\ \/ UNCHANGED inbox
     \/ inbox' = [inbox EXCEPT ![d.target] = Append(@, d.n)]
  /\ failures' = [failures EXCEPT ![d.target] = Append(@, d.n)]
  /\ pending' = (pending \ {d}) \union {Delivery(d.n, d.target, d.attempt, "sleeping")}
  /\ sent' = None
  /\ UNCHANGED <<open, blocked, handed>>

\* Faulty variant: the loop over the attempts runs once.
Retries_Never(d) == {}

\* After the sleep: the second attempt, or nothing after it.
Retries(d) ==
  IF d.attempt = 1 THEN {Delivery(d.n, d.target, 2, "sending")} ELSE {}

WakeUp(d) ==
  /\ d \in pending /\ d.pc = "sleeping"
  /\ pending' = (pending \ {d}) \union Retries(d)
  /\ sent' = None
  /\ UNCHANGED <<open, blocked, handed, inbox, failures>>

AlertInit == /\ Init
             /\ handed = <<>>
             /\ pending = {}
             /\ inbox = [x \in Targets |-> <<>>]
             /\ failures = [x \in Targets |-> <<>>]

AlertNext == \/ \E m \in Monitors : HandOver(m)
             \/ Idle
             \/ \E d \in pending : Deliver(d) \/ Fail(d) \/ WakeUp(d)

AlertSpec == AlertInit /\ [][AlertNext]_alertVars

-----------------------------------------------------------------------------
\* How often n is in s.
Occurrences(n, s) == Cardinality({i \in DOMAIN s : s[i] = n})
=============================================================================
