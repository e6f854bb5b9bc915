------------------------------ MODULE MCScheduler ------------------------------
(***************************************************************************)
(* Scheduler on small dependency graphs.  Without a bound a task polls for *)
(* ever and recoveries can nest without limit, so each loop gets MaxCycles *)
(* polls of its own; the polls that confirmations and recoveries add are   *)
(* not limited.                                                            *)
(***************************************************************************)
EXTENDS Scheduler

CONSTANTS core, access, server, guest   \* names of monitors
CONSTANT MaxCycles                      \* bound: polls started by the _loop of each monitor

VARIABLE cycles                         \* how many each _loop has started

\* Dependency graphs.
PairOrder == <<core, server>>
Pair      == core :> <<>> @@ server :> <<core>>

ChainOrder == <<core, access, server>>

\* Two parents, one of them behind the other.
Uplinks == core :> <<>> @@ access :> <<core>> @@ server :> <<access, core>>

\* Thresholds and outcomes, by the monitors they are for.
OneEach  == [m \in Monitors |-> 1]
TwoEach  == [m \in Monitors |-> 2]
ThreeEach == [m \in Monitors |-> 3]
\* One poll of a monitor with parents, two of a root.
RootsTwice == [m \in Monitors |-> IF Parents[m] = <<>> THEN 2 ELSE 1]
AnyEach   == [m \in Monitors |-> Results]
PlainEach == [m \in Monitors |-> {"ok", "fail"}]
\* Monitors that others depend on answer a plain up-or-down check (ping, tcp).
PlainParents ==
  [m \in Monitors |-> IF \E c \in Monitors : m \in Range(Parents[c])
                      THEN {"ok", "fail"} ELSE Results]

MCInit == Init /\ cycles = [t \in Monitors |-> 0]

Poll(t) == /\ cycles[t] < MaxCycles[t]
           /\ StartPoll(t)
           /\ cycles' = [cycles EXCEPT ![t] = @ + 1]

Advance(t) == Continue(t) /\ UNCHANGED cycles

\* Every loop that is still alive has used up its polls. The step only keeps the
\* end of the bounded run from looking like a deadlock, so that TLC reports
\* the real ones.
Finished ==
  /\ Quiescent /\ \A t \in Monitors : cycles[t] = MaxCycles[t] \/ t \in dead
  /\ UNCHANGED <<vars, cycles>>

MCNext == Finished \/ \E t \in Monitors : Poll(t) \/ Advance(t)

MCSpec == MCInit /\ [][MCNext]_<<vars, cycles>>

\* The same with the fairness of FairSpec.
MCFairSpec == MCSpec /\ \A t \in Monitors : SF_<<vars, cycles>>(Advance(t))
=============================================================================
