------------------------------- MODULE MCWinRM -------------------------------
(* WinRM on a small pool, until MaxTime. *)
EXTENDS WinRM, TLC

CONSTANTS files, sql, print,   \* monitors: two with Kerberos, one with NTLM
          alice, bob,          \* accounts
          t1, t2               \* threads
CONSTANT MaxTime               \* bound: the latest value of the clock

AccountOfEach == files :> alice @@ sql :> bob @@ print :> None

\* Every account has a cache of its own.
OwnCache == [a \in Accounts |-> a]

MCNext == \/ \E m \in Monitors : Call(m) \/ GiveUp(m)
          \/ \E t \in Threads : Step(t)
          \/ now < MaxTime /\ Tick

MCSpec == Init /\ [][MCNext]_vars

MCFairSpec == MCSpec /\ Fairness
=============================================================================
