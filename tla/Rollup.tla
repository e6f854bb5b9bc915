-------------------------------- MODULE Rollup --------------------------------
(***************************************************************************)
(* The status rollup (watchpost/rollup.py): what the dashboard shows for a *)
(* monitor and for a group while the monitors' own states change under it. *)
(***************************************************************************)
EXTENDS Dependencies

CONSTANTS Order,       \* the enabled monitors in configured order, a sequence
          NonCritical, \* those with critical: false
          Group        \* the group of each monitor

States == {"pending", "up", "warn", "down"}

Monitors == Range(Order)

\* Config refuses two monitors of one name, and every monitor is in a group.
ASSUME RollupAssumption ==
  /\ Order \in Seq(Monitors)
  /\ \A i, j \in 1..Len(Order) : Order[i] = Order[j] => i = j
  /\ None \notin Monitors
  /\ DOMAIN Group = Monitors

VARIABLES parents,     \* depends_on of each monitor, fixed by the configuration
          st           \* the state of each monitor

vars == <<parents, st>>

\* SEVERITY
Severity == [down |-> 4, unreachable |-> 3, warn |-> 2, pending |-> 1, up |-> 0]

\* Rollup.effective, without the name of the blocker.
Effective(m) ==
  IF st[m] \in {"down", "warn"} /\ BlockingParent(parents, st, m) # None
  THEN "unreachable" ELSE st[m]

\* What a member counts for in its group: critical: false softens to WARN.
Counted(m) ==
  IF m \in NonCritical /\ Effective(m) \in {"down", "unreachable"}
  THEN "warn" ELSE Effective(m)

\* Faulty variant: a worse member does not clear the list of the milder ones.
Tally_KeepsMilder(g, m) ==
  CASE Severity[Counted(m)] > Severity[g.state] ->
         [state |-> Counted(m), worst |-> Append(g.worst, m)]
    [] Severity[Counted(m)] = Severity[g.state] /\ Counted(m) # "up" ->
         [g EXCEPT !.worst = Append(@, m)]
    [] OTHER -> g

\* One turn of group_states' loop for member m of a group.
Tally(g, m) ==
  CASE Severity[Counted(m)] > Severity[g.state] ->
         [state |-> Counted(m), worst |-> <<m>>]
    [] Severity[Counted(m)] = Severity[g.state] /\ Counted(m) # "up" ->
         [g EXCEPT !.worst = Append(@, m)]
    [] OTHER -> g

\* Rollup.group_states, the state and the worst members of one group, after the
\* first i monitors.
Tallied(g) ==
  LET tally[i \in 0..Len(Order)] ==
        IF i = 0 THEN [state |-> "up", worst |-> <<>>]
        ELSE IF Group[Order[i]] = g THEN Tally(tally[i - 1], Order[i]) ELSE tally[i - 1]
  IN  tally

GroupState(g) == Tallied(g)[Len(Order)]

\* The configuration: acyclic depends_on. Config._check_dependencies rejects
\* cycles, so the monitors can be listed with every parent before its
\* children; up to their names these are the lists below, each parent's
\* position before the child's.
Configured ==
  LET before(i) == {Order[j] : j \in 1..(i - 1)}
      lists(i)  == UNION {SetToSeqs(P) : P \in SUBSET before(i)}
  IN  {p \in [Monitors -> UNION {lists(i) : i \in 1..Len(Order)}] :
         \A i \in 1..Len(Order) : p[Order[i]] \in lists(i)}

Init == /\ parents \in Configured
        /\ st = [m \in Monitors |-> "pending"]

\* A poll moved m to another state (never back to PENDING).
Observe(m) == /\ \E s \in States \ {"pending", st[m]} : st' = [st EXCEPT ![m] = s]
              /\ UNCHANGED parents

Next == \E m \in Monitors : Observe(m)

Spec == Init /\ [][Next]_vars

-----------------------------------------------------------------------------
\* c is a chain of dependencies from m up to a DOWN monitor, with nothing UP
\* on the way.
OutageChain(m, c) ==
  /\ c[1] \in Range(parents[m])
  /\ \A i \in 1..(Len(c) - 1) : c[i + 1] \in Range(parents[c[i]])
  /\ \A i \in 1..Len(c) : st[c[i]] # "up"
  /\ st[c[Len(c)]] = "down"

Chains == UNION {[1..n -> Monitors] : n \in 1..(Len(Order) - 1)}

\* A monitor is behind an outage exactly when a chain of monitors that are not
\* UP leads from it to a DOWN ancestor, whatever order its parents are listed
\* in and however many of them there are. (rollup.py:38-52)
BlockedIffOutageChain ==
  \A m \in Monitors :
    BlockingParent(parents, st, m) # None <=> \E c \in Chains : OutageChain(m, c)

\* The monitor named to the user is a root cause: an ancestor that is DOWN and
\* is itself behind nothing. (rollup.py:41-43, README "UNREACHABLE via")
BlockerIsRootCause ==
  \A m \in Monitors :
    LET b == BlockingParent(parents, st, m)
    IN  b # None => /\ b \in Ancestors(parents, m)
                    /\ st[b] = "down"
                    /\ BlockingParent(parents, st, b) = None

Position(m) == CHOOSE i \in 1..Len(Order) : Order[i] = m

\* A group shows the worst that any member counts for, and lists exactly the
\* members that are that bad, in configured order. (rollup.py:63-76)
GroupShowsWorst ==
  \A g \in Range(Group) :
    LET members == {m \in Monitors : Group[m] = g}
        worst   == Max({Severity[Counted(m)] : m \in members})
        r       == GroupState(g)
    IN  /\ Severity[r.state] = worst
        /\ Range(r.worst) = IF worst = 0 THEN {}
                            ELSE {m \in members : Severity[Counted(m)] = worst}
        /\ \A i, j \in DOMAIN r.worst :
             i < j => Position(r.worst[i]) < Position(r.worst[j])

\* One more monitor going DOWN never makes another one reachable again.
OutageOnlySpreads ==
  [][\A m \in Monitors :
       st[m] # "down" /\ st'[m] = "down" =>
         \A x \in Monitors : BlockingParent(parents, st, x) # None
                               => BlockingParent(parents, st', x) # None]_vars
=============================================================================
