----------------------------- MODULE Dependencies -----------------------------
(***************************************************************************)
(* The dependency graph of the enabled monitors as pure operators          *)
(* (watchpost/rollup.py and Scheduler._ancestors).  `parents' maps each    *)
(* monitor to the sequence of its depends_on in configured order; st maps  *)
(* each monitor to its state.  Config refuses cycles, so the recursive     *)
(* functions below are well founded.                                       *)
(***************************************************************************)
EXTENDS SequencesExt

CONSTANT None    \* "no blocking parent"

\* Faulty variant: a parent that is not DOWN never passes on what blocks it.
Blocks_DirectOnly(p, st, up) == st[p] = "down"

\* Faulty variant: a parent counts by what it shows, so one that is itself
\* unreachable blocks nothing.
Blocks_ShownDown(p, st, up) == st[p] = "down" /\ up[p] = None

\* One turn of blocking_parent's loop: parent p answers for the child when it
\* is DOWN, or when it is itself behind something and not UP.
Blocks(p, st, up) == st[p] = "down" \/ (up[p] # None /\ st[p] # "up")

\* Faulty variant: the child is attributed to its parent, not to the root cause.
Blocker_Nearest(ps, st, up) ==
  LET i == SelectInSeq(ps, LAMBDA p : Blocks(p, st, up))
  IN  IF i = 0 THEN None ELSE ps[i]

\* The first parent that answers, attributed to what blocks that parent.
Blocker(ps, st, up) ==
  LET i == SelectInSeq(ps, LAMBDA p : Blocks(p, st, up))
  IN  IF i = 0 THEN None
      ELSE IF up[ps[i]] # None THEN up[ps[i]] ELSE ps[i]

\* blocking_parent of every monitor.
Upstream(parents, st) ==
  LET up[m \in DOMAIN parents] == Blocker(parents[m], st, up)
  IN  up

\* Rollup.blocking_parent.
BlockingParent(parents, st, m) == Blocker(parents[m], st, Upstream(parents, st))

\* Scheduler._ancestors: everything reachable over depends_on.
Ancestors(parents, m) ==
  LET anc[x \in DOMAIN parents] ==
        Range(parents[x]) \union UNION {anc[p] : p \in Range(parents[x])}
  IN  anc[m]
=============================================================================
