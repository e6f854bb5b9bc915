------------------------------- MODULE Verdicts -------------------------------
(***************************************************************************)
(* What every check makes of what it read (watchpost/checks/base.py): a    *)
(* result with the value its thresholds apply to, and the thresholds.      *)
(* Values are whole numbers.                                               *)
(***************************************************************************)
EXTENDS Integers, SequencesExt, FiniteSetsExt

CONSTANT None

CheckResult(result, value) == [result |-> result, value |-> value]
Fail    == CheckResult("fail", None)
Ok(value) == CheckResult("ok", value)

\* How bad a result is.
Rank == [ok |-> 0, warn |-> 1, fail |-> 2]
Worst(results) == CHOOSE r \in results : \A s \in results : Rank[s] <= Rank[r]

Thresholds(direction, warn, crit) == [direction |-> direction, warn |-> warn, crit |-> crit]

Crossed(th, value, limit) ==
  limit # None /\ IF th.direction = "above" THEN value >= limit ELSE value <= limit

\* apply_thresholds: a result that is no failure gets worse by its value.
Applied(th, v) ==
  IF th = None \/ v.result = "fail" \/ v.value = None THEN v
  ELSE [v EXCEPT !.result = IF Crossed(th, v.value, th.crit) THEN "fail"
                            ELSE IF Crossed(th, v.value, th.warn) THEN "warn"
                            ELSE @]

\* pct: a share, None when there is nothing it could be a share of.
Pct(used, total) == IF used = None \/ total \in {None, 0} THEN None ELSE (100 * used) \div total

\* `x or 0'
OrZero(x) == IF x = None THEN 0 ELSE x

\* A value the message needs. Formatting one that is missing raises, and the
\* scheduler makes a failed poll of every exception of a check.
Stated(value) == IF value = None THEN Fail ELSE Ok(value)

\* A number of things that are wrong: `bad', unless there are thresholds to judge it by.
Counted(th, n, bad) == CheckResult(IF n > 0 /\ th = None THEN bad ELSE "ok", n)

\* next(... for ... in s if ..., None)
FirstOf(s, Fits(_)) == LET i == SelectInSeq(s, Fits) IN IF i = 0 THEN None ELSE s[i]
=============================================================================
