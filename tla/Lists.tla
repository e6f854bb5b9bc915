--------------------------------- MODULE Lists ---------------------------------
(***************************************************************************)
(* What the list comprehensions of the code do to a sequence.              *)
(***************************************************************************)
EXTENDS SequencesExt

\* A function that is a sequence.
IsList(s) == s \in Seq(Range(s))

\* The items of s that are in a set, in their order.
Only(s, kept) ==
  LET upTo[i \in 0..Len(s)] ==
        IF i = 0 THEN <<>> ELSE IF s[i] \in kept THEN Append(upTo[i - 1], s[i]) ELSE upTo[i - 1]
  IN  upTo[Len(s)]
=============================================================================
