--------------------------- MODULE Proposals_proofs ---------------------------
(***************************************************************************)
(* Discovery, from the configuration it starts from to the one its user    *)
(* makes with the proposals, for every configuration, network and request: *)
(* what is scanned, what loads, what is proposed, under which names, and   *)
(* that it is proposed once.  The facts about lists, targets, colours and  *)
(* slugs come first; the proof that the proposals can be pasted comes last *)
(* and uses most of them.                                                  *)
(***************************************************************************)
EXTENDS Proposals, SequenceTheorems, FiniteSetTheorems, WellFoundedInduction, TLAPS

-----------------------------------------------------------------------------
(* Induction and recursion *)

\* Every set of naturals that is not empty has a least element.
LEMMA Least ==
  ASSUME NEW T \in SUBSET Nat, T # {}
  PROVE  \E x \in T : \A y \in T : x <= y
<1> DEFINE R == {ss \in Nat \X Nat : ss[1] < ss[2]}
<1>1. IsWellFoundedOn(R, Nat)
  BY NatLessThanWellFounded DEF OpToRel
<1> HIDE DEF R
<1>2. PICK x \in T : \A y \in T : <<y, x>> \notin R
  BY <1>1, WFMin
<1>3. \A y \in T : ~(y < x)
  BY <1>2 DEF R
<1> QED
  BY <1>3

\* A set that has a number if it has all smaller ones has them all.
LEMMA UpTo ==
  ASSUME NEW N \in Nat, NEW S,
         \A n \in 0..N : (\A k \in 0..(n - 1) : k \in S) => n \in S
  PROVE  0..N \subseteq S
<1> DEFINE T == {n \in 0..N : n \notin S}
<1> SUFFICES ASSUME T # {} PROVE FALSE
  OBVIOUS
<1>1. PICK n \in T : \A k \in T : n <= k
  <2>1. T \in SUBSET Nat
    OBVIOUS
  <2> HIDE DEF T
  <2> QED
    BY <2>1, Least
<1>2. \A k \in 0..(n - 1) : k \in S
  BY <1>1
<1> QED
  BY <1>1, <1>2

\* What the turns of a loop make of a value.
Turns(N, V) == [1..N -> [V -> V]]

\* The values of a loop over 1..N that starts with b.
Looped(N, V, b, step, f) ==
  f \in [0..N -> V] /\ f[0] = b /\ \A i \in 1..N : f[i] = step[i][f[i - 1]]

\* A loop has values all the way.
LEMMA Loop ==
  ASSUME NEW N \in Nat, NEW V, NEW b \in V, NEW step \in Turns(N, V)
  PROVE  \E f : Looped(N, V, b, step, f)
<1> USE DEF Turns
<1> DEFINE Runs(f, n) == f[0] = b /\ \A i \in 1..n : f[i] = step[i][f[i - 1]]
           S == {n \in 0..N : \E f \in [0..n -> V] : Runs(f, n)}
<1>1. ASSUME NEW n \in 0..N, \A k \in 0..(n - 1) : k \in S
      PROVE  n \in S
  <2>1. CASE n = 0
    <3> DEFINE f == [i \in 0..0 |-> b]
    <3>1. f \in [0..0 -> V] /\ Runs(f, 0)
      OBVIOUS
    <3> QED
      BY <2>1, <3>1
  <2>2. CASE n # 0
    <3>1. n - 1 \in 0..(n - 1) /\ n \in 1..N /\ n - 1 \in 0..N
      BY <2>2
    <3>2. PICK f \in [0..(n - 1) -> V] : Runs(f, n - 1)
      BY <1>1, <3>1
    <3> DEFINE g == [i \in 0..n |-> IF i = n THEN step[n][f[n - 1]] ELSE f[i]]
    <3>3. step[n][f[n - 1]] \in V
      BY <3>1
    <3>4. g \in [0..n -> V]
      BY <3>1, <3>3
    <3>5. g[0] = b
      BY <2>2, <3>1, <3>2
    <3>6. ASSUME NEW i \in 1..n PROVE g[i] = step[i][g[i - 1]]
      <4>1. i - 1 \in 0..(n - 1) /\ i - 1 \in 0..n /\ i - 1 # n /\ i \in 0..n
        BY <3>1
      <4>2. g[i - 1] = f[i - 1]
        BY <4>1
      <4>3. CASE i = n
        BY <4>1, <4>2, <4>3
      <4>4. CASE i # n
        <5>1. i \in 1..(n - 1) /\ g[i] = f[i]
          BY <3>1, <4>1, <4>4
        <5> QED
          BY <3>2, <4>2, <5>1
      <4> QED
        BY <4>3, <4>4
    <3> QED
      BY <3>4, <3>5, <3>6
  <2> QED
    BY <2>1, <2>2
<1>2. 0..N \subseteq S
  <2> HIDE DEF S
  <2> QED
    BY <1>1, UpTo
<1> QED
  BY <1>2 DEF Looped

\* What a loop starts with and every turn keeps, it ends with.
LEMMA Kept ==
  ASSUME NEW N \in Nat, NEW V, NEW g, g[0] \in V,
         \A i \in 1..N : g[i - 1] \in V => g[i] \in V
  PROVE  \A i \in 0..N : g[i] \in V
<1> DEFINE S == {n \in 0..N : g[n] \in V}
<1>1. ASSUME NEW n \in 0..N, \A k \in 0..(n - 1) : k \in S
      PROVE  n \in S
  <2>1. CASE n = 0
    BY <2>1
  <2>2. CASE n # 0
    <3>1. n - 1 \in 0..(n - 1) /\ n \in 1..N
      BY <2>2
    <3> QED
      BY <1>1, <3>1
  <2> QED
    BY <2>1, <2>2
<1>2. 0..N \subseteq S
  <2> HIDE DEF S
  <2> QED
    BY <1>1, UpTo
<1> QED
  BY <1>2

\* A function on 1..n is a sequence.
LEMMA IsSequence ==
  ASSUME NEW S, NEW n \in Nat, NEW f \in [1..n -> S]
  PROVE  f \in Seq(S) /\ Len(f) = n /\ DOMAIN f = 1..n
BY SeqDef, LenProperties

-----------------------------------------------------------------------------
(* Lists *)

LEMMA RangeOfAppend ==
  ASSUME NEW S, NEW s \in Seq(S), NEW x \in S
  PROVE  Range(Append(s, x)) = Range(s) \union {x}
<1> DEFINE n == Len(s)
           t == Append(s, x)
<1>1. /\ n \in Nat /\ DOMAIN s = 1..n /\ t \in Seq(S) /\ DOMAIN t = 1..(n + 1)
      /\ t[n + 1] = x /\ \A i \in 1..n : t[i] = s[i]
  BY AppendProperties, LenProperties
<1>2. n + 1 \in 1..(n + 1) /\ \A i \in 1..(n + 1) : i \in 1..n \/ i = n + 1
  BY <1>1
<1> HIDE DEF t, n
<1>3. Range(t) = Range(s) \union {x}
  BY <1>1, <1>2 DEF Range
<1> QED
  BY <1>3 DEF t

\* What Only has after each of the items.
OnlyTurns(s, kept, S, g) ==
  /\ g \in [0..Len(s) -> Seq(S)] /\ g[0] = <<>> /\ Only(s, kept) = g[Len(s)]
  /\ \A i \in 1..Len(s) : g[i] = IF s[i] \in kept THEN Append(g[i - 1], s[i]) ELSE g[i - 1]

\* Only is a loop over the items.
LEMMA OnlyIsLoop ==
  ASSUME NEW S, NEW s \in Seq(S), NEW kept
  PROVE  \E g : OnlyTurns(s, kept, S, g)
<1> DEFINE N == Len(s)
           V == Seq(S)
           turn(i, t) == IF s[i] \in kept THEN Append(t, s[i]) ELSE t
           Entire(f) == f = [i \in 0..N |-> IF i = 0 THEN <<>> ELSE turn(i, f[i - 1])]
           step == [i \in 1..N |-> [t \in V |-> turn(i, t)]]
           start == <<>>
<1>1. N \in Nat /\ \A i \in 1..N : s[i] \in S
  BY LenProperties, ElementOfSeq
<1>2. ASSUME NEW i \in 1..N, NEW t \in V
      PROVE  turn(i, t) \in V
  BY <1>1, AppendProperties
<1>3. start \in V /\ step \in Turns(N, V)
  BY <1>2 DEF Turns
<1>4. PICK f : Looped(N, V, start, step, f)
  <2>1. N \in Nat /\ start \in V /\ step \in Turns(N, V)
    BY <1>1, <1>3
  <2> HIDE DEF step, V, N, start
  <2> QED
    BY <2>1, Loop
<1> USE <1>4 DEF Looped
<1> HIDE DEF V, turn, N
<1>5. f = [i \in 0..N |-> IF i = 0 THEN <<>> ELSE turn(i, f[i - 1])]
  <2>1. ASSUME NEW i \in 0..N, i # 0 PROVE f[i] = turn(i, f[i - 1])
    <3>1. i \in 1..N /\ f[i - 1] \in V
      BY <1>1, <2>1
    <3> QED
      BY <1>4, <3>1
  <2> QED
    BY <1>4, <2>1
<1>6. Only(s, kept) = (CHOOSE g : Entire(g))[N]
  BY DEF Only, turn, N
<1> DEFINE g == CHOOSE h : Entire(h)
<1>7. g = [i \in 0..N |-> IF i = 0 THEN <<>> ELSE turn(i, g[i - 1])]
  <2>1. Entire(f)
    BY <1>5
  <2>2. Entire(g)
    <3> HIDE DEF Entire
    <3> QED
      BY <2>1
  <2> QED
    BY <2>2
<1> HIDE DEF g
<1>8. g[0] = <<>> /\ \A i \in 1..N : g[i] = turn(i, g[i - 1])
  BY <1>1, <1>7
<1>9. ASSUME NEW i \in 1..N, g[i - 1] \in V PROVE g[i] \in V
  BY <1>1, <1>2, <1>8, <1>9
<1>10. \A i \in 0..N : g[i] \in V
  BY <1>1, <1>3, <1>8, <1>9, Kept
<1>11. g \in [0..N -> V]
  BY <1>7, <1>10
<1> QED
  BY <1>6, <1>8, <1>11 DEF g, V, turn, N, OnlyTurns

\* What is left of a list are the items that are kept.
LEMMA OnlyItems ==
  ASSUME NEW S, NEW s \in Seq(S), NEW kept
  PROVE  Only(s, kept) \in Seq(S) /\ Range(Only(s, kept)) = Range(s) \cap kept
<1> DEFINE N == Len(s)
           V == Seq(S)
<1>1. N \in Nat /\ \A i \in 1..N : s[i] \in S
  BY LenProperties, ElementOfSeq
<1>2. PICK g : OnlyTurns(s, kept, S, g)
  BY OnlyIsLoop
<1> USE <1>2 DEF OnlyTurns
<1> DEFINE T == {n \in 0..N : Range(g[n]) = {s[i] : i \in 1..n} \cap kept}
<1>3. ASSUME NEW n \in 0..N, \A k \in 0..(n - 1) : k \in T
      PROVE  n \in T
  <2>1. CASE n = 0
    BY <1>2, <2>1 DEF Range
  <2>2. CASE n # 0
    <3>1. n - 1 \in 0..(n - 1) /\ n \in 1..N /\ n - 1 \in 0..N
      BY <2>2, <1>1
    <3>2. Range(g[n - 1]) = {s[i] : i \in 1..(n - 1)} \cap kept /\ g[n - 1] \in Seq(S)
      BY <1>2, <1>3, <3>1
    <3>3. {s[i] : i \in 1..n} = {s[i] : i \in 1..(n - 1)} \union {s[n]}
      <4>1. \A i : i \in 1..n <=> i \in 1..(n - 1) \/ i = n
        BY <1>1, <3>1
      <4> QED
        BY <4>1
    <3>4. CASE s[n] \in kept
      <4>1. g[n] = Append(g[n - 1], s[n])
        BY <1>2, <3>1, <3>4
      <4>2. Range(g[n]) = Range(g[n - 1]) \union {s[n]}
        BY <1>1, <3>1, <3>2, <4>1, RangeOfAppend
      <4> QED
        BY <3>2, <3>3, <3>4, <4>2
    <3>5. CASE s[n] \notin kept
      BY <1>2, <3>1, <3>2, <3>3, <3>5
    <3> QED
      BY <3>4, <3>5
  <2> QED
    BY <2>1, <2>2
<1>4. N \in T
  <2>1. 0..N \subseteq T
    <3> HIDE DEF T
    <3> QED
      BY <1>1, <1>3, UpTo
  <2>2. N \in 0..N
    BY <1>1
  <2> HIDE DEF T
  <2> QED
    BY <2>1, <2>2
<1>5. Range(s) = {s[i] : i \in 1..N}
  BY LenProperties DEF Range
<1> QED
  BY <1>1, <1>2, <1>4, <1>5
-----------------------------------------------------------------------------
(* Targets *)

\* What Added has after each of the addresses.
AddedTurns(out, spec, excluded, g) ==
  /\ g \in [0..Len(spec.hosts) -> Seq(Addresses)] /\ g[0] = out
  /\ Added(out, spec, excluded) = g[Len(spec.hosts)]
  /\ \A i \in 1..Len(spec.hosts) :
       g[i] = IF spec.hosts[i] \in Range(g[i - 1]) \union excluded THEN g[i - 1]
              ELSE Append(g[i - 1], spec.hosts[i])

LEMMA AddedIsLoop ==
  ASSUME NEW out \in Seq(Addresses), NEW spec \in Target, NEW excluded
  PROVE  \E g : AddedTurns(out, spec, excluded, g)
<1> DEFINE N == Len(spec.hosts)
           V == Seq(Addresses)
           turn(i, t) == IF spec.hosts[i] \in Range(t) \union excluded THEN t ELSE Append(t, spec.hosts[i])
           Entire(f) == f = [i \in 0..N |-> IF i = 0 THEN out ELSE turn(i, f[i - 1])]
           step == [i \in 1..N |-> [t \in V |-> turn(i, t)]]
<1>1. N \in Nat /\ \A i \in 1..N : spec.hosts[i] \in Addresses
  BY LenProperties, ElementOfSeq DEF Target
<1>2. ASSUME NEW i \in 1..N, NEW t \in V
      PROVE  turn(i, t) \in V
  BY <1>1, AppendProperties
<1>3. out \in V /\ step \in Turns(N, V)
  BY <1>2 DEF Turns
<1>4. PICK f : Looped(N, V, out, step, f)
  <2>1. N \in Nat /\ out \in V /\ step \in Turns(N, V)
    BY <1>1, <1>3
  <2> HIDE DEF step, V, N
  <2> QED
    BY <2>1, Loop
<1> USE <1>4 DEF Looped
<1> HIDE DEF V, turn, N
<1>5. f = [i \in 0..N |-> IF i = 0 THEN out ELSE turn(i, f[i - 1])]
  <2>1. ASSUME NEW i \in 0..N, i # 0 PROVE f[i] = turn(i, f[i - 1])
    <3>1. i \in 1..N /\ f[i - 1] \in V
      BY <1>1, <2>1
    <3> QED
      BY <1>4, <3>1
  <2> QED
    BY <1>4, <2>1
<1>6. Added(out, spec, excluded) = (CHOOSE g : Entire(g))[N]
  BY DEF Added, turn, N
<1> DEFINE g == CHOOSE h : Entire(h)
<1>7. g = [i \in 0..N |-> IF i = 0 THEN out ELSE turn(i, g[i - 1])]
  <2>1. Entire(f)
    BY <1>5
  <2>2. Entire(g)
    <3> HIDE DEF Entire
    <3> QED
      BY <2>1
  <2> QED
    BY <2>2
<1> HIDE DEF g
<1>8. g[0] = out /\ \A i \in 1..N : g[i] = turn(i, g[i - 1])
  BY <1>1, <1>7
<1>9. ASSUME NEW i \in 1..N, g[i - 1] \in V PROVE g[i] \in V
  BY <1>1, <1>2, <1>8, <1>9
<1>10. \A i \in 0..N : g[i] \in V
  BY <1>1, <1>3, <1>8, <1>9, Kept
<1>11. g \in [0..N -> V]
  BY <1>7, <1>10
<1> QED
  BY <1>6, <1>8, <1>11 DEF g, V, turn, N, AddedTurns

\* Item p of out is first mentioned by item k of s, and those before it before that.
FirstAt(out, s, p, k) ==
  /\ s[k] = out[p] /\ \A l \in 1..(k - 1) : s[l] # out[p]
  /\ \A q \in 1..(p - 1) : \E l \in 1..(k - 1) : s[l] = out[q]

\* out is what the first n items of s mention and excluded does not hold, in the order
\* of the first mentions.
InOrder(out, s, n, excluded) ==
  /\ \A a : a \in Range(out) <=> a \notin excluded /\ \E k \in 1..n : s[k] = a
  /\ \A p \in 1..Len(out) : \E k \in 1..n : FirstAt(out, s, p, k)

\* One more mention.
LEMMA Mention ==
  ASSUME NEW s \in Seq(Addresses), NEW out \in Seq(Addresses), NEW excluded,
         NEW n \in Nat, n + 1 <= Len(s), InOrder(out, s, n, excluded)
  PROVE  LET next == IF s[n + 1] \in Range(out) \union excluded THEN out ELSE Append(out, s[n + 1])
         IN  InOrder(next, s, n + 1, excluded)
<1> DEFINE x == s[n + 1]
<1>1. /\ Len(s) \in Nat /\ x \in Addresses /\ Len(out) \in Nat /\ DOMAIN out = 1..Len(out)
      /\ \A k \in 1..(n + 1) : k \in 1..n \/ k = n + 1
      /\ \A k \in 1..n : k \in 1..(n + 1)
  BY LenProperties, ElementOfSeq
<1>2. CASE x \in Range(out) \union excluded
  <2>1. \A a : a \in Range(out) <=> a \notin excluded /\ \E k \in 1..(n + 1) : s[k] = a
    BY <1>1, <1>2 DEF InOrder
  <2>2. \A p \in 1..Len(out) : \E k \in 1..(n + 1) : FirstAt(out, s, p, k)
    BY <1>1 DEF InOrder
  <2>3. InOrder(out, s, n + 1, excluded)
    BY <2>1, <2>2 DEF InOrder
  <2> QED
    BY <1>2, <2>3
<1>3. CASE x \notin Range(out) \union excluded
  <2> DEFINE new == Append(out, x)
  <2>1. /\ Range(new) = Range(out) \union {x} /\ Len(new) = Len(out) + 1
        /\ new[Len(out) + 1] = x /\ \A p \in 1..Len(out) : new[p] = out[p]
    BY <1>1, RangeOfAppend, AppendProperties
  <2> HIDE DEF new
  <2>2. \A a : a \in Range(new) <=> a \notin excluded /\ \E k \in 1..(n + 1) : s[k] = a
    BY <1>1, <1>3, <2>1 DEF InOrder
  <2>3. ASSUME NEW p \in 1..Len(new)
        PROVE  \E k \in 1..(n + 1) : FirstAt(new, s, p, k)
    <3>1. CASE p \in 1..Len(out)
      <4>1. PICK k \in 1..n : FirstAt(out, s, p, k)
        BY <3>1 DEF InOrder
      <4>2. k \in 1..(n + 1) /\ new[p] = out[p] /\ \A q \in 1..(p - 1) : new[q] = out[q]
        BY <1>1, <2>1, <3>1
      <4> QED
        BY <4>1, <4>2 DEF FirstAt
    <3>2. CASE p = Len(out) + 1
      <4>1. n + 1 \in 1..(n + 1) /\ s[n + 1] = new[p] /\ n + 1 - 1 = n
        BY <1>1, <2>1, <3>2
      <4>2. \A l \in 1..n : s[l] # x
        BY <1>3 DEF InOrder
      <4>3. ASSUME NEW q \in 1..(p - 1) PROVE \E l \in 1..n : s[l] = new[q]
        <5>1. q \in 1..Len(out)
          BY <1>1, <3>2
        <5>2. new[q] = out[q] /\ out[q] \in Range(out)
          BY <1>1, <2>1, <5>1 DEF Range
        <5> QED
          BY <5>2 DEF InOrder
      <4> QED
        BY <2>1, <3>2, <4>1, <4>2, <4>3 DEF FirstAt
    <3> QED
      BY <1>1, <2>1, <3>1, <3>2
  <2>4. InOrder(new, s, n + 1, excluded)
    BY <2>2, <2>3 DEF InOrder
  <2> QED
    BY <1>3, <2>4 DEF new
<1> QED
  BY <1>2, <1>3

\* The items of s from m on are those of t.
Continues(s, m, t) ==
  /\ s \in Seq(Addresses) /\ t \in Seq(Addresses) /\ m \in Nat /\ Len(s) = m + Len(t)
  /\ \A i \in 1..Len(t) : s[m + i] = t[i]

\* A target adds what it mentions for the first time.
LEMMA AddedInOrder ==
  ASSUME NEW out \in Seq(Addresses), NEW spec \in Target, NEW excluded, NEW s, NEW m,
         Continues(s, m, spec.hosts), InOrder(out, s, m, excluded)
  PROVE  LET new == Added(out, spec, excluded)
         IN  /\ new \in Seq(Addresses) /\ Len(new) <= Len(out) + Len(spec.hosts)
             /\ InOrder(new, s, Len(s), excluded)
<1> USE DEF Continues
<1> DEFINE N == Len(spec.hosts)
<1>1. N \in Nat /\ Len(out) \in Nat
  BY LenProperties
<1>2. PICK g : AddedTurns(out, spec, excluded, g)
  BY AddedIsLoop
<1> USE <1>2 DEF AddedTurns
<1> DEFINE T == {n \in 0..N : InOrder(g[n], s, m + n, excluded) /\ Len(g[n]) <= Len(out) + n}
<1>3. ASSUME NEW n \in 0..N, \A k \in 0..(n - 1) : k \in T
      PROVE  n \in T
  <2>1. CASE n = 0
    BY <1>1, <2>1
  <2>2. CASE n # 0
    <3> DEFINE t == g[n - 1]
               j == m + (n - 1)
    <3>1. n - 1 \in 0..(n - 1) /\ n \in 1..N /\ n - 1 \in 0..N
      BY <1>1, <2>2
    <3>2. t \in Seq(Addresses) /\ InOrder(t, s, j, excluded) /\ Len(t) <= Len(out) + (n - 1)
      BY <1>3, <3>1
    <3>3. j \in Nat /\ j + 1 = m + n /\ j + 1 <= Len(s) /\ s[j + 1] = spec.hosts[n] /\ s[j + 1] \in Addresses
      BY <1>1, <3>1, ElementOfSeq
    <3>4. g[n] = IF s[j + 1] \in Range(t) \union excluded THEN t ELSE Append(t, s[j + 1])
      BY <3>1, <3>3
    <3> HIDE DEF t, j
    <3>5. InOrder(IF s[j + 1] \in Range(t) \union excluded THEN t ELSE Append(t, s[j + 1]), s, j + 1, excluded)
      BY <3>2, <3>3, Mention
    <3>6. Len(g[n]) <= Len(t) + 1 /\ Len(t) \in Nat /\ Len(g[n]) \in Nat
      BY <3>2, <3>3, <3>4, AppendProperties, LenProperties
    <3>7. InOrder(g[n], s, m + n, excluded)
      BY <3>3, <3>4, <3>5
    <3>8. Len(g[n]) <= Len(out) + n
      BY <1>1, <3>1, <3>2, <3>6
    <3> QED
      BY <3>7, <3>8
  <2> QED
    BY <2>1, <2>2
<1>4. N \in T
  <2>1. 0..N \subseteq T
    <3> HIDE DEF T
    <3> QED
      BY <1>1, <1>3, UpTo
  <2>2. N \in 0..N
    BY <1>1
  <2> HIDE DEF T
  <2> QED
    BY <2>1, <2>2
<1> QED
  BY <1>1, <1>4
\* An expansion, or an error.
Expansions == Seq(Addresses) \union {Refused}

LEMMA RefusedIsNoList == Refused \notin Seq(Addresses)
<1> SUFFICES ASSUME <<"refused">> \in Seq(Addresses) PROVE FALSE
  BY DEF Refused
<1>1. <<"refused">>[1] \in Addresses
  BY ElementOfSeq
<1> QED
  BY <1>1, TargetsAssumption

\* What Expanded has after each of the targets.
ExpandedTurns(targets, excluded, g) ==
  /\ g \in [0..Len(targets) -> Expansions] /\ g[0] = <<>>
  /\ \A i \in 1..Len(targets) :
       g[i] = IF g[i - 1] = Refused \/ Raises(targets[i]) \/ ~ Fits(g[i - 1], targets[i]) THEN Refused
              ELSE Added(g[i - 1], targets[i], excluded)

LEMMA ExpandedIsLoop ==
  ASSUME NEW targets \in Seq(Target), NEW excluded
  PROVE  ExpandedTurns(targets, excluded, Expanded(targets, excluded))
<1> DEFINE N == Len(targets)
           V == Expansions
           turn(i, t) == IF t = Refused \/ Raises(targets[i]) \/ ~ Fits(t, targets[i]) THEN Refused
                         ELSE Added(t, targets[i], excluded)
           Entire(f) == f = [i \in 0..N |-> IF i = 0 THEN <<>> ELSE turn(i, f[i - 1])]
           step == [i \in 1..N |-> [t \in V |-> turn(i, t)]]
           start == <<>>
<1>1. N \in Nat /\ \A i \in 1..N : targets[i] \in Target
  BY LenProperties, ElementOfSeq
<1>2. ASSUME NEW i \in 1..N, NEW t \in V
      PROVE  turn(i, t) \in V
  <2>1. CASE t \in Seq(Addresses) /\ turn(i, t) = Added(t, targets[i], excluded)
    <3>1. PICK g : AddedTurns(t, targets[i], excluded, g)
      BY <1>1, <2>1, AddedIsLoop
    <3>2. Len(targets[i].hosts) \in Nat
      BY <1>1, LenProperties DEF Target
    <3> QED
      BY <2>1, <3>1, <3>2 DEF AddedTurns, Expansions
  <2>2. turn(i, t) = Refused \/ (t \in Seq(Addresses) /\ turn(i, t) = Added(t, targets[i], excluded))
    BY DEF Expansions
  <2> HIDE DEF turn
  <2> QED
    BY <2>1, <2>2 DEF Expansions
<1>3. start \in V /\ step \in Turns(N, V)
  BY <1>2 DEF Turns, Expansions
<1>4. PICK f : Looped(N, V, start, step, f)
  <2>1. N \in Nat /\ start \in V /\ step \in Turns(N, V)
    BY <1>1, <1>3
  <2> HIDE DEF step, V, N, start
  <2> QED
    BY <2>1, Loop
<1> USE <1>4 DEF Looped
<1> HIDE DEF V, turn, N
<1>5. f = [i \in 0..N |-> IF i = 0 THEN <<>> ELSE turn(i, f[i - 1])]
  <2>1. ASSUME NEW i \in 0..N, i # 0 PROVE f[i] = turn(i, f[i - 1])
    <3>1. i \in 1..N /\ f[i - 1] \in V
      BY <1>1, <2>1
    <3> QED
      BY <1>4, <3>1
  <2> QED
    BY <1>4, <2>1
<1>6. Expanded(targets, excluded) = CHOOSE g : Entire(g)
  BY DEF Expanded, turn, N
<1> DEFINE g == CHOOSE h : Entire(h)
<1>7. g = [i \in 0..N |-> IF i = 0 THEN <<>> ELSE turn(i, g[i - 1])]
  <2>1. Entire(f)
    BY <1>5
  <2>2. Entire(g)
    <3> HIDE DEF Entire
    <3> QED
      BY <2>1
  <2> QED
    BY <2>2
<1> HIDE DEF g
<1>8. g[0] = <<>> /\ \A i \in 1..N : g[i] = turn(i, g[i - 1])
  BY <1>1, <1>7
<1>9. ASSUME NEW i \in 1..N, g[i - 1] \in V PROVE g[i] \in V
  BY <1>1, <1>2, <1>8, <1>9
<1>10. \A i \in 0..N : g[i] \in V
  BY <1>1, <1>3, <1>8, <1>9, Kept
<1>11. g \in [0..N -> V]
  BY <1>7, <1>10
<1> QED
  BY <1>6, <1>8, <1>11 DEF g, V, turn, N, ExpandedTurns

\* What FlattenSeq has after each of the lists.
FlatTurns(lists, S, g) ==
  /\ g \in [0..Len(lists) -> Seq(S)] /\ g[0] = <<>> /\ FlattenSeq(lists) = g[Len(lists)]
  /\ \A i \in 1..Len(lists) : g[i] = g[i - 1] \o lists[i]

LEMMA FlattenIsLoop ==
  ASSUME NEW S, NEW lists \in Seq(Seq(S))
  PROVE  \E g : FlatTurns(lists, S, g)
<1> DEFINE N == Len(lists)
           V == Seq(S)
           Entire(f) == f = [i \in 1..N |-> IF i = 1 THEN lists[i] ELSE f[i - 1] \o lists[i]]
           step == [i \in 1..N |-> [t \in V |-> t \o lists[i]]]
           start == <<>>
<1>1. N \in Nat /\ \A i \in 1..N : lists[i] \in Seq(S)
  BY LenProperties, ElementOfSeq
<1>2. ASSUME NEW i \in 1..N, NEW t \in V
      PROVE  t \o lists[i] \in V
  BY <1>1, ConcatProperties
<1>3. start \in V /\ step \in Turns(N, V)
  BY <1>2 DEF Turns
<1>4. PICK f : Looped(N, V, start, step, f)
  <2>1. N \in Nat /\ start \in V /\ step \in Turns(N, V)
    BY <1>1, <1>3
  <2> HIDE DEF step, V, N, start
  <2> QED
    BY <2>1, Loop
<1> USE <1>4 DEF Looped
<1>5. f \in [0..N -> V] /\ f[0] = <<>> /\ \A i \in 1..N : f[i] = f[i - 1] \o lists[i]
  <2>1. ASSUME NEW i \in 1..N PROVE f[i] = f[i - 1] \o lists[i]
    <3>1. i - 1 \in 0..N
      BY <1>1
    <3>2. f[i - 1] \in V
      BY <3>1
    <3> HIDE DEF V
    <3> QED
      BY <3>2
  <2> QED
    BY <2>1
<1>6. CASE N = 0
  <2>1. FlattenSeq(lists) = lists /\ lists = <<>>
    BY <1>6, EmptySeq DEF FlattenSeq
  <2> QED
    BY <1>5, <1>6, <2>1 DEF FlatTurns
<1>7. CASE N # 0
  <2> DEFINE g == CHOOSE h : Entire(h)
             r == [i \in 1..N |-> f[i]]
  <2>7. f[1] = lists[1]
    <3>1. 1 \in 1..N /\ 1 - 1 = 0
      BY <1>1, <1>7
    <3>2. f[1] = f[0] \o lists[1] /\ lists[1] \in Seq(S)
      BY <1>1, <1>5, <3>1
    <3>3. f[1] = <<>> \o lists[1]
      BY <1>5, <3>2
    <3> QED
      BY <3>2, <3>3, ConcatEmptySeq
  <2>1. FlattenSeq(lists) = g[N]
    BY <1>7 DEF FlattenSeq
  <2>2. Entire(r)
    <3>1. ASSUME NEW i \in 1..N PROVE r[i] = IF i = 1 THEN lists[i] ELSE r[i - 1] \o lists[i]
      <4>1. CASE i = 1
        BY <2>7, <4>1
      <4>2. CASE i # 1
        <5>1. i - 1 \in 1..N
          BY <1>1, <4>2
        <5> QED
          BY <1>5, <4>2, <5>1
      <4> QED
        BY <4>1, <4>2
    <3> QED
      BY <3>1
  <2>3. Entire(g)
    <3> HIDE DEF Entire, r
    <3> QED
      BY <2>2
  <2> HIDE DEF g
  <2>4. \A i \in 1..N : g[i] = IF i = 1 THEN lists[i] ELSE g[i - 1] \o lists[i]
    BY <2>3
  <2>5. \A i \in 0..N : i # 0 => g[i] = f[i]
    <3> DEFINE T == {n \in Nat : n # 0 => g[n] = f[n]}
    <3>1. ASSUME NEW n \in 0..N, \A k \in 0..(n - 1) : k \in T
          PROVE  n \in T
      <4>1. CASE n = 0
        BY <4>1
      <4>2. CASE n = 1
        <5>1. 1 \in 1..N
          BY <1>1, <1>7
        <5>2. g[1] = lists[1]
          BY <2>4, <5>1
        <5> QED
          BY <2>7, <4>2, <5>2
      <4>3. CASE n \notin {0, 1}
        <5>1. n \in 1..N /\ n - 1 \in 1..N /\ n - 1 \in 0..(n - 1) /\ n \in Nat
          BY <1>1, <4>3
        <5>2. n # 1 /\ n - 1 # 0
          BY <1>1, <4>3
        <5>4. g[n - 1] = f[n - 1]
          BY <3>1, <5>1, <5>2
        <5>5. f[n] = f[n - 1] \o lists[n]
          BY <1>5, <5>1
        <5>6. g[n] = g[n - 1] \o lists[n]
          BY <2>4, <5>1, <5>2
        <5>3. g[n] = f[n]
          BY <5>4, <5>5, <5>6
        <5> HIDE DEF g
        <5> QED
          BY <5>1, <5>3
      <4> QED
        BY <4>1, <4>2, <4>3
    <3>2. 0..N \subseteq T
      <4> HIDE DEF T
      <4> QED
        BY <1>1, <3>1, UpTo
    <3> QED
      BY <3>2
  <2>6. g[N] = f[N]
    BY <1>1, <1>7, <2>5
  <2> QED
    BY <1>5, <2>1, <2>6 DEF FlatTurns
<1> QED
  BY <1>6, <1>7

\* What is in order with the first items of a list is with those of a longer one.
LEMMA OrderCarries ==
  ASSUME NEW out, NEW s, NEW t, NEW n \in Nat, NEW excluded,
         InOrder(out, s, n, excluded), \A k \in 1..n : t[k] = s[k]
  PROVE  InOrder(out, t, n, excluded)
<1>1. \A a : (\E k \in 1..n : s[k] = a) <=> (\E k \in 1..n : t[k] = a)
  OBVIOUS
<1>2. ASSUME NEW p \in 1..Len(out)
      PROVE  \E k \in 1..n : FirstAt(out, t, p, k)
  <2>1. PICK k \in 1..n : FirstAt(out, s, p, k)
    BY DEF InOrder
  <2>2. \A l \in 1..(k - 1) : l \in 1..n
    OBVIOUS
  <2> QED
    BY <2>1, <2>2 DEF FirstAt
<1> QED
  BY <1>1, <1>2 DEF InOrder

\* The lists of addresses of the targets.
HostsOf(targets) == [i \in DOMAIN targets |-> targets[i].hosts]

LEMMA HostsOfType ==
  ASSUME NEW targets \in Seq(Target)
  PROVE  /\ HostsOf(targets) \in Seq(Seq(Addresses)) /\ Len(HostsOf(targets)) = Len(targets)
         /\ \A i \in 1..Len(targets) : HostsOf(targets)[i] = targets[i].hosts /\ targets[i] \in Target
<1> DEFINE N == Len(targets)
           V == Seq(Addresses)
           f == HostsOf(targets)
<1>1. N \in Nat /\ DOMAIN targets = 1..N /\ \A i \in 1..N : targets[i] \in Target
  BY LenProperties, ElementOfSeq
<1>2. f = [i \in 1..N |-> targets[i].hosts]
  BY <1>1 DEF HostsOf
<1>3. \A i \in 1..N : targets[i].hosts \in V
  BY <1>1 DEF Target
<1> HIDE DEF V, N, f
<1>4. f \in [1..N -> V]
  BY <1>2, <1>3
<1>5. f \in Seq(V) /\ Len(f) = N
  BY <1>1, <1>4, IsSequence
<1> QED
  BY <1>1, <1>2, <1>5 DEF V, N, f

\* What is in a list put after another.
LEMMA Joined ==
  ASSUME NEW S, NEW s \in Seq(S), NEW t \in Seq(S), NEW u, u = s \o t
  PROVE  /\ u \in Seq(S) /\ Len(u) = Len(s) + Len(t)
         /\ Len(s) \in Nat /\ Len(t) \in Nat /\ Len(u) \in Nat
         /\ \A k \in 1..Len(s) : u[k] = s[k]
         /\ \A k \in 1..Len(t) : u[Len(s) + k] = t[k]
<1>1. Len(s) \in Nat /\ Len(t) \in Nat /\ u \in Seq(S) /\ Len(u) = Len(s) + Len(t)
  BY ConcatProperties, LenProperties
<1>2. \A i \in 1..(Len(s) + Len(t)) : u[i] = IF i <= Len(s) THEN s[i] ELSE t[i - Len(s)]
  BY ConcatProperties
<1>3. \A k \in 1..Len(s) : k \in 1..(Len(s) + Len(t)) /\ k <= Len(s)
  BY <1>1
<1>4. \A k \in 1..Len(t) : /\ Len(s) + k \in 1..(Len(s) + Len(t)) /\ ~(Len(s) + k <= Len(s))
                         /\ (Len(s) + k) - Len(s) = k
  BY <1>1
<1> QED
  BY <1>1, <1>2, <1>3, <1>4

\* Why the first i targets, with these mentions, are not expanded.
TooMuch(targets, mentions, i) ==
  \/ Len(mentions) > MaxHosts
  \/ Len(mentions) = MaxHosts /\ \E k \in 1..i : targets[k].size > Len(targets[k].hosts)
  \/ \E k \in 1..i : Raises(targets[k])

\* What the expansion is after some targets: an error if they mention more than is
\* allowed or one cannot be read, and otherwise what they mention first, in order.
Progress(targets, excluded, g, h, i) ==
  /\ g[i] = Refused => TooMuch(targets, h[i], i)
  /\ g[i] # Refused => /\ g[i] \in Seq(Addresses) /\ Len(g[i]) <= Len(h[i])
                       /\ InOrder(g[i], h[i], Len(h[i]), excluded)

LEMMA NextTarget ==
  ASSUME NEW targets \in Seq(Target), NEW excluded, NEW g, NEW h, NEW i \in 1..Len(targets),
         ExpandedTurns(targets, excluded, g), FlatTurns(HostsOf(targets), Addresses, h),
         Progress(targets, excluded, g, h, i - 1)
  PROVE  Progress(targets, excluded, g, h, i)
<1> DEFINE t == targets[i]
           out == g[i - 1]
           before == h[i - 1]
           now == h[i]
<1>1. /\ t \in Target /\ t.hosts \in Seq(Addresses) /\ before \in Seq(Addresses)
      /\ now = before \o t.hosts /\ i - 1 \in 0..Len(targets) /\ i - 1 \in Nat
  <2>1. i - 1 \in 0..Len(targets) /\ i - 1 \in Nat /\ Len(targets) \in Nat
    BY LenProperties
  <2>2. t \in Target /\ HostsOf(targets)[i] = t.hosts /\ Len(HostsOf(targets)) = Len(targets)
    BY HostsOfType
  <2>3. before \in Seq(Addresses) /\ now = before \o t.hosts
    BY <2>1, <2>2 DEF FlatTurns
  <2> QED
    BY <2>1, <2>2, <2>3 DEF Target
<1>2. /\ now \in Seq(Addresses) /\ Len(now) = Len(before) + Len(t.hosts)
      /\ Len(before) \in Nat /\ Len(t.hosts) \in Nat /\ Len(now) \in Nat
      /\ \A k \in 1..Len(before) : now[k] = before[k]
      /\ \A k \in 1..Len(t.hosts) : now[Len(before) + k] = t.hosts[k]
  <2> DEFINE b == t.hosts
  <2>1. b \in Seq(Addresses) /\ before \in Seq(Addresses) /\ now = before \o b
    BY <1>1
  <2> HIDE DEF b, before, now
  <2>2. /\ now \in Seq(Addresses) /\ Len(now) = Len(before) + Len(b)
        /\ Len(before) \in Nat /\ Len(b) \in Nat /\ Len(now) \in Nat
        /\ \A k \in 1..Len(before) : now[k] = before[k]
        /\ \A k \in 1..Len(b) : now[Len(before) + k] = b[k]
    BY <2>1, Joined
  <2> QED
    BY <2>2 DEF b
<1>3. Continues(now, Len(before), t.hosts)
  BY <1>1, <1>2 DEF Continues
<1>4. g[i] = IF out = Refused \/ Raises(t) \/ ~ Fits(out, t) THEN Refused ELSE Added(out, t, excluded)
  BY DEF ExpandedTurns
<1>5. /\ out = Refused => TooMuch(targets, before, i - 1)
      /\ out # Refused => /\ out \in Seq(Addresses) /\ Len(out) <= Len(before)
                          /\ InOrder(out, before, Len(before), excluded)
  BY DEF Progress
<1>6. MaxHosts \in Nat /\ Refused \notin Seq(Addresses)
  BY TargetsAssumption, RefusedIsNoList
<1> HIDE DEF out, before, now
<1>7. CASE out = Refused
  <2>1. TooMuch(targets, now, i)
    <3>1. TooMuch(targets, before, i - 1) /\ \A k \in 1..(i - 1) : k \in 1..i
      BY <1>5, <1>7
    <3> HIDE DEF t
    <3> QED
      BY <1>2, <1>6, <3>1 DEF TooMuch
  <2>2. g[i] = Refused
    BY <1>4, <1>7
  <2> QED
    BY <2>1, <2>2 DEF Progress, now
<1>8. CASE Raises(t)
  BY <1>4, <1>8 DEF Progress, TooMuch
<1>9. CASE out # Refused /\ ~ Fits(out, t)
  <2>1. t.size > MaxHosts - Len(out) /\ Len(out) <= Len(before) /\ Len(out) \in Nat
    BY <1>1, <1>2, <1>5, <1>6, <1>9, LenProperties DEF Fits, Target
  <2>4. t.size = Len(t.hosts) \/ t.size = Len(t.hosts) + 1
    BY <1>1, <1>9 DEF Fits, Target
  <2>2. TooMuch(targets, now, i)
    <3>1. i \in 1..i /\ (Len(now) > MaxHosts \/ (Len(now) = MaxHosts /\ t.size > Len(t.hosts)))
      <4>1. t.size > MaxHosts - Len(out) /\ Len(out) <= Len(before) /\ Len(out) \in Nat
            /\ (t.size = Len(t.hosts) \/ t.size = Len(t.hosts) + 1) /\ MaxHosts \in Nat
        BY <1>6, <2>1, <2>4
      <4>2. Len(now) = Len(before) + Len(t.hosts) /\ Len(before) \in Nat /\ Len(t.hosts) \in Nat
        BY <1>2
      <4> HIDE DEF t
      <4> QED
        BY <4>1, <4>2
    <3> QED
      BY <3>1 DEF TooMuch
  <2>3. g[i] = Refused
    BY <1>4, <1>9
  <2> QED
    BY <2>2, <2>3 DEF Progress, now
<1>10. CASE out # Refused /\ ~ Raises(t) /\ Fits(out, t)
  <2>1. g[i] = Added(out, t, excluded)
    BY <1>4, <1>10
  <2>2. out \in Seq(Addresses) /\ Len(out) <= Len(before) /\ InOrder(out, before, Len(before), excluded)
    BY <1>5, <1>10
  <2>3. InOrder(out, now, Len(before), excluded)
    BY <1>2, <2>2, OrderCarries
  <2>4. /\ g[i] \in Seq(Addresses) /\ Len(g[i]) <= Len(out) + Len(t.hosts)
        /\ InOrder(g[i], now, Len(now), excluded)
    <3> HIDE DEF t
    <3> QED
      BY <1>1, <1>3, <2>1, <2>2, <2>3, AddedInOrder
  <2>5. Len(g[i]) <= Len(now)
    BY <1>2, <2>2, <2>4, LenProperties
  <2>6. g[i] # Refused
    BY <1>6, <2>4
  <2> QED
    BY <2>4, <2>5, <2>6 DEF Progress, now
<1> QED
  BY <1>7, <1>8, <1>9, <1>10

\* Why targets with these mentions are not expanded.
Unreadable(targets, exclude, mentions) ==
  \/ Len(mentions) > MaxHosts
  \/ Len(mentions) = MaxHosts /\ \E x \in Range(targets) : x.size > Len(x.hosts)
  \/ \E x \in Range(exclude) : x.size > MaxExcluded
  \/ \E x \in Range(targets) \union Range(exclude) : Raises(x)

\* expand_targets: all that the targets mention, or an error for a reason.
LEMMA ExpandSound ==
  ASSUME NEW targets \in Seq(Target), NEW exclude \in Seq(Target)
  PROVE  LET all == Expand(targets, exclude)
             s   == FlattenSeq(HostsOf(targets))
         IN  /\ s \in Seq(Addresses)
             /\ all = Refused => Unreadable(targets, exclude, s)
             /\ all # Refused => /\ all \in Seq(Addresses) /\ Len(all) <= MaxHosts
                                 /\ InOrder(all, s, Len(s), Excluded(exclude))
<1> DEFINE N == Len(targets)
           excluded == Excluded(exclude)
           g == Expanded(targets, excluded)
           s == FlattenSeq(HostsOf(targets))
<1>1. N \in Nat /\ DOMAIN targets = 1..N /\ ExpandedTurns(targets, excluded, g)
  BY LenProperties, ExpandedIsLoop
<1>2. PICK h : FlatTurns(HostsOf(targets), Addresses, h)
  BY HostsOfType, FlattenIsLoop
<1>3. Len(HostsOf(targets)) = N
  BY HostsOfType
<1>4. s = h[N] /\ s \in Seq(Addresses) /\ h[0] = <<>>
  BY <1>1, <1>2, <1>3 DEF FlatTurns
<1> HIDE DEF g, s
<1>5. Progress(targets, excluded, g, h, 0)
  <2>1. g[0] = <<>> /\ <<>> # Refused
    BY <1>1 DEF ExpandedTurns, Refused
  <2>2. InOrder(<<>>, <<>>, 0, excluded)
    BY DEF InOrder, Range
  <2> QED
    BY <1>4, <2>1, <2>2 DEF Progress
<1>6. \A i \in 0..N : Progress(targets, excluded, g, h, i)
  <2> DEFINE S == {i \in Nat : Progress(targets, excluded, g, h, i)}
  <2>1. ASSUME NEW n \in 0..N, \A k \in 0..(n - 1) : k \in S PROVE n \in S
    <3>1. CASE n = 0
      BY <1>5, <3>1
    <3>2. CASE n # 0
      <4>1. n \in 1..N /\ n - 1 \in 0..(n - 1) /\ n \in Nat
        BY <1>1, <3>2
      <4>2. Progress(targets, excluded, g, h, n - 1)
        BY <2>1, <4>1
      <4>3. Progress(targets, excluded, g, h, n)
        BY <1>1, <1>2, <4>1, <4>2, NextTarget
      <4> QED
        BY <4>1, <4>3
    <3> QED
      BY <3>1, <3>2
  <2>2. 0..N \subseteq S
    <3> HIDE DEF S
    <3> QED
      BY <1>1, <2>1, UpTo
  <2> QED
    BY <2>2
<1>7. Progress(targets, excluded, g, h, N)
  BY <1>1, <1>6
<1>8. Expand(targets, exclude) =
        IF ~ AllExcludable(exclude) \/ g[N] = Refused \/ Len(g[N]) > MaxHosts THEN Refused ELSE g[N]
  BY DEF Expand, g
<1>9. \A k \in 1..N : targets[k] \in Range(targets)
  BY <1>1 DEF Range
<1>10. ASSUME Expand(targets, exclude) = Refused
       PROVE  Unreadable(targets, exclude, s)
  <2>1. CASE g[N] = Refused
    <3>1. TooMuch(targets, s, N)
      BY <1>4, <1>7, <2>1 DEF Progress
    <3> QED
      BY <1>9, <3>1 DEF TooMuch, Unreadable
  <2>2. CASE g[N] # Refused
    <3>1. Len(g[N]) <= Len(s) /\ Len(g[N]) \in Nat /\ Len(s) \in Nat /\ MaxHosts \in Nat
      BY <1>4, <1>7, <2>2, LenProperties, TargetsAssumption DEF Progress
    <3>2. CASE AllExcludable(exclude)
      <4>1. Len(s) > MaxHosts
        BY <1>8, <1>10, <2>2, <3>1, <3>2
      <4> QED
        BY <4>1 DEF Unreadable
    <3>3. CASE ~ AllExcludable(exclude)
      <4>1. PICK x \in Range(exclude) : Raises(x) \/ ~ Excludable(x)
        BY <3>3 DEF AllExcludable
      <4>2. x \in Target
        <5>1. PICK k \in 1..Len(exclude) : x = exclude[k]
          BY <4>1, LenProperties DEF Range
        <5> QED
          BY <5>1, ElementOfSeq
      <4>3. x.size \in Nat /\ MaxExcluded \in Nat
        BY <4>2, TargetsAssumption DEF Target
      <4>4. Raises(x) \/ x.size > MaxExcluded
        BY <4>1, <4>3 DEF Excludable
      <4> QED
        BY <4>1, <4>4 DEF Unreadable
    <3> QED
      BY <3>2, <3>3
  <2> QED
    BY <2>1, <2>2
<1>11. ASSUME Expand(targets, exclude) # Refused
       PROVE  LET all == Expand(targets, exclude)
              IN  /\ all \in Seq(Addresses) /\ Len(all) <= MaxHosts
                  /\ InOrder(all, s, Len(s), excluded)
  <2>1. g[N] # Refused /\ Expand(targets, exclude) = g[N] /\ ~(Len(g[N]) > MaxHosts)
    BY <1>8, <1>11
  <2>2. g[N] \in Seq(Addresses) /\ InOrder(g[N], s, Len(s), excluded)
    BY <1>4, <1>7, <2>1 DEF Progress
  <2>3. Len(g[N]) \in Nat /\ MaxHosts \in Nat
    BY <2>2, LenProperties, TargetsAssumption
  <2> QED
    BY <2>1, <2>2, <2>3
<1> QED
  BY <1>4, <1>10, <1>11 DEF s, Unreadable

-----------------------------------------------------------------------------
(* What is scanned *)

LEMMA AllTargetsType ==
  ASSUME NEW r \in ScanRequest
  PROVE  AllTargets(r) \in Seq(Target)
<1> DEFINE names == DirectoryNames(r.computers, r.include_disabled)
           n == Len(names)
           singles == [i \in DOMAIN names |-> Single(names[i])]
<1>1. names \in Seq(Addresses)
  BY TargetsAssumption, OnlyItems DEF DirectoryNames
<1> HIDE DEF names
<1>2. n \in Nat /\ DOMAIN names = 1..n /\ \A i \in 1..n : names[i] \in Addresses
  BY <1>1, LenProperties, ElementOfSeq
<1>3. ASSUME NEW a \in Addresses PROVE Single(a) \in Target
  <2>1. <<a>> \in Seq(Addresses)
    OBVIOUS
  <2> QED
    BY <2>1 DEF Single, Target
<1>4. singles = [i \in 1..n |-> Single(names[i])] /\ \A i \in 1..n : Single(names[i]) \in Target
  BY <1>2, <1>3
<1> HIDE DEF n, singles
<1>5. singles \in [1..n -> Target]
  BY <1>4
<1>6. singles \in Seq(Target)
  BY <1>2, <1>5, IsSequence
<1>7. r.targets \in Seq(Target)
  BY DEF ScanRequest
<1>8. AllTargets(r) = r.targets \o singles
  BY DEF AllTargets, singles, names
<1> QED
  BY <1>6, <1>7, <1>8, ConcatProperties

LEMMA ReverseType ==
  ASSUME NEW S, NEW s \in Seq(S)
  PROVE  Reverse(s) \in Seq(S)
<1> DEFINE n == Len(s)
           f == Reverse(s)
<1>1. n \in Nat /\ \A i \in 1..n : s[(n - i) + 1] \in S
  <2>1. n \in Nat /\ \A i \in 1..n : s[i] \in S
    BY LenProperties, ElementOfSeq
  <2>2. \A i \in 1..n : (n - i) + 1 \in 1..n
    BY <2>1
  <2> QED
    BY <2>1, <2>2
<1>2. f = [i \in 1..n |-> s[(n - i) + 1]]
  BY DEF Reverse
<1> HIDE DEF f, n
<1>3. f \in [1..n -> S]
  BY <1>1, <1>2
<1>4. f \in Seq(S)
  BY <1>1, <1>3, IsSequence
<1> QED
  BY <1>4 DEF f

\* What becomes of the request.
Outcome == Scanned(request, DOMAIN settings.credentials)

\* hosts is what becomes of the request, as long as it is the one that was scanned.
ScanInv ==
  /\ request \in ScanRequest
  /\ phase \in {"render", "done"} => hosts = Outcome /\ hosts # Refused

LEMMA ScanStep == ScanInv /\ [ProposalsNext]_proposalVars => ScanInv'
<1> SUFFICES ASSUME ScanInv, [ProposalsNext]_proposalVars PROVE ScanInv'
  OBVIOUS
<1> USE DEF ScanInv
<1>1. CASE Load
  <2>1. request' = request /\ Outcome' = Outcome
    BY <1>1 DEF Load, asked, Outcome
  <2>2. phase' \in {"render", "done"} => hosts' = Outcome /\ hosts' # Refused
    BY <1>1 DEF Load, Outcome
  <2> QED
    BY <2>1, <2>2
<1>2. CASE SkipConfigured
  BY <1>2 DEF SkipConfigured, asked, Outcome
<1>3. CASE KeepNew
  BY <1>3 DEF KeepNew, asked, Outcome
<1>4. CASE NextHost
  BY <1>4 DEF NextHost, asked, Outcome
<1>7. CASE FailOnInvalid
  BY <1>7 DEF FailOnInvalid, asked
<1>5. CASE Adopt
  <2>1. PICK targets \in {request.targets, Reverse(request.targets)} : request' = [request EXCEPT !.targets = targets]
    BY <1>5 DEF Adopt
  <2>2. targets \in Seq(Target)
    BY <2>1, ReverseType DEF ScanRequest
  <2>3. request' \in ScanRequest
    BY <2>1, <2>2 DEF ScanRequest
  <2> QED
    BY <1>5, <2>3 DEF Adopt
<1>6. CASE UNCHANGED proposalVars
  BY <1>6 DEF proposalVars, asked, Outcome
<1> QED
  BY <1>1, <1>2, <1>3, <1>4, <1>5, <1>6, <1>7 DEF ProposalsNext

LEMMA ScanInvariance == ProposalsSpec => []ScanInv
<1>1. ProposalsInit => ScanInv
  BY ProposalsAssumption DEF ProposalsInit, ScanInv
<1> QED
  BY <1>1, ScanStep, PTL DEF ProposalsSpec

\* The position of the first mention.
LEMMA FirstMention ==
  ASSUME NEW s \in Seq(Addresses), NEW a, NEW k \in 1..Len(s),
         s[k] = a, \A l \in 1..(k - 1) : s[l] # a
  PROVE  SelectInSeq(s, LAMBDA b : b = a) = k
<1> DEFINE I == {i \in 1..Len(s) : s[i] = a}
<1>1. Len(s) \in Nat /\ k \in I
  BY LenProperties
<1>2. \A i \in I : k <= i
  BY <1>1
<1>3. \A x \in I : (\A y \in I : x <= y) => x = k
  BY <1>1, <1>2
<1>4. SelectInSeq(s, LAMBDA b : b = a) = Min(I)
  BY <1>1 DEF SelectInSeq
<1> HIDE DEF I
<1> QED
  BY <1>1, <1>2, <1>3, <1>4 DEF Min

\* Why a request is refused.
Unscannable ==
  \/ \E c \in Range(request.credentials) : c \notin DOMAIN settings.credentials
  \/ request.unresolved
  \/ ~ request.answers
  \/ Range(AllTargets(request)) = {}
  \/ Unreadable(AllTargets(request), request.exclude, Mentioned)

LEMMA ScannedSound == ScanInv => ScansTheRequest /\ (Outcome = Refused => Unscannable)
<1> SUFFICES ASSUME ScanInv PROVE ScansTheRequest /\ (Outcome = Refused => Unscannable)
  OBVIOUS
<1> DEFINE targets == AllTargets(request)
           s == Mentioned
           all == Expand(targets, request.exclude)
<1>1. targets \in Seq(Target) /\ request.exclude \in Seq(Target) /\ s = FlattenSeq(HostsOf(targets))
  BY AllTargetsType DEF ScanInv, ScanRequest, Mentioned, HostsOf
<1>2. /\ s \in Seq(Addresses)
      /\ all = Refused => Unreadable(targets, request.exclude, s)
      /\ all # Refused => /\ all \in Seq(Addresses) /\ Len(all) <= MaxHosts
                          /\ InOrder(all, s, Len(s), Excluded(request.exclude))
  <2> HIDE DEF targets, s
  <2> QED
    BY <1>1, ExpandSound
<1>3. Outcome = IF \/ ~ (Range(request.credentials) \subseteq DOMAIN settings.credentials)
                   \/ request.unresolved \/ ~ request.answers \/ targets = <<>>
                THEN Refused ELSE all
  BY DEF Outcome, Scanned
<1>4. ASSUME Outcome = Refused PROVE Unscannable
  <2>1. targets = <<>> => Range(targets) = {}
    BY DEF Range
  <2> HIDE DEF all, s, targets
  <2>2. \/ ~ (Range(request.credentials) \subseteq DOMAIN settings.credentials)
        \/ request.unresolved \/ ~ request.answers \/ targets = <<>>
        \/ Unreadable(targets, request.exclude, s)
    BY <1>2, <1>3, <1>4
  <2> QED
    BY <2>1, <2>2 DEF Unscannable, s, targets
<1>5. ScansTheRequest
  <2> DEFINE First(a) == SelectInSeq(s, LAMBDA b : b = a)
  <2>1. SUFFICES ASSUME phase \in {"render", "done"}
        PROVE  /\ Range(hosts) = Range(s) \ Excluded(request.exclude)
               /\ \A i, j \in DOMAIN hosts : i < j => First(hosts[i]) < First(hosts[j])
               /\ Len(hosts) <= MaxHosts
    BY DEF ScansTheRequest
  <2>2. hosts = all /\ all # Refused
    <3>1. hosts = Outcome /\ Outcome # Refused
      BY <2>1 DEF ScanInv
    <3> HIDE DEF all
    <3> QED
      BY <1>3, <3>1
  <2> HIDE DEF all, s
  <2>3. hosts \in Seq(Addresses) /\ Len(hosts) <= MaxHosts /\ InOrder(hosts, s, Len(s), Excluded(request.exclude))
    BY <1>2, <2>2
  <2>4. /\ Len(s) \in Nat /\ DOMAIN s = 1..Len(s) /\ Len(hosts) \in Nat /\ DOMAIN hosts = 1..Len(hosts)
    BY <1>2, <2>3, LenProperties
  <2>5. Range(hosts) = Range(s) \ Excluded(request.exclude)
    <3>1. \A a : a \in Range(s) <=> \E k \in 1..Len(s) : s[k] = a
      BY <2>4 DEF Range
    <3> QED
      BY <2>3, <3>1 DEF InOrder
  <2>6. ASSUME NEW i \in DOMAIN hosts, NEW j \in DOMAIN hosts, i < j
        PROVE  First(hosts[i]) < First(hosts[j])
    <3>1. PICK k \in 1..Len(s) : FirstAt(hosts, s, i, k)
      BY <2>3, <2>4 DEF InOrder
    <3>2. PICK m \in 1..Len(s) : FirstAt(hosts, s, j, m)
      BY <2>3, <2>4 DEF InOrder
    <3>3. First(hosts[i]) = k
      BY <1>2, <3>1, FirstMention DEF FirstAt
    <3>4. First(hosts[j]) = m
      BY <1>2, <3>2, FirstMention DEF FirstAt
    <3>5. i \in 1..(j - 1)
      BY <2>4, <2>6
    <3>6. PICK l \in 1..(m - 1) : s[l] = hosts[i]
      BY <3>2, <3>5 DEF FirstAt
    <3>7. ~(l <= k - 1)
      BY <2>4, <3>1, <3>6 DEF FirstAt
    <3> QED
      BY <2>4, <3>3, <3>4, <3>6, <3>7
  <2> QED
    BY <2>3, <2>5, <2>6
<1> QED
  BY <1>4, <1>5

\* Every scan covers exactly what was asked for, each host once and in the order of the
\* targets, whatever they are. (expand_targets)
THEOREM RequestScanned == ProposalsSpec => []ScansTheRequest
  BY ScanInvariance, ScannedSound, PTL

-----------------------------------------------------------------------------
(* The search for cycles *)

Ends(ms) == Colours(ms) \union {Cycle}
Visitors(ms) == [Calls(ms) -> Ends(ms)]

Grey(ms, c) == {i \in DOMAIN ms : c[i] = "grey"}
Black(ms, c) == {i \in DOMAIN ms : c[i] = "black"}

\* Monitors that have parents among them, by position.
ListOfMonitors(ms) ==
  /\ Len(ms) \in Nat /\ DOMAIN ms = 1..Len(ms)
  /\ \A i \in DOMAIN ms : ParentsOf(ms, i) \in Seq(DOMAIN ms)

\* Monitors each of which has a parent among them.
Trap(ms, S) ==
  S # {} /\ S \subseteq DOMAIN ms /\ \A i \in S : Range(ParentsOf(ms, i)) \cap S # {}

LEMMA CallParts ==
  ASSUME NEW ms, NEW call \in Calls(ms)
  PROVE  call[1] \in DOMAIN ms /\ call[2] \in Colours(ms) /\ call = <<call[1], call[2]>>
<1> DEFINE D == DOMAIN ms
           C == Colours(ms)
<1>1. call \in D \X C
  BY DEF Calls
<1> HIDE DEF D, C
<1>2. call[1] \in D /\ call[2] \in C /\ call = <<call[1], call[2]>>
  BY <1>1
<1> QED
  BY <1>2 DEF D, C

LEMMA CallMade ==
  ASSUME NEW ms, NEW i \in DOMAIN ms, NEW c \in Colours(ms)
  PROVE  <<i, c>> \in Calls(ms)
<1> DEFINE D == DOMAIN ms
           C == Colours(ms)
<1>1. i \in D /\ c \in C
  OBVIOUS
<1> HIDE DEF D, C
<1>2. <<i, c>> \in D \X C
  BY <1>1
<1> QED
  BY <1>2 DEF D, C, Calls

LEMMA CycleIsNoColour ==
  ASSUME NEW ms, ListOfMonitors(ms)
  PROVE  Cycle \notin Colours(ms)
<1> SUFFICES ASSUME <<"cycle">> \in [1..Len(ms) -> {"white", "grey", "black"}] PROVE FALSE
  BY DEF Colours, Cycle, ListOfMonitors
<1>1. DOMAIN <<"cycle">> = 1..1 /\ <<"cycle">>[1] = "cycle"
  OBVIOUS
<1>2. 1 \in 1..Len(ms)
  BY <1>1
<1> QED
  BY <1>1, <1>2

\* What VisitAll has after each of the monitors.
VisitTurns(ms, visit, monitors, c, g) ==
  /\ g \in [0..Len(monitors) -> Ends(ms)] /\ g[0] = c
  /\ VisitAll(visit, monitors, c) = g[Len(monitors)]
  /\ \A i \in 1..Len(monitors) : g[i] = IF g[i - 1] = Cycle THEN Cycle ELSE visit[<<monitors[i], g[i - 1]>>]

LEMMA VisitAllIsLoop ==
  ASSUME NEW ms, ListOfMonitors(ms), NEW visit \in Visitors(ms), NEW monitors \in Seq(DOMAIN ms),
         NEW c \in Colours(ms)
  PROVE  \E g : VisitTurns(ms, visit, monitors, c, g)
<1> DEFINE N == Len(monitors)
           V == Ends(ms)
           turn(i, t) == IF t = Cycle THEN Cycle ELSE visit[<<monitors[i], t>>]
           Entire(f) == f = [i \in 0..N |-> IF i = 0 THEN c ELSE turn(i, f[i - 1])]
           step == [i \in 1..N |-> [t \in V |-> turn(i, t)]]
<1>1. N \in Nat /\ \A i \in 1..N : monitors[i] \in DOMAIN ms
  BY LenProperties, ElementOfSeq
<1>2. ASSUME NEW i \in 1..N, NEW t \in V
      PROVE  turn(i, t) \in V
  <2>1. CASE t = Cycle
    BY <2>1 DEF Ends
  <2>2. CASE t # Cycle
    <3>1. <<monitors[i], t>> \in Calls(ms)
      <4>1. monitors[i] \in DOMAIN ms /\ t \in Colours(ms)
        BY <1>1, <2>2 DEF Ends
      <4> QED
        BY <4>1, CallMade
    <3>2. visit[<<monitors[i], t>>] \in V
      <4> HIDE DEF V
      <4> QED
        BY <3>1 DEF Visitors, V
    <3> QED
      BY <2>2, <3>2
  <2> QED
    BY <2>1, <2>2
<1>3. c \in V /\ step \in Turns(N, V)
  BY <1>2 DEF Turns, Ends
<1>4. PICK f : Looped(N, V, c, step, f)
  <2>1. N \in Nat /\ c \in V /\ step \in Turns(N, V)
    BY <1>1, <1>3
  <2> HIDE DEF step, V, N
  <2> QED
    BY <2>1, Loop
<1> USE <1>4 DEF Looped
<1> HIDE DEF V, turn, N
<1>5. f = [i \in 0..N |-> IF i = 0 THEN c ELSE turn(i, f[i - 1])]
  <2>1. ASSUME NEW i \in 0..N, i # 0 PROVE f[i] = turn(i, f[i - 1])
    <3>1. i \in 1..N /\ f[i - 1] \in V
      BY <1>1, <2>1
    <3> QED
      BY <1>4, <3>1
  <2> QED
    BY <1>4, <2>1
<1>6. VisitAll(visit, monitors, c) = (CHOOSE g : Entire(g))[N]
  BY DEF VisitAll, turn, N
<1> DEFINE g == CHOOSE h : Entire(h)
<1>7. g = [i \in 0..N |-> IF i = 0 THEN c ELSE turn(i, g[i - 1])]
  <2>1. Entire(f)
    BY <1>5
  <2>2. Entire(g)
    <3> HIDE DEF Entire
    <3> QED
      BY <2>1
  <2> QED
    BY <2>2
<1> HIDE DEF g
<1>8. g[0] = c /\ \A i \in 1..N : g[i] = turn(i, g[i - 1])
  BY <1>1, <1>7
<1>9. ASSUME NEW i \in 1..N, g[i - 1] \in V PROVE g[i] \in V
  BY <1>1, <1>2, <1>8, <1>9
<1>10. \A i \in 0..N : g[i] \in V
  BY <1>1, <1>3, <1>8, <1>9, Kept
<1>11. g \in [0..N -> V]
  BY <1>7, <1>10
<1> QED
  BY <1>6, <1>8, <1>11 DEF g, V, turn, N, VisitTurns

LEMMA VisitAllType ==
  ASSUME NEW ms, ListOfMonitors(ms), NEW visit \in Visitors(ms), NEW monitors \in Seq(DOMAIN ms),
         NEW c \in Colours(ms)
  PROVE  VisitAll(visit, monitors, c) \in Ends(ms)
<1>1. PICK g : VisitTurns(ms, visit, monitors, c, g)
  BY VisitAllIsLoop
<1>2. Len(monitors) \in 0..Len(monitors)
  BY LenProperties
<1> QED
  BY <1>1, <1>2 DEF VisitTurns

LEMMA VisitOneType ==
  ASSUME NEW ms, ListOfMonitors(ms), NEW visit \in Visitors(ms), NEW call \in Calls(ms)
  PROVE  VisitOne(ms, visit, call[1], call[2]) \in Ends(ms)
<1> DEFINE i == call[1]
           c == call[2]
           after == VisitAll(visit, ParentsOf(ms, i), [c EXCEPT ![i] = "grey"])
<1>1. i \in DOMAIN ms /\ c \in Colours(ms)
  BY CallParts
<1> HIDE DEF i, c
<1>2. [c EXCEPT ![i] = "grey"] \in Colours(ms)
  BY <1>1 DEF Colours
<1>3. after \in Ends(ms)
  BY <1>1, <1>2, VisitAllType DEF ListOfMonitors
<1>4. after # Cycle => [after EXCEPT ![i] = "black"] \in Colours(ms)
  BY <1>1, <1>3 DEF Ends, Colours
<1>5. c[i] \in {"white", "grey", "black"}
  BY <1>1 DEF Colours
<1> QED
  BY <1>1, <1>4, <1>5 DEF VisitOne, Ends, i, c

\* What is within reach of Visit at each depth.
DepthTurns(ms, g) ==
  /\ g \in [0..Len(ms) -> Visitors(ms)] /\ g[0] = [call \in Calls(ms) |-> Cycle]
  /\ Visit(ms) = g[Len(ms)]
  /\ \A i \in 1..Len(ms) : g[i] = [call \in Calls(ms) |-> VisitOne(ms, g[i - 1], call[1], call[2])]

LEMMA VisitIsLoop ==
  ASSUME NEW ms, ListOfMonitors(ms)
  PROVE  \E g : DepthTurns(ms, g)
<1> DEFINE N == Len(ms)
           V == Visitors(ms)
           start == [call \in Calls(ms) |-> Cycle]
           turn(t) == [call \in Calls(ms) |-> VisitOne(ms, t, call[1], call[2])]
           Entire(f) == f = [i \in 0..N |-> IF i = 0 THEN start ELSE turn(f[i - 1])]
           step == [i \in 1..N |-> [t \in V |-> turn(t)]]
<1>1. N \in Nat
  BY DEF ListOfMonitors
<1>2. ASSUME NEW t \in V PROVE turn(t) \in V
  <2>1. \A call \in Calls(ms) : VisitOne(ms, t, call[1], call[2]) \in Ends(ms)
    BY VisitOneType
  <2> QED
    BY <2>1 DEF Visitors
<1>3. start \in V /\ step \in Turns(N, V)
  <2>1. start \in V
    BY DEF Visitors, Ends
  <2> HIDE DEF V, turn
  <2> QED
    BY <1>2, <2>1 DEF Turns
<1>4. PICK f : Looped(N, V, start, step, f)
  <2>1. N \in Nat /\ start \in V /\ step \in Turns(N, V)
    BY <1>1, <1>3
  <2> HIDE DEF step, V, N, start
  <2> QED
    BY <2>1, Loop
<1> USE <1>4 DEF Looped
<1> HIDE DEF V, turn, N, start
<1>5. f = [i \in 0..N |-> IF i = 0 THEN start ELSE turn(f[i - 1])]
  <2>1. ASSUME NEW i \in 0..N, i # 0 PROVE f[i] = turn(f[i - 1])
    <3>1. i \in 1..N /\ f[i - 1] \in V
      BY <1>1, <2>1
    <3> QED
      BY <1>4, <3>1
  <2> QED
    BY <1>4, <2>1
<1>6. Visit(ms) = (CHOOSE g : Entire(g))[N]
  BY DEF Visit, turn, N, start
<1> DEFINE g == CHOOSE h : Entire(h)
<1>7. g = [i \in 0..N |-> IF i = 0 THEN start ELSE turn(g[i - 1])]
  <2>1. Entire(f)
    BY <1>5
  <2>2. Entire(g)
    <3> HIDE DEF Entire
    <3> QED
      BY <2>1
  <2> QED
    BY <2>2
<1> HIDE DEF g
<1>8. g[0] = start /\ \A i \in 1..N : g[i] = turn(g[i - 1])
  BY <1>1, <1>7
<1>9. ASSUME NEW i \in 1..N, g[i - 1] \in V PROVE g[i] \in V
  BY <1>1, <1>2, <1>8, <1>9
<1>10. \A i \in 0..N : g[i] \in V
  BY <1>1, <1>3, <1>8, <1>9, Kept
<1>11. g \in [0..N -> V]
  BY <1>7, <1>10
<1>12. g \in [0..Len(ms) -> Visitors(ms)]
  BY <1>11 DEF V, N
<1>13. Visit(ms) = g[Len(ms)]
  BY <1>6 DEF g, N
<1>14. \A i \in 1..Len(ms) : g[i] = [call \in Calls(ms) |-> VisitOne(ms, g[i - 1], call[1], call[2])]
  BY <1>8 DEF turn, N
<1>15. g[0] = [call \in Calls(ms) |-> Cycle]
  BY <1>8 DEF start
<1> QED
  BY <1>12, <1>13, <1>14, <1>15 DEF DepthTurns

\* No cycle goes through a black monitor.
Clean(ms, c) == \A S : Trap(ms, S) => S \cap Black(ms, c) = {}

\* Every grey monitor is behind another, or behind p.
Chained(ms, p, c) ==
  \A i \in Grey(ms, c) : Range(ParentsOf(ms, i)) \cap (Grey(ms, c) \union {p}) # {}

\* What visits of the monitors of P may make of the colours c.
Visited(ms, P, c, d) ==
  IF d = Cycle THEN \E S : Trap(ms, S)
  ELSE /\ d \in Colours(ms) /\ Clean(ms, d)
       /\ Grey(ms, d) = Grey(ms, c) /\ Black(ms, c) \subseteq Black(ms, d) /\ P \subseteq Black(ms, d)

\* The calls that at most so many can be nested in.
Fewer(ms, c, depth) == Len(ms) - Cardinality(Grey(ms, c)) <= depth

\* A visitor that is right wherever that is so.
RightWithin(ms, visit, depth) ==
  /\ visit \in Visitors(ms)
  /\ \A p \in DOMAIN ms, c \in Colours(ms) :
       Clean(ms, c) /\ Chained(ms, p, c) /\ Fewer(ms, c, depth) => Visited(ms, {p}, c, visit[<<p, c>>])

LEMMA OneTo ==
  ASSUME NEW n \in Nat
  PROVE  IsFiniteSet(1..n) /\ Cardinality(1..n) = n
<1>1. 1 \in Int /\ n \in Int
  OBVIOUS
<1>2. IsFiniteSet(1..n) /\ Cardinality(1..n) = IF 1 > n THEN 0 ELSE n - 1 + 1
  BY <1>1, FS_Interval
<1> QED
  BY <1>2

LEMMA GreyCount ==
  ASSUME NEW ms, ListOfMonitors(ms), NEW c
  PROVE  /\ IsFiniteSet(Grey(ms, c)) /\ Cardinality(Grey(ms, c)) \in Nat
         /\ Cardinality(Grey(ms, c)) <= Len(ms)
         /\ Cardinality(Grey(ms, c)) = Len(ms) => Grey(ms, c) = DOMAIN ms
<1> DEFINE D == 1..Len(ms)
           G == Grey(ms, c)
<1>1. Len(ms) \in Nat /\ G \subseteq D /\ DOMAIN ms = D
  BY DEF ListOfMonitors, Grey
<1>2. IsFiniteSet(D) /\ Cardinality(D) = Len(ms)
  BY <1>1, FS_Interval
<1> HIDE DEF D, G
<1>3. IsFiniteSet(G) /\ Cardinality(G) <= Cardinality(D) /\ (Cardinality(G) = Cardinality(D) => G = D)
  BY <1>1, <1>2, FS_Subset
<1>4. Cardinality(G) \in Nat
  BY <1>3, FS_CardinalityType
<1> QED
  BY <1>1, <1>2, <1>3, <1>4 DEF G

\* Visits one after the other are right if each of them is.
LEMMA AllVisited ==
  ASSUME NEW ms, ListOfMonitors(ms), NEW visit, NEW depth \in Int, RightWithin(ms, visit, depth),
         NEW monitors \in Seq(DOMAIN ms), NEW c \in Colours(ms), Clean(ms, c), Fewer(ms, c, depth),
         \A i \in Range(monitors) : Chained(ms, i, c)
  PROVE  Visited(ms, Range(monitors), c, VisitAll(visit, monitors, c))
<1> DEFINE N == Len(monitors)
           First(n) == {monitors[k] : k \in 1..n}
<1>1. N \in Nat /\ DOMAIN monitors = 1..N /\ \A i \in 1..N : monitors[i] \in DOMAIN ms
  BY LenProperties, ElementOfSeq
<1>2. Range(monitors) = First(N)
  BY <1>1 DEF Range
<1>3. PICK g : VisitTurns(ms, visit, monitors, c, g)
  BY VisitAllIsLoop DEF RightWithin
<1>4. c # Cycle
  BY CycleIsNoColour
<1> DEFINE T == {n \in 0..N : Visited(ms, First(n), c, g[n])}
<1>5. ASSUME NEW n \in 0..N, \A k \in 0..(n - 1) : k \in T
      PROVE  n \in T
  <2>1. CASE n = 0
    <3>1. g[n] = c /\ First(n) = {}
      BY <1>3, <2>1 DEF VisitTurns
    <3> HIDE DEF First
    <3> QED
      BY <1>4, <3>1 DEF Visited
  <2>2. CASE n # 0
    <3> DEFINE d == g[n - 1]
               i == monitors[n]
    <3>1. n - 1 \in 0..(n - 1) /\ n \in 1..N /\ n - 1 \in 0..N
      BY <1>1, <2>2
    <3>2. Visited(ms, First(n - 1), c, d)
      BY <1>5, <3>1
    <3>3. g[n] = IF d = Cycle THEN Cycle ELSE visit[<<i, d>>]
      BY <1>3, <3>1 DEF VisitTurns
    <3>4. i \in DOMAIN ms /\ i \in Range(monitors)
      BY <1>1, <3>1 DEF Range
    <3>5. First(n) = First(n - 1) \union {i}
      <4>1. \A k : k \in 1..n <=> k \in 1..(n - 1) \/ k = n
        BY <1>1, <3>1
      <4> QED
        BY <4>1
    <3> HIDE DEF First, d, i
    <3>6. CASE d = Cycle
      BY <3>2, <3>3, <3>6 DEF Visited
    <3>7. CASE d # Cycle
      <4>1. /\ d \in Colours(ms) /\ Clean(ms, d) /\ Grey(ms, d) = Grey(ms, c)
            /\ Black(ms, c) \subseteq Black(ms, d) /\ First(n - 1) \subseteq Black(ms, d)
        BY <3>2, <3>7 DEF Visited
      <4>2. Chained(ms, i, d) /\ Fewer(ms, d, depth)
        BY <3>4, <4>1 DEF Chained, Fewer
      <4>3. Visited(ms, {i}, d, g[n])
        BY <3>3, <3>4, <3>7, <4>1, <4>2 DEF RightWithin
      <4>4. Visited(ms, First(n), c, g[n])
        BY <3>5, <4>1, <4>3 DEF Visited
      <4> QED
        BY <4>4
    <3>8. Visited(ms, First(n), c, g[n])
      BY <3>6, <3>7, <3>2, <3>3 DEF Visited
    <3> QED
      BY <3>8
  <2> QED
    BY <2>1, <2>2
<1>6. N \in T
  <2>1. 0..N \subseteq T
    <3> HIDE DEF T
    <3> QED
      BY <1>1, <1>5, UpTo
  <2>2. N \in 0..N
    BY <1>1
  <2> HIDE DEF T
  <2> QED
    BY <2>1, <2>2
<1> QED
  BY <1>2, <1>3, <1>6 DEF VisitTurns

\* One call deeper, a visitor made of a right one is right.
LEMMA OneVisited ==
  ASSUME NEW ms, ListOfMonitors(ms), NEW visit, NEW depth \in Nat, RightWithin(ms, visit, depth - 1),
         NEW p \in DOMAIN ms, NEW c \in Colours(ms), Clean(ms, c), Chained(ms, p, c), Fewer(ms, c, depth)
  PROVE  Visited(ms, {p}, c, VisitOne(ms, visit, p, c))
<1> DEFINE c1 == [c EXCEPT ![p] = "grey"]
           parents == ParentsOf(ms, p)
           after == VisitAll(visit, parents, c1)
           d == [after EXCEPT ![p] = "black"]
           r == VisitOne(ms, visit, p, c)
<1>1. c \in [DOMAIN ms -> {"white", "grey", "black"}] /\ c # Cycle /\ parents \in Seq(DOMAIN ms)
  BY CycleIsNoColour DEF Colours, ListOfMonitors
<1>2. CASE c[p] = "grey"
  <2>1. r = Cycle
    BY <1>2 DEF VisitOne
  <2>2. Trap(ms, Grey(ms, c))
    <3>1. p \in Grey(ms, c) /\ Grey(ms, c) \subseteq DOMAIN ms
      BY <1>2 DEF Grey
    <3>2. Grey(ms, c) \union {p} = Grey(ms, c)
      BY <3>1
    <3> QED
      BY <3>1, <3>2 DEF Trap, Chained
  <2> QED
    BY <2>1, <2>2 DEF Visited
<1>3. CASE c[p] = "black"
  <2>1. r = c
    BY <1>3 DEF VisitOne
  <2>2. {p} \subseteq Black(ms, c)
    BY <1>3 DEF Black
  <2> QED
    BY <1>1, <2>1, <2>2 DEF Visited
<1>4. CASE c[p] = "white"
  <2>1. r = IF after = Cycle THEN Cycle ELSE d
    BY <1>4 DEF VisitOne
  <2>2. c1 \in Colours(ms)
    BY <1>1 DEF Colours
  <2>3. Grey(ms, c1) = Grey(ms, c) \union {p} /\ Black(ms, c1) = Black(ms, c) /\ p \notin Grey(ms, c)
        /\ p \notin Black(ms, c)
    BY <1>1, <1>4 DEF Grey, Black
  <2> HIDE DEF c1, after, parents
  <2>4. Clean(ms, c1)
    BY <2>3 DEF Clean
  <2>5. Fewer(ms, c1, depth - 1)
    <3>1. IsFiniteSet(Grey(ms, c)) /\ Cardinality(Grey(ms, c)) \in Nat /\ Len(ms) \in Nat
      BY GreyCount DEF ListOfMonitors
    <3>2. Cardinality(Grey(ms, c1)) = Cardinality(Grey(ms, c)) + 1
      BY <2>3, <3>1, FS_AddElement
    <3> QED
      BY <3>1, <3>2 DEF Fewer
  <2>6. ASSUME NEW q \in Range(parents) PROVE Chained(ms, q, c1)
    <3>1. ASSUME NEW i \in Grey(ms, c1) PROVE Range(ParentsOf(ms, i)) \cap (Grey(ms, c1) \union {q}) # {}
      <4>1. CASE i \in Grey(ms, c)
        BY <2>3, <4>1 DEF Chained
      <4>2. CASE i = p
        BY <2>6, <4>2 DEF parents
      <4> QED
        BY <2>3, <4>1, <4>2
    <3> QED
      BY <3>1 DEF Chained
  <2>7. Visited(ms, Range(parents), c1, after)
    BY <1>1, <2>2, <2>4, <2>5, <2>6, AllVisited DEF after
  <2>8. CASE after = Cycle
    BY <2>1, <2>7, <2>8 DEF Visited
  <2>9. CASE after # Cycle
    <3>1. /\ after \in Colours(ms) /\ Clean(ms, after) /\ Grey(ms, after) = Grey(ms, c1)
          /\ Black(ms, c1) \subseteq Black(ms, after) /\ Range(parents) \subseteq Black(ms, after)
      BY <2>7, <2>9 DEF Visited
    <3>2. d \in Colours(ms) /\ Grey(ms, d) = Grey(ms, after) \ {p} /\ Black(ms, d) = Black(ms, after) \union {p}
      BY <3>1 DEF Colours, Grey, Black
    <3> HIDE DEF d
    <3>3. Grey(ms, d) = Grey(ms, c) /\ Black(ms, c) \subseteq Black(ms, d) /\ {p} \subseteq Black(ms, d)
      BY <2>3, <3>1, <3>2
    <3>4. Clean(ms, d)
      <4> SUFFICES ASSUME NEW S, Trap(ms, S), S \cap Black(ms, d) # {} PROVE FALSE
        BY DEF Clean
      <4>1. S \cap Black(ms, after) = {}
        BY <3>1 DEF Clean
      <4>2. p \in S
        BY <3>2, <4>1
      <4>3. Range(parents) \cap S # {}
        BY <4>2 DEF Trap, parents
      <4> QED
        BY <3>1, <4>1, <4>3
    <3>5. r = d /\ d # Cycle
      BY <2>1, <2>9, <3>2, CycleIsNoColour
    <3> QED
      BY <3>2, <3>3, <3>4, <3>5 DEF Visited
  <2> QED
    BY <2>8, <2>9
<1> QED
  BY <1>1, <1>2, <1>3, <1>4

\* Nested as often as there are monitors, visits are right.
LEMMA VisitRight ==
  ASSUME NEW ms, ListOfMonitors(ms)
  PROVE  RightWithin(ms, Visit(ms), Len(ms))
<1> DEFINE N == Len(ms)
<1>1. N \in Nat
  BY DEF ListOfMonitors
<1>2. PICK g : DepthTurns(ms, g)
  BY VisitIsLoop
<1> DEFINE T == {n \in 0..N : RightWithin(ms, g[n], n)}
<1>3. ASSUME NEW n \in 0..N, \A k \in 0..(n - 1) : k \in T
      PROVE  n \in T
  <2>1. g[n] \in Visitors(ms)
    BY <1>2 DEF DepthTurns
  <2>2. CASE n = 0
    <3>1. ASSUME NEW p \in DOMAIN ms, NEW c \in Colours(ms),
                 Clean(ms, c), Chained(ms, p, c), Fewer(ms, c, 0)
          PROVE  Visited(ms, {p}, c, g[0][<<p, c>>])
      <4>1. g[0][<<p, c>>] = Cycle
        BY <1>2, CallMade DEF DepthTurns
      <4>2. Grey(ms, c) = DOMAIN ms
        BY <1>1, <3>1, GreyCount DEF Fewer
      <4>3. Trap(ms, Grey(ms, c))
        BY <3>1, <4>2 DEF Trap, Chained
      <4> QED
        BY <4>1, <4>3 DEF Visited
    <3>2. RightWithin(ms, g[n], n)
      BY <2>1, <2>2, <3>1 DEF RightWithin
    <3> QED
      BY <3>2
  <2>3. CASE n # 0
    <3>1. n - 1 \in 0..(n - 1) /\ n \in 1..N /\ n \in Nat
      BY <1>1, <2>3
    <3>2. RightWithin(ms, g[n - 1], n - 1)
      BY <1>3, <3>1
    <3>3. ASSUME NEW p \in DOMAIN ms, NEW c \in Colours(ms),
                 Clean(ms, c), Chained(ms, p, c), Fewer(ms, c, n)
          PROVE  Visited(ms, {p}, c, g[n][<<p, c>>])
      <4>1. g[n] = [call \in Calls(ms) |-> VisitOne(ms, g[n - 1], call[1], call[2])]
        BY <1>2, <3>1 DEF DepthTurns
      <4>2. g[n][<<p, c>>] = VisitOne(ms, g[n - 1], p, c)
        BY <4>1, CallMade
      <4> QED
        BY <3>1, <3>2, <3>3, <4>2, OneVisited
    <3>4. RightWithin(ms, g[n], n)
      BY <2>1, <3>3 DEF RightWithin
    <3> QED
      BY <3>4
  <2> QED
    BY <2>2, <2>3
<1>4. N \in T
  <2>1. 0..N \subseteq T
    <3> HIDE DEF T
    <3> QED
      BY <1>1, <1>3, UpTo
  <2>2. N \in 0..N
    BY <1>1
  <2> HIDE DEF T
  <2> QED
    BY <2>1, <2>2
<1> QED
  BY <1>2, <1>4 DEF DepthTurns

\* The search finds no cycle exactly if there is none.
LEMMA NoCycleIsNoTrap ==
  ASSUME NEW ms, ListOfMonitors(ms)
  PROVE  NoCycle(ms) <=> ~ \E S : Trap(ms, S)
<1> DEFINE N == Len(ms)
           monitors == [i \in DOMAIN ms |-> i]
           c == [i \in DOMAIN ms |-> "white"]
           d == VisitAll(Visit(ms), monitors, c)
<1>1. N \in Nat /\ DOMAIN ms = 1..N
  BY DEF ListOfMonitors
<1>2. monitors \in Seq(DOMAIN ms) /\ Range(monitors) = DOMAIN ms
  <2>1. monitors \in [1..N -> DOMAIN ms]
    BY <1>1
  <2>2. Range(monitors) = DOMAIN ms
    BY DEF Range
  <2> HIDE DEF monitors
  <2> QED
    BY <1>1, <2>1, <2>2, IsSequence
<1>3. c \in Colours(ms) /\ Grey(ms, c) = {} /\ Black(ms, c) = {}
  BY DEF Colours, Grey, Black
<1> HIDE DEF c, monitors
<1>4. Clean(ms, c) /\ \A i : Chained(ms, i, c)
  BY <1>3 DEF Clean, Chained
<1>5. Fewer(ms, c, N)
  <2>1. Cardinality({}) = 0
    BY FS_EmptySet
  <2>2. Cardinality(Grey(ms, c)) = 0
    BY <1>3, <2>1
  <2> QED
    BY <1>1, <2>2 DEF Fewer
<1>6. Visited(ms, DOMAIN ms, c, d)
  BY <1>1, <1>2, <1>3, <1>4, <1>5, VisitRight, AllVisited
<1>7. NoCycle(ms) <=> d # Cycle
  BY DEF NoCycle, c, monitors
<1> HIDE DEF d
<1>8. ASSUME d # Cycle, NEW S, Trap(ms, S) PROVE FALSE
  <2>1. DOMAIN ms \subseteq Black(ms, d) /\ Clean(ms, d)
    BY <1>6, <1>8 DEF Visited
  <2> QED
    BY <1>8, <2>1 DEF Clean, Trap
<1> QED
  BY <1>6, <1>7, <1>8 DEF Visited

\* What Acyclic has left after taking monitors away.
LeftTurns(ms, g) ==
  /\ g \in [0..Len(ms) -> SUBSET (DOMAIN ms)] /\ g[0] = DOMAIN ms /\ (Acyclic(ms) <=> g[Len(ms)] = {})
  /\ \A n \in 1..Len(ms) : g[n] = {i \in g[n - 1] : Range(ParentsOf(ms, i)) \cap g[n - 1] # {}}

LEMMA AcyclicIsLoop ==
  ASSUME NEW ms, ListOfMonitors(ms)
  PROVE  \E g : LeftTurns(ms, g)
<1> DEFINE N == Len(ms)
           V == SUBSET (DOMAIN ms)
           start == DOMAIN ms
           turn(t) == {i \in t : Range(ParentsOf(ms, i)) \cap t # {}}
           Entire(f) == f = [n \in 0..N |-> IF n = 0 THEN start ELSE turn(f[n - 1])]
           step == [n \in 1..N |-> [t \in V |-> turn(t)]]
<1>1. N \in Nat
  BY DEF ListOfMonitors
<1>2. ASSUME NEW t \in V PROVE turn(t) \in V
  OBVIOUS
<1>3. start \in V /\ step \in Turns(N, V)
  <2>1. start \in V
    OBVIOUS
  <2> HIDE DEF V, turn
  <2> QED
    BY <1>2, <2>1 DEF Turns
<1>4. PICK f : Looped(N, V, start, step, f)
  <2>1. N \in Nat /\ start \in V /\ step \in Turns(N, V)
    BY <1>1, <1>3
  <2> HIDE DEF step, V, N, start
  <2> QED
    BY <2>1, Loop
<1> USE <1>4 DEF Looped
<1> HIDE DEF V, turn, N, start
<1>5. f = [i \in 0..N |-> IF i = 0 THEN start ELSE turn(f[i - 1])]
  <2>1. ASSUME NEW i \in 0..N, i # 0 PROVE f[i] = turn(f[i - 1])
    <3>1. i \in 1..N /\ f[i - 1] \in V
      BY <1>1, <2>1
    <3> QED
      BY <1>4, <3>1
  <2> QED
    BY <1>4, <2>1
<1>6. Acyclic(ms) <=> (CHOOSE g : Entire(g))[N] = {}
  BY DEF Acyclic, turn, N, start
<1> DEFINE g == CHOOSE h : Entire(h)
<1>7. g = [i \in 0..N |-> IF i = 0 THEN start ELSE turn(g[i - 1])]
  <2>1. Entire(f)
    BY <1>5
  <2>2. Entire(g)
    <3> HIDE DEF Entire
    <3> QED
      BY <2>1
  <2> QED
    BY <2>2
<1> HIDE DEF g
<1>8. g[0] = start /\ \A i \in 1..N : g[i] = turn(g[i - 1])
  BY <1>1, <1>7
<1>9. ASSUME NEW i \in 1..N, g[i - 1] \in V PROVE g[i] \in V
  BY <1>1, <1>2, <1>8, <1>9
<1>10. \A i \in 0..N : g[i] \in V
  BY <1>1, <1>3, <1>8, <1>9, Kept
<1>11. g \in [0..N -> V]
  BY <1>7, <1>10
<1>12. g \in [0..Len(ms) -> SUBSET (DOMAIN ms)]
  BY <1>11 DEF V, N
<1>13. Acyclic(ms) <=> g[Len(ms)] = {}
  BY <1>6 DEF g, N
<1>14. \A n \in 1..Len(ms) : g[n] = {i \in g[n - 1] : Range(ParentsOf(ms, i)) \cap g[n - 1] # {}}
  BY <1>8 DEF turn, N
<1>15. g[0] = DOMAIN ms
  BY <1>8 DEF start
<1> QED
  BY <1>12, <1>13, <1>14, <1>15 DEF LeftTurns

\* The monitors can all be taken away exactly if there is no cycle.
LEMMA AcyclicIsNoTrap ==
  ASSUME NEW ms, ListOfMonitors(ms)
  PROVE  Acyclic(ms) <=> ~ \E S : Trap(ms, S)
<1> DEFINE N == Len(ms)
<1>1. N \in Nat /\ DOMAIN ms = 1..N
  BY DEF ListOfMonitors
<1>2. PICK g : LeftTurns(ms, g)
  BY AcyclicIsLoop
<1> USE <1>2 DEF LeftTurns
<1>3. ASSUME NEW S, Trap(ms, S) PROVE g[N] # {}
  <2> DEFINE V == {t \in SUBSET (DOMAIN ms) : S \subseteq t}
  <2>1. g[0] \in V
    BY <1>3 DEF Trap
  <2>2. ASSUME NEW n \in 1..N, g[n - 1] \in V PROVE g[n] \in V
    BY <1>3, <2>2 DEF Trap
  <2>3. \A n \in 0..N : g[n] \in V
    <3> HIDE DEF V, N
    <3> QED
      BY <1>1, <2>1, <2>2, Kept
  <2>4. S \subseteq g[N] /\ S # {}
    <3>1. N \in 0..N
      BY <1>1
    <3> QED
      BY <1>3, <2>3, <3>1 DEF Trap
  <2> QED
    BY <2>4
<1>4. ASSUME ~ \E S : Trap(ms, S) PROVE g[N] = {}
  <2> DEFINE T == {n \in 0..N : Cardinality(g[n]) <= N - n}
  <2>1. ASSUME NEW n \in 0..N
        PROVE  IsFiniteSet(g[n]) /\ Cardinality(g[n]) \in Nat /\ Cardinality(g[n]) <= N
    <3>1. IsFiniteSet(1..N) /\ Cardinality(1..N) = N
      BY <1>1, OneTo
    <3>2. g[n] \subseteq 1..N
      BY <1>1
    <3> QED
      BY <3>1, <3>2, FS_Subset, FS_CardinalityType
  <2>2. ASSUME NEW n \in 0..N, \A k \in 0..(n - 1) : k \in T
        PROVE  n \in T
    <3>1. CASE n = 0
      BY <1>1, <2>1, <3>1
    <3>2. CASE n # 0
      <4> DEFINE b == g[n - 1]
                 a == g[n]
      <4>1. n - 1 \in 0..(n - 1) /\ n \in 1..N /\ n - 1 \in 0..N
        BY <1>1, <3>2
      <4>2. Cardinality(b) <= N - (n - 1)
        BY <2>2, <4>1
      <4>3. a = {i \in b : Range(ParentsOf(ms, i)) \cap b # {}} /\ b \subseteq DOMAIN ms
        BY <4>1
      <4>4. /\ IsFiniteSet(b) /\ Cardinality(b) \in Nat /\ Cardinality(a) \in Nat
        BY <2>1, <4>1
      <4> HIDE DEF a, b
      <4>5. CASE b = {}
        <5>1. a = {}
          BY <4>3, <4>5
        <5>2. Cardinality(a) = 0
          BY <5>1, FS_EmptySet
        <5>3. Cardinality(a) <= N - n
          BY <1>1, <4>1, <5>2
        <5> QED
          BY <5>3 DEF a
      <4>6. CASE b # {}
        <5>1. a # b
          BY <1>4, <4>3, <4>6 DEF Trap
        <5>2. a \subseteq b
          BY <4>3
        <5>3. Cardinality(a) < Cardinality(b)
          BY <4>4, <5>1, <5>2, FS_Subset
        <5>4. Cardinality(a) <= N - n
          BY <1>1, <4>1, <4>2, <4>4, <5>3
        <5> QED
          BY <5>4 DEF a
      <4> QED
        BY <4>5, <4>6
    <3> QED
      BY <3>1, <3>2
  <2>3. N \in T
    <3>1. 0..N \subseteq T
      <4> HIDE DEF T
      <4> QED
        BY <1>1, <2>2, UpTo
    <3>2. N \in 0..N
      BY <1>1
    <3> HIDE DEF T
    <3> QED
      BY <3>1, <3>2
  <2>4. Cardinality(g[N]) = 0 /\ IsFiniteSet(g[N])
    BY <1>1, <2>1, <2>3
  <2> QED
    BY <2>4, FS_EmptySet
<1> QED
  BY <1>3, <1>4

\* _check_dependencies, from the colours of the search to cycles of monitors.
LEMMA NoCycleIsAcyclic ==
  ASSUME NEW ms, ListOfMonitors(ms)
  PROVE  NoCycle(ms) <=> Acyclic(ms)
BY NoCycleIsNoTrap, AcyclicIsNoTrap

-----------------------------------------------------------------------------
(* Lists of monitors *)

LEMMA ListParts ==
  ASSUME NEW s, IsList(s)
  PROVE  /\ s \in Seq(Range(s)) /\ Len(s) \in Nat /\ DOMAIN s = 1..Len(s)
         /\ \A i \in 1..Len(s) : s[i] \in Range(s)
BY LenProperties, ElementOfSeq DEF IsList

LEMMA ListMade ==
  ASSUME NEW n \in Nat, NEW f, f = [i \in 1..n |-> f[i]]
  PROVE  IsList(f) /\ Len(f) = n /\ DOMAIN f = 1..n
<1>1. f \in [1..n -> Range(f)]
  BY DEF Range
<1> QED
  BY <1>1, IsSequence DEF IsList

LEMMA ListOfSeq ==
  ASSUME NEW S, NEW s \in Seq(S)
  PROVE  IsList(s)
<1>1. Len(s) \in Nat /\ s \in [1..Len(s) -> S]
  BY LenProperties
<1>2. s = [i \in 1..Len(s) |-> s[i]]
  BY <1>1
<1> QED
  BY <1>1, <1>2, ListMade

LEMMA ListsJoined ==
  ASSUME NEW s, NEW t, IsList(s), IsList(t)
  PROVE  /\ IsList(s \o t) /\ Range(s \o t) = Range(s) \union Range(t)
         /\ Len(s \o t) = Len(s) + Len(t)
         /\ \A k \in 1..Len(s) : (s \o t)[k] = s[k]
         /\ \A k \in 1..Len(t) : (s \o t)[Len(s) + k] = t[k]
<1> DEFINE S == Range(s) \union Range(t)
           u == s \o t
<1>1. s \in Seq(S) /\ t \in Seq(S)
  BY SeqMonotonic DEF IsList
<1>2. /\ u \in Seq(S) /\ Len(u) = Len(s) + Len(t)
      /\ Len(s) \in Nat /\ Len(t) \in Nat /\ Len(u) \in Nat
      /\ \A k \in 1..Len(s) : u[k] = s[k]
      /\ \A k \in 1..Len(t) : u[Len(s) + k] = t[k]
  <2> HIDE DEF S
  <2> QED
    BY <1>1, Joined
<1>3. DOMAIN s = 1..Len(s) /\ DOMAIN t = 1..Len(t) /\ DOMAIN u = 1..Len(u)
  BY <1>1, <1>2, LenProperties
<1> HIDE DEF u, S
<1>4. \A k \in 1..Len(u) : k \in 1..Len(s) \/ \E l \in 1..Len(t) : k = Len(s) + l
  <2> TAKE k \in 1..Len(u)
  <2>1. k \in 1..Len(s) \/ (k - Len(s) \in 1..Len(t) /\ k = Len(s) + (k - Len(s)))
    BY <1>2
  <2> QED
    BY <2>1
<1>5. (\A k \in 1..Len(s) : k \in 1..Len(u)) /\ \A l \in 1..Len(t) : Len(s) + l \in 1..Len(u)
  BY <1>2
<1>6. Range(u) \subseteq Range(s) \union Range(t)
  <2>1. \A k \in 1..Len(s) : s[k] \in Range(s)
    BY <1>3 DEF Range
  <2>2. \A k \in 1..Len(t) : t[k] \in Range(t)
    BY <1>3 DEF Range
  <2>3. \A k \in 1..Len(u) : u[k] \in Range(s) \union Range(t)
    BY <1>2, <1>4, <2>1, <2>2
  <2> QED
    BY <1>3, <2>3 DEF Range
<1>7. Range(s) \union Range(t) \subseteq Range(u)
  BY <1>2, <1>3, <1>5 DEF Range
<1>8. IsList(u)
  BY <1>2, ListOfSeq
<1> QED
  BY <1>2, <1>6, <1>7, <1>8 DEF u

LEMMA MonitorsJoined ==
  ASSUME NEW s, NEW t, MonitorList(s), MonitorList(t)
  PROVE  MonitorList(s \o t) /\ Range(s \o t) = Range(s) \union Range(t)
<1>1. IsList(s \o t) /\ Range(s \o t) = Range(s) \union Range(t)
  BY ListsJoined DEF MonitorList
<1>2. \A m \in Range(s) \union Range(t) : IsList(m.depends_on)
  BY DEF MonitorList, Range
<1>3. \A i \in DOMAIN (s \o t) : (s \o t)[i] \in Range(s \o t)
  BY DEF Range
<1> QED
  BY <1>1, <1>2, <1>3 DEF MonitorList

\* One monitor for each item of a list.
LEMMA EachMonitored ==
  ASSUME NEW parts, IsList(parts), NEW F, F = [i \in DOMAIN parts |-> F[i]],
         \A i \in DOMAIN parts : IsList(F[i].depends_on)
  PROVE  MonitorList(F)
<1>1. Len(parts) \in Nat /\ DOMAIN parts = 1..Len(parts)
  BY ListParts
<1>2. F = [i \in 1..Len(parts) |-> F[i]]
  BY <1>1
<1>3. IsList(F) /\ DOMAIN F = 1..Len(parts)
  BY <1>1, <1>2, ListMade
<1> QED
  BY <1>1, <1>3 DEF MonitorList

LEMMA NoItems == IsList(<<>>) /\ MonitorList(<<>>) /\ Range(<<>>) = {} /\ Len(<<>>) = 0
<1>1. <<>> \in Seq({})
  BY EmptySeq
<1>2. IsList(<<>>)
  BY <1>1, ListOfSeq
<1> QED
  BY <1>2 DEF MonitorList, Range

LEMMA OneItem ==
  ASSUME NEW x
  PROVE  IsList(<<x>>) /\ Range(<<x>>) = {x} /\ Len(<<x>>) = 1
<1>1. <<x>> \in Seq({x})
  OBVIOUS
<1>2. IsList(<<x>>)
  BY <1>1, ListOfSeq
<1> QED
  BY <1>2 DEF Range

LEMMA OneMonitor ==
  ASSUME NEW m, IsList(m.depends_on)
  PROVE  MonitorList(<<m>>) /\ Range(<<m>>) = {m}
<1>1. IsList(<<m>>) /\ Range(<<m>>) = {m}
  BY OneItem
<1>2. \A i \in DOMAIN <<m>> : <<m>>[i] = m
  OBVIOUS
<1> QED
  BY <1>1, <1>2 DEF MonitorList

LEMMA OnlyList ==
  ASSUME NEW s, IsList(s), NEW kept
  PROVE  IsList(Only(s, kept)) /\ Range(Only(s, kept)) = Range(s) \cap kept
BY OnlyItems, ListOfSeq DEF IsList

\* A proposal depends on nothing at first.
LEMMA AddParts ==
  ASSUME NEW f, NEW suffix, NEW type, NEW mode, NEW part
  PROVE  /\ Add(f, suffix, type, mode, part).depends_on = <<>>
         /\ IsList(Add(f, suffix, type, mode, part).depends_on)
<1>1. Add(f, suffix, type, mode, part).depends_on = <<>>
  BY DEF Add, Monitor
<1> QED
  BY <1>1, NoItems

LEMMA ModesList ==
  ASSUME NEW f, NEW type, NEW modes, IsList(modes)
  PROVE  MonitorList(Modes(f, type, modes))
<1> DEFINE F == Modes(f, type, modes)
<1>1. F = [i \in DOMAIN modes |-> F[i]] /\ \A i \in DOMAIN modes : F[i] = Add(f, <<modes[i]>>, type, modes[i], Whole)
  BY DEF Modes
<1> HIDE DEF F
<1>2. ASSUME NEW i \in DOMAIN modes PROVE IsList(F[i].depends_on)
  <2>1. F[i] = Add(f, <<modes[i]>>, type, modes[i], Whole)
    BY <1>1
  <2>2. IsList(Add(f, <<modes[i]>>, type, modes[i], Whole).depends_on)
    BY AddParts
  <2> QED
    BY <2>1, <2>2
<1>3. MonitorList(F)
  BY <1>1, <1>2, EachMonitored
<1> QED
  BY <1>3 DEF F

-----------------------------------------------------------------------------
(* Proposals *)

\* The credential for a type of monitor among those that worked.
WorkedFor(f, type) == IF ProbeOf(type) \in DOMAIN f.worked THEN f.worked[ProbeOf(type)] ELSE None

\* The fields of a monitor.
Fields == {"name", "type", "host", "mode", "part", "credential", "docker_command", "alerts", "forecast",
           "thresholds", "depends_on"}

\* A monitor that is proposed for a finding: only guests depend on anything, and not on
\* a guest.
Proposed(f, m) ==
  /\ DOMAIN m = Fields /\ IsList(m.name) /\ m.alerts = {} /\ (m.forecast => m.thresholds)
  /\ m.type \notin {"ssh", "unifi"} /\ m.credential = WorkedFor(f, m.type)
  /\ \/ m.depends_on = <<>>
     \/ m.name[2] = "VM" /\ \E d : m.depends_on = <<d>> /\ d[2] # "VM"

ProposedList(f, ms) == MonitorList(ms) /\ \A m \in Range(ms) : Proposed(f, m)

\* Those that depend on nothing.
Plain(f, m) == Proposed(f, m) /\ m.depends_on = <<>>

PlainList(f, ms) == ProposedList(f, ms) /\ \A m \in Range(ms) : m.depends_on = <<>>

LEMMA AddProposed ==
  ASSUME NEW f, NEW suffix, IsList(suffix), NEW type, type \notin {"ssh", "unifi"}, NEW mode, NEW part
  PROVE  Plain(f, Add(f, suffix, type, mode, part))
<1> DEFINE m == Add(f, suffix, type, mode, part)
<1>1. /\ m.name = <<f.label>> \o suffix /\ m.type = type /\ m.alerts = {} /\ (m.forecast => m.thresholds) /\ m.depends_on = <<>>
      /\ m.credential = WorkedFor(f, type) /\ DOMAIN m = Fields
  BY DEF Add, Monitor, WorkedFor, Fields
<1> HIDE DEF m
<1>2. IsList(m.name)
  BY <1>1, OneItem, ListsJoined
<1>3. Plain(f, m)
  BY <1>1, <1>2 DEF Plain, Proposed
<1> QED
  BY <1>3 DEF m

\* One proposal for each item of a list.
LEMMA EachProposed ==
  ASSUME NEW f, NEW parts, IsList(parts), NEW F, F = [i \in DOMAIN parts |-> F[i]],
         \A i \in DOMAIN parts : Proposed(f, F[i])
  PROVE  ProposedList(f, F)
<1>1. \A i \in DOMAIN parts : IsList(F[i].depends_on)
  <2> TAKE i \in DOMAIN parts
  <2>1. F[i].depends_on = <<>> \/ \E d : F[i].depends_on = <<d>>
    BY DEF Proposed
  <2> QED
    BY <2>1, NoItems, OneItem
<1>2. MonitorList(F)
  BY <1>1, EachMonitored
<1>3. Range(F) = {F[i] : i \in DOMAIN parts}
  BY DEF Range
<1> QED
  BY <1>2, <1>3 DEF ProposedList

\* v is s and then t, proposals all of them.
IsBoth(f, v, s, t) == ProposedList(f, v) /\ Range(v) = Range(s) \union Range(t)

LEMMA ProposalsAfter ==
  ASSUME NEW f, NEW s, NEW t, ProposedList(f, s), ProposedList(f, t)
  PROVE  IsBoth(f, s \o t, s, t)
<1>1. MonitorList(s) /\ MonitorList(t)
  BY DEF ProposedList
<1>2. MonitorList(s \o t) /\ Range(s \o t) = Range(s) \union Range(t)
  BY <1>1, MonitorsJoined
<1>3. ProposedList(f, s \o t)
  BY <1>2 DEF ProposedList
<1> QED
  BY <1>2, <1>3 DEF IsBoth

IsAll(f, v, s, t, u) ==
  ProposedList(f, v) /\ Range(v) = Range(s) \union Range(t) \union Range(u)

LEMMA ThreeJoined ==
  ASSUME NEW f, NEW s, NEW t, NEW u, ProposedList(f, s), ProposedList(f, t), ProposedList(f, u)
  PROVE  IsAll(f, s \o t \o u, s, t, u)
<1>1. PICK w : w = s \o t
  OBVIOUS
<1>2. IsBoth(f, w, s, t)
  BY <1>1, ProposalsAfter
<1>3. ProposedList(f, w) /\ Range(w) = Range(s) \union Range(t)
  BY <1>2 DEF IsBoth
<1>4. ProposedList(f, w)
  BY <1>3
<1>5. IsBoth(f, w \o u, w, u)
  BY <1>4, ProposalsAfter
<1>6. IsAll(f, w \o u, s, t, u)
  BY <1>3, <1>5 DEF IsBoth, IsAll
<1> QED
  BY <1>1, <1>6

LEMMA NoProposal ==
  ASSUME NEW f
  PROVE  ProposedList(f, <<>>) /\ PlainList(f, <<>>)
BY NoItems DEF ProposedList, PlainList

LEMMA OnePlain ==
  ASSUME NEW f, NEW m, Plain(f, m)
  PROVE  PlainList(f, <<m>>)
<1>1. IsList(m.depends_on)
  BY NoItems DEF Plain
<1> QED
  BY <1>1, OneMonitor DEF Plain, PlainList, ProposedList

LEMMA EachPlain ==
  ASSUME NEW f, NEW parts, IsList(parts), NEW F, F = [i \in DOMAIN parts |-> F[i]],
         \A i \in DOMAIN parts : Plain(f, F[i])
  PROVE  PlainList(f, F)
<1>1. ProposedList(f, F)
  BY EachProposed DEF Plain
<1>2. Range(F) = {F[i] : i \in DOMAIN parts}
  BY DEF Range
<1> QED
  BY <1>1, <1>2 DEF Plain, PlainList

LEMMA PlainJoined ==
  ASSUME NEW f, NEW s, NEW t, PlainList(f, s), PlainList(f, t)
  PROVE  PlainList(f, s \o t)
<1>1. ProposedList(f, s) /\ ProposedList(f, t)
  BY DEF PlainList
<1>2. IsBoth(f, s \o t, s, t)
  BY <1>1, ProposalsAfter
<1> QED
  BY <1>2 DEF IsBoth, PlainList

\* The modes of the host as a whole.
LEMMA ModesProposed ==
  ASSUME NEW f, NEW type, type \notin {"ssh", "unifi"}, NEW modes, IsList(modes)
  PROVE  PlainList(f, Modes(f, type, modes))
<1> DEFINE F == Modes(f, type, modes)
<1>1. F = [i \in DOMAIN modes |-> F[i]] /\ \A i \in DOMAIN modes : F[i] = Add(f, <<modes[i]>>, type, modes[i], Whole)
  BY DEF Modes
<1> HIDE DEF F
<1>2. ASSUME NEW i \in DOMAIN modes PROVE Plain(f, F[i])
  <2>1. IsList(<<modes[i]>>)
    BY OneItem
  <2>2. Plain(f, Add(f, <<modes[i]>>, type, modes[i], Whole))
    BY <2>1, AddProposed
  <2> QED
    BY <1>1, <2>2
<1>3. PlainList(f, F)
  BY <1>1, <1>2, EachPlain
<1> QED
  BY <1>3 DEF F

LEMMA TwoItems ==
  ASSUME NEW x, NEW y
  PROVE  IsList(<<x, y>>) /\ Range(<<x, y>>) = {x, y} /\ <<x, y>>[1] = x /\ Len(<<x, y>>) = 2
<1>1. <<x, y>> \in Seq({x, y})
  OBVIOUS
<1>2. IsList(<<x, y>>)
  BY <1>1, ListOfSeq
<1>3. Range(<<x, y>>) = {x, y}
  BY DEF Range
<1>4. Len(<<x, y>>) = 2 /\ <<x, y>>[1] = x
  OBVIOUS
<1> QED
  BY <1>2, <1>3, <1>4

LEMMA ThreeItems ==
  ASSUME NEW x, NEW y, NEW z
  PROVE  IsList(<<x, y, z>>) /\ Range(<<x, y, z>>) = {x, y, z}
<1>1. <<x, y, z>> \in Seq({x, y, z})
  OBVIOUS
<1>2. IsList(<<x, y, z>>)
  BY <1>1, ListOfSeq
<1>3. Range(<<x, y, z>>) = {x, y, z}
  BY DEF Range
<1> QED
  BY <1>2, <1>3

LEMMA PingProposed ==
  ASSUME NEW f
  PROVE  PlainList(f, Ping(f))
<1>1. Plain(f, Add(f, <<"ping">>, "ping", "", Whole))
  BY OneItem, AddProposed
<1> QED
  BY <1>1, OnePlain, NoProposal DEF Ping

LEMMA SnmpProposed ==
  ASSUME NEW f, IsFinding(f)
  PROVE  PlainList(f, Snmp(f))
<1>1. CASE f.snmp = None
  BY <1>1, NoProposal DEF Snmp
<1>2. CASE ~(f.snmp = None)
  <2> DEFINE links == f.snmp
             M == Modes(f, "snmp", <<"uptime", "CPU", "memory">>)
             L == ForEach(links, LAMBDA x : Add(f, <<x>>, "snmp", "interface", <<"interface", x>>))
  <2>1. Snmp(f) = M \o L
    BY <1>2 DEF Snmp
  <2>2. IsList(links)
    BY <1>2 DEF IsFinding
  <2> HIDE DEF links, M, L
  <2>3. PlainList(f, M)
    BY ThreeItems, ModesProposed DEF M
  <2>4. PlainList(f, L)
    <3>1. L = [i \in DOMAIN links |-> L[i]] /\ \A i \in DOMAIN links : L[i] = Add(f, <<links[i]>>, "snmp", "interface", <<"interface", links[i]>>)
      BY DEF ForEach, L
    <3>2. \A i \in DOMAIN links : Plain(f, L[i])
      <4> TAKE i \in DOMAIN links
      <4>1. Plain(f, Add(f, <<links[i]>>, "snmp", "interface", <<"interface", links[i]>>))
        BY OneItem, AddProposed
      <4> QED
        BY <3>1, <4>1
    <3> QED
      BY <2>2, <3>1, <3>2, EachPlain
  <2> QED
    BY <2>1, <2>3, <2>4, PlainJoined
<1> QED
  BY <1>1, <1>2

LEMMA WindowsProposed ==
  ASSUME NEW f, IsFinding(f)
  PROVE  PlainList(f, Windows(f))
<1>1. CASE f.winrm = None
  BY <1>1, NoProposal DEF Windows
<1>2. CASE ~(f.winrm = None)
  <2> DEFINE disks == f.winrm.disks
             services == f.winrm.services
             M == Modes(f, "winrm", <<"CPU", "memory">>)
             D == ForEach(disks, LAMBDA x : Add(f, <<x, "disk">>, "winrm", "disk", <<"disk", x>>))
             S == ForEach(services, LAMBDA x : Add(f, <<x>>, "winrm", "service", <<"service", x>>))
  <2>1. Windows(f) = M \o D \o S
    BY <1>2 DEF Windows
  <2>2. IsList(disks) /\ IsList(services)
    BY <1>2 DEF IsFinding
  <2> HIDE DEF disks, services, M, D, S
  <2>3. PlainList(f, M)
    BY TwoItems, ModesProposed DEF M
  <2>4. PlainList(f, D)
    <3>1. D = [i \in DOMAIN disks |-> D[i]] /\ \A i \in DOMAIN disks : D[i] = Add(f, <<disks[i], "disk">>, "winrm", "disk", <<"disk", disks[i]>>)
      BY DEF ForEach, D
    <3>2. \A i \in DOMAIN disks : Plain(f, D[i])
      <4> TAKE i \in DOMAIN disks
      <4>1. Plain(f, Add(f, <<disks[i], "disk">>, "winrm", "disk", <<"disk", disks[i]>>))
        BY TwoItems, AddProposed
      <4> QED
        BY <3>1, <4>1
    <3> QED
      BY <2>2, <3>1, <3>2, EachPlain
  <2>5. PlainList(f, S)
    <3>1. S = [i \in DOMAIN services |-> S[i]] /\ \A i \in DOMAIN services : S[i] = Add(f, <<services[i]>>, "winrm", "service", <<"service", services[i]>>)
      BY DEF ForEach, S
    <3>2. \A i \in DOMAIN services : Plain(f, S[i])
      <4> TAKE i \in DOMAIN services
      <4>1. Plain(f, Add(f, <<services[i]>>, "winrm", "service", <<"service", services[i]>>))
        BY OneItem, AddProposed
      <4> QED
        BY <3>1, <4>1
    <3> QED
      BY <2>2, <3>1, <3>2, EachPlain
  <2> QED
    BY <2>1, <2>3, <2>4, <2>5, PlainJoined
<1> QED
  BY <1>1, <1>2

LEMMA NamedList ==
  ASSUME NEW parts, IsList(parts)
  PROVE  IsList(Named(parts))
BY OnlyList DEF Named

LEMMA DockerProposed ==
  ASSUME NEW f, IsFinding(f), f.ssh # None
  PROVE  PlainList(f, Docker(f))
<1>1. CASE f.ssh.containers = None
  BY <1>1, NoProposal DEF Docker
<1>2. CASE ~(f.ssh.containers = None)
  <2> DEFINE named == Named(f.ssh.containers)
             M == Modes(f, "docker", <<"containers">>)
             C == ForEach(named, LAMBDA x : Add(f, <<x>>, "docker", "container", <<"container", x>>))
  <2>1. Docker(f) = M \o C
    BY <1>2 DEF Docker
  <2>2. IsList(named)
    BY <1>2, NamedList DEF IsFinding
  <2> HIDE DEF named, M, C
  <2>3. PlainList(f, M)
    BY OneItem, ModesProposed DEF M
  <2>4. PlainList(f, C)
    <3>1. C = [i \in DOMAIN named |-> C[i]] /\ \A i \in DOMAIN named : C[i] = Add(f, <<named[i]>>, "docker", "container", <<"container", named[i]>>)
      BY DEF ForEach, C
    <3>2. \A i \in DOMAIN named : Plain(f, C[i])
      <4> TAKE i \in DOMAIN named
      <4>1. Plain(f, Add(f, <<named[i]>>, "docker", "container", <<"container", named[i]>>))
        BY OneItem, AddProposed
      <4> QED
        BY <3>1, <4>1
    <3> QED
      BY <2>2, <3>1, <3>2, EachPlain
  <2> QED
    BY <2>1, <2>3, <2>4, PlainJoined
<1> QED
  BY <1>1, <1>2

LEMMA TcpProposed ==
  ASSUME NEW f, NEW suffix, IsList(suffix), NEW port
  PROVE  PlainList(f, <<Tcp(f, suffix, port)>>)
<1>1. Plain(f, Add(f, suffix, "tcp", "", <<"port", port>>))
  BY AddProposed
<1> QED
  BY <1>1, OnePlain DEF Tcp

LEMMA LinuxProposed ==
  ASSUME NEW f, IsFinding(f)
  PROVE  PlainList(f, Linux(f))
<1>1. CASE f.ssh = None
  BY <1>1, OneItem, TcpProposed, NoProposal DEF Linux
<1>2. CASE ~(f.ssh = None)
  <2> DEFINE mounts == f.ssh.mounts
             units == f.ssh.units
             M == Modes(f, "linux", <<"CPU", "memory", "uptime">>)
             D == ForEach(mounts, LAMBDA x : Add(f, <<"disk", x>>, "linux", "disk", <<"mount", x>>))
             S == ForEach(units, LAMBDA x : Add(f, <<x>>, "linux", "service", <<"service", x>>))
  <2>1. Linux(f) = M \o D \o S \o Docker(f)
    BY <1>2 DEF Linux
  <2>2. IsList(mounts) /\ IsList(units)
    BY <1>2 DEF IsFinding
  <2> HIDE DEF mounts, units, M, D, S
  <2>3. PlainList(f, M)
    BY ThreeItems, ModesProposed DEF M
  <2>4. PlainList(f, D)
    <3>1. D = [i \in DOMAIN mounts |-> D[i]] /\ \A i \in DOMAIN mounts : D[i] = Add(f, <<"disk", mounts[i]>>, "linux", "disk", <<"mount", mounts[i]>>)
      BY DEF ForEach, D
    <3>2. \A i \in DOMAIN mounts : Plain(f, D[i])
      <4> TAKE i \in DOMAIN mounts
      <4>1. Plain(f, Add(f, <<"disk", mounts[i]>>, "linux", "disk", <<"mount", mounts[i]>>))
        BY TwoItems, AddProposed
      <4> QED
        BY <3>1, <4>1
    <3> QED
      BY <2>2, <3>1, <3>2, EachPlain
  <2>5. PlainList(f, S)
    <3>1. S = [i \in DOMAIN units |-> S[i]] /\ \A i \in DOMAIN units : S[i] = Add(f, <<units[i]>>, "linux", "service", <<"service", units[i]>>)
      BY DEF ForEach, S
    <3>2. \A i \in DOMAIN units : Plain(f, S[i])
      <4> TAKE i \in DOMAIN units
      <4>1. Plain(f, Add(f, <<units[i]>>, "linux", "service", <<"service", units[i]>>))
        BY OneItem, AddProposed
      <4> QED
        BY <3>1, <4>1
    <3> QED
      BY <2>2, <3>1, <3>2, EachPlain
  <2>6. PlainList(f, Docker(f))
    BY <1>2, DockerProposed
  <2> QED
    BY <2>1, <2>3, <2>4, <2>5, <2>6, PlainJoined
<1> QED
  BY <1>1, <1>2

LEMMA WebProposed ==
  ASSUME NEW f, IsFinding(f)
  PROVE  PlainList(f, Web(f))
<1> DEFINE pages == Only(f.web, Range(f.web) \ ApiPorts(f))
           certs == Only(f.tls, Range(f.tls) \ (Range(f.mqtt) \union {"5986"}))
           P == ForEach(pages, LAMBDA x : Add(f, <<"web", x>>, "http", "", <<"url", x>>))
           C == ForEach(certs, LAMBDA x : Add(f, <<"cert", x>>, "tls_cert", "", <<"port", x>>))
<1>1. Web(f) = P \o C
  BY DEF Web
<1>2. IsList(pages) /\ IsList(certs)
  BY OnlyList DEF IsFinding
<1> HIDE DEF P, C, pages, certs
<1>3. PlainList(f, P)
  <2>1. P = [i \in DOMAIN pages |-> P[i]] /\ \A i \in DOMAIN pages : P[i] = Add(f, <<"web", pages[i]>>, "http", "", <<"url", pages[i]>>)
    BY DEF ForEach, P
  <2>2. \A i \in DOMAIN pages : Plain(f, P[i])
    <3> TAKE i \in DOMAIN pages
    <3>1. Plain(f, Add(f, <<"web", pages[i]>>, "http", "", <<"url", pages[i]>>))
      BY TwoItems, AddProposed
    <3> QED
      BY <2>1, <3>1
  <2> QED
    BY <1>2, <2>1, <2>2, EachPlain
<1>4. PlainList(f, C)
  <2>1. C = [i \in DOMAIN certs |-> C[i]] /\ \A i \in DOMAIN certs : C[i] = Add(f, <<"cert", certs[i]>>, "tls_cert", "", <<"port", certs[i]>>)
    BY DEF ForEach, C
  <2>2. \A i \in DOMAIN certs : Plain(f, C[i])
    <3> TAKE i \in DOMAIN certs
    <3>1. Plain(f, Add(f, <<"cert", certs[i]>>, "tls_cert", "", <<"port", certs[i]>>))
      BY TwoItems, AddProposed
    <3> QED
      BY <2>1, <3>1
  <2> QED
    BY <1>2, <2>1, <2>2, EachPlain
<1> QED
  BY <1>1, <1>3, <1>4, PlainJoined

LEMMA MqttProposed ==
  ASSUME NEW f, IsFinding(f)
  PROVE  PlainList(f, Mqtt(f))
<1> DEFINE ports == f.mqtt
           P == ForEach(ports, LAMBDA x : Add(f, <<"MQTT", x>>, "mqtt", "", <<"port", x>>))
<1>1. Mqtt(f) = P
  BY DEF Mqtt
<1>2. IsList(ports)
  BY DEF IsFinding
<1> HIDE DEF P, ports
<1>3. PlainList(f, P)
  <2>1. P = [i \in DOMAIN ports |-> P[i]] /\ \A i \in DOMAIN ports : P[i] = Add(f, <<"MQTT", ports[i]>>, "mqtt", "", <<"port", ports[i]>>)
    BY DEF ForEach, P
  <2>2. \A i \in DOMAIN ports : Plain(f, P[i])
    <3> TAKE i \in DOMAIN ports
    <3>1. Plain(f, Add(f, <<"MQTT", ports[i]>>, "mqtt", "", <<"port", ports[i]>>))
      BY TwoItems, AddProposed
    <3> QED
      BY <2>1, <3>1
  <2> QED
    BY <1>2, <2>1, <2>2, EachPlain
<1> QED
  BY <1>1, <1>3

LEMMA TruenasProposed ==
  ASSUME NEW f, IsFinding(f)
  PROVE  PlainList(f, Truenas(f))
<1>1. CASE f.truenas = None
  BY <1>1, NoProposal DEF Truenas
<1>2. CASE ~(f.truenas = None)
  <2> DEFINE pools == f.truenas
             M == Modes(f, "truenas", <<"pools", "alerts">>)
             P == ForEach(pools, LAMBDA x : Add(f, <<"pool", x>>, "truenas", "pool", <<"pool", x>>))
  <2>1. Truenas(f) = M \o P
    BY <1>2 DEF Truenas
  <2>2. IsList(pools)
    BY <1>2 DEF IsFinding
  <2> HIDE DEF pools, M, P
  <2>3. PlainList(f, M)
    BY TwoItems, ModesProposed DEF M
  <2>4. PlainList(f, P)
    <3>1. P = [i \in DOMAIN pools |-> P[i]] /\ \A i \in DOMAIN pools : P[i] = Add(f, <<"pool", pools[i]>>, "truenas", "pool", <<"pool", pools[i]>>)
      BY DEF ForEach, P
    <3>2. \A i \in DOMAIN pools : Plain(f, P[i])
      <4> TAKE i \in DOMAIN pools
      <4>1. Plain(f, Add(f, <<"pool", pools[i]>>, "truenas", "pool", <<"pool", pools[i]>>))
        BY TwoItems, AddProposed
      <4> QED
        BY <3>1, <4>1
    <3> QED
      BY <2>2, <3>1, <3>2, EachPlain
  <2> QED
    BY <2>1, <2>3, <2>4, PlainJoined
<1> QED
  BY <1>1, <1>2

LEMMA AppsProposed ==
  ASSUME NEW f
  PROVE  PlainList(f, Apps(f))
<1> DEFINE H == Modes(f, "homeassistant", <<"api", "unavailable", "updates">>)
           T == Modes(f, "technitium", <<"stats", "update">>)
<1>1. PlainList(f, H)
  BY ThreeItems, ModesProposed
<1>2. PlainList(f, T)
  BY TwoItems, ModesProposed
<1> HIDE DEF H, T
<1>3. Apps(f) = (IF f.homeassistant THEN H ELSE <<>>) \o (IF f.technitium THEN T ELSE <<>>)
  BY DEF Apps, H, T
<1>4. PlainList(f, IF f.homeassistant THEN H ELSE <<>>) /\ PlainList(f, IF f.technitium THEN T ELSE <<>>)
  BY <1>1, <1>2, NoProposal
<1> QED
  BY <1>3, <1>4, PlainJoined

LEMMA SitesProposed ==
  ASSUME NEW f, IsFinding(f), f.unifi # None
  PROVE  PlainList(f, Sites(f))
<1> DEFINE sites == f.unifi.sites
           tag(x) == IF Len(sites) > 1 THEN <<x>> ELSE <<>>
           part(x) == IF Len(sites) > 1 THEN <<"site", x>> ELSE Whole
           D == ForEach(sites, LAMBDA x : Add(f, <<"devices">> \o tag(x), "unifi_network", "devices", part(x)))
           W == ForEach(sites, LAMBDA x : Add(f, <<"firmware">> \o tag(x), "unifi_network", "firmware", part(x)))
<1>1. Sites(f) = D \o W
  BY DEF Sites
<1>2. IsList(sites)
  BY DEF IsFinding
<1>3. \A word, x : IsList(<<word>> \o tag(x))
  <2> TAKE word, x
  <2>1. IsList(<<word>>) /\ IsList(tag(x))
    BY OneItem, NoItems
  <2> QED
    BY <2>1, ListsJoined
<1> HIDE DEF D, W, sites, tag, part
<1>4. PlainList(f, D)
  <2>1. D = [i \in DOMAIN sites |-> D[i]] /\ \A i \in DOMAIN sites : D[i] = Add(f, <<"devices">> \o tag(sites[i]), "unifi_network", "devices", part(sites[i]))
    BY DEF ForEach, D
  <2>2. \A i \in DOMAIN sites : Plain(f, D[i])
    <3> TAKE i \in DOMAIN sites
    <3>1. Plain(f, Add(f, <<"devices">> \o tag(sites[i]), "unifi_network", "devices", part(sites[i])))
      BY <1>3, AddProposed
    <3> QED
      BY <2>1, <3>1
  <2> QED
    BY <1>2, <2>1, <2>2, EachPlain
<1>5. PlainList(f, W)
  <2>1. W = [i \in DOMAIN sites |-> W[i]] /\ \A i \in DOMAIN sites : W[i] = Add(f, <<"firmware">> \o tag(sites[i]), "unifi_network", "firmware", part(sites[i]))
    BY DEF ForEach, W
  <2>2. \A i \in DOMAIN sites : Plain(f, W[i])
    <3> TAKE i \in DOMAIN sites
    <3>1. Plain(f, Add(f, <<"firmware">> \o tag(sites[i]), "unifi_network", "firmware", part(sites[i])))
      BY <1>3, AddProposed
    <3> QED
      BY <2>1, <3>1
  <2> QED
    BY <1>2, <2>1, <2>2, EachPlain
<1> QED
  BY <1>1, <1>4, <1>5, PlainJoined

LEMMA DevicesProposed ==
  ASSUME NEW f, IsFinding(f), f.unifi # None
  PROVE  PlainList(f, Devices(f))
<1> DEFINE devs == Named(f.unifi.devices)
           D == ForEach(devs, LAMBDA x : Add(f, <<x>>, "unifi_network", "device", <<"device", x>>))
           C == ForEach(devs, LAMBDA x : Add(f, <<x, "CPU">>, "unifi_network", "device_cpu", <<"device", x>>))
           M == ForEach(devs, LAMBDA x : Add(f, <<x, "memory">>, "unifi_network", "device_memory", <<"device", x>>))
<1>1. Devices(f) = D \o C \o M
  BY DEF Devices
<1>2. IsList(devs)
  BY NamedList DEF IsFinding
<1> HIDE DEF D, C, M, devs
<1>3. PlainList(f, D)
  <2>1. D = [i \in DOMAIN devs |-> D[i]] /\ \A i \in DOMAIN devs : D[i] = Add(f, <<devs[i]>>, "unifi_network", "device", <<"device", devs[i]>>)
    BY DEF ForEach, D
  <2>2. \A i \in DOMAIN devs : Plain(f, D[i])
    <3> TAKE i \in DOMAIN devs
    <3>1. Plain(f, Add(f, <<devs[i]>>, "unifi_network", "device", <<"device", devs[i]>>))
      BY OneItem, AddProposed
    <3> QED
      BY <2>1, <3>1
  <2> QED
    BY <1>2, <2>1, <2>2, EachPlain
<1>4. PlainList(f, C)
  <2>1. C = [i \in DOMAIN devs |-> C[i]] /\ \A i \in DOMAIN devs : C[i] = Add(f, <<devs[i], "CPU">>, "unifi_network", "device_cpu", <<"device", devs[i]>>)
    BY DEF ForEach, C
  <2>2. \A i \in DOMAIN devs : Plain(f, C[i])
    <3> TAKE i \in DOMAIN devs
    <3>1. Plain(f, Add(f, <<devs[i], "CPU">>, "unifi_network", "device_cpu", <<"device", devs[i]>>))
      BY TwoItems, AddProposed
    <3> QED
      BY <2>1, <3>1
  <2> QED
    BY <1>2, <2>1, <2>2, EachPlain
<1>5. PlainList(f, M)
  <2>1. M = [i \in DOMAIN devs |-> M[i]] /\ \A i \in DOMAIN devs : M[i] = Add(f, <<devs[i], "memory">>, "unifi_network", "device_memory", <<"device", devs[i]>>)
    BY DEF ForEach, M
  <2>2. \A i \in DOMAIN devs : Plain(f, M[i])
    <3> TAKE i \in DOMAIN devs
    <3>1. Plain(f, Add(f, <<devs[i], "memory">>, "unifi_network", "device_memory", <<"device", devs[i]>>))
      BY TwoItems, AddProposed
    <3> QED
      BY <2>1, <3>1
  <2> QED
    BY <1>2, <2>1, <2>2, EachPlain
<1> QED
  BY <1>1, <1>3, <1>4, <1>5, PlainJoined

LEMMA CamerasProposed ==
  ASSUME NEW f, IsFinding(f), f.unifi # None
  PROVE  PlainList(f, Cameras(f))
<1>1. CASE f.unifi.cameras = None
  BY <1>1, NoProposal DEF Cameras
<1>2. CASE ~(f.unifi.cameras = None)
  <2> DEFINE named == Named(f.unifi.cameras)
             M == Modes(f, "unifi_protect", <<"cameras">>)
             C == ForEach(named, LAMBDA x : Add(f, <<"camera", x>>, "unifi_protect", "camera", <<"camera", x>>))
  <2>1. Cameras(f) = M \o C
    BY <1>2 DEF Cameras
  <2>2. IsList(named)
    BY <1>2, NamedList DEF IsFinding
  <2> HIDE DEF named, M, C
  <2>3. PlainList(f, M)
    BY OneItem, ModesProposed DEF M
  <2>4. PlainList(f, C)
    <3>1. C = [i \in DOMAIN named |-> C[i]] /\ \A i \in DOMAIN named : C[i] = Add(f, <<"camera", named[i]>>, "unifi_protect", "camera", <<"camera", named[i]>>)
      BY DEF ForEach, C
    <3>2. \A i \in DOMAIN named : Plain(f, C[i])
      <4> TAKE i \in DOMAIN named
      <4>1. Plain(f, Add(f, <<"camera", named[i]>>, "unifi_protect", "camera", <<"camera", named[i]>>))
        BY TwoItems, AddProposed
      <4> QED
        BY <3>1, <4>1
    <3> QED
      BY <2>2, <3>1, <3>2, EachPlain
  <2> QED
    BY <2>1, <2>3, <2>4, PlainJoined
<1> QED
  BY <1>1, <1>2

LEMMA UnifiProposed ==
  ASSUME NEW f, IsFinding(f)
  PROVE  PlainList(f, Unifi(f))
<1>1. CASE f.unifi = None
  BY <1>1, NoProposal DEF Unifi
<1>2. CASE f.unifi # None
  <2>1. PlainList(f, Sites(f)) /\ PlainList(f, Devices(f)) /\ PlainList(f, Cameras(f))
    BY <1>2, SitesProposed, DevicesProposed, CamerasProposed
  <2> QED
    BY <1>2, <2>1, PlainJoined DEF Unifi
<1> QED
  BY <1>1, <1>2

\* The name of a guest is not that of a machine, whatever the two are called.
LEMMA SecondWord ==
  ASSUME NEW label, NEW suffix, IsList(suffix), Len(suffix) >= 1
  PROVE  (<<label>> \o suffix)[2] = suffix[1]
<1>1. IsList(<<label>>) /\ Len(<<label>>) = 1
  BY OneItem
<1>2. 1 \in 1..Len(suffix)
  BY ListParts
<1>3. (<<label>> \o suffix)[1 + 1] = suffix[1]
  BY <1>1, <1>2, ListsJoined
<1> QED
  BY <1>3

\* The monitors of machines and of what runs on them.
IsLabel(suffix) == IsList(suffix) /\ Len(suffix) >= 1 /\ suffix[1] # "VM"
IsMachine(f, type, suffix, part, m) == m = Add(f, suffix, type, "machine", part)
IsGuest(f, type, g, deps, m) ==
  m = [Add(f, <<"VM", g.name>>, type, "guest", <<"guest", g.name>>) EXCEPT !.depends_on = deps]

LEMMA MachineProposed ==
  ASSUME NEW f, NEW type \in {"proxmox", "vsphere"}, NEW suffix, IsLabel(suffix), NEW part, NEW m,
         IsMachine(f, type, suffix, part, m)
  PROVE  Plain(f, m) /\ m.name[2] # "VM"
<1>1. Plain(f, m)
  BY AddProposed DEF IsMachine, IsLabel
<1>2. m.name = <<f.label>> \o suffix
  BY DEF Add, Monitor, IsMachine
<1>3. (<<f.label>> \o suffix)[2] = suffix[1]
  BY SecondWord DEF IsLabel
<1> QED
  BY <1>1, <1>2, <1>3 DEF IsLabel

LEMMA GuestProposed ==
  ASSUME NEW f, NEW type \in {"proxmox", "vsphere"}, NEW g, NEW deps, NEW m,
         IsGuest(f, type, g, deps, m),
         deps = <<>> \/ \E d : deps = <<d>> /\ d[2] # "VM"
  PROVE  Proposed(f, m) /\ m.depends_on = deps
<1> DEFINE suffix == <<"VM", g.name>>
           part == <<"guest", g.name>>
           p == Add(f, suffix, type, "guest", part)
<1>1. IsList(suffix) /\ Len(suffix) >= 1 /\ suffix[1] = "VM"
  <2>1. \A n : n = 2 => n >= 1
    OBVIOUS
  <2> QED
    BY <2>1, TwoItems
<1> HIDE DEF suffix, part
<1>3. Proposed(f, p)
  BY <1>1, AddProposed DEF Plain
<1>4. p.name = <<f.label>> \o suffix
  BY DEF Add, Monitor
<1>5. p.name[2] = "VM"
  BY <1>1, <1>4, SecondWord
<1>6. /\ m.name = p.name /\ m.alerts = p.alerts /\ m.forecast = p.forecast /\ m.thresholds = p.thresholds
      /\ m.credential = p.credential /\ m.type = p.type /\ m.depends_on = deps /\ DOMAIN m = DOMAIN p
  <2>1. m = [p EXCEPT !.depends_on = deps]
    BY DEF IsGuest, suffix, part
  <2> QED
    BY <2>1 DEF Add, Monitor
<1> HIDE DEF p
<1> QED
  BY <1>3, <1>5, <1>6 DEF Proposed

\* What the guests depend on is proposed with them.
Complete(ms) == \A m \in Range(ms) : \A d \in Range(m.depends_on) : \E x \in Range(ms) : x.name = d

\* Machines and guests.
Inventoried(f, type, label, part, machines, guests, M, G) ==
  /\ M = [i \in DOMAIN machines |-> M[i]]
  /\ \A i \in DOMAIN machines : IsMachine(f, type, label[machines[i]], part[machines[i]], M[i])
  /\ G = [i \in DOMAIN guests |-> G[i]]
  /\ \A i \in DOMAIN guests :
       \E deps : /\ IsGuest(f, type, guests[i], deps, G[i])
                 /\ \/ deps = <<>>
                    \/ \E k \in DOMAIN machines : deps = <<M[k].name>>

LEMMA InventoryProposed ==
  ASSUME NEW f, NEW type \in {"proxmox", "vsphere"}, NEW label, NEW part,
         NEW machines, NEW guests, IsList(machines), IsList(guests), NEW M, NEW C, NEW G,
         \A x \in Range(machines) : IsLabel(label[x]),
         Inventoried(f, type, label, part, machines, guests, M, G), PlainList(f, C)
  PROVE  ProposedList(f, M \o C \o G) /\ Complete(M \o C \o G)
<1>0. /\ M = [i \in DOMAIN machines |-> M[i]]
      /\ \A i \in DOMAIN machines : IsMachine(f, type, label[machines[i]], part[machines[i]], M[i])
      /\ G = [i \in DOMAIN guests |-> G[i]]
  BY DEF Inventoried
<1>1. ASSUME NEW i \in DOMAIN machines
      PROVE  Proposed(f, M[i]) /\ M[i].depends_on = <<>> /\ M[i].name[2] # "VM"
  <2> DEFINE m == M[i]
             suffix == label[machines[i]]
             it == part[machines[i]]
  <2>1. IsLabel(suffix)
    BY DEF Range
  <2>2. IsMachine(f, type, suffix, it, m)
    BY <1>0
  <2> HIDE DEF m, suffix, it
  <2>3. Plain(f, m) /\ m.name[2] # "VM"
    BY <2>1, <2>2, MachineProposed
  <2> QED
    BY <2>3 DEF m, Plain
<1>2. ASSUME NEW i \in DOMAIN guests
      PROVE  /\ Proposed(f, G[i])
             /\ \/ G[i].depends_on = <<>>
                \/ \E k \in DOMAIN machines : G[i].depends_on = <<M[k].name>>
  <2> DEFINE g == guests[i]
             m == G[i]
  <2>1. PICK deps : /\ IsGuest(f, type, g, deps, m)
                    /\ \/ deps = <<>>
                       \/ \E k \in DOMAIN machines : deps = <<M[k].name>>
    BY DEF Inventoried
  <2> HIDE DEF g, m
  <2>3. deps = <<>> \/ \E d : deps = <<d>> /\ d[2] # "VM"
    BY <1>1, <2>1
  <2>4. Proposed(f, m) /\ m.depends_on = deps
    BY <2>1, <2>3, GuestProposed
  <2> QED
    BY <2>1, <2>4 DEF m
<1>3. ProposedList(f, M)
  BY <1>0, <1>1, EachProposed
<1>4. ProposedList(f, C) /\ \A m \in Range(C) : m.depends_on = <<>>
  BY DEF PlainList
<1>5. ProposedList(f, G)
  BY <1>0, <1>2, EachProposed
<1>6. Range(M) = {M[i] : i \in DOMAIN machines} /\ Range(G) = {G[i] : i \in DOMAIN guests}
  BY <1>0 DEF Range
<1> DEFINE ms == M \o C \o G
<1>7. IsAll(f, ms, M, C, G)
  BY <1>3, <1>4, <1>5, ThreeJoined
<1> HIDE DEF ms
<1>12. ProposedList(f, ms)
  BY <1>7 DEF IsAll
<1>13. Range(ms) = Range(M) \union Range(C) \union Range(G)
  BY <1>7 DEF IsAll
<1>9. ASSUME NEW m \in Range(ms), NEW d \in Range(m.depends_on)
      PROVE  \E x \in Range(ms) : x.name = d
  <2>1. m.depends_on # <<>>
    BY <1>9, NoItems
  <2>2. PICK i \in DOMAIN guests : m = G[i]
    BY <1>1, <1>4, <1>6, <1>13, <2>1
  <2>3. PICK k \in DOMAIN machines : m.depends_on = <<M[k].name>>
    BY <1>2, <2>1, <2>2
  <2>4. d = M[k].name
    <3>1. d \in Range(<<M[k].name>>)
      BY <1>9, <2>3
    <3> QED
      BY <3>1, OneItem
  <2>5. M[k] \in Range(ms)
    BY <1>6, <1>13
  <2> QED
    BY <2>4, <2>5
<1>10. Complete(ms)
  BY <1>9 DEF Complete
<1> QED
  BY <1>10, <1>12 DEF ms

LEMMA HypervisorProposed ==
  ASSUME NEW f, NEW type \in {"proxmox", "vsphere"}, NEW label, NEW part, NEW stores, NEW h,
         IsList(h.machines), IsList(h.guests), PlainList(f, stores),
         \A x \in Range(h.machines) : IsLabel(label[x])
  PROVE  /\ ProposedList(f, Hypervisor(f, type, label, part, stores, h))
         /\ Complete(Hypervisor(f, type, label, part, stores, h))
<1> DEFINE machines == h.machines
           guests == h.guests
           machine(x) == Add(f, label[x], type, "machine", part[x])
           deps(g) == IF g.on \in Range(machines) THEN <<machine(g.on).name>> ELSE <<>>
           M == [i \in DOMAIN machines |-> machine(machines[i])]
           C == ForEach(machines, LAMBDA x : Add(f, label[x] \o <<"CPU">>, type, "cpu", part[x]))
           R == ForEach(machines, LAMBDA x : Add(f, label[x] \o <<"memory">>, type, "memory", part[x]))
           G == [i \in DOMAIN guests |->
                   [Add(f, <<"VM", guests[i].name>>, type, "guest", <<"guest", guests[i].name>>)
                      EXCEPT !.depends_on = deps(guests[i])]]
<1>1. Hypervisor(f, type, label, part, stores, h) = M \o (C \o R \o stores) \o G
  BY DEF Hypervisor, ForEach
<1>2. M = [i \in DOMAIN machines |-> M[i]]
      /\ \A i \in DOMAIN machines : IsMachine(f, type, label[machines[i]], part[machines[i]], M[i])
  BY DEF IsMachine
<1>4. G = [i \in DOMAIN guests |-> G[i]] /\ \A i \in DOMAIN guests : IsGuest(f, type, guests[i], deps(guests[i]), G[i])
  BY DEF IsGuest
<1>5. ASSUME NEW i \in DOMAIN guests
      PROVE  deps(guests[i]) = <<>> \/ \E k \in DOMAIN machines : deps(guests[i]) = <<M[k].name>>
  <2>1. CASE guests[i].on \in Range(machines)
    <3>1. PICK k \in DOMAIN machines : machines[k] = guests[i].on
      BY <2>1 DEF Range
    <3>2. M[k] = machine(guests[i].on)
      BY <3>1
    <3> HIDE DEF machine, M
    <3> QED
      BY <2>1, <3>2
  <2> QED
    BY <2>1
<1>6. \A word : \A i \in DOMAIN machines : IsList(label[machines[i]] \o <<word>>)
  <2> TAKE word
  <2> TAKE i \in DOMAIN machines
  <2>1. IsList(label[machines[i]]) /\ IsList(<<word>>)
    BY OneItem DEF Range, IsLabel
  <2> QED
    BY <2>1, ListsJoined
<1>7. type \notin {"ssh", "unifi"} /\ IsList(machines)
  OBVIOUS
<1> HIDE DEF M, C, R, G, deps, machine, machines, guests
<1>8. PlainList(f, C)
  <2>1. C = [i \in DOMAIN machines |-> C[i]] /\ \A i \in DOMAIN machines : C[i] = Add(f, label[machines[i]] \o <<"CPU">>, type, "cpu", part[machines[i]])
    BY DEF ForEach, C
  <2>2. \A i \in DOMAIN machines : Plain(f, C[i])
    <3> TAKE i \in DOMAIN machines
    <3>1. Plain(f, Add(f, label[machines[i]] \o <<"CPU">>, type, "cpu", part[machines[i]]))
      BY <1>6, <1>7, AddProposed
    <3> QED
      BY <2>1, <3>1
  <2> QED
    BY <1>7, <2>1, <2>2, EachPlain
<1>9. PlainList(f, R)
  <2>1. R = [i \in DOMAIN machines |-> R[i]] /\ \A i \in DOMAIN machines : R[i] = Add(f, label[machines[i]] \o <<"memory">>, type, "memory", part[machines[i]])
    BY DEF ForEach, R
  <2>2. \A i \in DOMAIN machines : Plain(f, R[i])
    <3> TAKE i \in DOMAIN machines
    <3>1. Plain(f, Add(f, label[machines[i]] \o <<"memory">>, type, "memory", part[machines[i]]))
      BY <1>6, <1>7, AddProposed
    <3> QED
      BY <2>1, <3>1
  <2> QED
    BY <1>7, <2>1, <2>2, EachPlain
<1>10. PlainList(f, C \o R \o stores)
  BY <1>8, <1>9, PlainJoined
<1>11. Inventoried(f, type, label, part, machines, guests, M, G)
  BY <1>2, <1>4, <1>5 DEF Inventoried
<1>12. ProposedList(f, M \o (C \o R \o stores) \o G) /\ Complete(M \o (C \o R \o stores) \o G)
  <2>1. IsList(guests) /\ \A x \in Range(machines) : IsLabel(label[x])
    BY DEF machines, guests
  <2> DEFINE B == C \o R \o stores
  <2>2. PlainList(f, B)
    BY <1>10
  <2> HIDE DEF B
  <2>3. ProposedList(f, M \o B \o G) /\ Complete(M \o B \o G)
    BY <1>7, <1>11, <2>1, <2>2, InventoryProposed
  <2> QED
    BY <2>3 DEF B
<1> QED
  BY <1>1, <1>12

LEMMA RdpProposed ==
  ASSUME NEW f
  PROVE  PlainList(f, Rdp(f))
<1>1. PlainList(f, <<Tcp(f, <<"RDP">>, "3389")>>)
  BY OneItem, TcpProposed
<1> QED
  BY <1>1, NoProposal DEF Rdp

LEMMA FallBackProposed ==
  ASSUME NEW f, NEW before
  PROVE  PlainList(f, FallBack(f, before))
<1> DEFINE m == Tcp(f, <<"port", f.ports[1]>>, f.ports[1])
<1>1. PlainList(f, <<m>>)
  BY TwoItems, TcpProposed
<1>2. FallBack(f, before) \in {<<>>, <<m>>}
  BY DEF FallBack
<1> HIDE DEF m
<1> QED
  BY <1>1, <1>2, NoProposal

\* What a host reports of its machines is in lists, and nothing is proposed for a host
\* without them.
LEMMA NoHypervisor ==
  ASSUME NEW f
  PROVE  ProposedList(f, <<>>) /\ Complete(<<>>)
BY NoProposal, NoItems DEF Complete

\* One storage each.
IsStorage(f, type, mode, field, stores, suffix, F) ==
  /\ F = [i \in DOMAIN stores |-> F[i]]
  /\ \A i \in DOMAIN stores :
       /\ IsList(suffix[i])
       /\ F[i] = Add(f, suffix[i], type, mode, <<field, stores[i].name>>)

LEMMA StoresProposed ==
  ASSUME NEW f, NEW type, type \notin {"ssh", "unifi"}, NEW mode, NEW field, NEW stores, IsList(stores),
         NEW suffix, NEW F, IsStorage(f, type, mode, field, stores, suffix, F)
  PROVE  PlainList(f, F)
<1>1. ASSUME NEW i \in DOMAIN stores PROVE Plain(f, F[i])
  <2>1. IsList(suffix[i]) /\ F[i] = Add(f, suffix[i], type, mode, <<field, stores[i].name>>)
    BY DEF IsStorage
  <2>2. Plain(f, Add(f, suffix[i], type, mode, <<field, stores[i].name>>))
    BY <2>1, AddProposed
  <2> QED
    BY <2>1, <2>2
<1> QED
  BY <1>1, EachPlain DEF IsStorage

LEMMA Labels ==
  ASSUME NEW w, w # "VM"
  PROVE  IsLabel(<<w>>) /\ \A x : IsLabel(<<w, x>>)
<1>1. IsList(<<w>>) /\ Len(<<w>>) = 1 /\ <<w>>[1] = w
  BY OneItem
<1>2. \A x : IsList(<<w, x>>) /\ Len(<<w, x>>) = 2 /\ <<w, x>>[1] = w
  BY TwoItems
<1>3. 1 >= 1 /\ 2 >= 1
  OBVIOUS
<1> QED
  BY <1>1, <1>2, <1>3 DEF IsLabel

LEMMA ProxmoxProposed ==
  ASSUME NEW f, IsFinding(f)
  PROVE  ProposedList(f, Proxmox(f)) /\ Complete(Proxmox(f))
<1>1. CASE f.proxmox = None
  BY <1>1, NoHypervisor DEF Proxmox
<1>2. CASE f.proxmox # None
  <2> DEFINE h == f.proxmox
             suffix == [i \in DOMAIN h.stores |->
                          <<"storage", h.stores[i].name>>
                          \o (IF h.stores[i].on = None THEN <<>> ELSE <<"on", h.stores[i].on>>)]
             F == [i \in DOMAIN h.stores |->
                     Add(f, suffix[i], "proxmox", "storage", <<"storage", h.stores[i].name>>)]
             label == [x \in Range(h.machines) |-> <<"node", x>>]
             part == [x \in Range(h.machines) |-> <<"machine", x>>]
  <2>1. IsList(h.machines) /\ IsList(h.guests) /\ IsList(h.stores)
    BY <1>2 DEF IsFinding
  <2>2. Proxmox(f) = Hypervisor(f, "proxmox", label, part, F, h)
    BY <1>2 DEF Proxmox, ForEach
  <2>3. \A x \in Range(h.machines) : IsLabel(label[x])
    BY Labels
  <2>4. \A i \in DOMAIN h.stores : IsList(suffix[i])
    <3> TAKE i \in DOMAIN h.stores
    <3> DEFINE rest == IF h.stores[i].on = None THEN <<>> ELSE <<"on", h.stores[i].on>>
               start == <<"storage", h.stores[i].name>>
    <3>1. IsList(rest) /\ IsList(start)
      BY NoItems, TwoItems
    <3>2. suffix[i] = start \o rest
      OBVIOUS
    <3> HIDE DEF rest, start, suffix
    <3> QED
      BY <3>1, <3>2, ListsJoined
  <2>5. /\ F = [i \in DOMAIN h.stores |-> F[i]]
        /\ \A i \in DOMAIN h.stores : F[i] = Add(f, suffix[i], "proxmox", "storage", <<"storage", h.stores[i].name>>)
    OBVIOUS
  <2> HIDE DEF suffix, F, label, part
  <2>6. PlainList(f, F)
    <3> DEFINE stores == h.stores
    <3>1. IsStorage(f, "proxmox", "storage", "storage", stores, suffix, F) /\ IsList(stores)
      BY <2>1, <2>4, <2>5 DEF IsStorage
    <3> HIDE DEF stores
    <3> QED
      BY <3>1, StoresProposed
  <2> HIDE DEF h
  <2> QED
    BY <2>1, <2>2, <2>3, <2>6, HypervisorProposed
<1> QED
  BY <1>1, <1>2

LEMMA VsphereProposed ==
  ASSUME NEW f, IsFinding(f)
  PROVE  ProposedList(f, Vsphere(f)) /\ Complete(Vsphere(f))
<1>1. CASE f.vsphere = None
  BY <1>1, NoHypervisor DEF Vsphere
<1>2. CASE f.vsphere # None
  <2> DEFINE h == f.vsphere
             single == Len(h.machines) = 1
             suffix == [i \in DOMAIN h.stores |-> <<"datastore", h.stores[i].name>>]
             F == [i \in DOMAIN h.stores |->
                     Add(f, suffix[i], "vsphere", "datastore", <<"datastore", h.stores[i].name>>)]
             label == [x \in Range(h.machines) |-> IF single THEN <<"ESXi">> ELSE <<"ESXi", x>>]
             part == [x \in Range(h.machines) |-> IF single THEN Whole ELSE <<"machine", x>>]
  <2>1. IsList(h.machines) /\ IsList(h.guests) /\ IsList(h.stores)
    BY <1>2 DEF IsFinding
  <2>2. Vsphere(f) = Hypervisor(f, "vsphere", label, part, F, h)
    BY <1>2 DEF Vsphere, ForEach
  <2>3. \A x \in Range(h.machines) : IsLabel(label[x])
    <3>1. \A x \in Range(h.machines) : label[x] = <<"ESXi">> \/ label[x] = <<"ESXi", x>>
      OBVIOUS
    <3> HIDE DEF label
    <3> QED
      BY <3>1, Labels
  <2>4. \A i \in DOMAIN h.stores : IsList(suffix[i])
    BY TwoItems
  <2>5. /\ F = [i \in DOMAIN h.stores |-> F[i]]
        /\ \A i \in DOMAIN h.stores : F[i] = Add(f, suffix[i], "vsphere", "datastore", <<"datastore", h.stores[i].name>>)
    OBVIOUS
  <2> HIDE DEF suffix, F, label, part
  <2>6. PlainList(f, F)
    <3> DEFINE stores == h.stores
    <3>1. IsStorage(f, "vsphere", "datastore", "datastore", stores, suffix, F) /\ IsList(stores)
      BY <2>1, <2>4, <2>5 DEF IsStorage
    <3> HIDE DEF stores
    <3> QED
      BY <3>1, StoresProposed
  <2> HIDE DEF h
  <2> QED
    BY <2>1, <2>2, <2>3, <2>6, HypervisorProposed
<1> QED
  BY <1>1, <1>2

LEMMA PlainComplete ==
  ASSUME NEW f, NEW ms, PlainList(f, ms)
  PROVE  ProposedList(f, ms) /\ Complete(ms)
BY NoItems DEF PlainList, Complete

LEMMA CompleteJoined ==
  ASSUME NEW f, NEW s, NEW t,
         ProposedList(f, s), Complete(s), ProposedList(f, t), Complete(t)
  PROVE  ProposedList(f, s \o t) /\ Complete(s \o t)
<1>1. IsBoth(f, s \o t, s, t)
  BY ProposalsAfter
<1> DEFINE u == s \o t
<1>2. ProposedList(f, u) /\ Range(u) = Range(s) \union Range(t)
  BY <1>1 DEF IsBoth
<1> HIDE DEF u
<1>3. Complete(u)
  BY <1>2 DEF Complete
<1> QED
  BY <1>2, <1>3 DEF u

\* Whatever a host reports, its proposals are monitors that depend on one another only.
LEMMA ProposeSound ==
  ASSUME NEW f, IsFinding(f)
  PROVE  ProposedList(f, Propose(f)) /\ Complete(Propose(f))
<1> DEFINE own == Ping(f) \o Snmp(f) \o Windows(f) \o Linux(f) \o Rdp(f) \o Web(f)
           rest == Apps(f) \o Unifi(f) \o Truenas(f) \o Mqtt(f)
<1>1. PlainList(f, own)
  BY PingProposed, SnmpProposed, WindowsProposed, LinuxProposed, RdpProposed, WebProposed, PlainJoined
<1>2. PlainList(f, FallBack(f, own))
  BY FallBackProposed
<1>3. /\ PlainList(f, Apps(f)) /\ PlainList(f, Unifi(f)) /\ PlainList(f, Truenas(f))
      /\ PlainList(f, Mqtt(f))
  BY AppsProposed, UnifiProposed, TruenasProposed, MqttProposed
<1>4. Propose(f) = own \o FallBack(f, own) \o Proxmox(f) \o Vsphere(f) \o Apps(f) \o Unifi(f)
                   \o Truenas(f) \o Mqtt(f)
  BY DEF Propose
<1> HIDE DEF own
<1> DEFINE Good(s) == ProposedList(f, s) /\ Complete(s)
<1>5. /\ Good(own) /\ Good(FallBack(f, own)) /\ Good(Apps(f)) /\ Good(Unifi(f))
      /\ Good(Truenas(f)) /\ Good(Mqtt(f))
  BY <1>1, <1>2, <1>3, PlainComplete
<1>6. Good(Proxmox(f)) /\ Good(Vsphere(f))
  BY ProxmoxProposed, VsphereProposed
<1>7. \A s, t : Good(s) /\ Good(t) => Good(s \o t)
  BY CompleteJoined
<1> HIDE DEF Good
<1>8. Good(own \o FallBack(f, own) \o Proxmox(f) \o Vsphere(f) \o Apps(f) \o Unifi(f)
           \o Truenas(f) \o Mqtt(f))
  BY <1>5, <1>6, <1>7
<1> QED
  BY <1>4, <1>8 DEF Good

-----------------------------------------------------------------------------
(* Loading *)

LEMMA MonitorsListed ==
  ASSUME NEW ms, MonitorList(ms)
  PROVE  ListOfMonitors(ms)
<1>1. Len(ms) \in Nat /\ DOMAIN ms = 1..Len(ms)
  BY ListParts DEF MonitorList
<1>2. ASSUME NEW i \in DOMAIN ms
      PROVE  ParentsOf(ms, i) \in Seq(DOMAIN ms)
  <2> DEFINE deps == ms[i].depends_on
             D == DOMAIN ms
             r == [k \in DOMAIN deps |-> Resolve(ms, deps[k])]
             p == Only(r, D)
  <2>1. IsList(deps)
    BY DEF MonitorList
  <2>2. ParentsOf(ms, i) = p
    BY DEF ParentsOf
  <2>3. Len(deps) \in Nat /\ DOMAIN deps = 1..Len(deps)
    BY <2>1, ListParts
  <2>4. r = [k \in 1..Len(deps) |-> r[k]]
    BY <2>3
  <2> HIDE DEF deps, r, D
  <2>5. IsList(r)
    BY <2>3, <2>4, ListMade
  <2>6. IsList(p) /\ Range(p) = Range(r) \cap D
    BY <2>5, OnlyList
  <2> HIDE DEF p
  <2>7. /\ p \in Seq(Range(p)) /\ Range(p) \subseteq D
    BY <2>6 DEF IsList
  <2>8. p \in Seq(D)
    BY <2>7, SeqMonotonic
  <2> QED
    BY <2>2, <2>8 DEF D
<1> QED
  BY <1>1, <1>2 DEF ListOfMonitors

\* What loads is sound and the other way round.
LEMMA LoadsWhatIsSound ==
  ASSUME MonitorList(config)
  PROVE  Loads(config, settings) <=> Sound
<1>1. NoCycle(config) <=> Acyclic(config)
  BY MonitorsListed, NoCycleIsAcyclic
<1>2. Range(config) = {config[i] : i \in DOMAIN config}
  BY DEF Range
<1>3. (\A m \in Range(config) : Valid(m) /\ MonitorRefers(m, settings))
        <=> (\A i \in DOMAIN config : Valid(config[i]) /\ MonitorRefers(config[i], settings))
  BY <1>2
<1> QED
  BY <1>1, <1>3 DEF Loads, Sound

\* What is kept of a finding is a finding.
LEMMA FoundFinding ==
  ASSUME NEW f, IsFinding(f), NEW s
  PROVE  IsFinding(Found(f, s))
<1> DEFINE F == Found(f, s)
           asks == {k \in Probes \union {"mqtt"} : CredentialsFor(k, s) # <<>>}
           usable == asks \ {"mqtt"}
<1>1. DOMAIN f = DOMAIN Nothing
  BY DEF IsFinding
<1>2. F = [x \in DOMAIN f |-> IF x = "worked" THEN [k \in asks |-> CredentialsFor(k, s)[1]]
                              ELSE IF x \in Probes \ usable THEN Nothing[x]
                              ELSE f[x]]
  BY DEF Found
<1> HIDE DEF F, usable, asks
<1>3. DOMAIN F = DOMAIN Nothing
  BY <1>1, <1>2
<1>4. /\ \A x \in {"ports", "web", "tls", "mqtt"} : F[x] = f[x]
      /\ \A x \in {"snmp", "winrm", "ssh", "proxmox", "vsphere", "unifi", "truenas"} :
           F[x] = f[x] \/ F[x] = None
  BY <1>1, <1>2 DEF Nothing, Probes
<1>5. /\ F.ports = f.ports /\ F.web = f.web /\ F.tls = f.tls /\ F.mqtt = f.mqtt
      /\ F.snmp \in {f.snmp, None} /\ F.winrm \in {f.winrm, None} /\ F.ssh \in {f.ssh, None}
      /\ F.proxmox \in {f.proxmox, None} /\ F.vsphere \in {f.vsphere, None}
      /\ F.unifi \in {f.unifi, None} /\ F.truenas \in {f.truenas, None}
  BY <1>4
<1>6. {F.proxmox, F.vsphere} \ {None} \subseteq {f.proxmox, f.vsphere} \ {None}
  BY <1>5
<1>7. IsFinding(F)
  BY <1>3, <1>5, <1>6 DEF IsFinding
<1> QED
  BY <1>7 DEF F

-----------------------------------------------------------------------------
(* The order of the targets *)

LEMMA FlattenRange ==
  ASSUME NEW S, NEW lists \in Seq(Seq(S))
  PROVE  /\ FlattenSeq(lists) \in Seq(S)
         /\ \A x : x \in Range(FlattenSeq(lists)) <=> \E i \in 1..Len(lists) : x \in Range(lists[i])
<1> DEFINE N == Len(lists)
<1>1. N \in Nat /\ \A i \in 1..N : lists[i] \in Seq(S)
  BY LenProperties, ElementOfSeq
<1>2. PICK g : FlatTurns(lists, S, g)
  BY FlattenIsLoop
<1> DEFINE T == {n \in 0..N : \A x : x \in Range(g[n]) <=> \E i \in 1..n : x \in Range(lists[i])}
<1>3. ASSUME NEW n \in 0..N, \A k \in 0..(n - 1) : k \in T
      PROVE  n \in T
  <2>1. CASE n = 0
    BY <1>2, <2>1 DEF Range, FlatTurns
  <2>2. CASE n # 0
    <3>1. n - 1 \in 0..(n - 1) /\ n \in 1..N /\ n - 1 \in 0..N
      BY <2>2, <1>1
    <3>2. /\ \A x : x \in Range(g[n - 1]) <=> \E i \in 1..(n - 1) : x \in Range(lists[i])
          /\ g[n - 1] \in Seq(S) /\ g[n] = g[n - 1] \o lists[n]
      BY <1>2, <1>3, <3>1 DEF FlatTurns
    <3>3. IsList(g[n - 1]) /\ IsList(lists[n])
      BY <1>1, <3>1, <3>2, ListOfSeq
    <3>4. Range(g[n]) = Range(g[n - 1]) \union Range(lists[n])
      BY <3>2, <3>3, ListsJoined
    <3>5. \A i : i \in 1..n <=> i \in 1..(n - 1) \/ i = n
      BY <1>1, <3>1
    <3>6. \A x : x \in Range(g[n]) <=> \E i \in 1..n : x \in Range(lists[i])
      BY <3>2, <3>4, <3>5
    <3> QED
      BY <3>6
  <2> QED
    BY <2>1, <2>2
<1>4. N \in T
  <2>1. 0..N \subseteq T
    <3> HIDE DEF T
    <3> QED
      BY <1>1, <1>3, UpTo
  <2>2. N \in 0..N
    BY <1>1
  <2> HIDE DEF T
  <2> QED
    BY <2>1, <2>2
<1>5. FlattenSeq(lists) = g[N] /\ g[N] \in Seq(S)
  BY <1>1, <1>2 DEF FlatTurns
<1> QED
  BY <1>4, <1>5

\* What is scanned, as a set.
LEMMA Covered ==
  ASSUME NEW r \in ScanRequest, NEW known, Scanned(r, known) # Refused
  PROVE  /\ Scanned(r, known) \in Seq(Addresses)
         /\ \A a : a \in Range(Scanned(r, known))
                     <=> a \notin Excluded(r.exclude) /\ \E t \in Range(AllTargets(r)) : a \in Range(t.hosts)
<1> DEFINE targets == AllTargets(r)
           s == FlattenSeq(HostsOf(targets))
           all == Expand(targets, r.exclude)
<1>1. targets \in Seq(Target) /\ r.exclude \in Seq(Target)
  BY AllTargetsType DEF ScanRequest
<1>2. Scanned(r, known) = all /\ all # Refused
  BY DEF Scanned
<1>3. /\ s \in Seq(Addresses) /\ all \in Seq(Addresses)
      /\ InOrder(all, s, Len(s), Excluded(r.exclude))
  <2> HIDE DEF targets
  <2> QED
    BY <1>1, <1>2, ExpandSound
<1>4. /\ Len(HostsOf(targets)) = Len(targets) /\ HostsOf(targets) \in Seq(Seq(Addresses))
      /\ \A i \in 1..Len(targets) : HostsOf(targets)[i] = targets[i].hosts
  BY <1>1, HostsOfType
<1>5. \A x : x \in Range(s) <=> \E i \in 1..Len(HostsOf(targets)) : x \in Range(HostsOf(targets)[i])
  <2> HIDE DEF targets
  <2> QED
    BY <1>4, FlattenRange
<1>6. DOMAIN targets = 1..Len(targets) /\ DOMAIN s = 1..Len(s)
  BY <1>1, <1>3, LenProperties
<1> HIDE DEF targets, s, all
<1>7. \A x : x \in Range(s) <=> \E t \in Range(targets) : x \in Range(t.hosts)
  <2>1. Range(targets) = {targets[i] : i \in 1..Len(targets)}
    BY <1>6 DEF Range
  <2> QED
    BY <1>4, <1>5, <2>1
<1>8. \A x : x \in Range(s) <=> \E k \in 1..Len(s) : s[k] = x
  BY <1>6 DEF Range
<1>9. \A a : a \in Range(all) <=> a \notin Excluded(r.exclude) /\ a \in Range(s)
  BY <1>3, <1>8 DEF InOrder
<1> QED
  BY <1>2, <1>3, <1>7, <1>9 DEF targets

LEMMA ReverseRange ==
  ASSUME NEW S, NEW s \in Seq(S)
  PROVE  Range(Reverse(s)) = Range(s)
<1> DEFINE n == Len(s)
           f == Reverse(s)
<1>1. n \in Nat /\ DOMAIN s = 1..n
  BY LenProperties
<1>2. f = [i \in 1..n |-> s[(n - i) + 1]]
  BY DEF Reverse
<1> HIDE DEF f, n
<1>3. DOMAIN f = 1..n /\ \A i \in 1..n : f[i] = s[(n - i) + 1]
  BY <1>2
<1>4. \A i \in 1..n : (n - i) + 1 \in 1..n /\ (n - ((n - i) + 1)) + 1 = i
  BY <1>1
<1>5. \A x : (\E i \in 1..n : f[i] = x) <=> (\E i \in 1..n : s[i] = x)
  BY <1>3, <1>4
<1>6. Range(f) = {f[i] : i \in 1..n} /\ Range(s) = {s[i] : i \in 1..n}
  BY <1>1, <1>3 DEF Range
<1>7. Range(f) = Range(s)
  <2>1. \A x : x \in Range(f) <=> \E i \in 1..n : f[i] = x
    BY <1>6
  <2>2. \A x : x \in Range(s) <=> \E i \in 1..n : s[i] = x
    BY <1>6
  <2>3. \A x : x \in Range(f) <=> x \in Range(s)
    BY <1>5, <2>1, <2>2
  <2> QED
    BY <2>3
<1> QED
  BY <1>7 DEF f

\* Other targets, or the same in another order.
LEMMA Reordered ==
  ASSUME NEW r \in ScanRequest, NEW targets \in Seq(Target), Range(targets) = Range(r.targets),
         NEW q, q = [r EXCEPT !.targets = targets],
         NEW known, Scanned(r, known) # Refused, Scanned(q, known) # Refused
  PROVE  q \in ScanRequest /\ Range(Scanned(q, known)) = Range(Scanned(r, known))
<1> DEFINE names == DirectoryNames(r.computers, r.include_disabled)
           n == Len(names)
           singles == [i \in DOMAIN names |-> Single(names[i])]
<1>1. /\ q \in ScanRequest /\ q.targets = targets /\ q.exclude = r.exclude
      /\ q.computers = r.computers /\ q.include_disabled = r.include_disabled
  BY DEF ScanRequest
<1>2. AllTargets(r) = r.targets \o singles /\ AllTargets(q) = targets \o singles
  BY <1>1 DEF AllTargets
<1>3. IsList(singles)
  <2>1. names \in Seq(Addresses)
    BY TargetsAssumption, OnlyItems DEF DirectoryNames
  <2> HIDE DEF names
  <2>2. n \in Nat /\ DOMAIN names = 1..n
    BY <2>1, LenProperties
  <2>3. singles = [i \in 1..n |-> singles[i]]
    BY <2>2
  <2> QED
    BY <2>2, <2>3, ListMade
<1>4. r.targets \in Seq(Target)
  BY DEF ScanRequest
<1> HIDE DEF singles
<1>5. IsList(r.targets) /\ IsList(targets)
  BY <1>4, ListOfSeq
<1>6. Range(AllTargets(r)) = Range(r.targets) \union Range(singles)
  BY <1>2, <1>3, <1>5, ListsJoined
<1>7. Range(AllTargets(q)) = Range(targets) \union Range(singles)
  <2>1. Range(targets \o singles) = Range(targets) \union Range(singles)
    BY <1>3, <1>5, ListsJoined
  <2> QED
    BY <1>2, <2>1
<1>8. Range(AllTargets(r)) = Range(AllTargets(q))
  BY <1>6, <1>7
<1>9. \A a : a \in Range(Scanned(q, known)) <=> a \in Range(Scanned(r, known))
  BY <1>1, <1>8, Covered
<1> QED
  BY <1>1, <1>9

-----------------------------------------------------------------------------
(* The monitors that the rendering goes through *)

\* The finding for a host that responds.
Finding(a) == Found(CHOOSE f \in network : f.address = a, Overridden(settings, request))

Responding == {f.address : f \in network}

LEMMA ResponsesSound ==
  ASSUME NEW hs, IsList(hs), \A f \in network : IsFinding(f)
  PROVE  /\ IsList(Responses(hs))
         /\ \A i \in DOMAIN Responses(hs) :
              /\ IsFinding(Responses(hs)[i])
              /\ \E a \in Range(hs) \cap Responding : Responses(hs)[i] = Finding(a)
<1> DEFINE p == Only(hs, Responding)
           R == Responses(hs)
<1>1. R = [i \in DOMAIN p |-> Finding(p[i])]
  BY DEF Responses, Finding, Responding
<1>2. IsList(p) /\ Range(p) = Range(hs) \cap Responding
  BY OnlyList
<1> HIDE DEF p, R
<1>3. Len(p) \in Nat /\ DOMAIN p = 1..Len(p) /\ \A i \in 1..Len(p) : p[i] \in Range(hs) \cap Responding
  BY <1>2, ListParts
<1>4. R = [i \in 1..Len(p) |-> R[i]] /\ \A i \in 1..Len(p) : R[i] = Finding(p[i])
  BY <1>1, <1>3
<1>5. IsList(R) /\ DOMAIN R = 1..Len(p)
  BY <1>3, <1>4, ListMade
<1>6. ASSUME NEW a \in Responding PROVE IsFinding(Finding(a))
  <2>1. \E f \in network : f.address = a
    BY DEF Responding
  <2>2. (CHOOSE f \in network : f.address = a) \in network
    BY <2>1
  <2> QED
    BY <2>2, FoundFinding DEF Finding
<1> QED
  BY <1>3, <1>4, <1>5, <1>6 DEF R

\* The rest of a list.
LEMMA Rest ==
  ASSUME NEW s, IsList(s), s # <<>>
  PROVE  /\ IsList(Tail(s)) /\ Head(s) = s[1] /\ Head(s) \in Range(s)
         /\ Range(s) = {Head(s)} \union Range(Tail(s))
         /\ Len(s) \in Nat \ {0} /\ Len(Tail(s)) = Len(s) - 1
         /\ \A i \in 1..(Len(s) - 1) : Tail(s)[i] = s[i + 1]
<1>1. s \in Seq(Range(s))
  BY DEF IsList
<1>2. /\ Tail(s) \in Seq(Range(s)) /\ Len(Tail(s)) = Len(s) - 1 /\ Head(s) = s[1]
      /\ \A i \in 1..(Len(s) - 1) : Tail(s)[i] = s[i + 1]
      /\ Len(s) \in Nat \ {0}
  BY <1>1, HeadTailProperties, LenProperties, EmptySeq
<1> DEFINE n == Len(s)
           t == Tail(s)
<1>3. DOMAIN s = 1..n /\ DOMAIN t = 1..(n - 1)
  BY <1>1, <1>2, LenProperties
<1> HIDE DEF n, t
<1>4. IsList(t)
  BY <1>2, ListOfSeq DEF t
<1>5. Range(s) = {s[i] : i \in 1..n} /\ Range(t) = {t[i] : i \in 1..(n - 1)}
  BY <1>3 DEF Range
<1>6. \A i \in 1..n : i = 1 \/ (i - 1 \in 1..(n - 1) /\ i = (i - 1) + 1)
  BY <1>2 DEF n
<1>7. 1 \in 1..n /\ \A i \in 1..(n - 1) : i + 1 \in 1..n
  BY <1>2 DEF n
<1>8. \A i \in 1..(n - 1) : t[i] = s[i + 1]
  BY <1>2 DEF n, t
<1>9. Range(s) = {s[1]} \union Range(t)
  BY <1>5, <1>6, <1>7, <1>8
<1> QED
  BY <1>2, <1>4, <1>9 DEF n, t

LEMMA RestOfMonitors ==
  ASSUME NEW ms, MonitorList(ms), ms # <<>>
  PROVE  MonitorList(Tail(ms))
<1>1. IsList(Tail(ms)) /\ Range(Tail(ms)) \subseteq Range(ms)
  BY Rest DEF MonitorList
<1>2. \A m \in Range(ms) : IsList(m.depends_on)
  BY DEF MonitorList, Range
<1>3. \A i \in DOMAIN Tail(ms) : Tail(ms)[i] \in Range(Tail(ms))
  BY DEF Range
<1> QED
  BY <1>1, <1>2, <1>3 DEF MonitorList

\* One more monitor, at the end.
LEMMA OneMore ==
  ASSUME NEW ms, MonitorList(ms), NEW m, IsList(m.depends_on)
  PROVE  /\ MonitorList(Append(ms, m)) /\ Range(Append(ms, m)) = Range(ms) \union {m}
         /\ Len(ms) \in Nat /\ Len(Append(ms, m)) = Len(ms) + 1
         /\ Append(ms, m)[Len(ms) + 1] = m
         /\ \A i \in 1..Len(ms) : Append(ms, m)[i] = ms[i]
<1> DEFINE S == Range(ms) \union {m}
           u == Append(ms, m)
<1>1. ms \in Seq(S)
  BY SeqMonotonic DEF MonitorList, IsList
<1>2. /\ u \in Seq(S) /\ Len(u) = Len(ms) + 1 /\ Len(ms) \in Nat
      /\ u[Len(ms) + 1] = m /\ \A i \in 1..Len(ms) : u[i] = ms[i]
  <2> HIDE DEF S
  <2>1. m \in S
    BY DEF S
  <2> QED
    BY <1>1, <2>1, AppendProperties, LenProperties
<1>3. Range(u) = S
  <2>1. m \in S
    OBVIOUS
  <2> HIDE DEF S
  <2>2. Range(u) = Range(ms) \union {m}
    BY <1>1, <2>1, RangeOfAppend
  <2> QED
    BY <2>2 DEF S
<1> HIDE DEF u, S
<1>4. IsList(u)
  BY <1>2, ListOfSeq
<1>5. \A x \in S : IsList(x.depends_on)
  BY DEF MonitorList, Range, S
<1>6. \A i \in DOMAIN u : u[i] \in Range(u)
  BY DEF Range
<1> QED
  BY <1>2, <1>3, <1>4, <1>5, <1>6 DEF MonitorList, u, S

\* The proposals of a host with depends_on rewritten.
Rewritten(ms) == [i \in DOMAIN ms |-> [ms[i] EXCEPT !.depends_on = [k \in DOMAIN @ |-> NewName(@[k])]]]

NewDeps(m) == [k \in DOMAIN m.depends_on |-> NewName(m.depends_on[k])]

LEMMA RewrittenList ==
  ASSUME NEW ms, MonitorList(ms), \A m \in Range(ms) : "depends_on" \in DOMAIN m
  PROVE  /\ MonitorList(Rewritten(ms)) /\ Len(Rewritten(ms)) = Len(ms)
         /\ DOMAIN Rewritten(ms) = 1..Len(ms)
         /\ \A i \in 1..Len(ms) : /\ Rewritten(ms)[i] = [ms[i] EXCEPT !.depends_on = NewDeps(ms[i])]
                                  /\ Rewritten(ms)[i].depends_on = NewDeps(ms[i])
<1> DEFINE R == Rewritten(ms)
           deps(i) == NewDeps(ms[i])
<1>1. R = [i \in DOMAIN ms |-> [ms[i] EXCEPT !.depends_on = deps(i)]]
  BY DEF Rewritten, NewDeps
<1>2. Len(ms) \in Nat /\ DOMAIN ms = 1..Len(ms) /\ \A i \in 1..Len(ms) : ms[i] \in Range(ms)
  BY ListParts DEF MonitorList
<1>3. ASSUME NEW i \in DOMAIN ms PROVE IsList(deps(i))
  <2> DEFINE d == ms[i].depends_on
             e == deps(i)
  <2>1. Len(d) \in Nat /\ DOMAIN d = 1..Len(d)
    BY ListParts DEF MonitorList
  <2>2. e = [k \in 1..Len(d) |-> e[k]]
    BY <2>1 DEF NewDeps
  <2> HIDE DEF d, e
  <2>3. IsList(e)
    BY <2>1, <2>2, ListMade
  <2> QED
    BY <2>3 DEF e
<1>4. \A i \in DOMAIN ms : R[i] = [ms[i] EXCEPT !.depends_on = deps(i)]
  BY <1>1
<1>5. \A i \in DOMAIN ms : R[i].depends_on = deps(i)
  <2> TAKE i \in DOMAIN ms
  <2>1. "depends_on" \in DOMAIN ms[i]
    BY <1>2
  <2> HIDE DEF deps
  <2> QED
    BY <1>4, <2>1
<1>6. R = [i \in DOMAIN ms |-> R[i]]
  BY <1>1
<1>7. \A i \in DOMAIN ms : IsList(R[i].depends_on)
  BY <1>3, <1>5
<1> HIDE DEF R
<1>8. MonitorList(R)
  BY <1>6, <1>7, EachMonitored DEF MonitorList
<1>9. R = [i \in 1..Len(ms) |-> R[i]]
  BY <1>2, <1>6
<1>10. Len(R) = Len(ms) /\ DOMAIN R = 1..Len(ms)
  BY <1>2, <1>9, ListMade
<1> QED
  BY <1>2, <1>4, <1>5, <1>8, <1>10 DEF R

\* Where the rendering is.
Base ==
  /\ phase \in {"load", "refused", "failed", "render", "done"} /\ round \in {1, 2}
  /\ host \in Nat \ {0} /\ \A f \in network : IsFinding(f)
  /\ phase # "load" => (phase = "refused" <=> ~ Loads(config, settings))
  /\ phase \in {"render", "done"} => findings = Responses(hosts)
  /\ phase = "render" => host <= Len(findings)

Listed ==
  /\ MonitorList(config) /\ MonitorList(file) /\ MonitorList(keep) /\ MonitorList(todo)
  /\ phase = "done" => keep = <<>>

Offered == Propose(findings[host])

\* Some host reports what no monitor can name.
Unfit == \E i \in DOMAIN findings : \E m \in Range(Propose(findings[i])) : ~ Valid(m)

Keys(ms) == {KeyOf(m) : m \in Range(ms)}

\* Each proposal of the host is to be looked at, configured or kept, under some name.
Rendering ==
  phase = "render" =>
    /\ Range(todo) \subseteq Range(Offered)
    /\ \A m \in Range(keep) : \E p \in Range(Offered) : m = [p EXCEPT !.name = m.name]
    /\ \A p \in Range(Offered) : p \in Range(todo) \/ KeyOf(p) \in Keys(config) \union Keys(keep)

ListsInv == ScanInv /\ Base /\ Listed /\ Rendering

LEMMA TodoOf ==
  ASSUME NEW fs, IsList(fs), \A i \in DOMAIN fs : IsFinding(fs[i]), NEW h \in Nat \ {0}
  PROVE  /\ MonitorList(ProposalsOf(fs, h))
         /\ h <= Len(fs) => /\ IsFinding(fs[h]) /\ ProposalsOf(fs, h) = Propose(fs[h])
                            /\ ProposedList(fs[h], Propose(fs[h])) /\ Complete(Propose(fs[h]))
<1>1. Len(fs) \in Nat /\ DOMAIN fs = 1..Len(fs)
  BY ListParts
<1>2. CASE h <= Len(fs)
  <2>1. IsFinding(fs[h])
    BY <1>1, <1>2
  <2>2. ProposedList(fs[h], Propose(fs[h])) /\ Complete(Propose(fs[h]))
    BY <2>1, ProposeSound
  <2> QED
    BY <1>2, <2>1, <2>2 DEF ProposalsOf, ProposedList
<1>3. CASE ~(h <= Len(fs))
  BY <1>3, NoItems DEF ProposalsOf
<1> QED
  BY <1>2, <1>3

\* What was found, while it is rendered.
LEMMA FindingsFound ==
  ASSUME ListsInv, phase \in {"render", "done"}
  PROVE  /\ IsList(findings) /\ Len(findings) \in Nat /\ DOMAIN findings = 1..Len(findings)
         /\ \A i \in 1..Len(findings) :
              /\ IsFinding(findings[i])
              /\ \E a \in Range(Outcome) \cap Responding : findings[i] = Finding(a)
<1>1. hosts = Outcome /\ Outcome # Refused /\ request \in ScanRequest
  BY DEF ListsInv, ScanInv
<1>2. IsList(hosts)
  BY <1>1, Covered, ListOfSeq DEF Outcome
<1>3. findings = Responses(hosts) /\ \A f \in network : IsFinding(f)
  BY DEF ListsInv, Base
<1>4. /\ IsList(findings)
      /\ \A i \in DOMAIN findings :
           IsFinding(findings[i]) /\ \E a \in Range(hosts) \cap Responding : findings[i] = Finding(a)
  BY <1>2, <1>3, ResponsesSound
<1> QED
  BY <1>1, <1>4, ListParts

\* What is proposed for the host.
LEMMA OfferedSound ==
  ASSUME ListsInv, phase = "render"
  PROVE  /\ ProposedList(findings[host], Offered) /\ Complete(Offered)
         /\ IsList(Offered) /\ \A p \in Range(Offered) : DOMAIN p = Fields
<1>1. /\ IsList(findings) /\ \A i \in DOMAIN findings : IsFinding(findings[i])
      /\ host \in Nat \ {0} /\ host <= Len(findings)
  BY FindingsFound DEF ListsInv, Base
<1>2. ProposedList(findings[host], Offered) /\ Complete(Offered)
  BY <1>1, TodoOf DEF Offered
<1> QED
  BY <1>2 DEF ProposedList, Proposed, MonitorList

LEMMA LoadLists == ListsInv /\ Load => Base' /\ Listed' /\ Rendering'
<1> SUFFICES ASSUME ListsInv, Load PROVE Base' /\ Listed' /\ Rendering'
  OBVIOUS
<1>1. network' = network /\ settings' = settings /\ request' = request /\ config' = config /\ round' = round
  BY DEF Load, asked
<1>2. IsList(hosts') \/ hosts' = Refused
  <2>1. request \in ScanRequest
    BY DEF ListsInv, ScanInv
  <2>2. hosts' = <<>> \/ hosts' = Outcome
    BY DEF Load, Outcome
  <2> QED
    BY <2>1, <2>2, NoItems, Covered, ListOfSeq DEF Outcome
<1>3. findings' = <<>> \/ (findings' = Responses(hosts') /\ hosts' # Refused)
  BY DEF Load
<1>4. \A f \in network : IsFinding(f)
  BY DEF ListsInv, Base
<1>5. IsList(findings') /\ \A i \in DOMAIN findings' : IsFinding(findings'[i])
  <2>1. CASE findings' = <<>>
    BY <2>1, NoItems
  <2>2. CASE findings' = Responses(hosts') /\ hosts' # Refused
    BY <1>2, <1>4, <2>2, ResponsesSound
  <2> QED
    BY <1>3, <2>1, <2>2
<1>6. host' = 1 /\ todo' = ProposalsOf(findings', 1) /\ keep' = <<>> /\ file' = <<>>
  BY DEF Load
<1>7. MonitorList(todo') /\ (1 <= Len(findings') => todo' = Propose(findings'[1]))
  BY <1>5, <1>6, TodoOf
<1>8. Listed'
  BY <1>1, <1>6, <1>7, NoItems DEF ListsInv, Listed
<1>9. /\ phase' \in {"refused", "failed", "render", "done"} /\ (phase' = "refused" <=> ~ Loads(config, settings))
      /\ phase' \in {"render", "done"} => findings' = Responses(hosts')
      /\ phase' = "render" => findings' # <<>>
  BY DEF Load
<1>10. findings' # <<>> => 1 <= Len(findings')
  <2>1. findings' \in Seq(Range(findings'))
    BY <1>5 DEF IsList
  <2> QED
    BY <2>1, EmptySeq, LenProperties
<1>11. Responses(hosts)' = Responses(hosts')
  BY <1>1 DEF Responses
<1>12. Base'
  BY <1>1, <1>4, <1>6, <1>9, <1>10, <1>11 DEF ListsInv, Base
<1>13. Rendering'
  <2>1. SUFFICES ASSUME phase' = "render" PROVE Rendering'
    BY DEF Rendering
  <2>2. Offered' = todo'
    BY <1>6, <1>7, <1>9, <1>10, <2>1 DEF Offered
  <2> QED
    BY <1>6, <2>2, NoItems DEF Rendering
<1> QED
  BY <1>8, <1>12, <1>13

LEMMA SkipLists == ListsInv /\ SkipConfigured => Base' /\ Listed' /\ Rendering'
<1> SUFFICES ASSUME ListsInv, SkipConfigured PROVE Base' /\ Listed' /\ Rendering'
  OBVIOUS
<1>1. /\ phase = "render" /\ todo # <<>> /\ Configured(Head(todo)) /\ todo' = Tail(todo)
      /\ network' = network /\ settings' = settings /\ request' = request /\ config' = config /\ hosts' = hosts
      /\ findings' = findings /\ phase' = phase /\ host' = host /\ keep' = keep /\ file' = file
      /\ round' = round
  BY DEF SkipConfigured, asked
<1>2. MonitorList(todo)
  BY DEF ListsInv, Listed
<1>3. Listed'
  BY <1>1, <1>2, RestOfMonitors DEF ListsInv, Listed
<1>4. Responses(hosts)' = Responses(hosts)
  BY <1>1 DEF Responses
<1>5. Base'
  BY <1>1, <1>4 DEF ListsInv, Base
<1>6. Range(todo) = {Head(todo)} \union Range(Tail(todo))
  BY <1>1, <1>2, Rest DEF MonitorList
<1>7. KeyOf(Head(todo)) \in Keys(config)
  BY <1>1 DEF Configured, Keys, Range
<1>8. Offered' = Offered
  BY <1>1 DEF Offered
<1>9. Rendering'
  BY <1>1, <1>6, <1>7, <1>8 DEF ListsInv, Rendering
<1> QED
  BY <1>3, <1>5, <1>9

\* Another name leaves the rest of a monitor alone.
LEMMA Renamed ==
  ASSUME NEW p, DOMAIN p = Fields, NEW name, NEW m, m = [p EXCEPT !.name = name]
  PROVE  /\ DOMAIN m = Fields /\ m.name = name /\ KeyOf(m) = KeyOf(p) /\ m.depends_on = p.depends_on
         /\ m.type = p.type /\ m.mode = p.mode /\ m.part = p.part /\ m.credential = p.credential
         /\ m.docker_command = p.docker_command /\ (Valid(m) <=> Valid(p))
         /\ m.alerts = p.alerts /\ m.forecast = p.forecast /\ m.thresholds = p.thresholds
<1>1. /\ DOMAIN m = Fields /\ m.name = name /\ m.depends_on = p.depends_on
      /\ m.type = p.type /\ m.mode = p.mode /\ m.part = p.part /\ m.credential = p.credential
      /\ m.alerts = p.alerts /\ m.forecast = p.forecast /\ m.thresholds = p.thresholds
      /\ m.host = p.host /\ m.docker_command = p.docker_command
  BY DEF Fields
<1> QED
  BY <1>1 DEF KeyOf, Valid, NamesItsPart, SafeInCommands

LEMMA KeepLists == ListsInv /\ KeepNew => Base' /\ Listed' /\ Rendering'
<1> SUFFICES ASSUME ListsInv, KeepNew PROVE Base' /\ Listed' /\ Rendering'
  OBVIOUS
<1> DEFINE p == Head(todo)
           m == [p EXCEPT !.name = FreeName(p)]
<1>1. /\ phase = "render" /\ todo # <<>> /\ todo' = Tail(todo) /\ keep' = Append(keep, m)
      /\ network' = network /\ settings' = settings /\ request' = request /\ config' = config /\ hosts' = hosts
      /\ findings' = findings /\ phase' = phase /\ host' = host /\ file' = file
      /\ round' = round
  BY DEF KeepNew, asked
<1>2. MonitorList(todo) /\ MonitorList(keep)
  BY DEF ListsInv, Listed
<1>3. Range(todo) = {p} \union Range(Tail(todo))
  BY <1>1, <1>2, Rest DEF MonitorList
<1>4. p \in Range(Offered)
  BY <1>1, <1>3 DEF ListsInv, Rendering
<1>5. DOMAIN p = Fields
  BY <1>1, <1>4, OfferedSound
<1>6. m.name = FreeName(p) /\ KeyOf(m) = KeyOf(p) /\ m.depends_on = p.depends_on
  BY <1>5, Renamed
<1>7. IsList(p.depends_on)
  BY <1>1, <1>4, OfferedSound DEF ProposedList, MonitorList, Range
<1>12. m = [p EXCEPT !.name = m.name]
  BY <1>6
<1> HIDE DEF m, p
<1>8. MonitorList(keep') /\ Range(keep') = Range(keep) \union {m}
  BY <1>1, <1>2, <1>6, <1>7, OneMore
<1>9. Listed'
  BY <1>1, <1>2, <1>8, RestOfMonitors DEF ListsInv, Listed
<1>10. Responses(hosts)' = Responses(hosts)
  BY <1>1 DEF Responses
<1>11. Base'
  BY <1>1, <1>10 DEF ListsInv, Base
<1>13. Keys(keep') = Keys(keep) \union {KeyOf(p)}
  BY <1>6, <1>8 DEF Keys
<1>14. Offered' = Offered
  BY <1>1 DEF Offered
<1>15. \A x \in Range(keep') : \E q \in Range(Offered) : x = [q EXCEPT !.name = x.name]
  BY <1>1, <1>4, <1>8, <1>12 DEF ListsInv, Rendering
<1>16. Rendering'
  BY <1>1, <1>3, <1>13, <1>14, <1>15 DEF ListsInv, Rendering
<1> QED
  BY <1>9, <1>11, <1>16

LEMMA FailLists == ListsInv /\ FailOnInvalid => Base' /\ Listed' /\ Rendering'
<1> SUFFICES ASSUME ListsInv, FailOnInvalid PROVE Base' /\ Listed' /\ Rendering'
  OBVIOUS
<1>1. /\ phase = "render" /\ phase' = "failed" /\ network' = network /\ settings' = settings
      /\ config' = config /\ host' = host /\ round' = round
      /\ file' = file /\ keep' = keep /\ todo' = todo
  BY DEF FailOnInvalid, asked
<1>2. Base'
  BY <1>1 DEF ListsInv, Base
<1>3. Listed' /\ Rendering'
  BY <1>1 DEF ListsInv, Listed, Rendering
<1> QED
  BY <1>2, <1>3

LEMMA NextHostLists == ListsInv /\ NextHost => Base' /\ Listed' /\ Rendering'
<1> SUFFICES ASSUME ListsInv, NextHost PROVE Base' /\ Listed' /\ Rendering'
  OBVIOUS
<1>1. /\ phase = "render" /\ todo = <<>> /\ file' = file \o Rewritten(keep)
      /\ host' = host + 1 /\ todo' = ProposalsOf(findings, host + 1)
      /\ keep' = <<>> /\ renamed' = <<>>
      /\ phase' = IF host < Len(findings) THEN "render" ELSE "done"
      /\ network' = network /\ settings' = settings /\ request' = request /\ config' = config /\ hosts' = hosts
      /\ findings' = findings /\ round' = round
  BY DEF NextHost, asked, Rewritten
<1>2. /\ IsList(findings) /\ Len(findings) \in Nat /\ \A i \in DOMAIN findings : IsFinding(findings[i])
  BY <1>1, FindingsFound
<1>3. host \in Nat \ {0} /\ host + 1 \in Nat \ {0}
  BY DEF ListsInv, Base
<1>4. /\ MonitorList(todo')
      /\ host + 1 <= Len(findings) => todo' = Propose(findings[host + 1])
  BY <1>1, <1>2, <1>3, TodoOf
<1>5. \A m \in Range(keep) : "depends_on" \in DOMAIN m
  <2> TAKE m \in Range(keep)
  <2>1. PICK p \in Range(Offered) : m = [p EXCEPT !.name = m.name]
    BY <1>1 DEF ListsInv, Rendering
  <2>2. DOMAIN p = Fields
    BY <1>1, OfferedSound
  <2>3. DOMAIN m = Fields
    BY <2>1, <2>2
  <2> QED
    BY <2>3 DEF Fields
<1>6. MonitorList(Rewritten(keep))
  BY <1>5, RewrittenList DEF ListsInv, Listed
<1>7. MonitorList(file')
  BY <1>1, <1>6, MonitorsJoined DEF ListsInv, Listed
<1>8. Listed'
  BY <1>1, <1>4, <1>7, NoItems DEF ListsInv, Listed
<1>9. Responses(hosts)' = Responses(hosts)
  BY <1>1 DEF Responses
<1>10. Base'
  BY <1>1, <1>2, <1>3, <1>9 DEF ListsInv, Base
<1>11. Rendering'
  <2>1. SUFFICES ASSUME phase' = "render" PROVE Rendering'
    BY DEF Rendering
  <2>2. Offered' = todo'
    BY <1>1, <1>2, <1>3, <1>4, <2>1 DEF Offered
  <2> QED
    BY <1>1, <2>2, NoItems DEF Rendering
<1> QED
  BY <1>8, <1>10, <1>11

LEMMA AdoptLists == ListsInv /\ Adopt => Base' /\ Listed' /\ Rendering'
<1> SUFFICES ASSUME ListsInv, Adopt PROVE Base' /\ Listed' /\ Rendering'
  OBVIOUS
<1>1. /\ phase' = "load" /\ round' = 2 /\ config' = config \o file /\ file' = file /\ keep' = keep
      /\ todo' = todo /\ host' = host /\ network' = network
  BY DEF Adopt
<1>2. MonitorList(config')
  BY <1>1, MonitorsJoined DEF ListsInv, Listed
<1>3. Listed'
  BY <1>1, <1>2 DEF ListsInv, Listed
<1> QED
  BY <1>1, <1>3 DEF ListsInv, Base, Rendering

LEMMA StartLists == ProposalsInit => ListsInv
<1> SUFFICES ASSUME ProposalsInit PROVE ListsInv
  OBVIOUS
<1>1. PICK s \in Situations : /\ config = s.config /\ settings = s.settings
                              /\ network = s.network /\ request = s.request
  BY DEF ProposalsInit
<1>2. MonitorList(config) /\ request \in ScanRequest /\ \A f \in network : IsFinding(f)
  BY <1>1, ProposalsAssumption
<1>3. phase = "load" /\ host = 1 /\ round = 1 /\ todo = <<>> /\ keep = <<>> /\ file = <<>>
  BY DEF ProposalsInit
<1> QED
  BY <1>2, <1>3, NoItems DEF ListsInv, ScanInv, Base, Listed, Rendering

LEMMA ListsInvariance == ProposalsSpec => []ListsInv
<1>1. ListsInv /\ [ProposalsNext]_proposalVars => ListsInv'
  <2> SUFFICES ASSUME ListsInv, [ProposalsNext]_proposalVars PROVE ListsInv'
    OBVIOUS
  <2>1. ScanInv'
    BY ScanStep DEF ListsInv
  <2>2. CASE Load
    BY <2>1, <2>2, LoadLists DEF ListsInv
  <2>3. CASE SkipConfigured
    BY <2>1, <2>3, SkipLists DEF ListsInv
  <2>4. CASE KeepNew
    BY <2>1, <2>4, KeepLists DEF ListsInv
  <2>5. CASE NextHost
    BY <2>1, <2>5, NextHostLists DEF ListsInv
  <2>6. CASE Adopt
    BY <2>1, <2>6, AdoptLists DEF ListsInv
  <2>8. CASE FailOnInvalid
    BY <2>1, <2>8, FailLists DEF ListsInv
  <2>7. CASE UNCHANGED proposalVars
    <3>1. Base' /\ Listed' /\ Rendering'
      <4>1. /\ phase' = phase /\ round' = round /\ host' = host /\ network' = network /\ settings' = settings
            /\ request' = request /\ config' = config /\ findings' = findings /\ hosts' = hosts /\ file' = file
            /\ keep' = keep /\ todo' = todo
        BY <2>7 DEF proposalVars, asked
      <4>2. Responses(hosts)' = Responses(hosts) /\ Offered' = Offered
        BY <4>1 DEF Responses, Offered
      <4>3. Base'
        BY <4>1, <4>2 DEF ListsInv, Base
      <4>4. Listed' /\ Rendering'
        BY <4>1, <4>2 DEF ListsInv, Listed, Rendering
      <4> QED
        BY <4>3, <4>4
    <3> QED
      BY <2>1, <3>1 DEF ListsInv
  <2> QED
    BY <2>2, <2>3, <2>4, <2>5, <2>6, <2>7, <2>8 DEF ProposalsNext
<1> QED
  BY <1>1, StartLists, PTL DEF ProposalsSpec

\* What ends discovery early.
FailInv == phase = "failed" => Outcome = Refused \/ Unfit

LEMMA FailStep == ListsInv /\ FailInv /\ [ProposalsNext]_proposalVars => FailInv'
<1> SUFFICES ASSUME ListsInv, FailInv, [ProposalsNext]_proposalVars, phase' = "failed"
             PROVE  Outcome' = Refused \/ Unfit'
  BY DEF FailInv
<1>1. CASE Load
  BY <1>1 DEF Load, asked, Outcome
<1>2. CASE FailOnInvalid
  <2>1. phase = "render" /\ todo # <<>> /\ ~ Valid(Head(todo)) /\ findings' = findings
    BY <1>2 DEF FailOnInvalid
  <2>2. Head(todo) \in Range(todo)
    BY <2>1, Rest DEF ListsInv, Listed, MonitorList
  <2>3. Head(todo) \in Range(Propose(findings[host]))
    BY <2>1, <2>2 DEF ListsInv, Rendering, Offered
  <2>4. host \in DOMAIN findings
    <3>1. /\ Len(findings) \in Nat /\ DOMAIN findings = 1..Len(findings)
          /\ host \in Nat \ {0} /\ host <= Len(findings)
      BY <2>1, FindingsFound DEF ListsInv, Base
    <3> QED
      BY <3>1
  <2>5. Unfit
    BY <2>1, <2>3, <2>4 DEF Unfit
  <2> QED
    BY <2>1, <2>5 DEF Unfit
<1>3. CASE UNCHANGED proposalVars
  BY <1>3 DEF proposalVars, asked, FailInv, Outcome, Unfit
<1>4. ~ SkipConfigured /\ ~ KeepNew /\ ~ NextHost /\ ~ Adopt
  BY DEF SkipConfigured, KeepNew, NextHost, Adopt
<1> QED
  BY <1>1, <1>2, <1>3, <1>4 DEF ProposalsNext

\* Discovery fails only for one of the reasons, whatever it is asked for, whatever the
\* configuration is and whatever the hosts report. (discover, expand_targets and _key)
THEOREM FailureExplained == ProposalsSpec => []FailsForAReason
<1>1. ProposalsInit => FailInv
  BY DEF ProposalsInit, FailInv
<1>2. ListsInv /\ FailInv => FailsForAReason
  <2> SUFFICES ASSUME ListsInv, FailInv, phase = "failed" PROVE FailsForAReason
    BY DEF FailsForAReason
  <2>1. Unscannable \/ Unfit
    BY ScannedSound DEF FailInv, ListsInv
  <2> QED
    BY <2>1 DEF FailsForAReason, Unscannable, Unreadable, Unfit
<1> QED
  BY <1>1, <1>2, FailStep, ListsInvariance, PTL DEF ProposalsSpec

\* A configuration loads if and only if it is sound, however many monitors it has and
\* whatever they depend on. (Config.load: _check_dependencies and the other validators)
THEOREM LoadingSound == ProposalsSpec => []LoadedIffSound
<1>1. ListsInv => LoadedIffSound
  BY LoadsWhatIsSound DEF ListsInv, Base, Listed, LoadedIffSound
<1> QED
  BY <1>1, ListsInvariance, PTL

-----------------------------------------------------------------------------
(* Discovering again *)

LEMMA ResponsesComplete ==
  ASSUME NEW hs, IsList(hs), NEW a \in Range(hs) \cap Responding
  PROVE  \E i \in DOMAIN Responses(hs) : Responses(hs)[i] = Finding(a)
<1> DEFINE p == Only(hs, Responding)
           R == Responses(hs)
<1>1. R = [i \in DOMAIN p |-> Finding(p[i])]
  BY DEF Responses, Finding, Responding
<1>2. Range(p) = Range(hs) \cap Responding
  BY OnlyList
<1> HIDE DEF p, R
<1>3. PICK i \in DOMAIN p : p[i] = a
  BY <1>2 DEF Range
<1> QED
  BY <1>1, <1>3 DEF R

LEMMA KeysJoined ==
  ASSUME NEW s, NEW t, MonitorList(s), MonitorList(t)
  PROVE  Keys(s \o t) = Keys(s) \union Keys(t)
<1> DEFINE u == s \o t
<1>1. Range(u) = Range(s) \union Range(t)
  BY MonitorsJoined
<1> HIDE DEF u
<1>2. Keys(u) = Keys(s) \union Keys(t)
  BY <1>1 DEF Keys
<1> QED
  BY <1>2 DEF u

\* Rewriting depends_on leaves the identity of a monitor alone.
LEMMA RewrittenKeys ==
  ASSUME NEW ms, MonitorList(ms), \A m \in Range(ms) : DOMAIN m = Fields
  PROVE  Keys(Rewritten(ms)) = Keys(ms)
<1> DEFINE R == Rewritten(ms)
           deps(i) == NewDeps(ms[i])
<1>1. \A m \in Range(ms) : "depends_on" \in DOMAIN m
  BY DEF Fields
<1>2. DOMAIN R = 1..Len(ms) /\ \A i \in 1..Len(ms) : R[i] = [ms[i] EXCEPT !.depends_on = deps(i)]
  BY <1>1, RewrittenList
<1>3. DOMAIN ms = 1..Len(ms)
  BY ListParts DEF MonitorList
<1> HIDE DEF R, deps
<1>4. ASSUME NEW i \in 1..Len(ms) PROVE KeyOf(R[i]) = KeyOf(ms[i])
  <2>1. DOMAIN ms[i] = Fields
    BY <1>3 DEF Range
  <2>2. R[i] = [ms[i] EXCEPT !.depends_on = deps(i)]
    BY <1>2
  <2>3. R[i].type = ms[i].type /\ R[i].host = ms[i].host /\ R[i].mode = ms[i].mode /\ R[i].part = ms[i].part
    BY <2>1, <2>2 DEF Fields
  <2> QED
    BY <2>3 DEF KeyOf
<1>5. Range(R) = {R[i] : i \in 1..Len(ms)} /\ Range(ms) = {ms[i] : i \in 1..Len(ms)}
  BY <1>2, <1>3 DEF Range
<1>6. Keys(R) = Keys(ms)
  BY <1>4, <1>5 DEF Keys
<1> QED
  BY <1>6 DEF R

\* What was rendered is configured or proposed; after it was adopted, whatever a scan of
\* the request finds is configured, and nothing is proposed.
RescanInv ==
  /\ phase \in {"render", "done"} =>
       \A h \in 1..Len(findings) :
         phase = "done" \/ h < host => Keys(Propose(findings[h])) \subseteq Keys(config) \union Keys(file)
  /\ round = 2 /\ Outcome # Refused =>
       \A a \in Range(Outcome) \cap Responding : Keys(Propose(Finding(a))) \subseteq Keys(config)
  /\ round = 2 /\ phase \in {"render", "done"} => file = <<>> /\ keep = <<>>

LEMMA RescanLoad == ListsInv /\ RescanInv /\ Load => RescanInv'
<1> SUFFICES ASSUME ListsInv, RescanInv, Load PROVE RescanInv'
  OBVIOUS
<1>1. /\ network' = network /\ settings' = settings /\ request' = request /\ config' = config
      /\ round' = round /\ host' = 1 /\ keep' = <<>> /\ file' = <<>>
      /\ (phase' = "done" => findings' = <<>>)
  BY DEF Load, asked
<1>2. phase' = "done" => 1..Len(findings') = {}
  BY <1>1
<1>3. 1..Len(findings') # {} => \A h \in 1..Len(findings') : ~(h < 1)
  OBVIOUS
<1>4. Outcome' = Outcome /\ Responding' = Responding /\ \A a : Finding(a)' = Finding(a)
  BY <1>1 DEF Outcome, Responding, Finding
<1>5. \A h \in 1..Len(findings') : ~(phase' = "done" \/ h < host')
  BY <1>1, <1>2, <1>3
<1> QED
  BY <1>1, <1>4, <1>5 DEF RescanInv

LEMMA RescanSkip == ListsInv /\ RescanInv /\ SkipConfigured => RescanInv'
<1> SUFFICES ASSUME ListsInv, RescanInv, SkipConfigured PROVE RescanInv'
  OBVIOUS
<1>1. /\ network' = network /\ settings' = settings /\ request' = request /\ config' = config
      /\ round' = round /\ host' = host /\ keep' = keep /\ file' = file /\ findings' = findings
      /\ phase' = phase
  BY DEF SkipConfigured, asked
<1>2. Outcome' = Outcome /\ Responding' = Responding /\ \A a : Finding(a)' = Finding(a)
  BY <1>1 DEF Outcome, Responding, Finding
<1> QED
  BY <1>1, <1>2 DEF RescanInv

\* In the second round everything is configured.
LEMMA NothingNew == ListsInv /\ RescanInv /\ KeepNew => round # 2
<1> SUFFICES ASSUME ListsInv, RescanInv, KeepNew, round = 2 PROVE FALSE
  OBVIOUS
<1>1. phase = "render" /\ todo # <<>> /\ ~ Configured(Head(todo))
  BY DEF KeepNew
<1>2. Head(todo) \in Range(todo)
  BY <1>1, Rest DEF ListsInv, Listed, MonitorList
<1>3. Head(todo) \in Range(Offered)
  BY <1>1, <1>2 DEF ListsInv, Rendering
<1>4. host \in 1..Len(findings)
  BY <1>1, FindingsFound DEF ListsInv, Base
<1>5. PICK a \in Range(Outcome) \cap Responding : findings[host] = Finding(a)
  BY <1>1, <1>4, FindingsFound
<1>6. Outcome # Refused
  BY <1>1 DEF ListsInv, ScanInv
<1>7. Keys(Offered) \subseteq Keys(config)
  BY <1>5, <1>6 DEF RescanInv, Offered
<1>8. KeyOf(Head(todo)) \in Keys(config)
  BY <1>3, <1>7 DEF Keys
<1> QED
  BY <1>1, <1>8 DEF Configured, Keys, Range

LEMMA RescanKeep == ListsInv /\ RescanInv /\ KeepNew => RescanInv'
<1> SUFFICES ASSUME ListsInv, RescanInv, KeepNew PROVE RescanInv'
  OBVIOUS
<1>1. /\ config' = config /\ round' = round /\ host' = host /\ file' = file /\ findings' = findings
      /\ phase' = phase
  BY DEF KeepNew
<1>2. round' # 2
  BY <1>1, NothingNew
<1> QED
  BY <1>1, <1>2 DEF RescanInv

LEMMA RescanNextHost == ListsInv /\ RescanInv /\ NextHost => RescanInv'
<1> SUFFICES ASSUME ListsInv, RescanInv, NextHost PROVE RescanInv'
  OBVIOUS
<1>1. /\ phase = "render" /\ todo = <<>> /\ file' = file \o Rewritten(keep) /\ keep' = <<>>
      /\ host' = host + 1 /\ phase' = IF host < Len(findings) THEN "render" ELSE "done"
      /\ network' = network /\ settings' = settings /\ config' = config /\ request' = request
      /\ findings' = findings /\ round' = round
  BY DEF NextHost, asked, Rewritten
<1>2. MonitorList(keep) /\ MonitorList(file)
  BY DEF ListsInv, Listed
<1>3. \A m \in Range(keep) : DOMAIN m = Fields
  <2> TAKE m \in Range(keep)
  <2>1. PICK p \in Range(Offered) : m = [p EXCEPT !.name = m.name]
    BY <1>1 DEF ListsInv, Rendering
  <2>2. DOMAIN p = Fields
    BY <1>1, OfferedSound
  <2> QED
    BY <2>1, <2>2
<1>4. MonitorList(Rewritten(keep)) /\ Len(Rewritten(keep)) = Len(keep)
  <2>1. \A m \in Range(keep) : "depends_on" \in DOMAIN m
    BY <1>3 DEF Fields
  <2> QED
    BY <1>2, <2>1, RewrittenList
<1>5. Keys(Rewritten(keep)) = Keys(keep)
  BY <1>2, <1>3, RewrittenKeys
<1>6. Keys(file') = Keys(file) \union Keys(keep)
  <2>1. Keys(file \o Rewritten(keep)) = Keys(file) \union Keys(Rewritten(keep))
    BY <1>2, <1>4, KeysJoined
  <2> QED
    BY <1>1, <1>5, <2>1
<1>7. Keys(Offered) \subseteq Keys(config) \union Keys(keep)
  <2>1. Range(todo) = {}
    BY <1>1, NoItems
  <2> QED
    BY <1>1, <2>1 DEF ListsInv, Rendering, Keys
<1>8. /\ host \in Nat /\ host <= Len(findings) /\ Len(findings) \in Nat
  BY <1>1, FindingsFound DEF ListsInv, Base
<1>9. \A h \in 1..Len(findings') : Keys(Propose(findings'[h])) \subseteq Keys(config') \union Keys(file')
        \/ ~(phase' = "done" \/ h < host')
  <2> TAKE h \in 1..Len(findings')
  <2>1. CASE h < host
    BY <1>1, <1>6, <2>1 DEF RescanInv
  <2>2. CASE h = host
    BY <1>1, <1>6, <1>7, <2>2 DEF Offered
  <2>3. CASE h > host
    BY <1>1, <1>8, <2>3
  <2> QED
    BY <1>1, <1>8, <2>1, <2>2, <2>3
<1>10. Outcome' = Outcome /\ Responding' = Responding /\ \A a : Finding(a)' = Finding(a)
  BY <1>1 DEF Outcome, Responding, Finding
<1>11. ASSUME round = 2 PROVE file' = <<>> /\ keep' = <<>>
  <2>1. file = <<>> /\ keep = <<>>
    BY <1>1, <1>11 DEF RescanInv
  <2>2. Len(Rewritten(keep)) = 0
    BY <1>4, <2>1, NoItems
  <2>3. Rewritten(keep) = <<>>
    <3>1. Rewritten(keep) \in Seq(Range(Rewritten(keep)))
      BY <1>4 DEF MonitorList, IsList
    <3> QED
      BY <2>2, <3>1, EmptySeq
  <2>4. <<>> \o <<>> = <<>>
    OBVIOUS
  <2> QED
    BY <1>1, <2>1, <2>3, <2>4
<1> QED
  BY <1>1, <1>9, <1>10, <1>11 DEF RescanInv

LEMMA RescanAdopt == ListsInv /\ RescanInv /\ Adopt => RescanInv'
<1> SUFFICES ASSUME ListsInv, RescanInv, Adopt PROVE RescanInv'
  OBVIOUS
<1>1. /\ phase = "done" /\ phase' = "load" /\ config' = config \o file
      /\ network' = network /\ settings' = settings
  BY DEF Adopt
<1>2. PICK targets \in {request.targets, Reverse(request.targets)} :
        request' = [request EXCEPT !.targets = targets]
  BY DEF Adopt
<1>3. request.targets \in Seq(Target) /\ request \in ScanRequest
  BY DEF ListsInv, ScanInv, ScanRequest
<1>4. targets \in Seq(Target) /\ Range(targets) = Range(request.targets)
  BY <1>2, <1>3, ReverseType, ReverseRange
<1>5. hosts = Outcome /\ Outcome # Refused
  BY <1>1 DEF ListsInv, ScanInv
<1>6. Outcome' # Refused => Range(Outcome') = Range(Outcome)
  <2> DEFINE q == request'
             known == DOMAIN settings.credentials
  <2>1. q = [request EXCEPT !.targets = targets] /\ Outcome = Scanned(request, known)
    BY <1>2 DEF Outcome
  <2>2. Outcome' = Scanned(q, known)
    BY <1>1 DEF Outcome
  <2> HIDE DEF q, known
  <2> QED
    BY <1>3, <1>4, <1>5, <2>1, <2>2, Reordered
<1>7. Keys(config') = Keys(config) \union Keys(file)
  BY <1>1, KeysJoined DEF ListsInv, Listed
<1>8. ASSUME NEW a \in Range(Outcome) \cap Responding
      PROVE  Keys(Propose(Finding(a))) \subseteq Keys(config')
  <2>1. IsList(hosts) /\ findings = Responses(hosts)
    BY <1>1, <1>3, <1>5, Covered, ListOfSeq DEF ListsInv, Base, Outcome
  <2>2. PICK i \in DOMAIN findings : findings[i] = Finding(a)
    BY <1>5, <2>1, ResponsesComplete
  <2>3. i \in 1..Len(findings)
    BY <1>1, <2>2, FindingsFound
  <2>4. Keys(Propose(findings[i])) \subseteq Keys(config) \union Keys(file)
    BY <1>1, <2>3 DEF RescanInv
  <2> QED
    BY <1>7, <2>2, <2>4
<1>9. Responding' = Responding /\ \A a : Finding(a)' = Finding(a)
  <2>1. request'.credentials = request.credentials
    BY <1>2, <1>3 DEF ScanRequest
  <2>2. Overridden(settings, request)' = Overridden(settings, request)
    BY <1>1, <2>1 DEF Overridden
  <2> QED
    BY <1>1, <2>2 DEF Responding, Finding
<1> QED
  BY <1>1, <1>6, <1>8, <1>9 DEF RescanInv

LEMMA RescanInvariance == ProposalsSpec => []RescanInv
<1>1. ProposalsInit => RescanInv
  BY DEF ProposalsInit, RescanInv
<1>2. ListsInv /\ RescanInv /\ [ProposalsNext]_proposalVars => RescanInv'
  <2> SUFFICES ASSUME ListsInv, RescanInv, [ProposalsNext]_proposalVars PROVE RescanInv'
    OBVIOUS
  <2>1. CASE UNCHANGED proposalVars
    <3>1. /\ network' = network /\ settings' = settings /\ request' = request /\ config' = config
          /\ round' = round /\ host' = host /\ keep' = keep /\ file' = file /\ findings' = findings
          /\ phase' = phase
      BY <2>1 DEF proposalVars, asked
    <3>2. Outcome' = Outcome /\ Responding' = Responding /\ \A a : Finding(a)' = Finding(a)
      BY <3>1 DEF Outcome, Responding, Finding
    <3> QED
      BY <3>1, <3>2 DEF RescanInv
  <2>2. CASE FailOnInvalid
    <3>1. /\ phase' = "failed" /\ round' = round /\ config' = config /\ Outcome' = Outcome
          /\ network' = network /\ settings' = settings /\ request' = request
      BY <2>2 DEF FailOnInvalid, asked, Outcome
    <3>2. Responding' = Responding /\ \A a : Finding(a)' = Finding(a)
      BY <3>1 DEF Responding, Finding
    <3> QED
      BY <3>1, <3>2 DEF RescanInv
  <2> QED
    BY <2>1, <2>2, RescanLoad, RescanSkip, RescanKeep, RescanNextHost, RescanAdopt DEF ProposalsNext
<1> QED
  BY <1>1, <1>2, ListsInvariance, PTL DEF ProposalsSpec

\* Once the proposals are pasted, the same scan proposes nothing, whatever the network is
\* and whatever names they got. (render: `existing' and _key)
THEOREM RescanIsEmpty == ProposalsSpec => []RescanProposesNothing
<1>1. RescanInv => RescanProposesNothing
  BY DEF RescanInv, RescanProposesNothing
<1> QED
  BY <1>1, RescanInvariance, PTL

-----------------------------------------------------------------------------
(* Slugs *)

\* Slugging a word leaves words that slugging does not change; numbers have slugs of
\* their own. (config.slugify: lower case, and a hyphen for everything but letters and
\* digits)
Sluggable ==
  /\ \A w : IsList(Slugged(w)) /\ \A v \in Range(Slugged(w)) : Slugged(v) = <<v>>
  /\ \A m, n \in Nat :
       Slugged(ToString(n)) # <<>> /\ (Slugged(ToString(m)) = Slugged(ToString(n)) => m = n)

\* The slug of a name, word by word.
SlugTurns(name, S, g) ==
  /\ g \in [0..Len(name) -> Seq(S)] /\ g[0] = <<>> /\ Slug(name) = g[Len(name)]
  /\ \A i \in 1..Len(name) : g[i] = g[i - 1] \o Slugged(name[i])

LEMMA PartsOfSlug ==
  ASSUME Sluggable, NEW name, IsList(name), NEW S, \A w \in Range(name) : Range(Slugged(w)) \subseteq S
  PROVE  LET lists == [i \in DOMAIN name |-> Slugged(name[i])]
         IN  /\ lists \in Seq(Seq(S)) /\ Len(lists) = Len(name)
             /\ \A i \in 1..Len(name) : lists[i] = Slugged(name[i])
<1> DEFINE N == Len(name)
           V == Seq(S)
           lists == [i \in DOMAIN name |-> Slugged(name[i])]
<1>1. N \in Nat /\ DOMAIN name = 1..N /\ \A i \in 1..N : name[i] \in Range(name)
  BY ListParts
<1>2. ASSUME NEW i \in 1..N PROVE Slugged(name[i]) \in V
  <2> DEFINE w == name[i]
  <2>1. IsList(Slugged(w)) /\ Range(Slugged(w)) \subseteq S
    BY <1>1 DEF Sluggable
  <2> HIDE DEF w
  <2>2. Slugged(w) \in V
    BY <2>1, SeqMonotonic DEF IsList
  <2> QED
    BY <2>2 DEF w
<1>3. lists = [i \in 1..N |-> Slugged(name[i])]
  BY <1>1
<1> HIDE DEF lists, V
<1>4. lists \in [1..N -> V]
  BY <1>2, <1>3
<1>5. lists \in Seq(V) /\ Len(lists) = N
  BY <1>1, <1>4, IsSequence
<1> QED
  BY <1>3, <1>5 DEF lists, V

LEMMA SlugIsLoop ==
  ASSUME Sluggable, NEW name, IsList(name), NEW S, \A w \in Range(name) : Range(Slugged(w)) \subseteq S
  PROVE  \E g : SlugTurns(name, S, g)
<1> DEFINE lists == [i \in DOMAIN name |-> Slugged(name[i])]
<1>1. /\ lists \in Seq(Seq(S)) /\ Len(lists) = Len(name)
      /\ \A i \in 1..Len(name) : lists[i] = Slugged(name[i])
  BY PartsOfSlug
<1>2. Slug(name) = FlattenSeq(lists)
  BY DEF Slug
<1> HIDE DEF lists
<1>3. PICK g : FlatTurns(lists, S, g)
  BY <1>1, FlattenIsLoop
<1>4. SlugTurns(name, S, g)
  BY <1>1, <1>2, <1>3 DEF SlugTurns, FlatTurns
<1> QED
  BY <1>4

\* All the words of slugs.
WordsIn(name) == UNION {Range(Slugged(w)) : w \in Range(name)}

LEMMA SlugWords ==
  ASSUME Sluggable, NEW name, IsList(name)
  PROVE  IsList(Slug(name)) /\ \A v \in Range(Slug(name)) : Slugged(v) = <<v>>
<1> DEFINE S == WordsIn(name)
           lists == [i \in DOMAIN name |-> Slugged(name[i])]
<1>1. \A w \in Range(name) : Range(Slugged(w)) \subseteq S
  BY DEF WordsIn
<1> HIDE DEF S
<1>2. /\ lists \in Seq(Seq(S)) /\ Len(lists) = Len(name)
      /\ \A i \in 1..Len(name) : lists[i] = Slugged(name[i])
  BY <1>1, PartsOfSlug
<1>3. Slug(name) = FlattenSeq(lists)
  BY DEF Slug
<1> HIDE DEF lists
<1>4. Slug(name) \in Seq(S)
  BY <1>2, <1>3, FlattenRange
<1>5. ASSUME NEW v \in Range(Slug(name)) PROVE Slugged(v) = <<v>>
  <2>1. v \in Range(FlattenSeq(lists))
    BY <1>3
  <2>2. PICK i \in 1..Len(lists) : v \in Range(lists[i])
    BY <1>2, <2>1, FlattenRange
  <2>3. v \in Range(Slugged(name[i]))
    BY <1>2, <2>2
  <2> QED
    BY <2>3 DEF Sluggable
<1> QED
  BY <1>4, <1>5, ListOfSeq

LEMMA SlugAppend ==
  ASSUME Sluggable, NEW name, IsList(name), NEW x
  PROVE  /\ IsList(Append(name, x)) /\ Slug(Append(name, x)) = Slug(name) \o Slugged(x)
<1> DEFINE N == Len(name)
           R == Range(name) \union {x}
           u == Append(name, x)
           S == WordsIn(u)
<1>1. name \in Seq(R) /\ x \in R
  BY SeqMonotonic DEF IsList
<1>2. N \in Nat /\ u \in Seq(R) /\ Len(u) = N + 1 /\ u[N + 1] = x /\ (\A i \in 1..N : u[i] = name[i])
      /\ Range(u) = Range(name) \union {x}
  <2> HIDE DEF R
  <2> QED
    BY <1>1, AppendProperties, LenProperties, RangeOfAppend
<1> HIDE DEF u
<1>3. IsList(u)
  BY <1>2, ListOfSeq
<1>4. (\A w \in Range(u) : Range(Slugged(w)) \subseteq S) /\ \A w \in Range(name) : Range(Slugged(w)) \subseteq S
  BY <1>2 DEF WordsIn
<1> HIDE DEF S, R
<1>5. PICK g : SlugTurns(u, S, g)
  BY <1>3, <1>4, SlugIsLoop
<1>6. PICK h : SlugTurns(name, S, h)
  BY <1>4, SlugIsLoop
<1>7. /\ g[0] = <<>> /\ Slug(u) = g[N + 1] /\ g[N + 1] = g[N] \o Slugged(x)
      /\ \A i \in 1..N : g[i] = g[i - 1] \o Slugged(name[i])
  <2>1. N + 1 \in 1..Len(u) /\ (N + 1) - 1 = N /\ \A i \in 1..N : i \in 1..Len(u)
    BY <1>2
  <2> QED
    BY <1>2, <1>5, <2>1 DEF SlugTurns
<1>8. /\ h[0] = <<>> /\ Slug(name) = h[N] /\ \A i \in 1..N : h[i] = h[i - 1] \o Slugged(name[i])
  BY <1>6 DEF SlugTurns
<1> DEFINE T == {n \in 0..N : g[n] = h[n]}
<1>9. ASSUME NEW n \in 0..N, \A k \in 0..(n - 1) : k \in T
      PROVE  n \in T
  <2>1. CASE n = 0
    BY <1>7, <1>8, <2>1
  <2>2. CASE n # 0
    <3>1. n - 1 \in 0..(n - 1) /\ n \in 1..N
      BY <1>2, <2>2
    <3> QED
      BY <1>7, <1>8, <1>9, <3>1
  <2> QED
    BY <2>1, <2>2
<1>10. N \in T
  <2>1. 0..N \subseteq T
    <3> HIDE DEF T, N
    <3> QED
      BY <1>2, <1>9, UpTo
  <2>2. N \in 0..N
    BY <1>2
  <2> HIDE DEF T
  <2> QED
    BY <2>1, <2>2
<1>11. Slug(u) = Slug(name) \o Slugged(x)
  BY <1>7, <1>8, <1>10
<1> QED
  BY <1>3, <1>11 DEF u

\* A slug is its own slug.
LEMMA SlugFixed ==
  ASSUME Sluggable, NEW name, IsList(name), \A v \in Range(name) : Slugged(v) = <<v>>
  PROVE  Slug(name) = name
<1> DEFINE N == Len(name)
           S == WordsIn(name)
<1>1. N \in Nat /\ DOMAIN name = 1..N /\ \A i \in 1..N : name[i] \in Range(name)
  BY ListParts
<1>2. \A w \in Range(name) : Range(Slugged(w)) \subseteq S
  BY DEF WordsIn
<1> HIDE DEF S
<1>3. PICK g : SlugTurns(name, S, g)
  BY <1>2, SlugIsLoop
<1>4. /\ g[0] = <<>> /\ Slug(name) = g[N] /\ \A n \in 0..N : g[n] \in Seq(S)
      /\ \A i \in 1..N : g[i] = g[i - 1] \o <<name[i]>>
  BY <1>1, <1>3 DEF SlugTurns
<1> DEFINE T == {n \in 0..N : Len(g[n]) = n /\ \A j \in 1..n : g[n][j] = name[j]}
<1>5. ASSUME NEW n \in 0..N, \A k \in 0..(n - 1) : k \in T
      PROVE  n \in T
  <2>1. CASE n = 0
    BY <1>4, <2>1
  <2>2. CASE n # 0
    <3>1. n - 1 \in 0..(n - 1) /\ n \in 1..N /\ n - 1 \in 0..N
      BY <1>1, <2>2
    <3>2. /\ Len(g[n - 1]) = n - 1 /\ \A j \in 1..(n - 1) : g[n - 1][j] = name[j]
      BY <1>5, <3>1
    <3> DEFINE a == g[n - 1]
               b == <<name[n]>>
    <3>3. IsList(a) /\ IsList(b) /\ Len(b) = 1 /\ b[1] = name[n]
      BY <1>4, <3>1, OneItem, ListOfSeq
    <3>4. g[n] = a \o b
      BY <1>4, <3>1
    <3>5. Len(a) = n - 1 /\ \A j \in 1..(n - 1) : a[j] = name[j]
      BY <3>2
    <3> HIDE DEF a, b
    <3>6. /\ Len(a \o b) = Len(a) + Len(b)
          /\ \A j \in 1..Len(a) : (a \o b)[j] = a[j]
          /\ \A j \in 1..Len(b) : (a \o b)[Len(a) + j] = b[j]
      <4>1. Len(a \o b) = Len(a) + Len(b)
        BY <3>3, ListsJoined
      <4>2. \A j \in 1..Len(a) : (a \o b)[j] = a[j]
        BY <3>3, ListsJoined
      <4>3. \A j \in 1..Len(b) : (a \o b)[Len(a) + j] = b[j]
        BY <3>3, ListsJoined
      <4> QED
        BY <4>1, <4>2, <4>3
    <3>7. (a \o b)[(n - 1) + 1] = name[n] /\ 1 \in 1..1
      BY <3>3, <3>5, <3>6
    <3>8. \A j \in 1..n : j \in 1..(n - 1) \/ j = (n - 1) + 1
      BY <1>1, <3>1
    <3>9. Len(g[n]) = n /\ \A j \in 1..n : g[n][j] = name[j]
      BY <1>1, <3>1, <3>3, <3>4, <3>5, <3>6, <3>7, <3>8
    <3> QED
      BY <3>9
  <2> QED
    BY <2>1, <2>2
<1>6. N \in T
  <2>1. 0..N \subseteq T
    <3> HIDE DEF T, N
    <3> QED
      BY <1>1, <1>5, UpTo
  <2>2. N \in 0..N
    BY <1>1
  <2> HIDE DEF T
  <2> QED
    BY <2>1, <2>2
<1>7. /\ Len(Slug(name)) = N /\ \A j \in 1..N : Slug(name)[j] = name[j]
  BY <1>4, <1>6
<1>8. Slug(name) \in Seq(S) /\ name \in Seq(Range(name))
  BY <1>1, <1>4 DEF IsList
<1>9. Slug(name) = [i \in 1..N |-> Slug(name)[i]] /\ name = [i \in 1..N |-> name[i]]
  BY <1>7, <1>8, LenProperties
<1> QED
  BY <1>7, <1>9

LEMMA SlugOfSlug ==
  ASSUME Sluggable, NEW name, IsList(name)
  PROVE  Slug(Slug(name)) = Slug(name)
BY SlugWords, SlugFixed

-----------------------------------------------------------------------------
(* Free names *)

LEMMA SameStart ==
  ASSUME NEW s, NEW t, NEW u, IsList(s), IsList(t), IsList(u), s \o t = s \o u
  PROVE  t = u
<1>1. Len(s) \in Nat /\ Len(t) \in Nat /\ Len(u) \in Nat
  BY ListParts
<1>2. Len(s \o t) = Len(s) + Len(t) /\ Len(s \o u) = Len(s) + Len(u)
  BY ListsJoined
<1>3. Len(t) = Len(u)
  BY <1>1, <1>2
<1>4. \A k \in 1..Len(t) : (s \o t)[Len(s) + k] = t[k]
  BY ListsJoined
<1>5. \A k \in 1..Len(u) : (s \o u)[Len(s) + k] = u[k]
  BY ListsJoined
<1>6. \A k \in 1..Len(t) : t[k] = u[k]
  BY <1>3, <1>4, <1>5
<1>7. t = [k \in 1..Len(t) |-> t[k]] /\ u = [k \in 1..Len(u) |-> u[k]]
  BY LenProperties DEF IsList
<1> QED
  BY <1>3, <1>6, <1>7

LEMMA TwoMore ==
  ASSUME NEW s, IsList(s), NEW x, NEW y
  PROVE  s \o <<x, y>> = Append(Append(s, x), y)
<1> DEFINE S == Range(s) \union {x, y}
<1>1. s \in Seq(S) /\ x \in S /\ y \in S
  BY SeqMonotonic DEF IsList
<1> HIDE DEF S
<1>2. Append(s, x) = s \o <<x>> /\ Append(s, x) \in Seq(S)
  BY <1>1, AppendIsConcat, AppendProperties
<1>3. Append(Append(s, x), y) = (s \o <<x>>) \o <<y>>
  BY <1>1, <1>2, AppendIsConcat
<1>4. <<x>> \in Seq(S) /\ <<y>> \in Seq(S)
  BY <1>1
<1>5. (s \o <<x>>) \o <<y>> = s \o (<<x>> \o <<y>>)
  BY <1>1, <1>4, ConcatAssociative
<1>6. <<x>> \o <<y>> = <<x, y>>
  <2>1. Append(<<x>>, y) = <<x>> \o <<y>>
    BY <1>1, <1>4, AppendIsConcat
  <2>2. Append(<<x>>, y) = <<x, y>>
    <3> DEFINE f == Append(<<x>>, y)
               g == <<x, y>>
    <3>1. Len(<<x>>) = 1 /\ <<x>>[1] = x
      OBVIOUS
    <3>2. f \in Seq(S) /\ Len(f) = 2 /\ f[1] = x /\ f[2] = y
      BY <1>1, <1>4, <3>1, AppendProperties
    <3>3. g \in Seq(S) /\ Len(g) = 2 /\ g[1] = x /\ g[2] = y
      BY <1>1
    <3> HIDE DEF f, g
    <3>4. f = [k \in 1..2 |-> f[k]] /\ g = [k \in 1..2 |-> g[k]]
      BY <3>2, <3>3, LenProperties
    <3>5. \A k \in 1..2 : f[k] = g[k]
      BY <3>2, <3>3
    <3>6. f = g
      BY <3>4, <3>5
    <3> QED
      BY <3>6 DEF f, g
  <2> QED
    BY <2>1, <2>2
<1> QED
  BY <1>3, <1>5, <1>6

\* The names that are tried, with their slugs.
LEMMA Candidates ==
  ASSUME Sluggable, NEW m, IsList(m.name)
  PROVE  LET A == Slug(m.name)
             B == Slugged(findings[host].address)
         IN  /\ \A n \in Nat : IsList(Candidate(m, n))
             /\ Slug(Candidate(m, 0)) = A
             /\ \A n \in Nat \ {0, 1} : Slug(Candidate(m, n)) = (A \o B) \o Slugged(ToString(n))
<1> DEFINE a == findings[host].address
           A == Slug(m.name)
           B == Slugged(a)
           name == m.name
<1>1. Candidate(m, 0) = name /\ Candidate(m, 1) = Append(name, a)
  BY DEF Candidate
<1>2. \A n \in Nat \ {0, 1} : Candidate(m, n) = name \o <<a, ToString(n)>>
  BY DEF Candidate
<1> HIDE DEF a, name
<1>3. IsList(name)
  BY DEF name
<1>4. IsList(Append(name, a)) /\ Slug(Append(name, a)) = Slug(name) \o Slugged(a)
  BY <1>3, SlugAppend
<1>5. ASSUME NEW n \in Nat \ {0, 1}
      PROVE  /\ IsList(Candidate(m, n))
             /\ Slug(Candidate(m, n)) = (Slug(name) \o Slugged(a)) \o Slugged(ToString(n))
  <2>1. PICK t : t = ToString(n)
    OBVIOUS
  <2>2. Candidate(m, n) = Append(Append(name, a), t)
    <3>1. Candidate(m, n) = name \o <<a, t>>
      BY <1>2, <2>1
    <3>2. name \o <<a, t>> = Append(Append(name, a), t)
      BY <1>3, TwoMore
    <3> QED
      BY <3>1, <3>2
  <2>3. /\ IsList(Append(Append(name, a), t))
        /\ Slug(Append(Append(name, a), t)) = Slug(Append(name, a)) \o Slugged(t)
    BY <1>4, SlugAppend
  <2> QED
    BY <1>4, <2>1, <2>2, <2>3
<1>6. ASSUME NEW n \in Nat PROVE IsList(Candidate(m, n))
  <2>1. n = 0 \/ n = 1 \/ n \in Nat \ {0, 1}
    OBVIOUS
  <2> QED
    BY <1>1, <1>3, <1>4, <1>5, <2>1
<1> QED
  BY <1>1, <1>5, <1>6 DEF a, name

\* Candidates with different numbers have different slugs.
LEMMA CandidatesDiffer ==
  ASSUME Sluggable, NEW m, IsList(m.name)
  PROVE  /\ \A n \in Nat \ {0, 1} : Slug(Candidate(m, n)) # Slug(Candidate(m, 0))
         /\ \A n, k \in Nat \ {0, 1} : Slug(Candidate(m, n)) = Slug(Candidate(m, k)) => n = k
<1> DEFINE A == Slug(m.name)
           B == Slugged(findings[host].address)
           D == A \o B
<1>1. IsList(A) /\ IsList(B)
  BY SlugWords DEF Sluggable
<1>2. /\ Slug(Candidate(m, 0)) = A
      /\ \A n \in Nat \ {0, 1} : Slug(Candidate(m, n)) = D \o Slugged(ToString(n))
  BY Candidates
<1> HIDE DEF A, B
<1>3. IsList(D) /\ Len(D) = Len(A) + Len(B)
  BY <1>1, ListsJoined
<1> HIDE DEF D
<1>4. Len(A) \in Nat /\ Len(B) \in Nat
  BY <1>1, ListParts
<1>5. ASSUME NEW n \in Nat \ {0, 1}
      PROVE  Slug(Candidate(m, n)) # Slug(Candidate(m, 0))
  <2> DEFINE c == Slugged(ToString(n))
  <2>1. IsList(c) /\ c # <<>>
    BY DEF Sluggable
  <2> HIDE DEF c
  <2>2. Len(c) \in Nat /\ Len(c) # 0
    <3>1. c \in Seq(Range(c))
      BY <2>1 DEF IsList
    <3> QED
      BY <2>1, <3>1, EmptySeq, LenProperties
  <2>3. Len(D \o c) = Len(D) + Len(c)
    BY <1>3, <2>1, ListsJoined
  <2>4. Len(D \o c) # Len(A)
    BY <1>3, <1>4, <2>2, <2>3
  <2> QED
    BY <1>2, <2>4 DEF c
<1>6. ASSUME NEW n \in Nat \ {0, 1}, NEW k \in Nat \ {0, 1}, Slug(Candidate(m, n)) = Slug(Candidate(m, k))
      PROVE  n = k
  <2> DEFINE c == Slugged(ToString(n))
             d == Slugged(ToString(k))
  <2>1. IsList(c) /\ IsList(d) /\ (c = d => k = n)
    BY DEF Sluggable
  <2>2. D \o c = D \o d
    BY <1>2, <1>6
  <2> HIDE DEF c, d
  <2>3. c = d
    BY <1>3, <2>1, <2>2, SameStart
  <2> QED
    BY <2>1, <2>3
<1> QED
  BY <1>5, <1>6

\* There are more candidates than slugs that are taken, so one of them is free.
LEMMA FreeNameIsFree ==
  ASSUME Sluggable, NEW m, IsList(m.name), IsFiniteSet(Taken)
  PROVE  IsList(FreeName(m)) /\ Slug(FreeName(m)) \notin Taken
<1> DEFINE K == Cardinality(Taken)
           Z == Taken
           free == {n \in 0..(K + 1) : Slug(Candidate(m, n)) \notin Z}
           number(j) == IF j = 1 THEN 0 ELSE j
           I == 1..(K + 1)
           tried == [j \in I |-> Slug(Candidate(m, number(j)))]
<1>1. K \in Nat
  BY FS_CardinalityType
<1>2. FreeName(m) = Candidate(m, Min(free))
  BY DEF FreeName
<1>3. \A n \in Nat : IsList(Candidate(m, n))
  BY Candidates
<1>4. free # {}
  <2> SUFFICES ASSUME free = {} PROVE FALSE
    OBVIOUS
  <2>1. \A j \in I : number(j) \in 0..(K + 1)
    BY <1>1
  <2>2. \A j \in I : Slug(Candidate(m, number(j))) \in Z
    BY <2>1
  <2>3. tried \in [I -> Z]
    BY <2>2
  <2>4. IsFiniteSet(I) /\ Cardinality(I) = K + 1
    BY <1>1, FS_Interval
  <2>5. \A i, j \in I : tried[i] = tried[j] => i = j
    <3> TAKE i, j \in I
    <3> HAVE tried[i] = tried[j]
    <3>1. Slug(Candidate(m, number(i))) = Slug(Candidate(m, number(j)))
      OBVIOUS
    <3>2. (i = 1 \/ i \in Nat \ {0, 1}) /\ (j = 1 \/ j \in Nat \ {0, 1})
      BY <1>1
    <3> QED
      BY <3>1, <3>2, CandidatesDiffer
  <2> HIDE DEF I, tried, free
  <2>6. Cardinality(Z) < Cardinality(I)
    BY <1>1, <2>4
  <2> HIDE DEF Z
  <2>7. IsFiniteSet(Z)
    BY DEF Z
  <2>8. \E i, j \in I : i # j /\ tried[i] = tried[j]
    BY <2>3, <2>4, <2>6, <2>7, FS_PigeonHole
  <2> QED
    BY <2>5, <2>8
<1>5. free \in SUBSET Nat
  BY <1>1
<1> HIDE DEF free
<1>6. Min(free) \in free
  BY <1>4, <1>5, Least DEF Min
<1>7. Min(free) \in Nat /\ Slug(Candidate(m, Min(free))) \notin Taken
  BY <1>1, <1>6 DEF free
<1> QED
  BY <1>2, <1>3, <1>7

SlugsOf(ms) == {Slug(m.name) : m \in Range(ms)}

LEMMA FiniteSlugs ==
  ASSUME NEW ms, IsList(ms)
  PROVE  IsFiniteSet(SlugsOf(ms))
<1> DEFINE n == Len(ms)
           I == 1..n
           s(i) == Slug(ms[i].name)
<1>1. n \in Nat /\ DOMAIN ms = 1..n
  BY ListParts
<1>2. IsFiniteSet(I)
  BY <1>1, FS_Interval
<1>3. SlugsOf(ms) = {s(i) : i \in I}
  BY <1>1 DEF SlugsOf, Range
<1> DEFINE T == {s(i) : i \in I}
           f == [i \in I |-> s(i)]
<1>5. f \in Surjection(I, T)
  BY DEF Surjection
<1> HIDE DEF I, T, f
<1>4. IsFiniteSet(T)
  BY <1>2, <1>5, FS_Surjection
<1> QED
  BY <1>3, <1>4 DEF T

LEMMA TakenSlugs ==
  ASSUME MonitorList(config), MonitorList(file), MonitorList(keep)
  PROVE  /\ Taken = SlugsOf(config) \union SlugsOf(file) \union SlugsOf(keep)
         /\ IsFiniteSet(Taken)
<1> DEFINE u == config \o file
           v == u \o keep
<1>1. MonitorList(u) /\ Range(u) = Range(config) \union Range(file)
  BY MonitorsJoined
<1> HIDE DEF u
<1>2. MonitorList(v) /\ Range(v) = Range(u) \union Range(keep)
  BY <1>1, MonitorsJoined
<1> HIDE DEF v
<1>3. Taken = SlugsOf(v)
  BY DEF Taken, SlugsOf, v, u
<1>4. SlugsOf(v) = SlugsOf(config) \union SlugsOf(file) \union SlugsOf(keep)
  BY <1>1, <1>2 DEF SlugsOf
<1>5. IsFiniteSet(SlugsOf(v))
  BY <1>2, FiniteSlugs DEF MonitorList
<1> QED
  BY <1>3, <1>4, <1>5

-----------------------------------------------------------------------------
(* Configurations put together *)

\* The position of the first monitor that a reference means.
LEMMA ResolvedIs ==
  ASSUME NEW ms, IsList(ms), NEW ref
  PROVE  LET r == Resolve(ms, ref)
             I == {i \in 1..Len(ms) : ref \in {ms[i].name, Slug(ms[i].name)}}
         IN  /\ r \in 0..Len(ms) /\ (r = 0 <=> I = {})
             /\ r # 0 => r \in I /\ \A i \in I : r <= i
<1> DEFINE r == Resolve(ms, ref)
           I == {i \in 1..Len(ms) : ref \in {ms[i].name, Slug(ms[i].name)}}
<1>1. Len(ms) \in Nat
  BY ListParts
<1>2. r = IF I # {} THEN Min(I) ELSE 0
  BY DEF Resolve, SelectInSeq
<1>3. I \in SUBSET Nat /\ I \subseteq 1..Len(ms)
  BY <1>1
<1> HIDE DEF I, r
<1>4. CASE I = {}
  BY <1>1, <1>2, <1>4 DEF I, r
<1>5. CASE I # {}
  <2>1. Min(I) \in I /\ \A i \in I : Min(I) <= i
    BY <1>3, <1>5, Least DEF Min
  <2>3. r = Min(I)
    BY <1>2, <1>5
  <2>4. r \in I /\ \A i \in I : r <= i
    BY <2>1, <2>3
  <2>2. r \in I /\ (\A i \in I : r <= i) /\ r \in 0..Len(ms) /\ r # 0
    BY <1>1, <1>3, <2>4
  <2> QED
    BY <1>5, <2>2 DEF I, r
<1> QED
  BY <1>4, <1>5

\* More monitors after them change nothing.
LEMMA ResolveKept ==
  ASSUME NEW s, NEW t, IsList(s), IsList(t), NEW ref, Resolve(s, ref) # 0
  PROVE  Resolve(s \o t, ref) = Resolve(s, ref)
<1> DEFINE u == s \o t
           r == Resolve(s, ref)
           q == Resolve(u, ref)
           I == {i \in 1..Len(s) : ref \in {s[i].name, Slug(s[i].name)}}
           J == {i \in 1..Len(u) : ref \in {u[i].name, Slug(u[i].name)}}
<1>1. /\ IsList(u) /\ Len(u) = Len(s) + Len(t)
  BY ListsJoined
<1>7. \A k \in 1..Len(s) : u[k] = s[k]
  BY ListsJoined
<1>2. Len(s) \in Nat /\ Len(t) \in Nat
  BY ListParts
<1>3. r \in 0..Len(s) /\ r \in I /\ \A i \in I : r <= i
  BY ResolvedIs
<1> HIDE DEF u
<1>4. /\ q \in 0..Len(u) /\ (q = 0 <=> J = {}) /\ (q # 0 => q \in J /\ \A i \in J : q <= i)
  BY <1>1, ResolvedIs
<1> HIDE DEF r, q
<1>5. r \in J /\ q <= r /\ q # 0
  BY <1>1, <1>2, <1>3, <1>4, <1>7
<1>6. q \in I
  BY <1>1, <1>2, <1>3, <1>4, <1>5, <1>7
<1>8. q = r
  BY <1>2, <1>3, <1>5, <1>6
<1> QED
  BY <1>8 DEF q, r, u

\* The name of a monitor means that monitor.
LEMMA ResolveNamed ==
  ASSUME Sluggable, NEW ms, IsList(ms), \A m \in Range(ms) : IsList(m.name), UniqueNames(ms),
         NEW x \in 1..Len(ms)
  PROVE  Resolve(ms, ms[x].name) = x
<1> DEFINE ref == ms[x].name
           r == Resolve(ms, ref)
<1>1. DOMAIN ms = 1..Len(ms) /\ \A i \in 1..Len(ms) : IsList(ms[i].name)
  BY ListParts
<1>2. r \in 1..Len(ms) /\ ref \in {ms[r].name, Slug(ms[r].name)}
  <2> DEFINE I == {i \in 1..Len(ms) : ref \in {ms[i].name, Slug(ms[i].name)}}
  <2>1. /\ (r = 0 <=> I = {}) /\ (r # 0 => r \in I)
    <3> HIDE DEF ref
    <3> QED
      BY ResolvedIs
  <2>2. x \in I
    OBVIOUS
  <2> HIDE DEF I
  <2>3. r \in I
    BY <2>1, <2>2
  <2> QED
    BY <2>3 DEF I
<1> HIDE DEF r
<1>3. Slug(ref) = Slug(ms[r].name)
  <2>1. Slug(Slug(ms[r].name)) = Slug(ms[r].name)
    BY <1>1, <1>2, SlugOfSlug
  <2> HIDE DEF ref
  <2> QED
    BY <1>2, <2>1
<1>4. r = x
  BY <1>1, <1>2, <1>3 DEF UniqueNames
<1> QED
  BY <1>4 DEF r

LEMMA ParentsAre ==
  ASSUME NEW ms, MonitorList(ms), NEW i \in DOMAIN ms
  PROVE  \A j : j \in Range(ParentsOf(ms, i))
                  <=> j \in DOMAIN ms /\ \E k \in DOMAIN ms[i].depends_on : j = Resolve(ms, ms[i].depends_on[k])
<1> DEFINE deps == ms[i].depends_on
           D == DOMAIN ms
           r == [k \in DOMAIN deps |-> Resolve(ms, deps[k])]
<1>1. IsList(deps)
  BY DEF MonitorList
<1>2. ParentsOf(ms, i) = Only(r, D)
  BY DEF ParentsOf
<1>3. Len(deps) \in Nat /\ DOMAIN deps = 1..Len(deps)
  BY <1>1, ListParts
<1>4. r = [k \in 1..Len(deps) |-> r[k]]
  BY <1>3
<1>5. Range(r) = {Resolve(ms, deps[k]) : k \in DOMAIN deps}
  BY DEF Range
<1> HIDE DEF deps, r, D
<1>6. IsList(r)
  BY <1>3, <1>4, ListMade
<1>7. Range(Only(r, D)) = Range(r) \cap D
  BY <1>6, OnlyList
<1>8. \A j : j \in Range(ParentsOf(ms, i)) <=> j \in D /\ \E k \in DOMAIN deps : j = Resolve(ms, deps[k])
  BY <1>2, <1>5, <1>7
<1> QED
  BY <1>8 DEF D, deps

\* m depends on nothing, or on a monitor of s or one that depends on nothing.
Anchored(m, s, t) ==
  \/ m.depends_on = <<>>
  \/ \E d : /\ m.depends_on = <<d>>
            /\ \/ \E x \in Range(s) : x.name = d
               \/ \E x \in Range(t) : x.name = d /\ x.depends_on = <<>>

\* The k-th monitor that the one at i depends on is among the first n, or depends on nothing.
Grounded(u, n, i, k) ==
  LET q == Resolve(u, u[i].depends_on[k])
  IN  q \in 1..Len(u) /\ q # i /\ (q <= n \/ u[q].depends_on = <<>>)

\* Where the monitor that another is anchored to is.
LEMMA AnchorPlace ==
  ASSUME Sluggable, NEW s, NEW t, MonitorList(s), MonitorList(t), NEW u, u = s \o t,
         \A m \in Range(s) \union Range(t) : IsList(m.name), UniqueNames(u),
         NEW i \in 1..Len(u), i > Len(s), Anchored(u[i], s, t), NEW k \in DOMAIN u[i].depends_on
  PROVE  Grounded(u, Len(s), i, k)
<1>1. IsList(s) /\ IsList(t) /\ Len(s) \in Nat /\ Len(t) \in Nat /\ DOMAIN s = 1..Len(s) /\ DOMAIN t = 1..Len(t)
  BY ListParts DEF MonitorList
<1>2. IsList(s \o t) /\ Len(s \o t) = Len(s) + Len(t)
  BY <1>1, ListsJoined
<1>3. Range(s \o t) = Range(s) \union Range(t)
  BY <1>1, ListsJoined
<1>4. \A j \in 1..Len(s) : (s \o t)[j] = s[j]
  BY <1>1, ListsJoined
<1>5. \A j \in 1..Len(t) : (s \o t)[Len(s) + j] = t[j]
  BY <1>1, ListsJoined
<1>6. /\ IsList(u) /\ Len(u) = Len(s) + Len(t)
      /\ (\A j \in 1..Len(s) : u[j] = s[j]) /\ (\A j \in 1..Len(t) : u[Len(s) + j] = t[j])
  BY <1>2, <1>4, <1>5
<1>7. \A m \in Range(u) : IsList(m.name)
  BY <1>3
<1>8. u[i].depends_on # <<>>
  <2>1. DOMAIN <<>> = {}
    OBVIOUS
  <2> QED
    BY <2>1
<1>9. PICK d : /\ u[i].depends_on = <<d>>
               /\ \/ \E x \in Range(s) : x.name = d
                  \/ \E x \in Range(t) : x.name = d /\ x.depends_on = <<>>
  BY <1>8 DEF Anchored
<1>10. u[i].depends_on[k] = d
  <2>1. DOMAIN <<d>> = {1} /\ <<d>>[1] = d
    OBVIOUS
  <2> QED
    BY <1>9, <2>1
<1>11. PICK q \in 1..Len(u) : u[q].name = d /\ q # i /\ (q <= Len(s) \/ u[q].depends_on = <<>>)
  <2>1. CASE \E x \in Range(s) : x.name = d
    <3>1. PICK j \in 1..Len(s) : s[j].name = d
      BY <1>1, <2>1 DEF Range
    <3> QED
      BY <1>1, <1>6, <3>1
  <2>2. CASE \E x \in Range(t) : x.name = d /\ x.depends_on = <<>>
    <3>1. PICK j \in 1..Len(t) : t[j].name = d /\ t[j].depends_on = <<>>
      BY <1>1, <2>2 DEF Range
    <3>2. Len(s) + j \in 1..Len(u) /\ u[Len(s) + j] = t[j]
      BY <1>1, <1>6
    <3> QED
      BY <1>8, <3>1, <3>2
  <2> QED
    BY <1>9, <2>1, <2>2
<1>12. Resolve(u, d) = q
  BY <1>6, <1>7, <1>11, ResolveNamed
<1> QED
  BY <1>10, <1>11, <1>12 DEF Grounded

\* What _references and the models of the monitors ask of one monitor.
Good(m, s) == Valid(m) /\ MonitorRefers(m, s)

\* A configuration that loads still does with more monitors that are good, have names of
\* their own and are anchored: they add no cycle.
LEMMA LoadsTogether ==
  ASSUME Sluggable, NEW s, NEW t, MonitorList(s), MonitorList(t), NEW set, Loads(s, set),
         \A m \in Range(s) \union Range(t) : IsList(m.name), UniqueNames(s \o t),
         \A m \in Range(t) : Good(m, set) /\ Anchored(m, s, t)
  PROVE  Loads(s \o t, set)
<1>1. PICK u : u = s \o t
  OBVIOUS
<1>2. IsList(s) /\ IsList(t) /\ Len(s) \in Nat /\ Len(t) \in Nat /\ DOMAIN s = 1..Len(s) /\ DOMAIN t = 1..Len(t)
  BY ListParts DEF MonitorList
<1>3. Len(s \o t) = Len(s) + Len(t)
  BY <1>2, ListsJoined
<1>4. MonitorList(s \o t)
  BY MonitorsJoined
<1>5. \A j \in 1..Len(s) : (s \o t)[j] = s[j]
  BY <1>2, ListsJoined
<1>6. \A j \in 1..Len(t) : (s \o t)[Len(s) + j] = t[j]
  BY <1>2, ListsJoined
<1>7. /\ MonitorList(u) /\ Len(u) = Len(s) + Len(t)
      /\ (\A j \in 1..Len(s) : u[j] = s[j]) /\ (\A j \in 1..Len(t) : u[Len(s) + j] = t[j])
      /\ UniqueNames(u)
  BY <1>1, <1>3, <1>4, <1>5, <1>6
<1>8. DOMAIN u = 1..Len(u) /\ Len(u) \in Nat
  BY <1>7, ListParts DEF MonitorList
<1>9. \A i \in 1..Len(u) : \/ i \in 1..Len(s) /\ u[i] = s[i]
                           \/ i > Len(s) /\ u[i] \in Range(t)
  <2> TAKE i \in 1..Len(u)
  <2>1. CASE i <= Len(s)
    BY <1>2, <1>7, <2>1
  <2>2. CASE i > Len(s)
    <3>1. i - Len(s) \in 1..Len(t) /\ i = Len(s) + (i - Len(s))
      BY <1>2, <1>7, <2>2
    <3>2. u[i] = t[i - Len(s)] /\ t[i - Len(s)] \in Range(t)
      BY <1>2, <1>7, <3>1 DEF Range
    <3> QED
      BY <2>2, <3>2
  <2> QED
    BY <1>2, <2>1, <2>2
<1>10. \A i \in 1..Len(u) : Good(u[i], set)
  BY <1>2, <1>9 DEF Good, Loads
<1>11. ASSUME NEW i \in 1..Len(s), NEW k \in DOMAIN s[i].depends_on
       PROVE  LET q == Resolve(s, s[i].depends_on[k])
              IN  q \in 1..Len(s) /\ q # i /\ Resolve(u, s[i].depends_on[k]) = q
  <2> DEFINE d == s[i].depends_on[k]
  <2>1. Resolve(s, d) \notin {0, i}
    BY <1>2 DEF Loads, KnownParents
  <2>2. Resolve(s, d) \in 0..Len(s)
    <3> HIDE DEF d
    <3> QED
      BY <1>2, ResolvedIs
  <2>3. Resolve(s \o t, d) = Resolve(s, d)
    <3> HIDE DEF d
    <3> QED
      BY <1>2, <2>1, ResolveKept
  <2> HIDE DEF d
  <2>4. Resolve(u, d) = Resolve(s, d) /\ Resolve(s, d) \in 1..Len(s) /\ Resolve(s, d) # i
    BY <1>1, <1>2, <2>1, <2>2, <2>3
  <2> QED
    BY <2>4 DEF d
<1>12. ASSUME NEW i \in 1..Len(u), i > Len(s), NEW k \in DOMAIN u[i].depends_on
       PROVE  Grounded(u, Len(s), i, k)
  <2>1. ~(i \in 1..Len(s))
    BY <1>2, <1>12
  <2>2. Anchored(u[i], s, t)
    BY <1>9, <2>1
  <2>3. UniqueNames(u) /\ k \in DOMAIN u[i].depends_on /\ i \in 1..Len(u) /\ i > Len(s)
    BY <1>7, <1>12
  <2> QED
    BY <1>1, <2>2, <2>3, AnchorPlace
<1>13. KnownParents(u)
  <2> SUFFICES ASSUME NEW i \in 1..Len(u), NEW k \in DOMAIN u[i].depends_on
      PROVE  Resolve(u, u[i].depends_on[k]) \notin {0, i}
    BY <1>8 DEF KnownParents
  <2>1. CASE i \in 1..Len(s) /\ u[i] = s[i]
    BY <1>2, <1>11, <2>1
  <2>2. CASE i > Len(s)
    BY <1>8, <1>12, <2>2 DEF Grounded
  <2> QED
    BY <1>9, <2>1, <2>2
<1>14. NoCycle(u)
  <2>1. SUFFICES ASSUME NEW S, Trap(u, S) PROVE FALSE
    BY <1>7, MonitorsListed, NoCycleIsNoTrap
  <2> DEFINE U == S \cap 1..Len(s)
  <2>2. \A i \in S : i \in 1..Len(u) /\ \E q \in S : q \in Range(ParentsOf(u, i))
    BY <1>8, <2>1 DEF Trap
  <2>3. ASSUME NEW i \in S
        PROVE  \E q \in S, k \in DOMAIN u[i].depends_on : q = Resolve(u, u[i].depends_on[k])
    BY <1>7, <1>8, <2>2, ParentsAre
  <2>4. \A i \in S : u[i].depends_on # <<>>
    <3>1. DOMAIN <<>> = {}
      OBVIOUS
    <3> QED
      BY <2>3, <3>1
  <2>5. ASSUME NEW i \in S, i > Len(s) PROVE U # {}
    <3>1. PICK q \in S, k \in DOMAIN u[i].depends_on : q = Resolve(u, u[i].depends_on[k])
      BY <2>3
    <3>2. q <= Len(s) \/ u[q].depends_on = <<>>
      BY <1>12, <2>2, <2>5, <3>1 DEF Grounded
    <3>3. q <= Len(s)
      BY <2>4, <3>2
    <3>4. q \in 1..Len(s)
      BY <1>2, <1>8, <2>2, <3>3
    <3> QED
      BY <3>4
  <2>6. U # {}
    <3>1. PICK i \in S : i \in 1..Len(u)
      BY <2>1, <2>2 DEF Trap
    <3>2. i \in 1..Len(s) \/ i > Len(s)
      BY <1>2, <1>8, <3>1
    <3> QED
      BY <2>5, <3>2
  <2>7. ASSUME NEW i \in U PROVE Range(ParentsOf(s, i)) \cap U # {}
    <3>1. i \in 1..Len(s) /\ i \in S /\ u[i] = s[i]
      BY <1>7
    <3>2. PICK q \in S, k \in DOMAIN s[i].depends_on : q = Resolve(u, s[i].depends_on[k])
      BY <2>3, <3>1
    <3>3. q = Resolve(s, s[i].depends_on[k]) /\ q \in 1..Len(s)
      BY <1>11, <3>1, <3>2
    <3>4. q \in Range(ParentsOf(s, i))
      BY <1>2, <3>1, <3>2, <3>3, ParentsAre
    <3> QED
      BY <3>2, <3>3, <3>4
  <2>8. Trap(s, U)
    <3>1. U \subseteq DOMAIN s
      BY <1>2
    <3> HIDE DEF U
    <3> QED
      BY <2>6, <2>7, <3>1 DEF Trap
  <2> QED
    BY <2>8, MonitorsListed, NoCycleIsNoTrap DEF Loads
<1>15. Loads(u, set)
  BY <1>7, <1>8, <1>10, <1>13, <1>14 DEF Loads, Good
<1> QED
  BY <1>1, <1>15

-----------------------------------------------------------------------------
(* Pasting the proposals *)

LEMMA Greatest ==
  ASSUME NEW n \in Nat, NEW T \in SUBSET (1..n), T # {}
  PROVE  Max(T) \in T
<1> DEFINE below == {n - x : x \in T}
<1>1. below \in SUBSET Nat /\ below # {}
  <2>1. \A x \in T : n - x \in Nat
    <3> SUFFICES ASSUME NEW x \in T PROVE n - x \in Nat
      OBVIOUS
    <3>1. x \in 1..n
      OBVIOUS
    <3> QED
      BY <3>1
  <2>2. PICK x \in T : TRUE
    OBVIOUS
  <2>3. n - x \in below
    OBVIOUS
  <2> QED
    BY <2>1, <2>3
<1> HIDE DEF below
<1>2. PICK b \in below : \A y \in below : b <= y
  BY <1>1, Least
<1>3. PICK x \in T : b = n - x
  BY DEF below
<1>4. \A y \in T : x >= y
  <2> TAKE y \in T
  <2>1. n - y \in below
    BY DEF below
  <2>2. n - x <= n - y
    BY <1>2, <1>3, <2>1
  <2> QED
    BY <2>2
<1>5. \E z \in T : \A y \in T : z >= y
  BY <1>4
<1> QED
  BY <1>5 DEF Max

\* The credential of what was found for a type of monitor is one that the type accepts.
LEMMA FoundCredential ==
  ASSUME NEW f, IsFinding(f), NEW s, IsList(s.discovery), NEW type, type \notin {"ssh", "unifi"},
         NEW c, c = WorkedFor(Found(f, s), type), c # None
  PROVE  c \in DOMAIN s.credentials /\ s.credentials[c] \in Expected[type]
<1> DEFINE F == Found(f, s)
           kind == ProbeOf(type)
           asks == {k \in Probes \union {"mqtt"} : CredentialsFor(k, s) # <<>>}
           types == IF kind = "snmp" THEN {"snmpv2c", "snmpv3"} ELSE {kind}
           fitting == {x \in DOMAIN s.credentials : s.credentials[x] \in types}
           ones == CredentialsFor(kind, s)
<1>1. "worked" \in DOMAIN f
  BY DEF IsFinding, Nothing
<1>2. F.worked = [k \in asks |-> CredentialsFor(k, s)[1]]
  <2> HIDE DEF asks
  <2>1. F = [x \in DOMAIN f |-> IF x = "worked" THEN [k \in asks |-> CredentialsFor(k, s)[1]]
                                ELSE IF x \in Probes \ (asks \ {"mqtt"}) THEN Nothing[x]
                                ELSE f[x]]
    BY DEF Found, asks
  <2> HIDE DEF F
  <2> QED
    BY <1>1, <2>1
<1>3. kind \in asks /\ c = ones[1]
  <2> HIDE DEF asks, F
  <2>1. DOMAIN F.worked = asks /\ \A k \in asks : F.worked[k] = CredentialsFor(k, s)[1]
    BY <1>2
  <2>2. c = IF kind \in DOMAIN F.worked THEN F.worked[kind] ELSE None
    BY DEF WorkedFor, F
  <2> HIDE DEF kind
  <2> QED
    BY <2>1, <2>2
<1>4. ones = Only(s.discovery, fitting)
  BY DEF CredentialsFor
<1>5. kind \in Probes \union {"mqtt"} /\ ones # <<>>
  BY <1>3
<1> HIDE DEF fitting, ones, kind, asks, F
<1>6. IsList(ones) /\ Range(ones) \subseteq fitting
  BY <1>4, OnlyList
<1>7. ones[1] \in Range(ones)
  BY <1>5, <1>6, Rest
<1>8. c \in fitting
  BY <1>3, <1>6, <1>7
<1>9. c \in DOMAIN s.credentials /\ s.credentials[c] \in IF kind = "snmp" THEN {"snmpv2c", "snmpv3"} ELSE {kind}
  BY <1>8 DEF fitting
<1>10. types \subseteq Expected[type]
  <2>1. kind = CASE type \in {"linux", "docker"} -> "ssh"
                 [] type \in {"unifi_network", "unifi_protect"} -> "unifi"
                 [] OTHER -> type
    BY DEF kind, ProbeOf
  <2>2. CASE type = "linux"
    BY <2>1, <2>2 DEF Expected
  <2>3. CASE type = "docker"
    BY <2>1, <2>3 DEF Expected
  <2>4. CASE type = "unifi_network"
    BY <2>1, <2>4 DEF Expected
  <2>5. CASE type = "unifi_protect"
    BY <2>1, <2>5 DEF Expected
  <2>6. CASE type \notin {"linux", "docker", "unifi_network", "unifi_protect"}
    <3>1. kind = type
      BY <2>1, <2>6
    <3>2. type \in {"snmp", "winrm", "proxmox", "vsphere", "homeassistant", "technitium", "truenas", "mqtt"}
      BY <1>5, <3>1 DEF Probes
    <3> QED
      BY <3>1, <3>2 DEF Expected
  <2> QED
    BY <2>2, <2>3, <2>4, <2>5, <2>6
<1> QED
  BY <1>9, <1>10

\* What is proposed for a host refers to what there is, under any name and with any
\* depends_on.
LEMMA ProposalRefers ==
  ASSUME NEW f, IsFinding(f), NEW s, IsList(s.discovery), NEW p, Proposed(Found(f, s), p)
  PROVE  MonitorRefers(p, s)
<1>1. /\ p.type \notin {"ssh", "unifi"} /\ p.alerts = {} /\ (p.forecast => p.thresholds)
      /\ p.credential = WorkedFor(Found(f, s), p.type)
  BY DEF Proposed
<1>2. p.credential # None =>
        p.credential \in DOMAIN s.credentials /\ s.credentials[p.credential] \in Expected[p.type]
  BY <1>1, FoundCredential
<1> QED
  BY <1>1, <1>2 DEF MonitorRefers

LEMMA GoodAnyway ==
  ASSUME NEW p, NEW m, NEW s, Good(p, s), m.type = p.type, m.mode = p.mode, m.part = p.part,
         m.docker_command = p.docker_command, m.credential = p.credential, m.alerts = p.alerts,
         m.forecast = p.forecast, m.thresholds = p.thresholds
  PROVE  Good(m, s)
BY DEF Good, Valid, NamesItsPart, SafeInCommands, MonitorRefers

Worded(ms) == \A m \in Range(ms) : IsList(m.name)

Apart(s, t) == SlugsOf(s) \cap SlugsOf(t) = {}

LEMMA UniqueJoined ==
  ASSUME NEW s, NEW t, MonitorList(s), MonitorList(t), UniqueNames(s), UniqueNames(t), Apart(s, t)
  PROVE  UniqueNames(s \o t)
<1>1. PICK u : u = s \o t
  OBVIOUS
<1>2. IsList(s) /\ IsList(t) /\ Len(s) \in Nat /\ Len(t) \in Nat /\ DOMAIN s = 1..Len(s) /\ DOMAIN t = 1..Len(t)
  BY ListParts DEF MonitorList
<1>3. IsList(s \o t) /\ Len(s \o t) = Len(s) + Len(t)
  BY <1>2, ListsJoined
<1>4. \A j \in 1..Len(s) : (s \o t)[j] = s[j]
  BY <1>2, ListsJoined
<1>5. \A j \in 1..Len(t) : (s \o t)[Len(s) + j] = t[j]
  BY <1>2, ListsJoined
<1>6. /\ IsList(u) /\ Len(u) = Len(s) + Len(t)
      /\ (\A j \in 1..Len(s) : u[j] = s[j]) /\ (\A j \in 1..Len(t) : u[Len(s) + j] = t[j])
  BY <1>1, <1>3, <1>4, <1>5
<1>7. DOMAIN u = 1..(Len(s) + Len(t))
  BY <1>6, ListParts
<1> DEFINE slug(i) == Slug(u[i].name)
           first(i) == i \in 1..Len(s) /\ slug(i) = Slug(s[i].name)
           second(i) == i - Len(s) \in 1..Len(t) /\ slug(i) = Slug(t[i - Len(s)].name)
<1>8. \A i \in DOMAIN u : first(i) \/ second(i)
  <2> TAKE i \in DOMAIN u
  <2>1. CASE i <= Len(s)
    BY <1>2, <1>6, <1>7, <2>1
  <2>2. CASE i > Len(s)
    <3>1. i - Len(s) \in 1..Len(t) /\ i = Len(s) + (i - Len(s))
      BY <1>2, <1>7, <2>2
    <3>2. u[i] = t[i - Len(s)]
      BY <1>6, <3>1
    <3> QED
      BY <3>1, <3>2
  <2> QED
    BY <1>2, <1>7, <2>1, <2>2
<1>9. \A i : (first(i) => slug(i) \in SlugsOf(s)) /\ (second(i) => slug(i) \in SlugsOf(t))
  BY <1>2 DEF SlugsOf, Range
<1>10. ASSUME NEW i \in DOMAIN u, NEW j \in DOMAIN u, slug(i) = slug(j) PROVE i = j
  <2>1. (first(i) /\ first(j)) \/ (second(i) /\ second(j))
    <3> HIDE DEF slug, first, second
    <3> QED
      BY <1>8, <1>9, <1>10 DEF Apart
  <2>2. CASE first(i) /\ first(j)
    BY <1>2, <1>10, <2>2 DEF UniqueNames
  <2>3. CASE second(i) /\ second(j)
    <3>1. i - Len(s) = j - Len(s)
      BY <1>2, <1>10, <2>3 DEF UniqueNames
    <3> QED
      BY <1>2, <1>7, <3>1
  <2> QED
    BY <2>1, <2>2, <2>3
<1>11. UniqueNames(u)
  BY <1>10 DEF UniqueNames
<1> QED
  BY <1>1, <1>11

LEMMA UniqueWithOne ==
  ASSUME NEW ms, MonitorList(ms), UniqueNames(ms), NEW m, IsList(m.depends_on), Slug(m.name) \notin SlugsOf(ms)
  PROVE  /\ UniqueNames(Append(ms, m))
         /\ SlugsOf(Append(ms, m)) = SlugsOf(ms) \union {Slug(m.name)}
<1> DEFINE u == Append(ms, m)
<1>1. /\ MonitorList(u) /\ Range(u) = Range(ms) \union {m} /\ Len(ms) \in Nat /\ Len(u) = Len(ms) + 1
      /\ u[Len(ms) + 1] = m /\ \A i \in 1..Len(ms) : u[i] = ms[i]
  BY OneMore
<1>2. DOMAIN ms = 1..Len(ms) /\ DOMAIN u = 1..(Len(ms) + 1)
  BY <1>1, ListParts DEF MonitorList
<1> HIDE DEF u
<1>3. \A i \in DOMAIN u : i = Len(ms) + 1 \/ i \in 1..Len(ms)
  BY <1>1, <1>2
<1>4. \A i \in 1..Len(ms) : Slug(ms[i].name) \in SlugsOf(ms)
  BY <1>2 DEF SlugsOf, Range
<1>5. UniqueNames(u)
  BY <1>1, <1>2, <1>3, <1>4 DEF UniqueNames
<1>6. SlugsOf(u) = SlugsOf(ms) \union {Slug(m.name)}
  BY <1>1 DEF SlugsOf
<1> QED
  BY <1>5, <1>6 DEF u

\* Rewriting depends_on leaves the names and whatever makes a monitor good alone.
LEMMA RewrittenNames ==
  ASSUME NEW ms, MonitorList(ms), \A m \in Range(ms) : DOMAIN m = Fields
  PROVE  /\ MonitorList(Rewritten(ms)) /\ SlugsOf(Rewritten(ms)) = SlugsOf(ms)
         /\ UniqueNames(ms) => UniqueNames(Rewritten(ms))
         /\ \A x \in Range(Rewritten(ms)) : \E m \in Range(ms) :
              /\ x.name = m.name /\ x.depends_on = NewDeps(m)
              /\ \A s : Good(m, s) => Good(x, s)
         /\ \A m \in Range(ms) : \E x \in Range(Rewritten(ms)) : x.name = m.name /\ x.depends_on = NewDeps(m)
<1> DEFINE R == Rewritten(ms)
           deps(i) == NewDeps(ms[i])
<1>1. \A m \in Range(ms) : "depends_on" \in DOMAIN m
  BY DEF Fields
<1>2. /\ MonitorList(R) /\ DOMAIN R = 1..Len(ms) /\ \A i \in 1..Len(ms) : R[i] = [ms[i] EXCEPT !.depends_on = deps(i)]
      /\ \A i \in 1..Len(ms) : R[i].depends_on = deps(i)
  BY <1>1, RewrittenList
<1>3. DOMAIN ms = 1..Len(ms)
  BY ListParts DEF MonitorList
<1> HIDE DEF R, deps
<1>4. ASSUME NEW i \in 1..Len(ms) PROVE R[i].name = ms[i].name /\ \A s : Good(ms[i], s) => Good(R[i], s)
  <2>1. DOMAIN ms[i] = Fields
    BY <1>3 DEF Range
  <2>2. R[i] = [ms[i] EXCEPT !.depends_on = deps(i)]
    BY <1>2
  <2>3. /\ R[i].name = ms[i].name /\ R[i].type = ms[i].type /\ R[i].mode = ms[i].mode /\ R[i].part = ms[i].part
        /\ R[i].credential = ms[i].credential /\ R[i].alerts = ms[i].alerts
        /\ R[i].forecast = ms[i].forecast /\ R[i].thresholds = ms[i].thresholds
        /\ R[i].docker_command = ms[i].docker_command
    BY <2>1, <2>2 DEF Fields
  <2> QED
    BY <2>3, GoodAnyway
<1>5. Range(R) = {R[i] : i \in 1..Len(ms)} /\ Range(ms) = {ms[i] : i \in 1..Len(ms)}
  BY <1>2, <1>3 DEF Range
<1>6. SlugsOf(R) = SlugsOf(ms)
  BY <1>4, <1>5 DEF SlugsOf
<1>7. UniqueNames(ms) => UniqueNames(R)
  BY <1>2, <1>3, <1>4 DEF UniqueNames
<1>8. ASSUME NEW x \in Range(R)
      PROVE  \E m \in Range(ms) : x.name = m.name /\ x.depends_on = NewDeps(m) /\ \A s : Good(m, s) => Good(x, s)
  <2>1. PICK i \in 1..Len(ms) : x = R[i]
    BY <1>5
  <2>2. ms[i] \in Range(ms) /\ x.depends_on = NewDeps(ms[i])
    BY <1>2, <1>5, <2>1 DEF deps
  <2> QED
    BY <1>4, <2>1, <2>2
<1>9. ASSUME NEW m \in Range(ms)
      PROVE  \E x \in Range(R) : x.name = m.name /\ x.depends_on = NewDeps(m)
  <2>1. PICK i \in 1..Len(ms) : m = ms[i]
    BY <1>5
  <2>2. R[i] \in Range(R) /\ R[i].depends_on = NewDeps(m)
    BY <1>2, <1>5, <2>1 DEF deps
  <2> QED
    BY <1>4, <2>1, <2>2
<1> QED
  BY <1>2, <1>6, <1>7, <1>8, <1>9 DEF R

\* A name of a configured monitor, or of one that is kept and depends on nothing.
Firm(name) ==
  \/ \E x \in Range(config) : x.name = name
  \/ \E x \in Range(keep) : x.name = name /\ x.depends_on = <<>>

Inputs ==
  /\ {"credentials", "alerts", "discovery"} \subseteq DOMAIN settings
  /\ IsList(settings.discovery) /\ Worded(config)

\* Everything configured or proposed has a slug of its own, and what is in the file would
\* load with the configuration.
Pasteable ==
  phase \in {"render", "done"} =>
    /\ Worded(file) /\ Worded(keep)
    /\ UniqueNames(file) /\ UniqueNames(keep)
    /\ Apart(config, file) /\ Apart(config, keep) /\ Apart(file, keep)
    /\ \A m \in Range(file) : Good(m, settings) /\ Anchored(m, config, file)
    /\ \A m \in Range(keep) : Valid(m)

\* What has been looked at has a new name, and that name is firm unless a guest had it.
Renaming ==
  phase = "render" =>
    /\ \A p \in Range(Offered) : p \in Range(todo) \/ p.name \in DOMAIN renamed
    /\ \A d \in DOMAIN renamed : d[2] # "VM" => Firm(renamed[d])

AdoptInv == Inputs /\ Pasteable /\ Renaming /\ (round = 2 => Loads(config, settings))

LEMMA PasteableLoad == ListsInv /\ AdoptInv /\ Load => AdoptInv'
<1> SUFFICES ASSUME ListsInv, AdoptInv, Load PROVE AdoptInv'
  OBVIOUS
<1>1. /\ network' = network /\ settings' = settings /\ config' = config /\ round' = round
      /\ host' = 1 /\ todo' = ProposalsOf(findings', 1)
      /\ keep' = <<>> /\ file' = <<>> /\ renamed' = <<>>
  BY DEF Load, asked
<1>2. Inputs' /\ (round' = 2 => Loads(config', settings'))
  BY <1>1 DEF AdoptInv, Inputs, Worded
<1>3. Pasteable'
  <2>1. SlugsOf(<<>>) = {} /\ UniqueNames(<<>>) /\ Range(<<>>) = {}
    <3>1. DOMAIN <<>> = {}
      OBVIOUS
    <3> QED
      BY <3>1, NoItems DEF SlugsOf, UniqueNames
  <2>2. Worded(<<>>)
    BY <2>1 DEF Worded
  <2>3. Apart(config, <<>>) /\ Apart(<<>>, <<>>)
    BY <2>1 DEF Apart
  <2> QED
    BY <1>1, <2>1, <2>2, <2>3 DEF Pasteable
<1>4. Renaming'
  <2>1. SUFFICES ASSUME phase' = "render" PROVE Renaming'
    BY DEF Renaming
  <2>2. Base' /\ Listed' /\ Rendering'
    BY LoadLists
  <2>3. 1 <= Len(findings')
    BY <1>1, <2>1, <2>2 DEF Base
  <2>4. Offered' = todo'
    BY <1>1, <2>3 DEF Offered, ProposalsOf
  <2>5. DOMAIN renamed' = {}
    BY <1>1
  <2> QED
    BY <2>4, <2>5 DEF Renaming
<1> QED
  BY <1>2, <1>3, <1>4 DEF AdoptInv

LEMMA PasteableSkip == ListsInv /\ AdoptInv /\ SkipConfigured => AdoptInv'
<1> SUFFICES ASSUME ListsInv, AdoptInv, SkipConfigured PROVE AdoptInv'
  OBVIOUS
<1> DEFINE p == Head(todo)
           I == {i \in DOMAIN config : KeyOf(config[i]) = KeyOf(p)}
           name == ExistingName(KeyOf(p))
<1>1. /\ phase = "render" /\ todo # <<>> /\ Configured(p) /\ todo' = Tail(todo)
      /\ network' = network /\ settings' = settings /\ config' = config /\ findings' = findings
      /\ phase' = phase /\ host' = host /\ keep' = keep /\ file' = file /\ round' = round
      /\ renamed' = Rename(p, name)
  BY DEF SkipConfigured, asked
<1>2. MonitorList(todo) /\ MonitorList(config)
  BY DEF ListsInv, Listed
<1>3. Range(todo) = {p} \union Range(Tail(todo))
  BY <1>1, <1>2, Rest DEF MonitorList
<1>4. \E x \in Range(config) : x.name = name
  <2>1. Len(config) \in Nat /\ DOMAIN config = 1..Len(config)
    BY <1>2, ListParts DEF MonitorList
  <2>2. I # {} /\ I \in SUBSET (1..Len(config))
    BY <1>1, <2>1 DEF Configured
  <2>3. name = config[Max(I)].name
    BY DEF ExistingName
  <2> HIDE DEF I, name
  <2>4. Max(I) \in I
    BY <2>1, <2>2, Greatest
  <2>5. Max(I) \in DOMAIN config
    BY <2>1, <2>2, <2>4
  <2> QED
    BY <2>3, <2>5 DEF Range
<1> HIDE DEF p, name
<1>5. /\ DOMAIN renamed' = {p.name} \union DOMAIN renamed
      /\ \A d \in DOMAIN renamed' : renamed'[d] = name \/ (d \in DOMAIN renamed /\ renamed'[d] = renamed[d])
  BY <1>1 DEF Rename
<1>6. Offered' = Offered
  BY <1>1 DEF Offered
<1>7. \A n : Firm(n)' <=> Firm(n)
  BY <1>1 DEF Firm
<1>8. Renaming'
  <2>1. \A q \in Range(Offered') : q \in Range(todo') \/ q.name \in DOMAIN renamed'
    BY <1>1, <1>3, <1>5, <1>6 DEF AdoptInv, Renaming
  <2>2. \A d \in DOMAIN renamed' : d[2] # "VM" => Firm(renamed'[d])
    <3>1. Firm(name)
      BY <1>4 DEF Firm
    <3> QED
      BY <1>1, <1>5, <3>1 DEF AdoptInv, Renaming
  <2>3. \A d \in DOMAIN renamed' : d[2] # "VM" => Firm(renamed[d])'
    BY <1>1, <2>2 DEF Firm
  <2> QED
    BY <2>1, <2>3 DEF Renaming
<1>9. Inputs' /\ Pasteable' /\ (round' = 2 => Loads(config', settings'))
  BY <1>1 DEF AdoptInv, Inputs, Pasteable, Worded
<1> QED
  BY <1>8, <1>9 DEF AdoptInv

LEMMA PasteableKeep == ASSUME Sluggable PROVE ListsInv /\ AdoptInv /\ KeepNew => AdoptInv'
<1> SUFFICES ASSUME ListsInv, AdoptInv, KeepNew PROVE AdoptInv'
  OBVIOUS
<1> DEFINE p == Head(todo)
           name == FreeName(p)
           m == [p EXCEPT !.name = name]
<1>1. /\ phase = "render" /\ todo # <<>> /\ Valid(p) /\ todo' = Tail(todo) /\ keep' = Append(keep, m)
      /\ network' = network /\ settings' = settings /\ config' = config /\ findings' = findings
      /\ phase' = phase /\ host' = host /\ file' = file /\ round' = round
      /\ renamed' = Rename(p, name)
  BY DEF KeepNew, asked
<1>2. MonitorList(todo) /\ MonitorList(keep) /\ MonitorList(config) /\ MonitorList(file)
  BY DEF ListsInv, Listed
<1>3. Range(todo) = {p} \union Range(Tail(todo))
  BY <1>1, <1>2, Rest DEF MonitorList
<1>4. p \in Range(Offered)
  BY <1>1, <1>3 DEF ListsInv, Rendering
<1>5. Proposed(findings[host], p)
  BY <1>1, <1>4, OfferedSound DEF ProposedList
<1>6. DOMAIN p = Fields /\ IsList(p.name)
  BY <1>5 DEF Proposed
<1>7. m.name = name /\ m.depends_on = p.depends_on /\ Valid(m)
  <2>1. m = [p EXCEPT !.name = name] /\ Valid(p) /\ DOMAIN p = Fields
    BY <1>1, <1>6
  <2> HIDE DEF p, name, m
  <2> QED
    BY <2>1, Renamed
<1>8. p.name[2] # "VM" => p.depends_on = <<>>
  BY <1>5 DEF Proposed
<1>9. IsList(p.depends_on)
  BY <1>1, <1>4, OfferedSound DEF ProposedList, MonitorList, Range
<1>10. Taken = SlugsOf(config) \union SlugsOf(file) \union SlugsOf(keep) /\ IsFiniteSet(Taken)
  BY <1>2, TakenSlugs
<1>11. IsList(name) /\ Slug(name) \notin Taken
  BY <1>6, <1>10, FreeNameIsFree
<1> HIDE DEF p, name, m
<1>12. /\ UniqueNames(keep) => UniqueNames(keep')
       /\ SlugsOf(keep') = SlugsOf(keep) \union {Slug(name)}
  <2>1. Slug(m.name) \notin SlugsOf(keep) /\ IsList(m.depends_on)
    BY <1>7, <1>9, <1>10, <1>11
  <2>2. UniqueNames(keep)
    BY <1>1 DEF AdoptInv, Pasteable
  <2> QED
    BY <1>1, <1>2, <1>7, <2>1, <2>2, UniqueWithOne
<1>13. Range(keep') = Range(keep) \union {m}
  BY <1>1, <1>2, <1>7, <1>9, OneMore
<1>14. Worded(keep')
  BY <1>1, <1>7, <1>11, <1>13 DEF AdoptInv, Pasteable, Worded
<1>15. Apart(config, keep') /\ Apart(file, keep')
  BY <1>1, <1>10, <1>11, <1>12 DEF AdoptInv, Pasteable, Apart
<1>16. Pasteable'
  BY <1>1, <1>7, <1>12, <1>13, <1>14, <1>15 DEF AdoptInv, Pasteable
<1>17. /\ DOMAIN renamed' = {p.name} \union DOMAIN renamed /\ renamed'[p.name] = name
       /\ \A d \in DOMAIN renamed' : d = p.name \/ (d \in DOMAIN renamed /\ renamed'[d] = renamed[d])
  <2>1. DOMAIN renamed' = {p.name} \union DOMAIN renamed /\ renamed'[p.name] = name
    BY <1>1 DEF Rename
  <2>2. \A d \in DOMAIN renamed' \ {p.name} : renamed'[d] = renamed[d]
    BY <1>1 DEF Rename
  <2> QED
    BY <2>1, <2>2
<1>18. Offered' = Offered
  BY <1>1 DEF Offered
<1>19. \A n : Firm(n) => (Firm(n))'
  BY <1>1, <1>13 DEF Firm
<1>20. Renaming'
  <2>1. \A q \in Range(Offered') : q \in Range(todo') \/ q.name \in DOMAIN renamed'
    BY <1>1, <1>3, <1>17, <1>18 DEF AdoptInv, Renaming
  <2>2. ASSUME NEW d \in DOMAIN renamed', d[2] # "VM" PROVE Firm(renamed[d])'
    <3>1. CASE d = p.name
      <4>1. m \in Range(keep') /\ m.name = renamed'[d] /\ m.depends_on = <<>>
        BY <1>7, <1>8, <1>13, <1>17, <2>2, <3>1
      <4> QED
        BY <4>1 DEF Firm
    <3>2. CASE d \in DOMAIN renamed /\ renamed'[d] = renamed[d]
      <4>1. Firm(renamed[d])
        BY <1>1, <2>2, <3>2 DEF AdoptInv, Renaming
      <4> QED
        BY <1>1, <1>13, <3>2, <4>1 DEF Firm
    <3> QED
      BY <1>17, <3>1, <3>2
  <2> QED
    BY <2>1, <2>2 DEF Renaming
<1>21. Inputs' /\ (round' = 2 => Loads(config', settings'))
  BY <1>1 DEF AdoptInv, Inputs, Worded
<1> QED
  BY <1>16, <1>20, <1>21 DEF AdoptInv

\* Monitors that are anchored still are when there are more.
LEMMA AnchoredAmongMore ==
  ASSUME NEW m, NEW s, NEW t, NEW u, Anchored(m, s, t), Range(t) \subseteq Range(u)
  PROVE  Anchored(m, s, u)
BY DEF Anchored

\* With its depends_on rewritten, every monitor that is kept is anchored.
LEMMA KeptAnchored ==
  ASSUME ListsInv, AdoptInv, phase = "render", todo = <<>>, NEW m \in Range(keep)
  PROVE  NewDeps(m) = <<>> \/ \E n : NewDeps(m) = <<n>> /\ Firm(n)
<1>1. PICK p \in Range(Offered) : m = [p EXCEPT !.name = m.name]
  BY DEF ListsInv, Rendering
<1>2. Proposed(findings[host], p) /\ Complete(Offered)
  BY OfferedSound DEF ProposedList
<1>3. m.depends_on = p.depends_on
  <2>1. DOMAIN p = Fields
    BY <1>2 DEF Proposed
  <2> QED
    BY <1>1, <2>1, Renamed
<1>4. CASE p.depends_on = <<>>
  <2>1. m.depends_on = <<>>
    BY <1>3, <1>4
  <2>2. DOMAIN m.depends_on = {}
    BY <2>1
  <2>3. NewDeps(m) = [k \in {} |-> NewName(m.depends_on[k])]
    BY <2>2 DEF NewDeps
  <2>4. NewDeps(m) = <<>>
    BY <2>3
  <2> QED
    BY <2>4
<1>5. ASSUME NEW d, p.depends_on = <<d>>, d[2] # "VM" PROVE \E n : NewDeps(m) = <<n>> /\ Firm(n)
  <2>1. m.depends_on = <<d>> /\ d \in Range(p.depends_on)
    BY <1>3, <1>5, OneItem
  <2>2. PICK x \in Range(Offered) : x.name = d
    BY <1>1, <1>2, <2>1 DEF Complete
  <2>3. Range(todo) = {}
    BY NoItems
  <2>4. d \in DOMAIN renamed
    BY <2>2, <2>3 DEF AdoptInv, Renaming
  <2>5. Firm(renamed[d])
    BY <1>5, <2>4 DEF AdoptInv, Renaming
  <2>6. NewName(d) = renamed[d]
    BY <2>4 DEF NewName
  <2>7. NewDeps(m) = <<NewName(d)>>
    <3>1. DOMAIN m.depends_on = {1} /\ m.depends_on[1] = d
      BY <2>1
    <3> QED
      BY <3>1 DEF NewDeps
  <2> QED
    BY <2>5, <2>6, <2>7
<1> QED
  BY <1>2, <1>4, <1>5 DEF Proposed

LEMMA KeptGood ==
  ASSUME ListsInv, AdoptInv, phase = "render", NEW m \in Range(keep)
  PROVE  Good(m, settings) /\ DOMAIN m = Fields
<1>1. PICK p \in Range(Offered) : m = [p EXCEPT !.name = m.name]
  BY DEF ListsInv, Rendering
<1>2. Proposed(findings[host], p) /\ DOMAIN p = Fields
  BY OfferedSound DEF ProposedList
<1>3. host \in 1..Len(findings)
  BY FindingsFound DEF ListsInv, Base
<1>4. PICK a \in Responding : findings[host] = Finding(a)
  BY <1>3, FindingsFound
<1> DEFINE f == CHOOSE f \in network : f.address = a
<1>5. f \in network
  BY <1>4 DEF Responding
<1> DEFINE s == Overridden(settings, request)
<1>6. findings[host] = Found(f, s)
  BY <1>4 DEF Finding
<1>7. IsFinding(f)
  BY <1>5 DEF ListsInv, Base
<1>10. s.credentials = settings.credentials /\ s.alerts = settings.alerts /\ IsList(s.discovery)
  <2>1. IsList(settings.discovery) /\ {"credentials", "alerts", "discovery"} \subseteq DOMAIN settings
    BY DEF AdoptInv, Inputs
  <2>2. request.credentials \in Seq(STRING)
    BY DEF ListsInv, ScanInv, ScanRequest
  <2>3. IsList(request.credentials)
    BY <2>2, ListOfSeq
  <2>4. \/ s = settings
        \/ s = [settings EXCEPT !.discovery = request.credentials]
    BY DEF Overridden
  <2> QED
    BY <2>1, <2>3, <2>4
<1> HIDE DEF f, s
<1>11. MonitorRefers(p, s)
  BY <1>2, <1>6, <1>7, <1>10, ProposalRefers
<1>12. MonitorRefers(p, settings)
  BY <1>10, <1>11 DEF MonitorRefers
<1>13. Valid(p)
  <2>1. Valid(m)
    BY DEF AdoptInv, Pasteable
  <2> QED
    BY <1>1, <1>2, <2>1, Renamed
<1>8. Good(p, settings)
  BY <1>12, <1>13 DEF Good
<1>9. /\ m.type = p.type /\ m.mode = p.mode /\ m.part = p.part /\ DOMAIN m = Fields
      /\ m.credential = p.credential /\ m.alerts = p.alerts
      /\ m.forecast = p.forecast /\ m.thresholds = p.thresholds /\ m.docker_command = p.docker_command
  BY <1>1, <1>2, Renamed
<1> QED
  BY <1>8, <1>9, GoodAnyway

LEMMA PasteableNextHost == ListsInv /\ AdoptInv /\ NextHost => AdoptInv'
<1> SUFFICES ASSUME ListsInv, AdoptInv, NextHost PROVE AdoptInv'
  OBVIOUS
<1>1. /\ phase = "render" /\ todo = <<>> /\ file' = file \o Rewritten(keep)
      /\ host' = host + 1 /\ todo' = ProposalsOf(findings, host + 1)
      /\ keep' = <<>> /\ renamed' = <<>> /\ phase' = IF host < Len(findings) THEN "render" ELSE "done"
      /\ network' = network /\ settings' = settings /\ config' = config
      /\ findings' = findings /\ round' = round
  BY DEF NextHost, asked, Rewritten
<1> DEFINE R == Rewritten(keep)
<1>2. MonitorList(keep) /\ MonitorList(file)
  BY DEF ListsInv, Listed
<1>3. \A m \in Range(keep) : Good(m, settings) /\ DOMAIN m = Fields
  BY <1>1, KeptGood
<1>4. /\ MonitorList(R) /\ SlugsOf(R) = SlugsOf(keep) /\ (UniqueNames(keep) => UniqueNames(R))
      /\ \A x \in Range(R) : \E m \in Range(keep) :
              /\ x.name = m.name /\ x.depends_on = NewDeps(m)
              /\ \A s : Good(m, s) => Good(x, s)
      /\ \A m \in Range(keep) : \E x \in Range(R) : x.name = m.name /\ x.depends_on = NewDeps(m)
  BY <1>2, <1>3, RewrittenNames
<1> HIDE DEF R
<1>5. /\ Worded(file) /\ Worded(keep) /\ UniqueNames(file) /\ UniqueNames(keep)
      /\ Apart(config, file) /\ Apart(config, keep) /\ Apart(file, keep)
      /\ \A m \in Range(file) : Good(m, settings) /\ Anchored(m, config, file)
  BY <1>1 DEF AdoptInv, Pasteable
<1>6. PICK v : v = file \o R
  OBVIOUS
<1>7. MonitorList(v) /\ Range(v) = Range(file) \union Range(R)
  BY <1>2, <1>4, <1>6, MonitorsJoined
<1>8. UniqueNames(v)
  <2>1. Apart(file, R)
    BY <1>4, <1>5 DEF Apart
  <2> QED
    BY <1>2, <1>4, <1>5, <1>6, <2>1, UniqueJoined
<1>9. Worded(v)
  BY <1>4, <1>5, <1>7 DEF Worded
<1>10. Apart(config, v)
  <2>1. SlugsOf(v) = SlugsOf(file) \union SlugsOf(R)
    BY <1>7 DEF SlugsOf
  <2> QED
    BY <1>4, <1>5, <2>1 DEF Apart
<1>11. ASSUME NEW x \in Range(R) PROVE Good(x, settings) /\ Anchored(x, config, v)
  <2>1. PICK m \in Range(keep) : /\ x.name = m.name /\ x.depends_on = NewDeps(m)
                                 /\ \A s : Good(m, s) => Good(x, s)
    BY <1>4
  <2>2. Good(x, settings)
    BY <1>3, <2>1
  <2>3. NewDeps(m) = <<>> \/ \E n : NewDeps(m) = <<n>> /\ Firm(n)
    BY <1>1, KeptAnchored
  <2>4. ASSUME NEW n, Firm(n)
        PROVE  \/ \E y \in Range(config) : y.name = n
               \/ \E y \in Range(v) : y.name = n /\ y.depends_on = <<>>
    <3>1. CASE \E y \in Range(config) : y.name = n
      BY <3>1
    <3>2. CASE \E y \in Range(keep) : y.name = n /\ y.depends_on = <<>>
      <4>1. PICK y \in Range(keep) : y.name = n /\ y.depends_on = <<>>
        BY <3>2
      <4>2. PICK z \in Range(R) : z.name = y.name /\ z.depends_on = NewDeps(y)
        BY <1>4
      <4>3. NewDeps(y) = <<>>
        <5>1. DOMAIN y.depends_on = {}
          BY <4>1
        <5>2. NewDeps(y) = [k \in {} |-> NewName(y.depends_on[k])]
          BY <5>1 DEF NewDeps
        <5> QED
          BY <5>2
      <4> QED
        BY <1>7, <4>1, <4>2, <4>3
    <3> QED
      BY <2>4, <3>1, <3>2 DEF Firm
  <2>5. Anchored(x, config, v)
    BY <2>1, <2>3, <2>4 DEF Anchored
  <2> QED
    BY <2>2, <2>5
<1>12. ASSUME NEW x \in Range(file) PROVE Good(x, settings) /\ Anchored(x, config, v)
  <2>1. Range(file) \subseteq Range(v)
    BY <1>7
  <2> QED
    BY <1>5, <2>1, AnchoredAmongMore
<1>13. \A x \in Range(v) : Good(x, settings) /\ Anchored(x, config, v)
  BY <1>7, <1>11, <1>12
<1>14. Worded(<<>>) /\ UniqueNames(<<>>) /\ Apart(config, <<>>) /\ Apart(v, <<>>) /\ Range(<<>>) = {}
  <2>1. DOMAIN <<>> = {} /\ Range(<<>>) = {}
    BY NoItems
  <2> QED
    BY <2>1 DEF Worded, UniqueNames, Apart, SlugsOf
<1>15. file' = v
  BY <1>1, <1>6 DEF R
<1>16. Pasteable'
  BY <1>1, <1>8, <1>9, <1>10, <1>13, <1>14, <1>15 DEF Pasteable
<1>17. Renaming'
  <2>1. SUFFICES ASSUME phase' = "render" PROVE Renaming'
    BY DEF Renaming
  <2>2. host \in Nat /\ Len(findings) \in Nat /\ host < Len(findings)
    BY <1>1, <2>1, FindingsFound DEF ListsInv, Base
  <2>3. Offered' = todo'
    BY <1>1, <2>2 DEF Offered, ProposalsOf
  <2>4. DOMAIN renamed' = {}
    BY <1>1
  <2> QED
    BY <2>3, <2>4 DEF Renaming
<1>18. Inputs' /\ (round' = 2 => Loads(config', settings'))
  BY <1>1 DEF AdoptInv, Inputs, Worded
<1> QED
  BY <1>16, <1>17, <1>18 DEF AdoptInv

LEMMA PasteableAdopt == ASSUME Sluggable PROVE ListsInv /\ AdoptInv /\ Adopt => AdoptInv'
<1> SUFFICES ASSUME ListsInv, AdoptInv, Adopt PROVE AdoptInv'
  OBVIOUS
<1>1. /\ phase = "done" /\ phase' = "load" /\ config' = config \o file /\ round' = 2
      /\ network' = network /\ settings' = settings
  BY DEF Adopt
<1>2. MonitorList(config) /\ MonitorList(file)
  BY DEF ListsInv, Listed
<1>3. Loads(config, settings)
  BY <1>1 DEF ListsInv, Base
<1>4. /\ Worded(file) /\ UniqueNames(file) /\ Apart(config, file)
      /\ \A m \in Range(file) : Good(m, settings) /\ Anchored(m, config, file)
  BY <1>1 DEF AdoptInv, Pasteable
<1>5. UniqueNames(config \o file)
  <2>1. UniqueNames(config)
    BY <1>3 DEF Loads
  <2> QED
    BY <1>2, <1>4, <2>1, UniqueJoined
<1>6. \A m \in Range(config) \union Range(file) : IsList(m.name)
  BY <1>4 DEF AdoptInv, Inputs, Worded
<1>7. Loads(config \o file, settings)
  BY <1>2, <1>3, <1>4, <1>5, <1>6, LoadsTogether
<1>8. Worded(config')
  <2>1. Range(config \o file) = Range(config) \union Range(file)
    BY <1>2, MonitorsJoined
  <2> QED
    BY <1>1, <1>6, <2>1 DEF Worded
<1>9. Inputs'
  BY <1>1, <1>8 DEF AdoptInv, Inputs
<1>10. Pasteable' /\ Renaming'
  BY <1>1 DEF Pasteable, Renaming
<1> QED
  BY <1>1, <1>7, <1>9, <1>10 DEF AdoptInv

LEMMA AdoptInvariance ==
  ASSUME Sluggable
  PROVE  ProposalsSpec => []AdoptInv
<1>1. ProposalsInit => AdoptInv
  <2> SUFFICES ASSUME ProposalsInit PROVE AdoptInv
    OBVIOUS
  <2>1. PICK s \in Situations : config = s.config /\ settings = s.settings /\ network = s.network
    BY DEF ProposalsInit
  <2>2. Inputs
    BY <2>1, ProposalsAssumption DEF Inputs, Worded
  <2> QED
    BY <2>2 DEF ProposalsInit, AdoptInv, Pasteable, Renaming
<1>2. ListsInv /\ AdoptInv /\ [ProposalsNext]_proposalVars => AdoptInv'
  <2> SUFFICES ASSUME ListsInv, AdoptInv, [ProposalsNext]_proposalVars PROVE AdoptInv'
    OBVIOUS
  <2>2. CASE FailOnInvalid
    <3>1. /\ phase' = "failed" /\ round' = round /\ settings' = settings /\ config' = config
      BY <2>2 DEF FailOnInvalid, asked
    <3>2. Inputs' /\ Pasteable' /\ Renaming'
      BY <3>1 DEF AdoptInv, Inputs, Pasteable, Worded, Renaming
    <3> QED
      BY <3>1, <3>2 DEF AdoptInv
  <2>1. CASE UNCHANGED proposalVars
    <3>1. /\ phase' = phase /\ round' = round /\ host' = host /\ network' = network /\ settings' = settings
          /\ config' = config /\ findings' = findings /\ file' = file
          /\ keep' = keep /\ todo' = todo /\ renamed' = renamed
      BY <2>1 DEF proposalVars, asked
    <3>2. Inputs' /\ Pasteable'
      BY <3>1 DEF AdoptInv, Inputs, Pasteable, Worded
    <3>3. Renaming'
      BY <3>1 DEF AdoptInv, Renaming, Offered, Firm
    <3> QED
      BY <3>1, <3>2, <3>3 DEF AdoptInv
  <2> QED
    BY <2>1, <2>2, PasteableLoad, PasteableSkip, PasteableKeep, PasteableNextHost, PasteableAdopt DEF ProposalsNext
<1> QED
  BY <1>1, <1>2, ListsInvariance, PTL DEF ProposalsSpec

\* However much the hosts of a network look alike, whatever they report and whatever was
\* configured, with the proposals pasted into it the configuration loads: every monitor
\* names its part and fits the patterns, every name has a slug of its own,
\* every credential is one its monitor accepts, every depends_on is known, and there is no
\* cycle. (discovery.render, Config.load)
THEOREM AdoptionLoads ==
  ASSUME Sluggable
  PROVE  ProposalsSpec => []AdoptedLoads
<1>1. ListsInv /\ AdoptInv => AdoptedLoads
  BY DEF ListsInv, Base, AdoptInv, AdoptedLoads
<1> QED
  BY <1>1, ListsInvariance, AdoptInvariance, PTL
=============================================================================
