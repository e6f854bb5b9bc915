----------------------------- MODULE Rollup_proofs -----------------------------
(***************************************************************************)
(* What the rollup computes, for every acyclic graph of any number of      *)
(* monitors: who is behind an outage, who is named for it, and what a      *)
(* group shows.  The definitions are recursive, so the proofs are by       *)
(* induction, along the configured order or over an interval; an induction *)
(* is stated about a set, the monitors or numbers a fact holds for.        *)
(***************************************************************************)
EXTENDS Rollup, SequenceTheorems, FiniteSetTheorems, WellFoundedInduction, TLAPS

-----------------------------------------------------------------------------
(* Induction *)

\* Every set of naturals that is not empty has a least element.
LEMMA Least ==
  ASSUME NEW T \in SUBSET Nat, T # {}
  PROVE  \E x \in T : \A y \in T : x <= y
<1> DEFINE R == {ss \in Nat \X Nat : ss[1] < ss[2]}
<1>1. IsWellFoundedOn(R, Nat)
  BY NatLessThanWellFounded DEF OpToRel
<1> HIDE DEF R
<1>2. PICK x \in T : \A y \in T : <<y, x>> \notin R
  BY <1>1, WFMin
<1>3. \A y \in T : ~(y < x)
  BY <1>2 DEF R
<1> QED
  BY <1>3

\* A set that has a number if it has all smaller ones has them all.
LEMMA UpTo ==
  ASSUME NEW N \in Nat, NEW S,
         \A n \in 0..N : (\A k \in 0..(n - 1) : k \in S) => n \in S
  PROVE  0..N \subseteq S
<1> DEFINE T == {n \in 0..N : n \notin S}
<1> SUFFICES ASSUME T # {} PROVE FALSE
  OBVIOUS
<1>1. PICK n \in T : \A k \in T : n <= k
  <2>1. T \in SUBSET Nat
    OBVIOUS
  <2> HIDE DEF T
  <2> QED
    BY <2>1, Least
<1>2. \A k \in 0..(n - 1) : k \in S
  BY <1>1
<1> QED
  BY <1>1, <1>2

-----------------------------------------------------------------------------
(* The graph *)

\* Every parent comes before its child in the configured order.
Acyclic(p) ==
  /\ p \in [Monitors -> Seq(Monitors)]
  /\ \A i \in 1..Len(Order) : \A q \in Range(p[Order[i]]) : \E j \in 1..(i - 1) : q = Order[j]

LEMMA OrderFacts ==
  /\ Len(Order) \in Nat
  /\ \A i \in 1..Len(Order) : Order[i] \in Monitors
  /\ \A m \in Monitors : \E i \in 1..Len(Order) : m = Order[i]
BY RollupAssumption, LenProperties DEF Monitors, Range

\* What the configuration admits is acyclic.
LEMMA ConfiguredIsAcyclic ==
  ASSUME NEW p \in Configured
  PROVE  Acyclic(p)
<1> DEFINE before(i) == {Order[j] : j \in 1..(i - 1)}
           lists(i)  == UNION {SetToSeqs(P) : P \in SUBSET before(i)}
<1>1. ASSUME NEW i \in 1..Len(Order), NEW s \in lists(i)
      PROVE  s \in Seq(Monitors) /\ Range(s) \subseteq before(i)
  <2>1. PICK P \in SUBSET before(i) : s \in SetToSeqs(P)
    OBVIOUS
  <2>2. before(i) \subseteq Monitors
    BY OrderFacts
  <2>3. IsFiniteSet(before(i))
    <3> DEFINE f == [j \in 1..(i - 1) |-> Order[j]]
    <3>1. f \in Surjection(1..(i - 1), before(i))
      BY DEF Surjection
    <3>2. IsFiniteSet(1..(i - 1))
      BY OrderFacts, FS_Interval
    <3> HIDE DEF f
    <3> QED
      BY <3>1, <3>2, FS_Surjection
  <2>4. Cardinality(P) \in Nat
    BY <2>1, <2>3, FS_Subset, FS_CardinalityType
  <2>5. s \in [1..Cardinality(P) -> P]
    BY <2>1 DEF SetToSeqs
  <2>6. s \in Seq(P)
    BY <2>4, <2>5, SeqDef
  <2> QED
    BY <2>1, <2>2, <2>5, <2>6, SeqMonotonic DEF Range
<1>2. \A i \in 1..Len(Order) : p[Order[i]] \in lists(i)
  BY DEF Configured
<1>3. DOMAIN p = Monitors /\ p = [m \in Monitors |-> p[m]]
  BY DEF Configured
<1>4. \A i \in 1..Len(Order) : p[Order[i]] \in Seq(Monitors) /\ Range(p[Order[i]]) \subseteq before(i)
  BY <1>1, <1>2
<1>5. p \in [Monitors -> Seq(Monitors)]
  BY <1>3, <1>4, OrderFacts
<1> QED
  BY <1>4, <1>5 DEF Acyclic

LEMMA ParentsAreMonitors ==
  ASSUME NEW p, Acyclic(p), NEW m \in Monitors
  PROVE  p[m] \in Seq(Monitors) /\ \A q \in Range(p[m]) : q \in Monitors
<1>1. p[m] \in Seq(Monitors)
  BY DEF Acyclic
<1>2. DOMAIN p[m] = 1..Len(p[m]) /\ \A i \in 1..Len(p[m]) : p[m][i] \in Monitors
  BY <1>1, LenProperties, ElementOfSeq
<1> QED
  BY <1>1, <1>2 DEF Range

\* Induction from the parents to their children.
LEMMA Descend ==
  ASSUME NEW p, Acyclic(p), NEW S,
         \A m \in Monitors : Range(p[m]) \subseteq S => m \in S
  PROVE  Monitors \subseteq S
<1> DEFINE I == {i \in Nat : i \in 1..Len(Order) => Order[i] \in S}
<1>1. ASSUME NEW n \in 0..Len(Order), \A k \in 0..(n - 1) : k \in I
      PROVE  n \in I
  <2> SUFFICES ASSUME n \in 1..Len(Order) PROVE Order[n] \in S
    OBVIOUS
  <2>1. \A j \in 1..(n - 1) : Order[j] \in S
    BY <1>1
  <2>2. Range(p[Order[n]]) \subseteq S
    <3> SUFFICES ASSUME NEW q \in Range(p[Order[n]]) PROVE q \in S
      OBVIOUS
    <3>1. PICK j \in 1..(n - 1) : q = Order[j]
      BY DEF Acyclic
    <3> QED
      BY <2>1, <3>1
  <2> QED
    BY <2>2, OrderFacts
<1>2. 0..Len(Order) \subseteq I
  <2> HIDE DEF I
  <2> QED
    BY <1>1, OrderFacts, UpTo
<1> QED
  BY <1>2, OrderFacts

-----------------------------------------------------------------------------
(* The blocking parent *)

\* The positions of the parents that block, and the first of them.
Blocking(ps, s, up) == {i \in 1..Len(ps) : Blocks(ps[i], s, up)}

First(ps, s, up) == IF Blocking(ps, s, up) # {} THEN Min(Blocking(ps, s, up)) ELSE 0

LEMMA BlockerByFirst ==
  ASSUME NEW ps, NEW s, NEW up
  PROVE  Blocker(ps, s, up) =
           IF First(ps, s, up) = 0 THEN None
           ELSE IF up[ps[First(ps, s, up)]] # None THEN up[ps[First(ps, s, up)]]
                ELSE ps[First(ps, s, up)]
BY DEF Blocker, SelectInSeq, First, Blocking

\* The first parent that answers is one that blocks; there is one unless none does.
LEMMA FirstBlocking ==
  ASSUME NEW ps \in Seq(Monitors), NEW s, NEW up
  PROVE  \/ First(ps, s, up) = 0 /\ \A q \in Range(ps) : ~Blocks(q, s, up)
         \/ /\ First(ps, s, up) \in 1..Len(ps)
            /\ Blocks(ps[First(ps, s, up)], s, up)
<1> DEFINE I == Blocking(ps, s, up)
<1>1. Len(ps) \in Nat /\ DOMAIN ps = 1..Len(ps)
  BY LenProperties
<1>2. CASE I = {}
  BY <1>1, <1>2 DEF Range, First, Blocking
<1>3. CASE I # {}
  <2>1. \E x \in I : \A y \in I : x <= y
    <3>1. I \in SUBSET Nat
      BY <1>1 DEF Blocking
    <3> HIDE DEF I
    <3> QED
      BY <1>3, <3>1, Least
  <2>2. Min(I) \in I
    BY <2>1 DEF Min
  <2> QED
    BY <1>3, <2>2 DEF First, Blocking
<1> QED
  BY <1>2, <1>3

\* What the loop over the parents returns, in terms of what blocks each of them.
LEMMA BlockerValue ==
  ASSUME NEW ps \in Seq(Monitors), NEW s, NEW up
  PROVE  \/ Blocker(ps, s, up) = None /\ \A q \in Range(ps) : ~Blocks(q, s, up)
         \/ \E q \in Range(ps) : /\ Blocks(q, s, up)
                                 /\ Blocker(ps, s, up) = IF up[q] # None THEN up[q] ELSE q
<1>1. Len(ps) \in Nat /\ \A k \in 1..Len(ps) : ps[k] \in Range(ps)
  BY LenProperties DEF Range
<1> QED
  BY <1>1, FirstBlocking, BlockerByFirst

\* It depends on nothing but the parents' own answers.
LEMMA BlockerLocal ==
  ASSUME NEW ps \in Seq(Monitors), NEW s, NEW f, NEW g, \A q \in Range(ps) : f[q] = g[q]
  PROVE  Blocker(ps, s, f) = Blocker(ps, s, g)
<1>1. \A k \in 1..Len(ps) : f[ps[k]] = g[ps[k]]
  BY LenProperties DEF Range
<1>2. Blocking(ps, s, f) = Blocking(ps, s, g)
  BY <1>1 DEF Blocking, Blocks
<1>3. First(ps, s, f) = First(ps, s, g)
  BY <1>2 DEF First
<1>4. First(ps, s, f) = 0 \/ First(ps, s, f) \in 1..Len(ps)
  BY FirstBlocking
<1> QED
  BY <1>1, <1>3, <1>4, BlockerByFirst

\* f answers for the first n monitors as the recursion says.
Values == Monitors \union {None}

Solves(f, n, p, s) ==
  /\ f \in [Monitors -> Values]
  /\ \A i \in 1..n : f[Order[i]] = Blocker(p[Order[i]], s, f)

\* Answers for n - 1 monitors extend to the next one.
LEMMA SolveNext ==
  ASSUME NEW p, Acyclic(p), NEW s, NEW n \in 1..Len(Order), NEW f, Solves(f, n - 1, p, s)
  PROVE  \E g : Solves(g, n, p, s)
<1> DEFINE b == Blocker(p[Order[n]], s, f)
           g == [f EXCEPT ![Order[n]] = b]
<1>1. f \in [Monitors -> Values]
  BY DEF Solves
<1>2. /\ Len(Order) \in Nat
      /\ \A i \in 1..Len(Order) : Order[i] \in Monitors /\ p[Order[i]] \in Seq(Monitors)
      /\ \A i \in 1..Len(Order) : \A q \in Range(p[Order[i]]) :
           \E j \in 1..(i - 1) : q = Order[j] /\ q \in Monitors
  <2>1. \A i \in 1..Len(Order) : Order[i] \in Monitors /\ p[Order[i]] \in Seq(Monitors)
    BY OrderFacts DEF Acyclic
  <2> QED
    BY <2>1, OrderFacts, ParentsAreMonitors DEF Acyclic
<1>3. b \in Values
  <2>1. \A q \in Range(p[Order[n]]) : q \in Monitors
    BY <1>2
  <2>2. p[Order[n]] \in Seq(Monitors)
    BY <1>2
  <2>3. b = None \/ \E q \in Range(p[Order[n]]) : b = IF f[q] # None THEN f[q] ELSE q
    BY <2>2, BlockerValue
  <2>4. \A q \in Range(p[Order[n]]) : f[q] \in Values /\ q \in Values
    BY <1>1, <2>1 DEF Values
  <2> HIDE DEF b
  <2> QED
    BY <2>3, <2>4 DEF Values
<1>4. g \in [Monitors -> Values]
  BY <1>1, <1>3
<1>5. /\ g[Order[n]] = b
      /\ \A m \in Monitors : m # Order[n] => g[m] = f[m]
  BY <1>1, <1>2
<1> HIDE DEF g, b
<1>6. ASSUME NEW i \in 1..n
      PROVE  g[Order[i]] = Blocker(p[Order[i]], s, g)
  <2>1. i \in 1..Len(Order) /\ (i # n => i \in 1..(n - 1))
    BY <1>2
  <2>2. \A q \in Range(p[Order[i]]) : f[q] = g[q]
    <3> TAKE q \in Range(p[Order[i]])
    <3>1. PICK j \in 1..(i - 1) : q = Order[j] /\ q \in Monitors
      BY <1>2, <2>1
    <3>2. j \in 1..Len(Order) /\ j # n
      BY <1>2, <2>1
    <3>3. q # Order[n]
      BY <3>1, <3>2, RollupAssumption
    <3> QED
      BY <1>5, <3>1, <3>3
  <2>3. Blocker(p[Order[i]], s, f) = Blocker(p[Order[i]], s, g)
    BY <1>2, <2>1, <2>2, BlockerLocal
  <2>4. g[Order[i]] = Blocker(p[Order[i]], s, f)
    <3>1. CASE i = n
      BY <1>5, <3>1 DEF b
    <3>2. CASE i # n
      <4>1. Order[i] # Order[n] /\ Order[i] \in Monitors
        BY <1>2, <2>1, <3>2, RollupAssumption
      <4>2. f[Order[i]] = Blocker(p[Order[i]], s, f)
        BY <2>1, <3>2 DEF Solves
      <4> QED
        BY <1>5, <4>1, <4>2
    <3> QED
      BY <3>1, <3>2
  <2> QED
    BY <2>3, <2>4
<1> QED
  BY <1>4, <1>6 DEF Solves

\* The recursion has a solution on an acyclic graph, so its equation holds.
LEMMA UpstreamEquation ==
  ASSUME NEW p, Acyclic(p), NEW s
  PROVE  LET up == Upstream(p, s)
         IN  up = [m \in Monitors |-> Blocker(p[m], s, up)]
<1> DEFINE Solved == {n \in 0..Len(Order) : \E f : Solves(f, n, p, s)}
<1>1. ASSUME NEW n \in 0..Len(Order), \A k \in 0..(n - 1) : k \in Solved
      PROVE  n \in Solved
  <2>1. CASE n = 0
    <3>1. [m \in Monitors |-> None] \in [Monitors -> Values]
      BY DEF Values
    <3>2. Solves([m \in Monitors |-> None], 0, p, s)
      BY <3>1 DEF Solves
    <3> QED
      BY <2>1, <3>2
  <2>2. CASE n # 0
    <3>1. n - 1 \in 0..(n - 1) /\ n \in 1..Len(Order)
      BY <2>2, OrderFacts
    <3>2. n - 1 \in Solved
      BY <1>1, <3>1
    <3>3. PICK f : Solves(f, n - 1, p, s)
      BY <3>2
    <3> QED
      BY <3>1, <3>3, SolveNext
  <2> QED
    BY <2>1, <2>2
<1>2. Len(Order) \in Solved
  <2>1. 0..Len(Order) \subseteq Solved
    <3> HIDE DEF Solved
    <3> QED
      BY <1>1, OrderFacts, UpTo
  <2> QED
    BY <2>1, OrderFacts
<1>3. PICK f : Solves(f, Len(Order), p, s)
  BY <1>2
<1>4. f = [m \in Monitors |-> Blocker(p[m], s, f)]
  BY <1>3, OrderFacts DEF Solves
<1>5. Upstream(p, s) = CHOOSE up : up = [m \in Monitors |-> Blocker(p[m], s, up)]
  <2>1. DOMAIN p = Monitors
    BY DEF Acyclic
  <2> QED
    BY <2>1 DEF Upstream
<1> QED
  BY <1>4, <1>5

\* Parent q makes its child unreachable.
Passes(q, p, s) == s[q] = "down" \/ (BlockingParent(p, s, q) # None /\ s[q] # "up")

\* A monitor is blocked exactly if some parent passes an outage on to it, and then by
\* what blocks that parent, or by the parent.
LEMMA BlockedByParent ==
  ASSUME NEW p, Acyclic(p), NEW s, NEW m \in Monitors
  PROVE  /\ BlockingParent(p, s, m) # None <=> \E q \in Range(p[m]) : Passes(q, p, s)
         /\ BlockingParent(p, s, m) # None =>
              \E q \in Range(p[m]) :
                /\ Passes(q, p, s)
                /\ BlockingParent(p, s, m) = IF BlockingParent(p, s, q) # None
                                             THEN BlockingParent(p, s, q) ELSE q
<1> DEFINE up == Upstream(p, s)
<1>1. \A x \in Monitors : BlockingParent(p, s, x) = up[x]
  BY UpstreamEquation DEF BlockingParent
<1>2. p[m] \in Seq(Monitors) /\ \A q \in Range(p[m]) : q \in Monitors
  BY ParentsAreMonitors
<1>3. \A q \in Range(p[m]) : Blocks(q, s, up) <=> Passes(q, p, s)
  BY <1>1, <1>2 DEF Blocks, Passes
<1>4. \/ Blocker(p[m], s, up) = None /\ \A q \in Range(p[m]) : ~Blocks(q, s, up)
      \/ \E q \in Range(p[m]) : /\ Blocks(q, s, up)
                                /\ Blocker(p[m], s, up) = IF up[q] # None THEN up[q] ELSE q
  BY <1>2, BlockerValue
<1>5. BlockingParent(p, s, m) = Blocker(p[m], s, up)
  BY DEF BlockingParent
<1>6. \A q \in Range(p[m]) : up[q] = BlockingParent(p, s, q) /\ q # None
  BY <1>1, <1>2, RollupAssumption
<1> HIDE DEF up
<1> QED
  BY <1>3, <1>4, <1>5, <1>6

-----------------------------------------------------------------------------
(* Chains of an outage *)

\* c is a chain of n monitors, none UP, from a parent of m to a DOWN one.
Path(m, n, c, p, s) ==
  /\ c \in [1..n -> Monitors]
  /\ c[1] \in Range(p[m])
  /\ \A i \in 1..(n - 1) : c[i + 1] \in Range(p[c[i]])
  /\ \A i \in 1..n : s[c[i]] # "up"
  /\ s[c[n]] = "down"

\* A monitor that is blocked has a chain, and it is shorter than its position.
LEMMA PathOfBlocked ==
  ASSUME NEW p, Acyclic(p), NEW s, NEW i \in 1..Len(Order),
         BlockingParent(p, s, Order[i]) # None
  PROVE  \E n \in 1..(i - 1) : \E c : Path(Order[i], n, c, p, s)
<1> DEFINE S == {m \in Monitors :
                   \A k \in 1..Len(Order) :
                     m = Order[k] /\ BlockingParent(p, s, m) # None =>
                       \E n \in 1..(k - 1) : \E c : Path(m, n, c, p, s)}
<1>1. ASSUME NEW m \in Monitors, Range(p[m]) \subseteq S
      PROVE  m \in S
  <2> SUFFICES ASSUME NEW k \in 1..Len(Order), m = Order[k], BlockingParent(p, s, m) # None
               PROVE  \E n \in 1..(k - 1) : \E c : Path(m, n, c, p, s)
    OBVIOUS
  <2>1. PICK q \in Range(p[m]) : Passes(q, p, s)
    BY BlockedByParent
  <2>2. PICK j \in 1..(k - 1) : q = Order[j]
    BY DEF Acyclic
  <2>3. j \in 1..Len(Order) /\ q \in Monitors /\ k \in Nat /\ j \in Nat /\ j < k
    BY OrderFacts, <2>2
  <2>4. CASE s[q] = "down"
    <3> DEFINE c == [x \in 1..1 |-> q]
    <3>1. Path(m, 1, c, p, s)
      BY <2>3, <2>4 DEF Path
    <3>2. 1 \in 1..(k - 1)
      BY <2>2, <2>3
    <3> QED
      BY <3>1, <3>2
  <2>5. CASE BlockingParent(p, s, q) # None /\ s[q] # "up"
    <3>1. PICK n \in 1..(j - 1) : \E c : Path(q, n, c, p, s)
      BY <1>1, <2>2, <2>3, <2>5
    <3>2. PICK c : Path(q, n, c, p, s)
      BY <3>1
    <3> DEFINE d == [x \in 1..(n + 1) |-> IF x = 1 THEN q ELSE c[x - 1]]
    <3>3. n \in Nat /\ n >= 1 /\ n + 1 \in 1..(k - 1)
      BY <2>3
    <3>4. /\ d[1] = q /\ \A x \in 1..n : d[x + 1] = c[x]
          /\ \A x \in 2..(n + 1) : d[x] = c[x - 1]
      BY <3>3
    <3>5. d \in [1..(n + 1) -> Monitors]
      <4>1. \A x \in 2..(n + 1) : c[x - 1] \in Monitors
        BY <3>2, <3>3 DEF Path
      <4> QED
        BY <2>3, <3>3, <4>1
    <3> HIDE DEF d
    <3>6. \A x \in 1..n : d[x + 1] \in Range(p[d[x]])
      <4> TAKE x \in 1..n
      <4>1. CASE x = 1
        BY <3>2, <3>3, <3>4, <4>1 DEF Path
      <4>2. CASE x # 1
        <5>1. x - 1 \in 1..(n - 1) /\ (x - 1) + 1 = x
          BY <3>3, <4>2
        <5>2. c[x] \in Range(p[c[x - 1]])
          BY <3>2, <5>1 DEF Path
        <5>3. d[x] = c[x - 1] /\ d[x + 1] = c[x]
          BY <3>3, <3>4, <4>2
        <5> QED
          BY <5>2, <5>3
      <4> QED
        BY <4>1, <4>2
    <3>7. \A x \in 1..(n + 1) : s[d[x]] # "up"
      <4> TAKE x \in 1..(n + 1)
      <4>1. CASE x = 1
        BY <2>5, <3>4, <4>1
      <4>2. CASE x # 1
        <5>1. x - 1 \in 1..n /\ d[x] = c[x - 1]
          BY <3>3, <3>4, <4>2
        <5> QED
          BY <3>2, <5>1 DEF Path
      <4> QED
        BY <4>1, <4>2
    <3>8. s[d[n + 1]] = "down"
      BY <3>2, <3>3, <3>4 DEF Path
    <3>9. Path(m, n + 1, d, p, s)
      BY <3>3, <3>4, <3>5, <3>6, <3>7, <3>8 DEF Path
    <3> QED
      BY <3>3, <3>9
  <2> QED
    BY <2>1, <2>4, <2>5 DEF Passes
<1>2. Monitors \subseteq S
  <2> HIDE DEF S
  <2> QED
    BY <1>1, Descend
<1> QED
  BY <1>2, OrderFacts

\* Whatever the length of a chain, the outage at its end comes down along it.
LEMMA PathBlocks ==
  ASSUME NEW p, Acyclic(p), NEW s, NEW m \in Monitors,
         NEW n \in Nat \ {0}, NEW c, Path(m, n, c, p, s)
  PROVE  BlockingParent(p, s, m) # None
<1> DEFINE S == {k \in Nat : k \in 0..(n - 1) => Passes(c[n - k], p, s)}
<1>1. ASSUME NEW k \in 0..(n - 1), \A l \in 0..(k - 1) : l \in S
      PROVE  k \in S
  <2>1. CASE k = 0
    BY <2>1 DEF Path, Passes
  <2>2. CASE k # 0
    <3>1. /\ k - 1 \in 0..(k - 1) /\ k - 1 \in 0..(n - 1)
          /\ n - k \in 1..(n - 1) /\ n - (k - 1) = (n - k) + 1 /\ n - k \in 1..n
      BY <2>2
    <3>2. Passes(c[(n - k) + 1], p, s)
      <4>1. k - 1 \in S
        BY <1>1, <3>1
      <4> QED
        BY <3>1, <4>1
    <3>3. c[(n - k) + 1] \in Range(p[c[n - k]]) /\ c[n - k] \in Monitors /\ s[c[n - k]] # "up"
      BY <3>1 DEF Path
    <3>4. BlockingParent(p, s, c[n - k]) # None
      BY <3>2, <3>3, BlockedByParent
    <3> QED
      BY <3>3, <3>4 DEF Passes
  <2> QED
    BY <2>1, <2>2
<1>2. 0..(n - 1) \subseteq S
  <2> HIDE DEF S
  <2> QED
    BY <1>1, UpTo
<1>3. Passes(c[1], p, s)
  <2>1. n - 1 \in 0..(n - 1) /\ n - (n - 1) = 1
    OBVIOUS
  <2> QED
    BY <1>2, <2>1
<1> QED
  BY <1>3, BlockedByParent DEF Path

\* The chains of the property are these paths.
LEMMA ChainIsPath ==
  ASSUME NEW m, NEW n \in Nat \ {0}, NEW c \in [1..n -> Monitors]
  PROVE  OutageChain(m, c) <=> Path(m, n, c, parents, st)
<1>1. c \in Seq(Monitors)
  BY SeqDef
<1>2. Len(c) \in Nat /\ DOMAIN c = 1..Len(c) /\ DOMAIN c = 1..n
  BY <1>1, LenProperties
<1>3. Len(c) = n
  BY <1>2
<1> QED
  BY <1>3 DEF OutageChain, Path

LEMMA BlockedIffChain ==
  ASSUME Acyclic(parents)
  PROVE  BlockedIffOutageChain
<1> SUFFICES ASSUME NEW m \in Monitors
             PROVE  BlockingParent(parents, st, m) # None <=> \E c \in Chains : OutageChain(m, c)
  BY DEF BlockedIffOutageChain
<1>1. ASSUME BlockingParent(parents, st, m) # None
      PROVE  \E c \in Chains : OutageChain(m, c)
  <2>1. PICK i \in 1..Len(Order) : m = Order[i]
    BY OrderFacts
  <2>2. PICK n \in 1..(i - 1) : \E c : Path(m, n, c, parents, st)
    BY <1>1, <2>1, PathOfBlocked
  <2>3. PICK c : Path(m, n, c, parents, st)
    BY <2>2
  <2>4. n \in 1..(Len(Order) - 1) /\ n \in Nat \ {0} /\ c \in [1..n -> Monitors]
    BY <2>3, OrderFacts DEF Path
  <2> QED
    BY <2>3, <2>4, ChainIsPath DEF Chains
<1>2. ASSUME NEW c \in Chains, OutageChain(m, c)
      PROVE  BlockingParent(parents, st, m) # None
  <2>1. PICK n \in 1..(Len(Order) - 1) : c \in [1..n -> Monitors]
    BY DEF Chains
  <2>2. n \in Nat \ {0}
    BY OrderFacts
  <2> QED
    BY <1>2, <2>1, <2>2, ChainIsPath, PathBlocks
<1> QED
  BY <1>1, <1>2

-----------------------------------------------------------------------------
(* Root causes *)

\* Closed under one more dependency.
Closed(R, p) ==
  \A z \in Monitors : \A q \in Range(p[z]) :
    <<z, q>> \in R /\ \A w \in Monitors : <<q, w>> \in R => <<z, w>> \in R

\* What can be reached over depends_on, as a least fixed point.
Reach(p, x) ==
  {y \in Monitors : \A R \in SUBSET (Monitors \X Monitors) : Closed(R, p) => <<x, y>> \in R}

LEMMA ReachEquation ==
  ASSUME NEW p, Acyclic(p), NEW x \in Monitors
  PROVE  Reach(p, x) = Range(p[x]) \union UNION {Reach(p, q) : q \in Range(p[x])}
<1>1. \A z \in Monitors : \A q \in Range(p[z]) : q \in Monitors
  BY ParentsAreMonitors
<1>2. \A z, y : y \in Reach(p, z) <=>
                  /\ y \in Monitors
                  /\ \A R \in SUBSET (Monitors \X Monitors) : Closed(R, p) => <<z, y>> \in R
  BY DEF Reach
<1> DEFINE Next1(z) == Range(p[z]) \union UNION {Reach(p, q) : q \in Range(p[z])}
<1>3. ASSUME NEW z \in Monitors
      PROVE  Next1(z) \subseteq Reach(p, z)
  <2>1. ASSUME NEW y \in Range(p[z])
        PROVE  y \in Reach(p, z)
    BY <1>1, <1>2 DEF Closed
  <2>2. ASSUME NEW q \in Range(p[z]), NEW y \in Reach(p, q)
        PROVE  y \in Reach(p, z)
    <3>1. q \in Monitors /\ y \in Monitors
      BY <1>1, <1>2
    <3> QED
      BY <1>2, <3>1 DEF Closed
  <2> QED
    BY <2>1, <2>2
<1>4. Reach(p, x) \subseteq Next1(x)
  <2> DEFINE R == {zw \in Monitors \X Monitors : zw[2] \in Next1(zw[1])}
  <2>1. ASSUME NEW z \in Monitors, NEW q \in Range(p[z])
        PROVE  <<z, q>> \in R
    BY <1>1
  <2>2. ASSUME NEW z \in Monitors, NEW q \in Range(p[z]), NEW w \in Monitors, <<q, w>> \in R
        PROVE  <<z, w>> \in R
    <3>1. q \in Monitors /\ w \in Next1(q)
      BY <1>1, <2>2
    <3>2. w \in Reach(p, q)
      BY <1>3, <3>1
    <3> QED
      BY <3>2
  <2>3. R \in SUBSET (Monitors \X Monitors) /\ Closed(R, p)
    <3>1. R \in SUBSET (Monitors \X Monitors)
      OBVIOUS
    <3> HIDE DEF R
    <3> QED
      BY <2>1, <2>2, <3>1 DEF Closed
  <2>4. \A y \in Reach(p, x) : <<x, y>> \in R
    <3> HIDE DEF R
    <3> QED
      BY <1>2, <2>3
  <2> QED
    BY <2>4
<1> QED
  BY <1>3, <1>4

\* The recursion over the ancestors has a solution, so its equation holds.
LEMMA AncestorsEquation ==
  ASSUME NEW p, Acyclic(p), NEW x \in Monitors
  PROVE  Ancestors(p, x) = Range(p[x]) \union UNION {Ancestors(p, q) : q \in Range(p[x])}
<1> DEFINE Equation(f) ==
             f = [z \in Monitors |-> Range(p[z]) \union UNION {f[q] : q \in Range(p[z])}]
           anc == CHOOSE f : Equation(f)
<1>1. \A z \in Monitors : \A q \in Range(p[z]) : q \in Monitors
  BY ParentsAreMonitors
<1>2. \E f : Equation(f)
  <2> DEFINE f == [z \in Monitors |-> Reach(p, z)]
  <2>1. \A z \in Monitors : f[z] = Range(p[z]) \union UNION {f[q] : q \in Range(p[z])}
    <3> TAKE z \in Monitors
    <3>1. {f[q] : q \in Range(p[z])} = {Reach(p, q) : q \in Range(p[z])}
      BY <1>1
    <3> QED
      BY <3>1, ReachEquation
  <2>2. f = [z \in Monitors |-> f[z]]
    OBVIOUS
  <2> HIDE DEF f
  <2>3. Equation(f)
    BY <2>1, <2>2
  <2> QED
    BY <2>3
<1>3. Equation(anc)
  BY <1>2
<1>4. \A z \in Monitors : Ancestors(p, z) = anc[z]
  <2>1. DOMAIN p = Monitors
    BY DEF Acyclic
  <2> QED
    BY <2>1 DEF Ancestors
<1>5. {Ancestors(p, q) : q \in Range(p[x])} = {anc[q] : q \in Range(p[x])}
  BY <1>1, <1>4
<1> HIDE DEF anc
<1>6. anc[x] = Range(p[x]) \union UNION {anc[q] : q \in Range(p[x])}
  BY <1>3
<1> QED
  BY <1>4, <1>5, <1>6

LEMMA RootCause ==
  ASSUME NEW p, Acyclic(p), NEW s, NEW m \in Monitors, BlockingParent(p, s, m) # None
  PROVE  /\ BlockingParent(p, s, m) \in Ancestors(p, m)
         /\ s[BlockingParent(p, s, m)] = "down"
         /\ BlockingParent(p, s, BlockingParent(p, s, m)) = None
<1> DEFINE Root(x) == LET b == BlockingParent(p, s, x)
                      IN  /\ b \in Ancestors(p, x) /\ s[b] = "down"
                          /\ BlockingParent(p, s, b) = None
           S == {x \in Monitors : BlockingParent(p, s, x) # None => Root(x)}
<1>1. ASSUME NEW x \in Monitors, Range(p[x]) \subseteq S, BlockingParent(p, s, x) # None
      PROVE  Root(x)
  <2>1. PICK q \in Range(p[x]) :
          /\ Passes(q, p, s)
          /\ BlockingParent(p, s, x) = IF BlockingParent(p, s, q) # None
                                       THEN BlockingParent(p, s, q) ELSE q
    BY <1>1, BlockedByParent
  <2>2. q \in Ancestors(p, x) /\ Ancestors(p, q) \subseteq Ancestors(p, x)
    BY AncestorsEquation
  <2>3. CASE BlockingParent(p, s, q) # None
    BY <1>1, <2>1, <2>2, <2>3
  <2>4. CASE BlockingParent(p, s, q) = None
    BY <2>1, <2>2, <2>4 DEF Passes
  <2> QED
    BY <2>3, <2>4
<1>2. Monitors \subseteq S
  <2>1. \A x \in Monitors : Range(p[x]) \subseteq S => x \in S
    BY <1>1
  <2> HIDE DEF S
  <2> QED
    BY <2>1, Descend
<1> QED
  BY <1>2

-----------------------------------------------------------------------------
(* Groups *)

\* t holds the first n turns of the loop over the monitors for group g.
Turn(g, t, i) == IF Group[Order[i]] = g THEN Tally(t[i - 1], Order[i]) ELSE t[i - 1]

Turns(g, t, n) ==
  /\ t = [i \in 0..Len(Order) |-> t[i]]
  /\ t[0] = [state |-> "up", worst |-> <<>>]
  /\ \A i \in 1..n : t[i] = Turn(g, t, i)

\* The loop has a result, so the recursion's equation holds.
LEMMA TalliedEquation ==
  ASSUME NEW g
  PROVE  Turns(g, Tallied(g), Len(Order))
<1> DEFINE N == Len(Order)
           S == {n \in 0..N : \E t : Turns(g, t, n)}
<1>1. ASSUME NEW n \in 0..N, \A k \in 0..(n - 1) : k \in S
      PROVE  n \in S
  <2>1. CASE n = 0
    <3> DEFINE t == [i \in 0..N |-> [state |-> "up", worst |-> <<>>]]
    <3>1. Turns(g, t, 0)
      BY OrderFacts DEF Turns
    <3> QED
      BY <2>1, <3>1
  <2>2. CASE n # 0
    <3>1. n - 1 \in 0..(n - 1) /\ n \in 1..N
      BY <2>2, OrderFacts
    <3>2. PICK t : Turns(g, t, n - 1)
      BY <1>1, <3>1
    <3> DEFINE u == [t EXCEPT ![n] = Turn(g, t, n)]
    <3>3. DOMAIN t = 0..N
      BY <3>2 DEF Turns
    <3>4. u = [i \in 0..N |-> u[i]] /\ u[n] = Turn(g, t, n) /\ \A i \in 0..N : i # n => u[i] = t[i]
      BY <3>1, <3>3
    <3> HIDE DEF u
    <3>5. u[0] = [state |-> "up", worst |-> <<>>]
      BY <3>1, <3>2, <3>4, OrderFacts DEF Turns
    <3>6. ASSUME NEW i \in 1..n
          PROVE  u[i] = Turn(g, u, i)
      <4>1. i - 1 \in 0..N /\ i - 1 # n /\ i \in 0..N
        BY <3>1, OrderFacts
      <4>2. Turn(g, u, i) = Turn(g, t, i)
        BY <3>4, <4>1 DEF Turn
      <4>3. CASE i = n
        BY <3>4, <4>2, <4>3
      <4>4. CASE i # n
        <5>1. i \in 1..(n - 1)
          BY <3>1, <4>4, OrderFacts
        <5> QED
          BY <3>2, <3>4, <4>1, <4>2, <4>4, <5>1 DEF Turns
      <4> QED
        BY <4>3, <4>4
    <3>7. Turns(g, u, n)
      BY <3>4, <3>5, <3>6 DEF Turns
    <3> QED
      BY <3>7
  <2> QED
    BY <2>1, <2>2
<1>2. N \in S
  <2>1. 0..N \subseteq S
    <3> HIDE DEF S
    <3> QED
      BY <1>1, OrderFacts, UpTo
  <2> QED
    BY <2>1, OrderFacts
<1> DEFINE Whole(f) ==
      f = [i \in 0..N |-> IF i = 0 THEN [state |-> "up", worst |-> <<>>] ELSE Turn(g, f, i)]
<1>3. Tallied(g) = CHOOSE f : Whole(f)
  BY DEF Tallied, Turn
<1>4. PICK t : Turns(g, t, N)
  BY <1>2
<1>5. t = [i \in 0..N |-> IF i = 0 THEN [state |-> "up", worst |-> <<>>] ELSE Turn(g, t, i)]
  <2>1. \A i \in 0..N : i # 0 => i \in 1..N
    BY OrderFacts
  <2> QED
    BY <1>4, <2>1 DEF Turns
<1>6. Whole(Tallied(g))
  <2>1. Whole(t)
    BY <1>5
  <2> HIDE DEF Whole
  <2> QED
    BY <1>3, <2>1
<1> DEFINE f == Tallied(g)
<1>7. /\ DOMAIN f = 0..N
      /\ \A i \in 0..N : f[i] = IF i = 0 THEN [state |-> "up", worst |-> <<>>] ELSE Turn(g, f, i)
  BY <1>6
<1>8. f = [i \in 0..N |-> f[i]]
  BY <1>6
<1>9. 0 \in 0..N /\ \A i \in 1..N : i \in 0..N /\ i # 0
  BY OrderFacts
<1> HIDE DEF f
<1> QED
  BY <1>7, <1>8, <1>9 DEF Turns

Shown == States \union {"unreachable"}

LEMMA CountedType ==
  ASSUME st \in [Monitors -> States], NEW m \in Monitors
  PROVE  Counted(m) \in Shown
BY DEF Counted, Effective, Shown, States

LEMMA SeverityFacts ==
  /\ \A x \in Shown : Severity[x] \in 0..4 /\ (Severity[x] = 0 <=> x = "up")
  /\ \A x, y \in Shown : Severity[x] = Severity[y] => x = y
  /\ Severity["up"] = 0 /\ "up" \in Shown
BY DEF Severity, Shown, States

LEMMA PositionFacts ==
  ASSUME NEW i \in 1..Len(Order)
  PROVE  Position(Order[i]) = i
BY RollupAssumption DEF Position

\* What the loop has after the first i monitors: the worst of the members among them.
Counts(g, i) == {m \in Monitors : Group[m] = g /\ Position(m) <= i}

TallySound(g, i, r) ==
  /\ r \in [state : Shown, worst : Seq(Monitors)]
  /\ \A m \in Counts(g, i) : Severity[Counted(m)] <= Severity[r.state]
  /\ r.state # "up" => \E m \in Counts(g, i) : Counted(m) = r.state
  /\ Range(r.worst) = IF r.state = "up" THEN {} ELSE {m \in Counts(g, i) : Counted(m) = r.state}
  /\ \A k, l \in 1..Len(r.worst) : k < l => Position(r.worst[k]) < Position(r.worst[l])

LEMMA AppendRange ==
  ASSUME NEW q \in Seq(Monitors), NEW m \in Monitors
  PROVE  /\ Append(q, m) \in Seq(Monitors) /\ Len(Append(q, m)) = Len(q) + 1 /\ Len(q) \in Nat
         /\ Range(Append(q, m)) = Range(q) \union {m}
         /\ \A k \in 1..Len(q) : Append(q, m)[k] = q[k] /\ q[k] \in Range(q)
         /\ Append(q, m)[Len(q) + 1] = m
<1>1. /\ Append(q, m) \in Seq(Monitors) /\ Len(Append(q, m)) = Len(q) + 1
      /\ \A k \in 1..Len(q) : Append(q, m)[k] = q[k]
      /\ Append(q, m)[Len(q) + 1] = m
  BY AppendProperties
<1>2. Len(q) \in Nat /\ DOMAIN q = 1..Len(q) /\ DOMAIN Append(q, m) = 1..(Len(q) + 1)
  BY <1>1, LenProperties
<1>3. 1..(Len(q) + 1) = 1..Len(q) \union {Len(q) + 1}
  BY <1>2
<1> HIDE DEF Range
<1>4. Range(Append(q, m)) = Range(q) \union {m}
  <2>1. Range(Append(q, m)) = {Append(q, m)[k] : k \in 1..(Len(q) + 1)}
    BY <1>2 DEF Range
  <2>2. Range(q) = {q[k] : k \in 1..Len(q)}
    BY <1>2 DEF Range
  <2> QED
    BY <1>1, <1>3, <2>1, <2>2
<1> QED
  BY <1>1, <1>2, <1>4 DEF Range

\* One turn of the loop.
LEMMA TurnSound ==
  ASSUME st \in [Monitors -> States], NEW g, NEW i \in 1..Len(Order),
         NEW r, TallySound(g, i - 1, r)
  PROVE  TallySound(g, i, IF Group[Order[i]] = g THEN Tally(r, Order[i]) ELSE r)
<1> DEFINE m == Order[i]
           old == Counts(g, i - 1)
           new == Counts(g, i)
<1>1. m \in Monitors /\ Position(m) = i /\ i \in Nat
  BY OrderFacts, PositionFacts
<1>2. \A x \in Monitors : Position(x) \in 1..Len(Order) /\ (Position(x) = i => x = m)
  BY OrderFacts, PositionFacts
<1>3. new = IF Group[m] = g THEN old \union {m} ELSE old
  <2>1. \A x \in Monitors : Position(x) <= i <=> Position(x) <= i - 1 \/ x = m
    BY <1>1, <1>2
  <2> HIDE DEF m
  <2> QED
    BY <1>1, <2>1 DEF Counts
<1>4. m \notin old /\ \A x \in old : x \in Monitors /\ Position(x) < i
  BY <1>1, <1>2 DEF Counts
<1>5. Counted(m) \in Shown /\ \A x \in old : Counted(x) \in Shown
  BY <1>1, <1>4, CountedType
<1>6. /\ r \in [state : Shown, worst : Seq(Monitors)]
      /\ \A x \in old : Severity[Counted(x)] <= Severity[r.state]
      /\ r.state # "up" => \E x \in old : Counted(x) = r.state
      /\ Range(r.worst) = IF r.state = "up" THEN {} ELSE {x \in old : Counted(x) = r.state}
      /\ \A k, l \in 1..Len(r.worst) : k < l => Position(r.worst[k]) < Position(r.worst[l])
  BY DEF TallySound
<1>7. /\ Severity[Counted(m)] \in Int /\ Severity[r.state] \in Int
      /\ \A x \in old : Severity[Counted(x)] \in Int
      /\ Severity[r.state] >= 0 /\ (Severity[Counted(m)] = 0 <=> Counted(m) = "up")
      /\ Severity[Counted(m)] = Severity[r.state] <=> Counted(m) = r.state
  BY <1>5, <1>6, SeverityFacts
<1> HIDE DEF m, old, new
<1>8. CASE Group[m] # g
  BY <1>3, <1>6, <1>8 DEF TallySound, m, new
<1>9. CASE Group[m] = g
  <2>1. new = old \union {m}
    BY <1>3, <1>9
  <2>2. CASE Severity[Counted(m)] > Severity[r.state]
    <3> DEFINE u == [state |-> Counted(m), worst |-> <<m>>]
    <3>1. Tally(r, m) = u
      BY <1>7, <2>2 DEF Tally
    <3>2. /\ u \in [state : Shown, worst : Seq(Monitors)]
          /\ u.state = Counted(m) /\ Len(u.worst) = 1
          /\ Range(u.worst) = {m}
      BY <1>1, <1>5 DEF Range
    <3>3. \A x \in new : Severity[Counted(x)] <= Severity[Counted(m)]
      BY <1>6, <1>7, <2>1, <2>2
    <3>4. Counted(m) # "up"
      BY <1>7, <2>2
    <3>5. {x \in new : Counted(x) = Counted(m)} = {m}
      <4>1. \A x \in old : Counted(x) # Counted(m)
        BY <1>6, <1>7, <2>2
      <4> QED
        BY <2>1, <4>1
    <3>6. \A k, l \in 1..Len(u.worst) : k < l => Position(u.worst[k]) < Position(u.worst[l])
      BY <3>2
    <3> HIDE DEF u
    <3>7. TallySound(g, i, u)
      BY <1>5, <2>1, <3>2, <3>3, <3>4, <3>5, <3>6 DEF TallySound, new
    <3> QED
      BY <1>9, <3>1, <3>7 DEF m
  <2>3. CASE Severity[Counted(m)] = Severity[r.state] /\ Counted(m) # "up"
    <3> DEFINE u == [r EXCEPT !.worst = Append(@, m)]
    <3>1. Tally(r, m) = u
      BY <1>7, <2>3 DEF Tally
    <3>2. /\ u \in [state : Shown, worst : Seq(Monitors)]
          /\ u.state = r.state /\ u.worst = Append(r.worst, m)
      BY <1>1, <1>6, AppendProperties
    <3>3. Counted(m) = r.state /\ r.state # "up"
      BY <1>7, <2>3
    <3>4. \A x \in new : Severity[Counted(x)] <= Severity[r.state]
      BY <1>6, <1>7, <2>1, <2>3
    <3>5. Range(r.worst) = {x \in old : Counted(x) = r.state}
      BY <1>6, <3>3
    <3>6. Range(u.worst) = {x \in new : Counted(x) = r.state}
      <4>1. Range(Append(r.worst, m)) = Range(r.worst) \union {m}
        BY <1>1, <1>6, AppendRange
      <4>2. {x \in new : Counted(x) = r.state} = {x \in old : Counted(x) = r.state} \union {m}
        BY <2>1, <3>3
      <4> HIDE DEF u
      <4> QED
        BY <3>2, <3>5, <4>1, <4>2
    <3>7. \A k, l \in 1..Len(u.worst) : k < l => Position(u.worst[k]) < Position(u.worst[l])
      <4>1. /\ Len(u.worst) = Len(r.worst) + 1 /\ Len(r.worst) \in Nat
            /\ \A k \in 1..Len(r.worst) : u.worst[k] = r.worst[k] /\ r.worst[k] \in Range(r.worst)
            /\ u.worst[Len(r.worst) + 1] = m
        <5> HIDE DEF u
        <5> QED
          BY <1>1, <1>6, <3>2, AppendRange
      <4>2. \A k \in 1..Len(r.worst) : Position(r.worst[k]) < i
        BY <1>4, <3>5, <4>1
      <4> TAKE k, l \in 1..Len(u.worst)
      <4> HAVE k < l
      <4>3. k \in 1..Len(r.worst) /\ (l \in 1..Len(r.worst) \/ l = Len(r.worst) + 1)
        <5> HIDE DEF u
        <5> QED
          BY <4>1
      <4> HIDE DEF u
      <4> QED
        BY <1>1, <1>6, <4>1, <4>2, <4>3
    <3>8. TallySound(g, i, u)
      <4> HIDE DEF u
      <4> QED
        BY <2>1, <3>2, <3>3, <3>4, <3>6, <3>7 DEF TallySound, new
    <3> QED
      BY <1>9, <3>1, <3>8 DEF m
  <2>4. CASE \/ Severity[Counted(m)] < Severity[r.state]
             \/ Counted(m) = "up" /\ ~(Severity[Counted(m)] > Severity[r.state])
    <3>1. Tally(r, m) = r
      BY <1>7, <2>4 DEF Tally
    <3>2. \A x \in new : Severity[Counted(x)] <= Severity[r.state]
      BY <1>6, <1>7, <2>1, <2>4
    <3>3. r.state # "up" => Counted(m) # r.state
      BY <1>7, <2>4
    <3>4. TallySound(g, i, r)
      BY <1>6, <2>1, <3>2, <3>3 DEF TallySound, new
    <3> QED
      BY <1>9, <3>1, <3>4 DEF m
  <2> QED
    BY <1>7, <2>2, <2>3, <2>4
<1> QED
  BY <1>8, <1>9

LEMMA ShowsWorst ==
  ASSUME st \in [Monitors -> States]
  PROVE  GroupShowsWorst
<1> SUFFICES ASSUME NEW g \in Range(Group)
             PROVE  LET members == {m \in Monitors : Group[m] = g}
                        worst   == Max({Severity[Counted(m)] : m \in members})
                        r       == GroupState(g)
                    IN  /\ Severity[r.state] = worst
                        /\ Range(r.worst) = IF worst = 0 THEN {}
                                            ELSE {m \in members : Severity[Counted(m)] = worst}
                        /\ \A i, j \in DOMAIN r.worst :
                             i < j => Position(r.worst[i]) < Position(r.worst[j])
  BY DEF GroupShowsWorst
<1> DEFINE members == {m \in Monitors : Group[m] = g}
           levels  == {Severity[Counted(m)] : m \in members}
           r       == GroupState(g)
           N       == Len(Order)
           t       == Tallied(g)
           S       == {i \in 0..N : TallySound(g, i, t[i])}
<1>1. ASSUME NEW i \in 0..N, \A k \in 0..(i - 1) : k \in S
      PROVE  TallySound(g, i, t[i])
  <2>1. CASE i = 0
    <3>1. t[0] = [state |-> "up", worst |-> <<>>]
      BY TalliedEquation DEF Turns
    <3>2. Counts(g, 0) = {}
      BY OrderFacts, PositionFacts DEF Counts
    <3>3. Range(<<>>) = {}
      BY DEF Range
    <3> HIDE DEF t
    <3>4. t[0] \in [state : Shown, worst : Seq(Monitors)] /\ t[0].state = "up" /\ t[0].worst = <<>>
      BY <3>1, SeverityFacts
    <3>5. TallySound(g, 0, t[0])
      BY <3>2, <3>3, <3>4, SeverityFacts DEF TallySound
    <3> QED
      BY <2>1, <3>5
  <2>2. CASE i # 0
    <3>1. i \in 1..N /\ i - 1 \in 0..(i - 1)
      BY <2>2, OrderFacts
    <3>2. TallySound(g, i - 1, t[i - 1])
      BY <1>1, <3>1
    <3>3. t[i] = Turn(g, t, i)
      BY <3>1, TalliedEquation DEF Turns
    <3> HIDE DEF t
    <3> QED
      BY <3>1, <3>2, <3>3, TurnSound DEF Turn
  <2> QED
    BY <2>1, <2>2
<1>2. TallySound(g, N, r)
  <2>1. 0..N \subseteq S
    <3>1. \A i \in 0..N : (\A k \in 0..(i - 1) : k \in S) => i \in S
      BY <1>1
    <3> HIDE DEF S
    <3> QED
      BY <3>1, OrderFacts, UpTo
  <2> QED
    BY <2>1, OrderFacts DEF GroupState
<1>3. Counts(g, N) = members
  BY OrderFacts, PositionFacts DEF Counts
<1> HIDE DEF r, t, S
<1>4. members # {}
  BY RollupAssumption DEF Range
<1>5. /\ r.state \in Shown /\ r.worst \in Seq(Monitors)
      /\ \A m \in members : Severity[Counted(m)] <= Severity[r.state]
      /\ r.state # "up" => \E m \in members : Counted(m) = r.state
      /\ Range(r.worst) = IF r.state = "up" THEN {} ELSE {m \in members : Counted(m) = r.state}
      /\ \A k, l \in 1..Len(r.worst) : k < l => Position(r.worst[k]) < Position(r.worst[l])
  BY <1>2, <1>3 DEF TallySound
<1>6. \A m \in members : Counted(m) \in Shown
  BY CountedType
<1>7. Severity[r.state] \in levels
  <2>1. CASE r.state = "up"
    <3>1. PICK m \in members : TRUE
      BY <1>4
    <3>2. Severity[Counted(m)] = 0
      BY <1>5, <1>6, <2>1, SeverityFacts
    <3> QED
      BY <2>1, <3>2, SeverityFacts
  <2>2. CASE r.state # "up"
    BY <1>5, <2>2
  <2> QED
    BY <2>1, <2>2
<1>8. Max(levels) = Severity[r.state]
  <2>1. \A x \in levels : x \in Int /\ x <= Severity[r.state]
    BY <1>5, <1>6, SeverityFacts
  <2>2. Severity[r.state] \in Int
    BY <1>5, SeverityFacts
  <2> HIDE DEF levels
  <2>3. Max(levels) \in levels /\ \A y \in levels : Max(levels) >= y
    <3>1. \E x \in levels : \A y \in levels : x >= y
      BY <1>7, <2>1, <2>2
    <3> QED
      BY <3>1 DEF Max
  <2> QED
    BY <1>7, <2>1, <2>2, <2>3
<1>9. Range(r.worst) = IF Severity[r.state] = 0 THEN {}
                       ELSE {m \in members : Severity[Counted(m)] = Severity[r.state]}
  <2>1. Severity[r.state] = 0 <=> r.state = "up"
    BY <1>5, SeverityFacts
  <2>2. \A m \in members : Severity[Counted(m)] = Severity[r.state] <=> Counted(m) = r.state
    BY <1>5, <1>6, SeverityFacts
  <2> QED
    BY <1>5, <2>1, <2>2
<1>10. DOMAIN r.worst = 1..Len(r.worst)
  BY <1>5, LenProperties
<1> HIDE DEF levels
<1> QED
  BY <1>5, <1>8, <1>9, <1>10 DEF r, levels

-----------------------------------------------------------------------------
(* The theorems *)

\* The graph is acyclic for good, and the states stay states.
Sound == Acyclic(parents) /\ st \in [Monitors -> States]

LEMMA StepSound == Sound /\ [Next]_vars => Sound'
<1> SUFFICES ASSUME Sound, [Next]_vars PROVE Sound'
  OBVIOUS
<1>1. parents' = parents
  BY DEF Next, Observe, vars
<1>2. st' \in [Monitors -> States]
  BY DEF Next, Observe, vars, Sound
<1> QED
  BY <1>1, <1>2 DEF Sound, Acyclic

LEMMA AlwaysSound == Spec => []Sound
<1>1. Init => Sound
  BY ConfiguredIsAcyclic DEF Init, Sound, States
<1> QED
  BY <1>1, StepSound, PTL DEF Spec

\* A monitor is behind an outage exactly when a chain of monitors that are not UP leads
\* from it to a DOWN ancestor: for any graph, and any order of the parents.
THEOREM BlockedExactly == Spec => []BlockedIffOutageChain
<1>1. Sound => BlockedIffOutageChain
  BY BlockedIffChain DEF Sound
<1> QED
  BY <1>1, AlwaysSound, PTL

\* Who is named for an outage is an ancestor that is DOWN and behind nothing itself.
THEOREM NamesRootCause == Spec => []BlockerIsRootCause
<1>1. Sound => BlockerIsRootCause
  BY RootCause DEF Sound, BlockerIsRootCause
<1> QED
  BY <1>1, AlwaysSound, PTL

\* A group shows its worst member, and names those that are as bad, each once and in order.
THEOREM GroupsShowWorst == Spec => []GroupShowsWorst
<1>1. Sound => GroupShowsWorst
  BY ShowsWorst DEF Sound
<1> QED
  BY <1>1, AlwaysSound, PTL

\* One more monitor that goes DOWN makes nothing reachable: the chains there were stay.
THEOREM OutagesSpread == Spec => OutageOnlySpreads
<1> DEFINE Spreads ==
      \A m \in Monitors :
        st[m] # "down" /\ st'[m] = "down" =>
          \A x \in Monitors : BlockingParent(parents, st, x) # None
                                => BlockingParent(parents, st', x) # None
<1>1. Sound /\ [Next]_vars => [Spreads]_vars
  <2> SUFFICES ASSUME Sound, Next,
                      NEW m \in Monitors, st[m] # "down", st'[m] = "down",
                      NEW x \in Monitors, BlockingParent(parents, st, x) # None
               PROVE  BlockingParent(parents, st', x) # None
    OBVIOUS
  <2>1. \A y \in Monitors : st[y] # st'[y] => st'[y] = "down"
    BY DEF Next, Observe, Sound
  <2>2. Acyclic(parents)
    BY DEF Sound
  <2>3. PICK i \in 1..Len(Order) : x = Order[i]
    BY OrderFacts
  <2>4. PICK n \in 1..(i - 1) : \E c : Path(x, n, c, parents, st)
    BY <2>2, <2>3, PathOfBlocked
  <2>5. PICK c : Path(x, n, c, parents, st)
    BY <2>4
  <2>6. Path(x, n, c, parents, st')
    <3>1. n \in 1..n /\ \A k \in 1..n : c[k] \in Monitors
      <4>1. i \in Nat
        BY OrderFacts
      <4>2. n \in Nat /\ 1 <= n
        BY <4>1
      <4>3. c \in [1..n -> Monitors]
        BY <2>5 DEF Path
      <4> QED
        BY <4>2, <4>3
    <3>2. \A k \in 1..n : st'[c[k]] # "up"
      BY <2>1, <2>5, <3>1 DEF Path
    <3>3. st'[c[n]] = "down"
      BY <2>1, <2>5, <3>1 DEF Path
    <3> QED
      BY <2>5, <3>2, <3>3 DEF Path
  <2>7. n \in Nat \ {0}
    BY OrderFacts
  <2> QED
    BY <2>2, <2>6, <2>7, PathBlocks
<1>2. Spec => [][Spreads]_vars
  BY <1>1, AlwaysSound, PTL DEF Spec
<1> QED
  BY <1>2 DEF OutageOnlySpreads
=============================================================================
