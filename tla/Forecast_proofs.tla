---------------------------- MODULE Forecast_proofs ----------------------------
(***************************************************************************)
(* For every history, thresholds and settings: the fitted line is the one  *)
(* of least squares, and the dates that are read off it are ahead, within  *)
(* the horizon and in order.  Sums are taken over histories of any length: *)
(* induction over their items is stated about sets of numbers.             *)
(***************************************************************************)
EXTENDS Forecast, SequenceTheorems, FiniteSetTheorems, WellFoundedInduction, TLAPS

-----------------------------------------------------------------------------
(* Induction and recursion *)

\* Every set of naturals that is not empty has a least element.
LEMMA Least ==
  ASSUME NEW T \in SUBSET Nat, T # {}
  PROVE  \E x \in T : \A y \in T : x <= y
<1> DEFINE R == {ss \in Nat \X Nat : ss[1] < ss[2]}
<1>1. IsWellFoundedOn(R, Nat)
  BY NatLessThanWellFounded DEF OpToRel
<1> HIDE DEF R
<1>2. PICK x \in T : \A y \in T : <<y, x>> \notin R
  BY <1>1, WFMin
<1>3. \A y \in T : ~(y < x)
  BY <1>2 DEF R
<1> QED
  BY <1>3

\* A set that has a number if it has all smaller ones has them all.
LEMMA UpTo ==
  ASSUME NEW N \in Nat, NEW S,
         \A n \in 0..N : (\A k \in 0..(n - 1) : k \in S) => n \in S
  PROVE  0..N \subseteq S
<1> DEFINE T == {n \in 0..N : n \notin S}
<1> SUFFICES ASSUME T # {} PROVE FALSE
  OBVIOUS
<1>1. PICK n \in T : \A k \in T : n <= k
  <2>1. T \in SUBSET Nat
    OBVIOUS
  <2> HIDE DEF T
  <2> QED
    BY <2>1, Least
<1>2. \A k \in 0..(n - 1) : k \in S
  BY <1>1
<1> QED
  BY <1>1, <1>2

\* What the turns of a loop make of a value.
Turns(N, V) == [1..N -> [V -> V]]

\* The values of a loop over 1..N that starts with b.
Looped(N, V, b, step, f) ==
  f \in [0..N -> V] /\ f[0] = b /\ \A i \in 1..N : f[i] = step[i][f[i - 1]]

\* A loop has values all the way.
LEMMA Loop ==
  ASSUME NEW N \in Nat, NEW V, NEW b \in V, NEW step \in Turns(N, V)
  PROVE  \E f : Looped(N, V, b, step, f)
<1> USE DEF Turns
<1> DEFINE Runs(f, n) == f[0] = b /\ \A i \in 1..n : f[i] = step[i][f[i - 1]]
           S == {n \in 0..N : \E f \in [0..n -> V] : Runs(f, n)}
<1>1. ASSUME NEW n \in 0..N, \A k \in 0..(n - 1) : k \in S
      PROVE  n \in S
  <2>1. CASE n = 0
    <3> DEFINE f == [i \in 0..0 |-> b]
    <3>1. f \in [0..0 -> V] /\ Runs(f, 0)
      OBVIOUS
    <3> QED
      BY <2>1, <3>1
  <2>2. CASE n # 0
    <3>1. n - 1 \in 0..(n - 1) /\ n \in 1..N /\ n - 1 \in 0..N
      BY <2>2
    <3>2. PICK f \in [0..(n - 1) -> V] : Runs(f, n - 1)
      BY <1>1, <3>1
    <3> DEFINE g == [i \in 0..n |-> IF i = n THEN step[n][f[n - 1]] ELSE f[i]]
    <3>3. step[n][f[n - 1]] \in V
      BY <3>1
    <3>4. g \in [0..n -> V]
      BY <3>1, <3>3
    <3>5. g[0] = b
      BY <2>2, <3>1, <3>2
    <3>6. ASSUME NEW i \in 1..n PROVE g[i] = step[i][g[i - 1]]
      <4>1. i - 1 \in 0..(n - 1) /\ i - 1 \in 0..n /\ i - 1 # n /\ i \in 0..n
        BY <3>1
      <4>2. g[i - 1] = f[i - 1]
        BY <4>1
      <4>3. CASE i = n
        BY <4>1, <4>2, <4>3
      <4>4. CASE i # n
        <5>1. i \in 1..(n - 1) /\ g[i] = f[i]
          BY <3>1, <4>1, <4>4
        <5> QED
          BY <3>2, <4>2, <5>1
      <4> QED
        BY <4>3, <4>4
    <3> QED
      BY <3>4, <3>5, <3>6
  <2> QED
    BY <2>1, <2>2
<1>2. 0..N \subseteq S
  <2> HIDE DEF S
  <2> QED
    BY <1>1, UpTo
<1> QED
  BY <1>2 DEF Looped

\* What a loop starts with and every turn keeps, it ends with.
LEMMA Kept ==
  ASSUME NEW N \in Nat, NEW V, NEW g, g[0] \in V,
         \A i \in 1..N : g[i - 1] \in V => g[i] \in V
  PROVE  \A i \in 0..N : g[i] \in V
<1> DEFINE S == {n \in 0..N : g[n] \in V}
<1>1. ASSUME NEW n \in 0..N, \A k \in 0..(n - 1) : k \in S
      PROVE  n \in S
  <2>1. CASE n = 0
    BY <2>1
  <2>2. CASE n # 0
    <3>1. n - 1 \in 0..(n - 1) /\ n \in 1..N
      BY <2>2
    <3> QED
      BY <1>1, <3>1
  <2> QED
    BY <2>1, <2>2
<1>2. 0..N \subseteq S
  <2> HIDE DEF S
  <2> QED
    BY <1>1, UpTo
<1> QED
  BY <1>2

\* A function on 1..n is a sequence.
\* Sums and products of integers are integers; cited where a product is one of many.
LEMMA ClosedInt == \A x, y \in Int : x * y \in Int /\ x + y \in Int /\ x - y \in Int
  OBVIOUS

LEMMA IsSequence ==
  ASSUME NEW S, NEW n \in Nat, NEW f \in [1..n -> S]
  PROVE  f \in Seq(S) /\ Len(f) = n /\ DOMAIN f = 1..n
BY SeqDef, LenProperties

-----------------------------------------------------------------------------
(* Sums *)

LEMMA SumsEquation ==
  ASSUME NEW s \in Seq(Int)
  PROVE  /\ Sums(s) \in [0..Len(s) -> Int] /\ Sums(s)[0] = 0
         /\ \A i \in 1..Len(s) : Sums(s)[i] = Sums(s)[i - 1] + s[i]
<1> DEFINE N == Len(s)
           Whole(f) == f = [i \in 0..N |-> IF i = 0 THEN 0 ELSE f[i - 1] + s[i]]
           step == [i \in 1..N |-> [sum \in Int |-> sum + s[i]]]
<1>1. N \in Nat /\ \A i \in 1..N : s[i] \in Int
  BY LenProperties, ElementOfSeq
<1>2. step \in [1..N -> [Int -> Int]]
  BY <1>1
<1>3. PICK f : Looped(N, Int, 0, step, f)
  <2> DEFINE Z == Int
  <2>1. N \in Nat /\ 0 \in Z /\ step \in Turns(N, Z)
    BY <1>1, <1>2 DEF Turns
  <2>2. \E f : Looped(N, Z, 0, step, f)
    <3> HIDE DEF step, Z, N
    <3> QED
      BY <2>1, Loop
  <2> QED
    BY <2>2
<1> USE <1>3 DEF Looped
<1>4. \A i \in 1..N : f[i] = f[i - 1] + s[i]
  <2> TAKE i \in 1..N
  <2>1. i - 1 \in 0..N
    BY <1>1
  <2>2. f[i - 1] \in Int
    BY <2>1
  <2> QED
    BY <2>2
<1>5. f = [i \in 0..N |-> IF i = 0 THEN 0 ELSE f[i - 1] + s[i]]
  <2>1. \A i \in 0..N : i # 0 => i \in 1..N
    BY <1>1
  <2> QED
    BY <1>3, <1>4, <2>1
<1>6. Sums(s) = CHOOSE g : Whole(g)
  BY DEF Sums
<1>7. Whole(Sums(s))
  <2>1. Whole(f)
    BY <1>5
  <2> HIDE DEF Whole
  <2> QED
    BY <1>6, <2>1
<1>8. /\ Sums(s)[0] = 0 /\ \A i \in 1..N : Sums(s)[i] = Sums(s)[i - 1] + s[i]
      /\ Sums(s) = [i \in 0..N |-> Sums(s)[i]]
  BY <1>1, <1>7
<1>9. \A i \in 0..N : Sums(s)[i] \in Int
  <2> DEFINE Z == Int
             g == Sums(s)
  <2>1. ASSUME NEW i \in 1..N, g[i - 1] \in Z PROVE g[i] \in Z
    <3>1. g[i] = g[i - 1] + s[i] /\ s[i] \in Int
      BY <1>1, <1>8
    <3> HIDE DEF g
    <3> QED
      BY <2>1, <3>1
  <2>3. N \in Nat /\ g[0] \in Z
    BY <1>1, <1>8
  <2>2. \A i \in 0..N : g[i] \in Z
    <3> HIDE DEF g, Z, N
    <3> QED
      BY <2>1, <2>3, Kept
  <2> QED
    BY <2>2
<1> QED
  BY <1>8, <1>9

\* What is left of a sequence are items that it had.
LEMMA PresentItems ==
  ASSUME NEW S, NEW s \in Seq(S \union {None})
  PROVE  Present(s) \in Seq(S)
<1> DEFINE N == Len(s)
           V == Seq(S)
           turn(i, t) == IF s[i] = None THEN t ELSE Append(t, s[i])
           Whole(f) == f = [i \in 0..N |-> IF i = 0 THEN <<>> ELSE turn(i, f[i - 1])]
           step == [i \in 1..N |-> [t \in V |-> turn(i, t)]]
           start == <<>>
<1>1. N \in Nat /\ \A i \in 1..N : s[i] \in S \union {None}
  BY LenProperties, ElementOfSeq
<1>2. ASSUME NEW i \in 1..N, NEW t \in V
      PROVE  turn(i, t) \in V
  BY <1>1, AppendProperties
<1>3. start \in V /\ step \in Turns(N, V)
  BY <1>2 DEF Turns
<1>4. PICK f : Looped(N, V, start, step, f)
  <2>1. N \in Nat /\ start \in V /\ step \in Turns(N, V)
    BY <1>1, <1>3
  <2> HIDE DEF step, V, N, start
  <2> QED
    BY <2>1, Loop
<1> USE <1>4 DEF Looped
<1> HIDE DEF V, turn, N
<1>5. f = [i \in 0..N |-> IF i = 0 THEN <<>> ELSE turn(i, f[i - 1])]
  <2>1. ASSUME NEW i \in 0..N, i # 0 PROVE f[i] = turn(i, f[i - 1])
    <3>1. i \in 1..N /\ f[i - 1] \in V
      BY <1>1, <2>1
    <3> QED
      BY <1>4, <3>1
  <2> QED
    BY <1>4, <2>1
<1>6. Present(s) = (CHOOSE g : Whole(g))[N]
  BY DEF Present, turn, N
<1> DEFINE g == CHOOSE h : Whole(h)
<1>7. g = [i \in 0..N |-> IF i = 0 THEN <<>> ELSE turn(i, g[i - 1])]
  <2>1. Whole(f)
    BY <1>5
  <2>2. Whole(g)
    <3> HIDE DEF Whole
    <3> QED
      BY <2>1
  <2> QED
    BY <2>2
<1> HIDE DEF g
<1>8. g[0] \in V
  BY <1>1, <1>3, <1>7
<1>9. ASSUME NEW i \in 1..N, g[i - 1] \in V PROVE g[i] \in V
  BY <1>1, <1>2, <1>7, <1>9
<1>10. g[N] \in V
  <2>1. \A i \in 0..N : g[i] \in V
    BY <1>1, <1>8, <1>9, Kept
  <2> QED
    BY <1>1, <2>1
<1> QED
  BY <1>6, <1>10 DEF g, V

\* The sum of integers is an integer.
LEMMA SumType ==
  ASSUME NEW s \in Seq(Int)
  PROVE  Sum(s) \in Int
BY SumsEquation, LenProperties DEF Sum

LEMMA Combined ==
  ASSUME NEW a \in Int, NEW b \in Int, NEW x \in Int, NEW y \in Int, NEW u \in Int, NEW v \in Int
  PROVE  (a * x + b * y) + (a * u + b * v) = a * (x + u) + b * (y + v)
<1>1. a * (x + u) = a * x + a * u /\ b * (y + v) = b * y + b * v
  OBVIOUS
<1>2. a * x \in Int /\ a * u \in Int /\ b * y \in Int /\ b * v \in Int
  OBVIOUS
<1> QED
  BY <1>1, <1>2

\* h is a times f and b times g.
Combines(h, a, f, b, g) ==
  /\ {f, g, h} \subseteq Seq(Int) /\ {a, b} \subseteq Int
  /\ Len(f) = Len(h) /\ Len(g) = Len(h)
  /\ \A i \in 1..Len(h) : h[i] = a * f[i] + b * g[i]

\* Sums of a combination of two sequences.
LEMMA SumLinear ==
  ASSUME NEW f, NEW g, NEW h, NEW a, NEW b, Combines(h, a, f, b, g)
  PROVE  Sum(h) = a * Sum(f) + b * Sum(g)
<1> USE DEF Combines
<1> DEFINE N == Len(h)
           S == {n \in 0..N : Sums(h)[n] = a * Sums(f)[n] + b * Sums(g)[n]}
<1>1. N \in Nat /\ Len(f) = N /\ Len(g) = N
  BY LenProperties
<1>2. ASSUME NEW n \in 0..N, \A k \in 0..(n - 1) : k \in S
      PROVE  n \in S
  <2>1. CASE n = 0
    BY <1>1, <2>1, SumsEquation
  <2>2. CASE n # 0
    <3> DEFINE x == Sums(f)[n - 1]
               y == Sums(g)[n - 1]
               u == f[n]
               v == g[n]
    <3>1. n - 1 \in 0..(n - 1) /\ n \in 1..N /\ n - 1 \in 0..N
      BY <2>2, <1>1
    <3>2. x \in Int /\ y \in Int /\ u \in Int /\ v \in Int
      BY <1>1, <3>1, SumsEquation, ElementOfSeq
    <3>3. Sums(h)[n - 1] = a * x + b * y
      BY <1>2, <3>1
    <3>4. /\ Sums(h)[n] = Sums(h)[n - 1] + h[n]
          /\ Sums(f)[n] = x + u /\ Sums(g)[n] = y + v
      BY <1>1, <3>1, SumsEquation
    <3>5. h[n] = a * u + b * v
      BY <3>1
    <3> HIDE DEF x, y, u, v
    <3>6. (a * x + b * y) + (a * u + b * v) = a * (x + u) + b * (y + v)
      <4>1. a \in Int /\ b \in Int
        OBVIOUS
      <4> QED
        BY <3>2, <4>1, Combined
    <3> QED
      BY <3>3, <3>4, <3>5, <3>6
  <2> QED
    BY <2>1, <2>2
<1>3. N \in S
  <2>1. 0..N \subseteq S
    <3> HIDE DEF S
    <3> QED
      BY <1>1, <1>2, UpTo
  <2> QED
    BY <1>1, <2>1
<1> QED
  BY <1>1, <1>3 DEF Sum

\* The sum of one number again and again.
LEMMA SumConstant ==
  ASSUME NEW s \in Seq(Int), NEW c \in Int, \A i \in 1..Len(s) : s[i] = c
  PROVE  Sum(s) = Len(s) * c
<1> DEFINE S == {n \in 0..Len(s) : Sums(s)[n] = n * c}
<1>1. Len(s) \in Nat
  BY LenProperties
<1>2. ASSUME NEW n \in 0..Len(s), \A k \in 0..(n - 1) : k \in S
      PROVE  n \in S
  <2>1. CASE n = 0
    BY <2>1, SumsEquation
  <2>2. CASE n # 0
    <3>1. n - 1 \in 0..(n - 1) /\ n \in 1..Len(s)
      BY <2>2, <1>1
    <3>2. Sums(s)[n - 1] = (n - 1) * c
      BY <1>2, <3>1
    <3>3. Sums(s)[n] = Sums(s)[n - 1] + c
      BY <3>1, SumsEquation
    <3>4. (n - 1) * c + c = n * c
      BY <3>1
    <3> QED
      BY <3>2, <3>3, <3>4
  <2> QED
    BY <2>1, <2>2
<1>3. Len(s) \in S
  <2>1. 0..Len(s) \subseteq S
    <3> HIDE DEF S
    <3> QED
      BY <1>1, <1>2, UpTo
  <2> QED
    BY <1>1, <2>1
<1> QED
  BY <1>3 DEF Sum

\* The sum of numbers that are not negative.
LEMMA SumNotNegative ==
  ASSUME NEW s \in Seq(Int), \A i \in 1..Len(s) : s[i] >= 0
  PROVE  Sum(s) >= 0
<1> DEFINE g == Sums(s)
<1>1. Len(s) \in Nat /\ g[0] \in Nat
  BY LenProperties, SumsEquation
<1>2. ASSUME NEW i \in 1..Len(s), g[i - 1] \in Nat PROVE g[i] \in Nat
  <2>1. g[i] = g[i - 1] + s[i] /\ s[i] \in Int /\ s[i] >= 0
    BY SumsEquation, ElementOfSeq
  <2> HIDE DEF g
  <2> QED
    BY <1>2, <2>1
<1>3. \A i \in 0..Len(s) : g[i] \in Nat
  <2> HIDE DEF g
  <2> QED
    BY <1>1, <1>2, Kept
<1> QED
  BY <1>1, <1>3 DEF Sum

-----------------------------------------------------------------------------
(* The line *)

Points == Seq([t : Int, v : Int])

\* What is made of each item of a sequence makes a sequence as long.
LEMMA EachItem ==
  ASSUME NEW S, NEW s \in Seq(S), NEW f \in [DOMAIN s -> Int]
  PROVE  f \in Seq(Int) /\ Len(f) = Len(s) /\ DOMAIN f = 1..Len(s)
BY IsSequence, LenProperties

LEMMA SumOfSquares ==
  ASSUME NEW n \in Int, NEW x \in Int, NEW s \in Int
  PROVE  (n * x - s) * (n * x - s) = (n * n) * (x * x) + ((- (2 * (n * s))) * x + 1 * (s * s))
<1> DEFINE y == n * x
<1>1. y \in Int /\ y * y = (n * n) * (x * x) /\ y * s = (n * s) * x
  OBVIOUS
<1> HIDE DEF y
<1>2. (y - s) * (y - s) = y * y - 2 * (y * s) + s * s
  BY <1>1
<1> QED
  BY <1>1, <1>2 DEF y

LEMMA NotNegativeFactor ==
  ASSUME NEW n \in Int, NEW y \in Int, n > 0, n * y >= 0
  PROVE  y >= 0
OBVIOUS

\* What a sequence's items differ by is not negative.
LEMMA SpreadNotNegative ==
  ASSUME NEW x \in Seq(Int), Len(x) > 0
  PROVE  Spread(x, x) \in Int /\ Spread(x, x) >= 0
<1> DEFINE n  == Len(x)
           s  == Sum(x)
           xx == [i \in DOMAIN x |-> x[i] * x[i]]
           q  == Sum(xx)
           k  == [i \in DOMAIN x |-> s * s]
           e  == [i \in DOMAIN x |-> (- (2 * (n * s))) * x[i] + 1 * (s * s)]
           d  == [i \in DOMAIN x |-> (n * x[i] - s) * (n * x[i] - s)]
<1>1. n \in Nat /\ DOMAIN x = 1..n /\ s \in Int /\ \A i \in 1..n : x[i] \in Int
  BY LenProperties, ElementOfSeq, SumType
<1>2. xx \in Seq(Int) /\ Len(xx) = n /\ q \in Int
  <2>1. xx \in [DOMAIN x -> Int]
    BY <1>1
  <2> HIDE DEF xx
  <2> QED
    BY <2>1, EachItem, SumType
<1>3. k \in Seq(Int) /\ Len(k) = n /\ \A i \in 1..n : k[i] = s * s
  <2>1. k \in [DOMAIN x -> Int] /\ \A i \in 1..n : k[i] = s * s
    BY <1>1
  <2> HIDE DEF k
  <2> QED
    BY <2>1, EachItem
<1>4. e \in Seq(Int) /\ Len(e) = n
  <2>1. e \in [DOMAIN x -> Int]
    BY <1>1
  <2> HIDE DEF e
  <2> QED
    BY <2>1, EachItem
<1>5. d \in Seq(Int) /\ Len(d) = n
  <2>1. d \in [DOMAIN x -> Int]
    BY <1>1
  <2> HIDE DEF d
  <2> QED
    BY <2>1, EachItem
<1>6. Sum(k) = n * (s * s)
  <2>1. s * s \in Int
    BY <1>1
  <2> HIDE DEF k, s
  <2> QED
    BY <1>3, <2>1, SumConstant
<1> DEFINE a == - (2 * (n * s))
<1>7. a \in Int /\ n * n \in Int
  BY <1>1
<1>8. Sum(e) = a * s + 1 * (n * (s * s))
  <2>1. \A i \in 1..n : e[i] = a * x[i] + 1 * k[i]
    BY <1>1
  <2> HIDE DEF e, k, a, n, s
  <2>2. Combines(e, a, x, 1, k)
    BY <1>3, <1>4, <1>7, <2>1 DEF Combines, n
  <2> QED
    BY <1>6, <2>2, SumLinear DEF s
<1>9. Sum(d) = (n * n) * q + 1 * Sum(e)
  <2>1. \A i \in 1..n : d[i] = (n * n) * xx[i] + 1 * e[i]
    <3> TAKE i \in 1..n
    <3>1. x[i] \in Int /\ d[i] = (n * x[i] - s) * (n * x[i] - s)
          /\ xx[i] = x[i] * x[i] /\ e[i] = (- (2 * (n * s))) * x[i] + 1 * (s * s)
      BY <1>1
    <3>2. e[i] \in Int
      BY <1>1, <3>1
    <3> DEFINE xi == x[i]
               ei == e[i]
    <3>3. (n * xi - s) * (n * xi - s) = (n * n) * (xi * xi) + ei
      <4>1. xi \in Int /\ n \in Int /\ ei = (- (2 * (n * s))) * xi + 1 * (s * s)
        BY <1>1, <3>1
      <4> HIDE DEF xi, ei, n, s
      <4> QED
        BY <1>1, <4>1, SumOfSquares
    <3> HIDE DEF e, d, xx
    <3> QED
      BY <3>1, <3>2, <3>3
  <2> HIDE DEF e, d, xx, n
  <2>2. Combines(d, n * n, xx, 1, e)
    BY <1>2, <1>4, <1>5, <1>7, <2>1 DEF Combines
  <2> QED
    BY <2>2, SumLinear
<1>10. Sum(d) >= 0
  <2>1. \A i \in 1..n : d[i] >= 0
    <3> TAKE i \in 1..n
    <3> DEFINE z == n * x[i] - s
    <3>1. z \in Int /\ d[i] = z * z
      BY <1>1
    <3> HIDE DEF d, z
    <3>2. z * z >= 0
      BY <3>1
    <3> QED
      BY <3>1, <3>2
  <2> HIDE DEF d
  <2> QED
    BY <1>5, <2>1, SumNotNegative
<1>11. Spread(x, x) = n * q - s * s
  BY DEF Spread
<1> HIDE DEF n, s, q, e, d
<1>12. (n * n) * q + 1 * (a * s + 1 * (n * (s * s))) = n * (n * q - s * s)
  <2>1. a * s = - (2 * (n * (s * s))) /\ n * (n * q - s * s) = (n * n) * q - n * (s * s)
    BY <1>1, <1>2
  <2>2. (n * n) * q \in Int /\ n * (s * s) \in Int
    BY <1>1, <1>2
  <2> HIDE DEF a
  <2> QED
    BY <2>1, <2>2
<1> HIDE DEF a
<1>13. n * (n * q - s * s) >= 0
  BY <1>8, <1>9, <1>10, <1>12
<1>14. n \in Int /\ n > 0 /\ n * q - s * s \in Int
  BY <1>1, <1>2 DEF n
<1> QED
  BY <1>11, <1>13, <1>14, NotNegativeFactor

\* What a line has that fits a series: numbers, and times that are apart.
LEMMA FitFacts ==
  ASSUME NEW points \in Points, Fit(points) # None
  PROVE  LET fit == Fit(points)
             ts  == [i \in DOMAIN points |-> points[i].t]
             vs  == [i \in DOMAIN points |-> points[i].v]
         IN  /\ ts \in Seq(Int) /\ vs \in Seq(Int) /\ Len(ts) = Len(points) /\ Len(vs) = Len(points)
             /\ fit.n = Len(points) /\ fit.n \in Int /\ fit.n > 0
             /\ fit.t = Sum(ts) /\ fit.v = Sum(vs)
             /\ fit.sxx = Spread(ts, ts) /\ fit.sxy = Spread(ts, vs)
             /\ {fit.t, fit.v, fit.sxx, fit.sxy, fit.span} \subseteq Int
             /\ fit.sxx > 0
<1> DEFINE ts == [i \in DOMAIN points |-> points[i].t]
           vs == [i \in DOMAIN points |-> points[i].v]
           tv == [i \in DOMAIN ts |-> ts[i] * vs[i]]
           fit == Fit(points)
<1>1. Len(points) \in Nat /\ DOMAIN points = 1..Len(points)
      /\ \A i \in DOMAIN points : points[i].t \in Int /\ points[i].v \in Int
  <2> DEFINE R == [t : Int, v : Int]
  <2>1. points \in Seq(R) /\ \A r \in R : r.t \in Int /\ r.v \in Int
    BY DEF Points
  <2> HIDE DEF R
  <2> QED
    BY <2>1, LenProperties, ElementOfSeq
<1>2. ts \in Seq(Int) /\ Len(ts) = Len(points) /\ DOMAIN ts = 1..Len(points)
  <2>1. ts \in [DOMAIN points -> Int]
    BY <1>1
  <2> HIDE DEF ts
  <2> QED
    BY <2>1, EachItem DEF Points
<1>3. vs \in Seq(Int) /\ Len(vs) = Len(points) /\ DOMAIN vs = 1..Len(points)
  <2>1. vs \in [DOMAIN points -> Int]
    BY <1>1
  <2> HIDE DEF vs
  <2> QED
    BY <2>1, EachItem DEF Points
<1>4. tv \in Seq(Int)
  <2>1. tv \in [DOMAIN ts -> Int]
    BY <1>1, <1>2
  <2> HIDE DEF tv, ts
  <2> QED
    BY <1>2, <2>1, EachItem
<1>5. /\ ~ (Len(points) < 2 \/ Spread(ts, ts) = 0)
      /\ fit = [n |-> Len(points), t |-> Sum(ts), v |-> Sum(vs),
                sxx |-> Spread(ts, ts), sxy |-> Spread(ts, vs), syy |-> Spread(vs, vs),
                span |-> Last(ts) - ts[1]]
  BY DEF Fit
<1>6. Sum(ts) \in Int /\ Sum(vs) \in Int /\ Sum(tv) \in Int
  <2> HIDE DEF ts, vs, tv
  <2> QED
    BY <1>2, <1>3, <1>4, SumType
<1>7. Spread(ts, vs) \in Int
  <2>1. Spread(ts, vs) = Len(ts) * Sum(tv) - Sum(ts) * Sum(vs)
    BY DEF Spread
  <2> HIDE DEF ts, vs, tv
  <2> QED
    BY <1>1, <1>2, <1>6, <2>1
<1>8. Spread(ts, ts) \in Int /\ Spread(ts, ts) >= 0
  <2> HIDE DEF ts
  <2> QED
    BY <1>1, <1>2, <1>5, SpreadNotNegative
<1>9. Last(ts) - ts[1] \in Int
  <2>1. 1 \in 1..Len(ts) /\ Len(ts) \in 1..Len(ts)
    BY <1>1, <1>2, <1>5
  <2> HIDE DEF ts
  <2>2. ts[1] \in Int /\ ts[Len(ts)] \in Int
    BY <1>2, <2>1, ElementOfSeq
  <2> QED
    BY <2>2 DEF Last
<1>10. fit.n > 0 /\ fit.n \in Int /\ fit.sxx > 0
  BY <1>1, <1>5, <1>8
<1> QED
  BY <1>2, <1>3, <1>5, <1>6, <1>7, <1>8, <1>9, <1>10

-----------------------------------------------------------------------------
(* The dates *)

\* A line through points whose times are apart.
IsLine(fit) ==
  /\ {fit.n, fit.t, fit.v, fit.sxx, fit.sxy} \subseteq Int
  /\ fit.n > 0 /\ fit.sxx > 0

Direction == limits.direction \in {"above", "below"}

LEMMA MeetsWhenPast ==
  ASSUME NEW n \in Int, NEW t \in Int, NEW v \in Int, NEW sxx \in Int, NEW sxy \in Int,
         NEW level \in Int, NEW x \in Int
  PROVE  ((level * n - v) * sxx + sxy * t) - x * (n * sxy)
           = level * (n * sxx) - (v * sxx + sxy * (n * x - t))
<1>1. (level * n - v) * sxx = level * (n * sxx) - v * sxx
  OBVIOUS
<1>2. sxy * (n * x - t) = x * (n * sxy) - sxy * t
  OBVIOUS
<1>3. {level * (n * sxx), v * sxx, sxy * t, x * (n * sxy)} \subseteq Int
  OBVIOUS
<1> QED
  BY <1>1, <1>2, <1>3

LEMMA Scaled ==
  ASSUME NEW x \in Int, NEW y \in Int, NEW k \in Int, k >= 0, x <= y
  PROVE  x * k <= y * k
OBVIOUS

\* Where a line has crossed a level or will cross it: there is such a time, now or later.
LEMMA CrossingAhead ==
  ASSUME NEW fit, IsLine(fit), now \in Int, Direction, NEW level \in Int \union {None},
         Crossing(fit, level).at # None
  PROVE  LET at == Crossing(fit, level).at
         IN  /\ level \in Int /\ at[1] \in Int /\ at[2] \in Int /\ at[2] > 0
             /\ AtMost(<<now, 1>>, at)
             /\ IF Past(fit, level, now) THEN at = <<now, 1>>
                ELSE Heading(fit) /\ at = Meets(fit, level)
<1> DEFINE at == Crossing(fit, level).at
<1>1. level # None /\ level \in Int
  BY DEF Crossing
<1>2. CASE Past(fit, level, now)
  <2>1. at = <<now, 1>>
    BY <1>1, <1>2 DEF Crossing
  <2> QED
    BY <1>1, <1>2, <2>1 DEF AtMost
<1>3. CASE ~ Past(fit, level, now)
  <2>1. Heading(fit) /\ at = Meets(fit, level)
    BY <1>1, <1>3 DEF Crossing
  <2> DEFINE n == fit.n
             t == fit.t
             v == fit.v
             sxx == fit.sxx
             sxy == fit.sxy
             above == (level * n - v) * sxx + sxy * t
             value == v * sxx + sxy * (n * now - t)
  <2>2. {n, t, v, sxx, sxy} \subseteq Int /\ n > 0
    BY DEF IsLine
  <2> HIDE DEF n, t, v, sxx, sxy
  <2>3. above \in Int /\ value \in Int /\ n * sxy \in Int /\ n * sxx \in Int /\ now * (n * sxy) \in Int
        /\ level * (n * sxx) \in Int
    BY <1>1, <2>2
  <2>4. above - now * (n * sxy) = level * (n * sxx) - value
    BY <1>1, <2>2, MeetsWhenPast
  <2>5. /\ Heading(fit) <=> IF limits.direction = "above" THEN sxy > 0 ELSE sxy < 0
        /\ Meets(fit, level) = IF sxy > 0 THEN <<above, n * sxy>> ELSE <<-above, -(n * sxy)>>
        /\ Past(fit, level, now) <=> IF limits.direction = "above" THEN level * (n * sxx) <= value * 1
                                     ELSE value * 1 <= level * (n * sxx)
    BY DEF Heading, Meets, Past, ValueAt, AtMost, n, t, v, sxx, sxy
  <2> HIDE DEF above, value
  <2>6. CASE limits.direction = "above"
    <3>1. sxy > 0 /\ at = <<above, n * sxy>> /\ level * (n * sxx) > value
      BY <1>3, <2>1, <2>3, <2>5, <2>6
    <3>2. n * sxy > 0
      BY <2>2, <3>1
    <3>3. now * (n * sxy) <= above * 1
      BY <2>3, <2>4, <3>1
    <3> HIDE DEF at
    <3> QED
      BY <1>1, <1>3, <2>1, <2>3, <3>1, <3>2, <3>3 DEF AtMost, at
  <2>7. CASE limits.direction = "below"
    <3>1. sxy < 0 /\ at = <<-above, -(n * sxy)>> /\ level * (n * sxx) < value
      BY <1>3, <2>1, <2>2, <2>3, <2>5, <2>7
    <3>2. n * sxy < 0
      BY <2>2, <3>1
    <3>3. now * (-(n * sxy)) = -(now * (n * sxy))
      BY <2>2
    <3>4. now * (-(n * sxy)) <= (-above) * 1
      BY <2>3, <2>4, <3>1, <3>3
    <3> HIDE DEF at
    <3> QED
      BY <1>1, <1>3, <2>1, <2>3, <3>1, <3>2, <3>4 DEF AtMost, at
  <2> QED
    BY <2>6, <2>7 DEF Direction
<1> QED
  BY <1>2, <1>3

\* The line has crossed, or will cross, the milder of two levels first.
LEMMA CrossingsInOrder ==
  ASSUME NEW fit, IsLine(fit), now \in Int, Direction,
         NEW mild \in Int \union {None}, NEW severe \in Int \union {None},
         IF limits.direction = "above" THEN mild <= severe ELSE mild >= severe,
         Crossing(fit, mild).at # None, Crossing(fit, severe).at # None
  PROVE  AtMost(Crossing(fit, mild).at, Crossing(fit, severe).at)
<1> DEFINE early == Crossing(fit, mild).at
           late  == Crossing(fit, severe).at
           n == fit.n
           t == fit.t
           v == fit.v
           sxx == fit.sxx
           sxy == fit.sxy
           value == v * sxx + sxy * (n * now - t)
           above(level) == (level * n - v) * sxx + sxy * t
<1>1. /\ mild \in Int /\ severe \in Int
      /\ AtMost(<<now, 1>>, early) /\ AtMost(<<now, 1>>, late)
      /\ IF Past(fit, mild, now) THEN early = <<now, 1>> ELSE Heading(fit) /\ early = Meets(fit, mild)
      /\ IF Past(fit, severe, now) THEN late = <<now, 1>> ELSE Heading(fit) /\ late = Meets(fit, severe)
  BY CrossingAhead
<1>2. {n, t, v, sxx, sxy} \subseteq Int /\ n > 0 /\ sxx > 0
  BY DEF IsLine
<1>3. ASSUME NEW level \in Int
      PROVE  /\ Meets(fit, level) = IF sxy > 0 THEN <<above(level), n * sxy>> ELSE <<-above(level), -(n * sxy)>>
             /\ Past(fit, level, now) <=> IF limits.direction = "above" THEN level * (n * sxx) <= value * 1
                                          ELSE value * 1 <= level * (n * sxx)
             /\ Heading(fit) <=> IF limits.direction = "above" THEN sxy > 0 ELSE sxy < 0
  BY DEF Meets, Past, Heading, ValueAt, AtMost
<1> SUFFICES AtMost(early, late)
  OBVIOUS
<1> HIDE DEF early, late, n, t, v, sxx, sxy
<1>4. n * sxx \in Int /\ n * sxx > 0 /\ value \in Int /\ n * sxy \in Int
  BY <1>1, <1>2
<1>5. /\ limits.direction = "above" => mild * (n * sxx) <= severe * (n * sxx)
      /\ limits.direction # "above" => severe * (n * sxx) <= mild * (n * sxx)
  <2> DEFINE k == n * sxx
  <2>1. k \in Int /\ k >= 0
    BY <1>4
  <2> HIDE DEF k
  <2>2. /\ limits.direction = "above" => mild * k <= severe * k
        /\ limits.direction # "above" => severe * k <= mild * k
    BY <1>1, <2>1, Scaled
  <2> QED
    BY <2>2 DEF k
<1>6. /\ mild * (n * sxx) \in Int /\ severe * (n * sxx) \in Int
      /\ above(mild) \in Int /\ above(severe) \in Int
      /\ above(mild) - above(severe) = mild * (n * sxx) - severe * (n * sxx)
  <2>1. /\ (mild * n - v) * sxx = mild * (n * sxx) - v * sxx
        /\ (severe * n - v) * sxx = severe * (n * sxx) - v * sxx
    BY <1>1, <1>2
  <2>2. {mild * (n * sxx), severe * (n * sxx), v * sxx, sxy * t} \subseteq Int
    BY <1>1, <1>2
  <2> QED
    BY <2>1, <2>2
<1> HIDE DEF value, above
<1>7. CASE Past(fit, mild, now)
  BY <1>1, <1>7
<1>8. CASE ~ Past(fit, mild, now) /\ Past(fit, severe, now)
  BY <1>1, <1>3, <1>4, <1>5, <1>6, <1>8
<1>9. CASE ~ Past(fit, mild, now) /\ ~ Past(fit, severe, now)
  <2>1. Heading(fit) /\ early = Meets(fit, mild) /\ late = Meets(fit, severe)
    BY <1>1, <1>9
  <2>2. CASE limits.direction = "above"
    <3>1. sxy > 0 /\ early = <<above(mild), n * sxy>> /\ late = <<above(severe), n * sxy>>
      BY <1>1, <1>3, <2>1, <2>2
    <3>2. n * sxy \in Int /\ n * sxy >= 0
      BY <1>2, <3>1
    <3>3. above(mild) <= above(severe)
      BY <1>5, <1>6, <2>2
    <3>4. above(mild) * (n * sxy) <= above(severe) * (n * sxy)
      BY <1>6, <3>2, <3>3, Scaled
    <3> QED
      BY <3>1, <3>4 DEF AtMost
  <2>3. CASE limits.direction # "above"
    <3>1. sxy < 0 /\ early = <<-above(mild), -(n * sxy)>> /\ late = <<-above(severe), -(n * sxy)>>
      BY <1>1, <1>2, <1>3, <2>1, <2>3
    <3>2. -(n * sxy) \in Int /\ -(n * sxy) >= 0
      <4>1. n * sxy <= 0
        BY <1>2, <3>1
      <4> QED
        BY <1>4, <4>1
    <3>3. -above(mild) <= -above(severe) /\ -above(mild) \in Int /\ -above(severe) \in Int
      BY <1>5, <1>6, <2>3
    <3>4. (-above(mild)) * (-(n * sxy)) <= (-above(severe)) * (-(n * sxy))
      BY <3>2, <3>3, Scaled
    <3> QED
      BY <3>1, <3>4 DEF AtMost
  <2> QED
    BY <2>2, <2>3
<1> QED
  BY <1>7, <1>8, <1>9

-----------------------------------------------------------------------------
(* The state *)

Levels == Int \union {None}

\* Results in the store.
Row == [result : {"ok", "warn", "fail"}, value : Int \union {None}, at : Int]

ForecastType ==
  /\ now \in Nat /\ rows \in Seq(Row)
  /\ limits \in [direction : {"above", "below"}, warn : Levels, crit : Levels] \union {None}

\* What DatesAreAhead says of a forecast.
Ahead(f) ==
  LET dated == {f.warn_at, f.crit_at} \ {None}
      mild  == IF limits.direction = "above" THEN limits.warn <= limits.crit ELSE limits.warn >= limits.crit
  IN  /\ \A at \in dated : /\ AtMost(<<f.computed_at, 1>>, at)
                           /\ AtMost(at, <<f.computed_at + Horizon, 1>>)
      /\ (None \notin {f.warn_at, f.crit_at} /\ mild) => AtMost(f.warn_at, f.crit_at)

\* A monitor has a forecast only if it has thresholds.
Forecasted == forecast # None => limits # None /\ Ahead(forecast)

ForecastInv == ForecastType /\ Forecasted

\* A series has a point of numbers for each hour with results.
LEMMA SeriesIsPoints ==
  ASSUME ForecastType
  PROVE  Series(Usable) \in Points
<1> DEFINE counts(i, h) == /\ rows[i] \in Usable /\ rows[i].at >= now - Lookback
                           /\ rows[i].at \div Hour = h
           in(h)     == {i \in DOMAIN rows : counts(i, h)}
           values(h) == [i \in DOMAIN rows |-> IF counts(i, h) THEN rows[i].value ELSE 0]
           point(h)  == [t |-> h * Hour + Hour \div 2, v |-> Sum(values(h)) \div Cardinality(in(h))]
           hours     == 1..(now \div Hour + 1)
           items     == [k \in hours |-> IF Cardinality(in(k - 1)) = 0 THEN None ELSE point(k - 1)]
           P         == [t : Int, v : Int]
<1>1. /\ now \in Nat /\ Hour \in Nat /\ Hour > 0 /\ now \div Hour \in Nat
      /\ rows \in Seq(Row) /\ Len(rows) \in Nat /\ DOMAIN rows = 1..Len(rows)
  BY ForecastAssumption, LenProperties DEF ForecastType
<1>2. ASSUME NEW h \in Int, Cardinality(in(h)) # 0
      PROVE  point(h) \in P
  <2>1. in(h) \subseteq 1..Len(rows) /\ IsFiniteSet(1..Len(rows))
    BY <1>1, FS_Interval
  <2>2. Cardinality(in(h)) \in Nat /\ Cardinality(in(h)) > 0
    <3> HIDE DEF in
    <3>1. IsFiniteSet(in(h))
      BY <2>1, FS_Subset
    <3> QED
      BY <1>2, <3>1, FS_CardinalityType
  <2>3. values(h) \in Seq(Int)
    <3>1. \A i \in DOMAIN rows : rows[i] \in Usable => rows[i].value \in Int
      <4> TAKE i \in DOMAIN rows
      <4>1. rows[i] \in Row
        BY <1>1, ElementOfSeq
      <4> QED
        BY <4>1 DEF Usable, Valued, Row
    <3>2. values(h) \in [DOMAIN rows -> Int]
      BY <3>1
    <3> HIDE DEF values
    <3> QED
      BY <1>1, <3>2, EachItem
  <2>4. Sum(values(h)) \in Int
    <3> HIDE DEF values
    <3> QED
      BY <2>3, SumType
  <2> DEFINE sum == Sum(values(h))
             number == Cardinality(in(h))
  <2>5. sum \in Int /\ number \in Nat /\ number > 0
    BY <2>2, <2>4
  <2>6. point(h) = [t |-> h * Hour + Hour \div 2, v |-> sum \div number]
    OBVIOUS
  <2> HIDE DEF sum, number, in, values, point
  <2>7. sum \div number \in Int /\ h * Hour + Hour \div 2 \in Int
    BY <1>1, <2>5
  <2> QED
    BY <2>6, <2>7
<1>3. items \in Seq(P \union {None})
  <2>1. items \in [hours -> P \union {None}]
    <3> HIDE DEF P, point, in
    <3>1. \A k \in hours : k - 1 \in Int
      BY <1>1
    <3> QED
      BY <1>2, <3>1
  <2> HIDE DEF items, P
  <2> QED
    BY <1>1, <2>1, IsSequence
<1>4. Series(Usable) = Present(items)
  BY DEF Series
<1> HIDE DEF items, P
<1>5. Present(items) \in Seq(P)
  BY <1>3, PresentItems
<1> QED
  BY <1>4, <1>5 DEF P, Points

\* Whatever the points, the dates of a forecast are ahead, within the horizon and in order.
LEMMA ProjectAhead ==
  ASSUME ForecastType, limits # None, NEW points \in Points
  PROVE  Ahead(Project(points))
<1> DEFINE fit  == Fit(points)
           warn == Crossing(fit, limits.warn)
           crit == Crossing(fit, limits.crit)
           date(c) == IF c.at # None /\ AtMost(c.at, <<now + Horizon, 1>>) THEN c.at ELSE None
           f == Project(points)
<1> SUFFICES Ahead(f)
  OBVIOUS
<1>1. CASE f = Insufficient
  BY <1>1 DEF Insufficient, Outlook, Ahead
<1>2. CASE fit # None /\ f.warn_at = date(warn) /\ f.crit_at = date(crit) /\ f.computed_at = now
  <2>1. IsLine(fit)
    BY <1>2, FitFacts DEF IsLine
  <2>2. now \in Int /\ Direction /\ limits.warn \in Int \union {None} /\ limits.crit \in Int \union {None}
    BY DEF ForecastType, Direction, Levels
  <2> HIDE DEF fit, f
  <2>3. warn.at # None => AtMost(<<now, 1>>, warn.at)
    BY <2>1, <2>2, CrossingAhead
  <2>4. crit.at # None => AtMost(<<now, 1>>, crit.at)
    BY <2>1, <2>2, CrossingAhead
  <2>5. /\ warn.at # None /\ crit.at # None
        /\ IF limits.direction = "above" THEN limits.warn <= limits.crit ELSE limits.warn >= limits.crit
        => AtMost(warn.at, crit.at)
    BY <2>1, <2>2, CrossingsInOrder
  <2> HIDE DEF warn, crit
  <2>6. \A at \in {f.warn_at, f.crit_at} \ {None} :
          AtMost(<<now, 1>>, at) /\ AtMost(at, <<now + Horizon, 1>>)
    BY <1>2, <2>3, <2>4
  <2>7. None \notin {f.warn_at, f.crit_at} => /\ warn.at # None /\ crit.at # None
                                              /\ f.warn_at = warn.at /\ f.crit_at = crit.at
    BY <1>2
  <2> QED
    BY <1>2, <2>5, <2>6, <2>7 DEF Ahead
<1>3. f = Insufficient \/ (fit # None /\ f.warn_at = date(warn) /\ f.crit_at = date(crit) /\ f.computed_at = now)
  BY DEF Project, Outlook
<1> QED
  BY <1>1, <1>2, <1>3

LEMMA ForecastInitSound == ForecastInit => ForecastInv
BY ForecastAssumption DEF ForecastInit, ForecastInv, ForecastType, Forecasted, Levels

\* A poll stores a result.
LEMMA RecordSound ==
  ASSUME ForecastInv, NEW value \in Int \union {None}, NEW result \in {"ok", "fail"},
         Record(result, value)
  PROVE  ForecastInv'
<1> USE DEF ForecastInv
<1> DEFINE verdict == Applied(limits, CheckResult(result, value))
           row == [result |-> verdict.result, value |-> verdict.value, at |-> now]
<1>1. verdict.result \in {"ok", "warn", "fail"} /\ verdict.value = value
  BY DEF Applied, CheckResult
<1>2. row \in Row
  BY <1>1 DEF ForecastType, Row
<1>3. rows' \in Seq(Row)
  <2>1. rows' = Append(rows, row)
    BY DEF Record
  <2> HIDE DEF row
  <2> QED
    BY <1>2, <2>1, AppendProperties DEF ForecastType
<1>4. UNCHANGED <<now, limits, forecast>>
  BY DEF Record
<1> QED
  BY <1>3, <1>4 DEF ForecastType, Forecasted, Ahead

LEMMA RefreshSound ==
  ASSUME ForecastInv, Refresh
  PROVE  ForecastInv'
<1>1. Ahead(Project(Series(Usable)))
  BY SeriesIsPoints, ProjectAhead DEF ForecastInv, Refresh
<1>2. limits # None /\ forecast' = Project(Series(Usable)) /\ UNCHANGED <<now, rows, limits>>
  BY DEF Refresh
<1> QED
  BY <1>1, <1>2 DEF ForecastInv, ForecastType, Forecasted, Ahead

LEMMA MaintainSound ==
  ASSUME ForecastInv, Maintain
  PROVE  ForecastInv'
<1> DEFINE kept == [i \in DOMAIN rows |-> IF rows[i].at >= now - Retention THEN rows[i] ELSE None]
<1>1. rows' = Present(kept) /\ UNCHANGED <<now, limits>>
      /\ forecast' = IF limits = None THEN forecast ELSE Project(Series(Usable))
  BY DEF Maintain
<1>2. rows' \in Seq(Row)
  <2>1. rows \in Seq(Row) /\ Len(rows) \in Nat /\ DOMAIN rows = 1..Len(rows)
        /\ \A i \in DOMAIN rows : rows[i] \in Row
    BY LenProperties, ElementOfSeq DEF ForecastInv, ForecastType
  <2>2. kept \in [1..Len(rows) -> Row \union {None}]
    BY <2>1
  <2> HIDE DEF kept
  <2>3. kept \in Seq(Row \union {None})
    BY <2>1, <2>2, IsSequence
  <2> QED
    BY <1>1, <2>3, PresentItems
<1>3. limits # None => Ahead(Project(Series(Usable)))
  BY SeriesIsPoints, ProjectAhead DEF ForecastInv
<1> QED
  BY <1>1, <1>2, <1>3 DEF ForecastInv, ForecastType, Forecasted, Ahead

LEMMA ForecastStepSound == ForecastInv /\ [ForecastNext]_forecastVars => ForecastInv'
<1> SUFFICES ASSUME ForecastInv, [ForecastNext]_forecastVars PROVE ForecastInv'
  OBVIOUS
<1>1. CASE Later
  BY <1>1 DEF Later, ForecastInv, ForecastType, Forecasted, Ahead
<1>2. CASE Refresh
  BY <1>2, RefreshSound
<1>3. CASE Maintain
  BY <1>3, MaintainSound
<1>4. ASSUME NEW value \in Values \union {None}, Record("ok", value) PROVE ForecastInv'
  BY <1>4, RecordSound, ForecastAssumption
<1>5. CASE Record("fail", None)
  BY <1>5, RecordSound
<1>6. CASE UNCHANGED forecastVars
  BY <1>6 DEF forecastVars, ForecastInv, ForecastType, Forecasted, Ahead
<1> QED
  BY <1>1, <1>2, <1>3, <1>4, <1>5, <1>6 DEF ForecastNext

THEOREM ForecastInvariance == ForecastSpec => []ForecastInv
BY ForecastInitSound, ForecastStepSound, PTL DEF ForecastSpec

\* For every history and all thresholds: a date is never one that has passed, never
\* beyond the horizon, and the milder threshold is not met after the other one.
\* (forecast.py:83-92, 114-120)
THEOREM DatesRight == ForecastSpec => []DatesAreAhead
<1>1. ForecastInv => DatesAreAhead
  BY DEF ForecastInv, Forecasted, Ahead, DatesAreAhead
<1> QED
  BY <1>1, ForecastInvariance, PTL

-----------------------------------------------------------------------------
(* The line of least squares.  With n points, the residuals of the fitted line, *)
(* n * sxx times as large as they are, add up to zero, and so do their products *)
(* with the times: hence the squared error of any other line is that of the     *)
(* fitted one and what the lines differ by, squared.                            *)

LEMMA ResidualsAddUp ==
  ASSUME NEW n \in Int, NEW sxx \in Int, NEW sxy \in Int, NEW v \in Int, NEW t \in Int, NEW k \in Int,
         k = n * (sxy * t - v * sxx)
  PROVE  (n * sxx) * v + ((- (n * sxy)) * t + k) = 0
<1>1. /\ n * (sxy * t - v * sxx) = n * (sxy * t) - n * (v * sxx)
      /\ (n * sxx) * v = n * (v * sxx) /\ (- (n * sxy)) * t = - (n * (sxy * t))
  OBVIOUS
<1>2. n * (sxy * t) \in Int /\ n * (v * sxx) \in Int
  OBVIOUS
<1> QED
  BY <1>1, <1>2

\* The sums of a fit: q and p are those of the squared times and of times with values.
SumsOfFit(n, t, v, sxx, sxy, q, p) ==
  /\ n \in Int /\ t \in Int /\ v \in Int /\ sxx \in Int /\ sxy \in Int /\ q \in Int /\ p \in Int
  /\ sxx = n * q - t * t /\ sxy = n * p - t * v

LEMMA ResidualsTimesTimesAddUp ==
  ASSUME NEW n, NEW sxx, NEW sxy, NEW v, NEW t, NEW q, NEW p, SumsOfFit(n, t, v, sxx, sxy, q, p)
  PROVE  (n * sxx) * p + ((- (n * sxy)) * q + (sxy * t - v * sxx) * t) = 0
<1> USE DEF SumsOfFit
<1>1. /\ (n * sxx) * p = sxx * (n * p) /\ (- (n * sxy)) * q = - (sxy * (n * q))
      /\ (sxy * t - v * sxx) * t = sxy * (t * t) - sxx * (t * v)
  OBVIOUS
<1>2. /\ sxx * (n * p) - sxx * (t * v) = sxx * sxy
      /\ sxy * (n * q) - sxy * (t * t) = sxy * sxx
  <2>1. sxx * (n * p - t * v) = sxx * (n * p) - sxx * (t * v)
        /\ sxy * (n * q - t * t) = sxy * (n * q) - sxy * (t * t)
    OBVIOUS
  <2> QED
    BY <2>1
<1>3. sxx * sxy = sxy * sxx
  OBVIOUS
<1>4. {sxx * (n * p), sxy * (n * q), sxy * (t * t), sxx * (t * v), sxx * sxy} \subseteq Int
  OBVIOUS
<1> QED
  BY <1>1, <1>2, <1>3, <1>4

\* The products of the items of two sequences, and their combination.
Products(f, g) == [i \in DOMAIN f |-> f[i] * g[i]]
Combination(a, f, b, g) == [i \in DOMAIN f |-> a * f[i] + b * g[i]]

LEMMA ProductsItems ==
  ASSUME NEW f \in Seq(Int), NEW g \in Seq(Int), Len(f) = Len(g)
  PROVE  /\ Products(f, g) \in Seq(Int) /\ Len(Products(f, g)) = Len(f)
         /\ \A i \in 1..Len(f) : Products(f, g)[i] = f[i] * g[i]
<1>1. DOMAIN f = 1..Len(f) /\ \A i \in 1..Len(f) : f[i] \in Int /\ g[i] \in Int
  BY LenProperties, ElementOfSeq
<1>2. Products(f, g) \in [DOMAIN f -> Int] /\ \A i \in 1..Len(f) : Products(f, g)[i] = f[i] * g[i]
  BY <1>1 DEF Products
<1> QED
  BY <1>2, EachItem

LEMMA CombinationItems ==
  ASSUME NEW f \in Seq(Int), NEW g \in Seq(Int), Len(f) = Len(g), NEW a \in Int, NEW b \in Int
  PROVE  Combines(Combination(a, f, b, g), a, f, b, g)
<1> DEFINE h == Combination(a, f, b, g)
<1>1. DOMAIN f = 1..Len(f) /\ \A i \in 1..Len(f) : f[i] \in Int /\ g[i] \in Int
  BY LenProperties, ElementOfSeq
<1>2. h \in [DOMAIN f -> Int] /\ \A i \in 1..Len(f) : h[i] = a * f[i] + b * g[i]
  BY <1>1 DEF Combination
<1> HIDE DEF h
<1>3. h \in Seq(Int) /\ Len(h) = Len(f)
  BY <1>2, EachItem
<1> QED
  BY <1>2, <1>3 DEF Combines, h

\* d times e is s times r and something that is linear in x.
Shifted(d, e, s, r, l, b, x, a) ==
  {d, e, s, r, l, a, b, x} \subseteq Int /\ d * e = s * r + l /\ l = b * x + a

LEMMA SquareOfSum ==
  ASSUME NEW d, NEW e, NEW s, NEW r, NEW l, NEW a, NEW b, NEW x, Shifted(d, e, s, r, l, b, x, a)
  PROVE  (d * d) * (e * e) = 1 * ((2 * (s * b)) * (r * x) + (2 * (s * a)) * r) + 1 * ((s * s) * (r * r) + 1 * (l * l))
<1> USE DEF Shifted
<1>1. (d * d) * (e * e) = (d * e) * (d * e)
  OBVIOUS
<1>2. (s * r + l) * (s * r + l) = (s * s) * (r * r) + 2 * ((s * r) * l) + l * l
  OBVIOUS
<1>3. (s * r) * (b * x + a) = (s * b) * (r * x) + (s * a) * r
  OBVIOUS
<1>4. {(s * s) * (r * r), (s * b) * (r * x), (s * a) * r, l * l} \subseteq Int
  OBVIOUS
<1>5. (2 * (s * b)) * (r * x) = 2 * ((s * b) * (r * x)) /\ (2 * (s * a)) * r = 2 * ((s * a) * r)
  OBVIOUS
<1> QED
  BY <1>1, <1>2, <1>3, <1>4, <1>5

\* If what e and r differ by is a line in x, and r adds up to zero on its own and times
\* x, then the squares of e are no smaller than those of r.
LEMMA Projection ==
  ASSUME NEW r \in Seq(Int), NEW x \in Seq(Int), NEW e \in Seq(Int), Len(x) = Len(r), Len(e) = Len(r),
         NEW d \in Int, NEW s \in Int, NEW a \in Int, NEW b \in Int,
         \A i \in 1..Len(r) : d * e[i] = s * r[i] + (b * x[i] + a),
         Sum(r) = 0, Sum(Products(r, x)) = 0
  PROVE  Sum(Products(r, r)) * (s * s) <= Sum(Products(e, e)) * (d * d)
<1> DEFINE n    == Len(r)
           rr   == Products(r, r)
           rx   == Products(r, x)
           ee   == Products(e, e)
           l    == [i \in DOMAIN r |-> b * x[i] + a]
           ll   == Products(l, l)
           zero == Combination(2 * (s * b), rx, 2 * (s * a), r)
           rest == Combination(s * s, rr, 1, ll)
           both == Combination(1, zero, 1, rest)
<1>1. n \in Nat /\ DOMAIN r = 1..n /\ \A i \in 1..n : r[i] \in Int /\ x[i] \in Int /\ e[i] \in Int
  BY LenProperties, ElementOfSeq
<1>2. l \in Seq(Int) /\ Len(l) = n /\ \A i \in 1..n : l[i] = b * x[i] + a
  <2>1. l \in [DOMAIN r -> Int] /\ \A i \in 1..n : l[i] = b * x[i] + a
    <3>1. \A i \in 1..n : b * x[i] \in Int
      BY <1>1, ClosedInt, Zenon
    <3>2. \A i \in 1..n : b * x[i] + a \in Int
      BY <3>1, ClosedInt, Zenon
    <3> QED
      BY <1>1, <3>2
  <2> HIDE DEF l
  <2> QED
    BY <2>1, EachItem
<1> HIDE DEF l
<1>3. /\ rr \in Seq(Int) /\ Len(rr) = n /\ \A i \in 1..n : rr[i] = r[i] * r[i]
      /\ rx \in Seq(Int) /\ Len(rx) = n /\ \A i \in 1..n : rx[i] = r[i] * x[i]
      /\ ee \in Seq(Int) /\ Len(ee) = n /\ \A i \in 1..n : ee[i] = e[i] * e[i]
      /\ ll \in Seq(Int) /\ Len(ll) = n /\ \A i \in 1..n : ll[i] = l[i] * l[i]
  <2>1. /\ rr \in Seq(Int) /\ Len(rr) = n /\ \A i \in 1..n : rr[i] = r[i] * r[i]
    BY ProductsItems
  <2>2. rx \in Seq(Int) /\ Len(rx) = n /\ \A i \in 1..n : rx[i] = r[i] * x[i]
    BY ProductsItems
  <2>3. ee \in Seq(Int) /\ Len(ee) = n /\ \A i \in 1..n : ee[i] = e[i] * e[i]
    BY ProductsItems
  <2>4. ll \in Seq(Int) /\ Len(ll) = n /\ \A i \in 1..n : ll[i] = l[i] * l[i]
    <3>1. ll \in Seq(Int) /\ Len(ll) = Len(l) /\ \A i \in 1..Len(l) : ll[i] = l[i] * l[i]
      BY <1>2, ProductsItems, Zenon
    <3> QED
      BY <1>2, <3>1
  <2> QED
    BY <2>1, <2>2, <2>3, <2>4
<1> HIDE DEF rr, rx, ee, ll
<1>4. 2 * (s * b) \in Int /\ 2 * (s * a) \in Int /\ s * s \in Int /\ d * d \in Int /\ 1 \in Int /\ 0 \in Int
  OBVIOUS
<1>5. Combines(zero, 2 * (s * b), rx, 2 * (s * a), r)
  <2> DEFINE k == 2 * (s * b)
             m == 2 * (s * a)
  <2>1. k \in Int /\ m \in Int /\ rx \in Seq(Int) /\ r \in Seq(Int) /\ Len(rx) = Len(r)
    BY <1>3, <1>4
  <2> HIDE DEF k, m, n
  <2>2. Combines(Combination(k, rx, m, r), k, rx, m, r)
    BY <2>1, CombinationItems
  <2> QED
    BY <2>2 DEF k, m
<1>6. Combines(rest, s * s, rr, 1, ll)
  <2> DEFINE k == s * s
  <2>1. k \in Int /\ 1 \in Int /\ rr \in Seq(Int) /\ ll \in Seq(Int) /\ Len(rr) = Len(ll)
    BY <1>3, <1>4
  <2> HIDE DEF k, n
  <2>2. Combines(Combination(k, rr, 1, ll), k, rr, 1, ll)
    BY <2>1, CombinationItems
  <2> QED
    BY <2>2 DEF k
<1>7. Combines(both, 1, zero, 1, rest)
  <2>1. zero \in Seq(Int) /\ rest \in Seq(Int) /\ Len(zero) = Len(rest)
    BY <1>3, <1>5, <1>6 DEF Combines
  <2> HIDE DEF zero, rest
  <2> QED
    BY <1>4, <2>1, CombinationItems
<1> HIDE DEF zero, rest, both
<1>8. \A i \in 1..n : both[i] = (d * d) * ee[i] + 0 * ee[i]
  <2> TAKE i \in 1..n
  <2> DEFINE ri == r[i]
             xi == x[i]
             ei == e[i]
             li == l[i]
  <2>1. ri \in Int /\ xi \in Int /\ ei \in Int /\ d * ei = s * ri + li /\ li = b * xi + a
    BY <1>1, <1>2
  <2>2. /\ ee[i] = ei * ei
        /\ both[i] = 1 * ((2 * (s * b)) * (ri * xi) + (2 * (s * a)) * ri) + 1 * ((s * s) * (ri * ri) + 1 * (li * li))
    <3>1. ee[i] = ei * ei /\ rx[i] = ri * xi /\ rr[i] = ri * ri /\ ll[i] = li * li
      BY <1>3
    <3>2. Len(zero) = n /\ Len(rest) = n /\ Len(both) = n
      BY <1>3, <1>5, <1>6, <1>7 DEF Combines
    <3>3. both[i] = 1 * zero[i] + 1 * rest[i]
      BY <1>7, <3>2 DEF Combines
    <3>4. zero[i] = (2 * (s * b)) * rx[i] + (2 * (s * a)) * ri
      BY <1>5, <3>2 DEF Combines
    <3>5. rest[i] = (s * s) * rr[i] + 1 * ll[i]
      BY <1>6, <3>2 DEF Combines
    <3> HIDE DEF ri, xi, ei, li
    <3> QED
      BY <3>1, <3>3, <3>4, <3>5
  <2> HIDE DEF ri, xi, ei, li
  <2>3. li \in Int
    BY <2>1
  <2>4. (d * d) * (ei * ei) = 1 * ((2 * (s * b)) * (ri * xi) + (2 * (s * a)) * ri) + 1 * ((s * s) * (ri * ri) + 1 * (li * li))
    <3>1. Shifted(d, ei, s, ri, li, b, xi, a)
      BY <2>1, <2>3 DEF Shifted
    <3> QED
      BY <3>1, SquareOfSum
  <2>5. (d * d) * (ei * ei) \in Int /\ 0 * (ei * ei) = 0
    BY <2>1
  <2> QED
    BY <2>2, <2>4, <2>5
<1>9. Sum(both) = (d * d) * Sum(ee) + 0 * Sum(ee)
  <2> DEFINE k == d * d
  <2>1. k \in Int
    BY <1>4
  <2> HIDE DEF k
  <2>2. Combines(both, k, ee, 0, ee)
    BY <1>3, <1>4, <1>6, <1>7, <1>8, <2>1 DEF Combines, k
  <2> QED
    BY <2>2, SumLinear DEF k
<1>10. Sum(ll) >= 0
  <2>1. \A i \in 1..n : ll[i] >= 0
    <3> TAKE i \in 1..n
    <3> DEFINE y == l[i]
    <3>1. y \in Int /\ ll[i] = y * y
      BY <1>2, <1>3, ElementOfSeq
    <3> HIDE DEF y
    <3>2. y * y >= 0
      BY <3>1
    <3> QED
      BY <3>1, <3>2
  <2> QED
    BY <1>3, <2>1, SumNotNegative
<1> DEFINE S1 == Sum(rr)
           S2 == Sum(ee)
           S3 == Sum(ll)
<1>11. S1 \in Int /\ S2 \in Int /\ S3 \in Int
  BY <1>3, SumType
<1>12. /\ Sum(zero) = (2 * (s * b)) * Sum(rx) + (2 * (s * a)) * Sum(r)
       /\ Sum(rest) = (s * s) * Sum(rr) + 1 * Sum(ll)
       /\ Sum(both) = 1 * Sum(zero) + 1 * Sum(rest)
  BY <1>5, <1>6, <1>7, SumLinear
<1>13. Sum(zero) = 0
  BY <1>4, <1>12 DEF rx
<1> HIDE DEF S1, S2, S3
<1>14. 1 * 0 + 1 * ((s * s) * S1 + 1 * S3) = (d * d) * S2 + 0 * S2
  BY <1>9, <1>12, <1>13 DEF S1, S2, S3
<1>15. S1 * (s * s) <= S2 * (d * d)
  <2>1. /\ S1 * (s * s) \in Int /\ S2 * (d * d) \in Int
        /\ (s * s) * S1 = S1 * (s * s) /\ (d * d) * S2 = S2 * (d * d) /\ 0 * S2 = 0
    BY <1>11
  <2>2. S3 >= 0
    BY <1>10 DEF S3
  <2> QED
    BY <1>11, <1>14, <2>1, <2>2
<1> QED
  BY <1>15 DEF S1, S2, rr, ee

\* The numbers of a fitted line, of another one and of a point.
TwoLines(d, m, k, s, u, g, first, x, y) ==
  /\ d \in Int /\ m \in Int /\ k \in Int /\ s \in Int /\ u \in Int /\ g \in Int
  /\ first \in Int /\ x \in Int /\ y \in Int

LEMMA LinesDiffer ==
  ASSUME NEW d, NEW s, NEW m, NEW k, NEW u, NEW g, NEW first, NEW x, NEW y,
         TwoLines(d, m, k, s, u, g, first, x, y)
  PROVE  d * ((y - u) * s - g * (x - first))
           = s * (d * y + ((- m) * x + k)) + ((s * m - d * g) * x + (d * (g * first) - d * (u * s) - s * k))
<1> USE DEF TwoLines
<1>1. d * ((y - u) * s - g * (x - first)) = d * (y * s) - d * (u * s) - d * (g * x) + d * (g * first)
  <2>1. (y - u) * s = y * s - u * s /\ g * (x - first) = g * x - g * first
    OBVIOUS
  <2>2. {y * s, u * s, g * x, g * first} \subseteq Int
    OBVIOUS
  <2>3. d * ((y * s - u * s) - (g * x - g * first)) = d * (y * s) - d * (u * s) - d * (g * x) + d * (g * first)
    BY <2>2
  <2> QED
    BY <2>1, <2>3
<1>2. s * (d * y + ((- m) * x + k)) = d * (y * s) - (s * m) * x + s * k
  OBVIOUS
<1>3. (s * m - d * g) * x = (s * m) * x - d * (g * x)
  OBVIOUS
<1>4. {d * (y * s), d * (u * s), d * (g * x), d * (g * first), (s * m) * x, s * k} \subseteq Int
  OBVIOUS
<1> QED
  BY <1>1, <1>2, <1>3, <1>4

\* The numbers of a fit and of a point.
FitAt(n, t, v, sxx, sxy, x, y) ==
  n \in Int /\ t \in Int /\ v \in Int /\ sxx \in Int /\ sxy \in Int /\ x \in Int /\ y \in Int

LEMMA ResidualValue ==
  ASSUME NEW n, NEW t, NEW v, NEW sxx, NEW sxy, NEW x, NEW y, FitAt(n, t, v, sxx, sxy, x, y)
  PROVE  y * n * sxx - (v * sxx + sxy * (n * x - t)) = (n * sxx) * y + ((- (n * sxy)) * x + (sxy * t - v * sxx))
<1> USE DEF FitAt
<1>1. y * n * sxx = (n * sxx) * y
  OBVIOUS
<1>2. sxy * (n * x - t) = (n * sxy) * x - sxy * t /\ (- (n * sxy)) * x = - ((n * sxy) * x)
  OBVIOUS
<1>3. (n * sxx) * y \in Int /\ (n * sxy) * x \in Int /\ sxy * t \in Int /\ v * sxx \in Int
  OBVIOUS
<1> QED
  BY <1>1, <1>2, <1>3

\* The fitted line has the least squared error of all lines through two values.
LEMMA ClosestLine ==
  ASSUME NEW points \in Points, Fit(points) # None, NEW u \in Int, NEW w \in Int
  PROVE  LET fit == Fit(points)
         IN  FitError(points, fit) * Squared(fit.span)
               <= LineError(points, u, w, fit.span) * Squared(fit.n * fit.sxx)
<1> DEFINE fit == Fit(points)
           ts  == [i \in DOMAIN points |-> points[i].t]
           vs  == [i \in DOMAIN points |-> points[i].v]
           n   == fit.n
           t   == fit.t
           v   == fit.v
           sxx == fit.sxx
           sxy == fit.sxy
           s   == fit.span
           tt  == Products(ts, ts)
           tv  == Products(ts, vs)
           k   == sxy * t - v * sxx
           m   == n * sxy
           d   == n * sxx
           ks  == [i \in DOMAIN points |-> k]
           part == Combination(- m, ts, 1, ks)
           r    == Combination(d, vs, 1, part)
           turn == Combination(- m, tt, k, ts)
           rt   == Products(r, ts)
           e    == [i \in DOMAIN points |-> (points[i].v - u) * s - (w - u) * (points[i].t - points[1].t)]
<1>1. /\ ts \in Seq(Int) /\ vs \in Seq(Int) /\ Len(ts) = Len(points) /\ Len(vs) = Len(points)
      /\ n = Len(points) /\ n \in Int /\ n > 0 /\ t = Sum(ts) /\ v = Sum(vs)
      /\ sxx = Spread(ts, ts) /\ sxy = Spread(ts, vs)
      /\ {t, v, sxx, sxy, s} \subseteq Int
  BY FitFacts
<1>2. DOMAIN points = 1..Len(points) /\ Len(points) \in Nat
      /\ \A i \in 1..Len(points) : points[i].t = ts[i] /\ points[i].v = vs[i] /\ ts[i] \in Int /\ vs[i] \in Int
  <2>1. DOMAIN points = 1..Len(points) /\ Len(points) \in Nat
    BY LenProperties DEF Points
  <2>2. \A i \in 1..Len(points) : points[i].t = ts[i] /\ points[i].v = vs[i]
    BY <2>1
  <2> HIDE DEF ts, vs
  <2> QED
    BY <1>1, <2>1, <2>2, ElementOfSeq
<1>3. Spread(ts, ts) = Len(ts) * Sum(tt) - Sum(ts) * Sum(ts)
      /\ Spread(ts, vs) = Len(ts) * Sum(tv) - Sum(ts) * Sum(vs)
  BY DEF Spread, Products
<1> HIDE DEF fit, ts, vs
<1>4. /\ tt \in Seq(Int) /\ Len(tt) = Len(ts) /\ \A i \in 1..Len(ts) : tt[i] = ts[i] * ts[i]
      /\ tv \in Seq(Int) /\ Len(tv) = Len(ts) /\ \A i \in 1..Len(ts) : tv[i] = ts[i] * vs[i]
  <2>1. tt \in Seq(Int) /\ Len(tt) = Len(ts) /\ \A i \in 1..Len(ts) : tt[i] = ts[i] * ts[i]
    BY <1>1, ProductsItems
  <2>2. tv \in Seq(Int) /\ Len(tv) = Len(ts) /\ \A i \in 1..Len(ts) : tv[i] = ts[i] * vs[i]
    BY <1>1, ProductsItems
  <2> QED
    BY <2>1, <2>2
<1>5. k \in Int /\ m \in Int /\ d \in Int /\ - m \in Int
  <2>1. n \in Int /\ t \in Int /\ v \in Int /\ sxx \in Int /\ sxy \in Int
    BY <1>1
  <2> HIDE DEF n, t, v, sxx, sxy
  <2>2. sxy * t \in Int /\ v * sxx \in Int
    BY <2>1
  <2>3. m \in Int /\ d \in Int
    BY <2>1
  <2> QED
    BY <2>2, <2>3
<1> DEFINE q == Sum(tt)
           p == Sum(tv)
<1>6. q \in Int /\ p \in Int /\ sxx = n * q - t * t /\ sxy = n * p - t * v
  BY <1>1, <1>3, <1>4, SumType
<1> HIDE DEF n, t, v, sxx, sxy, s, tt, tv
<1>7. /\ ks \in Seq(Int) /\ Len(ks) = Len(ts) /\ Sum(ks) = n * k
      /\ \A i \in 1..Len(ts) : ks[i] = k
  <2>1. ks \in [1..n -> Int] /\ \A i \in 1..n : ks[i] = k
    BY <1>1, <1>2, <1>5
  <2> HIDE DEF ks, k
  <2>2. ks \in Seq(Int) /\ Len(ks) = n
    BY <1>1, <1>2, <1>5, <2>1, IsSequence
  <2> QED
    BY <1>1, <1>5, <2>1, <2>2, SumConstant
<1> HIDE DEF k, m, d, ks
<1>8. Combines(part, - m, ts, 1, ks)
  BY <1>1, <1>5, <1>7, CombinationItems
<1> HIDE DEF part
<1>9. Combines(r, d, vs, 1, part)
  <2>1. part \in Seq(Int) /\ Len(part) = Len(vs)
    BY <1>1, <1>7, <1>8 DEF Combines
  <2> QED
    BY <1>1, <1>5, <2>1, CombinationItems
<1>10. Combines(turn, - m, tt, k, ts)
  BY <1>1, <1>4, <1>5, CombinationItems
<1> HIDE DEF r, turn
<1>11. /\ r \in Seq(Int) /\ Len(r) = n
       /\ \A i \in 1..n : r[i] = d * vs[i] + ((- m) * ts[i] + k)
  <2>1. r \in Seq(Int) /\ Len(r) = n /\ Len(part) = n
    BY <1>1, <1>8, <1>9 DEF Combines
  <2> SUFFICES ASSUME NEW i \in 1..n PROVE r[i] = d * vs[i] + ((- m) * ts[i] + k)
    BY <2>1
  <2>2. r[i] = d * vs[i] + 1 * part[i] /\ part[i] = (- m) * ts[i] + 1 * ks[i] /\ ks[i] = k
    BY <1>1, <1>7, <1>8, <1>9, <2>1 DEF Combines
  <2>3. (- m) * ts[i] \in Int
    <3>1. ts[i] \in Int
      BY <1>1, <1>2
    <3> QED
      BY <1>5, <3>1, ClosedInt, Zenon
  <2> QED
    BY <1>5, <2>2, <2>3
<1>12. Sum(r) = 0
  <2>1. Sum(r) = d * v + 1 * Sum(part) /\ Sum(part) = (- m) * t + 1 * (n * k)
    BY <1>1, <1>7, <1>8, <1>9, SumLinear
  <2>2. d * v + ((- m) * t + n * k) = 0
    <3>1. n \in Int /\ sxx \in Int /\ sxy \in Int /\ v \in Int /\ t \in Int
      BY <1>1
    <3>2. n * (sxy * t - v * sxx) \in Int
      BY <3>1, ClosedInt, Zenon
    <3>3. (n * sxx) * v + ((- (n * sxy)) * t + n * (sxy * t - v * sxx)) = 0
      BY <3>1, <3>2, ResidualsAddUp
    <3> QED
      BY <3>3 DEF d, m, k
  <2>3. n * k \in Int /\ (- m) * t \in Int
    BY <1>1, <1>5
  <2> QED
    BY <2>1, <2>2, <2>3
<1>13. rt \in Seq(Int) /\ Len(rt) = n /\ \A i \in 1..n : rt[i] = r[i] * ts[i]
  <2>1. Len(r) = Len(ts)
    BY <1>1, <1>11
  <2> QED
    BY <1>1, <1>11, <2>1, ProductsItems
<1>14. Combines(rt, d, tv, 1, turn)
  <2>1. turn \in Seq(Int) /\ Len(turn) = n
    BY <1>1, <1>10 DEF Combines
  <2>2. ASSUME NEW i \in 1..n PROVE rt[i] = d * tv[i] + 1 * turn[i]
    <3> DEFINE x == ts[i]
               y == vs[i]
    <3>1. x \in Int /\ y \in Int
      BY <1>1, <1>2
    <3>2. rt[i] = (d * y + ((- m) * x + k)) * x /\ tv[i] = x * y
      BY <1>1, <1>4, <1>11, <1>13
    <3>3. turn[i] = (- m) * (x * x) + k * x
      BY <1>1, <1>4, <1>10, <2>1 DEF Combines
    <3> HIDE DEF x, y
    <3>4. (d * y + ((- m) * x + k)) * x = d * (x * y) + 1 * ((- m) * (x * x) + k * x)
      BY <1>5, <3>1
    <3> HIDE DEF rt
    <3> QED
      BY <3>2, <3>3, <3>4
  <2> HIDE DEF rt
  <2> QED
    BY <1>1, <1>4, <1>5, <1>13, <2>1, <2>2 DEF Combines
<1>15. Sum(rt) = 0
  <2>1. Sum(rt) = d * p + 1 * Sum(turn) /\ Sum(turn) = (- m) * q + k * t
    <3> HIDE DEF rt
    <3> QED
      BY <1>1, <1>10, <1>14, SumLinear
  <2> HIDE DEF p, q
  <2>2. d * p + ((- m) * q + k * t) = 0
    <3>1. SumsOfFit(n, t, v, sxx, sxy, q, p)
      BY <1>1, <1>6 DEF SumsOfFit
    <3> QED
      BY <3>1, ResidualsTimesTimesAddUp DEF d, m, k
  <2>3. (- m) * q \in Int /\ k * t \in Int
    BY <1>1, <1>5, <1>6
  <2> QED
    BY <2>1, <2>2, <2>3
<1> DEFINE g == w - u
           first == points[1].t
<1>16. first \in Int /\ g \in Int
  BY <1>1, <1>2
<1>17. e \in Seq(Int) /\ Len(e) = n /\ \A i \in 1..n : e[i] = (vs[i] - u) * s - g * (ts[i] - first)
  <2>1. e = [i \in 1..n |-> (vs[i] - u) * s - g * (ts[i] - first)]
    BY <1>1, <1>2
  <2> HIDE DEF e, g, first
  <2>2. \A i \in 1..n : (vs[i] - u) * s - g * (ts[i] - first) \in Int
    <3> TAKE i \in 1..n
    <3> DEFINE x == ts[i]
               y == vs[i]
    <3>1. x \in Int /\ y \in Int
      BY <1>1, <1>2
    <3> HIDE DEF x, y
    <3>2. (y - u) * s - g * (x - first) \in Int
      <4>1. s \in Int /\ y - u \in Int /\ x - first \in Int
        <5>1. s \in Int
          BY <1>1
        <5> QED
          BY <1>16, <3>1, <5>1
      <4>2. (y - u) * s \in Int /\ g * (x - first) \in Int
        BY <1>16, <4>1
      <4> QED
        BY <4>2
    <3> QED
      BY <3>2 DEF x, y
  <2>3. e \in [1..n -> Int] /\ \A i \in 1..n : e[i] = (vs[i] - u) * s - g * (ts[i] - first)
    BY <2>1, <2>2
  <2> QED
    BY <1>1, <1>2, <2>3, IsSequence
<1> HIDE DEF g, first, e
<1> DEFINE b == s * m - d * g
           a == d * (g * first) - d * (u * s) - s * k
<1>18. b \in Int /\ a \in Int
  <2>1. s * m \in Int /\ d * g \in Int /\ g * first \in Int /\ u * s \in Int /\ s * k \in Int
    <3>1. s \in Int
      BY <1>1
    <3> QED
      BY <1>5, <1>16, <3>1, ClosedInt, Zenon
  <2>2. d * (g * first) \in Int /\ d * (u * s) \in Int
    BY <1>5, <2>1
  <2> QED
    BY <2>1, <2>2
<1>19. \A i \in 1..n : d * e[i] = s * r[i] + (b * ts[i] + a)
  <2> TAKE i \in 1..n
  <2> DEFINE x == ts[i]
             y == vs[i]
  <2>1. x \in Int /\ y \in Int
    BY <1>1, <1>2
  <2>2. e[i] = (y - u) * s - g * (x - first) /\ r[i] = d * y + ((- m) * x + k)
    BY <1>11, <1>17
  <2> HIDE DEF x, y
  <2>3. d * ((y - u) * s - g * (x - first)) = s * (d * y + ((- m) * x + k)) + (b * x + a)
    <3>1. TwoLines(d, m, k, s, u, g, first, x, y)
      BY <1>1, <1>5, <1>16, <2>1 DEF TwoLines
    <3> QED
      BY <3>1, LinesDiffer
  <2> QED
    BY <2>2, <2>3 DEF x
<1>20. Sum(Products(r, r)) * (s * s) <= Sum(Products(e, e)) * (d * d)
  <2>1. Len(ts) = Len(r) /\ Len(e) = Len(r) /\ Sum(Products(r, ts)) = 0
    BY <1>1, <1>11, <1>15, <1>17
  <2> HIDE DEF a, b
  <2> QED
    BY <1>1, <1>5, <1>11, <1>12, <1>17, <1>18, <1>19, <2>1, Projection
<1>21. FitError(points, fit) = Sum(Products(r, r))
  <2>1. DOMAIN r = DOMAIN points
    BY <1>1, <1>2, <1>11, LenProperties
  <2>2. ASSUME NEW i \in DOMAIN points
        PROVE  points[i].v * fit.n * fit.sxx - ValueAt(fit, points[i].t)[1] = r[i]
    <3> DEFINE x == ts[i]
               y == vs[i]
    <3>1. x \in Int /\ y \in Int /\ points[i].v = y /\ points[i].t = x
      BY <1>1, <1>2
    <3>2. r[i] = d * y + ((- m) * x + k)
      BY <1>1, <1>2, <1>11
    <3>3. points[i].v * fit.n * fit.sxx - ValueAt(fit, points[i].t)[1]
            = y * n * sxx - (v * sxx + sxy * (n * x - t))
      BY <3>1 DEF ValueAt, n, v, t, sxx, sxy
    <3> HIDE DEF x, y
    <3>4. y * n * sxx - (v * sxx + sxy * (n * x - t)) = (n * sxx) * y + ((- (n * sxy)) * x + (sxy * t - v * sxx))
      <4>1. FitAt(n, t, v, sxx, sxy, x, y)
        BY <1>1, <3>1 DEF FitAt
      <4> QED
        BY <4>1, ResidualValue
    <3> QED
      BY <3>2, <3>3, <3>4 DEF d, m, k
  <2> QED
    BY <2>1, <2>2 DEF FitError, Squared, Products
<1>22. LineError(points, u, w, s) = Sum(Products(e, e))
  BY DEF LineError, Squared, Products, e
<1> QED
  BY <1>20, <1>21, <1>22 DEF Squared, s, d, n, sxx, fit

\* For every history, whatever hours are missing from it: no line through two of the
\* values the check may find is closer to it than the one that is fitted.
\* (forecast.py:56-80, store.py:95-104)
THEOREM LineIsClosest == ForecastSpec => []NoLineIsCloser
<1>1. ForecastInv => NoLineIsCloser
  <2> SUFFICES ASSUME ForecastInv, Fit(Series(Usable)) # None, NEW u \in Values, NEW w \in Values
               PROVE  LET fit == Fit(Series(Usable))
                      IN  FitError(Series(Usable), fit) * Squared(fit.span)
                            <= LineError(Series(Usable), u, w, fit.span) * Squared(fit.n * fit.sxx)
    BY DEF NoLineIsCloser
  <2>1. Series(Usable) \in Points /\ u \in Int /\ w \in Int
    BY SeriesIsPoints, ForecastAssumption DEF ForecastInv
  <2> QED
    BY <2>1, ClosestLine
<1> QED
  BY <1>1, ForecastInvariance, PTL
=============================================================================
