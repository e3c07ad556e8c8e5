--------------------------- MODULE WorkspaceProofs ---------------------------
(***************************************************************************)
(* What a checkout charges, whom it is paid out to and how often a record  *)
(* is announced, and that the workspace keeps what its components promise. *)
(***************************************************************************)
EXTENDS MCWorkspace, DocumentsProofs, PlaidSyncProofs, SubscriptionsProofs,
        RecordMergeProofs, RecordSharingProofs, PageCachesProofs

-----------------------------------------------------------------------------
(* Sums.  The library adds the elements of a set up in an order that CHOOSE *)
(* fixes; induction goes by the smallest counterexample.                    *)

First(s) == CHOOSE x \in s : TRUE

LEMMA FirstIn == ASSUME NEW s, s # {} PROVE First(s) \in s
BY DEF First

LEMMA LeastNumber ==
  ASSUME NEW T \in SUBSET Nat, T # {}
  PROVE  \E n \in T : \A m \in T : n <= m
<1> DEFINE R == {p \in Nat \X Nat : p[1] < p[2]}
<1>1. IsWellFoundedOn(R, Nat)
  BY NatLessThanWellFounded DEF OpToRel
<1>2. PICK n \in T : \A m \in T : <<m, n>> \notin R
  <2> HIDE DEF R
  <2> QED BY <1>1, WFMin
<1>3. ASSUME NEW m \in T PROVE n <= m
  <2>1. m \in Nat /\ n \in Nat
    OBVIOUS
  <2>2. ~(m < n)
    BY <1>2, <2>1
  <2> QED BY <2>1, <2>2
<1> QED BY <1>3

LEMMA SmallestSubset ==
  ASSUME NEW S, IsFiniteSet(S), NEW T \in SUBSET (SUBSET S), T # {}
  PROVE  \E s \in T : \A t \in SUBSET s : t # s => t \notin T
<1>1. IsWellFoundedOn(StrictSubsetOrdering(S), SUBSET S)
  BY FS_StrictSubsetOrderingWellFounded, FS_FiniteSubsetsOfFinite
<1>2. PICK s \in T : \A t \in T : <<t, s>> \notin StrictSubsetOrdering(S)
  BY <1>1, WFMin
<1>3. ASSUME NEW t \in SUBSET s, t # s, t \in T PROVE FALSE
  BY <1>2, <1>3 DEF StrictSubsetOrdering
<1> QED BY <1>3

\* g adds up f over every subset of S.
Adds(g, f, S) ==
  g = [s \in SUBSET S |-> IF s = {} THEN 0 ELSE f[First(s)] + g[s \ {First(s)}]]

\* So far, for subsets of at most n elements.
AddsTo(n, g, f, S) ==
  \A s \in SUBSET S : Cardinality(s) <= n =>
    g[s] = IF s = {} THEN 0 ELSE f[First(s)] + g[s \ {First(s)}]

LEMMA SmallerRest ==
  ASSUME NEW S, IsFiniteSet(S), NEW s \in SUBSET S
  PROVE  /\ Cardinality(s) \in Nat /\ Cardinality(s) <= Cardinality(S)
         /\ s = {} <=> Cardinality(s) = 0
         /\ s # {} => /\ First(s) \in s /\ s \ {First(s)} \in SUBSET S
                      /\ Cardinality(s \ {First(s)}) = Cardinality(s) - 1
<1>1. IsFiniteSet(s) /\ Cardinality(s) <= Cardinality(S)
  BY FS_Subset
<1>2. Cardinality(s) \in Nat
  BY <1>1, FS_CardinalityType
<1>3. s = {} <=> Cardinality(s) = 0
  BY <1>1, FS_EmptySet
<1>4. s # {} => First(s) \in s
  BY FirstIn
<1>5. s # {} => Cardinality(s \ {First(s)}) = Cardinality(s) - 1
  BY <1>1, <1>4, FS_RemoveElement
<1> QED BY <1>1, <1>2, <1>3, <1>4, <1>5

LEMMA AddsExists ==
  ASSUME NEW S, IsFiniteSet(S), NEW f \in [S -> Int]
  PROVE  \E g : Adds(g, f, S)
<1> DEFINE Bad == {n \in Nat : ~ \E g \in [SUBSET S -> Int] : AddsTo(n, g, f, S)}
<1>1. Bad = {}
  <2> SUFFICES ASSUME Bad # {} PROVE FALSE
    OBVIOUS
  <2>1. PICK n \in Bad : \A m \in Bad : n <= m
    <3>1. Bad \in SUBSET Nat
      OBVIOUS
    <3> HIDE DEF Bad
    <3> QED BY <3>1, LeastNumber
  <2>2. CASE n = 0
    <3> DEFINE g == [s \in SUBSET S |-> 0]
    <3>1. ASSUME NEW s \in SUBSET S, Cardinality(s) <= 0 PROVE s = {}
      <4>1. Cardinality(s) \in Nat /\ (s = {} <=> Cardinality(s) = 0)
        BY SmallerRest
      <4> QED BY <3>1, <4>1
    <3>2. g \in [SUBSET S -> Int] /\ AddsTo(0, g, f, S)
      BY <3>1 DEF AddsTo
    <3> QED BY <2>2, <3>2
  <2>3. CASE n # 0
    <3>1. n - 1 \in Nat /\ n - 1 \notin Bad /\ n \in Nat
      <4>1. n \in Nat
        BY <2>1
      <4>2. n - 1 \in Nat /\ ~(n <= n - 1)
        BY <2>3, <4>1
      <4> HIDE DEF Bad
      <4> QED BY <2>1, <4>1, <4>2
    <3>2. PICK h \in [SUBSET S -> Int] : AddsTo(n - 1, h, f, S)
      BY <3>1
    <3> DEFINE g == [s \in SUBSET S |-> IF s = {} THEN 0 ELSE f[First(s)] + h[s \ {First(s)}]]
    <3>3. g \in [SUBSET S -> Int]
      <4>1. ASSUME NEW s \in SUBSET S
            PROVE  (IF s = {} THEN 0 ELSE f[First(s)] + h[s \ {First(s)}]) \in Int
        <5>1. s # {} => First(s) \in s
          BY FirstIn
        <5>2. s # {} => f[First(s)] \in Int /\ h[s \ {First(s)}] \in Int
          BY <5>1
        <5> QED BY <5>2
      <4> QED BY <4>1
    <3>4. ASSUME NEW s \in SUBSET S, Cardinality(s) <= n - 1 PROVE g[s] = h[s]
      BY <3>2, <3>4 DEF AddsTo
    <3>5. ASSUME NEW s \in SUBSET S, Cardinality(s) <= n
          PROVE  g[s] = IF s = {} THEN 0 ELSE f[First(s)] + g[s \ {First(s)}]
      <4>1. CASE s = {}
        BY <4>1
      <4>2. CASE s # {}
        <5>1. /\ s \ {First(s)} \in SUBSET S
              /\ Cardinality(s \ {First(s)}) <= n - 1
          BY <3>1, <3>5, <4>2, SmallerRest
        <5>2. g[s \ {First(s)}] = h[s \ {First(s)}]
          BY <3>4, <5>1
        <5> QED BY <4>2, <5>2
      <4> QED BY <4>1, <4>2
    <3>6. AddsTo(n, g, f, S)
      <4> HIDE DEF g
      <4> QED BY <3>5 DEF AddsTo
    <3> QED BY <3>3, <3>6
  <2> QED BY <2>2, <2>3
<1>2. Cardinality(S) \in Nat
  BY FS_CardinalityType
<1>3. PICK g \in [SUBSET S -> Int] : AddsTo(Cardinality(S), g, f, S)
  BY <1>1, <1>2
<1>4. \A s \in SUBSET S : g[s] = IF s = {} THEN 0 ELSE f[First(s)] + g[s \ {First(s)}]
  BY <1>3, SmallerRest DEF AddsTo
<1> QED BY <1>4 DEF Adds

\* What a sum is, of nothing and of one more element, whichever it is.
IsSum(g, f, S) ==
  /\ g \in [SUBSET S -> Int] /\ g[{}] = 0
  /\ \A s \in SUBSET S : \A x \in s : g[s] = f[x] + g[s \ {x}]

LEMMA AddsSays ==
  ASSUME NEW S, IsFiniteSet(S), NEW f \in [S -> Int], NEW g, Adds(g, f, S)
  PROVE  IsSum(g, f, S)
<1>1. \A s \in SUBSET S : g[s] = IF s = {} THEN 0 ELSE f[First(s)] + g[s \ {First(s)}]
  BY Zenon DEF Adds
<1>2. DOMAIN g = SUBSET S /\ g = [s \in SUBSET S |-> g[s]]
  BY DEF Adds
<1>3. \A s \in SUBSET S : s # {} => First(s) \in s
  BY FirstIn
<1>4. \A s \in SUBSET S : g[s] \in Int
  <2> DEFINE Bad == {s \in SUBSET S : g[s] \notin Int}
  <2> SUFFICES ASSUME Bad # {} PROVE FALSE
    OBVIOUS
  <2>1. PICK s \in Bad : \A t \in SUBSET s : t # s => t \notin Bad
    <3>1. Bad \in SUBSET (SUBSET S)
      OBVIOUS
    <3> HIDE DEF Bad
    <3> QED BY <3>1, SmallestSubset
  <2>2. s # {}
    BY <1>1
  <2>3. First(s) \in s /\ f[First(s)] \in Int
    BY <1>3, <2>2
  <2>4. g[s \ {First(s)}] \in Int
    BY <2>1, <2>3
  <2> QED BY <1>1, <2>2, <2>3, <2>4
<1>5. \A s \in SUBSET S : \A x \in s : g[s] = f[x] + g[s \ {x}]
  <2> DEFINE Bad == {s \in SUBSET S : ~ \A x \in s : g[s] = f[x] + g[s \ {x}]}
  <2> SUFFICES ASSUME Bad # {} PROVE FALSE
    OBVIOUS
  <2>1. PICK s \in Bad : \A t \in SUBSET s : t # s => t \notin Bad
    <3>1. Bad \in SUBSET (SUBSET S)
      OBVIOUS
    <3> HIDE DEF Bad
    <3> QED BY <3>1, SmallestSubset
  <2>2. PICK x \in s : g[s] # f[x] + g[s \ {x}]
    BY <2>1
  <2> DEFINE a == First(s)
  <2>3. a \in s /\ g[s] = f[a] + g[s \ {a}] /\ a # x
    BY <1>1, <1>3, <2>2
  <2> HIDE DEF a
  <2>4. s \ {a} \notin Bad /\ s \ {x} \notin Bad /\ s \in SUBSET S
    BY <2>1, <2>2, <2>3
  <2>5. g[s \ {a}] = f[x] + g[(s \ {a}) \ {x}] /\ g[s \ {x}] = f[a] + g[(s \ {x}) \ {a}]
    BY <2>2, <2>3, <2>4
  <2>6. (s \ {a}) \ {x} = (s \ {x}) \ {a}
    OBVIOUS
  <2> DEFINE fx == f[x]  fa == f[a]  rest == g[(s \ {x}) \ {a}]
  <2>7. fx \in Int /\ fa \in Int /\ rest \in Int
    BY <1>4, <2>3, <2>4
  <2>8. g[s] = fa + (fx + rest) /\ g[s] # fx + (fa + rest)
    BY <2>2, <2>3, <2>5, <2>6
  <2> HIDE DEF fx, fa, rest
  <2> QED BY <2>7, <2>8
<1> QED BY <1>1, <1>2, <1>4, <1>5 DEF IsSum

\* One more term that is off by lo to hi.
LEMMA OneMoreIn ==
  ASSUME NEW n \in Int, NEW lo \in Int, NEW hi \in Int, NEW k \in Int,
         NEW a \in Int, NEW b \in Int, NEW u \in Int, NEW v \in Int,
         n * lo <= b * k - v, b * k - v <= n * hi, lo <= a * k - u, a * k - u <= hi
  PROVE  /\ (n + 1) * lo <= (a + b) * k - (u + v)
         /\ (a + b) * k - (u + v) <= (n + 1) * hi
OBVIOUS

LEMMA OneMoreOut ==
  ASSUME NEW n \in Int, NEW lo \in Int, NEW hi \in Int, NEW k \in Int,
         NEW b \in Int, NEW u \in Int, NEW v \in Int,
         n * lo <= b * k - v, b * k - v <= n * hi, lo <= -u, -u <= hi
  PROVE  /\ (n + 1) * lo <= b * k - (u + v)
         /\ b * k - (u + v) <= (n + 1) * hi
OBVIOUS

\* Sums whose terms are close are close: B holds what f has terms for.
TermsClose(f, B, w, S, k, lo, hi) ==
  /\ \A i \in B : lo <= f[i] * k - w[i] /\ f[i] * k - w[i] <= hi
  /\ \A i \in S \ B : lo <= -w[i] /\ -w[i] <= hi

SumsWithin(g, B, h, S, k, lo, hi) ==
  \A s \in SUBSET S : /\ Cardinality(s) * lo <= g[s \cap B] * k - h[s]
                      /\ g[s \cap B] * k - h[s] <= Cardinality(s) * hi

LEMMA SumsClose ==
  ASSUME NEW S, IsFiniteSet(S), NEW B \in SUBSET S,
         NEW f \in [B -> Int], NEW g, IsSum(g, f, B),
         NEW w \in [S -> Int], NEW h, IsSum(h, w, S),
         NEW k \in Int, NEW lo \in Int, NEW hi \in Int,
         TermsClose(f, B, w, S, k, lo, hi)
  PROVE  SumsWithin(g, B, h, S, k, lo, hi)
<1> DEFINE Within(s) == /\ Cardinality(s) * lo <= g[s \cap B] * k - h[s]
                       /\ g[s \cap B] * k - h[s] <= Cardinality(s) * hi
           Bad == {s \in SUBSET S : ~Within(s)}
<1>2. /\ g \in [SUBSET B -> Int] /\ g[{}] = 0
      /\ \A s \in SUBSET B : \A x \in s : g[s] = f[x] + g[s \ {x}]
  BY DEF IsSum
<1>3. /\ h \in [SUBSET S -> Int] /\ h[{}] = 0
      /\ \A s \in SUBSET S : \A x \in s : h[s] = w[x] + h[s \ {x}]
  BY DEF IsSum
<1>4. Bad = {}
  <2> SUFFICES ASSUME Bad # {} PROVE FALSE
    OBVIOUS
  <2>1. PICK s \in Bad : \A t \in SUBSET s : t # s => t \notin Bad
    <3>1. Bad \in SUBSET (SUBSET S)
      OBVIOUS
    <3> HIDE DEF Bad
    <3> QED BY <3>1, SmallestSubset
  <2>2. s \in SUBSET S /\ IsFiniteSet(s) /\ ~Within(s)
    BY FS_Subset
  <2>3. CASE s = {}
    <3>1. Cardinality(s) = 0 /\ g[s \cap B] = 0 /\ h[s] = 0
      BY <1>2, <1>3, <2>3, FS_EmptySet
    <3> QED BY <2>2, <3>1
  <2>4. CASE s # {}
    <3>1. PICK x \in s : TRUE
      BY <2>4
    <3> DEFINE t == s \ {x}
    <3>2. t \in SUBSET S /\ t # s /\ Within(t)
      BY <2>1, <2>2
    <3>3. Cardinality(s) = Cardinality(t) + 1 /\ Cardinality(t) \in Int
      <4>1. Cardinality(t) = Cardinality(s) - 1 /\ IsFiniteSet(t)
        BY <2>2, FS_RemoveElement
      <4> QED BY <2>2, <4>1, FS_CardinalityType
    <3>4. h[s] = w[x] + h[t] /\ w[x] \in Int /\ h[t] \in Int
      BY <1>3, <2>2, <3>2
    <3>5. g[t \cap B] \in Int
      BY <1>2
    <3>6. /\ Cardinality(t) * lo <= g[t \cap B] * k - h[t]
          /\ g[t \cap B] * k - h[t] <= Cardinality(t) * hi
      BY <3>2
    <3> HIDE DEF t, Within, Bad
    <3>7. CASE x \in B
      <4>1. g[s \cap B] = f[x] + g[t \cap B] /\ f[x] \in Int
        <5>1. s \cap B \in SUBSET B /\ x \in s \cap B /\ (s \cap B) \ {x} = t \cap B
          BY <3>7 DEF t
        <5> QED BY <1>2, <3>7, <5>1
      <4>2. lo <= f[x] * k - w[x] /\ f[x] * k - w[x] <= hi
        BY <3>7 DEF TermsClose
      <4>3. /\ (Cardinality(t) + 1) * lo <= (f[x] + g[t \cap B]) * k - (w[x] + h[t])
            /\ (f[x] + g[t \cap B]) * k - (w[x] + h[t]) <= (Cardinality(t) + 1) * hi
        BY <3>3, <3>4, <3>5, <3>6, <4>1, <4>2, OneMoreIn
      <4> QED BY <2>2, <3>3, <3>4, <4>1, <4>3 DEF Within
    <3>8. CASE x \notin B
      <4>1. s \cap B = t \cap B
        BY <3>8 DEF t
      <4>2. lo <= -w[x] /\ -w[x] <= hi
        BY <2>2, <3>8 DEF TermsClose
      <4>3. /\ (Cardinality(t) + 1) * lo <= g[t \cap B] * k - (w[x] + h[t])
            /\ g[t \cap B] * k - (w[x] + h[t]) <= (Cardinality(t) + 1) * hi
        BY <3>3, <3>4, <3>5, <3>6, <4>2, OneMoreOut
      <4> QED BY <2>2, <3>3, <3>4, <4>1, <4>3 DEF Within
    <3> QED BY <3>7, <3>8
  <2> QED BY <2>3, <2>4
<1> QED BY <1>4 DEF SumsWithin

LEMMA SumIsNat ==
  ASSUME NEW S, IsFiniteSet(S), NEW f \in [S -> Nat], NEW g, IsSum(g, f, S)
  PROVE  g[S] \in Nat
<1> DEFINE Bad == {s \in SUBSET S : g[s] \notin Nat}
<1> SUFFICES ASSUME Bad # {} PROVE FALSE
  OBVIOUS
<1>1. PICK s \in Bad : \A t \in SUBSET s : t # s => t \notin Bad
  <2>1. Bad \in SUBSET (SUBSET S)
    OBVIOUS
  <2> HIDE DEF Bad
  <2> QED BY <2>1, SmallestSubset
<1>2. PICK x \in s : TRUE
  <2>1. g[{}] = 0 /\ g[s] \notin Nat
    BY <1>1 DEF IsSum
  <2> QED BY <2>1
<1>3. g[s] = f[x] + g[s \ {x}] /\ f[x] \in Nat
  BY <1>1, <1>2 DEF IsSum
<1>4. g[s \ {x}] \in Nat
  BY <1>1, <1>2
<1> QED BY <1>1, <1>3, <1>4

LEMMA SumIsZero ==
  ASSUME NEW S, IsFiniteSet(S), NEW f \in [S -> Int], NEW g, IsSum(g, f, S),
         \A i \in S : f[i] = 0
  PROVE  g[S] = 0
<1> DEFINE Bad == {s \in SUBSET S : g[s] # 0}
<1> SUFFICES ASSUME Bad # {} PROVE FALSE
  OBVIOUS
<1>1. PICK s \in Bad : \A t \in SUBSET s : t # s => t \notin Bad
  <2>1. Bad \in SUBSET (SUBSET S)
    OBVIOUS
  <2> HIDE DEF Bad
  <2> QED BY <2>1, SmallestSubset
<1>2. PICK x \in s : TRUE
  BY <1>1 DEF IsSum
<1>3. g[s] = f[x] + g[s \ {x}] /\ f[x] = 0
  BY <1>1, <1>2 DEF IsSum
<1>4. g[s \ {x}] = 0
  BY <1>1, <1>2
<1> QED BY <1>1, <1>3, <1>4

-----------------------------------------------------------------------------
(* One record.                                                             *)

Rates == {Published, WithoutYen, NoRates}

\* What an amount is worth, in 400000ths of the smallest unit.
WorthOf(b, from, to) ==
  IF from = to THEN b * MinorUnits[to] * 400
  ELSE b * Published[to] * MinorUnits[to] * (400 \div Published[from])

LEMMA RatesAre ==
  ASSUME NEW rates \in Rates, NEW c \in DOMAIN rates
  PROVE  c \in Currencies /\ rates[c] = Published[c]
BY DEF Rates, Currencies, Published, WithoutYen, NoRates

LEMMA WholeUnits ==
  ASSUME NEW q \in Nat
  PROVE  RoundHalfUp(q * 1000, 1000) = q
BY DEF RoundHalfUp

HalfParts == 200000

\* worth is n / d, and q the nearest integer, in parts of 400000.
PartsOf(n, d, worth) ==
  \/ d = 1000 /\ worth = n * 400
  \/ d = 2000 /\ worth = n * 200
  \/ d = 200000 /\ worth = n * 2

Rounds(q, worth) ==
  /\ -HalfParts <= q * Parts - worth /\ q * Parts - worth <= HalfParts
  /\ q = 0 <=> worth < HalfParts

LEMMA RoundingClose ==
  ASSUME NEW n \in Nat, NEW d, NEW worth, PartsOf(n, d, worth)
  PROVE  /\ RoundHalfUp(n, d) \in Nat /\ worth \in Nat
         /\ Rounds(RoundHalfUp(n, d), worth)
<1>1. CASE d = 1000 /\ worth = n * 400
  <2>1. \E q \in Nat : /\ RoundHalfUp(n, d) = q
                       /\ 2000 * q <= 2 * n + 1000 /\ 2 * n + 1000 < 2000 * q + 2000
    BY SMT, <1>1 DEF RoundHalfUp
  <2> QED BY SMT, <1>1, <2>1 DEF Rounds, Parts, HalfParts
<1>2. CASE d = 2000 /\ worth = n * 200
  <2>1. \E q \in Nat : /\ RoundHalfUp(n, d) = q
                       /\ 4000 * q <= 2 * n + 2000 /\ 2 * n + 2000 < 4000 * q + 4000
    BY SMT, <1>2 DEF RoundHalfUp
  <2> QED BY SMT, <1>2, <2>1 DEF Rounds, Parts, HalfParts
<1>3. CASE d = 200000 /\ worth = n * 2
  <2>1. \E q \in Nat : /\ RoundHalfUp(n, d) = q
                       /\ 400000 * q <= 2 * n + 200000
                       /\ 2 * n + 200000 < 400000 * q + 400000
    BY SMT, <1>3 DEF RoundHalfUp
  <2> QED BY SMT, <1>3, <2>1 DEF Rounds, Parts, HalfParts
<1> QED BY SMT, <1>1, <1>2, <1>3 DEF PartsOf

LEMMA ConvertedClose ==
  ASSUME NEW b \in Nat, NEW from \in Currencies, NEW to \in Currencies, from # to,
         NEW rates \in Rates, {from, to} \subseteq DOMAIN rates
  PROVE  \E paid \in Nat, units \in Nat :
           /\ paid = Converted(b, from, to, rates) /\ units = ToStripe(paid, to)
           /\ WorthOf(b, from, to) \in Nat /\ Rounds(units, WorthOf(b, from, to))
           /\ units = 0 <=> paid = 0
<1>1. Published["usd"] = 2 /\ Published["jpy"] = 200 /\ Published["kwd"] = 1
  BY DEF Published
<1>2. MinorUnits["usd"] = 100 /\ MinorUnits["jpy"] = 1 /\ MinorUnits["kwd"] = 1000
  BY DEF MinorUnits
<1>3. rates[from] = Published[from] /\ rates[to] = Published[to]
  BY RatesAre
<1> DEFINE n == b * Published[to] * MinorUnits[to]
           d == Published[from] * 1000
           q == RoundHalfUp(n, d)
           worth == WorthOf(b, from, to)
<1>4. n \in Nat /\ PartsOf(n, d, worth)
  BY SMT, <1>1, <1>2 DEF Currencies, WorthOf, PartsOf
<1>5. Converted(b, from, to, rates) = q * (1000 \div MinorUnits[to])
  BY <1>3 DEF Converted
<1> HIDE DEF n, d, q, worth
<1>6. q \in Nat /\ worth \in Nat /\ Rounds(q, worth)
  BY <1>4, RoundingClose DEF q
<1>7. PICK paid \in Nat : /\ paid = Converted(b, from, to, rates)
                          /\ paid * MinorUnits[to] = q * 1000 /\ (q = 0 <=> paid = 0)
  <2>1. CASE to = "usd"
    BY SMT, <1>2, <1>5, <1>6, <2>1
  <2>2. CASE to = "jpy"
    BY SMT, <1>2, <1>5, <1>6, <2>2
  <2>3. CASE to = "kwd"
    BY SMT, <1>2, <1>5, <1>6, <2>3
  <2> QED BY <2>1, <2>2, <2>3 DEF Currencies
<1>8. ToStripe(paid, to) = q
  BY SMT, <1>6, <1>7, WholeUnits DEF ToStripe
<1> QED BY <1>6, <1>7, <1>8 DEF worth

LEMMA OwnClose ==
  ASSUME NEW b \in Nat, NEW to \in Currencies
  PROVE  \E units \in Nat :
           /\ units = ToStripe(b, to) /\ Rounds(units, WorthOf(b, to, to))
           /\ WorthOf(b, to, to) \in Nat
           /\ WorthOf(b, to, to) = b * MinorUnits[to] * 400
<1>1. MinorUnits["usd"] = 100 /\ MinorUnits["jpy"] = 1 /\ MinorUnits["kwd"] = 1000
  BY DEF MinorUnits
<1> DEFINE n == b * MinorUnits[to]
           worth == WorthOf(b, to, to)
<1>2. n \in Nat /\ PartsOf(n, 1000, worth)
  BY SMT, <1>1 DEF Currencies, WorthOf, PartsOf
<1>3. ToStripe(b, to) = RoundHalfUp(n, 1000)
  BY DEF ToStripe
<1>4. worth = b * MinorUnits[to] * 400
  BY SMT DEF WorthOf
<1> HIDE DEF n, worth
<1>5. RoundHalfUp(n, 1000) \in Nat /\ worth \in Nat /\ Rounds(RoundHalfUp(n, 1000), worth)
  BY SMT, <1>2, RoundingClose
<1> QED BY SMT, <1>3, <1>4, <1>5 DEF worth

-----------------------------------------------------------------------------
(* The package.                                                            *)

Worths == [i \in Positive |-> WorthOf(balance[i], currency[i], payer)]
Amounts(rates) == [i \in Positive |-> InPayers(i, rates)]
Units(rates) == [i \in Billable(rates) |-> ToStripe(InPayers(i, rates), payer)]

Records ==
  /\ balance \in [Items -> Balances] /\ currency \in [Items -> Currencies]
  /\ inactive \subseteq Items /\ payer \in Currencies

LEMMA PositiveFinite ==
  /\ IsFiniteSet(Positive) /\ Cardinality(Positive) \in Nat
  /\ Cardinality(Positive) <= Cardinality(Items)
  /\ Positive \subseteq Items
<1>1. Positive \subseteq Items
  BY DEF Positive
<1> QED BY <1>1, MoneyConstantsOK, FS_Subset, FS_CardinalityType

\* A record whose rates are known is billed what it is worth, to half a unit.
LEMMA ItemClose ==
  ASSUME Records, NEW rates \in Rates, Unpriced(rates) = {}, NEW i \in Positive
  PROVE  \E paid \in Nat, units \in Nat, worth \in Nat :
           /\ paid = InPayers(i, rates) /\ units = ToStripe(paid, payer)
           /\ worth = WorthOf(balance[i], currency[i], payer)
           /\ Rounds(units, worth)
           /\ currency[i] = payer =>
                paid = balance[i] /\ paid * MinorUnits[payer] * 400 = worth
           /\ currency[i] # payer =>
                (units = 0 <=> paid = 0) /\ {currency[i], payer} \subseteq DOMAIN rates
<1>1. /\ balance[i] \in Nat /\ balance[i] # 0
      /\ currency[i] \in Currencies /\ payer \in Currencies
  <2>1. i \in Items /\ balance[i] > 0
    BY DEF Positive
  <2>2. balance[i] \in Nat
    BY <2>1, MoneyConstantsOK DEF Records
  <2> QED BY <2>1, <2>2 DEF Records
<1>2. CASE currency[i] = payer
  <2>1. InPayers(i, rates) = balance[i]
    BY <1>2 DEF InPayers, Convert
  <2> QED BY <1>1, <1>2, <2>1, OwnClose
<1>3. CASE currency[i] # payer
  <2>1. {currency[i], payer} \subseteq DOMAIN rates
    BY <1>1, <1>3 DEF Unpriced, InPayers, Convert
  <2>2. InPayers(i, rates) = Converted(balance[i], currency[i], payer, rates)
    BY <1>1, <1>3, <2>1 DEF InPayers, Convert
  <2> QED BY <1>1, <1>3, <2>1, <2>2, ConvertedClose
<1> QED BY <1>2, <1>3

LEMMA LineTotalSum ==
  ASSUME NEW rates, IsFiniteSet(Billable(rates)), Units(rates) \in [Billable(rates) -> Int]
  PROVE  \E g : IsSum(g, Units(rates), Billable(rates))
                /\ LineTotal(rates) = g[Billable(rates)]
<1> DEFINE B == Billable(rates)
           op(i) == ToStripe(InPayers(i, rates), payer)
           Sums(g) == g = [s \in SUBSET B |->
                             IF s = {} THEN 0 ELSE op(First(s)) + g[s \ {First(s)}]]
<1>1. LineTotal(rates) = (CHOOSE g : Sums(g))[B]
  BY DEF LineTotal, MapThenSumSet, MapThenFoldSet, First
<1>2. \A g : Sums(g) <=> Adds(g, Units(rates), B)
  <2>1. ASSUME NEW s \in SUBSET B, s # {} PROVE op(First(s)) = Units(rates)[First(s)]
    BY <2>1, FirstIn DEF Units
  <2> QED BY <2>1 DEF Adds
<1> HIDE DEF Sums
<1>3. \E g : Sums(g)
  BY <1>2, AddsExists
<1>4. Sums(CHOOSE g : Sums(g))
  BY <1>3
<1> QED BY <1>1, <1>2, <1>4, AddsSays

LEMMA FallbackSum ==
  ASSUME NEW rates, Amounts(rates) \in [Positive -> Int]
  PROVE  \E g : IsSum(g, Amounts(rates), Positive)
                /\ FallbackTotal(rates) = ToStripe(g[Positive], payer)
<1> DEFINE op(i) == InPayers(i, rates)
           Sums(g) == g = [s \in SUBSET Positive |->
                             IF s = {} THEN 0 ELSE op(First(s)) + g[s \ {First(s)}]]
<1>1. FallbackTotal(rates) = ToStripe((CHOOSE g : Sums(g))[Positive], payer)
  BY DEF FallbackTotal, MapThenSumSet, MapThenFoldSet, First
<1>2. \A g : Sums(g) <=> Adds(g, Amounts(rates), Positive)
  <2>1. ASSUME NEW s \in SUBSET Positive, s # {}
        PROVE  op(First(s)) = Amounts(rates)[First(s)]
    BY <2>1, FirstIn DEF Amounts
  <2> QED BY <2>1 DEF Adds
<1> HIDE DEF Sums
<1>3. \E g : Sums(g)
  BY <1>2, AddsExists, PositiveFinite
<1>4. Sums(CHOOSE g : Sums(g))
  BY <1>3
<1> QED BY <1>1, <1>2, <1>4, AddsSays, PositiveFinite

-----------------------------------------------------------------------------
(* The bill.                                                               *)

\* Half of the smallest unit per record.
Near ==
  \A h : IsSum(h, Worths, Positive) =>
    LET off == till.bill.total * Parts - h[Positive]
    IN  /\ Cardinality(Positive) * (-HalfParts) <= off
        /\ off <= Cardinality(Positive) * HalfParts

LEMMA WorthsAre ==
  ASSUME Records, NEW rates \in Rates, Unpriced(rates) = {}
  PROVE  Worths \in [Positive -> Nat]
BY ItemClose DEF Worths

LEMMA LinesNear ==
  ASSUME Records, NEW rates \in Rates, Unpriced(rates) = {},
         NEW h, IsSum(h, Worths, Positive)
  PROVE  /\ LineTotal(rates) \in Nat
         /\ Cardinality(Positive) * (-HalfParts) <= LineTotal(rates) * Parts - h[Positive]
         /\ LineTotal(rates) * Parts - h[Positive] <= Cardinality(Positive) * HalfParts
<1> DEFINE B == Billable(rates)
<1>1. B \in SUBSET Positive /\ IsFiniteSet(B)
  BY PositiveFinite, FS_Subset DEF Billable
<1>2. ASSUME NEW i \in Positive
      PROVE  \E units \in Nat : /\ units = ToStripe(InPayers(i, rates), payer)
                                /\ Rounds(units, Worths[i])
                                /\ i \in B <=> units # 0
  <2>1. PICK units \in Nat : /\ units = ToStripe(InPayers(i, rates), payer)
                             /\ Rounds(units, Worths[i])
    BY ItemClose DEF Worths
  <2> QED BY <2>1 DEF Billable
<1>3. Units(rates) \in [B -> Nat] /\ Units(rates) \in [B -> Int]
  BY <1>1, <1>2 DEF Units
<1>4. PICK g : IsSum(g, Units(rates), B) /\ LineTotal(rates) = g[B]
  BY <1>1, <1>3, LineTotalSum
<1>5. LineTotal(rates) \in Nat
  BY <1>1, <1>3, <1>4, SumIsNat
<1>6. Worths \in [Positive -> Int]
  BY WorthsAre
<1>7. TermsClose(Units(rates), B, Worths, Positive, Parts, -HalfParts, HalfParts)
  <2>1. ASSUME NEW i \in B
        PROVE  /\ -HalfParts <= Units(rates)[i] * Parts - Worths[i]
               /\ Units(rates)[i] * Parts - Worths[i] <= HalfParts
    BY SMT, <1>1, <1>2 DEF Units, Rounds, Parts, HalfParts
  <2>2. ASSUME NEW i \in Positive \ B
        PROVE  -HalfParts <= -Worths[i] /\ -Worths[i] <= HalfParts
    BY SMT, <1>2, <1>6 DEF Rounds, HalfParts, Parts
  <2> QED BY <2>1, <2>2 DEF TermsClose
<1> HIDE DEF B
<1>8. SumsWithin(g, B, h, Positive, Parts, -HalfParts, HalfParts)
  <2>1. Parts \in Int /\ HalfParts \in Int /\ -HalfParts \in Int
    BY SMT DEF Parts, HalfParts
  <2> QED BY Zenon, <1>1, <1>3, <1>4, <1>6, <1>7, <2>1, PositiveFinite, SumsClose
<1>9. Positive \cap B = B
  BY <1>1
<1>10. /\ Cardinality(Positive) * (-HalfParts) <= g[B] * Parts - h[Positive]
       /\ g[B] * Parts - h[Positive] <= Cardinality(Positive) * HalfParts
  BY Zenon, <1>8, <1>9 DEF SumsWithin
<1> QED BY <1>4, <1>5, <1>10

\* The one line for records too small to be billed one by one.
LEMMA FallbackNear ==
  ASSUME Records, NEW rates \in Rates, Unpriced(rates) = {},
         \A i \in Positive : Worths[i] < HalfParts, FallbackTotal(rates) > 0,
         NEW h, IsSum(h, Worths, Positive)
  PROVE  /\ FallbackTotal(rates) \in Nat /\ Positive # {}
         /\ Cardinality(Positive) * (-HalfParts) <= FallbackTotal(rates) * Parts - h[Positive]
         /\ FallbackTotal(rates) * Parts - h[Positive] <= Cardinality(Positive) * HalfParts
<1> DEFINE k == MinorUnits[payer] * 400
<1>1. k \in Nat /\ payer \in Currencies
  BY SMT DEF MinorUnits, Currencies, Records
<1>2. ASSUME NEW i \in Positive
      PROVE  \E paid \in Nat, worth \in Nat :
               /\ paid = InPayers(i, rates) /\ paid = Amounts(rates)[i]
               /\ worth = Worths[i] /\ worth < HalfParts
               /\ paid * k = worth \/ paid = 0
  <2>1. PICK paid \in Nat, units \in Nat, worth \in Nat :
           /\ paid = InPayers(i, rates) /\ worth = Worths[i]
           /\ Rounds(units, worth)
           /\ currency[i] = payer => paid * MinorUnits[payer] * 400 = worth
           /\ currency[i] # payer => (units = 0 <=> paid = 0)
    BY SMT, ItemClose DEF Worths
  <2>2. units = 0 /\ worth < HalfParts
    BY SMT, <2>1 DEF Rounds, Parts, HalfParts
  <2>3. MinorUnits[payer] \in Nat
    BY SMT, <1>1 DEF MinorUnits, Currencies
  <2>4. paid * MinorUnits[payer] * 400 = paid * k
    BY SMT, <2>3
  <2>5. paid = Amounts(rates)[i]
    BY SMT, <2>1 DEF Amounts
  <2> HIDE DEF k
  <2> QED BY SMT, <2>1, <2>2, <2>4, <2>5
<1>3. Amounts(rates) \in [Positive -> Nat] /\ Amounts(rates) \in [Positive -> Int]
  BY SMT, <1>2 DEF Amounts
<1>4. PICK g : IsSum(g, Amounts(rates), Positive)
               /\ FallbackTotal(rates) = ToStripe(g[Positive], payer)
  BY SMT, <1>3, FallbackSum
<1>5. g[Positive] \in Nat
  BY SMT, <1>3, <1>4, SumIsNat, PositiveFinite
<1>6. PICK units \in Nat : /\ units = FallbackTotal(rates)
                           /\ Rounds(units, g[Positive] * k)
                           /\ g[Positive] * k \in Nat
  <2>1. PICK units \in Nat : /\ units = FallbackTotal(rates)
                             /\ Rounds(units, g[Positive] * MinorUnits[payer] * 400)
                             /\ g[Positive] * MinorUnits[payer] * 400 \in Nat
    BY SMT, <1>1, <1>4, <1>5, OwnClose
  <2>2. MinorUnits[payer] \in Nat
    BY SMT, <1>1 DEF MinorUnits, Currencies
  <2>3. g[Positive] * MinorUnits[payer] * 400 = g[Positive] * k
    BY SMT, <1>5, <2>2
  <2> QED BY SMT, <2>1, <2>3
<1> HIDE DEF k
<1>7. units # 0 /\ g[Positive] # 0
  <2>1. units # 0
    BY SMT, <1>6
  <2>2. g[Positive] * k >= HalfParts
    <3> DEFINE owed == g[Positive] * k
    <3>1. owed \in Nat /\ Rounds(units, owed)
      BY Zenon, <1>6
    <3> HIDE DEF owed
    <3>2. owed >= HalfParts
      BY SMT, <2>1, <3>1 DEF Rounds, Parts, HalfParts
    <3> QED BY SMT, <3>2 DEF owed
  <2>3. g[Positive] = 0 => g[Positive] * k = 0
    BY SMT, <1>1
  <2> QED BY SMT, <2>1, <2>2, <2>3 DEF HalfParts
<1>8. PICK x \in Positive : Amounts(rates)[x] # 0
  BY SMT, <1>3, <1>4, <1>7, SumIsZero, PositiveFinite
<1>9. Amounts(rates)[x] * k = Worths[x] /\ Amounts(rates)[x] \in Nat /\ Worths[x] \in Nat
  BY SMT, <1>2, <1>8
<1>10. Worths \in [Positive -> Int]
  BY SMT, WorthsAre
<1>11. TermsClose(Amounts(rates), Positive, Worths, Positive, k, -HalfParts, 0)
  <2>1. ASSUME NEW i \in Positive
        PROVE  /\ -HalfParts <= Amounts(rates)[i] * k - Worths[i]
               /\ Amounts(rates)[i] * k - Worths[i] <= 0
    <3>1. PICK paid \in Nat, worth \in Nat :
             /\ paid = Amounts(rates)[i] /\ worth = Worths[i] /\ worth < HalfParts
             /\ paid * k = worth \/ paid = 0
      BY SMT, <1>2
    <3>2. CASE paid * k = worth
      BY SMT, <3>1, <3>2 DEF HalfParts
    <3>3. CASE paid = 0
      <4>1. paid * k = 0
        BY SMT, <1>1, <3>3
      <4> QED BY SMT, <3>1, <4>1 DEF HalfParts
    <3> QED BY SMT, <3>1, <3>2, <3>3
  <2> QED BY SMT, <2>1 DEF TermsClose, HalfParts
<1>12. SumsWithin(g, Positive, h, Positive, k, -HalfParts, 0)
  <2>1. k \in Int /\ -HalfParts \in Int /\ 0 \in Int /\ Positive \in SUBSET Positive
    BY SMT, <1>1 DEF HalfParts
  <2> QED BY Zenon, <1>3, <1>4, <1>10, <1>11, <2>1, PositiveFinite, SumsClose
<1> DEFINE rest == Positive \ {x}
<1>13. /\ Cardinality(rest) * (-HalfParts) <= g[rest] * k - h[rest]
       /\ g[rest] * k - h[rest] <= 0
  <2>1. rest \in SUBSET Positive /\ rest \cap Positive = rest
    OBVIOUS
  <2>2. /\ Cardinality(rest) * (-HalfParts) <= g[rest] * k - h[rest]
        /\ g[rest] * k - h[rest] <= Cardinality(rest) * 0
    BY Zenon, <1>12, <2>1 DEF SumsWithin
  <2>3. Cardinality(rest) \in Int
    BY SMT, <2>1, PositiveFinite, FS_Subset, FS_CardinalityType
  <2>4. Cardinality(rest) * 0 = 0
    BY SMT, <2>3
  <2> HIDE DEF rest
  <2> QED BY SMT, <2>2, <2>4 DEF HalfParts
<1>14. Cardinality(rest) = Cardinality(Positive) - 1 /\ Cardinality(Positive) \in Nat
  BY <1>8, PositiveFinite, FS_RemoveElement
<1>15. /\ g[Positive] = Amounts(rates)[x] + g[rest] /\ g[rest] \in Int
       /\ h[Positive] = Worths[x] + h[rest] /\ h[rest] \in Int
  BY SMT, <1>4, <1>8 DEF IsSum
<1>16. g[Positive] * k - h[Positive] = g[rest] * k - h[rest]
  <2> DEFINE a == Amounts(rates)[x]  b == g[rest]  u == Worths[x]  v == h[rest]
  <2>1. a \in Int /\ b \in Int /\ u \in Int /\ v \in Int /\ k \in Int /\ a * k = u
        /\ g[Positive] = a + b /\ h[Positive] = u + v
    BY SMT, <1>1, <1>9, <1>15
  <2> HIDE DEF a, b, u, v
  <2>2. (a + b) * k - (u + v) = b * k - v
    BY SMT, <2>1
  <2> QED BY SMT, <2>1, <2>2 DEF b, v
<1>17. /\ units \in Nat /\ units = FallbackTotal(rates)
       /\ -HalfParts <= units * Parts - g[Positive] * k
       /\ units * Parts - g[Positive] * k <= HalfParts
       /\ g[Positive] * k \in Int /\ h[Positive] \in Int
  BY SMT, <1>6, <1>4 DEF Rounds, IsSum, Parts, HalfParts
<1> HIDE DEF rest
<1>18. /\ Cardinality(Positive) * (-HalfParts) <= units * Parts - h[Positive]
       /\ units * Parts - h[Positive] <= Cardinality(Positive) * HalfParts
  BY SMT, <1>13, <1>14, <1>16, <1>17 DEF Parts, HalfParts
<1> QED BY SMT, <1>8, <1>17, <1>18

-----------------------------------------------------------------------------
(* The inductive invariant of the checkout.                                *)

Entries == {{}} \cup {{rates} : rates \in Rates}
Tills ==
  [pc : {"reading", "fetching", "counting", "refused", "priced", "charged"},
   need : {"lines", "fallback", "fee"}, rates : Rates, bill : Bills, fee : Int]

\* The fallback line is only asked for when no record is worth half a unit,
\* at whatever rates it is then priced.
FallbackIsForSmall ==
  till.need = "fallback" => \A i \in Positive : Worths[i] < HalfParts

Billed == till.need = "fee" \/ till.pc \in {"priced", "charged"}
BillIsRight ==
  Billed =>
    /\ till.bill.total \in Nat /\ Near
    /\ \A i \in Positive :
         currency[i] = payer \/ {currency[i], payer} \subseteq DOMAIN till.bill.rates

MoneyInv ==
  /\ Records /\ fresh \in Entries /\ stale \in Entries /\ till \in Tills
  /\ FallbackIsForSmall /\ BillIsRight /\ FeeCoversCosts

LEMMA MoneyInit_Inv == MoneyInit => MoneyInv
<1> SUFFICES ASSUME MoneyInit PROVE MoneyInv
  OBVIOUS
<1>1. Records /\ fresh \in Entries /\ stale \in Entries
  BY DEF MoneyInit, Records, Entries, Rates
<1>2. 0 \in 0..Cardinality(Items)
  BY MoneyConstantsOK, FS_CardinalityType
<1>3. till \in Tills
  BY <1>2 DEF MoneyInit, Tills, NoBill, Bills, Rates
<1>4. till.need = "lines" /\ till.pc = "reading"
  BY DEF MoneyInit
<1> QED BY <1>1, <1>3, <1>4 DEF MoneyInv, FallbackIsForSmall, BillIsRight, Billed, FeeCoversCosts

LEMMA NearStays ==
  ASSUME Near, Worths' = Worths, Positive' = Positive, till'.bill = till.bill
  PROVE  Near'
BY SMT DEF Near

LEMMA RecordsStay ==
  ASSUME MoneyInv, UNCHANGED <<balance, currency, inactive, payer>>
  PROVE  Records' /\ Positive' = Positive /\ Worths' = Worths
<1>1. Positive' = Positive
  BY DEF Positive
<1> QED BY <1>1 DEF MoneyInv, Records, Worths, WorthOf

\* What leaves the bill alone and charges nothing.
LEMMA BillStays ==
  ASSUME MoneyInv, UNCHANGED <<balance, currency, inactive, payer>>,
         fresh' \in Entries, stale' \in Entries, till' \in Tills,
         till'.bill = till.bill, till'.pc # "charged", Billed' => Billed,
         till'.need = "fallback" => till.need = "fallback"
  PROVE  MoneyInv'
<1>1. Records' /\ Positive' = Positive /\ Worths' = Worths
  BY RecordsStay
<1>2. FallbackIsForSmall'
  BY <1>1 DEF MoneyInv, FallbackIsForSmall
<1>3. BillIsRight'
  BY <1>1, NearStays DEF MoneyInv, BillIsRight
<1>4. FeeCoversCosts'
  BY DEF FeeCoversCosts
<1> QED BY <1>1, <1>2, <1>3, <1>4 DEF MoneyInv

LEMMA RatesSteps ==
  ASSUME MoneyInv,
         ReadElsewhere \/ ReadRates \/ FetchRates \/ FetchRatesFails \/ RatesExpire \/ AskFee
  PROVE  MoneyInv'
<1>1. /\ UNCHANGED <<balance, currency, inactive, payer>>
      /\ fresh' \in Entries /\ stale' \in Entries
  BY DEF MoneyInv, ReadElsewhere, ReadRates, FetchRates, FetchRatesFails, RatesExpire, AskFee,
         Entries, Rates
<1>2. /\ till' \in Tills /\ till'.bill = till.bill /\ till'.pc # "charged"
      /\ till'.need = "fallback" => till.need = "fallback"
      /\ Billed' => Billed
  <2>1. CASE ReadElsewhere \/ RatesExpire
    BY <2>1 DEF MoneyInv, ReadElsewhere, RatesExpire, Billed
  <2>2. CASE ReadRates
    <3>1. till.pc = "reading"
      BY <2>2 DEF ReadRates
    <3>2. \/ till' = [till EXCEPT !.pc = "fetching"]
          \/ \E rates \in Rates : till' = [till EXCEPT !.pc = "counting", !.rates = rates]
      BY <2>2 DEF ReadRates, MoneyInv, Entries
    <3> QED BY <3>1, <3>2 DEF MoneyInv, Tills, Billed
  <2>3. CASE FetchRates \/ FetchRatesFails
    <3>1. till.pc = "fetching"
      BY <2>3 DEF FetchRates, FetchRatesFails
    <3>2. \E rates \in Rates : till' = [till EXCEPT !.pc = "counting", !.rates = rates]
      <4>1. CASE FetchRates
        BY <4>1 DEF FetchRates, Rates
      <4>2. CASE FetchRatesFails
        <5>1. stale \subseteq Rates /\ NoRates \in Rates
          BY DEF MoneyInv, Entries, Rates
        <5>2. PICK rates \in IF stale = {} THEN {NoRates} ELSE stale :
                till' = [till EXCEPT !.pc = "counting", !.rates = rates]
          BY <4>2 DEF FetchRatesFails
        <5> QED BY <5>1, <5>2
      <4> QED BY <2>3, <4>1, <4>2
    <3> QED BY <3>1, <3>2 DEF MoneyInv, Tills, Billed
  <2>4. CASE AskFee
    BY <2>4 DEF AskFee, MoneyInv, Tills, Billed
  <2> QED BY <2>1, <2>2, <2>3, <2>4
<1> QED BY <1>1, <1>2, BillStays

LEMMA WorthsAdd ==
  ASSUME Records, NEW rates \in Rates, Unpriced(rates) = {}
  PROVE  \E h : IsSum(h, Worths, Positive)
<1>1. Worths \in [Positive -> Int]
  BY WorthsAre
<1> QED BY <1>1, PositiveFinite, AddsExists, AddsSays

LEMMA FallbackIsInt ==
  ASSUME Records, NEW rates \in Rates, Unpriced(rates) = {}
  PROVE  FallbackTotal(rates) \in Int
<1>1. \A i \in Positive : InPayers(i, rates) \in Nat
  BY ItemClose
<1>2. Amounts(rates) \in [Positive -> Nat] /\ Amounts(rates) \in [Positive -> Int]
  BY <1>1 DEF Amounts
<1>3. PICK g : IsSum(g, Amounts(rates), Positive)
               /\ FallbackTotal(rates) = ToStripe(g[Positive], payer)
  BY <1>2, FallbackSum
<1>4. g[Positive] \in Nat /\ payer \in Currencies
  BY <1>2, <1>3, SumIsNat, PositiveFinite DEF Records
<1> QED BY <1>3, <1>4, OwnClose

LEMMA BillIsPriced ==
  ASSUME MoneyInv, UNCHANGED <<balance, currency, inactive, payer, fresh, stale>>,
         NEW bill \in Bills, bill.total \in Nat, Unpriced(bill.rates) = {},
         till' = [till EXCEPT !.pc = "priced", !.bill = bill], till.need # "fee",
         \A h : IsSum(h, Worths, Positive) =>
           /\ Cardinality(Positive) * (-HalfParts) <= bill.total * Parts - h[Positive]
           /\ bill.total * Parts - h[Positive] <= Cardinality(Positive) * HalfParts
  PROVE  MoneyInv'
<1>1. Records' /\ Positive' = Positive /\ Worths' = Worths
  BY RecordsStay
<1>2. till \in Tills
  BY DEF MoneyInv
<1>3. /\ till'.bill = bill /\ till'.pc = "priced" /\ till'.need = till.need
      /\ till' \in Tills
  BY <1>2 DEF Tills
<1>4. Near'
  BY SMT, <1>1, <1>3 DEF Near
<1>5. \A i \in Positive :
        currency[i] = payer \/ {currency[i], payer} \subseteq DOMAIN bill.rates
  <2>1. bill.rates \in Rates
    BY DEF Bills, Rates
  <2> QED BY <2>1, ItemClose DEF MoneyInv
<1>6. BillIsRight'
  BY <1>1, <1>3, <1>4, <1>5 DEF BillIsRight
<1>7. FallbackIsForSmall' /\ FeeCoversCosts'
  BY <1>1, <1>3 DEF MoneyInv, FallbackIsForSmall, FeeCoversCosts
<1>8. fresh' \in Entries /\ stale' \in Entries
  BY DEF MoneyInv
<1> QED BY <1>1, <1>3, <1>6, <1>7, <1>8 DEF MoneyInv

\* build_line_items: the lines, or the question for the fallback line.
LEMMA LinesStep == ASSUME MoneyInv, PriceLines PROVE MoneyInv'
<1> DEFINE rates == till.rates
<1>1. /\ UNCHANGED <<balance, currency, inactive, payer>>
      /\ fresh' \in Entries /\ stale' \in Entries
      /\ rates \in Rates /\ till \in Tills /\ Records
      /\ till.pc = "counting" /\ till.need = "lines"
  BY DEF MoneyInv, PriceLines, Tills
<1>2. CASE Unpriced(rates) # {}
  <2>1. till' = [till EXCEPT !.pc = "refused"]
    BY <1>2 DEF PriceLines
  <2>2. /\ till' \in Tills /\ till'.bill = till.bill /\ till'.pc # "charged"
        /\ till'.need = till.need /\ ~Billed'
    BY <1>1, <2>1 DEF Tills, Billed
  <2> QED BY <1>1, <2>2, BillStays
<1>3. CASE Unpriced(rates) = {} /\ Billable(rates) = {}
  <2>1. till' = [till EXCEPT !.pc = "reading", !.need = "fallback"]
    BY <1>3 DEF PriceLines
  <2>2. till' \in Tills /\ ~Billed' /\ till'.pc # "charged"
    BY <1>1, <2>1 DEF Tills, Billed
  <2>3. ASSUME NEW i \in Positive PROVE Worths[i] < HalfParts
    <3>1. PICK units \in Nat, worth \in Nat :
            /\ units = ToStripe(InPayers(i, rates), payer) /\ Rounds(units, worth)
            /\ worth = Worths[i]
      BY <1>1, <1>3, ItemClose DEF Worths
    <3>2. units = 0
      BY <1>3, <3>1 DEF Billable
    <3> QED BY SMT, <3>1, <3>2 DEF Rounds, HalfParts, Parts
  <2>4. Records' /\ Positive' = Positive /\ Worths' = Worths
    BY <1>1, RecordsStay
  <2>5. FallbackIsForSmall' /\ BillIsRight' /\ FeeCoversCosts'
    BY <2>2, <2>3, <2>4 DEF FallbackIsForSmall, BillIsRight, FeeCoversCosts
  <2> QED BY <1>1, <2>2, <2>4, <2>5 DEF MoneyInv
<1>4. CASE Unpriced(rates) = {} /\ Billable(rates) # {}
  <2> DEFINE bill == [rates |-> rates, total |-> LineTotal(rates),
                      lines |-> Cardinality(Billable(rates))]
  <2>1. till' = [till EXCEPT !.pc = "priced", !.bill = bill]
    BY <1>4 DEF PriceLines
  <2>2. Cardinality(Billable(rates)) \in 0..Cardinality(Items)
    <3>1. Billable(rates) \subseteq Items
      BY DEF Billable, Positive
    <3> QED BY <3>1, MoneyConstantsOK, FS_Subset, FS_CardinalityType
  <2>3. /\ LineTotal(rates) \in Nat
        /\ \A h : IsSum(h, Worths, Positive) =>
             /\ Cardinality(Positive) * (-HalfParts) <= LineTotal(rates) * Parts - h[Positive]
             /\ LineTotal(rates) * Parts - h[Positive] <= Cardinality(Positive) * HalfParts
    BY <1>1, <1>4, LinesNear, WorthsAdd
  <2> HIDE DEF rates
  <2>4. /\ bill \in Bills /\ bill.total = LineTotal(rates) /\ bill.rates = rates
    BY <1>1, <2>2, <2>3 DEF Bills, Rates
  <2> HIDE DEF bill
  <2>5. UNCHANGED <<balance, currency, inactive, payer, fresh, stale>>
    BY DEF PriceLines
  <2> QED BY <1>1, <1>4, <2>1, <2>3, <2>4, <2>5, BillIsPriced
<1> QED BY <1>2, <1>3, <1>4

LEMMA FallbackStep == ASSUME MoneyInv, PriceFallback PROVE MoneyInv'
<1> DEFINE rates == till.rates
<1>1. /\ UNCHANGED <<balance, currency, inactive, payer, fresh, stale>>
      /\ rates \in Rates /\ till \in Tills /\ Records
      /\ fresh \in Entries /\ stale \in Entries
      /\ till.pc = "counting" /\ till.need = "fallback"
  BY DEF MoneyInv, PriceFallback, Tills
<1>2. CASE Unpriced(rates) # {} \/ FallbackTotal(rates) <= 0
  <2>1. till' = [till EXCEPT !.pc = "refused"]
    BY <1>2 DEF PriceFallback
  <2>2. /\ till' \in Tills /\ till'.bill = till.bill /\ till'.pc # "charged"
        /\ till'.need = till.need /\ ~Billed'
    BY <1>1, <2>1 DEF Tills, Billed
  <2> QED BY <1>1, <2>2, BillStays
<1>3. CASE Unpriced(rates) = {} /\ ~(FallbackTotal(rates) <= 0)
  <2> DEFINE bill == [rates |-> rates, total |-> FallbackTotal(rates), lines |-> 1]
  <2>1. till' = [till EXCEPT !.pc = "priced", !.bill = bill]
    BY <1>3 DEF PriceFallback
  <2>2. \A i \in Positive : Worths[i] < HalfParts
    BY <1>1 DEF MoneyInv, FallbackIsForSmall
  <2>3. FallbackTotal(rates) \in Int
    BY <1>1, <1>3, FallbackIsInt
  <2>4. FallbackTotal(rates) > 0
    BY SMT, <1>3, <2>3
  <2>5. /\ FallbackTotal(rates) \in Nat /\ Positive # {}
        /\ \A h : IsSum(h, Worths, Positive) =>
             /\ Cardinality(Positive) * (-HalfParts)
                  <= FallbackTotal(rates) * Parts - h[Positive]
             /\ FallbackTotal(rates) * Parts - h[Positive]
                  <= Cardinality(Positive) * HalfParts
    BY <1>1, <1>3, <2>2, <2>4, FallbackNear, WorthsAdd
  <2>6. 1 \in 0..Cardinality(Items)
    <3>1. Cardinality(Positive) # 0 /\ Cardinality(Items) \in Nat
      BY <2>5, PositiveFinite, FS_EmptySet, MoneyConstantsOK, FS_CardinalityType
    <3> QED BY <3>1, PositiveFinite
  <2> HIDE DEF rates
  <2>7. /\ bill \in Bills /\ bill.total = FallbackTotal(rates) /\ bill.rates = rates
    BY <1>1, <2>5, <2>6 DEF Bills, Rates
  <2> HIDE DEF bill
  <2> QED BY <1>1, <1>3, <2>1, <2>5, <2>7, BillIsPriced
<1> QED BY <1>2, <1>3

-----------------------------------------------------------------------------
(* The fee.                                                                *)

LEMMA RoundUpBounds ==
  ASSUME NEW n \in Nat
  PROVE  /\ RoundUp(n * 32, 1000) \in Nat /\ 1000 * RoundUp(n * 32, 1000) >= n * 32
         /\ RoundUp(n, 100) \in Nat /\ 100 * RoundUp(n, 100) >= n
BY SMT DEF RoundUp

\* 30 and 25 cents in the payer's smallest unit, rounded, and their thousandths.
LEMMA FixedAre ==
  ASSUME payer \in Currencies, NEW rates \in Rates, FixedKnown(rates)
  PROVE  \/ Fixed(300, rates) = 30 /\ Fixed(250, rates) = 25 /\ payer = "usd"
         \/ Fixed(300, rates) = 30 /\ Fixed(250, rates) = 25 /\ payer = "jpy"
         \/ Fixed(300, rates) = 150 /\ Fixed(250, rates) = 125 /\ payer = "kwd"
<1>1. CASE payer = "usd"
  BY SMT, <1>1 DEF Fixed, Convert, ToStripe, RoundHalfUp, MinorUnits
<1>2. CASE payer # "usd"
  <2>1. {"usd", payer} \subseteq DOMAIN rates
    BY <1>2 DEF FixedKnown, Convert
  <2>2. rates["usd"] = 2 /\ rates[payer] = Published[payer]
    BY <2>1, RatesAre DEF Published
  <2>3. /\ Fixed(300, rates) = ToStripe(Converted(300, "usd", payer, rates), payer)
        /\ Fixed(250, rates) = ToStripe(Converted(250, "usd", payer, rates), payer)
    BY <1>2, <2>1 DEF Fixed, Convert
  <2>4. CASE payer = "jpy"
    BY SMT, <2>2, <2>3, <2>4 DEF Converted, ToStripe, RoundHalfUp, MinorUnits, Published
  <2>5. CASE payer = "kwd"
    BY SMT, <2>2, <2>3, <2>5 DEF Converted, ToStripe, RoundHalfUp, MinorUnits, Published
  <2> QED BY <1>2, <2>4, <2>5 DEF Currencies
<1> QED BY <1>1, <1>2

\* What Stripe keeps and the platform's own part both come out of the fee.
LEMMA FeeCovers ==
  ASSUME payer \in Currencies, NEW rates \in Rates, FixedKnown(rates), NEW total \in Nat,
         till'.bill.total = total, till'.fee = Fee(total, rates), UNCHANGED payer
  PROVE  till'.fee \in Int /\ FeeCoversCosts'
<1> DEFINE p == RoundUp(total * 32, 1000)
           m == RoundUp(total, 100)
           a == Fixed(300, rates)
           b == Fixed(250, rates)
           cents(c) == (c * Published[payer] * MinorUnits[payer] * 10) \div Published["usd"]
<1>1. p \in Nat /\ 1000 * p >= total * 32 /\ m \in Nat /\ 100 * m >= total
  BY RoundUpBounds
<1>2. a \in Nat /\ b \in Nat /\ cents(30) = 1000 * a /\ cents(25) = 1000 * b
  <2>1. /\ Published["usd"] = 2 /\ Published["jpy"] = 200 /\ Published["kwd"] = 1
        /\ MinorUnits["usd"] = 100 /\ MinorUnits["jpy"] = 1 /\ MinorUnits["kwd"] = 1000
    BY SMT DEF Published, MinorUnits
  <2>2. \/ a = 30 /\ b = 25 /\ payer = "usd"
        \/ a = 30 /\ b = 25 /\ payer = "jpy"
        \/ a = 150 /\ b = 125 /\ payer = "kwd"
    BY FixedAre
  <2> HIDE DEF a, b
  <2> QED BY SMT, <2>1, <2>2
<1>3. till'.fee = IF p + a + (IF m > b THEN m ELSE b) > total THEN total
                  ELSE p + a + (IF m > b THEN m ELSE b)
  BY DEF Fee, Processing, Margin
<1>4. FeeCoversCosts' <=> (till'.pc = "charged" =>
        /\ till'.fee <= total
        /\ till'.fee < total =>
             /\ till'.fee * 1000 - total * 29 - cents(30) >= total * 10
             /\ till'.fee * 1000 - total * 29 - cents(30) >= cents(25))
  BY DEF FeeCoversCosts
<1> HIDE DEF p, m, a, b, cents
<1>5. /\ till'.fee \in Int /\ till'.fee <= total
      /\ till'.fee < total =>
           /\ till'.fee * 1000 - total * 29 - cents(30) >= total * 10
           /\ till'.fee * 1000 - total * 29 - cents(30) >= cents(25)
  BY SMT, <1>1, <1>2, <1>3
<1> QED BY <1>4, <1>5

LEMMA FeeStep == ASSUME MoneyInv, ChargeFee PROVE MoneyInv'
<1>1. /\ UNCHANGED <<balance, currency, inactive, payer, fresh, stale>>
      /\ till.pc = "counting" /\ till.need = "fee"
      /\ fresh' \in Entries /\ stale' \in Entries
  BY DEF MoneyInv, ChargeFee
<1>2. /\ till \in Tills /\ till.rates \in Rates /\ till.bill.total \in Nat
      /\ payer \in Currencies
  BY <1>1 DEF MoneyInv, BillIsRight, Billed, Tills, Records
<1>3. CASE FixedKnown(till.rates)
  <2> DEFINE fee == Fee(till.bill.total, till.rates)
  <2>1. till' = [till EXCEPT !.pc = "charged", !.fee = fee]
    BY <1>3 DEF ChargeFee
  <2> HIDE DEF fee
  <2>2. till'.bill = till.bill /\ till'.need = till.need /\ till'.fee = fee
    BY <1>2, <2>1 DEF Tills
  <2>3. till'.fee \in Int /\ FeeCoversCosts'
    BY <1>1, <1>2, <1>3, <2>2, FeeCovers DEF fee
  <2>4. till' \in Tills
    BY <1>2, <2>1, <2>2, <2>3 DEF Tills
  <2>5. Records' /\ Positive' = Positive /\ Worths' = Worths
    BY <1>1, RecordsStay
  <2>6. BillIsRight'
    BY <1>1, <2>2, <2>5, NearStays DEF MoneyInv, BillIsRight, Billed
  <2>7. FallbackIsForSmall'
    BY <1>1, <2>2 DEF FallbackIsForSmall
  <2> QED BY <1>1, <2>3, <2>4, <2>5, <2>6, <2>7 DEF MoneyInv
<1>4. CASE ~FixedKnown(till.rates)
  <2>1. till' = [till EXCEPT !.pc = "refused"]
    BY <1>4 DEF ChargeFee
  <2>2. /\ till' \in Tills /\ till'.bill = till.bill /\ till'.pc # "charged"
        /\ till'.need = till.need
    BY <1>2, <2>1 DEF Tills
  <2> QED BY <1>1, <2>2, BillStays DEF Billed
<1> QED BY <1>3, <1>4

LEMMA MoneyNext_Inv == ASSUME MoneyInv, [MoneyNext]_moneyVars PROVE MoneyInv'
<1>1. CASE UNCHANGED moneyVars
  <2>1. /\ UNCHANGED <<balance, currency, inactive, payer>> /\ till' = till
        /\ fresh' \in Entries /\ stale' \in Entries /\ till' \in Tills
    BY <1>1 DEF moneyVars, MoneyInv
  <2>2. Records' /\ Positive' = Positive /\ Worths' = Worths
    BY <2>1, RecordsStay
  <2>3. FallbackIsForSmall' /\ BillIsRight'
    BY <2>1, <2>2, NearStays DEF MoneyInv, FallbackIsForSmall, BillIsRight, Billed
  <2>4. FeeCoversCosts'
    BY <2>1 DEF MoneyInv, FeeCoversCosts
  <2> QED BY <2>1, <2>2, <2>3, <2>4 DEF MoneyInv
<1>2. CASE PriceLines
  BY <1>2, LinesStep
<1>3. CASE PriceFallback
  BY <1>3, FallbackStep
<1>4. CASE ChargeFee
  BY <1>4, FeeStep
<1>5. CASE ReadElsewhere \/ ReadRates \/ FetchRates \/ FetchRatesFails \/ RatesExpire \/ AskFee
  BY <1>5, RatesSteps
<1> QED BY <1>1, <1>2, <1>3, <1>4, <1>5 DEF MoneyNext

\* The checkout keeps its books, whichever rates it read (checkout.py, money.py).
THEOREM MoneyInvariant == MoneySpec => []MoneyInv
<1>1. MoneyInit => MoneyInv
  BY MoneyInit_Inv
<1>2. MoneyInv /\ [MoneyNext /\ UNCHANGED env]_<<env, moneyVars>> => MoneyInv'
  <2>1. [MoneyNext /\ UNCHANGED env]_<<env, moneyVars>> => [MoneyNext]_moneyVars
    OBVIOUS
  <2> QED BY <2>1, MoneyNext_Inv
<1> QED BY <1>1, <1>2, PTL DEF MoneySpec

\* Whatever was read when, the bill's lines add up to what the records are
\* worth, half of a smallest unit per record off at most (checkout.py).
THEOREM BillMatchesRecordsAlways == MoneySpec => []BillMatchesRecords
<1>1. MoneyInv => BillMatchesRecords
  <2> SUFFICES ASSUME MoneyInv, till.pc \in {"priced", "charged"} PROVE BillMatchesRecords
    BY DEF BillMatchesRecords
  <2> DEFINE rates == till.bill.rates
             worth(i) ==
               IF currency[i] = payer THEN balance[i] * MinorUnits[payer] * (Parts \div 1000)
               ELSE balance[i] * rates[payer] * MinorUnits[payer] * (400 \div rates[currency[i]])
             Sums(g) == g = [s \in SUBSET Positive |->
                               IF s = {} THEN 0 ELSE worth(First(s)) + g[s \ {First(s)}]]
  <2>1. /\ till.bill.total \in Nat /\ Near /\ rates \in Rates
        /\ \A i \in Positive : currency[i] = payer \/ {currency[i], payer} \subseteq DOMAIN rates
    BY DEF MoneyInv, BillIsRight, Billed, Tills, Bills, Rates
  <2>2. ASSUME NEW i \in Positive
        PROVE  worth(i) = Worths[i] /\ worth(i) \in Int
    <3>1. worth(i) = WorthOf(balance[i], currency[i], payer)
      <4>1. CASE currency[i] = payer
        BY SMT, <4>1 DEF WorthOf, Parts
      <4>2. CASE currency[i] # payer
        BY <2>1, <4>2, RatesAre DEF WorthOf
      <4> QED BY <4>1, <4>2
    <3>2. /\ balance[i] \in Nat /\ currency[i] \in Currencies /\ payer \in Currencies
      BY MoneyConstantsOK DEF MoneyInv, Records, Positive
    <3>3. WorthOf(balance[i], currency[i], payer) \in Int
      BY SMT, <3>2 DEF WorthOf, Published, MinorUnits, Currencies
    <3> QED BY <3>1, <3>3 DEF Worths
  <2> DEFINE exact == (CHOOSE g : Sums(g))[Positive]
             off == till.bill.total * Parts - exact
  <2>3. BillMatchesRecords <=>
          /\ \A i \in Positive : currency[i] = payer \/ {currency[i], payer} \subseteq DOMAIN rates
          /\ off <= Cardinality(Positive) * (Parts \div 2)
          /\ -off <= Cardinality(Positive) * (Parts \div 2)
    BY Zenon DEF BillMatchesRecords, MapThenSumSet, MapThenFoldSet, First
  <2> HIDE DEF worth
  <2>4. Worths \in [Positive -> Int]
    BY <2>2 DEF Worths
  <2>5. \A g : Sums(g) <=> Adds(g, Worths, Positive)
    <3>1. ASSUME NEW s \in SUBSET Positive, s # {}
          PROVE  worth(First(s)) = Worths[First(s)]
      BY <2>2, <3>1, FirstIn
    <3> QED BY <3>1 DEF Adds
  <2> HIDE DEF Sums
  <2>6. \E g : Sums(g)
    BY <2>4, <2>5, AddsExists, PositiveFinite
  <2>7. Sums(CHOOSE g : Sums(g))
    BY <2>6
  <2>8. PICK h : h = (CHOOSE g : Sums(g)) /\ IsSum(h, Worths, Positive)
    BY <2>4, <2>5, <2>7, AddsSays, PositiveFinite
  <2>9. exact = h[Positive] /\ h[Positive] \in Int
    BY <2>8 DEF IsSum
  <2>10. /\ Cardinality(Positive) * (-HalfParts) <= till.bill.total * Parts - h[Positive]
         /\ till.bill.total * Parts - h[Positive] <= Cardinality(Positive) * HalfParts
    BY Zenon, <2>1, <2>8 DEF Near
  <2> HIDE DEF exact
  <2>11. /\ off <= Cardinality(Positive) * (Parts \div 2)
         /\ -off <= Cardinality(Positive) * (Parts \div 2)
    BY SMT, <2>1, <2>9, <2>10, PositiveFinite DEF Parts, HalfParts
  <2> QED BY <2>1, <2>3, <2>11
<1> QED BY <1>1, MoneyInvariant, PTL

\* The fee covers what Stripe keeps and the platform's part (money.py).
THEOREM FeeCoversCostsAlways == MoneySpec => []FeeCoversCosts
<1>1. MoneyInv => FeeCoversCosts
  BY DEF MoneyInv
<1> QED BY <1>1, MoneyInvariant, PTL

\* Cache entries, rates and bills keep their shape.
THEOREM MoneyTyped == MoneySpec => []MoneyTypeOK
<1>1. MoneyInv => MoneyTypeOK
  <2> SUFFICES ASSUME MoneyInv PROVE MoneyTypeOK
    OBVIOUS
  <2>1. ASSUME NEW entry \in Entries
        PROVE  Cardinality(entry) <= 1 /\ entry \subseteq Rates
    <3>1. CASE entry = {}
      BY <3>1, FS_EmptySet
    <3>2. CASE \E rates \in Rates : entry = {rates}
      <4>1. PICK rates \in Rates : entry = {rates}
        BY <3>2
      <4>2. Cardinality({rates}) = 1
        BY FS_Singleton
      <4> QED BY SMT, <4>1, <4>2
    <3> QED BY <3>1, <3>2 DEF Entries
  <2> QED BY <2>1 DEF MoneyInv, Records, Rates, Tills, MoneyTypeOK
<1> QED BY <1>1, MoneyInvariant, PTL

-----------------------------------------------------------------------------
(* Reminders: how many notices a record gets.                              *)

Tells(n, r) == ~During(n, "waiting") /\ r \in run[n].about

\* The runs that may still add a notice about r, and those that may add two.
AddsOne(r) == {n \in Runs : Tells(n, r) \/ r \notin reminded}
AddsTwo(r) == {n \in Runs : IF Tells(n, r) THEN During(n, "creating") ELSE r \notin reminded}

\* What was said and what can still be said: two notices per run, and two more
\* for each run that was cut off.
NoticesAreBounded ==
  \A r \in Expiring :
    notices[r] + Cardinality(AddsOne(r)) + Cardinality(AddsTwo(r))
      <= 2 * (stops + Cardinality(Runs))

\* A run tells about what it marked.
ToldIsMarked == \A n \in Runs : During(n, "telling") => run[n].about \subseteq reminded

Passes == [pc : {"creating", "marking", "telling"}, about : SUBSET Expiring,
           push : SUBSET Expiring]

\* ReminderTypeOK without the bound of the notices.
ReminderShape ==
  /\ due \subseteq Expiring /\ listed \subseteq Expiring
  /\ reminded \subseteq Expiring /\ answered \subseteq Expiring
  /\ notices \in [Expiring -> Nat] /\ channels \in [Expiring -> Channels]
  /\ mails \subseteq [about : Expiring, from : Runs, tries : 0..MailRetries]
  /\ pushes \subseteq Expiring /\ run \in [Runs -> {Waiting} \cup Passes]
  /\ stops \in 0..MaxStops

ReminderInv == ReminderShape /\ ToldIsMarked /\ NoticesAreBounded

LEMMA SetsOfRuns ==
  ASSUME NEW A \in SUBSET Runs, NEW B \in SUBSET Runs
  PROVE  /\ Cardinality(A) \in Nat /\ Cardinality(B) \in Nat
         /\ B \subseteq A => Cardinality(B) <= Cardinality(A)
         /\ \A n \in A : B \subseteq A \ {n} => Cardinality(B) <= Cardinality(A) - 1
         /\ \A n \in Runs : B \subseteq A \cup {n} => Cardinality(B) <= Cardinality(A) + 1
<1>1. IsFiniteSet(A) /\ IsFiniteSet(B)
  BY ReminderConstantsOK, FS_Subset
<1>2. Cardinality(A) \in Nat /\ Cardinality(B) \in Nat
  BY <1>1, FS_CardinalityType
<1>3. B \subseteq A => Cardinality(B) <= Cardinality(A)
  BY <1>1, FS_Subset
<1>4. ASSUME NEW n \in A, B \subseteq A \ {n} PROVE Cardinality(B) <= Cardinality(A) - 1
  <2>1. Cardinality(A \ {n}) = Cardinality(A) - 1 /\ IsFiniteSet(A \ {n})
    BY <1>1, FS_RemoveElement
  <2>2. Cardinality(B) <= Cardinality(A \ {n})
    BY <1>4, <2>1, FS_Subset
  <2> QED BY <2>1, <2>2
<1>5. ASSUME NEW n \in Runs, B \subseteq A \cup {n} PROVE Cardinality(B) <= Cardinality(A) + 1
  <2>1. IsFiniteSet(A \cup {n}) /\ Cardinality(A \cup {n}) <= Cardinality(A) + 1
    <3>1. CASE n \in A
      <4>1. A \cup {n} = A
        BY <3>1
      <4> QED BY <1>1, <1>2, <4>1
    <3>2. CASE n \notin A
      <4>1. IsFiniteSet(A \cup {n}) /\ Cardinality(A \cup {n}) = Cardinality(A) + 1
        BY <1>1, <3>2, FS_AddElement
      <4> QED BY <1>2, <4>1
    <3> QED BY <3>1, <3>2
  <2>2. Cardinality(B) <= Cardinality(A \cup {n}) /\ Cardinality(A \cup {n}) \in Nat
    BY <1>5, <2>1, FS_Subset, FS_CardinalityType
  <2> QED BY <1>2, <2>1, <2>2
<1> QED BY <1>2, <1>3, <1>4, <1>5

LEMMA ReminderInit_Inv == ReminderInit => ReminderInv
<1> SUFFICES ASSUME ReminderInit PROVE ReminderInv
  OBVIOUS
<1>1. ReminderShape
  BY ReminderConstantsOK DEF ReminderInit, ReminderShape, Channels
<1>2. ToldIsMarked
  BY DEF ReminderInit, ToldIsMarked, During, Waiting
<1>3. ASSUME NEW r \in Expiring PROVE AddsOne(r) = Runs /\ AddsTwo(r) = Runs
  BY DEF ReminderInit, AddsOne, AddsTwo, Tells, During, Waiting
<1>4. Cardinality(Runs) \in Nat
  BY SetsOfRuns
<1>5. NoticesAreBounded
  BY <1>3, <1>4 DEF ReminderInit, NoticesAreBounded
<1> QED BY <1>1, <1>2, <1>5 DEF ReminderInv

\* What the notices of one record need of a step.
LEMMA NoticesStay ==
  ASSUME ReminderInv, ReminderShape',
         \A r \in Expiring :
           \/ /\ notices'[r] = notices[r] /\ stops' = stops
              /\ AddsOne(r)' \subseteq AddsOne(r) /\ AddsTwo(r)' \subseteq AddsTwo(r)
           \/ /\ notices'[r] = notices[r] + 1 /\ stops' = stops
              /\ \E n \in AddsOne(r) : AddsOne(r)' \subseteq AddsOne(r) \ {n}
              /\ AddsTwo(r)' \subseteq AddsTwo(r)
           \/ /\ notices'[r] = notices[r] + 1 /\ stops' = stops
              /\ AddsOne(r)' \subseteq AddsOne(r)
              /\ \E n \in AddsTwo(r) : AddsTwo(r)' \subseteq AddsTwo(r) \ {n}
           \/ /\ notices'[r] = notices[r] /\ stops' = stops + 1
              /\ AddsOne(r)' \subseteq AddsOne(r)
              /\ \E n \in Runs : AddsTwo(r)' \subseteq AddsTwo(r) \cup {n}
  PROVE  NoticesAreBounded'
<1> SUFFICES ASSUME NEW r \in Expiring
             PROVE  notices'[r] + Cardinality(AddsOne(r)') + Cardinality(AddsTwo(r)')
                      <= 2 * (stops' + Cardinality(Runs))
  BY DEF NoticesAreBounded
<1>1. PICK one, two, one2, two2 : /\ one = AddsOne(r) /\ two = AddsTwo(r)
                                  /\ one2 = AddsOne(r)' /\ two2 = AddsTwo(r)'
  OBVIOUS
<1>2. /\ one \in SUBSET Runs /\ two \in SUBSET Runs
      /\ one2 \in SUBSET Runs /\ two2 \in SUBSET Runs
  BY <1>1 DEF AddsOne, AddsTwo
<1>3. /\ notices[r] + Cardinality(one) + Cardinality(two) <= 2 * (stops + Cardinality(Runs))
      /\ notices[r] \in Nat /\ stops \in Nat /\ notices'[r] \in Nat
  BY <1>1 DEF ReminderInv, ReminderShape, NoticesAreBounded
<1>4. /\ Cardinality(one) \in Nat /\ Cardinality(two) \in Nat /\ Cardinality(Runs) \in Nat
      /\ Cardinality(one2) \in Nat /\ Cardinality(two2) \in Nat
  BY <1>2, SetsOfRuns
<1>5. \/ /\ notices'[r] = notices[r] /\ stops' = stops
         /\ Cardinality(one2) <= Cardinality(one) /\ Cardinality(two2) <= Cardinality(two)
      \/ /\ notices'[r] = notices[r] + 1 /\ stops' = stops
         /\ Cardinality(one2) + Cardinality(two2) <= Cardinality(one) + Cardinality(two) - 1
      \/ /\ notices'[r] = notices[r] /\ stops' = stops + 1
         /\ Cardinality(one2) <= Cardinality(one) /\ Cardinality(two2) <= Cardinality(two) + 1
  <2>1. CASE one2 \subseteq one /\ two2 \subseteq two
             /\ notices'[r] = notices[r] /\ stops' = stops
    BY <1>2, <2>1, SetsOfRuns
  <2>2. CASE notices'[r] = notices[r] + 1 /\ stops' = stops
             /\ \E n \in one : one2 \subseteq one \ {n} /\ two2 \subseteq two
    <3>1. Cardinality(one2) <= Cardinality(one) - 1 /\ Cardinality(two2) <= Cardinality(two)
      BY <1>2, <2>2, SetsOfRuns
    <3> QED BY <1>4, <2>2, <3>1
  <2>3. CASE notices'[r] = notices[r] + 1 /\ stops' = stops
             /\ \E n \in two : two2 \subseteq two \ {n} /\ one2 \subseteq one
    <3>1. Cardinality(two2) <= Cardinality(two) - 1 /\ Cardinality(one2) <= Cardinality(one)
      BY <1>2, <2>3, SetsOfRuns
    <3> QED BY <1>4, <2>3, <3>1
  <2>4. CASE notices'[r] = notices[r] /\ stops' = stops + 1
             /\ one2 \subseteq one /\ \E n \in Runs : two2 \subseteq two \cup {n}
    BY <1>2, <2>4, SetsOfRuns
  <2> QED BY <1>1, <2>1, <2>2, <2>3, <2>4
<1>6. notices'[r] + Cardinality(one2) + Cardinality(two2) <= 2 * (stops' + Cardinality(Runs))
  BY <1>3, <1>4, <1>5
<1> QED BY <1>1, <1>6

LEMMA ListExpiringStep ==
  ASSUME ReminderInv, NEW n \in Runs, ListExpiring(n) PROVE ReminderInv'
<1> DEFINE pass == [pc |-> "creating", about |-> ToRemind,
                    push |-> {r \in ToRemind : "push" \in channels[r]}]
<1>1. /\ run' = [run EXCEPT ![n] = pass] /\ During(n, "waiting")
      /\ UNCHANGED <<due, listed, reminded, notices, channels, messageVars, stops>>
  BY DEF ListExpiring
<1>2. pass \in Passes /\ pass.pc = "creating" /\ pass.about = ToRemind
  BY DEF Passes, ToRemind, ReminderInv, ReminderShape
<1> HIDE DEF pass
<1>3. \A o \in Runs : run'[o] = IF o = n THEN pass ELSE run[o]
  BY <1>1 DEF ReminderInv, ReminderShape
<1>4. ReminderShape'
  BY <1>1, <1>2 DEF ReminderInv, ReminderShape, messageVars
<1>5. ToldIsMarked'
  BY <1>1, <1>2, <1>3 DEF ReminderInv, ToldIsMarked, During
<1>6. ASSUME NEW r \in Expiring
      PROVE  AddsOne(r)' \subseteq AddsOne(r) /\ AddsTwo(r)' \subseteq AddsTwo(r)
  BY <1>1, <1>2, <1>3 DEF AddsOne, AddsTwo, Tells, During, ToRemind
<1>7. NoticesAreBounded'
  BY <1>1, <1>4, <1>6, NoticesStay
<1> QED BY <1>4, <1>5, <1>7 DEF ReminderInv

LEMMA GoesOn ==
  ASSUME NEW n \in Runs, run \in [Runs -> {Waiting} \cup Passes], run[n] \in Passes,
         NEW pc \in {"marking", "telling"}, run' = [run EXCEPT ![n].pc = pc]
  PROVE  \E pass \in Passes : /\ run' = [run EXCEPT ![n] = pass]
                              /\ pass.pc = pc /\ pass.about = run[n].about
<1> DEFINE pass == [run[n] EXCEPT !.pc = pc]
<1>1. pass \in Passes /\ pass.pc = pc /\ pass.about = run[n].about
  BY DEF Passes
<1>2. run' = [run EXCEPT ![n] = pass]
  OBVIOUS
<1> QED BY <1>1, <1>2

LEMMA CreateNoticesStep ==
  ASSUME ReminderInv, NEW n \in Runs, CreateNotices(n) PROVE ReminderInv'
<1>1. /\ During(n, "creating") /\ ~During(n, "waiting")
      /\ run' = [run EXCEPT ![n].pc = "marking"]
      /\ notices' = [r \in Expiring |-> notices[r] + IF r \in run[n].about THEN 1 ELSE 0]
      /\ UNCHANGED <<due, listed, reminded, channels, messageVars, stops>>
  BY DEF CreateNotices, Goes, During
<1>2. run \in [Runs -> {Waiting} \cup Passes] /\ run[n] \in Passes
  BY <1>1 DEF ReminderInv, ReminderShape, During, Waiting
<1>3. PICK pass \in Passes : /\ run' = [run EXCEPT ![n] = pass]
                             /\ pass.pc = "marking" /\ pass.about = run[n].about
  BY <1>1, <1>2, GoesOn
<1>4. \A o \in Runs : run'[o] = IF o = n THEN pass ELSE run[o]
  BY <1>2, <1>3
<1>5. ReminderShape'
  BY <1>1, <1>2, <1>3 DEF ReminderInv, ReminderShape, messageVars
<1>6. ToldIsMarked'
  BY <1>1, <1>3, <1>4 DEF ReminderInv, ToldIsMarked, During
<1>7. ASSUME NEW r \in Expiring
      PROVE  /\ AddsOne(r)' \subseteq AddsOne(r)
             /\ IF r \in run[n].about
                THEN n \in AddsTwo(r) /\ AddsTwo(r)' \subseteq AddsTwo(r) \ {n}
                ELSE AddsTwo(r)' \subseteq AddsTwo(r)
  BY <1>1, <1>3, <1>4 DEF AddsOne, AddsTwo, Tells, During
<1>8. \A r \in Expiring :
        notices'[r] = IF r \in run[n].about THEN notices[r] + 1 ELSE notices[r]
  BY <1>1 DEF ReminderInv, ReminderShape
<1>9. NoticesAreBounded'
  BY <1>1, <1>5, <1>7, <1>8, NoticesStay
<1> QED BY <1>5, <1>6, <1>9 DEF ReminderInv

LEMMA MarkRemindedStep ==
  ASSUME ReminderInv, NEW n \in Runs, MarkReminded(n) PROVE ReminderInv'
<1>1. /\ During(n, "marking") /\ ~During(n, "waiting")
      /\ run' = [run EXCEPT ![n].pc = "telling"]
      /\ reminded' = reminded \cup run[n].about
      /\ UNCHANGED <<due, listed, notices, channels, messageVars, stops>>
  BY DEF MarkReminded, Marked, Goes, During
<1>2. run \in [Runs -> {Waiting} \cup Passes] /\ run[n] \in Passes
  BY <1>1 DEF ReminderInv, ReminderShape, During, Waiting
<1>3. PICK pass \in Passes : /\ run' = [run EXCEPT ![n] = pass]
                             /\ pass.pc = "telling" /\ pass.about = run[n].about
  BY <1>1, <1>2, GoesOn
<1>4. \A o \in Runs : run'[o] = IF o = n THEN pass ELSE run[o]
  BY <1>2, <1>3
<1>5. ReminderShape'
  BY <1>1, <1>2, <1>3 DEF ReminderInv, ReminderShape, messageVars, Passes
<1>6. ToldIsMarked'
  BY <1>1, <1>3, <1>4 DEF ReminderInv, ToldIsMarked, During
<1>7. ASSUME NEW r \in Expiring
      PROVE  AddsOne(r)' \subseteq AddsOne(r) /\ AddsTwo(r)' \subseteq AddsTwo(r)
  BY <1>1, <1>3, <1>4 DEF AddsOne, AddsTwo, Tells, During
<1>8. NoticesAreBounded'
  BY <1>1, <1>5, <1>7, NoticesStay
<1> QED BY <1>5, <1>6, <1>8 DEF ReminderInv

LEMMA TellStep ==
  ASSUME ReminderInv, NEW n \in Runs, NEW q \in Expiring, Tell(n, q) PROVE ReminderInv'
<1>1. /\ During(n, "telling") /\ ~During(n, "waiting") /\ q \in run[n].about
      /\ run' = [run EXCEPT ![n] =
                   IF run[n].about = {q} THEN Waiting ELSE [run[n] EXCEPT !.about = @ \ {q}]]
      /\ notices' = [notices EXCEPT ![q] = @ + 1]
      /\ UNCHANGED <<due, listed, reminded, channels, answered, stops>>
  BY DEF Tell, SendMultiChannel, During
<1>2. /\ run \in [Runs -> {Waiting} \cup Passes] /\ run[n] \in Passes
      /\ q \in reminded
  BY <1>1 DEF ReminderInv, ReminderShape, ToldIsMarked, During, Waiting
<1>3. PICK pass \in {Waiting} \cup Passes :
         /\ run' = [run EXCEPT ![n] = pass]
         /\ \/ pass.pc = "waiting" /\ run[n].about = {q}
            \/ pass.pc = "telling" /\ pass.about = run[n].about \ {q}
  <2>1. CASE run[n].about = {q}
    <3>1. run' = [run EXCEPT ![n] = Waiting] /\ Waiting.pc = "waiting"
      BY <1>1, <2>1 DEF Waiting
    <3> QED BY <2>1, <3>1
  <2>2. CASE run[n].about # {q}
    <3> DEFINE pass == [run[n] EXCEPT !.about = @ \ {q}]
    <3>1. run' = [run EXCEPT ![n] = pass]
      BY <1>1, <2>2
    <3>2. pass \in Passes /\ pass.pc = run[n].pc /\ pass.about = run[n].about \ {q}
      BY <1>2 DEF Passes
    <3>3. pass.pc = "telling"
      BY <1>1, <3>2 DEF During
    <3> HIDE DEF pass
    <3> QED BY <3>1, <3>2, <3>3
  <2> QED BY <2>1, <2>2
<1>4. \A o \in Runs : run'[o] = IF o = n THEN pass ELSE run[o]
  BY <1>2, <1>3
<1>5. ReminderShape'
  <2>1. mails' \subseteq [about : Expiring, from : Runs, tries : 0..MailRetries]
    BY ReminderConstantsOK DEF Tell, SendMultiChannel, ReminderInv, ReminderShape
  <2>2. pushes' \subseteq Expiring
    BY DEF Tell, SendMultiChannel, ReminderInv, ReminderShape
  <2>3. notices' \in [Expiring -> Nat]
    BY <1>1 DEF ReminderInv, ReminderShape
  <2>4. run' \in [Runs -> {Waiting} \cup Passes]
    BY <1>2, <1>3
  <2> QED BY <1>1, <2>1, <2>2, <2>3, <2>4 DEF ReminderInv, ReminderShape
<1>6. ToldIsMarked'
  BY <1>1, <1>3, <1>4 DEF ReminderInv, ToldIsMarked, During
<1>7. ASSUME NEW r \in Expiring
      PROVE  /\ AddsTwo(r)' \subseteq AddsTwo(r)
             /\ IF r = q THEN n \in AddsOne(r) /\ AddsOne(r)' \subseteq AddsOne(r) \ {n}
                ELSE AddsOne(r)' \subseteq AddsOne(r)
  <2>1. r = q => ~(\E o \in Runs : o = n /\ ~(run'[o].pc = "waiting") /\ r \in run'[o].about)
    BY <1>3, <1>4
  <2> QED BY <1>1, <1>2, <1>3, <1>4, <2>1 DEF AddsOne, AddsTwo, Tells, During
<1>8. \A r \in Expiring : notices'[r] = IF r = q THEN notices[r] + 1 ELSE notices[r]
  BY <1>1 DEF ReminderInv, ReminderShape
<1>9. NoticesAreBounded'
  BY <1>1, <1>5, <1>7, <1>8, NoticesStay
<1> QED BY <1>5, <1>6, <1>9 DEF ReminderInv

LEMMA StopRunStep ==
  ASSUME ReminderInv, NEW n \in Runs, StopRun(n) PROVE ReminderInv'
<1>1. /\ ~During(n, "waiting") /\ run' = [run EXCEPT ![n] = Waiting]
      /\ stops < MaxStops /\ stops' = stops + 1
      /\ UNCHANGED <<due, listed, reminded, notices, channels, messageVars>>
  BY DEF StopRun
<1>2. /\ Waiting.pc = "waiting"
      /\ \A o \in Runs : run'[o] = IF o = n THEN Waiting ELSE run[o]
  BY <1>1 DEF ReminderInv, ReminderShape, Waiting
<1>3. ReminderShape'
  BY <1>1, ReminderConstantsOK DEF ReminderInv, ReminderShape, messageVars
<1>4. ToldIsMarked'
  BY <1>1, <1>2 DEF ReminderInv, ToldIsMarked, During
<1>5. ASSUME NEW r \in Expiring
      PROVE  AddsOne(r)' \subseteq AddsOne(r) /\ AddsTwo(r)' \subseteq AddsTwo(r) \cup {n}
  BY <1>1, <1>2 DEF AddsOne, AddsTwo, Tells, During
<1>6. NoticesAreBounded'
  BY <1>1, <1>3, <1>5, NoticesStay
<1> QED BY <1>3, <1>4, <1>6 DEF ReminderInv

\* Everything else leaves the runs alone.
LEMMA AroundRunsStep ==
  ASSUME ReminderInv, ReminderShape', UNCHANGED <<reminded, notices, run, stops>>
  PROVE  ReminderInv'
<1>1. ToldIsMarked'
  BY DEF ReminderInv, ToldIsMarked, During
<1>2. \A r \in Expiring : AddsOne(r)' = AddsOne(r) /\ AddsTwo(r)' = AddsTwo(r)
  BY DEF AddsOne, AddsTwo, Tells, During
<1>3. NoticesAreBounded'
  BY <1>2, NoticesStay
<1> QED BY <1>1, <1>3 DEF ReminderInv

LEMMA ReminderNext_Inv == ReminderInv /\ [ReminderNext]_reminderVars => ReminderInv'
<1> SUFFICES ASSUME ReminderInv, [ReminderNext]_reminderVars PROVE ReminderInv'
  OBVIOUS
<1>1. ASSUME NEW r \in Expiring,
             ComeDue(r) \/ EditRecordDate(r) \/ SwitchChannel(r) \/ FirePush(r)
      PROVE  ReminderInv'
  <2>1. ReminderShape' /\ UNCHANGED <<reminded, notices, run, stops>>
    BY <1>1 DEF ComeDue, EditRecordDate, SwitchChannel, FirePush, ReminderInv,
       ReminderShape, messageVars
  <2> QED BY <2>1, AroundRunsStep
<1>2. ASSUME NEW m \in mails, SendMail(m) \/ MailFails(m)
      PROVE  ReminderInv'
  <2>1. /\ UNCHANGED <<due, listed, reminded, notices, channels, pushes, run, stops>>
        /\ answered' \subseteq answered \cup {m.about}
    BY <1>2 DEF SendMail, MailFails
  <2>2. m \in [about : Expiring, from : Runs, tries : 0..MailRetries]
    BY DEF ReminderInv, ReminderShape
  <2>3. m.tries < MailRetries =>
          [m EXCEPT !.tries = @ + 1] \in [about : Expiring, from : Runs, tries : 0..MailRetries]
    BY <2>2, ReminderConstantsOK
  <2>4. mails' \subseteq [about : Expiring, from : Runs, tries : 0..MailRetries]
    BY <1>2, <2>3 DEF SendMail, MailFails, ReminderInv, ReminderShape
  <2>5. ReminderShape'
    BY <2>1, <2>2, <2>4 DEF ReminderInv, ReminderShape
  <2> QED BY <2>1, <2>5, AroundRunsStep
<1>3. CASE UNCHANGED reminderVars
  BY <1>3, AroundRunsStep DEF reminderVars, messageVars, ReminderInv, ReminderShape
<1>4. ASSUME NEW n \in Runs,
             \/ ListExpiring(n) \/ CreateNotices(n) \/ MarkReminded(n) \/ StopRun(n)
             \/ \E r \in Expiring : Tell(n, r)
      PROVE  ReminderInv'
  BY <1>4, ListExpiringStep, CreateNoticesStep, MarkRemindedStep, StopRunStep, TellStep
<1> QED BY <1>1, <1>2, <1>3, <1>4 DEF ReminderNext

\* A run that lists, creates, marks and tells never passes the notices that its
\* passes account for (records/tasks.py).
THEOREM ReminderInvariant == ReminderSpec => []ReminderInv
<1>1. ReminderInv /\ [ReminderNext /\ UNCHANGED env]_<<env, reminderVars>> => ReminderInv'
  <2>1. [ReminderNext /\ UNCHANGED env]_<<env, reminderVars>> => [ReminderNext]_reminderVars
    OBVIOUS
  <2> QED BY <2>1, ReminderNext_Inv
<1> QED BY <1>1, ReminderInit_Inv, PTL DEF ReminderSpec

\* Whatever runs overlap or are cut off, a record is announced at most twice by
\* each of them (records/tasks.py, send_expiry_notifications).
THEOREM RemindersTyped == ReminderSpec => []ReminderTypeOK
<1>1. ReminderInv => ReminderTypeOK
  <2> SUFFICES ASSUME ReminderInv PROVE ReminderTypeOK
    OBVIOUS
  <2>1. ASSUME NEW r \in Expiring PROVE notices[r] \in 0..MaxNotices
    <3>1. AddsOne(r) \in SUBSET Runs /\ AddsTwo(r) \in SUBSET Runs
      BY DEF AddsOne, AddsTwo
    <3>2. /\ Cardinality(AddsOne(r)) \in Nat /\ Cardinality(AddsTwo(r)) \in Nat
          /\ Cardinality(Runs) \in Nat
      BY <3>1, SetsOfRuns
    <3>3. /\ notices[r] + Cardinality(AddsOne(r)) + Cardinality(AddsTwo(r))
               <= 2 * (stops + Cardinality(Runs))
          /\ notices[r] \in Nat /\ stops \in 0..MaxStops /\ MaxStops \in Nat
      BY ReminderConstantsOK DEF ReminderInv, ReminderShape, NoticesAreBounded
    <3> QED BY <3>2, <3>3 DEF MaxNotices
  <2>2. notices \in [Expiring -> 0..MaxNotices]
    BY <2>1 DEF ReminderInv, ReminderShape
  <2> QED BY <2>2 DEF ReminderInv, ReminderShape, ReminderTypeOK, Passes
<1> QED BY <1>1, ReminderInvariant, PTL

-----------------------------------------------------------------------------
(* Onboarding: what the requests hold.                                      *)

\* What Stripe and its events say of an account was true of it once.
ReportsWereTrue ==
  /\ \A a \in Accounts : opened[a] = "enabled" => a \in onceReady
  /\ \A a \in onceReady : opened[a] # "unopened"
  /\ \A n \in reports : n[2] => n[1] \in onceReady

\* Without an account there is nothing to look up or to be ready.
NothingToLookUp ==
  accountId = NoAccount =>
    /\ ~ready
    /\ \A q \in Clicks : ~Clicking(q, "looking") /\ ~Clicking(q, "copying")

\* A request that found no account and opens one: nothing is completed
\* before it is done.
OpeningIsUncompleted ==
  \A q \in Clicks :
    /\ Clicking(q, "saving") => click[q].id \notin onceReady
    /\ Clicking(q, "opening") \/ Clicking(q, "saving") =>
         /\ ~ready /\ accountId \notin onceReady
         /\ \A o \in Clicks :
              /\ Clicking(o, "looking") => click[o].id \notin onceReady
              /\ Clicking(o, "copying") => ~click[o].seen

\* What a request saw of a completed account it saw of the row's account.
LooksAtTheRow ==
  \A q \in Clicks :
    /\ Clicking(q, "looking") =>
         /\ click[q].id \in Accounts
         /\ click[q].id \in onceReady => click[q].id = accountId
    /\ Clicking(q, "copying") /\ click[q].seen =>
         click[q].id \in onceReady /\ click[q].id = accountId

OnboardInv ==
  /\ OnboardTypeOK
  /\ ReportsWereTrue /\ NothingToLookUp /\ OpeningIsUncompleted /\ LooksAtTheRow
  /\ ready => accountId \in onceReady

-----------------------------------------------------------------------------
(* Each action preserves it.                                               *)

LEMMA OnboardInit_Inv == OnboardInit => OnboardInv
<1> SUFFICES ASSUME OnboardInit PROVE OnboardInv
  OBVIOUS
<1> USE NoAccountIsNone DEF OnboardInit, Clicking, NoClick
<1>1. OnboardTypeOK
  BY DEF OnboardTypeOK, Standing
<1>2. ReportsWereTrue /\ NothingToLookUp /\ OpeningIsUncompleted /\ LooksAtTheRow
  BY DEF ReportsWereTrue, NothingToLookUp, OpeningIsUncompleted, LooksAtTheRow
<1> QED
  BY <1>1, <1>2 DEF OnboardInv

LEMMA OpenOnboardingInv ==
  ASSUME OnboardInv, NEW q \in Clicks, OpenOnboarding(q)
  PROVE  OnboardInv'
<1> USE NoAccountIsNone DEF OnboardInv, OpenOnboarding, Clicking, Becomes, PaysOut, NoClick
<1>1. OnboardTypeOK'
  BY DEF OnboardTypeOK
<1>2. ReportsWereTrue' /\ NothingToLookUp'
  BY DEF OnboardTypeOK, ReportsWereTrue, NothingToLookUp
<1>3. OpeningIsUncompleted'
  BY DEF OnboardTypeOK, NothingToLookUp, OpeningIsUncompleted
<1>4. LooksAtTheRow'
  BY DEF OnboardTypeOK, LooksAtTheRow
<1> QED
  BY <1>1, <1>2, <1>3, <1>4

LEMMA LookUpInv ==
  ASSUME OnboardInv, NEW q \in Clicks, LookUp(q)
  PROVE  OnboardInv'
<1> USE NoAccountIsNone DEF OnboardInv, Clicking, NoClick
<1>1. click[q] = [pc |-> "looking", id |-> click[q].id] /\ click[q].id \in Accounts
  <2>1. click[q].pc = "looking" /\ click[q].id \in Accounts
    BY DEF LookUp, LooksAtTheRow
  <2>2. click[q] \in [pc : {"looking", "opening", "linking"}, id : Accounts \cup {NoAccount}]
    BY <2>1 DEF OnboardTypeOK
  <2> QED
    BY <2>1, <2>2
<1> DEFINE Seen == [pc |-> "copying", id |-> click[q].id,
                    seen |-> opened[click[q].id] = "enabled"]
           Unseen == [pc |-> "linking", id |-> click[q].id]
<1>2. click' = [click EXCEPT ![q] = Seen] \/ click' = [click EXCEPT ![q] = Unseen]
  BY <1>1 DEF LookUp, Becomes
<1>3. UNCHANGED <<opened, onceReady, accountId, ready, reports>>
  BY DEF LookUp
<1>4. OnboardTypeOK'
  <2> DEFINE Asks == [pc : {"looking", "opening", "linking"}, id : Accounts \cup {NoAccount}]
             Copies == [pc : {"copying"}, id : Accounts, seen : BOOLEAN]
  <2>1. Seen \in Copies /\ Unseen \in Asks
    BY <1>1
  <2>2. click' \in [Clicks -> {NoClick} \cup Asks \cup Copies
                                       \cup [pc : {"saving"}, id : Accounts]]
    <3>1. click \in [Clicks -> {NoClick} \cup Asks \cup Copies
                                       \cup [pc : {"saving"}, id : Accounts]]
      BY DEF OnboardTypeOK
    <3> HIDE DEF Seen, Unseen, Asks, Copies
    <3> QED
      BY <1>2, <2>1, <3>1
  <2> QED
    BY <1>3, <2>2 DEF OnboardTypeOK
<1>5. ReportsWereTrue' /\ NothingToLookUp'
  BY <1>1, <1>2, <1>3 DEF OnboardTypeOK, ReportsWereTrue, NothingToLookUp
<1>6. OpeningIsUncompleted'
  BY <1>1, <1>2, <1>3 DEF OnboardTypeOK, ReportsWereTrue, OpeningIsUncompleted, LooksAtTheRow
<1>7. LooksAtTheRow'
  <2>1. opened[click[q].id] = "enabled" =>
          click[q].id \in onceReady /\ click[q].id = accountId
    BY <1>1 DEF ReportsWereTrue, LooksAtTheRow
  <2>2. CASE click' = [click EXCEPT ![q] = Seen]
    BY <1>1, <1>3, <2>1, <2>2 DEF OnboardTypeOK, LooksAtTheRow
  <2>3. CASE click' = [click EXCEPT ![q] = Unseen]
    BY <1>1, <1>3, <2>3 DEF OnboardTypeOK, LooksAtTheRow
  <2> QED
    BY <1>2, <2>2, <2>3
<1> QED
  BY <1>3, <1>4, <1>5, <1>6, <1>7

LEMMA CopyFlagsInv ==
  ASSUME OnboardInv, NEW q \in Clicks, CopyFlags(q)
  PROVE  OnboardInv'
<1> USE NoAccountIsNone DEF OnboardInv, CopyFlags, Clicking, Becomes, NoClick
<1>1. OnboardTypeOK'
  BY DEF OnboardTypeOK
<1>2. ReportsWereTrue' /\ NothingToLookUp'
  BY DEF OnboardTypeOK, ReportsWereTrue, NothingToLookUp
<1>3. OpeningIsUncompleted'
  BY DEF OnboardTypeOK, OpeningIsUncompleted
<1>4. LooksAtTheRow' /\ (ready => accountId \in onceReady)'
  BY DEF OnboardTypeOK, LooksAtTheRow
<1> QED
  BY <1>1, <1>2, <1>3, <1>4

LEMMA OpenAccountInv ==
  ASSUME OnboardInv, NEW q \in Clicks, OpenAccount(q)
  PROVE  OnboardInv'
<1> USE NoAccountIsNone DEF OnboardInv, OpenAccount, Clicking, Becomes, NoClick
<1>1. OnboardTypeOK'
  BY DEF OnboardTypeOK, Standing
<1>2. ReportsWereTrue' /\ NothingToLookUp'
  BY DEF OnboardTypeOK, ReportsWereTrue, NothingToLookUp
<1>3. OpeningIsUncompleted'
  BY DEF OnboardTypeOK, ReportsWereTrue, OpeningIsUncompleted
<1>4. LooksAtTheRow'
  BY DEF OnboardTypeOK, LooksAtTheRow
<1> QED
  BY <1>1, <1>2, <1>3, <1>4

LEMMA SaveAccountInv ==
  ASSUME OnboardInv, NEW q \in Clicks, SaveAccount(q)
  PROVE  OnboardInv'
<1> USE NoAccountIsNone DEF OnboardInv, SaveAccount, Clicking, Becomes, NoClick
<1>1. OnboardTypeOK'
  BY DEF OnboardTypeOK
<1>2. ReportsWereTrue' /\ NothingToLookUp'
  BY DEF OnboardTypeOK, ReportsWereTrue, NothingToLookUp
<1>3. OpeningIsUncompleted'
  BY DEF OnboardTypeOK, OpeningIsUncompleted
<1>4. LooksAtTheRow' /\ (ready => accountId \in onceReady)'
  BY DEF OnboardTypeOK, OpeningIsUncompleted, LooksAtTheRow
<1> QED
  BY <1>1, <1>2, <1>3, <1>4

LEMMA LeaveInv ==
  ASSUME OnboardInv, NEW q \in Clicks, SendToStripe(q) \/ StopClick(q)
  PROVE  OnboardInv'
<1> USE NoAccountIsNone DEF OnboardInv, SendToStripe, StopClick, Clicking, Becomes, NoClick
<1>1. OnboardTypeOK'
  BY DEF OnboardTypeOK
<1>2. ReportsWereTrue' /\ NothingToLookUp'
  BY DEF OnboardTypeOK, ReportsWereTrue, NothingToLookUp
<1>3. OpeningIsUncompleted'
  BY DEF OnboardTypeOK, OpeningIsUncompleted
<1>4. LooksAtTheRow'
  BY DEF OnboardTypeOK, LooksAtTheRow
<1> QED
  BY <1>1, <1>2, <1>3, <1>4

\* The form is finished while no request is under way, which is why none of
\* them can hold an account as uncompleted that is completed meanwhile.
LEMMA FinishFormInv ==
  ASSUME OnboardInv, NEW a \in Accounts, FinishForm(a)
  PROVE  OnboardInv'
<1> USE NoAccountIsNone DEF OnboardInv, FinishForm, Clicking, NoClick
<1>1. /\ opened' \in [Accounts -> Standing \cup {"unopened"}]
      /\ \A b \in Accounts : opened'[b] = IF b = a THEN "enabled" ELSE opened[b]
  BY DEF OnboardTypeOK, Standing
<1>2. OnboardTypeOK' /\ ReportsWereTrue' /\ NothingToLookUp'
  <2>1. <<a, TRUE>> \in Accounts \X BOOLEAN /\ <<a, TRUE>>[1] = a /\ <<a, TRUE>>[2] = TRUE
    OBVIOUS
  <2>2. OnboardTypeOK'
    BY <1>1, <2>1 DEF OnboardTypeOK
  <2>3. ReportsWereTrue'
    BY <1>1, <2>1 DEF OnboardTypeOK, ReportsWereTrue
  <2>4. NothingToLookUp'
    BY DEF NothingToLookUp
  <2> QED
    BY <2>2, <2>3, <2>4
<1>3. OpeningIsUncompleted' /\ LooksAtTheRow'
  BY DEF OnboardTypeOK, OpeningIsUncompleted, LooksAtTheRow
<1> QED
  BY <1>1, <1>2, <1>3

LEMMA WithdrawInv ==
  ASSUME OnboardInv, NEW a \in Accounts, Withdraw(a)
  PROVE  OnboardInv'
<1> USE NoAccountIsNone DEF OnboardInv, Withdraw, Clicking, NoClick
<1>1. /\ opened' \in [Accounts -> Standing \cup {"unopened"}]
      /\ \A b \in Accounts : opened'[b] = IF b = a THEN "incomplete" ELSE opened[b]
  BY DEF OnboardTypeOK, Standing
<1>2. OnboardTypeOK' /\ ReportsWereTrue' /\ NothingToLookUp'
  <2>1. <<a, FALSE>> \in Accounts \X BOOLEAN /\ <<a, FALSE>>[1] = a /\ <<a, FALSE>>[2] = FALSE
    OBVIOUS
  <2>2. OnboardTypeOK'
    BY <1>1, <2>1 DEF OnboardTypeOK
  <2>3. ReportsWereTrue'
    BY <1>1, <2>1 DEF OnboardTypeOK, ReportsWereTrue
  <2>4. NothingToLookUp'
    BY DEF NothingToLookUp
  <2> QED
    BY <2>2, <2>3, <2>4
<1>3. OpeningIsUncompleted' /\ LooksAtTheRow'
  BY DEF OnboardTypeOK, OpeningIsUncompleted, LooksAtTheRow
<1> QED
  BY <1>1, <1>2, <1>3

\* An event is copied to the row only if it is about the row's account.
LEMMA AccountUpdatedInv ==
  ASSUME OnboardInv, AccountUpdated
  PROVE  OnboardInv'
<1> USE NoAccountIsNone DEF OnboardInv, AccountUpdated, Concerns, Clicking, NoClick
<1>1. OnboardTypeOK'
  BY DEF OnboardTypeOK
<1>2. ReportsWereTrue' /\ NothingToLookUp'
  BY DEF OnboardTypeOK, ReportsWereTrue, NothingToLookUp
<1>3. OpeningIsUncompleted' /\ LooksAtTheRow'
  BY DEF OnboardTypeOK, ReportsWereTrue, OpeningIsUncompleted, LooksAtTheRow
<1>4. (ready => accountId \in onceReady)'
  BY DEF OnboardTypeOK, ReportsWereTrue
<1> QED
  BY <1>1, <1>2, <1>3, <1>4

-----------------------------------------------------------------------------

LEMMA OnboardNext_Inv == OnboardInv /\ [OnboardNext]_onboardVars => OnboardInv'
<1> SUFFICES ASSUME OnboardInv, [OnboardNext]_onboardVars PROVE OnboardInv'
  OBVIOUS
<1>1. CASE AccountUpdated
  BY <1>1, AccountUpdatedInv
<1>2. ASSUME NEW a \in Accounts, FinishForm(a) \/ Withdraw(a) PROVE OnboardInv'
  BY <1>2, FinishFormInv, WithdrawInv
<1>3. ASSUME NEW q \in Clicks,
             \/ OpenOnboarding(q) \/ LookUp(q) \/ CopyFlags(q) \/ OpenAccount(q)
             \/ SaveAccount(q) \/ SendToStripe(q) \/ StopClick(q)
      PROVE OnboardInv'
  BY <1>3, OpenOnboardingInv, LookUpInv, CopyFlagsInv, OpenAccountInv,
     SaveAccountInv, LeaveInv
<1>4. CASE UNCHANGED onboardVars
  BY <1>4 DEF onboardVars, OnboardInv, OnboardTypeOK, ReportsWereTrue,
              NothingToLookUp, OpeningIsUncompleted, LooksAtTheRow, Clicking
<1> QED
  BY <1>1, <1>2, <1>3, <1>4 DEF OnboardNext

LEMMA OnboardInvariant == OnboardSpec => []OnboardInv
BY OnboardInit_Inv, OnboardNext_Inv, PTL DEF OnboardSpec

\* Whatever clicks overlap, calls fail and events are late, money is only paid
\* out to an account of the user's that was completed (models.py, is_active).
THEOREM PayoutsAreCompleted == OnboardSpec => []PaysOutToCompleted
<1>1. OnboardInv => PaysOutToCompleted
  BY DEF OnboardInv, PaysOutToCompleted, PaysOut
<1> QED
  BY <1>1, OnboardInvariant, PTL

-----------------------------------------------------------------------------
(* The workspace: every component runs as its own specification says.       *)

LEMMA Components ==
  Spec => /\ DocSpec /\ ReminderSpec /\ PlaidSpec /\ SubscriptionSpec /\ MergeSpec
          /\ SharingSpec /\ CacheSpec /\ MoneySpec /\ OnboardSpec
<1>1. Init => /\ DocInit /\ ReminderInit /\ PlaidInit /\ SubscriptionInit /\ MergeInit
              /\ SharingInit /\ CacheInit /\ MoneyInit /\ OnboardInit
  BY DEF Init
<1>2. [Next]_vars => /\ [DocNext /\ UNCHANGED env]_<<env, docVars>>
                     /\ [ReminderNext /\ UNCHANGED env]_<<env, reminderVars>>
                     /\ [PlaidNext /\ UNCHANGED env]_<<env, plaidVars>>
                     /\ [SubscriptionNext /\ UNCHANGED env]_<<env, subVars>>
  BY DEF Next, DocumentsStep, RemindersStep, PlaidStep, PlansStep, MergeStep,
     SharingStep, CachesStep, MoneyStep, OnboardingStep, vars, workVars, dataVars
<1>3. [Next]_vars => /\ [MergeNextStep /\ UNCHANGED env]_<<env, mergeVars>>
                     /\ [SharingNext /\ UNCHANGED env]_<<env, shareVars>>
                     /\ [CacheNext /\ UNCHANGED env]_<<env, cacheVars>>
                     /\ [MoneyNext /\ UNCHANGED env]_<<env, moneyVars>>
                     /\ [OnboardNext]_onboardVars
  BY DEF Next, DocumentsStep, RemindersStep, PlaidStep, PlansStep, MergeStep,
     SharingStep, CachesStep, MoneyStep, OnboardingStep, vars, workVars, dataVars
<1> QED BY <1>1, <1>2, <1>3, PTL
        DEF Spec, DocSpec, ReminderSpec, PlaidSpec, SubscriptionSpec, MergeSpec,
            SharingSpec, CacheSpec, MoneySpec, OnboardSpec

LEMMA PlaidInvariant == PlaidSpec => []PlaidInv
BY PlaidInit_Inv, PlaidNext_Inv, PTL DEF PlaidSpec

\* Every row, cache entry, message and request of the components around the
\* payments keeps the shape its code gives it: among them the scan counts, the
\* notices of a record and the lines of a bill stay within their bounds.
THEOREM WorkspaceTyped == Spec => []WorkspaceTypeOK
<1>1. PlaidInv => PlaidTypeOK
  BY DEF PlaidInv
<1>2. MergeInv => MergeTypeOK
  BY DEF MergeInv
<1>3. CacheInv => CacheTypeOK
  BY DEF CacheInv
<1>4. OnboardInv => OnboardTypeOK
  BY DEF OnboardInv
<1> QED BY <1>1, <1>2, <1>3, <1>4, Components, DocumentsTyped, RemindersTyped,
           PlaidInvariant, SubscriptionTyped, MergeInvariant, SharingTyped,
           CacheInvariant, MoneyTyped, OnboardInvariant, PTL
        DEF WorkspaceTypeOK

\* What each component keeps by itself it keeps in the workspace.
THEOREM WorkspaceKeepsPromises ==
  Spec => /\ [](OneOcrRecord /\ ScansBounded /\ StoredBounded /\ CounterIsExact)
          /\ []NothingIsSkipped /\ DisconnectedStaysQuiet
          /\ [](NobodyPaysTwice /\ NewestPlanIsKept)
          /\ [](MergedOnce /\ DocumentFollowsMerges /\ UndoRestores)
          /\ [](PackagesOnlyLetView /\ GrantHasReason /\ OpenShowsDocuments)
          /\ []RefundUndoesSettlement /\ OwnerShareSurvives /\ []CachesAreCurrent
          /\ [](BillMatchesRecords /\ FeeCoversCosts) /\ []PaysOutToCompleted
<1>1. Spec => /\ [](OneOcrRecord /\ ScansBounded /\ StoredBounded /\ CounterIsExact)
              /\ []NothingIsSkipped /\ DisconnectedStaysQuiet
              /\ [](NobodyPaysTwice /\ NewestPlanIsKept)
  BY Components, OneOcrRecordAlways, ScansBoundedAlways, StoredBoundedAlways,
     CounterIsExactAlways, NoUpdateIsSkipped, DisconnectedQuietAlways,
     NobodyPaysTwiceAlways, NewestPlanIsKeptAlways, PTL
<1>2. Spec => /\ [](MergedOnce /\ DocumentFollowsMerges /\ UndoRestores)
              /\ [](PackagesOnlyLetView /\ GrantHasReason /\ OpenShowsDocuments)
              /\ []RefundUndoesSettlement /\ OwnerShareSurvives
  BY Components, MergedOnceAlways, DocumentFollowsMergesAlways, UndoRestoresAlways,
     PackagesOnlyLetViewAlways, GrantHasReasonAlways, OpenShowsDocumentsAlways,
     RefundUndoesSettlementAlways, OwnerShareSurvivesAlways, PTL
<1>3. Spec => /\ []CachesAreCurrent /\ [](BillMatchesRecords /\ FeeCoversCosts)
              /\ []PaysOutToCompleted
  BY Components, CachesAreCurrentAlways, BillMatchesRecordsAlways,
     FeeCoversCostsAlways, PayoutsAreCompleted, PTL
<1> QED BY <1>1, <1>2, <1>3, PTL
=============================================================================
