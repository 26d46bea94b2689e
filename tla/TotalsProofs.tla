---------------------------- MODULE TotalsProofs ----------------------------
(***************************************************************************)
(* A running total exists for every sequence of numbers and is unique, and *)
(* so does the sum over a finite set, whatever order it is taken in.  The  *)
(* prover has no induction rule it could instantiate, so each fact is      *)
(* proved by descent: the indices at which it fails would have a least     *)
(* element, because < on the naturals is well-founded.  For sets the same  *)
(* argument is made once (SetInduction); what the counting proofs cite is  *)
(* how a sum grows, scales, joins, is renamed and is taken row by row.     *)
(***************************************************************************)
EXTENDS Totals, FiniteSetTheorems, WellFoundedInduction, TLAPS

\* A nonempty set of naturals has a least element.
LEMMA LeastElement ==
    ASSUME NEW S \in SUBSET Nat, S # {}
    PROVE  \E n \in S : \A m \in S : n <= m
<1>1. IsWellFoundedOn(OpToRel(<, Nat), Nat)
  BY NatLessThanWellFounded
<1>2. PICK n \in S : \A m \in S : ~(<<m, n>> \in OpToRel(<, Nat))
  BY <1>1, WFMin
<1>3. ASSUME NEW m \in S, ~(n <= m) PROVE FALSE
  <2>1. <<m, n>> \in Nat \X Nat /\ m < n
    BY <1>3
  <2>2. <<m, n>> \in {p \in Nat \X Nat : p[1] < p[2]}
    BY <2>1
  <2> QED
    BY <1>2, <2>2 DEF OpToRel
<1> QED
  BY <1>3

\* What it is to be the running total of the first n entries.
Adds(f, w, n) == f = [i \in 0 .. n |-> IF i = 0 THEN 0 ELSE f[i - 1] + w[i]]

\* What it says entry by entry.
LEMMA AddsAt ==
    ASSUME NEW w, NEW n \in Nat, NEW f, Adds(f, w, n)
    PROVE  f[0] = 0 /\ \A i \in 1 .. n : f[i] = f[i - 1] + w[i]
  BY Z3 DEF Adds

\* There is one: the least length without one would have a predecessor with one.
LEMMA SomethingAdds ==
    ASSUME NEW w \in Seq(Nat), NEW n \in 0 .. Len(w)
    PROVE  \E f : Adds(f, w, n)
<1> DEFINE Bad == {k \in 0 .. Len(w) : ~\E f : Adds(f, w, k)}
<1>1. SUFFICES ASSUME Bad # {} PROVE FALSE
  OBVIOUS
<1>2. PICK k \in Bad : \A m \in Bad : k <= m
  <2>1. Bad \in SUBSET Nat
    OBVIOUS
  <2> HIDE DEF Bad
  <2> QED
    BY <1>1, <2>1, LeastElement
<1>3. k # 0
  <2>1. Adds([i \in 0 .. 0 |-> 0], w, 0)
    BY DEF Adds
  <2> QED
    BY <1>2, <2>1
<1>4. k - 1 \in 0 .. Len(w) /\ k - 1 \notin Bad
  BY <1>2, <1>3
<1>5. PICK f : Adds(f, w, k - 1)
  BY <1>4
<1> DEFINE g == [i \in 0 .. k |-> IF i = k THEN f[k - 1] + w[k] ELSE f[i]]
<1>6. Adds(g, w, k)
  <2>1. k \in Nat /\ k # 0
    BY <1>2, <1>3
  <2>2. f = [i \in 0 .. k - 1 |-> IF i = 0 THEN 0 ELSE f[i - 1] + w[i]]
    BY <1>5 DEF Adds
  <2>3. \A i \in 0 .. k : g[i] = IF i = 0 THEN 0 ELSE g[i - 1] + w[i]
    <3> SUFFICES ASSUME NEW i \in 0 .. k PROVE g[i] = IF i = 0 THEN 0 ELSE g[i - 1] + w[i]
      OBVIOUS
    <3>1. CASE i = k
      BY <2>1, <3>1
    <3>2. CASE i # k
      <4>1. i \in 0 .. k - 1 /\ g[i] = f[i]
        BY <2>1, <3>2
      <4>2. i # 0 => i - 1 \in 0 .. k /\ i - 1 # k
        BY <2>1, <3>2
      <4> QED
        BY <2>2, <4>1, <4>2
    <3> QED
      BY <3>1, <3>2
  <2> HIDE DEF g
  <2>4. g = [i \in 0 .. k |-> g[i]]
    BY DEF g
  <2> QED
    BY <2>3, <2>4 DEF Adds
<1> QED
  BY <1>2, <1>6

\* RunningTotals is such a total.
LEMMA RunningTotalsAdd ==
    ASSUME NEW w \in Seq(Nat)
    PROVE  Adds(RunningTotals(w), w, Len(w))
<1>1. \E f : Adds(f, w, Len(w))
  BY SomethingAdds
<1> QED
  BY <1>1, Zenon DEF RunningTotals, Adds

\* Sequences that begin alike have the same running totals that far.
LEMMA TotalsAgree ==
    ASSUME NEW w \in Seq(Nat), NEW v \in Seq(Nat), NEW n \in Nat,
           n <= Len(w), n <= Len(v), \A i \in 1 .. n : w[i] = v[i]
    PROVE  RunningTotals(w)[n] = RunningTotals(v)[n]
<1> DEFINE f == RunningTotals(w)
           g == RunningTotals(v)
           Bad == {i \in 0 .. n : f[i] # g[i]}
<1>1. SUFFICES ASSUME Bad # {} PROVE FALSE
  OBVIOUS
<1>2. PICK i \in Bad : \A m \in Bad : i <= m
  <2>1. Bad \in SUBSET Nat
    OBVIOUS
  <2> HIDE DEF Bad
  <2> QED
    BY <1>1, <2>1, LeastElement
<1>3. /\ f[0] = 0 /\ \A j \in 1 .. Len(w) : f[j] = f[j - 1] + w[j]
      /\ g[0] = 0 /\ \A j \in 1 .. Len(v) : g[j] = g[j - 1] + v[j]
  BY RunningTotalsAdd, AddsAt
<1> HIDE DEF f, g
<1>4. i \in 1 .. n /\ i - 1 \in 0 .. n /\ i - 1 \notin Bad
  BY <1>2, <1>3
<1>5. f[i] = f[i - 1] + w[i] /\ g[i] = g[i - 1] + v[i]
  BY <1>3, <1>4
<1> QED
  BY <1>2, <1>4, <1>5

\* Running totals of natural numbers are natural numbers.
LEMMA RunningTotalsAreNat ==
    ASSUME NEW w \in Seq(Nat), NEW n \in 0 .. Len(w)
    PROVE  RunningTotals(w)[n] \in Nat
<1> DEFINE f == RunningTotals(w)
           Bad == {i \in 0 .. Len(w) : f[i] \notin Nat}
<1>1. SUFFICES ASSUME Bad # {} PROVE FALSE
  OBVIOUS
<1>2. PICK i \in Bad : \A m \in Bad : i <= m
  <2>1. Bad \in SUBSET Nat
    OBVIOUS
  <2> HIDE DEF Bad
  <2> QED
    BY <1>1, <2>1, LeastElement
<1>3. f[0] = 0 /\ \A j \in 1 .. Len(w) : f[j] = f[j - 1] + w[j]
  BY RunningTotalsAdd, AddsAt
<1> HIDE DEF f
<1>4. i \in 1 .. Len(w) /\ i - 1 \in 0 .. Len(w) /\ i - 1 \notin Bad /\ w[i] \in Nat
  BY <1>2, <1>3
<1> QED
  BY <1>2, <1>3, <1>4

\* The three facts about totals the proofs use.
LEMMA TotalEmpty == Total(<< >>) = 0
<1>1. << >> \in Seq(Nat) /\ Len(<< >>) = 0
  OBVIOUS
<1> QED
  <2>1. Adds(RunningTotals(<< >>), << >>, Len(<< >>))
    BY <1>1, RunningTotalsAdd
  <2>2. RunningTotals(<< >>)[0] = 0
    BY <1>1, <2>1, AddsAt
  <2> QED
    BY <1>1, <2>2 DEF Total

LEMMA TotalIsNat ==
    ASSUME NEW w \in Seq(Nat)
    PROVE  Total(w) \in Nat
  BY RunningTotalsAreNat DEF Total

LEMMA TotalOfAppend ==
    ASSUME NEW w \in Seq(Nat), NEW x \in Nat
    PROVE  Total(Append(w, x)) = Total(w) + x
<1> DEFINE v == Append(w, x)
<1>1. /\ v \in Seq(Nat) /\ Len(v) = Len(w) + 1 /\ v[Len(w) + 1] = x
      /\ \A i \in 1 .. Len(w) : w[i] = v[i]
  OBVIOUS
<1> HIDE DEF v
<1>2. Adds(RunningTotals(w), w, Len(w)) /\ Adds(RunningTotals(v), v, Len(v))
  BY <1>1, RunningTotalsAdd
<1>3. RunningTotals(w)[Len(w)] = RunningTotals(v)[Len(w)]
  <2> DEFINE n == Len(w)
  <2>1. n \in Nat /\ n <= Len(w) /\ n <= Len(v) /\ v \in Seq(Nat)
        /\ \A i \in 1 .. n : w[i] = v[i]
    BY <1>1
  <2> HIDE DEF n
  <2>2. RunningTotals(w)[n] = RunningTotals(v)[n]
    BY <2>1, TotalsAgree
  <2> QED
    BY <2>2 DEF n
<1>4. RunningTotals(v)[Len(v)] = RunningTotals(v)[Len(v) - 1] + v[Len(v)]
  BY <1>1, <1>2, AddsAt
<1> QED
  BY <1>1, <1>3, <1>4 DEF Total, v

\* The same for a sequence that is one entry longer and else alike.
LEMMA TotalOfOneMore ==
    ASSUME NEW w \in Seq(Nat), NEW v \in Seq(Nat),
           Len(v) = Len(w) + 1, \A i \in 1 .. Len(w) : v[i] = w[i]
    PROVE  Total(v) = Total(w) + v[Len(v)]
<1>1. v[Len(v)] \in Nat
  OBVIOUS
<1>2. v = Append(w, v[Len(v)])
  <2>1. Append(w, v[Len(v)]) \in Seq(Nat)
    BY <1>1
  <2> QED
    BY <1>1, <2>1
<1> QED
  BY <1>1, <1>2, TotalOfAppend, Zenon

\* A sequence with one entry raised by one has a total that is one higher.
LEMMA TotalOfRaised ==
    ASSUME NEW w \in Seq(Nat), NEW v \in Seq(Nat), Len(v) = Len(w),
           NEW d \in 1 .. Len(w), v[d] = w[d] + 1,
           \A i \in 1 .. Len(w) : i # d => v[i] = w[i]
    PROVE  Total(v) = Total(w) + 1
<1> DEFINE f == RunningTotals(w)
           g == RunningTotals(v)
           Bad == {i \in 0 .. Len(w) : i >= d /\ g[i] # f[i] + 1}
<1>1. SUFFICES ASSUME Bad # {} PROVE FALSE
  BY DEF Total
<1>2. PICK i \in Bad : \A m \in Bad : i <= m
  <2>1. Bad \in SUBSET Nat
    OBVIOUS
  <2> HIDE DEF Bad
  <2> QED
    BY <1>1, <2>1, LeastElement
<1>3. /\ \A j \in 1 .. Len(w) : f[j] = f[j - 1] + w[j]
      /\ \A j \in 1 .. Len(v) : g[j] = g[j - 1] + v[j]
  <2>1. Adds(f, w, Len(w)) /\ Adds(g, v, Len(v)) /\ Len(w) \in Nat /\ Len(v) \in Nat
    BY RunningTotalsAdd
  <2> HIDE DEF f, g
  <2>2. \A j \in 1 .. Len(w) : f[j] = f[j - 1] + w[j]
    BY <2>1, AddsAt
  <2>3. \A j \in 1 .. Len(v) : g[j] = g[j - 1] + v[j]
    BY <2>1, AddsAt
  <2> QED
    BY <2>2, <2>3
<1>4. /\ i \in 1 .. Len(w) /\ i - 1 \in 0 .. Len(w) /\ i - 1 \notin Bad
      /\ f[i - 1] \in Nat /\ w[i] \in Nat /\ i >= d
  BY <1>2, RunningTotalsAreNat
<1>5. g[i - 1] = IF i = d THEN f[i - 1] ELSE f[i - 1] + 1
  <2>1. CASE i = d
    <3>1. d - 1 \in Nat /\ d - 1 <= Len(w) /\ d - 1 <= Len(v)
          /\ \A j \in 1 .. d - 1 : w[j] = v[j]
      OBVIOUS
    <3> QED
      BY <2>1, <3>1, TotalsAgree
  <2>2. CASE i # d
    BY <1>4, <2>2
  <2> QED
    BY <2>1, <2>2
<1> HIDE DEF f, g, Bad
<1>6. f[i] = f[i - 1] + w[i] /\ g[i] = g[i - 1] + v[i]
  BY <1>3, <1>4
<1>7. v[i] = IF i = d THEN w[i] + 1 ELSE w[i]
  BY <1>4
<1>8. g[i] = f[i] + 1
  <2>1. CASE i = d
    BY <1>4, <1>5, <1>6, <1>7, <2>1
  <2>2. CASE i # d
    BY <1>4, <1>5, <1>6, <1>7, <2>2
  <2> QED
    BY <2>1, <2>2
<1> QED
  BY <1>2, <1>8 DEF Bad

-----------------------------------------------------------------------------
(* Sums of functions.  Induction over a finite set, with the property given *)
(* as the set of subsets that have it.                                      *)

LEMMA SmallestSubset ==
    ASSUME NEW S, IsFiniteSet(S), NEW Some \in SUBSET SUBSET S, Some # {}
    PROVE  \E T \in Some : \A U \in Some : Cardinality(T) <= Cardinality(U)
<1> DEFINE Sizes == {Cardinality(T) : T \in Some}
<1>1. Sizes \in SUBSET Nat /\ Sizes # {}
  BY FS_Subset, FS_CardinalityType
<1> HIDE DEF Sizes
<1>2. \E n \in Sizes : \A m \in Sizes : n <= m
  BY <1>1, LeastElement
<1> QED
  BY <1>2 DEF Sizes

LEMMA SetInduction ==
    ASSUME NEW S, IsFiniteSet(S), NEW Good \in SUBSET SUBSET S, {} \in Good,
           \A T \in Good : \A x \in S \ T : T \cup {x} \in Good
    PROVE  S \in Good
<1>1. SUFFICES ASSUME S \notin Good PROVE FALSE
  OBVIOUS
<1>2. PICK T \in (SUBSET S) \ Good : \A U \in (SUBSET S) \ Good : Cardinality(T) <= Cardinality(U)
  BY <1>1, SmallestSubset
<1>3. PICK x : x \in T
  BY <1>2
<1>4. Cardinality(T \ {x}) < Cardinality(T)
  BY <1>2, <1>3, FS_Subset, FS_CardinalityType, FS_RemoveElement
<1>5. T \ {x} \in Good
  BY <1>2, <1>4, FS_Subset, FS_CardinalityType
<1>6. (T \ {x}) \cup {x} = T
  BY <1>3
<1> QED
  BY <1>2, <1>3, <1>5, <1>6

\* What it is to have the sum of f over every subset of S, in the order of the library.
Chosen(s) == CHOOSE x \in s : TRUE

AddsOver(g, f, S) ==
    g = [s \in SUBSET S |-> IF s = {} THEN 0 ELSE f[Chosen(s)] + g[s \ {Chosen(s)}]]

LEMMA AddsOverAt ==
    ASSUME NEW S, NEW f, NEW g, AddsOver(g, f, S)
    PROVE  /\ g[{}] = 0
           /\ \A s \in SUBSET S :
                s # {} => /\ Chosen(s) \in s
                          /\ g[s] = f[Chosen(s)] + g[s \ {Chosen(s)}]
<1>1. \A s : s # {} => Chosen(s) \in s
  BY DEF Chosen
<1>2. {} \in SUBSET S
  OBVIOUS
<1>3. \A s \in SUBSET S : g[s] = IF s = {} THEN 0 ELSE f[Chosen(s)] + g[s \ {Chosen(s)}]
  BY Zenon DEF AddsOver
<1> QED
  BY <1>1, <1>2, <1>3, Zenon

\* There is one: the sums of the subsets of n elements give those of n + 1.
LEMMA SomethingAddsOver ==
    ASSUME NEW S, IsFiniteSet(S), NEW f
    PROVE  \E g : AddsOver(g, f, S)
<1> DEFINE Next(g, s) == IF s = {} THEN 0 ELSE f[Chosen(s)] + g[s \ {Chosen(s)}]
           UpTo(n) == \E g : \A s \in SUBSET S : Cardinality(s) <= n => g[s] = Next(g, s)
           Bad == {n \in Nat : ~UpTo(n)}
<1>1. \A s \in SUBSET S : IsFiniteSet(s) /\ Cardinality(s) \in Nat /\ Cardinality(s) <= Cardinality(S)
  BY FS_Subset, FS_CardinalityType
<1>2. UpTo(0)
  <2> DEFINE g == [s \in SUBSET S |-> 0]
  <2>1. \A s \in SUBSET S : Cardinality(s) <= 0 => g[s] = Next(g, s)
    BY <1>1, FS_EmptySet
  <2> QED
    BY <2>1
<1>3. ASSUME NEW n \in Nat, UpTo(n) PROVE UpTo(n + 1)
  <2>1. PICK h : \A s \in SUBSET S : Cardinality(s) <= n => h[s] = Next(h, s)
    BY <1>3
  <2> DEFINE g == [s \in SUBSET S |-> Next(h, s)]
  <2>2. \A s \in SUBSET S : Cardinality(s) <= n => g[s] = h[s]
    BY <2>1
  <2>3. ASSUME NEW s \in SUBSET S, Cardinality(s) <= n + 1, s # {}
        PROVE  g[s] = Next(g, s)
    <3>1. Chosen(s) \in s
      BY <2>3 DEF Chosen
    <3>2. s \ {Chosen(s)} \in SUBSET S /\ Cardinality(s \ {Chosen(s)}) <= n
      BY <1>1, <2>3, <3>1, FS_RemoveElement
    <3>3. g[s] = f[Chosen(s)] + h[s \ {Chosen(s)}]
      BY <2>3
    <3> HIDE DEF g
    <3>4. g[s \ {Chosen(s)}] = h[s \ {Chosen(s)}]
      BY <2>2, <3>2
    <3> QED
      BY <2>3, <3>3, <3>4
  <2>4. \A s \in SUBSET S : Cardinality(s) <= n + 1 => g[s] = Next(g, s)
    <3> SUFFICES ASSUME NEW s \in SUBSET S, Cardinality(s) <= n + 1 PROVE g[s] = Next(g, s)
      OBVIOUS
    <3>1. CASE s = {}
      BY <3>1
    <3>2. CASE s # {}
      BY <2>3, <3>2
    <3> QED
      BY <3>1, <3>2
  <2> HIDE DEF g
  <2> QED
    BY <2>4
<1> HIDE DEF UpTo
<1>4. \A n \in Nat : UpTo(n)
  <2> SUFFICES ASSUME Bad # {} PROVE FALSE
    OBVIOUS
  <2>1. PICK n \in Bad : \A m \in Bad : n <= m
    <3>1. Bad \in SUBSET Nat
      OBVIOUS
    <3> HIDE DEF Bad
    <3> QED
      BY <3>1, LeastElement
  <2>2. n # 0 /\ n - 1 \in Nat /\ n - 1 \notin Bad
    BY <1>2, <2>1
  <2>3. UpTo(n - 1)
    BY <2>2
  <2>4. UpTo((n - 1) + 1)
    BY <1>3, <2>2, <2>3
  <2> QED
    BY <2>1, <2>4
<1>5. UpTo(Cardinality(S))
  BY <1>1, <1>4
<1>6. PICK g : \A s \in SUBSET S : g[s] = Next(g, s)
  BY <1>1, <1>5 DEF UpTo
<1> DEFINE r == [s \in SUBSET S |-> g[s]]
<1>7. r = [s \in SUBSET S |-> Next(r, s)]
  <2>1. \A s \in SUBSET S : g[s] = Next(r, s)
    <3> TAKE s \in SUBSET S
    <3>1. s \ {Chosen(s)} \in SUBSET S
      OBVIOUS
    <3> QED
      BY <1>6, <3>1
  <2> HIDE DEF Next
  <2> QED
    BY <2>1, Zenon
<1> HIDE DEF r
<1> QED
  BY <1>7 DEF AddsOver

\* SumOf is such a sum, of every subset at once.
Sums(f) == CHOOSE g : AddsOver(g, f, DOMAIN f)

LEMMA SumOfIsOne ==
    ASSUME NEW f, IsFiniteSet(DOMAIN f)
    PROVE  AddsOver(Sums(f), f, DOMAIN f) /\ SumOf(f) = Sums(f)[DOMAIN f]
<1>1. \E g : AddsOver(g, f, DOMAIN f)
  BY SomethingAddsOver
<1>2. SumOf(f) = Sums(f)[DOMAIN f]
  BY Zenon DEF SumOf, MapThenSumSet, MapThenFoldSet, Sums, AddsOver, Chosen
<1> QED
  BY <1>1, <1>2, Zenon DEF Sums

\* A number for every element.
NatValued(f) == \A x \in DOMAIN f : f[x] \in Nat

LEMMA SumsAreNat ==
    ASSUME NEW f, IsFiniteSet(DOMAIN f), NatValued(f)
    PROVE  \A T \in SUBSET DOMAIN f : Sums(f)[T] \in Nat
<1> DEFINE Fails == {T \in SUBSET DOMAIN f : Sums(f)[T] \notin Nat}
<1>1. AddsOver(Sums(f), f, DOMAIN f)
  BY SumOfIsOne
<1>2. /\ Sums(f)[{}] = 0
      /\ \A s \in SUBSET DOMAIN f :
            s # {} => /\ Chosen(s) \in s
                      /\ Sums(f)[s] = f[Chosen(s)] + Sums(f)[s \ {Chosen(s)}]
  BY <1>1, AddsOverAt
<1>3. SUFFICES ASSUME Fails # {} PROVE FALSE
  OBVIOUS
<1>4. PICK T \in Fails : \A U \in Fails : Cardinality(T) <= Cardinality(U)
  <2>1. Fails \in SUBSET SUBSET DOMAIN f
    OBVIOUS
  <2> HIDE DEF Fails
  <2> QED
    BY <1>3, <2>1, SmallestSubset
<1>5. /\ T \in SUBSET DOMAIN f /\ T # {} /\ Chosen(T) \in T /\ Sums(f)[T] \notin Nat
      /\ Sums(f)[T] = f[Chosen(T)] + Sums(f)[T \ {Chosen(T)}]
  <2>1. T \in SUBSET DOMAIN f /\ Sums(f)[T] \notin Nat
    BY <1>4
  <2>2. T # {}
    <3>1. ASSUME T = {} PROVE Sums(f)[T] = 0
      BY <1>2, <3>1, Zenon
    <3> QED
      BY <2>1, <3>1
  <2> QED
    BY <1>2, <2>1, <2>2, Zenon
<1> DEFINE c == Chosen(T)
<1> HIDE DEF c, Fails
<1>6. IsFiniteSet(T) /\ Cardinality(T) \in Nat
  BY <1>5, FS_Subset, FS_CardinalityType
<1>7. T \ {c} \in SUBSET DOMAIN f /\ ~(Cardinality(T) <= Cardinality(T \ {c}))
  <2>1. c \in T
    BY <1>5 DEF c
  <2>2. Cardinality(T \ {c}) = Cardinality(T) - 1
    BY <1>6, <2>1, FS_RemoveElement
  <2> QED
    BY <1>5, <1>6, <2>2
<1>8. Sums(f)[T \ {c}] \in Nat
  BY <1>4, <1>7 DEF Fails
<1>9. f[c] \in Nat
  BY <1>5 DEF NatValued, c
<1>10. Sums(f)[T] = f[c] + Sums(f)[T \ {c}]
  BY <1>5 DEF c
<1> QED
  BY <1>5, <1>8, <1>9, <1>10

\* The order does not matter: any element may come first.
LEMMA AnyoneFirst ==
    ASSUME NEW f, IsFiniteSet(DOMAIN f), NatValued(f)
    PROVE  \A T \in SUBSET DOMAIN f : \A x \in T : Sums(f)[T] = f[x] + Sums(f)[T \ {x}]
<1> DEFINE g == Sums(f)
           Fails == {T \in SUBSET DOMAIN f : \E x \in T : g[T] # f[x] + g[T \ {x}]}
<1>1. AddsOver(g, f, DOMAIN f)
  BY SumOfIsOne
<1>2. /\ g[{}] = 0
      /\ \A s \in SUBSET DOMAIN f :
            s # {} => /\ Chosen(s) \in s
                      /\ g[s] = f[Chosen(s)] + g[s \ {Chosen(s)}]
  BY <1>1, AddsOverAt
<1>3. \A s \in SUBSET DOMAIN f : g[s] \in Nat
  BY SumsAreNat
<1> HIDE DEF g
<1>4. SUFFICES ASSUME Fails # {} PROVE FALSE
  BY DEF g
<1>5. PICK T \in Fails : \A U \in Fails : Cardinality(T) <= Cardinality(U)
  <2>1. Fails \in SUBSET SUBSET DOMAIN f
    OBVIOUS
  <2> HIDE DEF Fails
  <2> QED
    BY <1>4, <2>1, SmallestSubset
<1>6. PICK x \in T : T \in SUBSET DOMAIN f /\ g[T] # f[x] + g[T \ {x}]
  BY <1>5
<1> DEFINE c == Chosen(T)
<1>7. c \in T /\ g[T] = f[c] + g[T \ {c}]
  BY <1>2, <1>6
<1> HIDE DEF c
<1>8. c # x
  BY <1>6, <1>7
<1>9. IsFiniteSet(T) /\ Cardinality(T) \in Nat
  BY <1>6, FS_Subset, FS_CardinalityType
<1>10. /\ T \ {c} \in SUBSET DOMAIN f /\ T \ {x} \in SUBSET DOMAIN f
       /\ ~(Cardinality(T) <= Cardinality(T \ {c})) /\ ~(Cardinality(T) <= Cardinality(T \ {x}))
  <2>1. Cardinality(T \ {c}) = Cardinality(T) - 1
    BY <1>7, <1>9, FS_RemoveElement
  <2>2. Cardinality(T \ {x}) = Cardinality(T) - 1
    BY <1>9, FS_RemoveElement
  <2> QED
    BY <1>6, <1>7, <1>9, <2>1, <2>2
<1>11. T \ {c} \notin Fails /\ T \ {x} \notin Fails
  BY <1>5, <1>10
<1>12. g[T \ {c}] = f[x] + g[(T \ {c}) \ {x}] /\ g[T \ {x}] = f[c] + g[(T \ {x}) \ {c}]
  BY <1>6, <1>7, <1>8, <1>10, <1>11
<1>13. (T \ {c}) \ {x} = (T \ {x}) \ {c}
  OBVIOUS
<1> DEFINE rest == g[(T \ {x}) \ {c}]
<1>14. f[x] \in Nat /\ f[c] \in Nat /\ rest \in Nat
  BY <1>3, <1>6, <1>7 DEF NatValued
<1>15. g[T] = f[c] + (f[x] + rest)
  BY <1>7, <1>12, <1>13, Zenon
<1>16. g[T] # f[x] + (f[c] + rest)
  BY <1>6, <1>12, Zenon
<1> HIDE DEF Fails, rest
<1> QED
  BY <1>14, <1>15, <1>16

\* Functions that agree on a set have the same sum over it.
LEMMA SumsAgree ==
    ASSUME NEW f, IsFiniteSet(DOMAIN f), NatValued(f),
           NEW h, IsFiniteSet(DOMAIN h), NatValued(h),
           NEW S \in SUBSET DOMAIN f, S \subseteq DOMAIN h, \A x \in S : f[x] = h[x]
    PROVE  Sums(f)[S] = Sums(h)[S]
<1> DEFINE Good == {T \in SUBSET S : Sums(f)[T] = Sums(h)[T]}
<1>1. IsFiniteSet(S)
  BY FS_Subset
<1>2. {} \in Good
  <2>1. Sums(f)[{}] = 0
    BY SumOfIsOne, AddsOverAt
  <2>2. Sums(h)[{}] = 0
    BY SumOfIsOne, AddsOverAt
  <2> QED
    BY <2>1, <2>2
<1>3. ASSUME NEW T \in Good, NEW x \in S \ T PROVE T \cup {x} \in Good
  <2>1. (T \cup {x}) \ {x} = T /\ T \cup {x} \in SUBSET DOMAIN f /\ T \cup {x} \in SUBSET DOMAIN h
        /\ x \in T \cup {x} /\ T \cup {x} \in SUBSET S
    BY <1>3
  <2> DEFINE U == T \cup {x}
  <2> HIDE DEF U
  <2>2. Sums(f)[U] = f[x] + Sums(f)[U \ {x}]
    BY <2>1, AnyoneFirst DEF U
  <2>3. Sums(h)[U] = h[x] + Sums(h)[U \ {x}]
    BY <2>1, AnyoneFirst DEF U
  <2> QED
    BY <1>3, <2>1, <2>2, <2>3 DEF U
<1> HIDE DEF Good
<1>4. S \in Good
  <2>1. Good \in SUBSET SUBSET S
    BY DEF Good
  <2> QED
    BY <1>1, <1>2, <1>3, <2>1, SetInduction
<1> QED
  BY <1>4 DEF Good

\* What the proofs use of SumOf: a number, none for nobody, and one after the other.
LEMMA SumIsNat ==
    ASSUME NEW f, IsFiniteSet(DOMAIN f), NatValued(f)
    PROVE  SumOf(f) \in Nat
<1>1. SumOf(f) = Sums(f)[DOMAIN f]
  BY SumOfIsOne
<1>2. \A T \in SUBSET DOMAIN f : Sums(f)[T] \in Nat
  BY SumsAreNat
<1> QED
  BY <1>1, <1>2

LEMMA SumOfNone ==
    ASSUME NEW f, DOMAIN f = {}
    PROVE  SumOf(f) = 0
<1>1. IsFiniteSet(DOMAIN f)
  BY FS_EmptySet
<1>2. SumOf(f) = Sums(f)[DOMAIN f] /\ AddsOver(Sums(f), f, DOMAIN f)
  BY <1>1, SumOfIsOne
<1>3. Sums(f)[{}] = 0
  BY <1>2, AddsOverAt
<1> QED
  BY <1>2, <1>3

LEMMA SumOfOneMore ==
    ASSUME NEW S, IsFiniteSet(S), NEW x, x \notin S, NEW f, DOMAIN f = S \cup {x}, NatValued(f)
    PROVE  SumOf(f) = f[x] + SumOf([y \in S |-> f[y]])
<1> DEFINE h == [y \in S |-> f[y]]
<1>1. IsFiniteSet(DOMAIN f)
  BY FS_AddElement
<1>2. IsFiniteSet(DOMAIN h) /\ NatValued(h) /\ DOMAIN h = S /\ \A y \in S : h[y] = f[y]
  BY DEF NatValued
<1> HIDE DEF h
<1>3. SumOf(f) = Sums(f)[DOMAIN f]
  BY <1>1, SumOfIsOne
<1>4. SumOf(h) = Sums(h)[S]
  BY <1>2, SumOfIsOne
<1>5. \A T \in SUBSET DOMAIN f : \A y \in T : Sums(f)[T] = f[y] + Sums(f)[T \ {y}]
  BY <1>1, AnyoneFirst
<1>6. Sums(f)[S] = Sums(h)[S]
  BY <1>1, <1>2, SumsAgree
<1>7. (DOMAIN f) \ {x} = S /\ x \in DOMAIN f /\ DOMAIN f \in SUBSET DOMAIN f
  OBVIOUS
<1>8. Sums(f)[DOMAIN f] = f[x] + Sums(f)[S]
  BY <1>5, <1>7, Zenon
<1>9. SumOf(f) = f[x] + SumOf(h)
  BY <1>3, <1>4, <1>6, <1>8, Zenon
<1> QED
  BY <1>9 DEF h

\* The same, for the sums over all subsets of one set.
LEMMA SumOfMore ==
    ASSUME NEW S, NEW T \in SUBSET S, IsFiniteSet(T), NEW x \in S \ T,
           NEW f, DOMAIN f = S, NatValued(f)
    PROVE  SumOf([y \in T \cup {x} |-> f[y]]) = f[x] + SumOf([y \in T |-> f[y]])
<1> DEFINE g == [y \in T \cup {x} |-> f[y]]
<1>1. DOMAIN g = T \cup {x} /\ g[x] = f[x] /\ NatValued(g)
  BY DEF NatValued
<1>2. [y \in T |-> g[y]] = [y \in T |-> f[y]]
  OBVIOUS
<1> HIDE DEF g
<1>3. SumOf(g) = g[x] + SumOf([y \in T |-> g[y]])
  BY <1>1, SumOfOneMore
<1>4. SumOf(g) = f[x] + SumOf([y \in T |-> f[y]])
  BY <1>1, <1>2, <1>3
<1> QED
  BY <1>4 DEF g

\* Sums of constants, and of sums.
LEMMA SumOfConstant ==
    ASSUME NEW S, IsFiniteSet(S), NEW c \in Nat
    PROVE  SumOf([x \in S |-> c]) = Cardinality(S) * c
<1> DEFINE f == [x \in S |-> c]
           Good == {T \in SUBSET S : SumOf([x \in T |-> f[x]]) = Cardinality(T) * c}
<1>1. DOMAIN f = S /\ NatValued(f) /\ \A x \in S : f[x] = c
  BY DEF NatValued
<1> HIDE DEF f
<1>2. {} \in Good
  <2>1. SumOf([x \in {} |-> f[x]]) = 0
    BY SumOfNone
  <2>2. Cardinality({}) * c = 0
    BY FS_EmptySet
  <2> QED
    BY <2>1, <2>2
<1>3. ASSUME NEW T \in Good, NEW x \in S \ T PROVE T \cup {x} \in Good
  <2>1. T \in SUBSET S /\ IsFiniteSet(T) /\ SumOf([y \in T |-> f[y]]) = Cardinality(T) * c
    BY <1>3, FS_Subset
  <2>2. SumOf([y \in T \cup {x} |-> f[y]]) = f[x] + SumOf([y \in T |-> f[y]])
    BY <1>1, <2>1, SumOfMore
  <2>3. Cardinality(T \cup {x}) = Cardinality(T) + 1 /\ Cardinality(T) \in Nat
    BY <2>1, FS_AddElement, FS_CardinalityType
  <2>4. (Cardinality(T) + 1) * c = c + Cardinality(T) * c
    BY <2>3
  <2> QED
    BY <1>1, <2>1, <2>2, <2>3, <2>4
<1>4. Good \in SUBSET SUBSET S
  OBVIOUS
<1> HIDE DEF Good
<1>5. S \in Good
  BY <1>2, <1>3, <1>4, SetInduction
<1>6. [x \in S |-> f[x]] = f
  BY DEF f
<1> QED
  BY <1>5, <1>6 DEF Good, f

LEMMA SumOfSums ==
    ASSUME NEW S, IsFiniteSet(S), NEW f, DOMAIN f = S, NatValued(f),
           NEW g, DOMAIN g = S, NatValued(g)
    PROVE  SumOf([x \in S |-> f[x] + g[x]])
               = SumOf([x \in S |-> f[x]]) + SumOf([x \in S |-> g[x]])
<1> DEFINE h == [x \in S |-> f[x] + g[x]]
           Good == {T \in SUBSET S : SumOf([x \in T |-> h[x]])
                        = SumOf([x \in T |-> f[x]]) + SumOf([x \in T |-> g[x]])}
<1>1. DOMAIN h = S /\ NatValued(h) /\ \A x \in S : h[x] = f[x] + g[x]
  BY DEF NatValued
<1> HIDE DEF h
<1>2. {} \in Good
  <2>1. SumOf([x \in {} |-> f[x]]) = 0
    BY SumOfNone
  <2>2. SumOf([x \in {} |-> g[x]]) = 0
    BY SumOfNone
  <2>3. SumOf([x \in {} |-> h[x]]) = 0
    BY SumOfNone
  <2> QED
    BY <2>1, <2>2, <2>3
<1>3. ASSUME NEW T \in Good, NEW x \in S \ T PROVE T \cup {x} \in Good
  <2> DEFINE F(U) == SumOf([y \in U |-> f[y]])
             G(U) == SumOf([y \in U |-> g[y]])
             H(U) == SumOf([y \in U |-> h[y]])
  <2>1. T \in SUBSET S /\ IsFiniteSet(T) /\ H(T) = F(T) + G(T)
    BY <1>3, FS_Subset
  <2>2. H(T \cup {x}) = h[x] + H(T)
    BY <1>1, <2>1, SumOfMore
  <2>3. F(T \cup {x}) = f[x] + F(T)
    BY <2>1, SumOfMore
  <2>4. G(T \cup {x}) = g[x] + G(T)
    BY <2>1, SumOfMore
  <2>5. F(T) \in Nat
    <3>1. NatValued([y \in T |-> f[y]])
      BY <2>1 DEF NatValued
    <3> QED
      BY <2>1, <3>1, SumIsNat
  <2>6. G(T) \in Nat
    <3>1. NatValued([y \in T |-> g[y]])
      BY <2>1 DEF NatValued
    <3> QED
      BY <2>1, <3>1, SumIsNat
  <2>7. f[x] \in Nat /\ g[x] \in Nat /\ h[x] = f[x] + g[x]
    BY <1>1 DEF NatValued
  <2> HIDE DEF F, G, H
  <2>8. H(T \cup {x}) = F(T \cup {x}) + G(T \cup {x})
    BY <2>1, <2>2, <2>3, <2>4, <2>5, <2>6, <2>7
  <2> QED
    BY <2>1, <2>8 DEF F, G, H
<1>4. Good \in SUBSET SUBSET S
  OBVIOUS
<1> HIDE DEF Good
<1>5. S \in Good
  BY <1>2, <1>3, <1>4, SetInduction
<1>6. [x \in S |-> h[x]] = h
  BY DEF h
<1> QED
  BY <1>5, <1>6 DEF Good, h

\* One number raised raises the sum by as much.
LEMMA SumOfRaised ==
    ASSUME NEW S, IsFiniteSet(S), NEW f, DOMAIN f = S, NatValued(f),
           NEW g, DOMAIN g = S, NatValued(g), NEW x \in S, NEW k \in Nat, g[x] = f[x] + k,
           \A y \in S \ {x} : g[y] = f[y]
    PROVE  SumOf(g) = SumOf(f) + k
<1> DEFINE R == S \ {x}
<1>1. IsFiniteSet(R) /\ x \notin R /\ R \cup {x} = S
  BY FS_RemoveElement
<1>2. [y \in R |-> g[y]] = [y \in R |-> f[y]]
  OBVIOUS
<1> HIDE DEF R
<1>3. SumOf(f) = f[x] + SumOf([y \in R |-> f[y]])
  BY <1>1, SumOfOneMore
<1>4. SumOf(g) = g[x] + SumOf([y \in R |-> g[y]])
  BY <1>1, SumOfOneMore
<1>5. SumOf([y \in R |-> f[y]]) \in Nat
  <2> DEFINE h == [y \in R |-> f[y]]
  <2>1. DOMAIN h = R /\ NatValued(h)
    BY <1>1 DEF NatValued
  <2> HIDE DEF h
  <2>2. SumOf(h) \in Nat
    BY <1>1, <2>1, SumIsNat
  <2> QED
    BY <2>2 DEF h
<1>6. f[x] \in Nat
  BY DEF NatValued
<1> QED
  BY <1>2, <1>3, <1>4, <1>5, <1>6

\* A union has no more members than its parts together.
LEMMA UnionIsBounded ==
    ASSUME NEW S, IsFiniteSet(S), NEW part, DOMAIN part = S, NEW f, DOMAIN f = S, NatValued(f),
           \A x \in S : IsFiniteSet(part[x]) /\ Cardinality(part[x]) <= f[x]
    PROVE  /\ IsFiniteSet(UNION {part[x] : x \in S})
           /\ Cardinality(UNION {part[x] : x \in S}) <= SumOf([x \in S |-> f[x]])
<1> DEFINE Joined(T) == UNION {part[x] : x \in T}
           Good == {T \in SUBSET S : /\ IsFiniteSet(Joined(T)) /\ SumOf([x \in T |-> f[x]]) \in Nat
                                     /\ Cardinality(Joined(T)) <= SumOf([x \in T |-> f[x]])}
<1>1. {} \in Good
  <2>1. SumOf([x \in {} |-> f[x]]) = 0
    BY SumOfNone
  <2>2. Joined({}) = {}
    OBVIOUS
  <2> HIDE DEF Joined
  <2> QED
    BY <2>1, <2>2, FS_EmptySet
<1>2. ASSUME NEW T \in Good, NEW x \in S \ T PROVE T \cup {x} \in Good
  <2>1. /\ T \in SUBSET S /\ IsFiniteSet(T) /\ IsFiniteSet(Joined(T))
        /\ SumOf([y \in T |-> f[y]]) \in Nat
        /\ Cardinality(Joined(T)) <= SumOf([y \in T |-> f[y]])
    BY <1>2, FS_Subset
  <2>2. SumOf([y \in T \cup {x} |-> f[y]]) = f[x] + SumOf([y \in T |-> f[y]])
    BY <2>1, SumOfMore
  <2>3. Joined(T \cup {x}) = Joined(T) \cup part[x]
    OBVIOUS
  <2> HIDE DEF Joined
  <2>4. /\ IsFiniteSet(part[x]) /\ Cardinality(part[x]) \in Nat
        /\ Cardinality(part[x]) <= f[x] /\ f[x] \in Nat
    BY FS_CardinalityType DEF NatValued
  <2>5. /\ IsFiniteSet(Joined(T) \cup part[x])
        /\ Cardinality(Joined(T) \cup part[x]) <= Cardinality(Joined(T)) + Cardinality(part[x])
    <3>1. /\ IsFiniteSet(Joined(T) \cup part[x])
          /\ Cardinality(Joined(T) \cup part[x])
               = Cardinality(Joined(T)) + Cardinality(part[x]) - Cardinality(Joined(T) \cap part[x])
      BY <2>1, <2>4, FS_Union
    <3>2. Cardinality(Joined(T) \cap part[x]) \in Nat
      BY <2>1, FS_Intersection, FS_CardinalityType
    <3> QED
      BY <2>1, <2>4, <3>1, <3>2, FS_CardinalityType
  <2>6. Cardinality(Joined(T)) \in Nat
    BY <2>1, FS_CardinalityType
  <2>7. Cardinality(Joined(T \cup {x})) \in Nat
    BY <2>3, <2>5, FS_CardinalityType
  <2>8. T \cup {x} \in SUBSET S
    BY <2>1
  <2>9. /\ SumOf([y \in T \cup {x} |-> f[y]]) \in Nat
        /\ Cardinality(Joined(T \cup {x})) <= SumOf([y \in T \cup {x} |-> f[y]])
    <3> DEFINE before == SumOf([y \in T |-> f[y]])
               after == SumOf([y \in T \cup {x} |-> f[y]])
    <3>1. before \in Nat /\ after = f[x] + before /\ Cardinality(Joined(T)) <= before
      BY <2>1, <2>2
    <3> HIDE DEF before, after
    <3> DEFINE old == Cardinality(Joined(T))
               new == Cardinality(Joined(T \cup {x}))
               more == Cardinality(part[x])
    <3>2. new \in Nat /\ old \in Nat /\ more \in Nat /\ f[x] \in Nat /\ more <= f[x]
          /\ old <= before
      BY <2>4, <2>6, <2>7, <3>1
    <3>3. new <= old + more
      BY <2>3, <2>5
    <3> HIDE DEF old, new, more
    <3>4. after \in Nat /\ new <= after
      BY <3>1, <3>2, <3>3
    <3> QED
      BY <3>4 DEF after, new
  <2>10. IsFiniteSet(Joined(T \cup {x}))
    BY <2>3, <2>5
  <2> QED
    BY <2>8, <2>9, <2>10
<1>3. Good \in SUBSET SUBSET S
  OBVIOUS
<1> HIDE DEF Good
<1>4. S \in Good
  BY <1>1, <1>2, <1>3, SetInduction
<1> QED
  BY <1>4 DEF Good

\* What a function makes of a finite set is finite and no larger.
LEMMA ImageIsBounded ==
    ASSUME NEW S, IsFiniteSet(S), NEW f, DOMAIN f = S, NEW T, T \subseteq {f[x] : x \in S}
    PROVE  IsFiniteSet(T) /\ Cardinality(T) <= Cardinality(S)
<1> DEFINE I == {f[x] : x \in S}
           g == [x \in S |-> f[x]]
<1>1. g \in Surjection(S, I)
  BY DEF Surjection
<1> HIDE DEF g
<1>2. IsFiniteSet(I) /\ Cardinality(I) <= Cardinality(S)
  <2> HIDE DEF I
  <2> QED
    BY <1>1, FS_Surjection
<1>3. T \in SUBSET I
  OBVIOUS
<1> HIDE DEF I
<1>4. IsFiniteSet(T) /\ Cardinality(T) <= Cardinality(I)
  BY <1>2, <1>3, FS_Subset
<1>5. Cardinality(T) \in Nat /\ Cardinality(I) \in Nat /\ Cardinality(S) \in Nat
  BY <1>2, <1>4, FS_CardinalityType
<1> QED
  BY <1>2, <1>4, <1>5

LEMMA BothAreBounded ==
    ASSUME NEW S, NEW T, IsFiniteSet(S), IsFiniteSet(T), NEW m \in Nat, NEW n \in Nat,
           Cardinality(S) <= m, Cardinality(T) <= n
    PROVE  IsFiniteSet(S \cup T) /\ Cardinality(S \cup T) <= m + n
<1>1. /\ IsFiniteSet(S \cup T)
      /\ Cardinality(S \cup T) = Cardinality(S) + Cardinality(T) - Cardinality(S \cap T)
  BY FS_Union
<1>2. Cardinality(S \cap T) \in Nat
  BY FS_Intersection, FS_CardinalityType
<1> QED
  BY <1>1, <1>2, FS_CardinalityType

-----------------------------------------------------------------------------
\* Sums of numbers that are multiplied, moved, put together or arranged in rows.

\* The numbers of some have a sum as well.
LEMMA SubsumIsNat ==
    ASSUME NEW S, IsFiniteSet(S), NEW f, DOMAIN f = S, NatValued(f), NEW T \in SUBSET S
    PROVE  IsFiniteSet(T) /\ SumOf([x \in T |-> f[x]]) \in Nat
<1> DEFINE g == [x \in T |-> f[x]]
<1>1. IsFiniteSet(T)
  BY FS_Subset
<1>2. DOMAIN g = T /\ NatValued(g)
  BY DEF NatValued
<1> HIDE DEF g
<1>3. SumOf(g) \in Nat
  BY <1>1, <1>2, SumIsNat
<1> QED
  BY <1>1, <1>3 DEF g

\* What a function into the naturals is to the lemmas above.
LEMMA NumbersAreNat ==
    ASSUME NEW S, IsFiniteSet(S), NEW f \in [S -> Nat]
    PROVE  /\ DOMAIN f = S /\ NatValued(f) /\ f = [x \in S |-> f[x]]
           /\ SumOf(f) \in Nat
           /\ \A T \in SUBSET S : IsFiniteSet(T) /\ SumOf([x \in T |-> f[x]]) \in Nat
<1>1. DOMAIN f = S /\ NatValued(f) /\ f = [x \in S |-> f[x]]
  BY DEF NatValued
<1>2. SumOf(f) \in Nat
  BY <1>1, SumIsNat
<1>3. \A T \in SUBSET S : IsFiniteSet(T) /\ SumOf([x \in T |-> f[x]]) \in Nat
  BY <1>1, SubsumIsNat
<1> QED
  BY <1>1, <1>2, <1>3

\* A number is part of its sum.
LEMMA SumOfAllButOne ==
    ASSUME NEW S, IsFiniteSet(S), NEW f \in [S -> Nat], NEW x \in S
    PROVE  /\ SumOf([y \in S \ {x} |-> f[y]]) \in Nat
           /\ SumOf(f) = f[x] + SumOf([y \in S \ {x} |-> f[y]])
<1> DEFINE R == S \ {x}
<1>1. IsFiniteSet(R) /\ x \notin R /\ R \cup {x} = S /\ R \in SUBSET S
  BY FS_RemoveElement
<1> HIDE DEF R
<1>2. SumOf(f) = f[x] + SumOf([y \in R |-> f[y]])
  <2>1. DOMAIN f = R \cup {x} /\ NatValued(f)
    BY <1>1, NumbersAreNat
  <2> QED
    BY <1>1, <2>1, SumOfOneMore
<1>3. SumOf([y \in R |-> f[y]]) \in Nat
  BY <1>1, NumbersAreNat
<1> QED
  BY <1>2, <1>3 DEF R

\* Multiplying every number multiplies the sum.
LEMMA SumOfScaled ==
    ASSUME NEW S, IsFiniteSet(S), NEW f, DOMAIN f = S, NatValued(f), NEW c \in Nat
    PROVE  SumOf([x \in S |-> c * f[x]]) = c * SumOf([x \in S |-> f[x]])
<1> DEFINE g == [x \in S |-> c * f[x]]
           Good == {T \in SUBSET S : SumOf([x \in T |-> g[x]]) = c * SumOf([x \in T |-> f[x]])}
<1>1. DOMAIN g = S /\ NatValued(g)
  BY DEF NatValued
<1>2. g = [x \in S |-> g[x]] /\ \A x \in S : g[x] = c * f[x]
  OBVIOUS
<1> HIDE DEF g
<1>3. {} \in Good
  <2>1. SumOf([x \in {} |-> g[x]]) = 0 /\ SumOf([x \in {} |-> f[x]]) = 0
    BY SumOfNone
  <2> QED
    BY <2>1
<1>4. ASSUME NEW T \in Good, NEW x \in S \ T PROVE T \cup {x} \in Good
  <2>1. /\ T \in SUBSET S /\ IsFiniteSet(T)
        /\ SumOf([y \in T |-> g[y]]) = c * SumOf([y \in T |-> f[y]])
        /\ SumOf([y \in T |-> f[y]]) \in Nat
    BY <1>4, FS_Subset, SubsumIsNat
  <2>2. T \in SUBSET S /\ IsFiniteSet(T) /\ x \in S \ T
    BY <2>1
  <2>3. SumOf([y \in T \cup {x} |-> f[y]]) = f[x] + SumOf([y \in T |-> f[y]])
    BY <1>1, <2>2, SumOfMore
  <2>4. SumOf([y \in T \cup {x} |-> g[y]]) = g[x] + SumOf([y \in T |-> g[y]])
    BY <1>1, <2>2, SumOfMore
  <2> DEFINE before == SumOf([y \in T |-> f[y]])
             n == f[x]
  <2>5. before \in Nat /\ n \in Nat
    BY <2>1 DEF NatValued
  <2>6. SumOf([y \in T \cup {x} |-> g[y]]) = c * n + c * before
    BY <1>2, <2>1, <2>4
  <2>7. SumOf([y \in T \cup {x} |-> f[y]]) = n + before
    BY <2>3
  <2> HIDE DEF before, n
  <2>8. c * (n + before) = c * n + c * before
    BY <2>5
  <2> QED
    BY <2>1, <2>6, <2>7, <2>8
<1>5. Good \in SUBSET SUBSET S
  OBVIOUS
<1> HIDE DEF Good
<1>6. S \in Good
  BY <1>3, <1>4, <1>5, SetInduction
<1> QED
  BY <1>6, <1>2 DEF Good, g

\* Whatever everyone leaves to the others is the whole sum, but for one time.
LEMMA SumOfOthers ==
    ASSUME NEW S, IsFiniteSet(S), S # {}, NEW f \in [S -> Nat]
    PROVE  /\ \A x \in S : SumOf(f) - f[x] \in Nat
           /\ SumOf([x \in S |-> SumOf(f) - f[x]]) = (Cardinality(S) - 1) * SumOf(f)
<1> DEFINE all == SumOf(f)
           g == [x \in S |-> all - f[x]]
           h == [x \in S |-> g[x] + f[x]]
           n == Cardinality(S)
<1>1. all \in Nat /\ n \in Nat
  BY NumbersAreNat, FS_CardinalityType
<1>2. \A x \in S : all - f[x] \in Nat
  <2> SUFFICES ASSUME NEW x \in S PROVE all - f[x] \in Nat
    OBVIOUS
  <2> DEFINE rest == SumOf([y \in S \ {x} |-> f[y]])
  <2>1. rest \in Nat /\ all = f[x] + rest /\ f[x] \in Nat
    BY SumOfAllButOne
  <2> HIDE DEF all, rest
  <2> QED
    BY <2>1
<1> HIDE DEF all
<1>3. g \in [S -> Nat] /\ h = [x \in S |-> all]
  BY <1>1, <1>2
<1>4. SumOf(h) = SumOf(g) + SumOf(f)
  <2>1. DOMAIN g = S /\ NatValued(g) /\ DOMAIN f = S /\ NatValued(f)
    BY <1>3 DEF NatValued
  <2>2. g = [x \in S |-> g[x]] /\ f = [x \in S |-> f[x]]
    BY <1>3
  <2> HIDE DEF g
  <2>3. SumOf([x \in S |-> g[x] + f[x]])
            = SumOf([x \in S |-> g[x]]) + SumOf([x \in S |-> f[x]])
    BY <2>1, SumOfSums
  <2> QED
    BY <2>2, <2>3
<1>5. SumOf(h) = n * all
  BY <1>1, <1>3, SumOfConstant
<1>6. SumOf(g) \in Nat
  BY <1>3, NumbersAreNat
<1> HIDE DEF g, h, n
<1>7. SumOf(g) + all = n * all
  BY <1>4, <1>5 DEF all
<1>8. n * all = (n - 1) * all + all
  BY <1>1
<1>9. SumOf(g) = (n - 1) * all
  BY <1>1, <1>6, <1>7, <1>8
<1> QED
  BY <1>2, <1>9 DEF g, n, all

\* The sum over two sets that have nothing in common.
LEMMA SumOfJoined ==
    ASSUME NEW S, IsFiniteSet(S), NEW T, IsFiniteSet(T), S \cap T = {},
           NEW f, DOMAIN f = S \cup T, NatValued(f)
    PROVE  SumOf([x \in S \cup T |-> f[x]])
               = SumOf([x \in S |-> f[x]]) + SumOf([x \in T |-> f[x]])
<1> DEFINE Good == {U \in SUBSET T : SumOf([x \in S \cup U |-> f[x]])
                        = SumOf([x \in S |-> f[x]]) + SumOf([x \in U |-> f[x]])}
<1>1. IsFiniteSet(S \cup T)
  BY FS_Union
<1>2. SumOf([x \in S |-> f[x]]) \in Nat
  <2>1. S \in SUBSET (S \cup T)
    OBVIOUS
  <2> QED
    BY <1>1, <2>1, SubsumIsNat
<1>3. {} \in Good
  <2>1. SumOf([x \in {} |-> f[x]]) = 0
    BY SumOfNone
  <2>2. S \cup {} = S
    OBVIOUS
  <2> QED
    BY <1>2, <2>1, <2>2
<1>4. ASSUME NEW U \in Good, NEW x \in T \ U PROVE U \cup {x} \in Good
  <2>1. U \in SUBSET T /\ IsFiniteSet(U) /\ IsFiniteSet(S \cup U)
        /\ U \in SUBSET (S \cup T) /\ (S \cup U) \in SUBSET (S \cup T)
        /\ x \in (S \cup T) \ U /\ x \in (S \cup T) \ (S \cup U)
    BY <1>4, FS_Subset, FS_Union
  <2>2. SumOf([y \in S \cup U |-> f[y]]) = SumOf([y \in S |-> f[y]]) + SumOf([y \in U |-> f[y]])
    BY <1>4
  <2>3. SumOf([y \in U \cup {x} |-> f[y]]) = f[x] + SumOf([y \in U |-> f[y]])
    <3> DEFINE W == S \cup T
    <3>1. U \in SUBSET W /\ IsFiniteSet(U) /\ x \in W \ U /\ DOMAIN f = W
      BY <2>1
    <3> HIDE DEF W, Good
    <3> QED
      BY <3>1, SumOfMore
  <2>4. SumOf([y \in (S \cup U) \cup {x} |-> f[y]]) = f[x] + SumOf([y \in S \cup U |-> f[y]])
    <3> DEFINE W == S \cup T
               V == S \cup U
    <3>1. V \in SUBSET W /\ IsFiniteSet(V) /\ x \in W \ V /\ DOMAIN f = W
      BY <2>1
    <3> HIDE DEF W, V, Good
    <3>2. SumOf([y \in V \cup {x} |-> f[y]]) = f[x] + SumOf([y \in V |-> f[y]])
      BY <3>1, SumOfMore
    <3> QED
      BY <3>2 DEF V
  <2>5. SumOf([y \in U |-> f[y]]) \in Nat /\ f[x] \in Nat
    BY <1>1, <2>1, SubsumIsNat DEF NatValued
  <2>6. (S \cup U) \cup {x} = S \cup (U \cup {x})
    OBVIOUS
  <2> DEFINE s == SumOf([y \in S |-> f[y]])
             u == SumOf([y \in U |-> f[y]])
             n == f[x]
  <2>7. /\ SumOf([y \in S \cup (U \cup {x}) |-> f[y]]) = n + (s + u)
        /\ SumOf([y \in U \cup {x} |-> f[y]]) = n + u
    BY <2>2, <2>3, <2>4, <2>6
  <2>8. s \in Nat /\ u \in Nat /\ n \in Nat
    BY <1>2, <2>5
  <2>9. U \cup {x} \in SUBSET T
    BY <2>1
  <2>10. SumOf([y \in S \cup (U \cup {x}) |-> f[y]]) = s + SumOf([y \in U \cup {x} |-> f[y]])
    <3> HIDE DEF s, u, n
    <3> QED
      BY <2>7, <2>8
  <2> QED
    BY <2>9, <2>10
<1>5. Good \in SUBSET SUBSET T
  OBVIOUS
<1> HIDE DEF Good
<1>6. T \in Good
  BY <1>3, <1>4, <1>5, SetInduction
<1> QED
  BY <1>6 DEF Good

\* Numbers may be summed under other names, no two of which are the same.
LEMMA SumOfRenamed ==
    ASSUME NEW S, IsFiniteSet(S), NEW h, DOMAIN h = S, \A x, y \in S : h[x] = h[y] => x = y,
           NEW g, DOMAIN g = {h[x] : x \in S}, NatValued(g)
    PROVE  SumOf([y \in {h[x] : x \in S} |-> g[y]]) = SumOf([x \in S |-> g[h[x]]])
<1> DEFINE Named(T) == {h[x] : x \in T}
           f == [x \in S |-> g[h[x]]]
           Good == {T \in SUBSET S : SumOf([y \in Named(T) |-> g[y]]) = SumOf([x \in T |-> f[x]])}
<1>1. DOMAIN f = S /\ NatValued(f)
  BY DEF NatValued
<1>7. f = [x \in S |-> f[x]] /\ \A x \in S : f[x] = g[h[x]]
  OBVIOUS
<1> HIDE DEF f
<1>2. {} \in Good
  <2>1. SumOf([x \in {} |-> f[x]]) = 0 /\ SumOf([x \in {} |-> g[x]]) = 0
    BY SumOfNone
  <2>2. Named({}) = {}
    OBVIOUS
  <2> QED
    BY <2>1, <2>2
<1>3. ASSUME NEW T \in Good, NEW x \in S \ T PROVE T \cup {x} \in Good
  <2>1. T \in SUBSET S /\ IsFiniteSet(T)
    BY <1>3, FS_Subset
  <2>2. SumOf([y \in Named(T) |-> g[y]]) = SumOf([y \in T |-> f[y]])
    BY <1>3
  <2>3. SumOf([y \in T \cup {x} |-> f[y]]) = f[x] + SumOf([y \in T |-> f[y]])
    BY <1>1, <2>1, SumOfMore
  <2>4. Named(T \cup {x}) = Named(T) \cup {h[x]}
    OBVIOUS
  <2>5. Named(T) \in SUBSET Named(S) /\ h[x] \in Named(S) \ Named(T)
    BY <2>1
  <2>6. IsFiniteSet(Named(T))
    <3> DEFINE k == [y \in T |-> h[y]]
               N == Named(T)
    <3>1. DOMAIN k = T /\ N \subseteq {k[y] : y \in T}
      OBVIOUS
    <3> HIDE DEF k, N
    <3>2. IsFiniteSet(N)
      BY <2>1, <3>1, ImageIsBounded
    <3> QED
      BY <3>2 DEF N
  <2> HIDE DEF Named
  <2>7. DOMAIN g = Named(S)
    BY DEF Named
  <2>8. SumOf([y \in Named(T) \cup {h[x]} |-> g[y]]) = g[h[x]] + SumOf([y \in Named(T) |-> g[y]])
    BY <2>5, <2>6, <2>7, SumOfMore
  <2>9. SumOf([y \in Named(T \cup {x}) |-> g[y]]) = SumOf([y \in T \cup {x} |-> f[y]])
    BY <1>7, <2>2, <2>3, <2>4, <2>8
  <2> QED
    BY <2>1, <2>9
<1>4. Good \in SUBSET SUBSET S
  OBVIOUS
<1> HIDE DEF Good
<1>5. S \in Good
  BY <1>2, <1>3, <1>4, SetInduction
<1>6. SumOf([y \in Named(S) |-> g[y]]) = SumOf(f)
  BY <1>5, <1>7 DEF Good
<1> QED
  BY <1>6 DEF f

\* The same for every subset and everyone outside it.
Grows(f, S) ==
    \A T \in SUBSET S : \A x \in S \ T :
        SumOf([y \in T \cup {x} |-> f[y]]) = f[x] + SumOf([y \in T |-> f[y]])

LEMMA SumsGrow ==
    ASSUME NEW S, IsFiniteSet(S), NEW f, DOMAIN f = S, NatValued(f)
    PROVE  Grows(f, S)
<1> SUFFICES ASSUME NEW T \in SUBSET S, NEW x \in S \ T
             PROVE  SumOf([y \in T \cup {x} |-> f[y]]) = f[x] + SumOf([y \in T |-> f[y]])
  BY DEF Grows
<1>1. IsFiniteSet(T)
  BY FS_Subset
<1> QED
  BY <1>1, SumOfMore

\* The sum over a part of the arguments.
SumOver(f, T) == SumOf([x \in T |-> f[x]])

LEMMA SumsOver ==
    ASSUME NEW S, IsFiniteSet(S), NEW f \in [S -> Nat]
    PROVE  /\ SumOver(f, S) = SumOf(f) /\ SumOver(f, {}) = 0
           /\ \A T \in SUBSET S :
                /\ SumOver(f, T) \in Nat
                /\ \A x \in S \ T : SumOver(f, T \cup {x}) = SumOver(f, T) + f[x]
<1>1. /\ DOMAIN f = S /\ NatValued(f) /\ f = [x \in S |-> f[x]]
      /\ \A T \in SUBSET S : SumOf([x \in T |-> f[x]]) \in Nat
  BY NumbersAreNat
<1>2. SumOver(f, S) = SumOf(f)
  BY <1>1 DEF SumOver
<1>3. SumOver(f, {}) = 0
  BY SumOfNone DEF SumOver
<1>4. Grows(f, S)
  BY <1>1, SumsGrow
<1>5. ASSUME NEW T \in SUBSET S, NEW x \in S \ T
      PROVE  SumOver(f, T \cup {x}) = SumOver(f, T) + f[x]
  <2>1. SumOver(f, T \cup {x}) = f[x] + SumOver(f, T)
    BY <1>4, <1>5, Zenon DEF Grows, SumOver
  <2>2. SumOver(f, T) \in Nat /\ f[x] \in Nat
    BY <1>1, <1>5 DEF SumOver
  <2> QED
    BY <2>1, <2>2
<1> QED
  BY <1>1, <1>2, <1>3, <1>5 DEF SumOver

\* Numbers of pairs may be summed row by row.
RowOf(Q, T, a) == {c \in T : <<a, c>> \in Q}

RowSumOf(f, Q, T, a) == SumOf([b \in RowOf(Q, T, a) |-> f[<<a, b>>]])

LEMMA SumOfRows ==
    ASSUME NEW S, IsFiniteSet(S), NEW T, IsFiniteSet(T), NEW Q \in SUBSET (S \X T),
           IsFiniteSet(Q), NEW f \in [Q -> Nat]
    PROVE  /\ \A a \in S : RowSumOf(f, Q, T, a) \in Nat
           /\ SumOf(f) = SumOf([a \in S |-> RowSumOf(f, Q, T, a)])
<1> DEFINE Row(R, a) == {c \in T : <<a, c>> \in R}
           RowSum(R, a) == SumOf([b \in Row(R, a) |-> f[<<a, b>>]])
           RowSums(R) == [a \in S |-> RowSum(R, a)]
           Good == {R \in SUBSET Q : SumOf([q \in R |-> f[q]]) = SumOf(RowSums(R))}
<1> DOMAIN f = Q /\ NatValued(f)
  BY DEF NatValued
<1>1. ASSUME NEW R \in SUBSET Q, NEW a \in S
      PROVE  IsFiniteSet(Row(R, a)) /\ RowSum(R, a) \in Nat
  <2> DEFINE g == [b \in Row(R, a) |-> f[<<a, b>>]]
             B == Row(R, a)
  <2>1. B \in SUBSET T /\ DOMAIN g = B /\ NatValued(g)
    BY DEF NatValued
  <2> HIDE DEF g, B
  <2>2. IsFiniteSet(B)
    BY <2>1, FS_Subset
  <2>3. SumOf(g) \in Nat
    BY <2>1, <2>2, SumIsNat
  <2> QED
    BY <2>2, <2>3 DEF g, B
<1>2. {} \in Good
  <2>1. SumOf([q \in {} |-> f[q]]) = 0
    BY SumOfNone
  <2>2. RowSums({}) = [a \in S |-> 0]
    <3> SUFFICES ASSUME NEW a \in S PROVE RowSum({}, a) = 0
      OBVIOUS
    <3>1. Row({}, a) = {}
      OBVIOUS
    <3>2. SumOf([b \in {} |-> f[<<a, b>>]]) = 0
      BY SumOfNone
    <3> QED
      BY <3>1, <3>2
  <2> HIDE DEF RowSums
  <2>3. SumOf(RowSums({})) = Cardinality(S) * 0
    BY <2>2, SumOfConstant
  <2>4. Cardinality(S) * 0 = 0
    BY FS_CardinalityType
  <2> QED
    BY <2>1, <2>3, <2>4
<1>3. ASSUME NEW R \in Good, NEW q \in Q \ R PROVE R \cup {q} \in Good
  <2> DEFINE x == q[1]
             y == q[2]
             U == R \cup {q}
             n == f[q]
  <2>1. R \in SUBSET Q /\ IsFiniteSet(R) /\ q \in Q \ R /\ U \in SUBSET Q /\ n \in Nat
        /\ SumOf([p \in R |-> f[p]]) = SumOf(RowSums(R))
    BY <1>3, FS_Subset DEF NatValued
  <2>2. q = <<x, y>> /\ x \in S /\ y \in T
    OBVIOUS
  <2>3. SumOf([p \in U |-> f[p]]) = n + SumOf([p \in R |-> f[p]])
    <3>1. R \in SUBSET Q /\ IsFiniteSet(R) /\ q \in Q \ R
      BY <2>1
    <3>2. Grows(f, Q)
      BY SumsGrow
    <3> QED
      BY <3>1, <3>2, Zenon DEF Grows
  <2>4. RowSum(U, x) = RowSum(R, x) + n
    <3> DEFINE A == Row(Q, x)
               B == Row(R, x)
               g == [b \in A |-> f[<<x, b>>]]
    <3>1. DOMAIN g = A /\ NatValued(g)
      BY DEF NatValued
    <3>2. B \in SUBSET A /\ y \in A \ B /\ Row(U, x) = B \cup {y}
      BY <2>1, <2>2
    <3>3. IsFiniteSet(B) /\ RowSum(R, x) \in Nat
      BY <1>1, <2>1, <2>2
    <3>4. [b \in B |-> g[b]] = [b \in B |-> f[<<x, b>>]]
          /\ [b \in B \cup {y} |-> g[b]] = [b \in B \cup {y} |-> f[<<x, b>>]] /\ g[y] = n
      BY <2>2, <3>2
    <3> HIDE DEF g, A, B, Good, RowSums, RowSum, Row, x, y
    <3>5. SumOf([b \in B \cup {y} |-> g[b]]) = g[y] + SumOf([b \in B |-> g[b]])
      <4>1. IsFiniteSet(A)
        BY <1>1, <2>2 DEF A
      <4>2. Grows(g, A)
        BY <3>1, <4>1, SumsGrow
      <4> QED
        BY <3>2, <4>2, Zenon DEF Grows
    <3>6. RowSum(R, x) = SumOf([b \in B |-> g[b]])
          /\ RowSum(U, x) = SumOf([b \in B \cup {y} |-> g[b]])
      BY <3>2, <3>4 DEF RowSum, B
    <3> HIDE DEF RowSum, n
    <3> QED
      BY <2>1, <3>3, <3>4, <3>5, <3>6
  <2>5. \A a \in S \ {x} : RowSum(U, a) = RowSum(R, a)
    <3> TAKE a \in S \ {x}
    <3>1. Row(U, a) = Row(R, a)
      BY <2>2
    <3> QED
      BY <3>1
  <2>6. \A a \in S : RowSum(U, a) \in Nat /\ RowSum(R, a) \in Nat
    BY <1>1, <2>1
  <2> HIDE DEF RowSum
  <2>7. DOMAIN RowSums(R) = S /\ NatValued(RowSums(R)) /\ DOMAIN RowSums(U) = S
        /\ NatValued(RowSums(U)) /\ RowSums(U)[x] = RowSums(R)[x] + n
        /\ \A a \in S \ {x} : RowSums(U)[a] = RowSums(R)[a]
    BY <2>2, <2>4, <2>5, <2>6 DEF NatValued
  <2> HIDE DEF RowSums, n, U, x
  <2>8. SumOf(RowSums(U)) = SumOf(RowSums(R)) + n
    BY <2>1, <2>2, <2>7, SumOfRaised
  <2>9. SumOf(RowSums(R)) \in Nat
    BY <2>7, SumIsNat
  <2>10. SumOf([p \in U |-> f[p]]) = SumOf(RowSums(U))
    BY <2>1, <2>3, <2>8, <2>9
  <2> QED
    BY <2>1, <2>10 DEF U
<1>4. Good \in SUBSET SUBSET Q
  OBVIOUS
<1> HIDE DEF Good
<1>5. Q \in Good
  BY <1>2, <1>3, <1>4, SetInduction
<1>6. \A a \in S : RowSum(Q, a) \in Nat
  BY <1>1
<1>7. f = [q \in Q |-> f[q]]
  OBVIOUS
<1>8. \A a \in S : RowSumOf(f, Q, T, a) = RowSum(Q, a)
  BY DEF RowSumOf, RowOf
<1>9. RowSums(Q) = [a \in S |-> RowSumOf(f, Q, T, a)]
  <2> HIDE DEF RowSum
  <2> QED
    BY <1>8
<1>10. SumOf(f) = SumOf(RowSums(Q))
  <2> HIDE DEF RowSums
  <2> QED
    BY <1>5, <1>7 DEF Good
<1> HIDE DEF RowSum, RowSums
<1> QED
  BY <1>6, <1>8, <1>9, <1>10

\* Different results are as many as there are arguments; sets that have nothing in
\* common are as many as both together.
LEMMA ImageCounts ==
    ASSUME NEW S, IsFiniteSet(S), NEW f, DOMAIN f = S, \A x, y \in S : f[x] = f[y] => x = y,
           NEW T, T = {f[x] : x \in S}
    PROVE  IsFiniteSet(T) /\ Cardinality(T) = Cardinality(S)
<1> DEFINE g == [x \in S |-> f[x]]
<1>1. g \in [S -> T] /\ \A x \in S : g[x] = f[x]
  OBVIOUS
<1> HIDE DEF g
<1>2. g \in Surjection(S, T)
  BY <1>1 DEF Surjection
<1>3. g \in Injection(S, T)
  BY <1>1 DEF Injection, IsInjective
<1> QED
  BY <1>2, <1>3, FS_Surjection

LEMMA BothCount ==
    ASSUME NEW S, NEW T, IsFiniteSet(S), IsFiniteSet(T), S \cap T = {}
    PROVE  IsFiniteSet(S \cup T) /\ Cardinality(S \cup T) = Cardinality(S) + Cardinality(T)
<1>1. /\ IsFiniteSet(S \cup T)
      /\ Cardinality(S \cup T) = Cardinality(S) + Cardinality(T) - Cardinality(S \cap T)
  BY FS_Union
<1>2. Cardinality(S \cap T) = 0
  BY FS_EmptySet
<1> QED
  BY <1>1, <1>2, FS_CardinalityType
=============================================================================
