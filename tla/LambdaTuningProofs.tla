-------------------------- MODULE LambdaTuningProofs --------------------------
(***************************************************************************)
(* Proofs about LambdaCandidates and LambdaTuning, for any catalogue, any  *)
(* number of examples, any cap and any budget.  In order: fractions in     *)
(* canonical form and their order; what sorting by rank returns; the       *)
(* candidates between and beyond the roots; the streamed sample; what the  *)
(* preflight counts, which bounds all of these by sums of pairs; then that *)
(* two lambdas with the same roots on either side make the same choices,   *)
(* hence the same replay, so that the candidates lose nothing, and that    *)
(* the tuning loop selects the best of them within the budget.  The solver *)
(* proves nothing by induction: where a fact is about every example, the   *)
(* proof takes the first example at which it would fail.                   *)
(***************************************************************************)
EXTENDS LambdaTuning, TotalsProofs, FiniteSetTheorems

-----------------------------------------------------------------------------
(* Fractions: a canonical one has the least denominator of its value, so   *)
(* that fractions are ordered by Below and equal ones are the same.        *)

Fractions == {f \in Int \X (Nat \ {0}) :
                 \A q \in 1 .. f[2] - 1 : \A p \in Int : p * f[2] # f[1] * q}

NonNegative == {f \in Fractions : f[1] >= 0}

\* Integer division is exact where the remainder is zero.
LEMMA DivideExactly ==
    ASSUME NEW x \in Int, NEW b \in Nat \ {0}
    PROVE  /\ x % b = 0 => x \div b \in Int /\ x = (x \div b) * b
           /\ \A k \in Int : (k * b) % b = 0
  OBVIOUS

\* A positive factor can be cancelled from an equality and an inequality.
LEMMA Cancel ==
    ASSUME NEW x \in Int, NEW y \in Int, NEW b \in Nat \ {0}
    PROVE  (x * b = y * b => x = y) /\ (x * b < y * b <=> x < y)
  OBVIOUS

\* A set of naturals that is not empty has its minimum.
LEMMA MinIsLeast ==
    ASSUME NEW S \in SUBSET Nat, S # {}
    PROVE  Min(S) \in S /\ \A y \in S : Min(S) <= y
<1>1. \E x \in S : \A y \in S : x =< y
  BY LeastElement
<1> QED
  BY <1>1 DEF Min

\* The products of integers are integers.
LEMMA Products == ASSUME NEW a \in Int, NEW b \in Int PROVE a * b \in Int
  OBVIOUS

\* Fraction returns the value it is given, with the least denominator.
LEMMA FractionIsCanonical ==
    ASSUME NEW n \in Int, NEW d \in Int, d # 0
    PROVE  /\ Fraction(n, d) \in Fractions
           /\ Fraction(n, d)[1] * d = n * Fraction(n, d)[2]
<1> DEFINE top    == IF d < 0 THEN -n ELSE n
           bottom == IF d < 0 THEN -d ELSE d
           Q      == {q \in 1 .. bottom : (top * q) % bottom = 0}
           least  == Min(Q)
           p      == (top * least) \div bottom
<1>1. top \in Int /\ bottom \in Nat \ {0}
  OBVIOUS
<1>2. Fraction(n, d) = <<p, least>>
  BY DEF Fraction
<1>3. least \in Q /\ \A y \in Q : least <= y
  <2>1. bottom \in Q
    <3> HIDE DEF top, bottom
    <3> QED
      BY <1>1, DivideExactly
  <2>2. Q \in SUBSET Nat
    OBVIOUS
  <2> HIDE DEF Q
  <2> QED
    BY <2>1, <2>2, MinIsLeast
<1> HIDE DEF least
<1>4. least \in Nat \ {0} /\ p \in Int /\ top * least = p * bottom
  <2> HIDE DEF top, bottom
  <2>1. least \in 1 .. bottom /\ (top * least) % bottom = 0
    BY <1>3
  <2>2. least \in Nat \ {0} /\ top * least \in Int
    BY <1>1, <2>1
  <2> QED
    BY <1>1, <2>1, <2>2, DivideExactly
<1> HIDE DEF p
<1>5. p * d = n * least
  <2>1. CASE d < 0
    <3>1. (-n) * least = p * (-d)
      BY <1>4, <2>1
    <3> QED
      BY <1>4, <3>1
  <2>2. CASE ~(d < 0)
    BY <1>4, <2>2
  <2> QED
    BY <2>1, <2>2
<1>6. ASSUME NEW q \in 1 .. least - 1, NEW r \in Int, r * least = p * q PROVE FALSE
  <2> HIDE DEF top, bottom
  <2>1. q \in Nat \ {0} /\ q < least /\ least <= bottom
    BY <1>1, <1>3, <1>4
  <2>2. (top * q) * least = (r * bottom) * least
    <3>1. (top * q) * least = (top * least) * q
      BY <1>1, <1>4, <2>1
    <3>2. (p * bottom) * q = (p * q) * bottom
      BY <1>1, <1>4, <2>1
    <3>3. (r * least) * bottom = (r * bottom) * least
      BY <1>1, <1>4
    <3> QED
      BY <1>4, <1>6, <3>1, <3>2, <3>3
  <2>3. top * q = r * bottom
    <3>1. top * q \in Int /\ r * bottom \in Int
      BY <1>1, <2>1
    <3> QED
      BY <1>4, <2>2, <3>1, Cancel
  <2>4. (top * q) % bottom = 0
    BY <1>1, <2>3, DivideExactly
  <2>5. q \in 1 .. bottom
    BY <1>1, <1>4, <2>1
  <2>6. q \in Q
    BY <2>4, <2>5
  <2> QED
    BY <1>3, <1>4, <2>1, <2>6
<1>7. <<p, least>> \in Fractions
  BY <1>4, <1>6 DEF Fractions
<1> QED
  BY <1>2, <1>5, <1>7

\* A fraction is a pair of an integer and a positive natural.
LEMMA FractionType ==
    ASSUME NEW f \in Fractions
    PROVE  f[1] \in Int /\ f[2] \in Nat \ {0} /\ f = <<f[1], f[2]>>
  BY DEF Fractions

\* Below orders the fractions strictly and totally.
LEMMA BelowOrders ==
    /\ \A f \in Fractions : ~Below(f, f)
    /\ \A f, g \in Fractions : f = g \/ Below(f, g) \/ Below(g, f)
    /\ \A f, g \in Fractions : Below(f, g) => ~Below(g, f)
    /\ \A f, g, h \in Fractions : Below(f, g) /\ Below(g, h) => Below(f, h)
<1>1. ASSUME NEW f \in Fractions, NEW g \in Fractions, ~Below(f, g), ~Below(g, f)
      PROVE  f = g
  <2>1. /\ f[1] \in Int /\ f[2] \in Nat \ {0} /\ g[1] \in Int /\ g[2] \in Nat \ {0}
        /\ f = <<f[1], f[2]>> /\ g = <<g[1], g[2]>>
    BY FractionType
  <2>2. f[1] * g[2] = g[1] * f[2]
    <3>1. f[1] * g[2] \in Int /\ g[1] * f[2] \in Int
      BY <2>1
    <3> QED
      BY <1>1, <3>1 DEF Below
  <2>3. ~(f[2] < g[2])
    BY <2>1, <2>2 DEF Fractions
  <2>4. ~(g[2] < f[2])
    BY <2>1, <2>2 DEF Fractions
  <2>5. f[2] = g[2]
    BY <2>1, <2>3, <2>4
  <2>6. f[1] = g[1]
    BY <2>1, <2>2, <2>5, Cancel
  <2> QED
    BY <2>1, <2>5, <2>6
<1>2. ASSUME NEW f \in Fractions, NEW g \in Fractions PROVE Below(f, g) => ~Below(g, f)
  <2>1. f[1] * g[2] \in Int /\ g[1] * f[2] \in Int
    BY FractionType
  <2> QED
    BY <2>1 DEF Below
<1>3. ASSUME NEW f \in Fractions, NEW g \in Fractions, NEW h \in Fractions,
             Below(f, g), Below(g, h)
      PROVE  Below(f, h)
  BY <1>3, FractionType DEF Below
<1> QED
  BY <1>1, <1>2, <1>3

\* Zero is a fraction.
LEMMA ZeroIsFraction == Zero \in NonNegative /\ Zero[1] = 0 /\ Zero[2] = 1
  BY DEF Zero, NonNegative, Fractions

\* The tail candidate lies past the boundary it is made of.
LEMMA TailIsPast ==
    ASSUME NEW f \in NonNegative
    PROVE  <<f[1] + f[2], f[2]>> \in NonNegative /\ Below(f, <<f[1] + f[2], f[2]>>)
<1>1. f \in Fractions /\ f[1] \in Int /\ f[1] >= 0 /\ f[2] \in Nat \ {0}
  BY FractionType DEF NonNegative
<1> DEFINE t == f[1] + f[2]
<1>2. ASSUME NEW q \in 1 .. f[2] - 1, NEW p \in Int, p * f[2] = t * q PROVE FALSE
  <2>1. q \in Int /\ p - q \in Int
    BY <1>1
  <2>2. (p - q) * f[2] = f[1] * q
    BY <1>1, <1>2, <2>1
  <2> QED
    BY <1>1, <2>1, <2>2 DEF Fractions
<1>3. <<t, f[2]>> \in NonNegative
  BY <1>1, <1>2 DEF NonNegative, Fractions
<1>4. f[1] * f[2] < t * f[2]
  BY <1>1, Cancel
<1> QED
  BY <1>3, <1>4 DEF Below

\* A midpoint lies between.
LEMMA MidpointIsBetween ==
    ASSUME NEW f \in NonNegative, NEW g \in NonNegative, Below(f, g)
    PROVE  Midpoint(f, g) \in NonNegative /\ Below(f, Midpoint(f, g)) /\ Below(Midpoint(f, g), g)
<1> DEFINE a == f[1]  b == f[2]  c == g[1]  d == g[2]
           n == a * d + c * b
           m == 2 * b * d
           h == Midpoint(f, g)
           u == h[1]  v == h[2]
<1>1. a \in Int /\ a >= 0 /\ b \in Nat \ {0} /\ c \in Int /\ c >= 0 /\ d \in Nat \ {0}
      /\ a * d < c * b
  BY FractionType DEF NonNegative, Below
<1>2. n \in Int /\ n >= 0 /\ m \in Nat \ {0} /\ a * d \in Int /\ c * b \in Int
  <2>1. a * d \in Int /\ a * d >= 0 /\ c * b \in Int /\ c * b >= 0
    BY <1>1
  <2>2. b * d \in Nat \ {0}
    BY <1>1
  <2>3. m = 2 * (b * d)
    BY <1>1
  <2> QED
    BY <2>1, <2>2, <2>3
<1>3. h \in Fractions /\ u * m = n * v /\ u \in Int /\ v \in Nat \ {0}
  <2>1. m # 0
    BY <1>2
  <2>2. h = Fraction(n, m)
    BY DEF Midpoint
  <2> HIDE DEF n, m, h
  <2> QED
    BY <1>2, <2>1, <2>2, FractionIsCanonical, FractionType
<1>4. u >= 0
  <2> HIDE DEF n, m, u, v
  <2>1. n * v >= 0
    BY <1>2, <1>3
  <2> QED
    BY <1>2, <1>3, <2>1
<1> HIDE DEF h, u, v
<1>5. a * v < u * b
  <2>1. (2 * d) * (a * v) < (2 * d) * (u * b)
    <3>1. (2 * d) * (u * b) = u * m
      BY <1>1, <1>3
    <3>2. (2 * d) * (a * v) = (2 * (a * d)) * v
      BY <1>1, <1>3
    <3>3. 2 * (a * d) < n
      BY <1>1, <1>2
    <3>4. (2 * (a * d)) * v < n * v
      <4>1. 2 * (a * d) \in Int
        BY <1>2
      <4> HIDE DEF n
      <4> QED
        BY <1>2, <1>3, <3>3, <4>1, Cancel
    <3> QED
      BY <1>3, <3>1, <3>2, <3>4
  <2>2. a * v \in Int /\ u * b \in Int /\ 2 * d \in Nat \ {0}
    BY <1>1, <1>3
  <2> QED
    BY <2>1, <2>2
<1>6. u * d < c * v
  <2>1. (2 * b) * (u * d) < (2 * b) * (c * v)
    <3>1. (2 * b) * (u * d) = u * m
      BY <1>1, <1>3
    <3>2. (2 * b) * (c * v) = (2 * (c * b)) * v
      BY <1>1, <1>3
    <3>3. n < 2 * (c * b)
      BY <1>1, <1>2
    <3>4. n * v < (2 * (c * b)) * v
      <4>1. 2 * (c * b) \in Int
        BY <1>2
      <4> HIDE DEF n
      <4> QED
        BY <1>2, <1>3, <3>3, <4>1, Cancel
    <3> QED
      BY <1>3, <3>1, <3>2, <3>4
  <2>2. u * d \in Int /\ c * v \in Int /\ 2 * b \in Nat \ {0}
    BY <1>1, <1>3
  <2> QED
    BY <2>1, <2>2
<1> QED
  BY <1>3, <1>4, <1>5, <1>6 DEF NonNegative, Below, h, u, v

-----------------------------------------------------------------------------
(* Sorting: the number of smaller fractions in a finite set tells its      *)
(* elements apart and takes every value there is.                          *)

Lower(S, a) == {b \in S : Below(b, a)}
Rank(S, a) == Cardinality(Lower(S, a))

\* A greater fraction has a greater rank, so that ranks tell fractions apart.
LEMMA RankIsMonotonic ==
    ASSUME NEW S \in SUBSET Fractions, IsFiniteSet(S), NEW a \in S, NEW b \in S
    PROVE  /\ Rank(S, a) \in 0 .. Cardinality(S) - 1
           /\ Below(a, b) => Rank(S, a) < Rank(S, b)
           /\ Rank(S, a) = Rank(S, b) => a = b
<1>1. ASSUME NEW x \in S
      PROVE  IsFiniteSet(Lower(S, x)) /\ Rank(S, x) \in Nat /\ x \notin Lower(S, x)
  <2>1. Lower(S, x) \in SUBSET S /\ x \notin Lower(S, x)
    BY BelowOrders DEF Lower
  <2> QED
    BY <2>1, FS_Subset, FS_CardinalityType DEF Rank
<1>2. ASSUME NEW x \in S, NEW y \in S, Below(x, y) PROVE Rank(S, x) < Rank(S, y)
  <2>1. Cardinality(Lower(S, x) \cup {x}) = Rank(S, x) + 1
    BY <1>1, FS_AddElement DEF Rank
  <2>2. Lower(S, x) \cup {x} \in SUBSET Lower(S, y)
    BY <1>2, BelowOrders DEF Lower
  <2>3. Cardinality(Lower(S, x) \cup {x}) <= Rank(S, y)
    BY <1>1, <2>2, FS_Subset DEF Rank
  <2> QED
    BY <1>1, <2>1, <2>3
<1>3. Rank(S, a) < Cardinality(S)
  <2>1. Lower(S, a) \in SUBSET (S \ {a})
    BY <1>1 DEF Lower
  <2>2. IsFiniteSet(S \ {a}) /\ Cardinality(S \ {a}) = Cardinality(S) - 1
    BY FS_RemoveElement
  <2>3. Rank(S, a) <= Cardinality(S \ {a})
    BY <2>1, <2>2, FS_Subset DEF Rank
  <2> QED
    BY <1>1, <2>2, <2>3, FS_CardinalityType
<1>4. Rank(S, a) = Rank(S, b) => a = b
  <2>1. a = b \/ Below(a, b) \/ Below(b, a)
    BY BelowOrders
  <2>2. Rank(S, a) \in Nat /\ Rank(S, b) \in Nat
    BY <1>1
  <2> QED
    BY <1>2, <2>1, <2>2
<1> QED
  BY <1>1, <1>2, <1>3, <1>4, FS_CardinalityType

\* Every rank below the cardinality is some fraction's.
LEMMA EveryRankIsTaken ==
    ASSUME NEW S \in SUBSET Fractions, IsFiniteSet(S), NEW i \in 1 .. Cardinality(S)
    PROVE  \E a \in S : Rank(S, a) = i - 1
<1> DEFINE n == Cardinality(S)
           T == 0 .. n - 1
           f == [a \in S |-> Rank(S, a)]
<1>1. n \in Nat /\ IsFiniteSet(T) /\ Cardinality(T) = n
  <2>1. n \in Nat
    BY FS_CardinalityType
  <2> HIDE DEF n
  <2> QED
    BY <2>1, FS_Interval
<1>2. f \in Injection(S, T)
  <2>1. f \in [S -> T]
    BY RankIsMonotonic
  <2>2. \A a, b \in S : f[a] = f[b] => a = b
    BY RankIsMonotonic
  <2> QED
    BY <2>1, <2>2 DEF Injection, IsInjective
<1>3. f \in Surjection(S, T)
  <2> HIDE DEF f, T, n
  <2> QED
    BY <1>1, <1>2, FS_Injection DEF n
<1>4. i - 1 \in T
  BY <1>1
<1>5. \E a \in S : f[a] = i - 1
  BY <1>3, <1>4 DEF Surjection
<1> QED
  BY <1>5

\* What sorted() promises.
Sorted(s, S) ==
    /\ s \in Seq(S) /\ Len(s) = Cardinality(S)
    /\ \A i, j \in 1 .. Len(s) : i < j <=> Below(s[i], s[j])
    /\ \A a \in S : \E i \in 1 .. Len(s) : s[i] = a

\* Ordered is sorted() of a finite set of fractions.
LEMMA OrderedIsSorted ==
    ASSUME NEW S \in SUBSET Fractions, IsFiniteSet(S)
    PROVE  Sorted(Ordered(S), S)
<1> DEFINE n == Cardinality(S)
           s == Ordered(S)
<1>1. n \in Nat
  BY FS_CardinalityType
<1>2. \A i \in 1 .. n : s[i] \in S /\ Rank(S, s[i]) = i - 1
  <2> SUFFICES ASSUME NEW i \in 1 .. n
               PROVE  s[i] \in S /\ Rank(S, s[i]) = i - 1
    OBVIOUS
  <2>1. \E a \in S : Rank(S, a) = i - 1
    BY EveryRankIsTaken
  <2>2. s[i] = CHOOSE a \in S : Rank(S, a) = i - 1
    BY DEF Ordered, Rank, Lower
  <2> QED
    BY <2>1, <2>2
<1>3. DOMAIN s = 1 .. n
  BY DEF Ordered
<1>4. s \in Seq(S) /\ Len(s) = n
  <2>1. s \in [1 .. n -> S]
    <3> DEFINE at(i) == CHOOSE a \in S : Cardinality({b \in S : Below(b, a)}) = i - 1
    <3>1. s = [i \in 1 .. n |-> at(i)]
      BY DEF Ordered
    <3> HIDE DEF at, s, n
    <3>2. \A i \in 1 .. n : s[i] = at(i)
      BY <3>1
    <3>3. \A i \in 1 .. n : at(i) \in S
      BY <1>2, <3>2
    <3> QED
      BY <3>1, <3>3
  <2> HIDE DEF s, n
  <2> QED
    BY <1>1, <2>1
<1> HIDE DEF s, n
<1>5. \A i, j \in 1 .. n : i < j <=> Below(s[i], s[j])
  <2> SUFFICES ASSUME NEW i \in 1 .. n, NEW j \in 1 .. n
               PROVE  i < j <=> Below(s[i], s[j])
    OBVIOUS
  <2>1. /\ s[i] \in S /\ s[j] \in S
        /\ Rank(S, s[i]) = i - 1 /\ Rank(S, s[j]) = j - 1
    BY <1>2
  <2>2. Below(s[i], s[j]) => i - 1 < j - 1
    BY <2>1, RankIsMonotonic
  <2>3. Below(s[j], s[i]) => j - 1 < i - 1
    BY <2>1, RankIsMonotonic
  <2>4. s[i] = s[j] \/ Below(s[i], s[j]) \/ Below(s[j], s[i])
    BY <2>1, BelowOrders
  <2>5. s[i] = s[j] => i - 1 = j - 1
    BY <2>1
  <2> QED
    BY <1>1, <2>2, <2>3, <2>4, <2>5
<1>6. ASSUME NEW a \in S PROVE \E i \in 1 .. n : s[i] = a
  <2>1. Rank(S, a) \in 0 .. n - 1
    BY RankIsMonotonic DEF n
  <2> DEFINE i == Rank(S, a) + 1
  <2>2. i \in 1 .. n /\ i - 1 = Rank(S, a)
    BY <1>1, <2>1
  <2>3. s[i] \in S /\ Rank(S, s[i]) = Rank(S, a)
    BY <1>2, <2>2
  <2>4. s[i] = a
    BY <2>3, RankIsMonotonic
  <2> QED
    BY <2>2, <2>4
<1> QED
  BY <1>4, <1>5, <1>6 DEF Sorted, s, n

-----------------------------------------------------------------------------
(* The candidates: zero, the roots, a value in every gap and one past them. *)

\* No lambda is below zero.
LEMMA NothingIsBelowZero == ASSUME NEW f \in NonNegative PROVE ~Below(f, Zero)
<1>1. f[1] \in Int /\ f[1] >= 0 /\ f[2] \in Nat \ {0} /\ Zero[1] = 0 /\ Zero[2] = 1
  BY FractionType, ZeroIsFraction DEF NonNegative
<1>2. f[1] * 1 = f[1] /\ 0 * f[2] = 0
  BY <1>1
<1> QED
  BY <1>1, <1>2 DEF Below

\* A sorted set of lambdas that holds zero begins with it and ends with its greatest.
LEMMA SortedEnds ==
    ASSUME NEW S \in SUBSET NonNegative, IsFiniteSet(S), Zero \in S, NEW s, Sorted(s, S)
    PROVE  /\ Len(s) \in Nat \ {0} /\ s[1] = Zero
           /\ \A i \in 1 .. Len(s) : s[i] \in S
           /\ \A a \in S : a = s[Len(s)] \/ Below(a, s[Len(s)])
<1>1. /\ s \in Seq(S) /\ Len(s) \in Nat
      /\ \A i, j \in 1 .. Len(s) : i < j <=> Below(s[i], s[j])
      /\ \A a \in S : \E i \in 1 .. Len(s) : s[i] = a
  BY DEF Sorted
<1>2. PICK k \in 1 .. Len(s) : s[k] = Zero
  BY <1>1
<1>3. Len(s) \in Nat \ {0} /\ 1 \in 1 .. Len(s) /\ Len(s) \in 1 .. Len(s)
  BY <1>1, <1>2
<1>4. \A i \in 1 .. Len(s) : s[i] \in S
  BY <1>1
<1>5. s[1] = Zero
  <2>1. s[1] \in NonNegative
    BY <1>3, <1>4
  <2>2. ~Below(s[1], s[k])
    BY <1>2, <2>1, NothingIsBelowZero
  <2>3. ~(1 < k)
    BY <1>1, <1>2, <1>3, <2>2
  <2>4. k = 1
    BY <1>1, <1>2, <2>3
  <2> QED
    BY <1>2, <2>4
<1>6. ASSUME NEW a \in S PROVE a = s[Len(s)] \/ Below(a, s[Len(s)])
  <2>1. PICK i \in 1 .. Len(s) : s[i] = a
    BY <1>1
  <2>2. i = Len(s) \/ i < Len(s)
    BY <1>1, <2>1
  <2> QED
    BY <1>1, <1>3, <2>1, <2>2
<1> QED
  BY <1>3, <1>4, <1>5, <1>6

Boundary(roots) == Ordered({Zero} \cup roots)
Middles(b) == {Midpoint(b[i], b[i + 1]) : i \in 1 .. Len(b) - 1}
Past(f) == <<f[1] + f[2], f[2]>>
Spread(roots) == {Zero} \cup roots \cup Middles(Boundary(roots))
                 \cup {Past(Boundary(roots)[Len(Boundary(roots))])}

\* The boundaries of _candidates_from_boundaries are sorted.
LEMMA BoundaryIsSorted ==
    ASSUME NEW roots \in SUBSET NonNegative, IsFiniteSet(roots)
    PROVE  /\ {Zero} \cup roots \in SUBSET NonNegative
           /\ IsFiniteSet({Zero} \cup roots) /\ Sorted(Boundary(roots), {Zero} \cup roots)
<1>1. {Zero} \cup roots \in SUBSET NonNegative /\ {Zero} \cup roots \in SUBSET Fractions
  BY ZeroIsFraction DEF NonNegative
<1>2. IsFiniteSet({Zero} \cup roots)
  <2>1. IsFiniteSet({Zero})
    BY FS_Singleton
  <2> QED
    BY <2>1, FS_Union
<1> QED
  BY <1>1, <1>2, OrderedIsSorted DEF Boundary

\* The candidates are sorted and the last lies past every root.
LEMMA CandidatesAreSorted ==
    ASSUME NEW roots \in SUBSET NonNegative, IsFiniteSet(roots)
    PROVE  /\ Spread(roots) \in SUBSET NonNegative /\ IsFiniteSet(Spread(roots))
           /\ Sorted(Candidates(roots), Spread(roots))
           /\ Past(Boundary(roots)[Len(Boundary(roots))]) # Zero
           /\ \A r \in roots : Below(r, Past(Boundary(roots)[Len(Boundary(roots))]))
<1> DEFINE S == {Zero} \cup roots
           b == Boundary(roots)
           n == Len(b)
           T == Past(b[n])
<1>1. S \in SUBSET NonNegative /\ IsFiniteSet(S) /\ Sorted(b, S)
  BY BoundaryIsSorted
<1>2. /\ n \in Nat \ {0} /\ \A i \in 1 .. n : b[i] \in S
      /\ \A a \in S : a = b[n] \/ Below(a, b[n])
      /\ \A i, j \in 1 .. n : i < j <=> Below(b[i], b[j])
  <2> HIDE DEF b
  <2>1. Zero \in S
    OBVIOUS
  <2> HIDE DEF S
  <2> QED
    BY <1>1, <2>1, SortedEnds DEF Sorted
<1> HIDE DEF b, n
<1>3. ASSUME NEW i \in 1 .. n - 1
      PROVE  Midpoint(b[i], b[i + 1]) \in NonNegative
  <2>1. i \in 1 .. n /\ i + 1 \in 1 .. n /\ i < i + 1
    BY <1>2
  <2>2. b[i] \in NonNegative /\ b[i + 1] \in NonNegative /\ Below(b[i], b[i + 1])
    BY <1>1, <1>2, <2>1
  <2> QED
    BY <2>2, MidpointIsBetween
<1>4. Middles(b) \in SUBSET NonNegative
  BY <1>3 DEF Middles, n
<1>5. IsFiniteSet(Middles(b))
  <2> DEFINE f == [i \in 1 .. n - 1 |-> Midpoint(b[i], b[i + 1])]
  <2>1. f \in Surjection(1 .. n - 1, Middles(b))
    <3>1. f \in [1 .. n - 1 -> Middles(b)]
      BY DEF Middles, n
    <3>2. \A t \in Middles(b) : \E i \in 1 .. n - 1 : f[i] = t
      BY DEF Middles, n
    <3> QED
      BY <3>1, <3>2 DEF Surjection
  <2>2. IsFiniteSet(1 .. n - 1)
    <3>1. 1 \in Int /\ n - 1 \in Int
      BY <1>2
    <3> QED
      BY <3>1, FS_Interval
  <2> HIDE DEF f
  <2> QED
    BY <2>1, <2>2, FS_Surjection
<1>6. b[n] \in NonNegative /\ b[n] \in S /\ T \in NonNegative /\ Below(b[n], T)
  <2>1. n \in 1 .. n
    BY <1>2
  <2>2. b[n] \in NonNegative
    BY <1>1, <1>2, <2>1
  <2> QED
    BY <1>2, <2>1, <2>2, TailIsPast DEF Past
<1>7. T # Zero
  BY <1>6, NothingIsBelowZero
<1>8. \A r \in roots : Below(r, T)
  <2> TAKE r \in roots
  <2>1. r \in Fractions /\ b[n] \in Fractions /\ T \in Fractions
    BY <1>6 DEF NonNegative
  <2>2. r = b[n] \/ Below(r, b[n])
    BY <1>2
  <2> QED
    BY <1>6, <2>1, <2>2, BelowOrders
<1>9. Spread(roots) = S \cup Middles(b) \cup {T}
  BY DEF Spread, b, n
<1>10. Spread(roots) \in SUBSET NonNegative /\ Spread(roots) \in SUBSET Fractions
  BY <1>1, <1>4, <1>6, <1>9 DEF NonNegative
<1>11. IsFiniteSet(Spread(roots))
  <2>1. IsFiniteSet(S \cup Middles(b))
    BY <1>1, <1>5, FS_Union
  <2>2. IsFiniteSet({T})
    BY FS_Singleton
  <2> QED
    BY <1>9, <2>1, <2>2, FS_Union
<1>12. Candidates(roots) = Ordered(Spread(roots))
  BY DEF Candidates, Spread, Boundary, Middles, Past
<1> QED
  BY <1>7, <1>8, <1>10, <1>11, <1>12, OrderedIsSorted DEF T, b, n

\* Two lambdas with the same roots below and the same roots above.
Alike(roots, l, k) ==
    \A r \in roots : (Below(r, l) <=> Below(r, k)) /\ (Below(l, r) <=> Below(k, r))

\* Every lambda has a candidate among the same roots.
LEMMA NoGapIsMissed ==
    ASSUME NEW roots \in SUBSET NonNegative, IsFiniteSet(roots), NEW l \in NonNegative
    PROVE  \E c \in Spread(roots) : Alike(roots, c, l)
<1> DEFINE S == {Zero} \cup roots
           b == Boundary(roots)
           n == Len(b)
           T == Past(b[n])
<1>1. CASE l \in S
  BY <1>1 DEF Spread, Alike
<1>2. CASE l \notin S
  <2>1. S \in SUBSET NonNegative /\ IsFiniteSet(S) /\ Sorted(b, S) /\ Zero \in S
    BY BoundaryIsSorted
  <2>2. /\ n \in Nat \ {0} /\ b[1] = Zero /\ \A i \in 1 .. n : b[i] \in S
        /\ \A i, j \in 1 .. n : i < j <=> Below(b[i], b[j])
        /\ \A a \in S : \E i \in 1 .. n : b[i] = a
    <3> HIDE DEF b, S
    <3> QED
      BY <2>1, SortedEnds DEF Sorted
  <2>3. T \in Spread(roots) /\ \A r \in roots : Below(r, T)
    BY CandidatesAreSorted DEF Spread
  <2>4. \A i \in 1 .. n - 1 : Midpoint(b[i], b[i + 1]) \in Spread(roots)
    BY DEF Spread, Middles
  <2>5. Spread(roots) \in SUBSET Fractions /\ S \in SUBSET Fractions /\ l \in Fractions
    BY <2>1, CandidatesAreSorted DEF NonNegative
  <2> HIDE DEF b, n, T
  <2> DEFINE U == {j \in 1 .. n + 1 : j = n + 1 \/ Below(l, b[j])}
  <2>6. PICK u \in U : \A j \in U : u <= j
    <3>1. U \in SUBSET Nat /\ n + 1 \in U
      BY <2>2
    <3> HIDE DEF U
    <3> QED
      BY <3>1, LeastElement
  <2>7. \A k \in 1 .. n : k < u => Below(b[k], l)
    <3> SUFFICES ASSUME NEW k \in 1 .. n, k < u PROVE Below(b[k], l)
      OBVIOUS
    <3>1. k \notin U
      BY <2>2, <2>6
    <3>2. ~Below(l, b[k])
      BY <2>2, <3>1
    <3>3. b[k] \in S /\ b[k] # l
      BY <1>2, <2>2
    <3> QED
      BY <2>5, <3>2, <3>3, BelowOrders
  <2>8. \A k \in 1 .. n : u <= k => Below(l, b[k])
    <3> SUFFICES ASSUME NEW k \in 1 .. n, u <= k PROVE Below(l, b[k])
      OBVIOUS
    <3>1. u \in 1 .. n /\ Below(l, b[u])
      BY <2>2, <2>6
    <3>2. k = u \/ Below(b[u], b[k])
      BY <2>2, <3>1
    <3>3. b[u] \in Fractions /\ b[k] \in Fractions
      BY <2>2, <2>5, <3>1
    <3> QED
      BY <2>5, <3>1, <3>2, <3>3, BelowOrders
  <2>9. u # 1
    <3>1. ~Below(l, Zero)
      BY NothingIsBelowZero
    <3> QED
      BY <2>2, <2>6, <3>1
  <2>10. CASE u = n + 1
    <3>1. ASSUME NEW r \in roots PROVE Below(r, l) /\ Below(r, T)
      <4>1. PICK i \in 1 .. n : b[i] = r
        BY <2>2
      <4>2. i < u
        BY <2>2, <2>10
      <4> QED
        BY <2>3, <2>7, <4>1, <4>2
    <3>2. \A r \in roots : ~Below(l, r) /\ ~Below(T, r)
      <4> TAKE r \in roots
      <4>1. r \in Fractions /\ T \in Fractions
        BY <2>3, <2>5
      <4> QED
        BY <2>5, <3>1, <4>1, BelowOrders
    <3> QED
      BY <2>3, <3>1, <3>2 DEF Alike
  <2>11. CASE u # n + 1
    <3> DEFINE v == u - 1
               m == Midpoint(b[v], b[u])
    <3>1. u \in 1 .. n /\ v \in 1 .. n /\ v < u /\ v \in 1 .. n - 1 /\ v + 1 = u
      BY <2>2, <2>6, <2>9, <2>11
    <3>2. Below(b[v], b[u]) /\ b[v] \in NonNegative /\ b[u] \in NonNegative
      BY <2>1, <2>2, <3>1
    <3> HIDE DEF v
    <3>3. m \in Spread(roots) /\ Below(b[v], m) /\ Below(m, b[u])
      <4>1. m \in Spread(roots)
        BY <2>4, <3>1
      <4> QED
        BY <3>2, <4>1, MidpointIsBetween
    <3> HIDE DEF m
    <3>4. m \in Fractions /\ b[v] \in Fractions /\ b[u] \in Fractions
      BY <2>5, <3>2, <3>3 DEF NonNegative
    <3>5. ASSUME NEW r \in roots
          PROVE  \/ Below(r, l) /\ Below(r, m)
                 \/ Below(l, r) /\ Below(m, r)
      <4>1. PICK i \in 1 .. n : b[i] = r
        BY <2>2
      <4>2. r \in Fractions
        BY <2>5
      <4>3. CASE i < u
        <5>1. i = v \/ i < v
          BY <2>2, <3>1, <4>3
        <5>2. r = b[v] \/ Below(r, b[v])
          BY <2>2, <3>1, <4>1, <5>1
        <5>3. Below(r, m)
          BY <3>3, <3>4, <4>2, <5>2, BelowOrders
        <5> QED
          BY <2>7, <4>1, <4>3, <5>3
      <4>4. CASE ~(i < u)
        <5>1. i = u \/ u < i
          BY <2>2, <3>1, <4>4
        <5>2. r = b[u] \/ Below(b[u], r)
          BY <2>2, <3>1, <4>1, <5>1
        <5>3. Below(m, r)
          BY <3>3, <3>4, <4>2, <5>2, BelowOrders
        <5>4. u <= i
          BY <3>1, <5>1
        <5> QED
          BY <2>8, <4>1, <5>3, <5>4
      <4> QED
        BY <4>3, <4>4
    <3>6. Alike(roots, m, l)
      <4> SUFFICES ASSUME NEW r \in roots
                   PROVE  (Below(r, m) <=> Below(r, l)) /\ (Below(m, r) <=> Below(l, r))
        BY DEF Alike
      <4>1. r \in Fractions
        BY <2>5
      <4> QED
        BY <2>5, <3>4, <3>5, <4>1, BelowOrders
    <3> QED
      BY <3>3, <3>6
  <2> QED
    BY <2>10, <2>11
<1> QED
  BY <1>1, <1>2

-----------------------------------------------------------------------------
(* Thinning out: the indices grow from the first to the last.               *)

\* Numbers a divisor apart have different quotients.
LEMMA QuotientsGrow ==
    ASSUME NEW x \in Nat, NEW y \in Nat, NEW d \in Nat \ {0}, x + d <= y
    PROVE  x \div d \in Nat /\ y \div d \in Nat /\ x \div d < y \div d
  OBVIOUS

\* The first and the last quotient of the spacing.
LEMMA QuotientEnds ==
    ASSUME NEW d \in Nat \ {0}, NEW k \in Nat
    PROVE  0 \div d = 0 /\ (d * k) \div d = k
  OBVIOUS

\* _rank_spaced keeps both ends, the order and the maximum.
LEMMA ThinnedKeepsEnds ==
    ASSUME NEW S \in SUBSET NonNegative, NEW s \in Seq(S), NEW maximum \in Nat \ {0, 1},
           Len(s) > maximum,
           \A i, j \in 1 .. Len(s) : i < j => Below(s[i], s[j])
    PROVE  LET t == RankSpaced(s, maximum) IN
           /\ t \in Seq(S) /\ Len(t) = maximum
           /\ t[1] = s[1] /\ t[Len(t)] = s[Len(s)]
           /\ \A i \in 1 .. Len(t) - 1 : Below(t[i], t[i + 1])
<1> DEFINE t == RankSpaced(s, maximum)
           L == Len(s)
           d == maximum - 1
           k == L - 1
           at(i) == 1 + ((i - 1) * k) \div d
<1>1. L \in Nat /\ d \in Nat \ {0} /\ k \in Nat /\ d < k /\ maximum = d + 1 /\ L = k + 1
  OBVIOUS
<1>2. t = [i \in 1 .. maximum |-> s[at(i)]]
  BY DEF RankSpaced
<1> HIDE DEF t, L, d, k
<1>3. ASSUME NEW i \in 1 .. maximum PROVE at(i) \in Nat /\ (i < maximum => at(i) < at(i + 1))
  <2> DEFINE x == (i - 1) * k
             y == i * k
  <2>1. i \in Nat /\ i - 1 \in Nat /\ (i + 1) - 1 = i
    BY <1>1
  <2>2. x \in Nat /\ y \in Nat /\ y = x + k
    BY <1>1, <2>1
  <2>3. at(i) = 1 + x \div d /\ at(i + 1) = 1 + y \div d
    BY <2>1
  <2> HIDE DEF x, y, at
  <2>4. x + d <= y
    BY <1>1, <2>2
  <2>5. x \div d \in Nat /\ y \div d \in Nat /\ x \div d < y \div d
    BY <1>1, <2>2, <2>4, QuotientsGrow
  <2> QED
    BY <2>3, <2>5
<1>4. at(1) = 1 /\ at(maximum) = L
  <2>1. (1 - 1) * k = 0 /\ (maximum - 1) * k = d * k
    BY <1>1
  <2>2. 0 \div d = 0 /\ (d * k) \div d = k
    BY <1>1, QuotientEnds
  <2> QED
    BY <1>1, <2>1, <2>2
<1>5. ASSUME NEW i \in 1 .. maximum PROVE at(i) \in 1 .. L
  <2>1. i - 1 \in Nat /\ i - 1 <= d
    BY <1>1
  <2> DEFINE x == (i - 1) * k
             y == d * k
  <2>2. x \in Nat /\ y \in Nat /\ x <= y
    <3>1. (d - (i - 1)) * k >= 0
      BY <1>1, <2>1
    <3>2. (d - (i - 1)) * k = d * k - (i - 1) * k
      BY <1>1, <2>1
    <3> QED
      BY <1>1, <2>1, <3>1, <3>2
  <2>3. at(i) = 1 + x \div d /\ y \div d = k
    BY <1>1, QuotientEnds
  <2> HIDE DEF x, y, at
  <2>4. x \div d \in Nat /\ x \div d <= y \div d
    BY <1>1, <2>2
  <2> QED
    BY <1>1, <2>3, <2>4
<1> HIDE DEF at
<1>6. t \in Seq(S) /\ Len(t) = maximum /\ \A i \in 1 .. maximum : t[i] = s[at(i)]
  <2>1. \A i \in 1 .. L : s[i] \in S
    BY DEF L
  <2>2. t \in [1 .. maximum -> S]
    BY <1>2, <1>5, <2>1
  <2> QED
    BY <1>2, <2>2
<1>7. t[1] = s[1] /\ t[Len(t)] = s[L]
  <2>1. 1 \in 1 .. maximum /\ maximum \in 1 .. maximum
    BY <1>1
  <2> QED
    BY <1>4, <1>6, <2>1
<1>8. ASSUME NEW i \in 1 .. maximum - 1 PROVE Below(t[i], t[i + 1])
  <2>1. i \in 1 .. maximum /\ i + 1 \in 1 .. maximum /\ i < maximum
    BY <1>1
  <2>2. at(i) \in 1 .. L /\ at(i + 1) \in 1 .. L /\ at(i) < at(i + 1)
    BY <1>3, <1>5, <2>1
  <2> QED
    BY <1>6, <2>1, <2>2 DEF L
<1> QED
  BY <1>6, <1>7, <1>8 DEF t, L

-----------------------------------------------------------------------------
(* The derivation: what holds while the crossings are streamed.             *)

InputTypes ==
    /\ menu \in [Examples -> [Models -> Offers]] /\ cap \in Caps /\ hash \in Hashes
    /\ streamed \in SUBSET Crossings

\* With a cap the heap holds the lowest priorities seen, and all of them as long
\* as it is not full; the flag says whether something was ever turned away.
SampleInv ==
    /\ cap = 0 => retained = Observed /\ overflowed = FALSE
    /\ cap # 0 => /\ retained \in SUBSET Observed
                  /\ Cardinality(retained) <= cap
                  /\ retained = Observed \/ Cardinality(retained) = cap
                  /\ \A a \in retained, b \in Observed \ retained : hash[a] < hash[b]
    /\ overflowed \in BOOLEAN
    /\ overflowed = FALSE => retained = Observed
    /\ overflowed = TRUE => Cardinality(Observed) > cap

\* The upper extreme was observed and nothing observed lies above it.
EndsInv == /\ extremes \in SUBSET Observed
           /\ \A a \in Observed : \E hi \in extremes : ~Below(hi, a)

\* What Derive leaves stays as it was computed from the complete stream.
OutcomeInv ==
    Derived => LET derived == Candidates(Boundaries) IN
        /\ streamed = Crossings
        /\ values = IF cap = 0 THEN derived ELSE RankSpaced(derived, cap)
        /\ exhaustive <=> ~Truncated(derived)

DerivationInv == InputTypes /\ SampleInv /\ EndsInv /\ OutcomeInv

\* What the assumptions say of caps and offers.
LEMMA ShapeFacts ==
    /\ \A cp \in Caps : cp \in Nat /\ (cp # 0 => cp \in Nat \ {0, 1})
    /\ \A o \in Offers : o.cost \in Nat /\ o.score \in Int
  BY CapAssumption, OfferAssumption

\* A quotient of numbers of the same sign is not negative.
LEMMA RootIsNonNegative ==
    ASSUME NEW n \in Int, NEW d \in Int, d # 0, n * d >= 0
    PROVE  Fraction(n, d) \in NonNegative
<1> DEFINE f == Fraction(n, d)
<1>1. f \in Fractions /\ f[1] * d = n * f[2] /\ f[1] \in Int /\ f[2] \in Nat \ {0}
  BY FractionIsCanonical, FractionType
<1> HIDE DEF f
<1> DEFINE u == f[1]  v == f[2]
<1>2. u \in Int /\ v \in Nat \ {0} /\ u * d = n * v
  BY <1>1
<1> HIDE DEF u, v
<1>3. (u * d) * d = (n * v) * d
  BY <1>2
<1>4. (n * v) * d = (n * d) * v /\ (u * d) * d = u * (d * d)
  BY <1>2
<1>5. d * d \in Nat \ {0} /\ n * d \in Int
  OBVIOUS
<1>6. (n * d) * v >= 0
  BY <1>2, <1>5
<1>7. u * (d * d) >= 0
  BY <1>3, <1>4, <1>6
<1>8. u >= 0
  BY <1>2, <1>5, <1>7
<1> QED
  BY <1>1, <1>8 DEF NonNegative, f, u

\* The gaps of a comparison are integers.
LEMMA GapTypes ==
    ASSUME InputTypes, NEW c \in Comparisons
    PROVE  /\ CostGap(c) \in Int /\ ScoreGap(c) \in Int
           /\ c[1] \in Examples /\ c[2] \in Models /\ c[3] \in Models
           /\ menu[c[1]][c[2]] \in Offers /\ menu[c[1]][c[3]] \in Offers
<1>1. c[1] \in Examples /\ c[2] \in Models /\ c[3] \in Models
  BY DEF Comparisons
<1>2. menu[c[1]][c[2]] \in Offers /\ menu[c[1]][c[3]] \in Offers
  BY <1>1 DEF InputTypes
<1> QED
  BY <1>1, <1>2, ShapeFacts DEF CostGap, ScoreGap

\* A crossing has a root that is a fraction, not negative and with a priority.
LEMMA RootTypes ==
    ASSUME InputTypes, NEW c \in Crossings
    PROVE  Root(c) \in NonNegative /\ Root(c) \in DOMAIN hash
<1>1. c \in Comparisons /\ CostGap(c) # 0 /\ ScoreGap(c) * CostGap(c) >= 0
  BY DEF Crossings
<1>2. CostGap(c) \in Int /\ ScoreGap(c) \in Int
  BY <1>1, GapTypes
<1>3. Root(c) \in NonNegative
  BY <1>1, <1>2, RootIsNonNegative DEF Root
<1>4. Root(c) \in DOMAIN hash
  <2> DEFINE o == menu[c[1]][c[2]]
             p == menu[c[1]][c[3]]
  <2>1. o \in Offers /\ p \in Offers /\ o.cost \in Int /\ p.cost \in Int
    BY <1>1, GapTypes, ShapeFacts
  <2>2. CostGap(c) = o.cost - p.cost /\ ScoreGap(c) = o.score - p.score
    BY DEF CostGap, ScoreGap
  <2> HIDE DEF o, p
  <2>3. o.cost # p.cost /\ (o.score - p.score) * (o.cost - p.cost) >= 0
    BY <1>1, <2>1, <2>2
  <2>4. Root(c) = Fraction(o.score - p.score, o.cost - p.cost)
    BY <2>2 DEF Root
  <2>5. hash \in Hashes
    BY DEF InputTypes
  <2> QED
    BY <2>1, <2>3, <2>4, <2>5, HashAssumption
<1> QED
  BY <1>3, <1>4

\* Priorities are naturals and no two roots have the same.
LEMMA PriorityTypes ==
    ASSUME InputTypes
    PROVE  \A a, b \in DOMAIN hash : hash[a] \in Nat /\ (hash[a] = hash[b] => a = b)
  BY HashAssumption DEF InputTypes

\* The roots observed so far are finitely many fractions with priorities.
LEMMA ObservedIsFinite ==
    ASSUME InputTypes
    PROVE  /\ IsFiniteSet(Observed) /\ Observed \in SUBSET NonNegative
           /\ Observed \in SUBSET DOMAIN hash
<1>1. Observed \in SUBSET NonNegative /\ Observed \in SUBSET DOMAIN hash
  BY RootTypes DEF Observed, InputTypes
<1>2. IsFiniteSet(streamed)
  <2>1. IsFiniteSet(Examples) /\ IsFiniteSet(Models)
    BY ShapeAssumption, FS_Interval DEF Examples, Models
  <2>2. IsFiniteSet(Examples \X Models)
    BY <2>1, FS_Product
  <2>3. IsFiniteSet(Models \X Models)
    BY <2>1, FS_Product
  <2>4. IsFiniteSet(Examples \X (Models \X Models))
    BY <2>1, <2>3, FS_Product
  <2> DEFINE f == [c \in Examples \X (Models \X Models) |-> <<c[1], c[2][1], c[2][2]>>]
  <2>5. f \in Surjection(Examples \X (Models \X Models), Examples \X Models \X Models)
    <3>1. f \in [Examples \X (Models \X Models) -> Examples \X Models \X Models]
      OBVIOUS
    <3>2. ASSUME NEW t \in Examples \X Models \X Models
          PROVE  \E c \in Examples \X (Models \X Models) : f[c] = t
      <4>1. <<t[1], <<t[2], t[3]>>>> \in Examples \X (Models \X Models)
        OBVIOUS
      <4>2. f[<<t[1], <<t[2], t[3]>>>>] = t
        BY <4>1
      <4> QED
        BY <4>1, <4>2
    <3> QED
      BY <3>1, <3>2 DEF Surjection
  <2>6. IsFiniteSet(Examples \X Models \X Models)
    <3> HIDE DEF f
    <3> QED
      BY <2>4, <2>5, FS_Surjection
  <2>7. streamed \in SUBSET (Examples \X Models \X Models)
    BY DEF InputTypes, Crossings, Comparisons
  <2> QED
    BY <2>6, <2>7, FS_Subset
<1>3. IsFiniteSet(Observed)
  <2> DEFINE f == [c \in streamed |-> Root(c)]
  <2>1. f \in Surjection(streamed, Observed)
    <3>1. f \in [streamed -> Observed]
      BY DEF Observed
    <3>2. \A t \in Observed : \E c \in streamed : f[c] = t
      BY DEF Observed
    <3> QED
      BY <3>1, <3>2 DEF Surjection
  <2> HIDE DEF f
  <2> QED
    BY <1>2, <2>1, FS_Surjection
<1> QED
  BY <1>1, <1>3

\* A finite set that is not empty has an entry of the greatest priority.
LEMMA WorstExists ==
    ASSUME NEW S, IsFiniteSet(S), S # {}, NEW h, \A a \in S : h[a] \in Nat
    PROVE  \E a \in S : \A b \in S : h[b] <= h[a]
<1> DEFINE Above(a) == {b \in S : h[a] < h[b]}
           counts == {Cardinality(Above(a)) : a \in S}
<1>1. \A a \in S : IsFiniteSet(Above(a)) /\ Cardinality(Above(a)) \in Nat
  <2> TAKE a \in S
  <2>1. Above(a) \in SUBSET S
    OBVIOUS
  <2> HIDE DEF Above
  <2> QED
    BY <2>1, FS_Subset, FS_CardinalityType
<1>2. PICK a \in S : \A b \in S : Cardinality(Above(a)) <= Cardinality(Above(b))
  <2> HIDE DEF Above
  <2>1. counts \in SUBSET Nat /\ counts # {}
    BY <1>1
  <2>2. PICK n \in counts : \A m \in counts : n <= m
    <3> HIDE DEF counts
    <3> QED
      BY <2>1, LeastElement
  <2> QED
    BY <2>2
<1>3. ASSUME NEW b \in S, ~(h[b] <= h[a]) PROVE FALSE
  <2>1. h[a] < h[b]
    BY <1>3
  <2>2. b \in Above(a) /\ b \notin Above(b) /\ Above(b) \in SUBSET Above(a)
    BY <2>1
  <2> HIDE DEF Above
  <2>3. Above(b) \in SUBSET (Above(a) \ {b})
    BY <2>2
  <2>4. IsFiniteSet(Above(a) \ {b}) /\ Cardinality(Above(a) \ {b}) = Cardinality(Above(a)) - 1
    BY <1>1, <2>2, FS_RemoveElement
  <2>5. Cardinality(Above(b)) <= Cardinality(Above(a) \ {b})
    BY <2>3, <2>4, FS_Subset
  <2> QED
    BY <1>1, <1>2, <2>4, <2>5
<1> QED
  BY <1>3

\* A finite set of fractions that is not empty has its ends.
LEMMA EndsExist ==
    ASSUME NEW S \in SUBSET Fractions, IsFiniteSet(S), S # {}
    PROVE  /\ Lowest(S) \in S
           /\ Highest(S) \in S /\ \A a \in S : ~Below(Highest(S), a)
<1> DEFINE s == Ordered(S)
           n == Len(s)
<1>1. Sorted(s, S)
  BY OrderedIsSorted
<1> HIDE DEF s
<1>2. /\ n \in Nat /\ \A i \in 1 .. n : s[i] \in S
      /\ \A i, j \in 1 .. n : i < j <=> Below(s[i], s[j])
      /\ \A a \in S : \E i \in 1 .. n : s[i] = a
  BY <1>1 DEF Sorted
<1> HIDE DEF n
<1>3. 1 \in 1 .. n /\ n \in 1 .. n
  <2>1. PICK a \in S : TRUE
    OBVIOUS
  <2>2. PICK i \in 1 .. n : s[i] = a
    BY <1>2, <2>1
  <2> QED
    BY <1>2, <2>2
<1>4. \E a \in S : \A b \in S : ~Below(b, a)
  <2>1. ASSUME NEW b \in S PROVE ~Below(b, s[1])
    <3>1. PICK i \in 1 .. n : s[i] = b
      BY <1>2
    <3>2. ~(i < 1)
      BY <1>2, <3>1
    <3> QED
      BY <1>2, <1>3, <3>1, <3>2
  <2> QED
    BY <1>2, <1>3, <2>1
<1>5. \E a \in S : \A b \in S : ~Below(a, b)
  <2>1. ASSUME NEW b \in S PROVE ~Below(s[n], b)
    <3>1. PICK i \in 1 .. n : s[i] = b
      BY <1>2
    <3>2. ~(n < i)
      BY <1>2, <3>1
    <3> QED
      BY <1>2, <1>3, <3>1, <3>2
  <2> QED
    BY <1>2, <1>3, <2>1
<1> QED
  BY <1>4, <1>5 DEF Lowest, Highest

\* One more crossing keeps the heap what it is.
LEMMA KeptIsTheLowest ==
    ASSUME InputTypes, SampleInv, cap # 0, NEW r \in NonNegative, r \in DOMAIN hash
    PROVE  LET O == Observed \cup {r}
               K == Kept(r)
               turned == overflowed \/ (Full /\ r \notin retained)
           IN  /\ K \in SUBSET O
               /\ Cardinality(K) <= cap
               /\ K = O \/ Cardinality(K) = cap
               /\ \A a \in K, b \in O \ K : hash[a] < hash[b]
               /\ ~turned => K = O
               /\ turned => Cardinality(O) > cap
<1> DEFINE O == Observed \cup {r}
           K == Kept(r)
           turned == overflowed \/ (Full /\ r \notin retained)
<1>1. /\ cap \in Nat \ {0, 1} /\ IsFiniteSet(Observed) /\ Observed \in SUBSET DOMAIN hash
      /\ \A a, b \in DOMAIN hash : hash[a] \in Nat /\ (hash[a] = hash[b] => a = b)
  BY ShapeFacts, ObservedIsFinite, PriorityTypes DEF InputTypes
<1>2. /\ retained \in SUBSET Observed /\ Cardinality(retained) <= cap
      /\ retained = Observed \/ Cardinality(retained) = cap
      /\ \A a \in retained, b \in Observed \ retained : hash[a] < hash[b]
      /\ overflowed \in BOOLEAN
      /\ overflowed = FALSE => retained = Observed
      /\ overflowed = TRUE => Cardinality(Observed) > cap
  BY DEF SampleInv
<1>3. IsFiniteSet(retained) /\ Cardinality(retained) \in Nat
  BY <1>1, <1>2, FS_Subset, FS_CardinalityType
<1>4. IsFiniteSet(O) /\ Cardinality(O) \in Nat /\ Cardinality(Observed) \in Nat
      /\ Cardinality(Observed) <= Cardinality(O)
  <2>1. IsFiniteSet(O)
    BY <1>1, FS_AddElement
  <2>2. Observed \in SUBSET O
    OBVIOUS
  <2> HIDE DEF O
  <2> QED
    BY <1>1, <2>1, <2>2, FS_Subset, FS_CardinalityType
<1>5. Full <=> ~(Cardinality(retained) < cap)
  BY <1>1, <1>3 DEF Full
<1>6. CASE ~Full
  <2>1. Cardinality(retained) < cap
    BY <1>5, <1>6
  <2>2. retained = Observed
    BY <1>1, <1>2, <1>3, <2>1
  <2>3. overflowed = FALSE
    BY <1>1, <1>2, <1>3, <2>1, <2>2
  <2>4. K = O
    BY <1>6, <2>2 DEF Kept
  <2>5. Cardinality(K) <= cap
    <3>1. Cardinality(O) = IF r \in Observed THEN Cardinality(Observed) ELSE Cardinality(Observed) + 1
      BY <1>1, FS_AddElement
    <3> HIDE DEF O, K
    <3> QED
      BY <1>1, <1>3, <2>1, <2>2, <2>4, <3>1
  <2>6. ~turned
    BY <1>6, <2>3
  <2> QED
    BY <2>4, <2>5, <2>6
<1>7. CASE Full /\ r \in retained
  <2>1. K = retained /\ O = Observed
    BY <1>2, <1>7 DEF Kept
  <2>2. turned <=> overflowed = TRUE
    BY <1>2, <1>7
  <2> QED
    BY <1>2, <2>1, <2>2
<1>8. CASE Full /\ r \notin retained
  <2>1. turned
    BY <1>8
  <2>2. Cardinality(retained) = cap
    BY <1>1, <1>2, <1>3, <1>5, <1>8
  <2>3. Cardinality(retained \cup {r}) = cap + 1
    BY <1>3, <1>8, <2>2, FS_AddElement
  <2>4. Cardinality(O) > cap
    <3>1. retained \cup {r} \in SUBSET O
      BY <1>2
    <3>2. Cardinality(retained \cup {r}) <= Cardinality(O)
      <4> HIDE DEF O
      <4> QED
        BY <1>4, <3>1, FS_Subset
    <3> HIDE DEF O
    <3> QED
      BY <1>1, <1>4, <2>3, <3>2
  <2>5. \E a \in retained : \A b \in retained : hash[b] <= hash[a]
    <3>1. retained # {}
      BY <1>1, <2>2, FS_EmptySet
    <3>2. \A a \in retained : hash[a] \in Nat
      BY <1>1, <1>2
    <3> QED
      BY <1>3, <3>1, <3>2, WorstExists
  <2>6. Worst \in retained /\ \A b \in retained : hash[b] <= hash[Worst]
    BY <2>5 DEF Worst
  <2>7. hash[r] \in Nat /\ \A a \in Observed : hash[a] \in Nat /\ (hash[a] = hash[r] => a = r)
        /\ \A b \in Observed : hash[a] = hash[b] => a = b
    BY <1>1
  <2>8. CASE hash[r] >= hash[Worst]
    <3>1. K = retained
      BY <1>8, <2>8 DEF Kept
    <3>2. ASSUME NEW a \in retained, NEW b \in O \ retained PROVE hash[a] < hash[b]
      <4>1. CASE b = r
        <5>1. a \in Observed /\ a # r /\ hash[a] <= hash[Worst] /\ Worst \in Observed
          BY <1>2, <1>8, <2>6
        <5>2. hash[a] # hash[r]
          BY <2>7, <5>1
        <5> QED
          BY <2>7, <2>8, <4>1, <5>1, <5>2
      <4>2. CASE b # r
        BY <1>2, <4>2
      <4> QED
        BY <4>1, <4>2
    <3> QED
      BY <1>2, <2>1, <2>2, <2>4, <3>1, <3>2
  <2>9. CASE ~(hash[r] >= hash[Worst])
    <3>1. K = (retained \ {Worst}) \cup {r}
      BY <1>8, <2>9 DEF Kept
    <3>2. Cardinality(K) = cap
      <4>1. IsFiniteSet(retained \ {Worst}) /\ Cardinality(retained \ {Worst}) = cap - 1
        BY <1>3, <2>2, <2>6, FS_RemoveElement
      <4>2. r \notin retained \ {Worst}
        BY <1>8
      <4>3. Cardinality((retained \ {Worst}) \cup {r}) = (cap - 1) + 1
        BY <4>1, <4>2, FS_AddElement
      <4> HIDE DEF K
      <4> QED
        BY <1>1, <3>1, <4>3
    <3>3. K \in SUBSET O
      BY <1>2, <3>1
    <3>4. ASSUME NEW a \in K, NEW b \in O \ K PROVE hash[a] < hash[b]
      <4>1. hash[r] < hash[Worst] /\ hash[Worst] \in Nat /\ Worst \in Observed
        BY <1>2, <2>6, <2>7, <2>9
      <4>2. b \in Observed /\ b # r /\ (b = Worst \/ b \notin retained) /\ hash[b] \in Nat
        BY <2>7, <3>1
      <4>3. hash[Worst] <= hash[b]
        BY <1>2, <2>6, <4>1, <4>2
      <4>4. CASE a = r
        BY <2>7, <4>1, <4>2, <4>3, <4>4
      <4>5. CASE a # r
        <5>1. a \in retained /\ a # Worst /\ a \in Observed
          BY <1>2, <3>1, <4>5
        <5>2. hash[a] <= hash[Worst] /\ hash[a] # hash[Worst] /\ hash[a] \in Nat
          BY <1>1, <1>2, <2>6, <5>1
        <5> QED
          BY <4>1, <4>2, <4>3, <5>2
      <4> QED
        BY <4>4, <4>5
    <3> QED
      BY <1>1, <2>1, <2>4, <3>2, <3>3, <3>4
  <2> QED
    BY <2>8, <2>9
<1> QED
  BY <1>6, <1>7, <1>8

\* Nothing is observed at first.
LEMMA DerivationStarts == DerivationInit => DerivationInv
<1> SUFFICES ASSUME DerivationInit PROVE DerivationInv
  OBVIOUS
<1>1. Observed = {}
  BY DEF DerivationInit, Observed
<1>2. Cardinality({}) = 0 /\ \A cp \in Caps : cp \in Nat
  BY FS_EmptySet, ShapeFacts
<1>3. SampleInv
  <2>1. cap \in Nat /\ retained = {} /\ overflowed = FALSE
    BY <1>2 DEF DerivationInit
  <2>2. Cardinality(retained) <= cap
    BY <1>2, <2>1
  <2> QED
    BY <1>1, <2>1, <2>2 DEF SampleInv
<1> QED
  BY <1>1, <1>3 DEF DerivationInit, DerivationInv, InputTypes, EndsInv, OutcomeInv, Derived

\* The next crossing of _bounded_candidates.
LEMMA ObserveKeeps == ASSUME DerivationInv, Observe PROVE DerivationInv'
<1>1. InputTypes /\ SampleInv /\ EndsInv
  BY DEF DerivationInv
<1>2. PICK c \in Comparisons :
          /\ c \in Crossings
          /\ streamed' = streamed \cup {c}
          /\ extremes' = {Lowest(extremes \cup {Root(c)}), Highest(extremes \cup {Root(c)})}
          /\ overflowed' = (overflowed \/ (Full /\ Root(c) \notin retained))
          /\ retained' = Kept(Root(c))
  BY DEF Observe, Upcoming
<1>3. values = << >> /\ menu' = menu /\ cap' = cap /\ hash' = hash /\ values' = values
  BY DEF Observe, input
<1>4. Crossings' = Crossings /\ \A d : Root(d)' = Root(d)
  BY <1>3 DEF Crossings, CostGap, ScoreGap, Root
<1> DEFINE r == Root(c)
           O == Observed \cup {r}
<1>5. Observed' = O
  BY <1>2, <1>3 DEF Observed, Root, CostGap, ScoreGap
<1>6. r \in NonNegative /\ r \in DOMAIN hash
  BY <1>1, <1>2, RootTypes
<1>7. InputTypes'
  BY <1>1, <1>2, <1>3, <1>4 DEF InputTypes
<1> HIDE DEF r
<1>8. SampleInv'
  <2>1. cap = 0 => retained' = O /\ overflowed' = FALSE
    BY <1>1, <1>2 DEF SampleInv, Kept, Full, r
  <2>2. cap # 0 => /\ retained' \in SUBSET O
                   /\ Cardinality(retained') <= cap
                   /\ retained' = O \/ Cardinality(retained') = cap
                   /\ \A a \in retained', b \in O \ retained' : hash[a] < hash[b]
                   /\ ~overflowed' => retained' = O
                   /\ overflowed' => Cardinality(O) > cap
    <3> SUFFICES ASSUME cap # 0
                 PROVE  /\ retained' \in SUBSET O
                        /\ Cardinality(retained') <= cap
                        /\ retained' = O \/ Cardinality(retained') = cap
                        /\ \A a \in retained', b \in O \ retained' : hash[a] < hash[b]
                        /\ ~overflowed' => retained' = O
                        /\ overflowed' => Cardinality(O) > cap
      OBVIOUS
    <3>1. retained' = Kept(r) /\ overflowed' = (overflowed \/ (Full /\ r \notin retained))
      BY <1>2 DEF r
    <3> QED
      BY <1>1, <1>6, <3>1, KeptIsTheLowest
  <2>3. overflowed' \in BOOLEAN
    BY <1>1, <1>2 DEF SampleInv, Full
  <2>4. cap = 0 => ~overflowed' /\ retained' = O
    BY <2>1
  <2> QED
    BY <1>3, <1>5, <2>1, <2>2, <2>3, <2>4 DEF SampleInv
<1>9. EndsInv'
  <2> DEFINE seen == extremes \cup {r}
  <2>1. seen \in SUBSET O /\ O \in SUBSET Fractions /\ IsFiniteSet(O)
    <3>1. IsFiniteSet(Observed) /\ Observed \in SUBSET NonNegative
      BY <1>1, ObservedIsFinite
    <3>2. IsFiniteSet(O)
      BY <3>1, FS_AddElement
    <3> QED
      BY <1>1, <1>6, <3>1, <3>2 DEF EndsInv, NonNegative
  <2>2. IsFiniteSet(seen) /\ seen # {} /\ seen \in SUBSET Fractions
    <3> HIDE DEF O
    <3>1. IsFiniteSet(seen)
      <4>1. seen \in SUBSET O
        BY <2>1
      <4> HIDE DEF seen
      <4> QED
        BY <2>1, <4>1, FS_Subset
    <3> QED
      BY <2>1, <3>1
  <2> DEFINE H == Highest(seen)
  <2>3. extremes' = {Lowest(seen), H} /\ Lowest(seen) \in seen
        /\ H \in seen /\ \A a \in seen : ~Below(H, a)
    <3>1. extremes' = {Lowest(seen), Highest(seen)}
      BY <1>2 DEF r
    <3> HIDE DEF seen
    <3> QED
      BY <2>2, <3>1, EndsExist
  <2> HIDE DEF H
  <2>4. ASSUME NEW a \in O PROVE ~Below(H, a)
    <3>1. CASE a = r
      BY <2>3, <3>1
    <3>2. CASE a \in Observed
      <4>1. PICK hi \in extremes : ~Below(hi, a)
        BY <1>1, <3>2 DEF EndsInv
      <4>2. ~Below(H, hi) /\ H \in Fractions /\ hi \in Fractions /\ a \in Fractions
        BY <2>1, <2>2, <2>3, <4>1
      <4>3. H = hi \/ Below(hi, H)
        BY <4>2, BelowOrders
      <4> QED
        BY <4>1, <4>2, <4>3, BelowOrders
    <3> QED
      BY <3>1, <3>2
  <2> QED
    BY <1>5, <2>1, <2>3, <2>4 DEF EndsInv
<1>10. OutcomeInv'
  BY <1>3 DEF OutcomeInv, Derived
<1> QED
  BY <1>7, <1>8, <1>9, <1>10 DEF DerivationInv

\* What depends on the inputs and the sample only stays with them.
LEMMA SampleStays ==
    ASSUME DerivationInv, UNCHANGED <<input, sample>>
    PROVE  /\ InputTypes' /\ SampleInv' /\ EndsInv'
           /\ Observed' = Observed /\ Crossings' = Crossings /\ Boundaries' = Boundaries
<1>1. menu' = menu /\ cap' = cap /\ hash' = hash /\ streamed' = streamed
      /\ retained' = retained /\ extremes' = extremes /\ overflowed' = overflowed
  BY DEF input, sample
<1>2. Observed' = Observed /\ Crossings' = Crossings /\ Boundaries' = Boundaries
  BY <1>1 DEF Observed, Crossings, Root, CostGap, ScoreGap, Boundaries
<1>3. InputTypes'
  BY <1>1, <1>2 DEF DerivationInv, InputTypes
<1>4. SampleInv'
  BY <1>1, <1>2 DEF DerivationInv, SampleInv
<1>5. EndsInv'
  BY <1>1, <1>2 DEF DerivationInv, EndsInv
<1> QED
  BY <1>2, <1>3, <1>4, <1>5

\* Candidates are computed from the complete stream.
LEMMA DeriveKeeps == ASSUME DerivationInv, Derive PROVE DerivationInv'
<1>1. UNCHANGED <<input, sample>>
  BY DEF Derive
<1>2. /\ InputTypes' /\ SampleInv' /\ EndsInv'
      /\ Crossings' = Crossings /\ Boundaries' = Boundaries
  BY <1>1, SampleStays
<1> DEFINE derived == Candidates(Boundaries)
<1>3. /\ streamed' = Crossings' /\ cap' = cap /\ overflowed' = overflowed
      /\ values' = IF cap = 0 THEN derived ELSE RankSpaced(derived, cap)
      /\ exhaustive' <=> ~Truncated(derived)
  BY <1>1, <1>2 DEF Derive, input, sample
<1>4. Candidates(Boundaries)' = derived
  BY <1>2 DEF Candidates
<1>5. OutcomeInv'
  BY <1>3, <1>4 DEF OutcomeInv, Truncated
<1> QED
  BY <1>2, <1>5 DEF DerivationInv

\* A step that changes nothing of the derivation.
LEMMA DerivationStays ==
    ASSUME DerivationInv, UNCHANGED derivationVars PROVE DerivationInv'
<1>1. UNCHANGED <<input, sample>> /\ values' = values /\ exhaustive' = exhaustive
  BY DEF derivationVars
<1>2. cap' = cap /\ overflowed' = overflowed /\ streamed' = streamed
  BY <1>1 DEF input, sample
<1>3. /\ InputTypes' /\ SampleInv' /\ EndsInv'
      /\ Crossings' = Crossings /\ Boundaries' = Boundaries
  BY <1>1, SampleStays
<1>4. Candidates(Boundaries)' = Candidates(Boundaries)
  BY <1>3 DEF Candidates
<1>5. OutcomeInv'
  BY <1>1, <1>2, <1>3, <1>4 DEF DerivationInv, OutcomeInv, Truncated, Derived
<1> QED
  BY <1>3, <1>5 DEF DerivationInv

\* Every step of the derivation, and every other one.
LEMMA DerivationStep ==
    ASSUME DerivationInv, DerivationNext \/ UNCHANGED derivationVars PROVE DerivationInv'
<1>1. CASE Observe
  BY <1>1, ObserveKeeps
<1>2. CASE Derive
  BY <1>2, DeriveKeeps
<1>3. CASE UNCHANGED derivationVars
  BY <1>3, DerivationStays
<1> QED
  BY <1>1, <1>2, <1>3 DEF DerivationNext

\* The derivation invariant holds throughout derive_lambda_candidate_set.
THEOREM DerivationInductive == DerivationSpec => []DerivationInv
<1>1. DerivationInv /\ [DerivationNext \/ Rest]_derivationVars => DerivationInv'
  BY DerivationStep DEF Rest
<1> QED
  BY DerivationStarts, <1>1, PTL DEF DerivationSpec

\* The heap of the invariant is the bottom-hash sample.
LEMMA SampleFollows == ASSUME DerivationInv PROVE SampleIsBottomHash
<1> SUFFICES ASSUME cap # 0
             PROVE  retained = {a \in Observed :
                                   Cardinality({b \in Observed : hash[b] < hash[a]}) < cap}
  BY DEF SampleIsBottomHash
<1> DEFINE under(a) == {b \in Observed : hash[b] < hash[a]}
<1>1. /\ cap \in Nat \ {0, 1} /\ IsFiniteSet(Observed) /\ Observed \in SUBSET DOMAIN hash
      /\ \A a, b \in DOMAIN hash : hash[a] \in Nat /\ (hash[a] = hash[b] => a = b)
  BY ShapeFacts, ObservedIsFinite, PriorityTypes DEF DerivationInv, InputTypes
<1>2. /\ retained \in SUBSET Observed /\ Cardinality(retained) <= cap
      /\ retained = Observed \/ Cardinality(retained) = cap
      /\ \A a \in retained, b \in Observed \ retained : hash[a] < hash[b]
  BY DEF DerivationInv, SampleInv
<1>3. IsFiniteSet(retained) /\ Cardinality(retained) \in Nat
  BY <1>1, <1>2, FS_Subset, FS_CardinalityType
<1>4. \A a \in Observed : IsFiniteSet(under(a)) /\ Cardinality(under(a)) \in Nat
  <2> TAKE a \in Observed
  <2>1. under(a) \in SUBSET Observed
    OBVIOUS
  <2> HIDE DEF under
  <2> QED
    BY <1>1, <2>1, FS_Subset, FS_CardinalityType
<1>5. ASSUME NEW a \in retained PROVE Cardinality(under(a)) < cap
  <2>1. a \in Observed /\ hash[a] \in Nat /\ \A b \in Observed : hash[b] \in Nat
    BY <1>1, <1>2
  <2>2. ASSUME NEW b \in under(a) PROVE b \in retained \ {a}
    <3>1. b \in Observed /\ hash[b] < hash[a]
      OBVIOUS
    <3>2. CASE b \notin retained
      <4>1. hash[a] < hash[b]
        BY <1>2, <3>1, <3>2
      <4> QED
        BY <2>1, <3>1, <4>1
    <3> QED
      BY <2>1, <3>1, <3>2
  <2>3. under(a) \in SUBSET (retained \ {a})
    BY <2>2
  <2> HIDE DEF under
  <2>4. IsFiniteSet(retained \ {a}) /\ Cardinality(retained \ {a}) = Cardinality(retained) - 1
    BY <1>3, FS_RemoveElement
  <2>5. Cardinality(under(a)) <= Cardinality(retained \ {a})
    BY <2>3, <2>4, FS_Subset
  <2> QED
    BY <1>1, <1>2, <1>3, <1>4, <2>1, <2>4, <2>5
<1>6. ASSUME NEW a \in Observed, a \notin retained PROVE ~(Cardinality(under(a)) < cap)
  <2>1. Cardinality(retained) = cap
    BY <1>2, <1>6
  <2>2. retained \in SUBSET under(a)
    BY <1>2, <1>6
  <2> HIDE DEF under
  <2>3. cap <= Cardinality(under(a))
    BY <1>4, <2>1, <2>2, FS_Subset
  <2> QED
    BY <1>1, <1>4, <2>3
<1> QED
  BY <1>2, <1>5, <1>6

\* A sample that turned nothing away is the whole stream, boundaries and all.
LEMMA WholeStream ==
    ASSUME DerivationInv, overflowed = FALSE
    PROVE  Boundaries = Observed
  BY DEF DerivationInv, SampleInv, EndsInv, Boundaries

\* The boundaries are finitely many observed roots.
LEMMA BoundariesAreObserved ==
    ASSUME DerivationInv
    PROVE  /\ Boundaries \in SUBSET Observed
           /\ Boundaries \in SUBSET NonNegative /\ IsFiniteSet(Boundaries)
<1>1. Boundaries \in SUBSET Observed
  BY DEF DerivationInv, SampleInv, EndsInv, Boundaries
<1>2. IsFiniteSet(Observed) /\ Observed \in SUBSET NonNegative
  BY ObservedIsFinite DEF DerivationInv
<1> QED
  BY <1>1, <1>2, FS_Subset

\* The candidates of all roots are at least as many as the roots.
LEMMA CandidatesAreMany ==
    ASSUME NEW roots \in SUBSET NonNegative, IsFiniteSet(roots)
    PROVE  /\ Len(Candidates(roots)) \in Nat
           /\ Cardinality(roots) \in Nat /\ Cardinality(roots) <= Len(Candidates(roots))
<1>1. /\ IsFiniteSet(Spread(roots)) /\ roots \in SUBSET Spread(roots)
      /\ Len(Candidates(roots)) = Cardinality(Spread(roots))
  BY CandidatesAreSorted DEF Spread, Sorted
<1> QED
  BY <1>1, FS_Subset, FS_CardinalityType

\* The flag and the length decide the label.
LEMMA LabelFollows == ASSUME DerivationInv PROVE LabelIsTruthful
<1> SUFFICES ASSUME Derived
             PROVE  LET exact == Candidates(Observed) IN
                    /\ exhaustive => values = exact
                    /\ exhaustive <=> (cap = 0 \/ Len(exact) <= cap)
  BY DEF LabelIsTruthful
<1> DEFINE exact == Candidates(Observed)
           derived == Candidates(Boundaries)
<1>1. /\ values = IF cap = 0 THEN derived ELSE RankSpaced(derived, cap)
      /\ exhaustive <=> ~(overflowed \/ (cap # 0 /\ Len(derived) > cap))
      /\ overflowed \in BOOLEAN /\ cap \in Nat
      /\ cap = 0 => overflowed = FALSE
      /\ overflowed = TRUE => Cardinality(Observed) > cap
  BY ShapeFacts DEF DerivationInv, InputTypes, SampleInv, OutcomeInv, Truncated
<1>2. /\ Len(exact) \in Nat /\ Len(derived) \in Nat
      /\ Cardinality(Observed) \in Nat /\ Cardinality(Observed) <= Len(exact)
  <2>1. Observed \in SUBSET NonNegative /\ IsFiniteSet(Observed)
    BY ObservedIsFinite DEF DerivationInv
  <2> QED
    BY <2>1, BoundariesAreObserved, CandidatesAreMany
<1>3. overflowed = FALSE => derived = exact
  BY WholeStream
<1> HIDE DEF exact, derived
<1>4. exhaustive => values = exact /\ (cap = 0 \/ Len(exact) <= cap)
  <2> SUFFICES ASSUME exhaustive PROVE values = exact /\ (cap = 0 \/ Len(exact) <= cap)
    OBVIOUS
  <2>1. overflowed = FALSE /\ derived = exact /\ (cap = 0 \/ ~(Len(derived) > cap))
    BY <1>1, <1>3
  <2>2. cap = 0 \/ Len(derived) <= cap
    BY <1>1, <1>2, <2>1
  <2> QED
    BY <1>1, <2>1, <2>2 DEF RankSpaced
<1>5. (cap = 0 \/ Len(exact) <= cap) => exhaustive
  <2>1. CASE cap = 0
    BY <1>1, <2>1
  <2>2. CASE cap # 0 /\ Len(exact) <= cap
    <3>1. ~(Cardinality(Observed) > cap)
      BY <1>1, <1>2, <2>2
    <3>2. overflowed = FALSE
      BY <1>1, <3>1
    <3>3. ~(Len(derived) > cap)
      BY <1>1, <1>2, <1>3, <2>2, <3>2
    <3> QED
      BY <1>1, <3>2, <3>3
  <2> QED
    BY <2>1, <2>2
<1> QED
  BY <1>4, <1>5 DEF exact

\* The extremes bound what the sample has lost.
LEMMA EndsFollow == ASSUME DerivationInv PROVE SearchKeepsBothEnds
<1> SUFFICES ASSUME Derived
             PROVE  /\ IsCandidateSet(values)
                    /\ cap # 0 => Len(values) <= cap
                    /\ values[1] = Zero
                    /\ \A root \in Observed : Below(root, values[Len(values)])
  BY DEF SearchKeepsBothEnds
<1> DEFINE D == Spread(Boundaries)
           derived == Candidates(Boundaries)
           T == Past(Boundary(Boundaries)[Len(Boundary(Boundaries))])
<1>1. /\ D \in SUBSET NonNegative /\ IsFiniteSet(D) /\ Sorted(derived, D)
      /\ \A r \in Boundaries : Below(r, T)
      /\ Zero \in D /\ T \in D
  BY BoundariesAreObserved, CandidatesAreSorted DEF Spread
<1>2. values = IF cap = 0 THEN derived ELSE RankSpaced(derived, cap)
  BY DEF DerivationInv, OutcomeInv
<1> HIDE DEF D, derived, T
<1>3. /\ Len(derived) \in Nat \ {0} /\ derived[1] = Zero /\ derived \in Seq(D)
      /\ \A a \in D : a = derived[Len(derived)] \/ Below(a, derived[Len(derived)])
      /\ \A i, j \in 1 .. Len(derived) : i < j => Below(derived[i], derived[j])
      /\ derived[Len(derived)] \in D
  <2>1. /\ Len(derived) \in Nat \ {0} /\ derived[1] = Zero
        /\ \A i \in 1 .. Len(derived) : derived[i] \in D
        /\ \A a \in D : a = derived[Len(derived)] \/ Below(a, derived[Len(derived)])
    BY <1>1, SortedEnds
  <2>2. Len(derived) \in 1 .. Len(derived)
    BY <2>1
  <2> QED
    BY <1>1, <2>1, <2>2 DEF Sorted
<1>4. cap \in Nat /\ (cap # 0 => cap \in Nat \ {0, 1})
  BY ShapeFacts DEF DerivationInv, InputTypes
<1>5. /\ values \in Seq(D) /\ Len(values) \in Nat \ {0}
      /\ \A i \in 1 .. Len(values) - 1 : Below(values[i], values[i + 1])
      /\ cap # 0 => Len(values) <= cap
      /\ values[1] = Zero /\ values[Len(values)] = derived[Len(derived)]
  <2>1. CASE cap = 0 \/ Len(derived) <= cap
    <3>1. values = derived
      BY <1>2, <2>1 DEF RankSpaced
    <3>2. \A i \in 1 .. Len(derived) - 1 :
              i \in 1 .. Len(derived) /\ i + 1 \in 1 .. Len(derived) /\ i < i + 1
      BY <1>3
    <3> QED
      BY <1>3, <2>1, <3>1, <3>2
  <2>2. CASE cap # 0 /\ ~(Len(derived) <= cap)
    <3>1. values = RankSpaced(derived, cap) /\ Len(derived) > cap /\ cap \in Nat \ {0, 1}
      BY <1>2, <1>3, <1>4, <2>2
    <3>2. /\ values \in Seq(D) /\ Len(values) = cap
          /\ values[1] = derived[1] /\ values[Len(values)] = derived[Len(derived)]
          /\ \A i \in 1 .. Len(values) - 1 : Below(values[i], values[i + 1])
      BY <1>1, <1>3, <3>1, ThinnedKeepsEnds
    <3> QED
      BY <1>3, <3>1, <3>2
  <2> QED
    BY <2>1, <2>2
<1>6. ASSUME NEW root \in Observed PROVE Below(root, values[Len(values)])
  <2> DEFINE last == derived[Len(derived)]
  <2>1. PICK hi \in extremes : ~Below(hi, root)
    BY DEF DerivationInv, EndsInv
  <2>2. hi \in Boundaries /\ hi \in NonNegative /\ root \in NonNegative
    BY BoundariesAreObserved, ObservedIsFinite DEF Boundaries, DerivationInv
  <2>3. hi \in Fractions /\ root \in Fractions /\ T \in Fractions /\ last \in Fractions
    BY <1>1, <1>3, <2>2 DEF NonNegative
  <2>4. Below(hi, T) /\ (T = last \/ Below(T, last))
    BY <1>1, <1>3, <2>2
  <2> HIDE DEF last
  <2>5. Below(hi, last)
    BY <2>3, <2>4, BelowOrders
  <2>6. root = hi \/ Below(root, hi)
    BY <2>1, <2>3, BelowOrders
  <2>7. Below(root, last)
    BY <2>3, <2>5, <2>6, BelowOrders
  <2> QED
    BY <1>5, <2>7 DEF last
<1>7. IsCandidateSet(values)
  <2>1. \A i \in DOMAIN values : ~Below(values[i], Zero)
    <3> SUFFICES ASSUME NEW i \in DOMAIN values PROVE ~Below(values[i], Zero)
      OBVIOUS
    <3>1. values[i] \in NonNegative
      BY <1>1, <1>5
    <3> QED
      BY <3>1 DEF NonNegative, Fractions, Below, Zero
  <2> QED
    BY <1>5, <2>1 DEF IsCandidateSet
<1> QED
  BY <1>5, <1>6, <1>7

-----------------------------------------------------------------------------
(* The preflight: what it counts of the menus bounds the stream.            *)

PairsOf(n) == (n * (n - 1)) \div 2
CostsOf(offers) == {offers[m].cost : m \in Models}
AtCost(offers, T, cost) == {m \in T : offers[m].cost = cost}
ClassPairs(offers, T) == [cost \in CostsOf(offers) |-> PairsOf(Cardinality(AtCost(offers, T, cost)))]
UnequalPairs(offers, T) ==
    {p \in T \X T : p[1] < p[2] /\ offers[p[1]].cost # offers[p[2]].cost}

\* The pairs a further model makes: one with each there was.
LEMMA PairsOfMore ==
    ASSUME NEW n \in Nat
    PROVE  PairsOf(n) \in Nat /\ PairsOf(n + 1) = PairsOf(n) + n
<1> DEFINE x == n * (n - 1)
<1>1. x \in Nat
  <2>1. CASE n = 0
    BY <2>1
  <2>2. CASE n # 0
    <3>1. n - 1 \in Nat
      BY <2>2
    <3> QED
      BY <3>1
  <2> QED
    BY <2>1, <2>2
<1>2. (n + 1) * ((n + 1) - 1) = x + 2 * n
  OBVIOUS
<1> HIDE DEF x
<1>3. x \div 2 \in Nat /\ (x + 2 * n) \div 2 = x \div 2 + n
  BY <1>1
<1> QED
  BY <1>2, <1>3 DEF PairsOf, x

\* The models, and their costs, are finitely many.
LEMMA CostsAreFinite ==
    ASSUME NEW offers \in [Models -> Offers]
    PROVE  /\ IsFiniteSet(Models) /\ Cardinality(Models) = NModels /\ NModels \in Nat
           /\ IsFiniteSet(CostsOf(offers))
           /\ \A T \in SUBSET Models, cost \in CostsOf(offers) :
                /\ IsFiniteSet(AtCost(offers, T, cost))
                /\ Cardinality(AtCost(offers, T, cost)) \in Nat
           /\ \A T \in SUBSET Models :
                DOMAIN ClassPairs(offers, T) = CostsOf(offers) /\ NatValued(ClassPairs(offers, T))
<1>1. IsFiniteSet(Models) /\ Cardinality(Models) = NModels /\ NModels \in Nat
  BY ShapeAssumption, FS_Interval DEF Models
<1>2. IsFiniteSet(CostsOf(offers))
  <2> DEFINE f == [m \in Models |-> offers[m].cost]
  <2>1. DOMAIN f = Models /\ CostsOf(offers) \subseteq {f[m] : m \in Models}
    BY DEF CostsOf
  <2> HIDE DEF f
  <2> QED
    BY <1>1, <2>1, ImageIsBounded
<1>3. \A T \in SUBSET Models, cost \in CostsOf(offers) :
          /\ IsFiniteSet(AtCost(offers, T, cost))
          /\ Cardinality(AtCost(offers, T, cost)) \in Nat
  <2> TAKE T \in SUBSET Models, cost \in CostsOf(offers)
  <2>1. AtCost(offers, T, cost) \in SUBSET Models
    BY DEF AtCost
  <2> QED
    BY <1>1, <2>1, FS_Subset, FS_CardinalityType
<1>4. \A T \in SUBSET Models :
          DOMAIN ClassPairs(offers, T) = CostsOf(offers) /\ NatValued(ClassPairs(offers, T))
  BY <1>3, PairsOfMore DEF ClassPairs, NatValued
<1> QED
  BY <1>1, <1>2, <1>3, <1>4

\* One more model adds a pair of unequal cost with each model of another cost, at most.
LEMMA UnequalPairsOfMore ==
    ASSUME NEW offers, NEW T \in SUBSET Models, IsFiniteSet(T), NEW x \in Models \ T,
           IsFiniteSet(UnequalPairs(offers, T))
    PROVE  /\ IsFiniteSet(UnequalPairs(offers, T \cup {x}))
           /\ Cardinality(UnequalPairs(offers, T \cup {x}))
                <= Cardinality(UnequalPairs(offers, T)) + Cardinality(T)
                     - Cardinality(AtCost(offers, T, offers[x].cost))
<1> DEFINE A == AtCost(offers, T, offers[x].cost)
           B == T \ A
           Old == UnequalPairs(offers, T)
           All == UnequalPairs(offers, T \cup {x})
           f == [m \in B |-> IF m < x THEN <<m, x>> ELSE <<x, m>>]
           New == {f[m] : m \in B}
<1>1. A \in SUBSET T
  BY DEF AtCost
<1>2. IsFiniteSet(A) /\ IsFiniteSet(B) /\ Cardinality(B) = Cardinality(T) - Cardinality(A)
  <2>1. T \cap A = A
    BY <1>1
  <2> HIDE DEF A
  <2>2. IsFiniteSet(A)
    BY <1>1, FS_Subset
  <2>3. IsFiniteSet(B) /\ Cardinality(B) = Cardinality(T) - Cardinality(T \cap A)
    BY FS_Difference
  <2> QED
    BY <2>1, <2>2, <2>3
<1>3. All \subseteq Old \cup New
  <2> SUFFICES ASSUME NEW p \in All, p \notin Old PROVE p \in New
    OBVIOUS
  <2>1. /\ p \in (T \cup {x}) \X (T \cup {x}) /\ p = <<p[1], p[2]>>
        /\ p[1] \in T \cup {x} /\ p[2] \in T \cup {x}
        /\ p[1] < p[2] /\ offers[p[1]].cost # offers[p[2]].cost
    BY DEF UnequalPairs
  <2>2. p[1] \in Int /\ p[2] \in Int /\ p[1] # p[2]
    BY <2>1 DEF Models
  <2>3. ~(p[1] \in T /\ p[2] \in T)
    BY <2>1 DEF UnequalPairs
  <2>4. CASE p[2] = x
    <3>1. p[1] \in B /\ f[p[1]] = p
      BY <2>1, <2>2, <2>3, <2>4 DEF AtCost
    <3> QED
      BY <3>1
  <2>5. CASE p[1] = x
    <3>1. ~(p[2] < x)
      BY <2>1, <2>2, <2>5
    <3>2. p[2] \in B /\ f[p[2]] = p
      BY <2>1, <2>2, <2>3, <2>5, <3>1 DEF AtCost
    <3> QED
      BY <3>2
  <2> QED
    BY <2>1, <2>3, <2>4, <2>5
<1>4. IsFiniteSet(New) /\ Cardinality(New) <= Cardinality(B)
  <2>1. DOMAIN f = B
    OBVIOUS
  <2> HIDE DEF f, B
  <2> QED
    BY <1>2, <2>1, ImageIsBounded
<1> HIDE DEF A, B, Old, All, New, f
<1>5. /\ IsFiniteSet(Old \cup New)
      /\ Cardinality(Old \cup New) = Cardinality(Old) + Cardinality(New) - Cardinality(Old \cap New)
      /\ IsFiniteSet(Old \cap New)
  BY <1>4, FS_Union, FS_Intersection DEF Old
<1>6. All \in SUBSET (Old \cup New)
  BY <1>3
<1>7. IsFiniteSet(All) /\ Cardinality(All) <= Cardinality(Old \cup New)
  BY <1>5, <1>6, FS_Subset
<1>8. /\ Cardinality(All) \in Nat /\ Cardinality(Old) \in Nat /\ Cardinality(New) \in Nat
      /\ Cardinality(Old \cap New) \in Nat /\ Cardinality(A) \in Nat /\ Cardinality(T) \in Nat
      /\ Cardinality(B) \in Nat /\ Cardinality(Old \cup New) \in Nat
  BY <1>2, <1>4, <1>5, <1>7, FS_CardinalityType DEF Old
<1>9. Cardinality(All) <= Cardinality(Old) + Cardinality(T) - Cardinality(A)
  BY <1>2, <1>4, <1>5, <1>7, <1>8
<1> QED
  BY <1>7, <1>9 DEF A, Old, All

\* The pairs of equal cost and those of unequal cost are all pairs, at most.
LEMMA UnequalPairsAreFew ==
    ASSUME NEW offers \in [Models -> Offers]
    PROVE  /\ EqualCostPairs(offers) \in Nat /\ PairsOf(NModels) \in Nat
           /\ IsFiniteSet(UnequalPairs(offers, Models))
           /\ Cardinality(UnequalPairs(offers, Models)) <= PairsOf(NModels) - EqualCostPairs(offers)
           /\ PairsOf(NModels) - EqualCostPairs(offers) \in Nat
<1> DEFINE equal(T) == SumOf(ClassPairs(offers, T))
           unequal(T) == Cardinality(UnequalPairs(offers, T))
           Good == {T \in SUBSET Models : /\ IsFiniteSet(UnequalPairs(offers, T))
                                          /\ unequal(T) + equal(T) <= PairsOf(Cardinality(T))}
<1>1. /\ IsFiniteSet(Models) /\ Cardinality(Models) = NModels /\ NModels \in Nat
      /\ IsFiniteSet(CostsOf(offers))
      /\ \A T \in SUBSET Models, cost \in CostsOf(offers) :
           /\ IsFiniteSet(AtCost(offers, T, cost))
           /\ Cardinality(AtCost(offers, T, cost)) \in Nat
      /\ \A T \in SUBSET Models :
           DOMAIN ClassPairs(offers, T) = CostsOf(offers) /\ NatValued(ClassPairs(offers, T))
  BY CostsAreFinite
<1>2. \A T \in SUBSET Models : equal(T) \in Nat
  BY <1>1, SumIsNat
<1>3. {} \in Good
  <2>1. UnequalPairs(offers, {}) = {}
    BY DEF UnequalPairs
  <2>2. unequal({}) = 0 /\ IsFiniteSet(UnequalPairs(offers, {}))
    BY <2>1, FS_EmptySet
  <2>3. ClassPairs(offers, {}) = [cost \in CostsOf(offers) |-> 0]
    <3>1. \A cost \in CostsOf(offers) : AtCost(offers, {}, cost) = {}
      BY DEF AtCost
    <3>2. Cardinality({}) = 0 /\ PairsOf(0) = 0
      BY FS_EmptySet DEF PairsOf
    <3> QED
      BY <3>1, <3>2 DEF ClassPairs
  <2>4. equal({}) = 0
    <3>1. equal({}) = Cardinality(CostsOf(offers)) * 0
      BY <1>1, <2>3, SumOfConstant
    <3> QED
      BY <1>1, <3>1, FS_CardinalityType
  <2>5. PairsOf(Cardinality({})) = 0
    BY FS_EmptySet DEF PairsOf
  <2> HIDE DEF equal, unequal
  <2>6. unequal({}) + equal({}) <= PairsOf(Cardinality({}))
    BY <2>2, <2>4, <2>5
  <2> QED
    BY <2>2, <2>6
<1>4. ASSUME NEW T \in Good, NEW x \in Models \ T PROVE T \cup {x} \in Good
  <2> DEFINE U == T \cup {x}
             c == offers[x].cost
             same == Cardinality(AtCost(offers, T, c))
  <2>1. /\ T \in SUBSET Models /\ IsFiniteSet(T) /\ IsFiniteSet(UnequalPairs(offers, T))
        /\ unequal(T) + equal(T) <= PairsOf(Cardinality(T))
        /\ U \in SUBSET Models
    BY <1>1, FS_Subset
  <2>2. c \in CostsOf(offers) /\ same \in Nat
    <3>1. c \in CostsOf(offers)
      BY DEF CostsOf
    <3> QED
      BY <1>1, <2>1, <3>1
  <2>3. IsFiniteSet(UnequalPairs(offers, U)) /\ unequal(U) <= unequal(T) + Cardinality(T) - same
    BY <2>1, UnequalPairsOfMore
  <2>4. unequal(U) \in Nat /\ unequal(T) \in Nat
    BY <2>1, <2>3, FS_CardinalityType
  <2>5. Cardinality(T) \in Nat /\ Cardinality(U) = Cardinality(T) + 1
    BY <2>1, FS_AddElement, FS_CardinalityType
  <2>6. PairsOf(Cardinality(U)) = PairsOf(Cardinality(T)) + Cardinality(T)
        /\ PairsOf(Cardinality(T)) \in Nat
    BY <2>5, PairsOfMore
  <2>7. equal(U) = equal(T) + same
    <3> DEFINE before == ClassPairs(offers, T)
               after == ClassPairs(offers, U)
    <3>1. /\ DOMAIN before = CostsOf(offers) /\ NatValued(before)
          /\ DOMAIN after = CostsOf(offers) /\ NatValued(after)
      BY <1>1, <2>1
    <3>2. after[c] = before[c] + same
      <4>1. AtCost(offers, U, c) = AtCost(offers, T, c) \cup {x} /\ x \notin AtCost(offers, T, c)
        BY DEF AtCost
      <4>2. IsFiniteSet(AtCost(offers, T, c))
        BY <1>1, <2>1, <2>2
      <4>3. Cardinality(AtCost(offers, U, c)) = same + 1
        BY <4>1, <4>2, FS_AddElement
      <4>4. before[c] = PairsOf(same) /\ after[c] = PairsOf(Cardinality(AtCost(offers, U, c)))
        BY <2>2 DEF ClassPairs
      <4> HIDE DEF same, before, after
      <4> QED
        BY <2>2, <4>3, <4>4, PairsOfMore
    <3>3. \A k \in CostsOf(offers) \ {c} : after[k] = before[k]
      <4> TAKE k \in CostsOf(offers) \ {c}
      <4>1. AtCost(offers, U, k) = AtCost(offers, T, k)
        BY DEF AtCost
      <4> QED
        BY <4>1 DEF ClassPairs
    <3> HIDE DEF before, after, same
    <3>4. SumOf(after) = SumOf(before) + same
      BY <1>1, <2>2, <3>1, <3>2, <3>3, SumOfRaised
    <3> QED
      BY <3>4 DEF before, after
  <2>8. equal(U) \in Nat /\ equal(T) \in Nat
    BY <1>2, <2>1
  <2> HIDE DEF equal, unequal, same, U
  <2>9. unequal(U) + equal(U) <= PairsOf(Cardinality(U))
    BY <2>1, <2>2, <2>3, <2>4, <2>5, <2>6, <2>7, <2>8
  <2> QED
    BY <2>1, <2>3, <2>9 DEF U
<1>5. Good \in SUBSET SUBSET Models
  OBVIOUS
<1>6. Models \in Good
  <2> HIDE DEF Good
  <2> QED
    BY <1>1, <1>3, <1>4, <1>5, SetInduction
<1>7. EqualCostPairs(offers) = equal(Models)
  BY DEF EqualCostPairs, ClassPairs, CostsOf, AtCost, PairsOf
<1>8. PairsOf(NModels) \in Nat
  BY <1>1, PairsOfMore
<1>9. equal(Models) \in Nat /\ unequal(Models) \in Nat /\ IsFiniteSet(UnequalPairs(offers, Models))
  BY <1>2, <1>6, FS_CardinalityType
<1>10. unequal(Models) + equal(Models) <= PairsOf(NModels)
  BY <1>1, <1>6
<1> HIDE DEF equal, unequal
<1> QED
  BY <1>7, <1>8, <1>9, <1>10 DEF unequal

\* All that is ever streamed is within what the preflight counts of the menus.
LEMMA StreamIsBounded ==
    ASSUME InputTypes
    PROVE  /\ IsFiniteSet(streamed) /\ Cardinality(streamed) \in Nat /\ UnequalCostPairs \in Nat
           /\ Cardinality(streamed) <= UnequalCostPairs
<1> DEFINE f == [e \in Examples |-> PairsOf(NModels) - EqualCostPairs(menu[e])]
           pairs(e) == UnequalPairs(menu[e], Models)
           part == [e \in Examples |-> {<<e, p[1], p[2]>> : p \in pairs(e)}]
           all == UNION {part[e] : e \in Examples}
<1>1. IsFiniteSet(Examples)
  BY ShapeAssumption, FS_Interval DEF Examples
<1>2. \A e \in Examples : menu[e] \in [Models -> Offers]
  BY DEF InputTypes
<1>3. \A e \in Examples : /\ IsFiniteSet(pairs(e)) /\ f[e] \in Nat /\ Cardinality(pairs(e)) <= f[e]
  BY <1>2, UnequalPairsAreFew
<1>4. DOMAIN f = Examples /\ NatValued(f) /\ UnequalCostPairs = SumOf(f)
  BY <1>3 DEF NatValued, UnequalCostPairs, PairsOf
<1>5. \A e \in Examples : IsFiniteSet(part[e]) /\ Cardinality(part[e]) <= f[e]
  <2> SUFFICES ASSUME NEW e \in Examples
               PROVE  IsFiniteSet(part[e]) /\ Cardinality(part[e]) <= f[e]
    OBVIOUS
  <2> DEFINE S == pairs(e)
             g == [p \in S |-> <<e, p[1], p[2]>>]
             P == part[e]
             n == f[e]
  <2>1. DOMAIN g = S /\ P \subseteq {g[p] : p \in S}
    OBVIOUS
  <2>2. IsFiniteSet(S) /\ Cardinality(S) <= n /\ n \in Nat
    BY <1>3
  <2> HIDE DEF S, g, P, n
  <2>3. IsFiniteSet(P) /\ Cardinality(P) <= Cardinality(S)
    BY <2>1, <2>2, ImageIsBounded
  <2>4. IsFiniteSet(P) /\ Cardinality(P) <= n
    BY <2>2, <2>3, FS_CardinalityType
  <2> QED
    BY <2>4 DEF P, n
<1>6. streamed \in SUBSET all
  <2> SUFFICES ASSUME NEW c \in streamed PROVE c \in all
    OBVIOUS
  <2>1. c \in Comparisons /\ CostGap(c) # 0
    BY DEF InputTypes, Crossings
  <2>2. /\ c = <<c[1], c[2], c[3]>> /\ c[1] \in Examples /\ c[2] \in Models /\ c[3] \in Models
        /\ c[2] < c[3]
    BY <2>1 DEF Comparisons
  <2>3. menu[c[1]][c[2]].cost # menu[c[1]][c[3]].cost
    <3>1. menu[c[1]][c[2]].cost \in Int /\ menu[c[1]][c[3]].cost \in Int
      BY <2>1, GapTypes, ShapeFacts
    <3> QED
      BY <2>1, <3>1 DEF CostGap
  <2>4. <<c[2], c[3]>> \in pairs(c[1])
    BY <2>2, <2>3 DEF UnequalPairs
  <2>5. c \in part[c[1]]
    BY <2>2, <2>4
  <2> HIDE DEF part
  <2> QED
    BY <2>2, <2>5
<1>7. IsFiniteSet(all) /\ Cardinality(all) <= SumOf([e \in Examples |-> f[e]])
  <2>1. DOMAIN part = Examples
    OBVIOUS
  <2> HIDE DEF part, f
  <2> QED
    BY <1>1, <1>4, <1>5, <2>1, UnionIsBounded
<1>8. [e \in Examples |-> f[e]] = f
  OBVIOUS
<1>9. SumOf(f) \in Nat
  BY <1>1, <1>4, SumIsNat
<1> HIDE DEF all, f
<1>10. IsFiniteSet(streamed) /\ Cardinality(streamed) <= Cardinality(all)
  BY <1>6, <1>7, FS_Subset
<1> QED
  BY <1>4, <1>7, <1>8, <1>9, <1>10, FS_CardinalityType

\* The candidates are two for every boundary at most, with zero among the boundaries.
LEMMA CandidatesAreFew ==
    ASSUME NEW roots \in SUBSET NonNegative, IsFiniteSet(roots)
    PROVE  Len(Candidates(roots)) <= 2 * (Cardinality(roots) + 1)
<1> DEFINE S == {Zero} \cup roots
           b == Boundary(roots)
           n == Len(b)
           k == Cardinality(roots)
           T == {Past(b[n])}
           M == Middles(b)
<1>1. IsFiniteSet(S) /\ Sorted(b, S)
  BY BoundaryIsSorted
<1>2. k \in Nat
  BY FS_CardinalityType
<1>3. Cardinality(S) <= 1 + k
  <2> DEFINE Z == {Zero}
  <2>1. IsFiniteSet(Z) /\ Cardinality(Z) = 1
    BY FS_Singleton
  <2> HIDE DEF Z
  <2>2. Cardinality(Z) <= 1 /\ 1 \in Nat /\ Cardinality(roots) <= k
    BY <1>2, <2>1
  <2> HIDE DEF k
  <2>3. Cardinality(Z \cup roots) <= 1 + k
    BY <1>2, <2>1, <2>2, BothAreBounded
  <2> QED
    BY <2>3 DEF Z
<1>4. n = Cardinality(S) /\ n \in Nat \ {0}
  <2>1. n = Cardinality(S)
    BY <1>1 DEF Sorted
  <2>2. Cardinality(S) \in Nat /\ (Cardinality(S) = 0 <=> S = {})
    BY <1>1, FS_CardinalityType, FS_EmptySet
  <2>3. Zero \in S
    OBVIOUS
  <2> HIDE DEF n, S
  <2> QED
    BY <2>1, <2>2, <2>3
<1> HIDE DEF n, S
<1>5. IsFiniteSet(M) /\ Cardinality(M) <= n - 1
  <2> DEFINE f == [i \in 1 .. n - 1 |-> Midpoint(b[i], b[i + 1])]
  <2>1. DOMAIN f = 1 .. n - 1 /\ M \subseteq {f[i] : i \in 1 .. n - 1}
    BY DEF Middles, n
  <2>2. IsFiniteSet(1 .. n - 1) /\ Cardinality(1 .. n - 1) = n - 1
    <3> DEFINE m == n - 1
    <3>1. 1 \in Int /\ m \in Nat
      BY <1>4
    <3> HIDE DEF m
    <3>2. m \in Int /\ (IF 1 > m THEN 0 ELSE m - 1 + 1) = m
      BY <3>1
    <3>3. IsFiniteSet(1 .. m) /\ Cardinality(1 .. m) = IF 1 > m THEN 0 ELSE m - 1 + 1
      BY <3>1, <3>2, FS_Interval
    <3>4. IsFiniteSet(1 .. m) /\ Cardinality(1 .. m) = m
      BY <3>2, <3>3
    <3> QED
      BY <3>4 DEF m
  <2> HIDE DEF f, M
  <2>3. IsFiniteSet(M) /\ Cardinality(M) <= Cardinality(1 .. n - 1)
    BY <2>1, <2>2, ImageIsBounded
  <2> QED
    BY <2>2, <2>3
<1>6. IsFiniteSet(T) /\ Cardinality(T) <= 1
  <2>1. IsFiniteSet(T) /\ Cardinality(T) = 1
    BY FS_Singleton
  <2> HIDE DEF T
  <2> QED
    BY <2>1
<1> HIDE DEF T, M
<1>7. IsFiniteSet(S \cup M) /\ Cardinality(S \cup M) <= n + (n - 1)
  <2>1. Cardinality(S) <= n /\ n \in Nat /\ n - 1 \in Nat
    BY <1>4
  <2> QED
    BY <1>1, <1>5, <2>1, BothAreBounded
<1>8. Cardinality((S \cup M) \cup T) <= (n + (n - 1)) + 1
  <2>1. n + (n - 1) \in Nat
    BY <1>4
  <2> QED
    BY <1>6, <1>7, <2>1, BothAreBounded
<1>9. Spread(roots) = (S \cup M) \cup T
  BY DEF Spread, S, M, T, n
<1>10. Len(Candidates(roots)) = Cardinality(Spread(roots))
  BY CandidatesAreSorted DEF Sorted
<1>11. Cardinality((S \cup M) \cup T) \in Nat
  BY <1>6, <1>7, FS_Union, FS_CardinalityType
<1> HIDE DEF k
<1>12. Cardinality((S \cup M) \cup T) <= 2 * (k + 1)
  BY <1>2, <1>3, <1>4, <1>8, <1>11
<1> QED
  BY <1>9, <1>10, <1>12 DEF k

\* The boundaries are roots of the stream, so there are no more than comparisons.
LEMMA PreflightFollows == ASSUME DerivationInv PROVE PreflightBoundsTheWork
<1> DEFINE few == UnequalCostPairs
           derived == Candidates(Boundaries)
<1>1. /\ IsFiniteSet(streamed) /\ Cardinality(streamed) \in Nat /\ few \in Nat
      /\ Cardinality(streamed) <= few
  BY StreamIsBounded DEF DerivationInv
<1>2. Cardinality(Boundaries) \in Nat /\ Cardinality(Boundaries) <= Cardinality(streamed)
  <2> DEFINE f == [c \in streamed |-> Root(c)]
  <2>1. DOMAIN f = streamed /\ Boundaries \subseteq {f[c] : c \in streamed}
    BY BoundariesAreObserved DEF Observed
  <2> HIDE DEF f
  <2> QED
    BY <1>1, <2>1, ImageIsBounded, FS_CardinalityType
<1>3. Len(derived) \in Nat /\ Len(derived) <= 2 * (Cardinality(Boundaries) + 1)
  BY BoundariesAreObserved, CandidatesAreMany, CandidatesAreFew
<1> HIDE DEF few, derived
<1>4. DerivedBound = 2 * (few + 1)
  BY DEF DerivedBound, few
<1>5. DerivedBound \in Nat /\ Len(derived) <= DerivedBound
  BY <1>1, <1>2, <1>3, <1>4
<1>6. ASSUME Derived PROVE Len(values) <= CandidateBound
  <2>1. values = IF cap = 0 THEN derived ELSE RankSpaced(derived, cap)
    BY <1>6 DEF DerivationInv, OutcomeInv, derived
  <2>2. cap \in Nat
    BY ShapeFacts DEF DerivationInv, InputTypes
  <2>3. CASE cap = 0
    BY <1>5, <2>1, <2>3 DEF CandidateBound
  <2>4. CASE cap # 0
    <3>1. Len(values) <= cap
      BY <1>6, <2>4, EndsFollow DEF SearchKeepsBothEnds
    <3>2. Len(values) \in Nat /\ Len(values) <= Len(derived)
      <4>1. CASE Len(derived) <= cap
        BY <1>3, <2>1, <2>4, <4>1 DEF RankSpaced
      <4>2. CASE ~(Len(derived) <= cap)
        <5>1. /\ cap \in Nat \ {0, 1} /\ Len(derived) > cap
              /\ Boundaries \in SUBSET NonNegative /\ IsFiniteSet(Boundaries)
          BY <1>3, <2>2, <2>4, <4>2, ShapeFacts, BoundariesAreObserved
             DEF DerivationInv, InputTypes
        <5>2. /\ Spread(Boundaries) \in SUBSET NonNegative
              /\ Sorted(derived, Spread(Boundaries))
          BY <5>1, CandidatesAreSorted DEF derived
        <5>3. Len(RankSpaced(derived, cap)) = cap
          BY <5>1, <5>2, ThinnedKeepsEnds DEF Sorted
        <5> QED
          BY <1>3, <2>1, <2>2, <2>4, <5>1, <5>3
      <4> QED
        BY <4>1, <4>2
    <3>3. Len(values) <= DerivedBound
      BY <1>3, <1>5, <3>2
    <3>4. CandidateBound = DerivedBound \/ CandidateBound = cap
      <4>1. CandidateBound = Min({DerivedBound, cap})
        BY <2>4 DEF CandidateBound
      <4> DEFINE S == {DerivedBound, cap}
      <4>2. S \in SUBSET Nat /\ S # {}
        BY <1>5, <2>2
      <4> HIDE DEF S
      <4>3. Min(S) \in S
        BY <4>2, MinIsLeast
      <4> QED
        BY <4>1, <4>3 DEF S
    <3> QED
      BY <3>1, <3>3, <3>4
  <2> QED
    BY <2>3, <2>4
<1> QED
  BY <1>1, <1>5, <1>6 DEF PreflightBoundsTheWork, few, derived

\* The heap of _bounded_candidates always holds the roots with the smallest digests
\* of all it has seen, in whatever order and however often they were streamed.
THEOREM SampleIsLowest == DerivationSpec => []SampleIsBottomHash
  BY DerivationInductive, SampleFollows, PTL

\* derive_lambda_candidate_set says exhaustive exactly if the complete set was kept.
THEOREM LabelsAreTruthful == DerivationSpec => []LabelIsTruthful
  BY DerivationInductive, LabelFollows, PTL

\* Whatever _rank_spaced drops, zero and a value past every crossing stay.
THEOREM EndsAreKept == DerivationSpec => []SearchKeepsBothEnds
  BY DerivationInductive, EndsFollow, PTL

\* What preflight_lambda_search counts of the menus bounds the stream, the boundaries
\* and the candidates, for any menus and any number of models and examples.
THEOREM PreflightIsABound == DerivationSpec => []PreflightBoundsTheWork
  BY DerivationInductive, PreflightFollows, PTL

-----------------------------------------------------------------------------
(* One choice: lambdas with the same roots on either side choose alike.     *)

\* A finite set under a strict total order has a first element.
LEMMA FirstExists ==
    ASSUME NEW S, IsFiniteSet(S), S # {}, NEW R,
           \A a \in S : <<a, a>> \notin R,
           \A a, b \in S : a = b \/ <<a, b>> \in R \/ <<b, a>> \in R,
           \A a, b, c \in S : <<a, b>> \in R /\ <<b, c>> \in R => <<a, c>> \in R
    PROVE  \E a \in S : \A b \in S \ {a} : <<a, b>> \in R
<1> DEFINE Prior(a) == {b \in S : <<b, a>> \in R}
           counts == {Cardinality(Prior(a)) : a \in S}
<1>1. \A a \in S : IsFiniteSet(Prior(a)) /\ Cardinality(Prior(a)) \in Nat
  <2> TAKE a \in S
  <2>1. Prior(a) \in SUBSET S
    OBVIOUS
  <2> HIDE DEF Prior
  <2> QED
    BY <2>1, FS_Subset, FS_CardinalityType
<1>2. PICK a \in S : \A b \in S : Cardinality(Prior(a)) <= Cardinality(Prior(b))
  <2> HIDE DEF Prior
  <2>1. counts \in SUBSET Nat /\ counts # {}
    BY <1>1
  <2>2. PICK n \in counts : \A m \in counts : n <= m
    <3> HIDE DEF counts
    <3> QED
      BY <2>1, LeastElement
  <2> QED
    BY <2>2
<1>3. ASSUME NEW b \in S \ {a}, <<a, b>> \notin R PROVE FALSE
  <2>1. <<b, a>> \in R
    BY <1>3
  <2>2. b \in Prior(a) /\ b \notin Prior(b) /\ Prior(b) \in SUBSET Prior(a)
    BY <2>1
  <2> HIDE DEF Prior
  <2>3. Prior(b) \in SUBSET (Prior(a) \ {b})
    BY <2>2
  <2>4. IsFiniteSet(Prior(a) \ {b}) /\ Cardinality(Prior(a) \ {b}) = Cardinality(Prior(a)) - 1
    BY <1>1, <2>2, FS_RemoveElement
  <2>5. Cardinality(Prior(b)) <= Cardinality(Prior(a) \ {b})
    BY <2>3, <2>4, FS_Subset
  <2> QED
    BY <1>1, <1>2, <2>4, <2>5
<1> QED
  BY <1>3

Lambdas == Nat \X (Nat \ {0})

\* The comparison of two utilities as the sign of one number.
Gain(offers, l, m, o) ==
    (offers[m].score - offers[o].score) * l[2] - l[1] * (offers[m].cost - offers[o].cost)

\* min(scored) compares by gain, then cost, then model ID.
LEMMA PreferredByGain ==
    ASSUME NEW offers \in [Models -> Offers], NEW l \in Lambdas,
           NEW m \in Models, NEW o \in Models
    PROVE  /\ Gain(offers, l, m, o) \in Int
           /\ Preferred(offers, l, m, o) <=>
                \/ Gain(offers, l, m, o) > 0
                \/ /\ Gain(offers, l, m, o) = 0
                   /\ \/ offers[m].cost < offers[o].cost
                      \/ offers[m].cost = offers[o].cost /\ m < o
<1> DEFINE s == offers[m].score  t == offers[o].score
           c == offers[m].cost   d == offers[o].cost
<1>1. s \in Int /\ t \in Int /\ c \in Int /\ d \in Int /\ l[1] \in Int /\ l[2] \in Int
  BY ShapeFacts DEF Lambdas
<1>2. Gain(offers, l, m, o) = (s - t) * l[2] - l[1] * (c - d)
  BY DEF Gain
<1>3. Preferred(offers, l, m, o) <=>
        \/ s * l[2] - l[1] * c > t * l[2] - l[1] * d
        \/ /\ s * l[2] - l[1] * c = t * l[2] - l[1] * d
           /\ (c < d \/ (c = d /\ m < o))
  BY DEF Preferred
<1> HIDE DEF s, t, c, d
<1>4. (s - t) * l[2] - l[1] * (c - d) = (s * l[2] - l[1] * c) - (t * l[2] - l[1] * d)
  BY <1>1
<1>5. s * l[2] - l[1] * c \in Int /\ t * l[2] - l[1] * d \in Int
  BY <1>1
<1> QED
  BY <1>2, <1>3, <1>4, <1>5 DEF c, d

\* Gains add up along a chain of models and change their sign when reversed.
LEMMA GainAdds ==
    ASSUME NEW offers \in [Models -> Offers], NEW l \in Lambdas,
           NEW m \in Models, NEW o \in Models, NEW p \in Models
    PROVE  /\ Gain(offers, l, m, p) = Gain(offers, l, m, o) + Gain(offers, l, o, p)
           /\ Gain(offers, l, o, m) = -Gain(offers, l, m, o)
<1> DEFINE s == offers[m].score  t == offers[o].score  u == offers[p].score
           c == offers[m].cost   d == offers[o].cost   e == offers[p].cost
           x == l[2]             y == l[1]
<1>1. s \in Int /\ t \in Int /\ u \in Int /\ c \in Int /\ d \in Int /\ e \in Int
      /\ x \in Int /\ y \in Int
  BY ShapeFacts DEF Lambdas
<1>2. /\ Gain(offers, l, m, p) = (s - u) * x - y * (c - e)
      /\ Gain(offers, l, m, o) = (s - t) * x - y * (c - d)
      /\ Gain(offers, l, o, p) = (t - u) * x - y * (d - e)
      /\ Gain(offers, l, o, m) = (t - s) * x - y * (d - c)
  BY DEF Gain
<1> HIDE DEF s, t, u, c, d, e, x, y
<1> QED
  BY <1>1, <1>2

\* The order of min(scored) is strict and total.
LEMMA PreferredOrders ==
    ASSUME NEW offers \in [Models -> Offers], NEW l \in Lambdas
    PROVE  /\ \A m \in Models : ~Preferred(offers, l, m, m)
           /\ \A m, o \in Models : m = o \/ Preferred(offers, l, m, o) \/ Preferred(offers, l, o, m)
           /\ \A m, o, p \in Models :
                 Preferred(offers, l, m, o) /\ Preferred(offers, l, o, p)
                     => Preferred(offers, l, m, p)
<1>1. \A m \in Models : offers[m].cost \in Int /\ m \in Int
  BY ShapeFacts, ShapeAssumption DEF Models
<1>2. ASSUME NEW m \in Models PROVE ~Preferred(offers, l, m, m)
  <2>1. Gain(offers, l, m, m) = -Gain(offers, l, m, m) /\ Gain(offers, l, m, m) \in Int
    BY GainAdds, PreferredByGain
  <2> QED
    BY <1>1, <2>1, PreferredByGain
<1>3. ASSUME NEW m \in Models, NEW o \in Models
      PROVE  m = o \/ Preferred(offers, l, m, o) \/ Preferred(offers, l, o, m)
  <2>1. Gain(offers, l, o, m) = -Gain(offers, l, m, o) /\ Gain(offers, l, m, o) \in Int
    BY GainAdds, PreferredByGain
  <2> QED
    BY <1>1, <2>1, PreferredByGain
<1>4. ASSUME NEW m \in Models, NEW o \in Models, NEW p \in Models,
             Preferred(offers, l, m, o), Preferred(offers, l, o, p)
      PROVE  Preferred(offers, l, m, p)
  <2>1. /\ Gain(offers, l, m, p) = Gain(offers, l, m, o) + Gain(offers, l, o, p)
        /\ Gain(offers, l, m, o) \in Int /\ Gain(offers, l, o, p) \in Int
    BY GainAdds, PreferredByGain
  <2> QED
    BY <1>1, <1>4, <2>1, PreferredByGain
<1> QED
  BY <1>2, <1>3, <1>4

Affordable(offers, remaining) == {m \in Models : offers[m].cost <= remaining}

\* The router's choice is the model preferred to every other affordable one.
LEMMA ChoiceIsPreferred ==
    ASSUME NEW offers \in [Models -> Offers], NEW l \in Lambdas, NEW remaining
    PROVE  LET A == Affordable(offers, remaining)
               c == Choice(offers, remaining, l)
           IN  \/ A = {} /\ c = NoChoice
               \/ c \in A /\ \A o \in A \ {c} : Preferred(offers, l, c, o)
<1> DEFINE A == Affordable(offers, remaining)
           R == {p \in Models \X Models : Preferred(offers, l, p[1], p[2])}
<1>1. CASE A = {}
  BY <1>1 DEF Choice, Affordable
<1>2. CASE A # {}
  <2>1. A \in SUBSET Models
    BY DEF Affordable
  <2>2. IsFiniteSet(A)
    <3>1. IsFiniteSet(Models)
      BY ShapeAssumption, FS_Interval DEF Models
    <3> HIDE DEF A
    <3> QED
      BY <2>1, <3>1, FS_Subset
  <2>3. \A m, o \in Models : <<m, o>> \in R <=> Preferred(offers, l, m, o)
    OBVIOUS
  <2> HIDE DEF A, R
  <2>4. /\ \A a \in A : <<a, a>> \notin R
        /\ \A a, b \in A : a = b \/ <<a, b>> \in R \/ <<b, a>> \in R
        /\ \A a, b, c \in A : <<a, b>> \in R /\ <<b, c>> \in R => <<a, c>> \in R
    <3>1. \A a \in A : a \in Models
      BY <2>1
    <3> QED
      BY <2>3, <3>1, PreferredOrders
  <2>5. \E a \in A : \A b \in A \ {a} : <<a, b>> \in R
    BY <1>2, <2>2, <2>4, FirstExists
  <2>6. \E a \in A : \A o \in A \ {a} : Preferred(offers, l, a, o)
    BY <2>1, <2>3, <2>5
  <2>7. Choice(offers, remaining, l) =
            CHOOSE m \in A : \A o \in A \ {m} : Preferred(offers, l, m, o)
    BY <1>2 DEF Choice, A, Affordable
  <2> DEFINE c == Choice(offers, remaining, l)
  <2> HIDE DEF c
  <2>8. c \in A /\ \A o \in A \ {c} : Preferred(offers, l, c, o)
    BY <2>6, <2>7 DEF c
  <2> QED
    BY <2>8 DEF A, c
<1> QED
  BY <1>1, <1>2

\* At a lambda the gain of two models that cross has the sign of its distance to the root.
LEMMA SignByRoot ==
    ASSUME NEW S \in Int, NEW C \in Int, NEW y \in Nat, NEW x \in Nat \ {0},
           NEW q \in Int, NEW r \in Nat \ {0}, q * C = S * r
    PROVE  /\ C > 0 => /\ (S * x - y * C > 0 <=> y * r < q * x)
                       /\ (S * x - y * C = 0 <=> y * r = q * x)
           /\ C < 0 => /\ (S * x - y * C > 0 <=> q * x < y * r)
                       /\ (S * x - y * C = 0 <=> y * r = q * x)
<1> DEFINE g == S * x - y * C
           z == q * x - y * r
<1>1. g \in Int /\ z \in Int
  OBVIOUS
<1>2. g * r = C * z
  <2>1. g * r = (S * r) * x - y * C * r
    OBVIOUS
  <2>2. C * z = (q * C) * x - y * C * r
    OBVIOUS
  <2> QED
    BY <2>1, <2>2
<1>3. (z > 0 <=> y * r < q * x) /\ (z < 0 <=> q * x < y * r) /\ (z = 0 <=> y * r = q * x)
  OBVIOUS
<1> HIDE DEF g, z
<1>4. (g > 0 <=> g * r > 0) /\ (g = 0 <=> g * r = 0)
  BY <1>1
<1>5. C > 0 => (z > 0 <=> C * z > 0) /\ (z = 0 <=> C * z = 0)
  BY <1>1
<1>6. C < 0 => (z < 0 <=> C * z > 0) /\ (z = 0 <=> C * z = 0)
  BY <1>1
<1> QED
  BY <1>2, <1>3, <1>4, <1>5, <1>6 DEF g

\* The gain of two models that do not cross has one sign at every lambda.
LEMMA SignWithoutRoot ==
    ASSUME NEW S \in Int, NEW C \in Int, NEW y \in Nat, NEW x \in Nat \ {0},
           C = 0 \/ S * C < 0
    PROVE  (S * x - y * C > 0 <=> S > 0) /\ (S * x - y * C = 0 <=> S = 0)
<1>1. CASE C = 0
  <2>1. y * C = 0
    BY <1>1
  <2>2. (S * x > 0 <=> S > 0) /\ (S * x = 0 <=> S = 0)
    OBVIOUS
  <2> QED
    BY <2>1, <2>2
<1>2. CASE S * C < 0
  <2>1. (S > 0 /\ C < 0) \/ (S < 0 /\ C > 0)
    BY <1>2
  <2>2. CASE S > 0 /\ C < 0
    <3>1. S * x > 0 /\ y * C <= 0
      BY <2>2
    <3> QED
      BY <2>2, <3>1
  <2>3. CASE S < 0 /\ C > 0
    <3>1. S * x < 0 /\ y * C >= 0
      BY <2>3
    <3> QED
      BY <2>3, <3>1
  <2> QED
    BY <2>1, <2>2, <2>3
<1> QED
  BY <1>1, <1>2

\* Both signs of an equation may be turned.
LEMMA Negated ==
    ASSUME NEW q \in Int, NEW r \in Int, NEW S \in Int, NEW C \in Int, q * (-C) = (-S) * r
    PROVE  q * C = S * r
  OBVIOUS

\* Two models of an example that cross at all cross at an observed root.
LEMMA CrossingIsObserved ==
    ASSUME InputTypes, streamed = Crossings, NEW e \in Examples,
           NEW m \in Models, NEW o \in Models,
           menu[e][m].cost # menu[e][o].cost,
           (menu[e][m].score - menu[e][o].score) * (menu[e][m].cost - menu[e][o].cost) >= 0
    PROVE  \E r \in Observed : r[1] * (menu[e][m].cost - menu[e][o].cost)
                               = (menu[e][m].score - menu[e][o].score) * r[2]
<1> DEFINE S == menu[e][m].score - menu[e][o].score
           C == menu[e][m].cost - menu[e][o].cost
<1>1. /\ menu[e][m] \in Offers /\ menu[e][o] \in Offers
  BY DEF InputTypes
<1>2. menu[e][m].cost \in Int /\ menu[e][o].cost \in Int
      /\ menu[e][m].score \in Int /\ menu[e][o].score \in Int
  BY <1>1, ShapeFacts
<1>3. S \in Int /\ C \in Int /\ C # 0 /\ S * C >= 0
  BY <1>2
<1>4. m \in Int /\ o \in Int /\ m # o
  BY ShapeAssumption DEF Models
<1>5. CASE m < o
  <2> DEFINE c == <<e, m, o>>
  <2>1. c \in Comparisons
    BY <1>5 DEF Comparisons
  <2>2. CostGap(c) = C /\ ScoreGap(c) = S
    BY DEF CostGap, ScoreGap
  <2> HIDE DEF S, C, c
  <2>3. c \in streamed /\ Root(c) = Fraction(S, C)
    BY <1>3, <2>1, <2>2 DEF Crossings, Root
  <2>4. Root(c) \in Observed /\ Root(c)[1] * C = S * Root(c)[2]
    BY <1>3, <2>3, FractionIsCanonical DEF Observed
  <2> QED
    BY <2>4 DEF S, C
<1>6. CASE o < m
  <2> DEFINE c == <<e, o, m>>
  <2>1. c \in Comparisons
    BY <1>6 DEF Comparisons
  <2>2. CostGap(c) = -C /\ ScoreGap(c) = -S
    BY <1>2 DEF CostGap, ScoreGap
  <2> HIDE DEF S, C, c
  <2>3. (-S) * (-C) >= 0 /\ -C # 0 /\ -S \in Int /\ -C \in Int
    BY <1>3
  <2>4. c \in streamed /\ Root(c) = Fraction(-S, -C)
    BY <2>1, <2>2, <2>3 DEF Crossings, Root
  <2> DEFINE r == Root(c)
  <2>5. r \in Observed /\ r[1] * (-C) = (-S) * r[2] /\ r \in Fractions
    BY <2>3, <2>4, FractionIsCanonical DEF Observed
  <2>6. r[1] \in Int /\ r[2] \in Int
    BY <2>5, FractionType
  <2> HIDE DEF r
  <2>7. r[1] * C = S * r[2]
    <3> DEFINE q == r[1]  d == r[2]
    <3>1. q \in Int /\ d \in Int /\ q * (-C) = (-S) * d
      BY <2>5, <2>6
    <3> HIDE DEF q, d
    <3>2. q * C = S * d
      BY <1>3, <3>1, Negated
    <3> QED
      BY <3>2 DEF q, d
  <2> QED
    BY <2>5, <2>7 DEF S, C
<1> QED
  BY <1>4, <1>5, <1>6

\* Lambdas with the same roots on either side prefer the same models ...
LEMMA AlikePrefer ==
    ASSUME InputTypes, streamed = Crossings, NEW l \in Lambdas, NEW k \in Lambdas,
           Alike(Observed, l, k), NEW e \in Examples, NEW m \in Models, NEW o \in Models
    PROVE  Preferred(menu[e], l, m, o) <=> Preferred(menu[e], k, m, o)
<1> DEFINE offers == menu[e]
           S == offers[m].score - offers[o].score
           C == offers[m].cost - offers[o].cost
<1>1. offers \in [Models -> Offers] /\ offers[m] \in Offers /\ offers[o] \in Offers
  BY DEF InputTypes
<1>2. S \in Int /\ C \in Int
  BY <1>1, ShapeFacts
<1>3. /\ l[1] \in Nat /\ l[2] \in Nat \ {0} /\ k[1] \in Nat /\ k[2] \in Nat \ {0}
  BY DEF Lambdas
<1>4. /\ Gain(offers, l, m, o) = S * l[2] - l[1] * C
      /\ Gain(offers, k, m, o) = S * k[2] - k[1] * C
  BY DEF Gain
<1>5. /\ Gain(offers, l, m, o) > 0 <=> Gain(offers, k, m, o) > 0
      /\ Gain(offers, l, m, o) = 0 <=> Gain(offers, k, m, o) = 0
  <2>1. CASE C = 0 \/ S * C < 0
    <3> HIDE DEF S, C, offers
    <3>1. /\ (S * l[2] - l[1] * C > 0 <=> S > 0) /\ (S * l[2] - l[1] * C = 0 <=> S = 0)
          /\ (S * k[2] - k[1] * C > 0 <=> S > 0) /\ (S * k[2] - k[1] * C = 0 <=> S = 0)
      BY <1>2, <1>3, <2>1, SignWithoutRoot
    <3> QED
      BY <1>4, <3>1
  <2>2. CASE C # 0 /\ S * C >= 0
    <3>1. PICK r \in Observed : r[1] * C = S * r[2]
      <4>1. offers[m].cost # offers[o].cost
        BY <1>1, <2>2, ShapeFacts
      <4> QED
        BY <2>2, <4>1, CrossingIsObserved
    <3> DEFINE q == r[1]  d == r[2]
    <3>2. q \in Int /\ d \in Nat \ {0}
      BY ObservedIsFinite, FractionType DEF NonNegative
    <3>3. /\ q * l[2] < l[1] * d <=> q * k[2] < k[1] * d
          /\ l[1] * d < q * l[2] <=> k[1] * d < q * k[2]
      BY DEF Alike, Below
    <3> HIDE DEF q, d, S, C, offers
    <3>4. q * C = S * d
      BY <3>1 DEF q, d
    <3>5. l[1] * d \in Int /\ q * l[2] \in Int /\ k[1] * d \in Int /\ q * k[2] \in Int
      BY <1>3, <3>2
    <3>6. l[1] * d = q * l[2] <=> k[1] * d = q * k[2]
      BY <3>3, <3>5
    <3>7. CASE C > 0
      <4>1. /\ (S * l[2] - l[1] * C > 0 <=> l[1] * d < q * l[2])
            /\ (S * l[2] - l[1] * C = 0 <=> l[1] * d = q * l[2])
            /\ (S * k[2] - k[1] * C > 0 <=> k[1] * d < q * k[2])
            /\ (S * k[2] - k[1] * C = 0 <=> k[1] * d = q * k[2])
        <5>1. /\ l[1] \in Nat /\ l[2] \in Nat \ {0} /\ k[1] \in Nat /\ k[2] \in Nat \ {0}
              /\ S \in Int /\ C \in Int /\ q \in Int /\ d \in Nat \ {0} /\ q * C = S * d
          BY <1>2, <1>3, <3>2, <3>4
        <5> DEFINE x == l[2]  y == l[1]  v == k[2]  w == k[1]
        <5> HIDE DEF x, y, v, w
        <5>2. x \in Nat \ {0} /\ y \in Nat /\ v \in Nat \ {0} /\ w \in Nat
          BY <5>1 DEF x, y, v, w
        <5>3. /\ (S * x - y * C > 0 <=> y * d < q * x)
              /\ (S * x - y * C = 0 <=> y * d = q * x)
          BY <3>7, <5>1, <5>2, SignByRoot
        <5>4. /\ (S * v - w * C > 0 <=> w * d < q * v)
              /\ (S * v - w * C = 0 <=> w * d = q * v)
          BY <3>7, <5>1, <5>2, SignByRoot
        <5> QED
          BY <5>3, <5>4 DEF x, y, v, w
      <4> QED
        BY <1>4, <3>3, <3>6, <4>1
    <3>8. CASE C < 0
      <4>1. /\ (S * l[2] - l[1] * C > 0 <=> q * l[2] < l[1] * d)
            /\ (S * l[2] - l[1] * C = 0 <=> l[1] * d = q * l[2])
            /\ (S * k[2] - k[1] * C > 0 <=> q * k[2] < k[1] * d)
            /\ (S * k[2] - k[1] * C = 0 <=> k[1] * d = q * k[2])
        <5>1. /\ l[1] \in Nat /\ l[2] \in Nat \ {0} /\ k[1] \in Nat /\ k[2] \in Nat \ {0}
              /\ S \in Int /\ C \in Int /\ q \in Int /\ d \in Nat \ {0} /\ q * C = S * d
          BY <1>2, <1>3, <3>2, <3>4
        <5> DEFINE x == l[2]  y == l[1]  v == k[2]  w == k[1]
        <5> HIDE DEF x, y, v, w
        <5>2. x \in Nat \ {0} /\ y \in Nat /\ v \in Nat \ {0} /\ w \in Nat
          BY <5>1 DEF x, y, v, w
        <5>3. /\ (S * x - y * C > 0 <=> q * x < y * d)
              /\ (S * x - y * C = 0 <=> y * d = q * x)
          BY <3>8, <5>1, <5>2, SignByRoot
        <5>4. /\ (S * v - w * C > 0 <=> q * v < w * d)
              /\ (S * v - w * C = 0 <=> w * d = q * v)
          BY <3>8, <5>1, <5>2, SignByRoot
        <5> QED
          BY <5>3, <5>4 DEF x, y, v, w
      <4> QED
        BY <1>4, <3>3, <3>6, <4>1
    <3> QED
      BY <1>2, <2>2, <3>7, <3>8
  <2>3. S * C \in Int
    BY <1>2
  <2> QED
    BY <2>1, <2>2, <2>3
<1> HIDE DEF offers, S, C
<1>6. Preferred(offers, l, m, o) <=> Preferred(offers, k, m, o)
  BY <1>1, <1>5, PreferredByGain
<1> QED
  BY <1>6 DEF offers

\* ... and choose the same one.
LEMMA AlikeChoose ==
    ASSUME InputTypes, streamed = Crossings, NEW l \in Lambdas, NEW k \in Lambdas,
           Alike(Observed, l, k), NEW e \in Examples, NEW remaining
    PROVE  Choice(menu[e], remaining, l) = Choice(menu[e], remaining, k)
<1> DEFINE A == Affordable(menu[e], remaining)
           c == Choice(menu[e], remaining, l)
           d == Choice(menu[e], remaining, k)
<1>1. menu[e] \in [Models -> Offers]
  BY DEF InputTypes
<1>2. /\ \/ A = {} /\ c = NoChoice
         \/ c \in A /\ \A o \in A \ {c} : Preferred(menu[e], l, c, o)
      /\ \/ A = {} /\ d = NoChoice
         \/ d \in A /\ \A o \in A \ {d} : Preferred(menu[e], k, d, o)
  BY <1>1, ChoiceIsPreferred
<1>3. A \in SUBSET Models
  BY DEF Affordable
<1> HIDE DEF A, c, d
<1>4. CASE A = {}
  BY <1>2, <1>4 DEF c, d
<1>5. CASE c # d /\ A # {}
  <2>1. c \in Models /\ d \in Models /\ Preferred(menu[e], l, c, d) /\ Preferred(menu[e], k, d, c)
    BY <1>2, <1>3, <1>5
  <2>2. Preferred(menu[e], k, c, d)
    BY <2>1, AlikePrefer
  <2> QED
    BY <1>1, <2>1, <2>2, PreferredOrders
<1> QED
  BY <1>4, <1>5 DEF c, d

\* Two names of one fraction compare alike.
LEMMA SameValue ==
    ASSUME NEW a \in Int, NEW b \in Nat \ {0}, NEW p \in Int, NEW q \in Nat \ {0}, a * q = p * b,
           NEW r \in Int, NEW s \in Nat \ {0}
    PROVE  (r * b < a * s <=> r * q < p * s) /\ (a * s < r * b <=> p * s < r * q)
<1>1. a * s \in Int /\ r * b \in Int /\ p * s \in Int /\ r * q \in Int
  OBVIOUS
<1>2. (r * b) * q = (r * q) * b /\ (a * s) * q = (p * s) * b
  <2>1. (a * s) * q = (a * q) * s /\ (p * s) * b = (p * b) * s
    OBVIOUS
  <2> QED
    BY <2>1
<1>3. (r * b < a * s <=> (r * b) * q < (a * s) * q) /\ (r * q < p * s <=> (r * q) * b < (p * s) * b)
  BY <1>1, Cancel
<1>4. (a * s < r * b <=> (a * s) * q < (r * b) * q) /\ (p * s < r * q <=> (p * s) * b < (r * q) * b)
  BY <1>1, Cancel
<1> QED
  BY <1>2, <1>3, <1>4

-----------------------------------------------------------------------------
(* Replays: a replay is determined step by step, by descent as in TotalsProofs. *)

Start == [feasible |-> TRUE, remaining |-> Limit, spent |-> 0, quality |-> 0,
          choices |-> << >>]

\* f is the replay of the first n examples under lambda l.
Plays(f, l, n) == f = [e \in 0 .. n |-> IF e = 0 THEN Start ELSE Step(f[e - 1], menu[e], l)]

\* A replay of any number of examples exists.
LEMMA SomethingPlays ==
    ASSUME NEW l, NEW n \in 0 .. NExamples PROVE \E f : Plays(f, l, n)
<1> DEFINE Bad == {k \in 0 .. NExamples : ~\E f : Plays(f, l, k)}
<1>1. SUFFICES ASSUME Bad # {} PROVE FALSE
  OBVIOUS
<1>2. PICK k \in Bad : \A m \in Bad : k <= m
  <2>1. Bad \in SUBSET Nat
    BY ShapeAssumption
  <2> HIDE DEF Bad
  <2> QED
    BY <1>1, <2>1, LeastElement
<1>3. k # 0
  <2>1. Plays([e \in 0 .. 0 |-> Start], l, 0)
    BY DEF Plays
  <2> QED
    BY <1>2, <2>1
<1>4. k - 1 \in 0 .. NExamples /\ k - 1 \notin Bad
  BY <1>2, <1>3, ShapeAssumption
<1>5. PICK f : Plays(f, l, k - 1)
  BY <1>4
<1> DEFINE g == [e \in 0 .. k |-> IF e = k THEN Step(f[k - 1], menu[k], l) ELSE f[e]]
<1>6. Plays(g, l, k)
  <2>1. k \in Nat /\ k # 0
    BY <1>2, <1>3, ShapeAssumption
  <2>2. f = [e \in 0 .. k - 1 |-> IF e = 0 THEN Start ELSE Step(f[e - 1], menu[e], l)]
    BY <1>5 DEF Plays
  <2>3. \A e \in 0 .. k : g[e] = IF e = 0 THEN Start ELSE Step(g[e - 1], menu[e], l)
    <3> SUFFICES ASSUME NEW e \in 0 .. k
                 PROVE  g[e] = IF e = 0 THEN Start ELSE Step(g[e - 1], menu[e], l)
      OBVIOUS
    <3>1. CASE e = k
      <4>1. k - 1 \in 0 .. k /\ k - 1 # k /\ g[k - 1] = f[k - 1]
        BY <2>1
      <4> QED
        BY <2>1, <3>1, <4>1
    <3>2. CASE e # k
      <4>1. e \in 0 .. k - 1 /\ g[e] = f[e]
        BY <2>1, <3>2
      <4>2. e # 0 => e - 1 \in 0 .. k /\ e - 1 # k /\ g[e - 1] = f[e - 1]
        BY <2>1, <3>2
      <4> QED
        BY <2>2, <4>1, <4>2
    <3> QED
      BY <3>1, <3>2
  <2>4. g = [e \in 0 .. k |-> g[e]]
    BY Zenon
  <2> HIDE DEF g
  <2> QED
    BY <2>3, <2>4 DEF Plays
<1> QED
  BY <1>2, <1>6

\* Replay is such a replay of all examples.
LEMMA ReplayPlays ==
    ASSUME NEW l PROVE \E f : Plays(f, l, NExamples) /\ Replay(l) = f[NExamples]
<1> DEFINE f == CHOOSE g : Plays(g, l, NExamples)
<1>1. NExamples \in 0 .. NExamples
  BY ShapeAssumption
<1>2. Plays(f, l, NExamples)
  BY <1>1, SomethingPlays
<1>3. Replay(l) = f[NExamples]
  BY Zenon DEF Replay, Plays, Start
<1> QED
  BY <1>2, <1>3

\* A replay begins with the whole budget and goes on step by step.
LEMMA PlaysAt ==
    ASSUME NEW f, NEW l, Plays(f, l, NExamples)
    PROVE  f[0] = Start /\ \A e \in Examples : f[e] = Step(f[e - 1], menu[e], l)
<1>1. \A e \in 0 .. NExamples : f[e] = IF e = 0 THEN Start ELSE Step(f[e - 1], menu[e], l)
  BY Z3 DEF Plays
<1>2. 0 \in 0 .. NExamples /\ \A e \in Examples : e \in 0 .. NExamples /\ e # 0
  BY ShapeAssumption DEF Examples
<1> QED
  BY <1>1, <1>2

\* Lambdas with the same roots on either side are replayed alike.
LEMMA AlikeReplay ==
    ASSUME InputTypes, streamed = Crossings, NEW l \in Lambdas, NEW k \in Lambdas,
           Alike(Observed, l, k)
    PROVE  Replay(l) = Replay(k)
<1>1. PICK f : Plays(f, l, NExamples) /\ Replay(l) = f[NExamples]
  BY ReplayPlays
<1>2. PICK g : Plays(g, k, NExamples) /\ Replay(k) = g[NExamples]
  BY ReplayPlays
<1>3. /\ f[0] = Start /\ \A e \in Examples : f[e] = Step(f[e - 1], menu[e], l)
      /\ g[0] = Start /\ \A e \in Examples : g[e] = Step(g[e - 1], menu[e], k)
  BY <1>1, <1>2, PlaysAt
<1>4. ASSUME NEW e \in Examples, NEW replay
      PROVE  Step(replay, menu[e], l) = Step(replay, menu[e], k)
  <2>1. \A remaining : Choice(menu[e], remaining, l) = Choice(menu[e], remaining, k)
    BY AlikeChoose
  <2> QED
    BY <2>1 DEF Step
<1> DEFINE Bad == {e \in 0 .. NExamples : f[e] # g[e]}
<1>5. SUFFICES ASSUME Bad # {} PROVE FALSE
  <2>1. NExamples \in 0 .. NExamples
    BY ShapeAssumption
  <2> QED
    BY <1>1, <1>2, <2>1
<1>6. PICK e \in Bad : \A m \in Bad : e <= m
  <2>1. Bad \in SUBSET Nat
    BY ShapeAssumption
  <2> HIDE DEF Bad
  <2> QED
    BY <1>5, <2>1, LeastElement
<1>7. e \in Examples /\ e - 1 \in 0 .. NExamples /\ e - 1 \notin Bad
  BY <1>3, <1>6, ShapeAssumption DEF Examples
<1>8. f[e - 1] = g[e - 1]
  BY <1>7
<1> QED
  BY <1>3, <1>4, <1>6, <1>7, <1>8

\* Every lambda is replayed as some candidate of a complete set is.
LEMMA CandidateForEvery ==
    ASSUME DerivationInv, Derived, exhaustive, NEW probe \in Lambdas
    PROVE  \E i \in 1 .. Len(values) : Replay(probe) = Replay(values[i])
<1> DEFINE f == Fraction(probe[1], probe[2])
           D == Spread(Observed)
<1>1. InputTypes /\ streamed = Crossings /\ values = Candidates(Observed)
  BY LabelFollows DEF DerivationInv, OutcomeInv, LabelIsTruthful
<1>2. Observed \in SUBSET NonNegative /\ IsFiniteSet(Observed)
  BY <1>1, ObservedIsFinite
<1>3. probe[1] \in Nat /\ probe[2] \in Nat \ {0}
  BY DEF Lambdas
<1>4. f \in NonNegative /\ f[1] * probe[2] = probe[1] * f[2]
  <2>1. probe[1] * probe[2] >= 0 /\ probe[2] # 0 /\ probe[1] \in Int /\ probe[2] \in Int
    BY <1>3
  <2> QED
    BY <2>1, FractionIsCanonical, RootIsNonNegative
<1>5. Sorted(values, D) /\ D \in SUBSET NonNegative
  BY <1>1, <1>2, CandidatesAreSorted
<1>6. PICK c \in D : Alike(Observed, c, f)
  <2> HIDE DEF f
  <2> QED
    BY <1>2, <1>4, NoGapIsMissed
<1>7. PICK i \in 1 .. Len(values) : values[i] = c
  BY <1>5 DEF Sorted
<1> HIDE DEF f, D
<1>8. Alike(Observed, c, probe)
  <2> SUFFICES ASSUME NEW r \in Observed
               PROVE  /\ Below(r, c) <=> Below(r, probe)
                      /\ Below(c, r) <=> Below(probe, r)
    BY DEF Alike
  <2>1. /\ Below(r, c) <=> Below(r, f)
        /\ Below(c, r) <=> Below(f, r)
    BY <1>6 DEF Alike
  <2>2. f[1] \in Int /\ f[2] \in Nat \ {0} /\ r[1] \in Int /\ r[2] \in Nat \ {0}
    BY <1>2, <1>4, FractionType DEF NonNegative
  <2>3. (Below(r, f) <=> Below(r, probe)) /\ (Below(f, r) <=> Below(probe, r))
    <3> DEFINE a == f[1]  b == f[2]  p == probe[1]  q == probe[2]  x == r[1]  y == r[2]
    <3>1. /\ a \in Int /\ b \in Nat \ {0} /\ p \in Int /\ q \in Nat \ {0}
          /\ x \in Int /\ y \in Nat \ {0} /\ a * q = p * b
      BY <1>3, <1>4, <2>2
    <3>2. /\ Below(r, f) <=> x * b < a * y
          /\ Below(r, probe) <=> x * q < p * y
          /\ Below(f, r) <=> a * y < x * b
          /\ Below(probe, r) <=> p * y < x * q
      BY DEF Below
    <3> HIDE DEF a, b, p, q, x, y
    <3>3. (x * b < a * y <=> x * q < p * y) /\ (a * y < x * b <=> p * y < x * q)
      BY <3>1, SameValue
    <3> QED
      BY <3>2, <3>3
  <2> QED
    BY <2>1, <2>3
<1>9. c \in Lambdas
  <2>1. c \in NonNegative
    BY <1>5
  <2>2. c = <<c[1], c[2]>> /\ c[1] \in Int /\ c[2] \in Nat \ {0} /\ c[1] >= 0
    BY <2>1, FractionType DEF NonNegative
  <2> QED
    BY <2>2 DEF Lambdas
<1>10. Replay(c) = Replay(probe)
  BY <1>1, <1>8, <1>9, AlikeReplay
<1> QED
  BY <1>7, <1>10

-----------------------------------------------------------------------------
(* What a replay promises after e examples.                                 *)

Replays == [feasible : BOOLEAN, remaining : Nat, spent : Nat, quality : Int,
            choices : Seq(Models \cup {NoChoice})]

Charges(choices, e) == [i \in 1 .. e |-> menu[i][choices[i]].charge]

WithinBudget(replay, e) ==
    /\ replay \in Replays /\ Len(replay.choices) = e
    /\ replay.feasible =>
          /\ \A i \in 1 .. e : replay.choices[i] \in Models
          /\ scope = "per-query"  => \A i \in 1 .. e : menu[i][replay.choices[i]].charge <= Limit
          /\ scope = "cumulative" => Total(Charges(replay.choices, e)) + replay.remaining = Limit

\* What the assumptions say of charges, qualities, budget and probes.
LEMMA OfferFacts ==
    /\ \A o \in Offers : o.charge \in Nat /\ o.quality \in Int
    /\ Limit \in Nat /\ NoChoice \notin Models /\ Probes \in SUBSET Lambdas
  BY TuningAssumption DEF Lambdas

\* One query of a replay keeps what the replay promises.
LEMMA StepKeepsBudget ==
    ASSUME InputTypes, scope \in {"per-query", "cumulative"}, NEW l \in Lambdas,
           NEW e \in Examples, NEW replay, WithinBudget(replay, e - 1)
    PROVE  WithinBudget(Step(replay, menu[e], l), e)
<1> DEFINE offers == menu[e]
           remaining == IF scope = "per-query" THEN Limit ELSE replay.remaining
           choice == Choice(offers, remaining, l)
           charge == offers[choice].charge
           n == Step(replay, offers, l)
<1>1. e \in Nat /\ e - 1 \in Nat /\ e \in 1 .. e /\ \A i \in 1 .. e : i \in Examples
  BY ShapeAssumption DEF Examples
<1>2. /\ replay \in Replays /\ replay.feasible \in BOOLEAN /\ replay.remaining \in Nat
      /\ replay.spent \in Nat /\ replay.quality \in Int
      /\ replay.choices \in Seq(Models \cup {NoChoice}) /\ Len(replay.choices) = e - 1
  BY DEF WithinBudget, Replays
<1>3. offers \in [Models -> Offers] /\ remaining \in Nat
  BY <1>2, OfferFacts DEF InputTypes
<1>4. choice = NoChoice \/ choice \in Models
  BY <1>3, ChoiceIsPreferred DEF Affordable
<1>5. CASE choice = NoChoice
  <2>1. n = [replay EXCEPT !.feasible = FALSE, !.choices = Append(@, NoChoice)]
    BY <1>5 DEF Step
  <2>2. Append(replay.choices, NoChoice) \in Seq(Models \cup {NoChoice})
        /\ Len(Append(replay.choices, NoChoice)) = e
    BY <1>1, <1>2
  <2> HIDE DEF n
  <2>3. n \in Replays /\ n.feasible = FALSE /\ Len(n.choices) = e
    BY <1>2, <2>1, <2>2 DEF Replays
  <2>4. WithinBudget(n, e)
    BY <2>3 DEF WithinBudget
  <2> QED
    BY <2>4 DEF n
<1>6. CASE choice \in Models
  <2>1. choice # NoChoice /\ charge \in Nat /\ offers[choice].quality \in Int
    BY <1>3, <1>6, OfferFacts
  <2>2. n = [feasible  |-> replay.feasible /\ charge <= remaining,
             remaining |-> IF charge <= remaining THEN remaining - charge ELSE 0,
             spent     |-> replay.spent + charge,
             quality   |-> replay.quality + IF charge <= remaining
                                            THEN offers[choice].quality ELSE 0,
             choices   |-> Append(replay.choices, choice)]
    BY <2>1 DEF Step
  <2> HIDE DEF n, choice, charge, remaining, offers
  <2>3. /\ n.choices = Append(replay.choices, choice)
        /\ n.remaining = IF charge <= remaining THEN remaining - charge ELSE 0
        /\ n.feasible <=> (replay.feasible /\ charge <= remaining)
    BY <2>2
  <2>4. /\ n.choices \in Seq(Models \cup {NoChoice}) /\ Len(n.choices) = e
        /\ n.choices[e] = choice /\ \A i \in 1 .. e - 1 : n.choices[i] = replay.choices[i]
    BY <1>1, <1>2, <1>6, <2>3
  <2>5. n \in Replays
    <3>1. (replay.feasible /\ charge <= remaining) \in BOOLEAN
      OBVIOUS
    <3>2. (IF charge <= remaining THEN remaining - charge ELSE 0) \in Nat
      BY <1>3, <2>1
    <3>3. replay.spent + charge \in Nat
      BY <1>2, <2>1
    <3>4. replay.quality + (IF charge <= remaining THEN offers[choice].quality ELSE 0) \in Int
      BY <1>2, <2>1
    <3>5. Append(replay.choices, choice) \in Seq(Models \cup {NoChoice})
      BY <2>3, <2>4
    <3> QED
      BY <2>2, <3>1, <3>2, <3>3, <3>4, <3>5 DEF Replays
  <2>6. ASSUME n.feasible
        PROVE  /\ \A i \in 1 .. e : n.choices[i] \in Models
               /\ scope = "per-query"  => \A i \in 1 .. e : menu[i][n.choices[i]].charge <= Limit
               /\ scope = "cumulative" => Total(Charges(n.choices, e)) + n.remaining = Limit
    <3>1. replay.feasible /\ charge <= remaining
      BY <2>3, <2>6
    <3>2. /\ \A i \in 1 .. e - 1 : replay.choices[i] \in Models
          /\ scope = "per-query"  => \A i \in 1 .. e - 1 : menu[i][replay.choices[i]].charge <= Limit
          /\ scope = "cumulative" => Total(Charges(replay.choices, e - 1)) + replay.remaining = Limit
      BY <3>1 DEF WithinBudget
    <3>3. ASSUME NEW i \in 1 .. e PROVE i = e \/ i \in 1 .. e - 1
      BY <1>1
    <3>4. menu[e][n.choices[e]].charge = charge
      BY <2>4 DEF charge, offers
    <3>5. \A i \in 1 .. e : n.choices[i] \in Models
      BY <1>6, <2>4, <3>2, <3>3
    <3>6. ASSUME scope = "per-query" PROVE \A i \in 1 .. e : menu[i][n.choices[i]].charge <= Limit
      <4>1. charge <= Limit
        BY <3>1, <3>6 DEF remaining
      <4> QED
        BY <2>4, <3>2, <3>3, <3>4, <3>6, <4>1
    <3>7. ASSUME scope = "cumulative" PROVE Total(Charges(n.choices, e)) + n.remaining = Limit
      <4> DEFINE w == Charges(replay.choices, e - 1)
                 v == Charges(n.choices, e)
      <4>1. \A i \in 1 .. e : menu[i][n.choices[i]].charge \in Nat
        <5> TAKE i \in 1 .. e
        <5>1. i \in Examples /\ n.choices[i] \in Models
          BY <1>1, <3>5
        <5>2. menu[i][n.choices[i]] \in Offers
          BY <5>1 DEF InputTypes
        <5> QED
          BY <5>2, OfferFacts
      <4>2. v \in Seq(Nat) /\ Len(v) = e /\ v[e] = charge
        <5>1. v \in [1 .. e -> Nat]
          BY <4>1 DEF Charges
        <5>2. v[e] = charge
          BY <1>1, <3>4 DEF Charges
        <5> HIDE DEF v
        <5> QED
          BY <1>1, <5>1, <5>2
      <4>3. w \in Seq(Nat) /\ Len(w) = e - 1 /\ \A i \in 1 .. e - 1 : v[i] = w[i]
        <5>1. \A i \in 1 .. e - 1 : i \in 1 .. e /\ n.choices[i] = replay.choices[i]
          BY <1>1, <2>4
        <5>2. \A i \in 1 .. e - 1 : v[i] = w[i]
          BY <5>1 DEF Charges
        <5>3. w \in [1 .. e - 1 -> Nat]
          BY <4>1, <5>1 DEF Charges
        <5> HIDE DEF v, w
        <5> QED
          BY <1>1, <5>2, <5>3
      <4> HIDE DEF v, w
      <4>4. Total(v) = Total(w) + charge
        BY <1>1, <4>2, <4>3, TotalOfOneMore
      <4>5. Total(w) \in Nat /\ Total(w) + replay.remaining = Limit
        BY <3>2, <3>7, <4>3, TotalIsNat DEF w
      <4>6. remaining = replay.remaining /\ n.remaining = remaining - charge
        BY <2>3, <3>1, <3>7 DEF remaining
      <4>7. Total(v) + n.remaining = Limit
        BY <1>2, <2>1, <4>4, <4>5, <4>6
      <4> QED
        BY <4>7 DEF v
    <3> QED
      BY <3>5, <3>6, <3>7
  <2>7. WithinBudget(n, e)
    BY <2>4, <2>5, <2>6 DEF WithinBudget
  <2> QED
    BY <2>7 DEF n, offers
<1> QED
  BY <1>4, <1>5, <1>6

\* Hence a whole replay keeps it.
LEMMA ReplayIsWithinBudget ==
    ASSUME InputTypes, scope \in {"per-query", "cumulative"}, NEW l \in Lambdas
    PROVE  WithinBudget(Replay(l), NExamples)
<1>1. PICK f : Plays(f, l, NExamples) /\ Replay(l) = f[NExamples]
  BY ReplayPlays
<1>2. f[0] = Start /\ \A e \in Examples : f[e] = Step(f[e - 1], menu[e], l)
  BY <1>1, PlaysAt
<1> DEFINE Bad == {e \in 0 .. NExamples : ~WithinBudget(f[e], e)}
<1>3. SUFFICES ASSUME Bad # {} PROVE FALSE
  <2>1. NExamples \in 0 .. NExamples
    BY ShapeAssumption
  <2> QED
    BY <1>1, <2>1
<1>4. PICK e \in Bad : \A m \in Bad : e <= m
  <2>1. Bad \in SUBSET Nat
    BY ShapeAssumption
  <2> HIDE DEF Bad
  <2> QED
    BY <1>3, <2>1, LeastElement
<1>5. WithinBudget(Start, 0)
  <2>1. Start \in Replays /\ Start.choices = << >> /\ Start.remaining = Limit
    BY OfferFacts DEF Start, Replays
  <2>2. Charges(<< >>, 0) = << >> /\ Len(<< >>) = 0 /\ 1 .. 0 = {}
    BY DEF Charges
  <2>3. Total(Charges(<< >>, 0)) + Limit = Limit
    BY <2>2, TotalEmpty, OfferFacts
  <2> QED
    BY <2>1, <2>2, <2>3 DEF WithinBudget
<1>6. e \in Examples /\ e - 1 \in 0 .. NExamples /\ e - 1 \notin Bad
  BY <1>2, <1>4, <1>5, ShapeAssumption DEF Examples
<1>7. WithinBudget(f[e - 1], e - 1)
  BY <1>6
<1>8. WithinBudget(f[e], e)
  BY <1>2, <1>6, <1>7, StepKeepsBudget
<1> QED
  BY <1>4, <1>8

-----------------------------------------------------------------------------
(* The tuning loop.                                                          *)

\* A replay depends on the data and the ledger only.
ReplayOf(m, s, l) ==
    LET step(replay, offers) ==
            LET remaining == IF s = "per-query" THEN Limit ELSE replay.remaining
                choice    == Choice(offers, remaining, l)
                charge    == offers[choice].charge
            IN IF choice = NoChoice
               THEN [replay EXCEPT !.feasible = FALSE, !.choices = Append(@, NoChoice)]
               ELSE [feasible  |-> replay.feasible /\ charge <= remaining,
                     remaining |-> IF charge <= remaining THEN remaining - charge ELSE 0,
                     spent     |-> replay.spent + charge,
                     quality   |-> replay.quality + IF charge <= remaining
                                                    THEN offers[choice].quality ELSE 0,
                     choices   |-> Append(replay.choices, choice)]
        replay[e \in 0 .. NExamples] ==
            IF e = 0 THEN [feasible |-> TRUE, remaining |-> Limit, spent |-> 0, quality |-> 0,
                           choices |-> << >>]
            ELSE step(replay[e - 1], m[e])
    IN replay[NExamples]

\* Replays stay the same while the data and the ledger do.
LEMMA ReplayStays ==
    ASSUME menu' = menu, scope' = scope, NEW l
    PROVE  Replay(l)' = Replay(l)
<1>1. Replay(l) = ReplayOf(menu, scope, l)
  BY Zenon DEF Replay, Step, ReplayOf
<1>2. Replay(l)' = ReplayOf(menu', scope', l)
  BY Zenon DEF Replay, Step, ReplayOf
<1> QED
  BY <1>1, <1>2, Zenon

\* The best so far is the replay of a candidate that was tried and is feasible, and
\* no feasible candidate that was tried ranks above it.
TuningInv ==
    /\ DerivationInv
    /\ scope \in {"per-query", "cumulative"}
    /\ tried \in Nat
    /\ tried # 0 => Derived /\ tried <= Len(values)
    /\ Found => /\ \E i \in 1 .. tried :
                      best = [lambda |-> values[i], replay |-> Replay(values[i])]
                /\ best.replay.feasible
    /\ \A i \in 1 .. tried : Replay(values[i]).feasible =>
          /\ Found
          /\ Replay(values[i]).quality <= best.replay.quality
          /\ Replay(values[i]).quality = best.replay.quality =>
                best.replay.spent <= Replay(values[i]).spent

\* The candidates are a sequence of lambdas that is not empty.
LEMMA ValuesAreLambdas ==
    ASSUME DerivationInv, Derived
    PROVE  /\ DOMAIN values = 1 .. Len(values) /\ Len(values) \in Nat \ {0}
           /\ \A i \in 1 .. Len(values) : values[i] \in Lambdas
<1> DEFINE D == Spread(Boundaries)
           derived == Candidates(Boundaries)
<1>1. /\ D \in SUBSET NonNegative /\ IsFiniteSet(D) /\ Sorted(derived, D) /\ Zero \in D
  BY BoundariesAreObserved, CandidatesAreSorted DEF Spread
<1>2. values = IF cap = 0 THEN derived ELSE RankSpaced(derived, cap)
  BY DEF DerivationInv, OutcomeInv
<1>3. cap \in Nat /\ (cap # 0 => cap \in Nat \ {0, 1})
  BY ShapeFacts DEF DerivationInv, InputTypes
<1> HIDE DEF D, derived
<1>4. /\ derived \in Seq(D) /\ Len(derived) \in Nat \ {0}
      /\ \A i, j \in 1 .. Len(derived) : i < j => Below(derived[i], derived[j])
  BY <1>1, SortedEnds DEF Sorted
<1>5. values \in Seq(D) /\ Len(values) \in Nat \ {0}
  <2>1. CASE cap = 0 \/ Len(derived) <= cap
    BY <1>2, <1>4, <2>1 DEF RankSpaced
  <2>2. CASE cap # 0 /\ ~(Len(derived) <= cap)
    <3>1. values = RankSpaced(derived, cap) /\ Len(derived) > cap /\ cap \in Nat \ {0, 1}
      BY <1>2, <1>3, <1>4, <2>2
    <3>2. values \in Seq(D) /\ Len(values) = cap
      BY <1>1, <1>4, <3>1, ThinnedKeepsEnds
    <3> QED
      BY <3>1, <3>2
  <2> QED
    BY <2>1, <2>2
<1>6. ASSUME NEW i \in 1 .. Len(values) PROVE values[i] \in Lambdas
  <2>1. values[i] \in NonNegative
    BY <1>1, <1>5
  <2> DEFINE v == values[i]
  <2>2. v = <<v[1], v[2]>> /\ v[1] \in Int /\ v[2] \in Nat \ {0} /\ v[1] >= 0
    BY <2>1, FractionType DEF NonNegative
  <2> HIDE DEF v
  <2>3. v \in Lambdas
    BY <2>2 DEF Lambdas
  <2> QED
    BY <2>3 DEF v
<1> QED
  BY <1>5, <1>6

\* The totals of a replay are numbers.
LEMMA ReplayTypes ==
    ASSUME TuningInv, NEW l \in Lambdas
    PROVE  /\ Replay(l).feasible \in BOOLEAN
           /\ Replay(l).quality \in Int /\ Replay(l).spent \in Nat
<1>1. Replay(l) \in Replays
  BY ReplayIsWithinBudget DEF TuningInv, DerivationInv, WithinBudget
<1> QED
  BY <1>1 DEF Replays

\* Nothing is tried at first.
LEMMA TuningStarts == Init => TuningInv
<1> SUFFICES ASSUME Init PROVE TuningInv
  OBVIOUS
<1>1. DerivationInv
  BY DerivationStarts DEF Init
<1>2. tried = 0 /\ ~Found /\ scope \in {"per-query", "cumulative"} /\ 1 .. 0 = {}
  BY DEF Init, Found
<1> QED
  BY <1>1, <1>2 DEF TuningInv

\* Nothing is tried before the candidates are derived.
LEMMA DerivingKeepsTuning ==
    ASSUME TuningInv, DerivationNext, UNCHANGED <<scope, tried, best>>
    PROVE  TuningInv'
<1>1. DerivationInv'
  BY DerivationStep DEF TuningInv
<1>2. values = << >>
  BY DEF DerivationNext, Observe, Derive
<1>3. tried = 0 /\ tried' = 0 /\ scope' \in {"per-query", "cumulative"} /\ best' = best
  BY <1>2 DEF TuningInv, Derived
<1>4. ~Found /\ 1 .. 0 = {}
  BY <1>3 DEF TuningInv
<1>5. ~Found'
  BY <1>3, <1>4 DEF Found
<1> QED
  BY <1>1, <1>3, <1>4, <1>5 DEF TuningInv

\* A step that changes nothing.
LEMMA RestingKeepsTuning ==
    ASSUME TuningInv, UNCHANGED vars
    PROVE  TuningInv'
<1>1. UNCHANGED derivationVars /\ scope' = scope /\ tried' = tried /\ best' = best
  BY DEF vars
<1>2. menu' = menu /\ values' = values
  BY <1>1 DEF derivationVars, input
<1>3. DerivationInv'
  BY <1>1, DerivationStays DEF TuningInv
<1>4. \A i \in 1 .. tried : Replay(values[i])' = Replay(values[i])
  <2> TAKE i \in 1 .. tried
  <2> DEFINE v == values[i]
  <2>1. \A l : Replay(l)' = Replay(l)
    BY <1>1, <1>2, ReplayStays
  <2> QED
    BY <1>2, <2>1
<1> QED
  BY <1>1, <1>2, <1>3, <1>4 DEF TuningInv, Found, Derived

\* One turn of the loop of tune_tier_lambdas: a better feasible replay takes over.
LEMMA TryKeepsTuning == ASSUME TuningInv, Try PROVE TuningInv'
<1> DEFINE t == tried + 1
           replay == Replay(values[t])
<1>1. /\ UNCHANGED derivationVars /\ scope' = scope /\ tried' = t
      /\ Derived /\ tried < Len(values)
      /\ \/ /\ replay.feasible /\ Improves(replay)
            /\ best' = [lambda |-> values[t], replay |-> replay]
         \/ /\ ~(replay.feasible /\ Improves(replay))
            /\ best' = best
  BY DEF Try, Eligible
<1>2. menu' = menu /\ values' = values
  BY <1>1 DEF derivationVars, input
<1>3. DerivationInv'
  BY <1>1, DerivationStays DEF TuningInv
<1>4. Len(values) \in Nat /\ tried \in Nat /\ \A i \in 1 .. Len(values) : values[i] \in Lambdas
  BY <1>1, ValuesAreLambdas DEF TuningInv
<1>5. /\ t \in 1 .. t /\ t \in Nat /\ t <= Len(values) /\ t # 0
      /\ \A i \in 1 .. t : (i = t \/ i \in 1 .. tried)
      /\ \A i \in 1 .. t : i \in 1 .. Len(values)
      /\ \A i \in 1 .. tried : i \in 1 .. t
  BY <1>1, <1>4
<1> DEFINE R(i) == Replay(values[i])
<1>6. \A i \in 1 .. t : /\ R(i).feasible \in BOOLEAN /\ R(i).quality \in Int /\ R(i).spent \in Nat
  BY <1>4, <1>5, ReplayTypes
<1>7. /\ Found => /\ \E i \in 1 .. tried : best = [lambda |-> values[i], replay |-> R(i)]
                  /\ best.replay.feasible
      /\ \A i \in 1 .. tried : R(i).feasible =>
            /\ Found
            /\ R(i).quality <= best.replay.quality
            /\ R(i).quality = best.replay.quality => best.replay.spent <= R(i).spent
  BY DEF TuningInv
<1>8. replay = R(t)
  OBVIOUS
<1> HIDE DEF R, replay, t
<1>9. /\ Found' => /\ \E i \in 1 .. t : best' = [lambda |-> values[i], replay |-> R(i)]
                   /\ best'.replay.feasible
      /\ \A i \in 1 .. t : R(i).feasible =>
            /\ Found'
            /\ R(i).quality <= best'.replay.quality
            /\ R(i).quality = best'.replay.quality => best'.replay.spent <= R(i).spent
  <2>1. CASE /\ replay.feasible /\ Improves(replay)
             /\ best' = [lambda |-> values[t], replay |-> replay]
    <3>1. Found' /\ best'.replay = R(t) /\ best'.replay.feasible
          /\ best' = [lambda |-> values[t], replay |-> R(t)]
      <4>1. Found'
        <5> DEFINE candidate == [lambda |-> values[t], replay |-> replay]
        <5>1. "lambda" \in DOMAIN candidate /\ DOMAIN << >> = {}
          OBVIOUS
        <5>2. best' = candidate
          BY <2>1
        <5> HIDE DEF candidate
        <5> QED
          BY <5>1, <5>2 DEF Found
      <4> QED
        BY <1>8, <2>1, <4>1
    <3>2. ASSUME NEW i \in 1 .. t, R(i).feasible
          PROVE  /\ R(i).quality <= R(t).quality
                 /\ R(i).quality = R(t).quality => R(t).spent <= R(i).spent
      <4>1. CASE i = t
        BY <1>5, <1>6, <4>1
      <4>2. CASE i \in 1 .. tried
        <5>1. /\ Found /\ R(i).quality <= best.replay.quality
              /\ R(i).quality = best.replay.quality => best.replay.spent <= R(i).spent
          BY <1>7, <3>2, <4>2
        <5>2. PICK j \in 1 .. tried : best = [lambda |-> values[j], replay |-> R(j)]
          BY <1>7, <5>1
        <5>3. best.replay = R(j) /\ R(j).quality \in Int /\ R(j).spent \in Nat
          BY <1>5, <1>6, <5>2
        <5>4. \/ R(t).quality > R(j).quality
              \/ R(t).quality = R(j).quality /\ R(t).spent < R(j).spent
          BY <1>8, <2>1, <5>1, <5>3 DEF Improves, Better
        <5> QED
          BY <1>5, <1>6, <5>1, <5>3, <5>4
      <4> QED
        BY <1>5, <4>1, <4>2
    <3> QED
      BY <1>5, <3>1, <3>2
  <2>2. CASE ~(replay.feasible /\ Improves(replay)) /\ best' = best
    <3>1. Found' <=> Found
      BY <2>2 DEF Found
    <3>2. Found' => /\ \E i \in 1 .. t : best' = [lambda |-> values[i], replay |-> R(i)]
                    /\ best'.replay.feasible
      BY <1>5, <1>7, <2>2, <3>1
    <3>3. ASSUME NEW i \in 1 .. t, R(i).feasible
          PROVE  /\ Found'
                 /\ R(i).quality <= best'.replay.quality
                 /\ R(i).quality = best'.replay.quality => best'.replay.spent <= R(i).spent
      <4>1. CASE i = t
        <5>1. ~Improves(replay)
          BY <1>8, <2>2, <3>3, <4>1
        <5>2. Found /\ ~Better(replay, best.replay)
          BY <5>1 DEF Improves
        <5>3. PICK j \in 1 .. tried : best = [lambda |-> values[j], replay |-> R(j)]
          BY <1>7, <5>2
        <5>4. best.replay = R(j) /\ R(j).quality \in Int /\ R(j).spent \in Nat
          BY <1>5, <1>6, <5>3
        <5>5. R(t).quality \in Int /\ R(t).spent \in Nat
          BY <1>5, <1>6
        <5>6. ~(R(t).quality > R(j).quality)
              /\ ~(R(t).quality = R(j).quality /\ R(t).spent < R(j).spent)
          BY <1>8, <5>2, <5>4 DEF Better
        <5>7. /\ R(t).quality <= R(j).quality
              /\ R(t).quality = R(j).quality => R(j).spent <= R(t).spent
          BY <5>4, <5>5, <5>6
        <5> QED
          BY <2>2, <3>1, <4>1, <5>2, <5>4, <5>7
      <4>2. CASE i \in 1 .. tried
        BY <1>7, <2>2, <3>1, <3>3, <4>2
      <4> QED
        BY <1>5, <4>1, <4>2
    <3> QED
      BY <3>2, <3>3
  <2> QED
    BY <1>1, <2>1, <2>2
<1>10. \A i : Replay(values[i])' = R(i)
  <2>1. \A l : Replay(l)' = Replay(l)
    BY <1>1, <1>2, ReplayStays
  <2> QED
    BY <1>2, <2>1 DEF R
<1>11. Derived' /\ tried' = t /\ scope' \in {"per-query", "cumulative"}
  BY <1>1, <1>2 DEF Derived, TuningInv
<1> QED
  BY <1>2, <1>3, <1>5, <1>9, <1>10, <1>11 DEF TuningInv

\* The tuning invariant holds throughout tune_tier_lambdas.
THEOREM TuningInductive == Spec => []TuningInv
<1>1. TuningInv /\ [Next]_vars => TuningInv'
  BY DerivingKeepsTuning, RestingKeepsTuning, TryKeepsTuning DEF Next
<1> QED
  BY TuningStarts, <1>1, PTL DEF Spec

\* A complete set has a candidate for every probe.
LEMMA CompletenessFollows == ASSUME TuningInv PROVE ExactSetIsComplete
<1> SUFFICES ASSUME Derived, exhaustive, NEW probe \in Probes
             PROVE  \E i \in DOMAIN values : Replay(probe) = Replay(values[i])
  BY DEF ExactSetIsComplete
<1>1. PICK i \in 1 .. Len(values) : Replay(probe) = Replay(values[i])
  BY CandidateForEvery, OfferFacts DEF TuningInv
<1>2. DOMAIN values = 1 .. Len(values)
  BY ValuesAreLambdas DEF TuningInv
<1> QED
  BY <1>1, <1>2

\* The best candidate is at least as good as every probe.
LEMMA OptimalityFollows == ASSUME TuningInv PROVE SelectionIsOptimal
<1> SUFFICES ASSUME Tuned, exhaustive, NEW probe \in Probes, Replay(probe).feasible
             PROVE  /\ Found
                    /\ Replay(probe).quality <= best.replay.quality
                    /\ Replay(probe).quality = best.replay.quality =>
                          best.replay.spent <= Replay(probe).spent
  BY DEF SelectionIsOptimal
<1>1. PICK i \in 1 .. Len(values) : Replay(probe) = Replay(values[i])
  BY CandidateForEvery, OfferFacts DEF TuningInv, Tuned
<1>2. i \in 1 .. tried
  BY DEF Tuned
<1> QED
  BY <1>1, <1>2 DEF TuningInv

\* The best candidate was replayed within the budget.
LEMMA BudgetFollows == ASSUME TuningInv PROVE SelectionFitsBudget
<1> DEFINE choices == best.replay.choices
           charges == [e \in Examples |-> menu[e][choices[e]].charge]
<1> SUFFICES ASSUME Tuned, Found
             PROVE  /\ \A e \in Examples : choices[e] # NoChoice
                    /\ scope = "cumulative" => Total(charges) <= Limit
                    /\ scope = "per-query"  => \A e \in Examples : charges[e] <= Limit
  BY DEF SelectionFitsBudget
<1>1. PICK i \in 1 .. tried : best = [lambda |-> values[i], replay |-> Replay(values[i])]
  BY DEF TuningInv
<1>2. best.replay = Replay(values[i]) /\ best.replay.feasible
  BY <1>1 DEF TuningInv
<1>3. values[i] \in Lambdas
  <2>1. i \in 1 .. Len(values)
    BY DEF Tuned
  <2> QED
    BY <2>1, ValuesAreLambdas DEF TuningInv, Tuned
<1>4. WithinBudget(best.replay, NExamples)
  BY <1>2, <1>3, ReplayIsWithinBudget DEF TuningInv, DerivationInv
<1>5. /\ \A e \in Examples : choices[e] \in Models
      /\ scope = "per-query"  => \A e \in Examples : menu[e][choices[e]].charge <= Limit
      /\ scope = "cumulative" => Total(charges) + best.replay.remaining = Limit
      /\ best.replay.remaining \in Nat
  BY <1>2, <1>4 DEF WithinBudget, Charges, Examples, Replays
<1>6. \A e \in Examples : choices[e] # NoChoice
  BY <1>5, OfferFacts
<1>7. ASSUME scope = "cumulative" PROVE Total(charges) <= Limit
  <2>1. charges \in Seq(Nat)
    <3>1. ASSUME NEW e \in Examples PROVE menu[e][choices[e]].charge \in Nat
      <4>1. menu[e][choices[e]] \in Offers
        BY <1>5 DEF TuningInv, DerivationInv, InputTypes
      <4> QED
        BY <4>1, OfferFacts
    <3>2. charges \in [1 .. NExamples -> Nat] /\ NExamples \in Nat
      BY <3>1, ShapeAssumption DEF Examples
    <3> HIDE DEF charges
    <3> QED
      BY <3>2
  <2> HIDE DEF charges
  <2>2. Total(charges) \in Nat
    BY <2>1, TotalIsNat
  <2> QED
    BY <1>5, <1>7, <2>2, OfferFacts
<1> QED
  BY <1>5, <1>6, <1>7

\* Every probed lambda is replayed, call for call, as one of the complete candidates.
\* Probes may be any set of nonnegative fractions, so this holds of every lambda.
THEOREM EveryLambdaHasACandidate == Spec => []ExactSetIsComplete
  BY TuningInductive, CompletenessFollows, PTL

\* An exhaustive search of tune_tier_lambdas selects an optimum over all lambdas.
THEOREM SelectionsAreOptimal == Spec => []SelectionIsOptimal
  BY TuningInductive, OptimalityFollows, PTL

\* What tune_tier_lambdas selects was answered throughout within the budget.
THEOREM SelectionsFitTheBudget == Spec => []SelectionFitsBudget
  BY TuningInductive, BudgetFollows, PTL

=============================================================================
