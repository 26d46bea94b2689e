-------------------------- MODULE LambdaCandidates --------------------------
(***************************************************************************)
(* Deriving the lambdas a tier is tuned over.  The utility of a model is   *)
(* score - lambda * cost, so the choice can change only where two models   *)
(* of one example cross.  The crossings are streamed; without a cap all    *)
(* are kept, with a cap a bottom-hash sample and the two extremes, and     *)
(* boundaries, midpoints and a tail are derived from what was kept.        *)
(* Lambdas are exact fractions, here reduced pairs <<n, d>> with d > 0.    *)
(***************************************************************************)
EXTENDS Integers, Sequences, FiniteSets, FiniteSetsExt, Totals

CONSTANTS NModels,   \* candidate models of every example, 1 .. NModels in ID order
          NExamples, \* the examples, in canonical order
          Offers,    \* what one model may be in one example: cost, score and more
          Caps,      \* max_candidates_per_tier; 0 is None
          Hashes     \* the priorities the roots may get out of SHA-256

ASSUME ShapeAssumption == NModels \in Nat \ {0} /\ NExamples \in Nat \ {0}
ASSUME OfferAssumption ==
    Offers # {} /\ \A o \in Offers : o.cost \in Nat /\ o.score \in Int
ASSUME CapAssumption == \A cap \in Caps : cap = 0 \/ cap \in Nat \ {0, 1}

Models   == 1 .. NModels
Examples == 1 .. NExamples

VARIABLES
    menu,       \* cost and predicted score (and replay data) of every model per example
    cap,        \* the cap, or 0
    hash,       \* the priority of every root
    streamed,   \* the crossings observed so far
    retained,   \* the sample: the entries of the heap
    extremes,   \* minimum and maximum_root
    overflowed, \* a new crossing met a full heap
    values,     \* the candidate lambdas, << >> before they are derived
    exhaustive  \* the label of the candidate set

input  == <<menu, cap, hash>>
sample == <<streamed, retained, extremes, overflowed>>
derivationVars == <<input, sample, values, exhaustive>>

-----------------------------------------------------------------------------
(* Exact fractions.                                                          *)

\* The value of n / d with its least positive denominator.
Fraction(n, d) ==
    LET top    == IF d < 0 THEN -n ELSE n
        bottom == IF d < 0 THEN -d ELSE d
        least  == Min({q \in 1 .. bottom : (top * q) % bottom = 0})
    IN <<(top * least) \div bottom, least>>

Zero == <<0, 1>>
Below(a, b) == a[1] * b[2] < b[1] * a[2]
Midpoint(a, b) == Fraction(a[1] * b[2] + b[1] * a[2], 2 * a[2] * b[2])

Lowest(S)  == CHOOSE a \in S : \A b \in S : ~Below(b, a)
Highest(S) == CHOOSE a \in S : \A b \in S : ~Below(a, b)

\* Every root has a priority, and no two the same: the digest comes first in it,
\* then the root itself.
ASSUME HashAssumption ==
    \A h \in Hashes :
        /\ \A a, b \in DOMAIN h : h[a] \in Nat /\ (h[a] = h[b] => a = b)
        /\ \A o, p \in Offers :
              o.cost # p.cost /\ (o.score - p.score) * (o.cost - p.cost) >= 0 =>
                  Fraction(o.score - p.score, o.cost - p.cost) \in DOMAIN h

-----------------------------------------------------------------------------
(* The crossings and what is derived from them.                              *)

\* Mutant of Comparisons: only neighbours in the catalogue are compared.
NeighboursOnly == {<<e, m, m + 1>> : e \in Examples, m \in 1 .. NModels - 1}

\* The pairs of models to compare, example by example ...
Comparisons == {c \in Examples \X Models \X Models : c[2] < c[3]}

\* ... in the order in which they are streamed.
Before(c, d) == \/ c[1] < d[1]
                \/ c[1] = d[1] /\ c[2] < d[2]
                \/ c[1] = d[1] /\ c[2] = d[2] /\ c[3] < d[3]

CostGap(c)  == menu[c[1]][c[2]].cost - menu[c[1]][c[3]].cost
ScoreGap(c) == menu[c[1]][c[2]].score - menu[c[1]][c[3]].score

Root(c) == Fraction(ScoreGap(c), CostGap(c))

\* The comparisons with a root that is not negative.
Crossings == {c \in Comparisons : CostGap(c) # 0 /\ ScoreGap(c) * CostGap(c) >= 0}

\* sorted(S): the i-th element has i - 1 below it.
Ordered(S) == [i \in 1 .. Cardinality(S) |->
                  CHOOSE a \in S : Cardinality({b \in S : Below(b, a)}) = i - 1]

\* Zero, every boundary, the middle of every gap and one value past the last.
Candidates(roots) ==
    LET boundaries == Ordered({Zero} \cup roots)
        last == boundaries[Len(boundaries)]
    IN Ordered({Zero} \cup roots
               \cup {Midpoint(boundaries[i], boundaries[i + 1]) : i \in 1 .. Len(boundaries) - 1}
               \cup {<<last[1] + last[2], last[2]>>})

RankSpaced(candidates, maximum) ==
    IF Len(candidates) <= maximum THEN candidates
    ELSE [i \in 1 .. maximum |->
             candidates[1 + ((i - 1) * (Len(candidates) - 1)) \div (maximum - 1)]]

-----------------------------------------------------------------------------
(* The preflight: how large the search may become, before it is begun.       *)

EqualCostPairs(offers) ==
    LET pairsAt(cost) == LET n == Cardinality({m \in Models : offers[m].cost = cost})
                         IN (n * (n - 1)) \div 2
    IN SumOf([cost \in {offers[m].cost : m \in Models} |-> pairsAt(cost)])

UnequalCostPairs ==
    SumOf([e \in Examples |-> (NModels * (NModels - 1)) \div 2 - EqualCostPairs(menu[e])])

\* Mutant of DerivedBound: zero is no boundary of its own.
RootsGapsAndTail == 2 * UnequalCostPairs + 1

\* Every unequal pair may give a boundary; zero is one more, and every boundary
\* has a gap or the tail to its right.
DerivedBound == 2 * (UnequalCostPairs + 1)

CandidateBound == IF cap = 0 THEN DerivedBound ELSE Min({DerivedBound, cap})

-----------------------------------------------------------------------------

DerivationInit ==
    /\ menu \in [Examples -> [Models -> Offers]]
    /\ cap \in Caps
    /\ hash \in Hashes
    /\ streamed = {} /\ retained = {} /\ extremes = {} /\ overflowed = FALSE
    /\ values = << >> /\ exhaustive = FALSE

Full == cap # 0 /\ Cardinality(retained) >= cap
Worst == CHOOSE a \in retained : \A b \in retained : hash[b] <= hash[a]

\* Mutant of Kept: a full heap takes every new crossing.
KeptLatest(root) ==
    IF ~Full THEN retained \cup {root}
    ELSE IF root \in retained THEN retained
    ELSE (retained \ {Worst}) \cup {root}

\* The heap after one more crossing: the worst entry gives way to a better one.
Kept(root) ==
    IF ~Full THEN retained \cup {root}
    ELSE IF root \in retained \/ hash[root] >= hash[Worst] THEN retained
    ELSE (retained \ {Worst}) \cup {root}

\* The next comparison whose root is not negative.
Upcoming(c) == /\ c \in Crossings \ streamed
               /\ \A d \in Crossings \ streamed : d = c \/ Before(c, d)

Observe ==
    /\ values = << >>
    /\ \E c \in Comparisons :
        /\ Upcoming(c)
        /\ streamed' = streamed \cup {c}
        /\ extremes' = LET seen == extremes \cup {Root(c)} IN {Lowest(seen), Highest(seen)}
        /\ overflowed' = (overflowed \/ (Full /\ Root(c) \notin retained))
        /\ retained' = Kept(Root(c))
    /\ UNCHANGED <<input, values, exhaustive>>

\* Mutant of Truncated: thinning out the derived values is not noticed.
HeapOverflow(derived) == overflowed

Truncated(derived) == overflowed \/ (cap # 0 /\ Len(derived) > cap)

\* What a candidate set is refused for: it is sorted, without repetitions, and
\* nothing in it is negative.
IsCandidateSet(candidates) ==
    /\ candidates # << >>
    /\ \A i \in DOMAIN candidates : ~Below(candidates[i], Zero)
    /\ \A i \in 1 .. Len(candidates) - 1 : Below(candidates[i], candidates[i + 1])

\* Mutant of Boundaries: the extremes of the stream are forgotten.
SampleOnly == retained

Boundaries == retained \cup extremes

Derive ==
    /\ values = << >> /\ streamed = Crossings
    /\ LET derived == Candidates(Boundaries) IN
        /\ values' = IF cap = 0 THEN derived ELSE RankSpaced(derived, cap)
        /\ exhaustive' = ~Truncated(derived)
    /\ UNCHANGED <<input, sample>>

DerivationNext == Observe \/ Derive

Derived == values # << >>
Rest == Derived /\ UNCHANGED derivationVars

DerivationSpec == DerivationInit /\ [][DerivationNext \/ Rest]_derivationVars

-----------------------------------------------------------------------------
(* Properties.                                                               *)

Observed == {Root(c) : c \in streamed}

\* The sample is a function of the SET of crossings, whatever their order and
\* repetitions: the cap ones with the smallest digests.  A re-observed crossing
\* that was evicted never comes back in.
SampleIsBottomHash ==
    cap # 0 =>
        retained = {a \in Observed : Cardinality({b \in Observed : hash[b] < hash[a]}) < cap}

\* exhaustive: true is never attached to anything but the complete exact set, and
\* a complete set that fits the cap is never labelled an approximation
\* (docs/lambda-tuning.md).
LabelIsTruthful ==
    Derived => LET exact == Candidates(Observed) IN
        /\ exhaustive => values = exact
        /\ exhaustive <=> (cap = 0 \/ Len(exact) <= cap)

\* However much is thinned out, the candidate set is what LambdaCandidateSet
\* accepts, within the cap, and still holds both ends of the search: zero and a
\* value past every crossing of the data.
SearchKeepsBothEnds ==
    Derived =>
        /\ IsCandidateSet(values)
        /\ cap # 0 => Len(values) <= cap
        /\ values[1] = Zero
        /\ \A root \in Observed : Below(root, values[Len(values)])

\* What preflight_lambda_search admitted before anything was materialized bounds
\* what is then done: the boundaries, candidates and replays of the search never
\* exceed the estimate the limits were checked against.
PreflightBoundsTheWork ==
    /\ Cardinality(streamed) <= UnequalCostPairs
    /\ Derived => /\ Len(Candidates(Boundaries)) <= DerivedBound
                  /\ Len(values) <= CandidateBound
=============================================================================
