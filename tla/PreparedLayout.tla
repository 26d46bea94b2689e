--------------------------- MODULE PreparedLayout ---------------------------
(***************************************************************************)
(* The arithmetic both ends of a prepared session do before the child      *)
(* allocates anything: the graph of training subsets and score blocks in   *)
(* wire order, the flat offsets of every weight and score, and the sizes   *)
(* that are admitted.  The child's half is preflight_session of            *)
(* native/tierroute_prepared.c, the caller's half estimate_prepared_session*)
(* of predictors/prepared_files.py and _derive_expected_graph of           *)
(* predictors/native_prepared.py.                                          *)
(*                                                                         *)
(* A shape is what a store header says: the rows and the active tags of    *)
(* each domain, the number of features and targets, the bytes of the row   *)
(* keys.  Domains are numbered from 0, a mask is a set of bits.            *)
(***************************************************************************)
EXTENDS Integers, Sequences, FiniteSets, FiniteSetsExt, Totals

(* The limits both ends compile in, as one record of numbers. *)
CONSTANT Limits

Continuous == 3
TagOffset  == 5
TagCount   == 7
Surface    == 12
Header     == [request |-> 160, store |-> 472, result |-> 448,
               coefficient |-> 48, score |-> 32]
Slack      == 73728

(* What the fields of a header can hold: any numbers, and the active tags of *)
(* each domain.                                                             *)
IsShape(shape) ==
    /\ shape.counts \in Seq(Nat) /\ Len(shape.counts) > 0
    /\ DOMAIN shape.tags = DOMAIN shape.counts
    /\ \A d \in DOMAIN shape.tags : IsFiniteSet(shape.tags[d])
    /\ shape.rows \in Nat /\ shape.features \in Nat /\ shape.targets \in Nat /\ shape.keyBytes \in Nat

(* A set in the order of "before", each element found by its rank. *)
Sorted(S, before(_, _)) ==
    LET rank == [x \in S |-> Cardinality({y \in S : before(y, x)})]
    IN [k \in 1..Cardinality(S) |-> CHOOSE x \in S : rank[x] = k - 1]

(* Sum of f over the sequence s. *)
Over(s, f(_)) == Total([k \in DOMAIN s |-> f(s[k])])

Domains(shape) == 0..(Len(shape.counts) - 1)

Rows(shape) == Total(shape.counts)

RowsIn(shape, doms) == SumOf([d \in doms |-> shape.counts[d + 1]])

-----------------------------------------------------------------------------
(* The graph.  Three nested loops, two, and one, or the combinations of the *)
(* library: sets of one size in lexicographic order.                        *)

Before(a, b) == a # b /\ Min((a \ b) \cup (b \ a)) \in a

OmittedOf(shape, k) == Sorted(kSubset(k, Domains(shape)), Before)

Omitted(shape) == OmittedOf(shape, 3) \o OmittedOf(shape, 2) \o OmittedOf(shape, 1)

TagsOf(shape, doms) == UNION {shape.tags[d + 1] : d \in doms}

WidthOf(shape, tags) == TagOffset + Cardinality(tags) + shape.features - Surface

Subset(shape, omitted) ==
    LET trained == Domains(shape) \ omitted
        tags == TagsOf(shape, trained)
    IN [domains |-> trained, rows |-> RowsIn(shape, trained), tags |-> tags,
        width |-> WidthOf(shape, tags)]

Subsets(shape) ==
    LET omitted == Omitted(shape)
    IN [k \in DOMAIN omitted |-> Subset(shape, omitted[k])]

(* The destinations of one subset, ascending; then of the next. *)
Destinations(subsets, shape) ==
    {p \in (DOMAIN subsets) \X Domains(shape) : p[2] \notin subsets[p[1]].domains}

Sooner(p, q) == p[1] < q[1] \/ (p[1] = q[1] /\ p[2] < q[2])

Blocks(subsets, shape) ==
    LET reached == Sorted(Destinations(subsets, shape), Sooner)
    IN [b \in DOMAIN reached |->
           [subset |-> reached[b][1], domain |-> reached[b][2],
            rows |-> shape.counts[reached[b][2] + 1]]]

(* The raw column behind a packed one: surface, then active tags, then the *)
(* embedding.                                                              *)
ActiveRaw(tags, position) ==
    LET active == Sorted(tags, <)
        tag == position - TagOffset
    IN IF position < TagOffset THEN position
       ELSE IF tag < Len(active) THEN TagOffset + active[tag + 1]
       ELSE Surface + tag - Len(active)

-----------------------------------------------------------------------------
(* The child's plan. *)

Packed(shape) == (shape.features * (shape.features + 1)) \div 2
MomentCells(shape) == shape.features + shape.targets + Packed(shape) + shape.features * shape.targets
CoefficientCells(shape, s) == 2 * Continuous + shape.targets + shape.targets * s.width
WeightCells(shape, s) == shape.targets * s.width
ScoreCells(shape, b) == shape.targets * b.rows
Offset(s, k, cells(_)) == Over(SubSeq(s, 1, k - 1), cells)

Padded(n) == ((n + 7) \div 8) * 8
DomainEnd(shape) == Header.store + shape.keyBytes + Rows(shape)
FileBytes(shape) == Padded(DomainEnd(shape)) + 8 * Rows(shape) * (shape.features + shape.targets)

(* A plausible slip: one triangular solve for every target, not two. *)
SolveWorkHalved(shape, s) ==
    s.width * s.width * s.width + shape.targets * s.width * s.width + shape.targets * s.width

SolveWork(shape, s) ==
    s.width * s.width * s.width + 2 * shape.targets * s.width * s.width + shape.targets * s.width

(* The cells of every buffer allocate_buffers asks for, whatever its type. *)
Buffers(shape, subsets, blocks) ==
    LET F == shape.features
        M == shape.targets
        n == Rows(shape)
        widest == Max({subsets[k].width : k \in DOMAIN subsets})
    IN [targets |-> n * M, moments |-> Len(shape.counts) * MomentCells(shape),
        means |-> Len(subsets) * Continuous, scales |-> Len(subsets) * Continuous,
        intercepts |-> Len(subsets) * M,
        weights |-> Over(subsets, LAMBDA s : WeightCells(shape, s)),
        scores |-> Over(blocks, LAMBDA b : ScoreCells(shape, b)),
        featureRow |-> F, deltaX |-> F, deltaY |-> M, xMean |-> F, yMean |-> M,
        xx |-> Packed(shape), xy |-> F * M,
        gram |-> widest * widest, cholesky |-> widest * widest, rightHandSides |-> M * widest]

AllocatedBytes(shape, subsets, blocks) ==
    LET cells == Buffers(shape, subsets, blocks)
    IN Rows(shape) + 8 * SumOf(cells)

Plan(shape) ==
    LET subsets == Subsets(shape)
        blocks == Blocks(subsets, shape)
        F == shape.features
        M == shape.targets
        n == Rows(shape)
        coefficients == Over(subsets, LAMBDA s : CoefficientCells(shape, s))
        scores == Over(blocks, LAMBDA b : ScoreCells(shape, b))
        result == Header.result + Header.coefficient * Len(subsets) + 8 * coefficients
                                + Header.score * Len(blocks) + 8 * scores
        widest == Max({subsets[k].width : k \in DOMAIN subsets})
    IN [subsets |-> subsets, blocks |-> blocks,
        weightOffset |-> [k \in DOMAIN subsets |->
            Offset(subsets, k, LAMBDA s : WeightCells(shape, s))],
        scoreOffset |-> [b \in DOMAIN blocks |->
            Offset(blocks, b, LAMBDA c : ScoreCells(shape, c))],
        numbers |->
           [memberships |-> Over(blocks, LAMBDA b : b.rows),
            resultBytes |-> result,
            statistics |-> n * (3 * (F + M) + Packed(shape) + F * M),
            solve |-> Over(subsets, LAMBDA s : SolveWork(shape, s)),
            score |-> Over(blocks, LAMBDA b : ScoreCells(shape, b) * subsets[b.subset].width),
            heap |-> 8 * (n * M + Len(shape.counts) * MomentCells(shape)
                          + Len(subsets) * (2 * Continuous + M)
                          + Over(subsets, LAMBDA s : WeightCells(shape, s)) + scores
                          + 3 * F + 2 * M + Packed(shape) + F * M
                          + 2 * widest * widest + M * widest) + n + Slack,
            scanned |-> FileBytes(shape) + shape.keyBytes + n
                        + (Padded(DomainEnd(shape)) - DomainEnd(shape))
                        + 8 * n * M + 2 * 8 * n * F,
            cells |-> coefficients + scores]]

WithinLimits(shape, numbers) ==
    /\ FileBytes(shape) <= Limits.store
    /\ numbers.resultBytes <= Limits.result
    /\ numbers.statistics + numbers.solve + numbers.score <= Limits.work
    /\ numbers.heap <= Limits.heap
    /\ Header.request + FileBytes(shape) + numbers.resultBytes <= Limits.scratch

-----------------------------------------------------------------------------
(* The caller's estimate: one pass over the omitted sets, in the terms of  *)
(* the rows that are left out.                                             *)

Estimate(shape) ==
    LET F == shape.features
        M == shape.targets
        n == Rows(shape)
        D == Len(shape.counts)
        omitted == Omitted(shape)
        Width(o) == F - TagCount + Cardinality(TagsOf(shape, Domains(shape) \ o))
        Left(o) == RowsIn(shape, o)
        Record(o) == 6 + M + M * Width(o)
        outputs == Over(omitted, LAMBDA o : Record(o) + Left(o) * M)
        widest == Max({Width(omitted[k]) : k \in DOMAIN omitted})
        packed == (F * (F + 1)) \div 2
    IN [memberships |-> Over(omitted, Left),
        resultBytes |-> Header.result
            + Over(omitted, LAMBDA o : Header.coefficient + 8 * Record(o)
                                       + Header.score * Cardinality(o) + 8 * Left(o) * M),
        statistics |-> 3 * n * (F + M) + (n * F * (F + 1)) \div 2 + n * F * M,
        solve |-> Over(omitted, LAMBDA o :
                    Width(o) * Width(o) * Width(o) + 2 * M * Width(o) * Width(o) + M * Width(o)),
        score |-> Over(omitted, LAMBDA o : Left(o) * M * Width(o)),
        heap |-> 8 * (n * M + D * (F + M + packed + F * M) + Len(omitted) * (6 + M)
                      + Over(omitted, LAMBDA o : M * Width(o)) + Over(omitted, Left) * M
                      + 3 * F + 2 * M + packed + F * M + 2 * widest * widest + M * widest)
                 + n + Slack,
        scanned |-> FileBytes(shape) + shape.keyBytes + n + ((8 - (DomainEnd(shape) % 8)) % 8)
                    + 8 * n * M + 2 * (8 * n * F),
        cells |-> outputs]
=============================================================================
