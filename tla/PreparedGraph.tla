---------------------------- MODULE PreparedGraph ----------------------------
(***************************************************************************)
(* The graph of a nested leave-one-domain-out evaluation: which training   *)
(* subsets it fits, which held-out domains they score, and what the        *)
(* planner says both cost (predictors/prepared_graph.py and the estimate   *)
(* of policies/prepared_reference.py).                                     *)
(*                                                                         *)
(* Domains are 1..D in sorted order.  A training subset is named by its    *)
(* domains and a score block by its subset and destination; the code's     *)
(* indices are names of the same things (subset_by_domains and             *)
(* block_by_context translate them).  A score is a term that says where it *)
(* comes from: the domains its base fit saw, the features it was computed  *)
(* on, and the scores its calibrator was fitted to.                        *)
(***************************************************************************)
EXTENDS Integers, Sequences, FiniteSets, FiniteSetsExt, Totals

Domains(input) == DOMAIN input.rows

(* Number of examples in a set of domains. *)
RowCount(input, s) == SumOf([d \in s |-> input.rows[d]])

LeavingOut(doms, k) == {doms \ omitted : omitted \in kSubset(k, doms)}

TrainingSubsets(doms) == UNION {LeavingOut(doms, k) : k \in 1..3}

(* Subsets that get a calibrator: the fits a router is tuned or run with. *)
CalibratedSubsets(doms) == UNION {LeavingOut(doms, k) : k \in 1..2}

BlocksOf(subsets, doms) == {b \in subsets \X doms : b[2] \notin b[1]}

ScoreBlocks(doms) == BlocksOf(TrainingSubsets(doms), doms)

CalibratedBlocks(doms) == BlocksOf(CalibratedSubsets(doms), doms)

-----------------------------------------------------------------------------
(* Terms. *)

Features(input, d) == <<input.prompts[d], input.embeddings[d]>>

(* A base fit on s scores d. *)
RawScore(input, s, d) == [fit |-> s, on |-> Features(input, d)]

(* A raw score under a calibrator, which is fitted to one raw score of each *)
(* of its training domains, joined to the targets of that domain.           *)
Calibrated(raw, calibration) == [raw |-> raw, calibration |-> calibration]

(* All domains whose targets had a part in a score. *)
Sources(score) ==
    score.raw.fit \cup DOMAIN score.calibration
                  \cup UNION {score.calibration[c].fit : c \in DOMAIN score.calibration}

-----------------------------------------------------------------------------
(* What the planner expects, as closed forms over the number of domains D   *)
(* and of examples n.                                                       *)

Pairs(n) == (n * (n - 1)) \div 2
Triples(n) == (n * (n - 1) * (n - 2)) \div 6

Estimate(input) ==
    LET D == Len(input.rows)
        n == RowCount(input, Domains(input))
    IN [calibratedFits |-> D * D,
        baseFits       |-> D * ((D - 1) * (D - 1) + D),
        trainingRows   |-> n * (D - 1) * ((D - 2) * (D - 2) + (D - 1)),
        rawRows        |-> n * (D * (D - 1) + 1),
        subsets        |-> Triples(D) + Pairs(D) + D,
        blocks         |-> 3 * Triples(D) + 2 * Pairs(D) + D,
        memberships    |-> n * (Pairs(D) + 1)]

(* The pipeline's estimate walks the calibrated subsets of the plan. *)
PipelineEstimate(input) ==
    LET doms == Domains(input)
        subsets == CalibratedSubsets(doms)
        calibrationRows == SumOf([s \in subsets |-> RowCount(input, s)])
        calibratedRows == SumOf([s \in subsets |-> RowCount(input, doms \ s)])
    IN [rawReads    |-> calibrationRows + calibratedRows,
        targetReads |-> calibrationRows + RowCount(input, doms),
        reportRows  |-> Cardinality(doms) * RowCount(input, doms)]
=============================================================================
