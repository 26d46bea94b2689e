----------------------------- MODULE NestedLodo ------------------------------
(***************************************************************************)
(* The nested evaluation of the lambda router (policies/lambda_tuning.py)  *)
(* served by one of its three trainers: fits made on demand                *)
(* (predictors/training.py), scores prepared for the whole graph           *)
(* (policies/prepared_reference.py), and scores mapped from a native       *)
(* session and copied before use (policies/native_prepared_benchmark.py).  *)
(*                                                                         *)
(* Abstracted: examples are grouped by domain, one batch of prompts each;  *)
(* numbers are terms (PreparedGraph); a tuning is what it was computed     *)
(* from.  Embeddings of two domains are equal when every trainer gives     *)
(* their rows equal scores.  Whether a tuning finds, for every tier, a     *)
(* lambda whose replay keeps all queries within the budget is the business *)
(* of LambdaTuning; here an input says on which training sides it does     *)
(* not.                                                                    *)
(***************************************************************************)
EXTENDS PreparedGraph

CONSTANTS Inputs,    \* records of the rows, prompts and embeddings of each domain,
                     \* and of the outer folds that some tier has no lambda for
          Trainers,  \* subset of {"bilinear", "reference", "native"}
          None

ASSUME InputsAssumption ==
    \A i \in Inputs : /\ i.rows \in Seq(Nat \ {0}) /\ i.rows # <<>>
                      /\ DOMAIN i.prompts = DOMAIN i.rows
                      /\ DOMAIN i.embeddings = DOMAIN i.rows
                      /\ i.infeasible \subseteq DOMAIN i.rows

(* What a predictor fitted to s gives for d, and what the lambdas of an     *)
(* outer fold are tuned on.                                                 *)
Calibration(i, s) == [c \in s |-> RawScore(i, s \ {c}, c)]
Score(i, s, d) == Calibrated(RawScore(i, s, d), Calibration(i, s))
Tuning(i, a) == [rows |-> Domains(i) \ {a},
                 scores |-> [b \in Domains(i) \ {a} |-> Score(i, Domains(i) \ {a, b}, b)]]

(* The prepared scores of the domains outside s, as they are looked up.    *)
Lookup(i, s) == [p \in {i.prompts[d] : d \in Domains(i) \ s} |->
                    Score(i, s, CHOOSE d \in Domains(i) \ s : i.prompts[d] = p)]

ASSUME TrainersAssumption == Trainers \subseteq {"bilinear", "reference", "native"}

ASSUME NoneAssumption ==
    \A i \in Inputs : \A s \in SUBSET Domains(i) :
        /\ None \notin {Calibration(i, s), Lookup(i, s)}
        /\ \A d \in Domains(i) : None \notin {Score(i, s, d), Tuning(i, d)}

VARIABLES
    input, trainer, refused,  \* chosen at the start and never changed
    pc,
    outer, target,   \* outer fold, and the domain the next predictor is for
    blocks,          \* raw score blocks, by training subset and destination
    altered,         \* the mapped blocks have been altered since they were pinned
    calibrations,    \* cached calibrators, by training subset
    calibrated,      \* calibrated blocks, by training subset and destination
    predictors,      \* cached predictors, by training subset
    predictor,       \* the predictor last trained: scores by prompt batch
    innerScores,     \* cross-fitted scores inside the outer fold
    schedule,        \* tuning of every finished outer fold
    outerScores,     \* scores of every finished outer fold
    work             \* counters, and the raw blocks that were read

graphVars == <<blocks, altered, calibrations, calibrated>>
foldVars == <<outer, target, innerScores, schedule, outerScores>>
vars == <<input, trainer, refused, pc, graphVars, foldVars, predictors, predictor, work>>

doms == Domains(input)
(* Mutant: the tuning fold is left in its own training side. *)
TrainingWithTarget == doms \ {outer}

Training == doms \ {outer, target}
PromptsOf(s) == {input.prompts[d] : d \in s}
NoRows == [d \in doms |-> None]

PlanBlocks == [b \in ScoreBlocks(doms) |-> RawScore(input, b[1], b[2])]
NoWork == [calibratedFits |-> 0, baseFits |-> 0, trainingRows |-> 0, rawRows |-> 0,
           memberships |-> 0, rawReads |-> 0, targetReads |-> 0, reportRows |-> 0,
           read |-> {}]

Ambiguous == \E d, e \in doms :
    input.prompts[d] = input.prompts[e] /\ input.embeddings[d] # input.embeddings[e]

(* The provider of the on-demand trainer is a function of the prompt. *)
Init ==
    /\ input \in Inputs /\ trainer \in Trainers
    /\ trainer = "bilinear" => ~Ambiguous
    /\ refused \in {{}, {Len(input.rows)}}
    /\ pc = IF trainer = "bilinear" THEN "preflight" ELSE "prepare"
    /\ outer = 1 /\ target = 1
    /\ blocks = None /\ altered = FALSE
    /\ calibrations = [s \in CalibratedSubsets(doms) |-> None]
    /\ calibrated = [b \in CalibratedBlocks(doms) |-> None]
    /\ predictors = [s \in CalibratedSubsets(doms) |-> None]
    /\ predictor = None
    /\ innerScores = NoRows /\ schedule = NoRows /\ outerScores = NoRows
    /\ work = NoWork

Raise ==
    /\ pc' = "raised"
    /\ UNCHANGED <<graphVars, foldVars, predictors, predictor, work>>

-----------------------------------------------------------------------------
(* Outside of these the plan is refused before anything is enumerated. *)
PlanAdmitted == Len(input.rows) \in 4..7

(* Plan, coefficients and raw scores of the whole graph. *)
Prepare ==
    /\ pc = "prepare"
    /\ IF ~PlanAdmitted THEN Raise
       ELSE /\ blocks' = PlanBlocks
            /\ work' = [work EXCEPT
                  !.baseFits = Cardinality(TrainingSubsets(doms)),
                  !.memberships = SumOf([b \in ScoreBlocks(doms) |-> input.rows[b[2]]])]
            /\ pc' = "preflight"
            /\ UNCHANGED <<altered, calibrations, calibrated, foldVars, predictors, predictor>>
    /\ UNCHANGED <<input, trainer, refused>>

(* The search of one outer fold, or what the native bridge replays beside  *)
(* it, is estimated above a limit; two domains cannot be nested.           *)
FoldsRefused == refused # {} \/ Len(input.rows) < 3

(* The prepared trainers read all targets once, for the identities of the   *)
(* shards they will be joined by.                                           *)
ShardTargets == IF trainer = "bilinear" THEN 0 ELSE RowCount(input, doms)

(* Every outer fold is admitted before the first fit.  The native consumer  *)
(* verifies the mapping a first time.                                       *)
Preflight ==
    /\ pc = "preflight"
    /\ IF \/ FoldsRefused
          \/ trainer = "native" /\ blocks # PlanBlocks
       THEN Raise
       ELSE /\ pc' = IF trainer = "native" THEN "calibrate" ELSE "train"
            /\ target' = 2
            /\ work' = [work EXCEPT !.targetReads = ShardTargets]
            /\ UNCHANGED <<graphVars, outer, innerScores, schedule, outerScores,
                           predictors, predictor>>
    /\ UNCHANGED <<input, trainer, refused>>

-----------------------------------------------------------------------------
(* Calibrators and calibrated blocks out of the raw blocks. *)

CalibrationBlocks(s) == {<<s \ {c}, c>> : c \in s}
CalibrationFor(s) == [c \in s |-> blocks[<<s \ {c}, c>>]]
CalibratedBlock(s, d, calibration) == Calibrated(blocks[<<s, d>>], calibration)

Destinations(s) == {<<s, d>> : d \in doms \ s}

(* Reading the rows of some blocks, and the targets of calibration rows. *)
Reading(read, targetRows) ==
    [work EXCEPT !.rawReads = @ + SumOf([b \in read |-> input.rows[b[2]]]),
                 !.targetReads = @ + targetRows,
                 !.read = @ \cup read]

(* The mapping of the native result is altered under the reader, once.  (An *)
(* alteration undone before the next verification could not be noticed.)    *)
Alter ==
    /\ trainer = "native" /\ blocks # None /\ ~altered
    /\ \E b \in ScoreBlocks(doms) :
          blocks' = [blocks EXCEPT ![b] = [fit |-> doms, on |-> None]]
    /\ altered' = TRUE
    /\ UNCHANGED <<input, trainer, refused, pc, calibrations, calibrated, foldVars,
                   predictors, predictor, work>>

(* The native consumer calibrates every subset of the plan first ... *)
CalibrateAll ==
    /\ pc = "calibrate"
    /\ calibrations' = [s \in CalibratedSubsets(doms) |-> CalibrationFor(s)]
    /\ work' = Reading(UNION {CalibrationBlocks(s) : s \in CalibratedSubsets(doms)},
                       SumOf([s \in CalibratedSubsets(doms) |-> RowCount(input, s)]))
    /\ pc' = "apply"
    /\ UNCHANGED <<input, trainer, refused, blocks, altered, calibrated, foldVars,
                   predictors, predictor>>

(* ... then copies every calibrated destination block ... *)
ApplyAll ==
    /\ pc = "apply"
    /\ calibrated' = [b \in CalibratedBlocks(doms) |->
                         CalibratedBlock(b[1], b[2], calibrations[b[1]])]
    /\ work' = Reading(CalibratedBlocks(doms), 0)
    /\ pc' = "rehash"
    /\ UNCHANGED <<input, trainer, refused, blocks, altered, calibrations, foldVars,
                   predictors, predictor>>

(* ... and verifies the mapping after the last read of it. *)
Rehash ==
    /\ pc = "rehash"
    /\ IF blocks # PlanBlocks THEN Raise
       ELSE /\ pc' = "train"
            /\ UNCHANGED <<graphVars, foldVars, predictors, predictor, work>>
    /\ UNCHANGED <<input, trainer, refused>>

-----------------------------------------------------------------------------
(* train_predictor, for the rows of Training. *)

Trained(p) == predictor' = p /\ pc' = "predict"

OnDemandPredictor(s) ==
    [p \in PromptsOf(doms) |->
        LET d == CHOOSE e \in doms : input.prompts[e] = p
        IN Score(input, s, d)]

TrainBilinear ==
    /\ pc = "train" /\ trainer = "bilinear"
    /\ IF Cardinality(Training) < 2 THEN Raise
       ELSE /\ Trained(OnDemandPredictor(Training))
            /\ work' = [work EXCEPT
                  !.calibratedFits = @ + 1,
                  !.baseFits = @ + Cardinality(Training) + 1,
                  !.trainingRows = @ + RowCount(input, Training)
                      + SumOf([c \in Training |-> RowCount(input, Training \ {c})]),
                  !.rawRows = @ + RowCount(input, Training)]
            /\ UNCHANGED <<graphVars, foldVars, predictors>>
    /\ UNCHANGED <<input, trainer, refused>>

(* Prepared scores of the destinations of s, as a table by prompt batch.    *)
(* Of several domains with the same prompts any one will do: Collides has  *)
(* refused those whose scores differ.                                      *)
Table(s, scores) ==
    [p \in PromptsOf(doms \ s) |-> scores[CHOOSE d \in doms \ s : input.prompts[d] = p]]

(* Mutant: the last domain with the same prompts wins. *)
LastWins(s, scores) == scores # scores /\ s # s

Collides(s, scores) ==
    \E d, e \in doms \ s : input.prompts[d] = input.prompts[e] /\ scores[d] # scores[e]

(* Mutant: every request is calibrated anew. *)
NeverCached(s) == s # s

Cached(s) == predictors[s] # None

UseCached(s) ==
    /\ Trained(predictors[s])
    /\ UNCHANGED <<graphVars, foldVars, predictors, work>>

Serve(s, scores) ==
    /\ Trained(Table(s, scores))
    /\ predictors' = [predictors EXCEPT ![s] = Table(s, scores)]

(* Calibrates a subset the first time it is asked for. *)
TrainReference ==
    /\ pc = "train" /\ trainer = "reference"
    /\ LET s == Training
           calibration == CalibrationFor(s)
           scores == [d \in doms \ s |-> CalibratedBlock(s, d, calibration)]
       IN IF s \notin CalibratedSubsets(doms) THEN Raise
          ELSE IF Cached(s) THEN UseCached(s)
          ELSE IF Collides(s, scores) THEN Raise
          ELSE /\ Serve(s, scores)
               /\ calibrations' = [calibrations EXCEPT ![s] = calibration]
               /\ calibrated' = [b \in CalibratedBlocks(doms) |->
                                    IF b[1] = s THEN scores[b[2]] ELSE calibrated[b]]
               /\ work' = Reading(CalibrationBlocks(s) \cup Destinations(s), RowCount(input, s))
               /\ UNCHANGED <<blocks, altered, foldVars>>
    /\ UNCHANGED <<input, trainer, refused>>

(* Serves copies only: the mapping is closed by now. *)
TrainNative ==
    /\ pc = "train" /\ trainer = "native"
    /\ LET s == Training
           scores == [d \in doms \ s |-> calibrated[<<s, d>>]]
       IN IF s \notin CalibratedSubsets(doms) THEN Raise
          ELSE IF Cached(s) THEN UseCached(s)
          ELSE IF Collides(s, scores) THEN Raise
          ELSE Serve(s, scores) /\ UNCHANGED <<graphVars, foldVars, work>>
    /\ UNCHANGED <<input, trainer, refused>>

-----------------------------------------------------------------------------
(* The outer and inner loops: cross-fit every other domain, tune, refit,   *)
(* score the outer domain.                                                 *)

After(d) == {e \in doms \ {outer} : e > d}
Request(d) == target' = d /\ pc' = "train"

(* Only the on-demand trainer computes scores when it is asked for them. *)
CountPrediction ==
    work' = [work EXCEPT !.rawRows = @ + IF trainer = "bilinear" THEN input.rows[target] ELSE 0]

(* A prepared predictor knows the batches of prompts outside its subset.    *)
UnknownPrompts == input.prompts[target] \notin DOMAIN predictor

PredictInner ==
    /\ pc = "predict" /\ target # outer
    /\ IF UnknownPrompts THEN Raise
       ELSE /\ innerScores' = [innerScores EXCEPT ![target] = predictor[input.prompts[target]]]
            /\ IF After(target) = {} THEN pc' = "tune" /\ target' = target
               ELSE \E d \in After(target) : (\A e \in After(target) : d <= e) /\ Request(d)
            /\ CountPrediction
            /\ UNCHANGED <<graphVars, outer, schedule, outerScores, predictors, predictor>>
    /\ UNCHANGED <<input, trainer, refused>>

(* A prediction table must cover exactly the rows it is used for.           *)
Covers(scores, rows) == \A d \in rows : scores[d] # None

(* What is retained of an outer fold: no row of it is held out.             *)
OuterFold(training) ==
    [rows |-> training, scores |-> [d \in training |-> innerScores[d]]]

(* tune_tier_lambdas raises for a tier of which every candidate's replay    *)
(* left a query without an answer it could pay for.                         *)
LambdaFound == outer \notin input.infeasible

(* One lambda per tier, from the cross-fitted scores of the whole outer    *)
(* training side; its replay report is retained.                           *)
Tune ==
    /\ pc = "tune"
    /\ LET training == doms \ {outer}
       IN IF ~Covers(innerScores, training) \/ ~LambdaFound THEN Raise
          ELSE /\ schedule' = [schedule EXCEPT ![outer] = OuterFold(training)]
               /\ work' = [work EXCEPT !.reportRows = @ + RowCount(input, training)]
               /\ Request(outer)
               /\ UNCHANGED <<graphVars, outer, innerScores, outerScores, predictors, predictor>>
    /\ UNCHANGED <<input, trainer, refused>>

LastFold == outer = Len(input.rows)

PredictOuter ==
    /\ pc = "predict" /\ target = outer
    /\ IF UnknownPrompts THEN Raise
       ELSE /\ outerScores' = [outerScores EXCEPT ![outer] = predictor[input.prompts[outer]]]
            /\ innerScores' = NoRows
            /\ IF LastFold
               THEN pc' = "replay" /\ UNCHANGED <<outer, target>>
               ELSE outer' = outer + 1 /\ Request(1)
            /\ CountPrediction
            /\ UNCHANGED <<graphVars, schedule, predictors, predictor>>
    /\ UNCHANGED <<input, trainer, refused>>

(* One replay of all rows in their original order, after every row is known *)
(* to have a score and a lambda; the reference pipeline also insists that   *)
(* every calibrator and every calibrated block of the plan was used.        *)
Replay ==
    /\ pc = "replay"
    /\ IF \/ ~Covers(outerScores, doms) \/ \E d \in doms : schedule[d] = None
          \/ /\ trainer = "reference"
             /\ \/ \E s \in CalibratedSubsets(doms) : calibrations[s] = None
                \/ \E b \in CalibratedBlocks(doms) : calibrated[b] = None
       THEN Raise
       ELSE /\ pc' = "done"
            /\ work' = [work EXCEPT !.reportRows = @ + RowCount(input, doms)]
            /\ UNCHANGED <<graphVars, foldVars, predictors, predictor>>
    /\ UNCHANGED <<input, trainer, refused>>

-----------------------------------------------------------------------------
Step == \/ Prepare \/ Preflight \/ CalibrateAll \/ ApplyAll \/ Rehash
        \/ TrainBilinear \/ TrainReference \/ TrainNative
        \/ PredictInner \/ Tune \/ PredictOuter \/ Replay

Next == Step \/ Alter

(* A single thread that runs until it returns or raises. *)
Spec == Init /\ [][Next]_vars /\ WF_vars(Step)

-----------------------------------------------------------------------------
(* Each variable holds what its phase of the evaluation allows. *)
TypeOK ==
    /\ input \in Inputs /\ trainer \in Trainers /\ refused \subseteq doms
    /\ pc \in {"prepare", "preflight", "calibrate", "apply", "rehash", "train", "predict",
               "tune", "replay", "done", "raised"}
    /\ outer \in doms /\ target \in doms /\ altered \in BOOLEAN
    /\ blocks # None => DOMAIN blocks = ScoreBlocks(doms)
    /\ DOMAIN calibrations = CalibratedSubsets(doms)
    /\ DOMAIN predictors = CalibratedSubsets(doms)
    /\ DOMAIN calibrated = CalibratedBlocks(doms)
    /\ \A f \in {innerScores, schedule, outerScores} : DOMAIN f = doms

(* No trace of the domains in away in a score, and its calibrator was      *)
(* fitted to held-out scores.                                              *)
Clean(score, away) ==
    /\ Sources(score) \cap away = {}
    /\ \A c \in DOMAIN score.calibration : c \notin score.calibration[c].fit

(* No target of a held-out domain has any part in what is said about that  *)
(* domain: the scores an outer domain is routed with, its lambdas, and the *)
(* cross-fitted scores those were tuned on, which leave out their own      *)
(* domain as well.  A shared fit, a shared cache or a mapped score altered *)
(* in between would show here.                                             *)
LeakFree ==
    /\ \A b \in doms : innerScores[b] # None => Clean(innerScores[b], {outer, b})
    /\ \A a \in doms : schedule[a] # None =>
          /\ a \notin schedule[a].rows
          /\ \A b \in DOMAIN schedule[a].scores : Clean(schedule[a].scores[b], {a, b})
    /\ \A a \in doms : outerScores[a] # None => Clean(outerScores[a], {a})

(* A finished evaluation did exactly the work the planner estimated: the   *)
(* repeated fits of the on-demand trainer, or the solves, score rows, reads *)
(* and reports of the prepared ones, which read every block of the plan.   *)
(* An evaluation whose preflight refuses a fold has not fitted anything.   *)
WorkIsAsPlanned ==
    /\ pc = "done" =>
          /\ work.reportRows = PipelineEstimate(input).reportRows
          /\ trainer = "bilinear" =>
                \A f \in {"calibratedFits", "baseFits", "trainingRows", "rawRows"} :
                    work[f] = Estimate(input)[f]
          /\ trainer # "bilinear" =>
                /\ work.baseFits = Estimate(input).subsets
                /\ work.memberships = Estimate(input).memberships
                /\ work.rawReads = PipelineEstimate(input).rawReads
                /\ work.targetReads = PipelineEstimate(input).targetReads
                /\ work.read = ScoreBlocks(doms)
                /\ Cardinality(work.read) = Estimate(input).blocks
    /\ refused # {} => work.calibratedFits = 0 /\ work.rawReads = 0

-----------------------------------------------------------------------------
outcome == IF pc \in {"done", "raised"} THEN pc ELSE "running"

answer == IF pc # "done" THEN None
          ELSE [a \in doms |-> [score |-> outerScores[a], tuning |-> schedule[a]]]

Textbook == INSTANCE TextbookLodo WITH disturbed <- altered

(* Whichever trainer serves it, the evaluation returns the textbook answer, *)
(* refuses only what the contract lets it refuse, and does one of the two.  *)
ImplementsTextbook == Textbook!TextbookSpec
=============================================================================
