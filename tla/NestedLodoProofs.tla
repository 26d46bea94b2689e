--------------------------- MODULE NestedLodoProofs --------------------------
(***************************************************************************)
(* The nested evaluation leaks nothing, implements its textbook contract   *)
(* and does the work its planner announces, for every set of inputs and    *)
(* every trainer.  The first part of the argument is that each score it    *)
(* stores is exactly the textbook score of its fold: fits, caches and      *)
(* mapped blocks are followed from the plan to the answer, and a mapping   *)
(* altered on the way is known to fail the final verification.  The second *)
(* is that whatever a step looks up is there, so that the only raises are  *)
(* the contract's refusals.  The third counts: every counter is a sum over *)
(* the requests made, or the subsets calibrated, so far, and what is left  *)
(* of the planner's closed forms is the counting of subsets and pairs.     *)
(***************************************************************************)
EXTENDS NestedLodo, TotalsProofs, FiniteSetTheorems, TLAPS

(* The conditions the steps are guarded by are used as they stand. *)
USE DEF PlanAdmitted, FoldsRefused, ShardTargets, UnknownPrompts, Covers, OuterFold

Plan(i) == [b \in ScoreBlocks(Domains(i)) |-> RawScore(i, b[1], b[2])]

PlanCalibrations(i) ==
    [s \in CalibratedSubsets(Domains(i)) |-> Calibration(i, s)]

PlanCalibrated(i) == [b \in CalibratedBlocks(Domains(i)) |-> Score(i, b[1], b[2])]

(* Whatever a predictor of s has for a domain outside s is its score. *)
Good(i, p, s) ==
    \A d \in Domains(i) \ s : i.prompts[d] \in DOMAIN p => p[i.prompts[d]] = Score(i, s, d)

-----------------------------------------------------------------------------
Serving == pc \in {"train", "predict", "tune", "replay", "done"}

TrainerInv ==
    /\ trainer = "bilinear" => ~Ambiguous /\ ~altered
    /\ pc = "prepare" => trainer # "bilinear" /\ blocks = None /\ ~altered
    /\ pc \in {"calibrate", "apply", "rehash"} => trainer = "native"
    /\ altered => trainer = "native"

BlocksInv ==
    /\ altered => blocks # Plan(input)
    /\ ~altered /\ trainer # "bilinear" /\ pc \notin {"prepare", "raised"} =>
          blocks = Plan(input)
    /\ pc = "apply" /\ ~altered => calibrations = PlanCalibrations(input)
    /\ pc = "rehash" /\ ~altered => calibrated = PlanCalibrated(input)
    /\ Serving /\ trainer = "native" => calibrated = PlanCalibrated(input)

PredictorInv ==
    /\ \A s \in CalibratedSubsets(doms) :
          predictors[s] # None => Good(input, predictors[s], s)
    /\ pc = "predict" => Good(input, predictor, Training)

ScoreInv ==
    /\ \A b \in doms : innerScores[b] # None =>
          b # outer /\ innerScores[b] = Score(input, doms \ {outer, b}, b)
    /\ \A a \in doms : schedule[a] # None => schedule[a] = Tuning(input, a)
    /\ \A a \in doms : outerScores[a] # None =>
          outerScores[a] = Score(input, doms \ {a}, a)

IInv == TypeOK /\ TrainerInv /\ BlocksInv /\ PredictorInv /\ ScoreInv

-----------------------------------------------------------------------------
(* Domains are the positions of the rows, finitely many. *)
LEMMA DomainsAreFinite ==
    ASSUME NEW i \in Inputs
    PROVE  /\ Domains(i) = 1..Len(i.rows) /\ Len(i.rows) \in Nat \ {0}
           /\ IsFiniteSet(Domains(i))
  <1>1. /\ i.rows \in Seq(Nat \ {0}) /\ i.rows # <<>>
    BY InputsAssumption
  <1>2. Domains(i) = 1..Len(i.rows) /\ Len(i.rows) \in Nat \ {0}
    BY <1>1 DEF Domains
  <1> QED BY <1>2, FS_Interval

(* The graph has every block that calibrating or serving one of its        *)
(* calibrated subsets looks up.                                            *)
LEMMA BlocksAreThere ==
    ASSUME NEW i \in Inputs, NEW s \in CalibratedSubsets(Domains(i))
    PROVE  /\ s \subseteq Domains(i)
           /\ \A c \in s : <<s \ {c}, c>> \in ScoreBlocks(Domains(i))
           /\ \A d \in Domains(i) \ s : /\ <<s, d>> \in ScoreBlocks(Domains(i))
                                        /\ <<s, d>> \in CalibratedBlocks(Domains(i))
  <1> DEFINE D == Domains(i)
  <1>1. PICK k \in 1..2 : s \in LeavingOut(D, k)
    BY DEF CalibratedSubsets
  <1>2. PICK omitted \in SUBSET D : Cardinality(omitted) = k /\ s = D \ omitted
    BY <1>1 DEF LeavingOut, kSubset
  <1>3. s \in TrainingSubsets(D)
    BY <1>1 DEF TrainingSubsets
  <1>4. ASSUME NEW c \in s PROVE <<s \ {c}, c>> \in ScoreBlocks(D)
    <2>1. IsFiniteSet(omitted)
      BY DomainsAreFinite, FS_Subset
    <2>2. Cardinality(omitted \cup {c}) = k + 1
      BY <1>2, <2>1, FS_AddElement
    <2>3. omitted \cup {c} \in kSubset(k + 1, D)
      BY <1>2, <2>2 DEF kSubset
    <2>4. s \ {c} = D \ (omitted \cup {c})
      BY <1>2
    <2>5. s \ {c} \in LeavingOut(D, k + 1) /\ k + 1 \in 1..3
      BY <2>3, <2>4 DEF LeavingOut
    <2>6. s \ {c} \in TrainingSubsets(D)
      BY <2>5 DEF TrainingSubsets
    <2> QED BY <2>6, <1>2 DEF ScoreBlocks, BlocksOf
  <1> QED BY <1>2, <1>3, <1>4 DEF ScoreBlocks, CalibratedBlocks, BlocksOf

(* An altered block is not the block of any plan. *)
LEMMA AlteredIsVisible ==
    ASSUME NEW i \in Inputs, NEW b \in ScoreBlocks(Domains(i)),
           NEW m, DOMAIN m = ScoreBlocks(Domains(i))
    PROVE  [m EXCEPT ![b] = [fit |-> Domains(i), on |-> None]] # Plan(i)
  <1> DEFINE altd == [m EXCEPT ![b] = [fit |-> Domains(i), on |-> None]]
  <1>1. b[2] \in Domains(i) /\ b[2] \notin b[1]
    BY DEF ScoreBlocks, BlocksOf
  <1>2. Plan(i)[b].fit = b[1]
    BY DEF Plan, RawScore
  <1>3. SUFFICES ASSUME altd = Plan(i) PROVE FALSE
    OBVIOUS
  <1>4. altd[b].fit = b[1]
    BY <1>2, <1>3
  <1> QED BY <1>1, <1>4

(* A score leaves out what its training domains leave out. *)
LEMMA ScoreIsClean ==
    ASSUME NEW i, NEW s, NEW d, NEW away, s \cap away = {}
    PROVE  Clean(Score(i, s, d), away)
  <1>1. /\ Score(i, s, d).raw.fit = s
        /\ DOMAIN Score(i, s, d).calibration = s
        /\ \A c \in s : Score(i, s, d).calibration[c].fit = s \ {c}
    BY DEF Score, Calibration, Calibrated, RawScore
  <1> QED BY <1>1 DEF Clean, Sources

-----------------------------------------------------------------------------
(* The predictors that the three trainers make. *)

LEMMA OnDemandIsGood ==
    ASSUME input \in Inputs, ~Ambiguous, NEW s
    PROVE  Good(input, OnDemandPredictor(s), s)
  <1> SUFFICES ASSUME NEW d \in doms \ s
               PROVE  OnDemandPredictor(s)[input.prompts[d]] = Score(input, s, d)
    BY DEF Good, doms
  <1> DEFINE e == CHOOSE x \in doms : input.prompts[x] = input.prompts[d]
  <1>1. e \in doms /\ input.prompts[e] = input.prompts[d]
    OBVIOUS
  <1>2. input.embeddings[e] = input.embeddings[d]
    BY <1>1 DEF Ambiguous
  <1>3. RawScore(input, s, e) = RawScore(input, s, d)
    BY <1>1, <1>2 DEF RawScore, Features
  <1>4. input.prompts[d] \in PromptsOf(doms)
    BY DEF PromptsOf
  <1> QED BY <1>3, <1>4 DEF OnDemandPredictor, Score, Calibration

LEMMA TableIsGood ==
    ASSUME NEW s, NEW scores, ~Collides(s, scores),
           \A d \in doms \ s : scores[d] = Score(input, s, d)
    PROVE  Good(input, Table(s, scores), s)
  <1> SUFFICES ASSUME NEW d \in doms \ s
               PROVE  Table(s, scores)[input.prompts[d]] = Score(input, s, d)
    BY DEF Good, doms
  <1> DEFINE e == CHOOSE x \in doms \ s : input.prompts[x] = input.prompts[d]
  <1>1. e \in doms \ s /\ input.prompts[e] = input.prompts[d]
    OBVIOUS
  <1>2. scores[e] = scores[d]
    BY <1>1 DEF Collides
  <1>3. input.prompts[d] \in PromptsOf(doms \ s)
    BY DEF PromptsOf
  <1> QED BY <1>2, <1>3 DEF Table

-----------------------------------------------------------------------------
(* Initially. *)
LEMMA InitEstablishes == Init => IInv
  <1> SUFFICES ASSUME Init PROVE IInv
    OBVIOUS
  <1>1. doms = 1..Len(input.rows) /\ Len(input.rows) \in Nat \ {0}
    BY DomainsAreFinite DEF Init, doms
  <1>2. TypeOK
    <2>1. 1 \in doms /\ Len(input.rows) \in doms
      BY <1>1
    <2>2. outer \in doms /\ target \in doms /\ refused \subseteq doms
      BY <2>1 DEF Init
    <2>3. \A f \in {innerScores, schedule, outerScores} : DOMAIN f = doms
      BY DEF Init, NoRows
    <2> QED BY <2>2, <2>3 DEF Init, TypeOK
  <1>3. TrainerInv
    BY DEF Init, TrainerInv, Ambiguous
  <1>4. BlocksInv /\ PredictorInv /\ ScoreInv
    BY DEF Init, BlocksInv, PredictorInv, ScoreInv, Serving, NoRows
  <1> QED BY <1>2, <1>3, <1>4 DEF IInv

-----------------------------------------------------------------------------
(* Refusing keeps everything but the place. *)
LEMMA RaiseKeeps ==
    ASSUME IInv, Raise, UNCHANGED <<input, trainer, refused>>
    PROVE  IInv'
  <1> USE DEF Raise, graphVars, foldVars
  <1>1. TypeOK'
    BY DEF IInv, TypeOK, doms
  <1>2. TrainerInv'
    BY DEF IInv, TrainerInv, Ambiguous, doms
  <1>3. BlocksInv'
    BY DEF IInv, BlocksInv, Serving
  <1>4. PredictorInv'
    BY DEF IInv, PredictorInv, doms
  <1>5. ScoreInv'
    BY DEF IInv, ScoreInv, doms
  <1> QED BY <1>1, <1>2, <1>3, <1>4, <1>5 DEF IInv

LEMMA PrepareKeeps == ASSUME IInv, Prepare PROVE IInv'
  <1>1. CASE Raise
    BY <1>1, RaiseKeeps DEF Prepare
  <1>2. CASE ~Raise
    <2> USE <1>2 DEF Prepare
    <2>1. blocks' = Plan(input) /\ pc' = "preflight" /\ pc = "prepare"
      BY DEF PlanBlocks, Plan, doms
    <2>2. UNCHANGED <<input, trainer, refused, altered, calibrations, calibrated,
                      foldVars, predictors, predictor>>
      OBVIOUS
    <2>3. TypeOK'
      BY <2>1, <2>2 DEF IInv, TypeOK, doms, foldVars, Plan
    <2>4. TrainerInv'
      BY <2>1, <2>2 DEF IInv, TrainerInv, Ambiguous, doms
    <2>5. BlocksInv'
      BY <2>1, <2>2 DEF IInv, BlocksInv, TrainerInv, Serving
    <2>6. PredictorInv' /\ ScoreInv'
      BY <2>1, <2>2 DEF IInv, PredictorInv, ScoreInv, doms, foldVars
    <2> QED BY <2>3, <2>4, <2>5, <2>6 DEF IInv
  <1> QED BY <1>1, <1>2

LEMMA PreflightKeeps == ASSUME IInv, Preflight PROVE IInv'
  <1>1. CASE Raise
    BY <1>1, RaiseKeeps DEF Preflight
  <1>2. CASE ~Raise
    <2> USE <1>2 DEF Preflight
    <2>1. /\ pc = "preflight"
          /\ pc' = IF trainer = "native" THEN "calibrate" ELSE "train"
          /\ target' = 2
          /\ UNCHANGED <<input, trainer, refused, graphVars, outer, innerScores, schedule,
                         outerScores, predictors, predictor>>
      OBVIOUS
    <2>6. 2 \in doms
      <3>1. doms = 1..Len(input.rows) /\ Len(input.rows) \in Nat
        BY DomainsAreFinite DEF IInv, TypeOK, doms
      <3>2. ~(Len(input.rows) < 3)
        OBVIOUS
      <3> QED BY <3>1, <3>2
    <2>2. TypeOK'
      BY <2>1, <2>6 DEF IInv, TypeOK, doms, graphVars
    <2>3. TrainerInv'
      BY <2>1 DEF IInv, TrainerInv, Ambiguous, doms, graphVars
    <2>4. BlocksInv'
      BY <2>1 DEF IInv, BlocksInv, Serving, graphVars
    <2>5. PredictorInv' /\ ScoreInv'
      BY <2>1 DEF IInv, PredictorInv, ScoreInv, doms
    <2> QED BY <2>2, <2>3, <2>4, <2>5 DEF IInv
  <1> QED BY <1>1, <1>2

-----------------------------------------------------------------------------
(* The mapping is altered: it is not the plan's any more, and from here on *)
(* nothing but the final verification looks at it with trust.              *)
LEMMA AlterKeeps == ASSUME IInv, Alter PROVE IInv'
  <1>1. PICK b \in ScoreBlocks(doms) :
            blocks' = [blocks EXCEPT ![b] = [fit |-> doms, on |-> None]]
    BY DEF Alter
  <1>2. /\ trainer = "native" /\ blocks # None /\ ~altered /\ altered' = TRUE
        /\ UNCHANGED <<input, trainer, refused, pc, calibrations, calibrated, foldVars,
                       predictors, predictor>>
    BY DEF Alter
  <1>3. DOMAIN blocks = ScoreBlocks(doms) /\ input \in Inputs
    BY <1>2 DEF IInv, TypeOK
  <1>4. blocks' # Plan(input)
    BY <1>1, <1>3, AlteredIsVisible DEF doms
  <1>5. DOMAIN blocks' = ScoreBlocks(doms)
    BY <1>1, <1>3
  <1>6. TypeOK'
    BY <1>2, <1>5 DEF IInv, TypeOK, doms, foldVars
  <1>7. TrainerInv'
    BY <1>2 DEF IInv, TrainerInv
  <1>8. BlocksInv'
    BY <1>2, <1>4 DEF IInv, BlocksInv, Serving
  <1>9. PredictorInv' /\ ScoreInv'
    BY <1>2 DEF IInv, PredictorInv, ScoreInv, Training, doms, foldVars
  <1> QED BY <1>6, <1>7, <1>8, <1>9 DEF IInv

LEMMA CalibrateAllKeeps == ASSUME IInv, CalibrateAll PROVE IInv'
  <1>1. /\ pc = "calibrate" /\ pc' = "apply"
        /\ calibrations' = [s \in CalibratedSubsets(doms) |-> CalibrationFor(s)]
        /\ UNCHANGED <<input, trainer, refused, blocks, altered, calibrated, foldVars,
                       predictors, predictor>>
    BY DEF CalibrateAll
  <1>2. input \in Inputs /\ trainer = "native"
    BY <1>1 DEF IInv, TypeOK, TrainerInv
  <1>3. ASSUME ~altered PROVE calibrations' = PlanCalibrations(input)
    <2>1. blocks = Plan(input)
      BY <1>1, <1>2, <1>3 DEF IInv, BlocksInv
    <2>2. ASSUME NEW s \in CalibratedSubsets(doms), NEW c \in s
          PROVE  blocks[<<s \ {c}, c>>] = RawScore(input, s \ {c}, c)
      BY <2>1, <1>2, BlocksAreThere DEF Plan, doms
    <2> QED BY <1>1, <2>2 DEF PlanCalibrations, CalibrationFor, Calibration, doms
  <1>4. TypeOK'
    BY <1>1 DEF IInv, TypeOK, doms, foldVars
  <1>5. TrainerInv'
    BY <1>1 DEF IInv, TrainerInv, Ambiguous, doms
  <1>6. BlocksInv'
    BY <1>1, <1>2, <1>3 DEF IInv, BlocksInv, Serving
  <1>7. PredictorInv' /\ ScoreInv'
    BY <1>1 DEF IInv, PredictorInv, ScoreInv, doms, foldVars
  <1> QED BY <1>4, <1>5, <1>6, <1>7 DEF IInv

LEMMA ApplyAllKeeps == ASSUME IInv, ApplyAll PROVE IInv'
  <1>1. /\ pc = "apply" /\ pc' = "rehash"
        /\ calibrated' = [b \in CalibratedBlocks(doms) |->
                             CalibratedBlock(b[1], b[2], calibrations[b[1]])]
        /\ UNCHANGED <<input, trainer, refused, blocks, altered, calibrations, foldVars,
                       predictors, predictor>>
    BY DEF ApplyAll
  <1>2. input \in Inputs /\ trainer = "native"
    BY <1>1 DEF IInv, TypeOK, TrainerInv
  <1>3. ASSUME ~altered PROVE calibrated' = PlanCalibrated(input)
    <2>1. blocks = Plan(input) /\ calibrations = PlanCalibrations(input)
      BY <1>1, <1>2, <1>3 DEF IInv, BlocksInv
    <2>2. ASSUME NEW b \in CalibratedBlocks(doms)
          PROVE  CalibratedBlock(b[1], b[2], calibrations[b[1]]) = Score(input, b[1], b[2])
      <3>1. /\ b[1] \in CalibratedSubsets(doms) /\ b[2] \in doms \ b[1]
            /\ b = <<b[1], b[2]>>
        BY DEF CalibratedBlocks, BlocksOf
      <3>2. blocks[<<b[1], b[2]>>] = RawScore(input, b[1], b[2])
        BY <2>1, <3>1, <1>2, BlocksAreThere DEF Plan, doms
      <3>3. calibrations[b[1]] = Calibration(input, b[1])
        BY <2>1, <3>1 DEF PlanCalibrations, doms
      <3> QED BY <3>2, <3>3 DEF CalibratedBlock, Score
    <2> QED BY <1>1, <2>2 DEF PlanCalibrated, doms
  <1>4. TypeOK'
    BY <1>1 DEF IInv, TypeOK, doms, foldVars
  <1>5. TrainerInv'
    BY <1>1 DEF IInv, TrainerInv, Ambiguous, doms
  <1>6. BlocksInv'
    BY <1>1, <1>2, <1>3 DEF IInv, BlocksInv, Serving
  <1>7. PredictorInv' /\ ScoreInv'
    BY <1>1 DEF IInv, PredictorInv, ScoreInv, doms, foldVars
  <1> QED BY <1>4, <1>5, <1>6, <1>7 DEF IInv

(* What passes the verification is the plan's mapping, so the copies made  *)
(* before it are good.                                                     *)
LEMMA RehashKeeps == ASSUME IInv, Rehash PROVE IInv'
  <1>1. CASE Raise
    BY <1>1, RaiseKeeps DEF Rehash
  <1>2. CASE ~Raise
    <2> USE <1>2 DEF Rehash
    <2>1. /\ pc = "rehash" /\ pc' = "train" /\ blocks = Plan(input)
          /\ UNCHANGED <<input, trainer, refused, graphVars, foldVars, predictors,
                         predictor, work>>
      BY DEF PlanBlocks, Plan, doms
    <2>2. ~altered /\ calibrated = PlanCalibrated(input)
      BY <2>1 DEF IInv, BlocksInv
    <2>3. TypeOK'
      BY <2>1 DEF IInv, TypeOK, doms, foldVars, graphVars
    <2>4. TrainerInv'
      BY <2>1 DEF IInv, TrainerInv, Ambiguous, doms, graphVars
    <2>5. BlocksInv'
      BY <2>1, <2>2 DEF IInv, BlocksInv, Serving, graphVars
    <2>6. PredictorInv' /\ ScoreInv'
      BY <2>1 DEF IInv, PredictorInv, ScoreInv, doms, foldVars
    <2> QED BY <2>3, <2>4, <2>5, <2>6 DEF IInv
  <1> QED BY <1>1, <1>2

-----------------------------------------------------------------------------
(* A training step that leaves the graph and the folds alone keeps the     *)
(* invariant when its predictor and its cache are good.                    *)
LEMMA TrainedKeeps ==
    ASSUME IInv, pc = "train", pc' = "predict",
           UNCHANGED <<input, trainer, refused, blocks, altered, foldVars>>,
           trainer = "native" => calibrated' = calibrated,
           DOMAIN calibrations' = CalibratedSubsets(doms),
           DOMAIN calibrated' = CalibratedBlocks(doms),
           DOMAIN predictors' = CalibratedSubsets(doms),
           \A s \in CalibratedSubsets(doms) :
               predictors'[s] # None => Good(input, predictors'[s], s),
           Good(input, predictor', Training)
    PROVE  IInv'
  <1>1. TypeOK'
    BY DEF IInv, TypeOK, doms, foldVars
  <1>2. TrainerInv'
    BY DEF IInv, TrainerInv, Ambiguous, doms
  <1>3. BlocksInv'
    BY DEF IInv, BlocksInv, Serving
  <1>4. PredictorInv'
    BY DEF PredictorInv, doms, Training, foldVars
  <1>5. ScoreInv'
    BY DEF IInv, ScoreInv, doms, foldVars
  <1> QED BY <1>1, <1>2, <1>3, <1>4, <1>5 DEF IInv

LEMMA TrainBilinearKeeps == ASSUME IInv, TrainBilinear PROVE IInv'
  <1>1. CASE Raise
    BY <1>1, RaiseKeeps DEF TrainBilinear
  <1>2. CASE ~Raise
    <2> USE <1>2 DEF TrainBilinear
    <2>1. /\ pc = "train" /\ pc' = "predict" /\ trainer = "bilinear"
          /\ predictor' = OnDemandPredictor(Training)
          /\ UNCHANGED <<input, trainer, refused, graphVars, foldVars, predictors>>
      BY DEF Trained
    <2>2. Good(input, predictor', Training)
      BY <2>1, OnDemandIsGood DEF IInv, TypeOK, TrainerInv
    <2>3. \A s \in CalibratedSubsets(doms) :
             predictors'[s] # None => Good(input, predictors'[s], s)
      BY <2>1 DEF IInv, PredictorInv
    <2>4. DOMAIN calibrations' = CalibratedSubsets(doms)
          /\ DOMAIN calibrated' = CalibratedBlocks(doms)
          /\ DOMAIN predictors' = CalibratedSubsets(doms)
      BY <2>1 DEF IInv, TypeOK, graphVars
    <2> QED BY <2>1, <2>2, <2>3, <2>4, TrainedKeeps DEF graphVars
  <1> QED BY <1>1, <1>2

LEMMA TrainReferenceKeeps == ASSUME IInv, TrainReference PROVE IInv'
  <1> DEFINE s == Training
             calibration == CalibrationFor(s)
             scores == [d \in doms \ s |-> CalibratedBlock(s, d, calibration)]
  <1>1. CASE Raise
    BY <1>1, RaiseKeeps DEF TrainReference
  <1>2. ASSUME ~Raise
        PROVE  s \in CalibratedSubsets(doms) /\ pc = "train" /\ trainer = "reference"
               /\ UNCHANGED <<input, trainer, refused>>
    BY <1>2 DEF TrainReference
  <1>3. CASE ~Raise /\ Cached(s)
    <2>1. UseCached(s)
      BY <1>2, <1>3 DEF TrainReference
    <2>2. predictor' = predictors[s] /\ pc' = "predict"
          /\ UNCHANGED <<graphVars, foldVars, predictors>>
      BY <2>1 DEF UseCached, Trained
    <2>3. Good(input, predictor', Training)
      BY <1>2, <1>3, <2>2 DEF IInv, PredictorInv, Cached
    <2>4. \A x \in CalibratedSubsets(doms) :
             predictors'[x] # None => Good(input, predictors'[x], x)
      BY <2>2 DEF IInv, PredictorInv
    <2>5. DOMAIN calibrations' = CalibratedSubsets(doms)
          /\ DOMAIN calibrated' = CalibratedBlocks(doms)
          /\ DOMAIN predictors' = CalibratedSubsets(doms)
      BY <2>2 DEF IInv, TypeOK, graphVars
    <2> QED BY <1>2, <1>3, <2>2, <2>3, <2>4, <2>5, TrainedKeeps DEF graphVars
  <1>4. CASE ~Raise /\ ~Cached(s)
    <2>1. ~Collides(s, scores)
      BY <1>2, <1>4 DEF TrainReference
    <2>2. /\ Serve(s, scores)
          /\ calibrations' = [calibrations EXCEPT ![s] = calibration]
          /\ calibrated' = [b \in CalibratedBlocks(doms) |->
                               IF b[1] = s THEN scores[b[2]] ELSE calibrated[b]]
          /\ UNCHANGED <<blocks, altered, foldVars>>
      BY <1>2, <1>4, <2>1 DEF TrainReference
    <2>3. blocks = Plan(input) /\ input \in Inputs
      BY <1>2, <1>4 DEF IInv, TypeOK, TrainerInv, BlocksInv
    <2>4. \A d \in doms \ s : scores[d] = Score(input, s, d)
      <3>1. \A c \in s : blocks[<<s \ {c}, c>>] = RawScore(input, s \ {c}, c)
        BY <1>2, <1>4, <2>3, BlocksAreThere DEF Plan, doms
      <3>2. \A d \in doms \ s : blocks[<<s, d>>] = RawScore(input, s, d)
        BY <1>2, <1>4, <2>3, BlocksAreThere DEF Plan, doms
      <3> QED BY <3>1, <3>2 DEF CalibratedBlock, CalibrationFor, Score, Calibration
    <2>5. Good(input, Table(s, scores), s)
      BY <2>1, <2>4, TableIsGood
    <2>6. predictor' = Table(s, scores) /\ pc' = "predict"
          /\ predictors' = [predictors EXCEPT ![s] = Table(s, scores)]
      BY <2>2 DEF Serve, Trained
    <2>7. /\ DOMAIN calibrations' = CalibratedSubsets(doms)
          /\ DOMAIN calibrated' = CalibratedBlocks(doms)
          /\ DOMAIN predictors' = CalibratedSubsets(doms)
      BY <2>2, <2>6 DEF IInv, TypeOK
    <2>8. ASSUME NEW x \in CalibratedSubsets(doms), predictors'[x] # None
          PROVE  Good(input, predictors'[x], x)
      BY <2>5, <2>6, <2>8 DEF IInv, TypeOK, PredictorInv
    <2> HIDE DEF scores, calibration
    <2> QED BY <1>2, <1>4, <2>2, <2>5, <2>6, <2>7, <2>8, TrainedKeeps
  <1> QED BY <1>1, <1>3, <1>4

LEMMA TrainNativeKeeps == ASSUME IInv, TrainNative PROVE IInv'
  <1> DEFINE s == Training
             scores == [d \in doms \ s |-> calibrated[<<s, d>>]]
  <1>1. CASE Raise
    BY <1>1, RaiseKeeps DEF TrainNative
  <1>2. ASSUME ~Raise
        PROVE  s \in CalibratedSubsets(doms) /\ pc = "train" /\ trainer = "native"
               /\ UNCHANGED <<input, trainer, refused>>
    BY <1>2 DEF TrainNative
  <1>3. CASE ~Raise /\ Cached(s)
    <2>1. UseCached(s)
      BY <1>2, <1>3 DEF TrainNative
    <2>2. predictor' = predictors[s] /\ pc' = "predict"
          /\ UNCHANGED <<graphVars, foldVars, predictors>>
      BY <2>1 DEF UseCached, Trained
    <2>3. Good(input, predictor', Training)
      BY <1>2, <1>3, <2>2 DEF IInv, PredictorInv, Cached
    <2>4. \A x \in CalibratedSubsets(doms) :
             predictors'[x] # None => Good(input, predictors'[x], x)
      BY <2>2 DEF IInv, PredictorInv
    <2>5. DOMAIN calibrations' = CalibratedSubsets(doms)
          /\ DOMAIN calibrated' = CalibratedBlocks(doms)
          /\ DOMAIN predictors' = CalibratedSubsets(doms)
      BY <2>2 DEF IInv, TypeOK, graphVars
    <2> QED BY <1>2, <1>3, <2>2, <2>3, <2>4, <2>5, TrainedKeeps DEF graphVars
  <1>4. CASE ~Raise /\ ~Cached(s)
    <2>1. ~Collides(s, scores)
      BY <1>2, <1>4 DEF TrainNative
    <2>2. Serve(s, scores) /\ UNCHANGED <<graphVars, foldVars>>
      BY <1>2, <1>4, <2>1 DEF TrainNative
    <2>3. calibrated = PlanCalibrated(input) /\ input \in Inputs
      BY <1>2, <1>4 DEF IInv, TypeOK, BlocksInv, Serving
    <2>4. \A d \in doms \ s : scores[d] = Score(input, s, d)
      BY <1>2, <1>4, <2>3, BlocksAreThere DEF PlanCalibrated, doms
    <2>5. Good(input, Table(s, scores), s)
      BY <2>1, <2>4, TableIsGood
    <2>6. predictor' = Table(s, scores) /\ pc' = "predict"
          /\ predictors' = [predictors EXCEPT ![s] = Table(s, scores)]
      BY <2>2 DEF Serve, Trained
    <2>7. /\ DOMAIN calibrations' = CalibratedSubsets(doms)
          /\ DOMAIN calibrated' = CalibratedBlocks(doms)
          /\ DOMAIN predictors' = CalibratedSubsets(doms)
      BY <2>2, <2>6 DEF IInv, TypeOK, graphVars
    <2>8. ASSUME NEW x \in CalibratedSubsets(doms), predictors'[x] # None
          PROVE  Good(input, predictors'[x], x)
      BY <2>5, <2>6, <2>8 DEF IInv, TypeOK, PredictorInv
    <2> HIDE DEF scores
    <2> QED BY <1>2, <1>4, <2>2, <2>5, <2>6, <2>7, <2>8, TrainedKeeps DEF graphVars
  <1> QED BY <1>1, <1>3, <1>4

-----------------------------------------------------------------------------
(* The loops. *)

(* A cross-fitted score is stored for the domain it leaves out. *)
LEMMA PredictInnerKeeps == ASSUME IInv, PredictInner PROVE IInv'
  <1>1. CASE Raise
    BY <1>1, RaiseKeeps DEF PredictInner
  <1>2. CASE ~Raise
    <2>1. /\ pc = "predict" /\ target # outer
          /\ input.prompts[target] \in DOMAIN predictor
          /\ innerScores' = [innerScores EXCEPT ![target] = predictor[input.prompts[target]]]
          /\ UNCHANGED <<input, trainer, refused, graphVars, outer, schedule, outerScores,
                         predictors, predictor>>
      BY <1>2 DEF PredictInner
    <2>2. pc' \in {"train", "tune"} /\ target' \in doms
      <3>1. CASE After(target) = {}
        BY <1>2, <3>1 DEF PredictInner, IInv, TypeOK
      <3>2. CASE After(target) # {}
        <4>1. PICK d \in After(target) : Request(d)
          BY <1>2, <3>2 DEF PredictInner
        <4> QED BY <4>1 DEF After, Request
      <3> QED BY <3>1, <3>2
    <2>3. target \in doms /\ outer \in doms /\ DOMAIN innerScores = doms
      BY DEF IInv, TypeOK
    <2>4. predictor[input.prompts[target]] = Score(input, doms \ {outer, target}, target)
      <3>1. Good(input, predictor, doms \ {outer, target})
        BY <2>1 DEF IInv, PredictorInv, Training
      <3> QED BY <2>1, <2>3, <3>1 DEF Good, doms
    <2>5. TypeOK'
      BY <2>1, <2>2, <2>3 DEF IInv, TypeOK, doms, graphVars
    <2>6. TrainerInv'
      BY <2>1, <2>2 DEF IInv, TrainerInv, Ambiguous, doms, graphVars
    <2>7. BlocksInv'
      BY <2>1, <2>2 DEF IInv, BlocksInv, Serving, graphVars
    <2>8. PredictorInv'
      BY <2>1, <2>2 DEF IInv, PredictorInv, doms
    <2>9. ScoreInv'
      <3>1. ASSUME NEW b \in doms, innerScores'[b] # None
            PROVE  b # outer /\ innerScores'[b] = Score(input, doms \ {outer, b}, b)
        <4>1. CASE b = target
          BY <2>1, <2>3, <2>4, <4>1
        <4>2. CASE b # target
          <5>1. innerScores'[b] = innerScores[b]
            BY <2>1, <2>3, <4>2
          <5> QED BY <3>1, <5>1 DEF IInv, ScoreInv
        <4> QED BY <4>1, <4>2
      <3> QED BY <2>1, <3>1 DEF IInv, ScoreInv, doms
    <2> QED BY <2>5, <2>6, <2>7, <2>8, <2>9 DEF IInv
  <1> QED BY <1>1, <1>2

(* Tuning takes the cross-fitted scores of the whole training side. *)
LEMMA TuneKeeps == ASSUME IInv, Tune PROVE IInv'
  <1>1. CASE Raise
    BY <1>1, RaiseKeeps DEF Tune
  <1>2. CASE ~Raise
    <2>1. /\ pc = "tune" /\ pc' = "train" /\ target' = outer
          /\ \A d \in doms \ {outer} : innerScores[d] # None
          /\ schedule' = [schedule EXCEPT ![outer] =
                 [rows |-> doms \ {outer}, scores |-> [d \in doms \ {outer} |-> innerScores[d]]]]
          /\ UNCHANGED <<input, trainer, refused, graphVars, outer, innerScores, outerScores,
                         predictors, predictor>>
      BY <1>2 DEF Tune, Request
    <2>2. outer \in doms /\ DOMAIN schedule = doms
      BY DEF IInv, TypeOK
    <2>3. schedule'[outer] = Tuning(input, outer)
      <3>1. \A d \in doms \ {outer} : innerScores[d] = Score(input, doms \ {outer, d}, d)
        BY <2>1 DEF IInv, ScoreInv
      <3> QED BY <2>1, <2>2, <3>1 DEF Tuning, doms
    <2>4. TypeOK'
      BY <2>1, <2>2 DEF IInv, TypeOK, doms, graphVars
    <2>5. TrainerInv'
      BY <2>1 DEF IInv, TrainerInv, Ambiguous, doms, graphVars
    <2>6. BlocksInv'
      BY <2>1 DEF IInv, BlocksInv, Serving, graphVars
    <2>7. PredictorInv'
      BY <2>1 DEF IInv, PredictorInv, doms
    <2>8. ScoreInv'
      <3>1. ASSUME NEW a \in doms, schedule'[a] # None
            PROVE  schedule'[a] = Tuning(input, a)
        <4>1. CASE a = outer
          BY <2>3, <4>1
        <4>2. CASE a # outer
          <5>1. schedule'[a] = schedule[a]
            BY <2>1, <2>2, <4>2
          <5> QED BY <3>1, <5>1 DEF IInv, ScoreInv
        <4> QED BY <4>1, <4>2
      <3> QED BY <2>1, <3>1 DEF IInv, ScoreInv, doms
    <2> QED BY <2>4, <2>5, <2>6, <2>7, <2>8 DEF IInv
  <1> QED BY <1>1, <1>2

(* The outer domain is scored by the fit that leaves it alone out. *)
LEMMA PredictOuterKeeps == ASSUME IInv, PredictOuter PROVE IInv'
  <1>1. CASE Raise
    BY <1>1, RaiseKeeps DEF PredictOuter
  <1>2. CASE ~Raise
    <2>1. /\ pc = "predict" /\ target = outer
          /\ input.prompts[outer] \in DOMAIN predictor
          /\ outerScores' = [outerScores EXCEPT ![outer] = predictor[input.prompts[outer]]]
          /\ innerScores' = NoRows
          /\ UNCHANGED <<input, trainer, refused, graphVars, schedule, predictors, predictor>>
      BY <1>2 DEF PredictOuter
    <2>2. outer \in doms /\ DOMAIN outerScores = doms
      BY DEF IInv, TypeOK
    <2>3. pc' \in {"train", "replay"} /\ outer' \in doms /\ target' \in doms
      <3>1. doms = 1..Len(input.rows) /\ Len(input.rows) \in Nat \ {0}
        BY DomainsAreFinite DEF IInv, TypeOK, doms
      <3>2. CASE LastFold
        BY <1>2, <2>1, <2>2, <3>2 DEF PredictOuter
      <3>3. CASE ~LastFold
        BY <1>2, <2>2, <3>1, <3>3 DEF PredictOuter, LastFold, Request
      <3> QED BY <3>2, <3>3
    <2>4. outerScores'[outer] = Score(input, doms \ {outer}, outer)
      <3>1. Good(input, predictor, doms \ {outer})
        <4>1. Training = doms \ {outer}
          BY <2>1 DEF Training
        <4> QED BY <2>1, <4>1 DEF IInv, PredictorInv
      <3> QED BY <2>1, <2>2, <3>1 DEF Good, doms
    <2>5. TypeOK'
      BY <2>1, <2>2, <2>3 DEF IInv, TypeOK, doms, graphVars, NoRows
    <2>6. TrainerInv'
      BY <2>1, <2>3 DEF IInv, TrainerInv, Ambiguous, doms, graphVars
    <2>7. BlocksInv'
      BY <2>1, <2>3 DEF IInv, BlocksInv, Serving, graphVars
    <2>8. PredictorInv'
      BY <2>1, <2>3 DEF IInv, PredictorInv, doms
    <2>9. ScoreInv'
      <3>1. ASSUME NEW a \in doms, outerScores'[a] # None
            PROVE  outerScores'[a] = Score(input, doms \ {a}, a)
        <4>1. CASE a = outer
          BY <2>4, <4>1
        <4>2. CASE a # outer
          <5>1. outerScores'[a] = outerScores[a]
            BY <2>1, <2>2, <4>2
          <5> QED BY <3>1, <5>1 DEF IInv, ScoreInv
        <4> QED BY <4>1, <4>2
      <3>2. \A b \in doms : innerScores'[b] = None
        BY <2>1 DEF NoRows
      <3> QED BY <2>1, <3>1, <3>2 DEF IInv, ScoreInv, doms
    <2> QED BY <2>5, <2>6, <2>7, <2>8, <2>9 DEF IInv
  <1> QED BY <1>1, <1>2

(* The replay changes no score. *)
LEMMA ReplayKeeps == ASSUME IInv, Replay PROVE IInv'
  <1>1. CASE Raise
    BY <1>1, RaiseKeeps DEF Replay
  <1>2. CASE ~Raise
    <2>1. /\ pc = "replay" /\ pc' = "done"
          /\ UNCHANGED <<input, trainer, refused, graphVars, foldVars, predictors, predictor>>
      BY <1>2 DEF Replay
    <2>2. TypeOK'
      BY <2>1 DEF IInv, TypeOK, doms, graphVars, foldVars
    <2>3. TrainerInv'
      BY <2>1 DEF IInv, TrainerInv, Ambiguous, doms, graphVars
    <2>4. BlocksInv'
      BY <2>1 DEF IInv, BlocksInv, Serving, graphVars
    <2>5. PredictorInv' /\ ScoreInv'
      BY <2>1 DEF IInv, PredictorInv, ScoreInv, doms, foldVars
    <2> QED BY <2>2, <2>3, <2>4, <2>5 DEF IInv
  <1> QED BY <1>1, <1>2

LEMMA StutteringKeeps == ASSUME IInv, UNCHANGED vars PROVE IInv'
  <1> USE DEF vars, graphVars, foldVars
  <1>1. TypeOK'
    BY DEF IInv, TypeOK, doms
  <1>2. TrainerInv'
    BY DEF IInv, TrainerInv, Ambiguous, doms
  <1>3. BlocksInv'
    BY DEF IInv, BlocksInv, Serving
  <1>4. PredictorInv'
    BY DEF IInv, PredictorInv, Training, doms
  <1>5. ScoreInv'
    BY DEF IInv, ScoreInv, doms
  <1> QED BY <1>1, <1>2, <1>3, <1>4, <1>5 DEF IInv

-----------------------------------------------------------------------------
(* Whichever trainer serves the evaluation, every predictor it trains and  *)
(* caches gives a held-out domain its textbook score, every score and      *)
(* tuning it keeps is the textbook's, and the native copies are the plan's *)
(* by the time they are served.                                            *)
THEOREM NestedInductive == Spec => []IInv
  <1>1. Init => IInv
    BY InitEstablishes
  <1>2. IInv /\ [Next]_vars => IInv'
    BY PrepareKeeps, PreflightKeeps, AlterKeeps, CalibrateAllKeeps, ApplyAllKeeps,
       RehashKeeps, TrainBilinearKeeps, TrainReferenceKeeps, TrainNativeKeeps,
       PredictInnerKeeps, TuneKeeps, PredictOuterKeeps, ReplayKeeps, StutteringKeeps
    DEF Next, Step
  <1> QED BY <1>1, <1>2, PTL DEF Spec

(* Every state of the nested evaluation has the shape its phase allows: in *)
(* particular the outer and tuning folds never leave the domains.          *)
THEOREM NestedTypeCorrect == Spec => []TypeOK
  <1>1. IInv => TypeOK
    BY DEF IInv
  <1> QED BY <1>1, NestedInductive, PTL

(* No target of a held-out domain has any part in the scores it is routed  *)
(* with, in its lambdas, or in the cross-fitted scores they were tuned on: *)
(* for any number of domains, with shared fits and caches, and with a      *)
(* mapping that may be altered while it is read.                           *)
THEOREM NestedLeakFree == Spec => []LeakFree
  <1>1. IInv => LeakFree
    <2> SUFFICES ASSUME IInv PROVE LeakFree
      OBVIOUS
    <2>1. ASSUME NEW b \in doms, innerScores[b] # None
          PROVE  Clean(innerScores[b], {outer, b})
      <3>1. innerScores[b] = Score(input, doms \ {outer, b}, b)
        BY <2>1 DEF IInv, ScoreInv
      <3> QED BY <3>1, ScoreIsClean
    <2>2. ASSUME NEW a \in doms, schedule[a] # None
          PROVE  /\ a \notin schedule[a].rows
                 /\ \A b \in DOMAIN schedule[a].scores : Clean(schedule[a].scores[b], {a, b})
      <3>1. schedule[a] = Tuning(input, a)
        BY <2>2 DEF IInv, ScoreInv
      <3>2. a \notin schedule[a].rows /\ DOMAIN schedule[a].scores = doms \ {a}
        BY <3>1 DEF Tuning, doms
      <3>3. ASSUME NEW b \in doms \ {a}
            PROVE  Clean(schedule[a].scores[b], {a, b})
        <4>1. schedule[a].scores[b] = Score(input, doms \ {a, b}, b)
          BY <3>1 DEF Tuning, doms
        <4> QED BY <4>1, ScoreIsClean
      <3> QED BY <3>2, <3>3
    <2>3. ASSUME NEW a \in doms, outerScores[a] # None
          PROVE  Clean(outerScores[a], {a})
      <3>1. outerScores[a] = Score(input, doms \ {a}, a)
        BY <2>3 DEF IInv, ScoreInv
      <3> QED BY <3>1, ScoreIsClean
    <2> QED BY <2>1, <2>2, <2>3 DEF LeakFree
  <1> QED BY <1>1, NestedInductive, PTL

-----------------------------------------------------------------------------
(* A finished evaluation has scores and lambdas for every domain. *)
Complete ==
    pc = "done" => \A d \in doms : outerScores[d] # None /\ schedule[d] # None

(* What is returned in the end is the textbook answer: nothing is missing  *)
(* from it and nothing was served from the wrong fit, the wrong cache      *)
(* entry or an altered mapping.                                            *)
AnswersAsTheTextbook == pc = "done" => answer = Textbook!TextbookAnswer

(* Every domain with its own scores and lambdas is the textbook answer. *)
LEMMA FinishedIsTextbook ==
    ASSUME IInv, \A d \in doms : outerScores[d] # None /\ schedule[d] # None
    PROVE  [a \in doms |-> [score |-> outerScores[a], tuning |-> schedule[a]]]
           = Textbook!TextbookAnswer
  <1>3. Textbook!Domains(input) = doms
    BY DEF Textbook!Domains, Domains, doms
  <1>1. ASSUME NEW s, NEW d
        PROVE  Textbook!TextbookScore(s, d) = Score(input, s, d)
    BY DEF Textbook!TextbookScore, Score, Calibration, Textbook!Calibrated, Calibrated,
           Textbook!RawScore, RawScore, Textbook!Features, Features
  <1>2. ASSUME NEW a \in doms
        PROVE  /\ outerScores[a] = Textbook!TextbookScore(doms \ {a}, a)
               /\ schedule[a] = Textbook!TextbookTuning(a)
    <2>1. outerScores[a] = Score(input, doms \ {a}, a) /\ schedule[a] = Tuning(input, a)
      BY DEF IInv, ScoreInv
    <2>2. ASSUME NEW b \in doms
          PROVE  Score(input, doms \ {a, b}, b) = Textbook!TextbookScore((doms \ {a}) \ {b}, b)
      <3>1. (doms \ {a}) \ {b} = doms \ {a, b}
        OBVIOUS
      <3> QED BY <1>1, <3>1
    <2>3. [b \in doms \ {a} |-> Score(input, doms \ {a, b}, b)]
          = [b \in doms \ {a} |-> Textbook!TextbookScore((doms \ {a}) \ {b}, b)]
      BY <2>2
    <2>4. schedule[a] = Textbook!TextbookTuning(a)
      BY <1>3, <2>1, <2>3 DEF Tuning, Textbook!TextbookTuning, doms
    <2> QED BY <1>1, <2>1, <2>4
  <1> QED BY <1>2, <1>3 DEF Textbook!TextbookAnswer, doms

LEMMA CompleteKept == ASSUME Complete, [Next]_vars PROVE Complete'
  <1> USE DEF Complete
  <1>1. CASE Replay
    <2>1. CASE Raise
      BY <2>1 DEF Raise
    <2>2. CASE ~Raise
      BY <1>1, <2>2 DEF Replay, doms, foldVars
    <2> QED BY <2>1, <2>2
  <1>2. CASE Alter \/ UNCHANGED vars
    BY <1>2 DEF Alter, vars, foldVars, doms
  <1>3. CASE \/ Prepare \/ Preflight \/ CalibrateAll \/ ApplyAll \/ Rehash
    BY <1>3 DEF Prepare, Preflight, CalibrateAll, ApplyAll, Rehash, Raise
  <1>4. CASE \/ TrainBilinear \/ TrainReference \/ TrainNative
    BY <1>4 DEF TrainBilinear, TrainReference, TrainNative, Raise, UseCached, Serve, Trained
  <1>5. CASE \/ PredictInner \/ Tune \/ PredictOuter
    BY <1>5 DEF PredictInner, Tune, PredictOuter, Raise, Request
  <1> QED BY <1>1, <1>2, <1>3, <1>4, <1>5 DEF Next, Step

(* Every finished evaluation returns the textbook answer, whichever trainer *)
(* served it and whatever happened to the mapping.                          *)
THEOREM NestedAnswers == Spec => []AnswersAsTheTextbook
  <1>1. Init => Complete
    BY DEF Init, Complete
  <1>2. Complete /\ [Next]_vars => Complete'
    BY CompleteKept
  <1>3. IInv /\ Complete => AnswersAsTheTextbook
    BY FinishedIsTextbook DEF Complete, AnswersAsTheTextbook, answer
  <1> QED BY <1>1, <1>2, <1>3, NestedInductive, PTL DEF Spec

-----------------------------------------------------------------------------
(* Refusals.  That every raise is one the contract allows needs the other   *)
(* half of the story: what a fold has asked for so far is there.            *)

(* A lookup by prompts tells the domains outside s apart. *)
Resolved(s) == \A d, e \in doms \ s :
    input.prompts[d] = input.prompts[e] => input.embeddings[d] = input.embeddings[e]

(* A predictor for s was served: no collision, and the cached calibrator    *)
(* and blocks the reference pipeline looks for in the end.                  *)
Served(s) ==
    /\ trainer # "bilinear" => Resolved(s)
    /\ trainer = "reference" => /\ calibrations[s] # None
                                /\ \A d \in doms \ s : calibrated[<<s, d>>] # None

Fit(b) == innerScores[b] # None /\ Served(doms \ {outer, b})

Finished(a) ==
    /\ outerScores[a] # None /\ schedule[a] # None
    /\ Served(doms \ {a}) /\ \A b \in doms \ {a} : Served(doms \ {a, b})

FirstFit == pc = "train" /\ outer = 1 /\ target = 2

(* What the checks passed so far have established about the input. *)
ShapeInv ==
    /\ trainer # "bilinear" /\ pc \notin {"prepare", "raised"} => Len(input.rows) \in 4..7
    /\ pc \in {"calibrate", "apply", "rehash"} \/ Serving => refused = {}
    /\ Serving => Len(input.rows) >= 3
    /\ Serving /\ ~FirstFit => Len(input.rows) >= 4
    /\ pc \in {"prepare", "preflight"} => outer = 1
    /\ pc \in {"calibrate", "apply", "rehash"} => outer = 1 /\ target = 2

TableInv ==
    /\ \A s \in CalibratedSubsets(doms) : predictors[s] # None =>
          PromptsOf(doms \ s) \subseteq DOMAIN predictors[s] /\ Served(s)
    /\ pc = "predict" =>
          PromptsOf(doms \ Training) \subseteq DOMAIN predictor /\ Served(Training)

(* How far the loops have come. *)
LoopInv ==
    /\ Serving => \A a \in doms : a < outer => Finished(a)
    /\ pc \in {"train", "predict"} /\ target # outer =>
          \A b \in doms \ {outer} : b < target => Fit(b)
    /\ pc = "tune" => \A b \in doms \ {outer} : Fit(b)
    /\ pc \in {"train", "predict"} /\ target = outer =>
          /\ schedule[outer] # None
          /\ \A b \in doms \ {outer} : Served(doms \ {outer, b})
    /\ pc = "replay" => \A a \in doms : Finished(a)

RInv == IInv /\ ShapeInv /\ TableInv /\ LoopInv

(* The reasons the contract lets an evaluation raise for. *)
Excused == \/ Len(input.rows) < 4 \/ Len(input.rows) > 7 \/ Ambiguous
           \/ input.infeasible # {} \/ refused # {} \/ altered

(* A fold without a feasible lambda is never scheduled. *)
TunedInv == \A a \in doms : schedule[a] # None => a \notin input.infeasible

LEMMA FourToSeven ==
    ASSUME NEW n \in Nat
    PROVE  (n \in 4..7 => n >= 4) /\ (n \notin 4..7 => n < 4 \/ n > 7)
  OBVIOUS

LEMMA Basics ==
    ASSUME IInv
    PROVE  /\ input \in Inputs /\ doms = 1..Len(input.rows) /\ Len(input.rows) \in Nat \ {0}
           /\ IsFiniteSet(doms) /\ Cardinality(doms) = Len(input.rows)
           /\ outer \in doms /\ target \in doms
  <1>1. input \in Inputs /\ outer \in doms /\ target \in doms
    BY DEF IInv, TypeOK
  <1>2. doms = 1..Len(input.rows) /\ Len(input.rows) \in Nat \ {0}
    BY <1>1, DomainsAreFinite DEF doms
  <1>3. IsFiniteSet(doms) /\ Cardinality(doms) = Len(input.rows)
    BY <1>2, FS_Interval
  <1> QED BY <1>1, <1>2, <1>3

(* Every subset the loops ask for has a calibrator in the plan. *)
LEMMA RequestsArePlanned ==
    ASSUME IInv, NEW a \in doms, NEW b \in doms
    PROVE  /\ doms \ {a, b} \in CalibratedSubsets(doms)
           /\ doms \ {a} \in CalibratedSubsets(doms)
           /\ Cardinality(doms \ {a, b}) >= Len(input.rows) - 2
           /\ a # b => Cardinality(doms \ {a, b}) = Len(input.rows) - 2
  <1>1. Cardinality({a, b}) \in 1..2 /\ IsFiniteSet({a, b})
    <2>1. IsFiniteSet({a}) /\ Cardinality({a}) = 1 /\ {a, b} = {a} \cup {b}
      BY FS_Singleton
    <2> QED BY <2>1, FS_AddElement
  <1>2. {a, b} \in kSubset(Cardinality({a, b}), doms)
    BY DEF kSubset
  <1>3. doms \ {a, b} \in CalibratedSubsets(doms)
    BY <1>1, <1>2 DEF CalibratedSubsets, LeavingOut
  <1>4. /\ Cardinality(doms \ {a, b}) >= Len(input.rows) - 2
        /\ a # b => Cardinality(doms \ {a, b}) = Len(input.rows) - 2
    <2>1. IsFiniteSet(doms) /\ Cardinality(doms) = Len(input.rows) /\ Len(input.rows) \in Nat
      BY Basics
    <2> DEFINE P == doms \ {a}
               Q == P \ {b}
    <2>2. IsFiniteSet(P) /\ Cardinality(P) = Cardinality(doms) - 1
      BY <2>1, FS_RemoveElement
    <2>3. Cardinality(Q) = IF b \in P THEN Cardinality(P) - 1 ELSE Cardinality(P)
      BY <2>2, FS_RemoveElement
    <2>4. (b \in P <=> a # b) /\ doms \ {a, b} = Q
      OBVIOUS
    <2> HIDE DEF P, Q
    <2>5. CASE a # b
      <3>1. Cardinality(Q) = Len(input.rows) - 2
        BY <2>1, <2>2, <2>3, <2>4, <2>5
      <3>2. Cardinality(doms \ {a, b}) = Len(input.rows) - 2
        BY <2>4, <3>1
      <3>3. Len(input.rows) \in Nat
        BY <2>1
      <3> QED BY <3>2, <3>3
    <2>6. CASE a = b
      <3>1. Cardinality(Q) = Len(input.rows) - 1
        BY <2>1, <2>2, <2>3, <2>4, <2>6
      <3>2. Cardinality(doms \ {a, b}) = Len(input.rows) - 1
        BY <2>4, <3>1
      <3>3. Len(input.rows) \in Nat
        BY <2>1
      <3> QED BY <2>6, <3>2, <3>3
    <2> QED BY <2>5, <2>6
  <1>5. doms \ {a} \in CalibratedSubsets(doms)
    <2>1. {a} \in kSubset(1, doms)
      BY FS_Singleton DEF kSubset
    <2> QED BY <2>1 DEF CalibratedSubsets, LeavingOut
  <1> QED BY <1>3, <1>4, <1>5

(* Scores collide exactly when embeddings tell apart what prompts do not. *)
LEMMA CollisionsAreAmbiguities ==
    ASSUME NEW s, NEW scores, \A d \in doms \ s : scores[d] = Score(input, s, d)
    PROVE  /\ Collides(s, scores) => Ambiguous
           /\ ~Collides(s, scores) => Resolved(s)
  <1>1. ASSUME NEW d \in doms \ s, NEW e \in doms \ s, input.prompts[d] = input.prompts[e]
        PROVE  scores[d] = scores[e] <=> input.embeddings[d] = input.embeddings[e]
    <2>1. Score(input, s, d).raw.on = <<input.prompts[d], input.embeddings[d]>>
          /\ Score(input, s, e).raw.on = <<input.prompts[e], input.embeddings[e]>>
      BY DEF Score, Calibrated, RawScore, Features
    <2>2. ASSUME scores[d] = scores[e] PROVE input.embeddings[d] = input.embeddings[e]
      <3>1. <<input.prompts[d], input.embeddings[d]>> = <<input.prompts[e], input.embeddings[e]>>
        BY <2>1, <2>2
      <3> QED BY <3>1
    <2>3. ASSUME input.embeddings[d] = input.embeddings[e] PROVE scores[d] = scores[e]
      <3>1. Features(input, d) = Features(input, e)
        BY <1>1, <2>3 DEF Features
      <3>2. Score(input, s, d) = Score(input, s, e)
        BY <3>1 DEF Score, RawScore
      <3> QED BY <3>2
    <2> QED BY <2>2, <2>3
  <1> QED BY <1>1 DEF Collides, Resolved, Ambiguous, doms

LEMMA ServedAgain ==
    ASSUME UNCHANGED <<input, trainer>>,
           trainer = "reference" => UNCHANGED <<calibrations, calibrated>>, NEW s
    PROVE  Served(s) => Served(s)'
  BY DEF Served, Resolved, doms

LEMMA InitRefines == Init => RInv
  <1> SUFFICES ASSUME Init PROVE RInv
    OBVIOUS
  <1>1. IInv /\ pc \in {"prepare", "preflight"} /\ outer = 1
        /\ (pc = "preflight" => trainer = "bilinear")
    BY InitEstablishes DEF Init
  <1>2. ShapeInv
    BY <1>1 DEF ShapeInv, Serving
  <1>3. TableInv
    BY <1>1 DEF Init, TableInv
  <1>4. LoopInv
    BY <1>1 DEF LoopInv, Serving
  <1> QED BY <1>1, <1>2, <1>3, <1>4 DEF RInv

(* A raise keeps what was there, and nothing is asked of it any more. *)
LEMMA RaiseRefines ==
    ASSUME RInv, Raise, UNCHANGED <<input, trainer, refused>>
    PROVE  RInv'
  <1>1. IInv' /\ pc' = "raised" /\ UNCHANGED <<graphVars, foldVars, predictors, predictor>>
    BY RaiseKeeps DEF RInv, Raise
  <1>2. ShapeInv' /\ LoopInv'
    BY <1>1 DEF ShapeInv, LoopInv, Serving
  <1>3. TableInv'
    BY <1>1, ServedAgain DEF RInv, TableInv, graphVars, PromptsOf, doms
  <1> QED BY <1>1, <1>2, <1>3 DEF RInv

(* Steps before the first fit: no fold has asked for anything. *)
LEMMA EarlyRefines ==
    ASSUME RInv, IInv', ShapeInv', UNCHANGED <<input, trainer, refused, predictors, outer>>,
           trainer = "reference" => UNCHANGED <<calibrations, calibrated>>,
           outer = 1, pc' \in {"preflight", "calibrate", "apply", "rehash", "train"},
           pc' = "train" => target' = 2
    PROVE  RInv'
  <1>1. TableInv'
    BY ServedAgain DEF RInv, TableInv, PromptsOf, doms
  <1>2. LoopInv'
    <2>1. doms' = 1..Len(input.rows) /\ Len(input.rows) \in Nat
      BY Basics DEF RInv, doms
    <2>2. \A a \in doms' : ~(a < 1) /\ (a < 2 => a = 1)
      BY <2>1
    <2> QED BY <2>2 DEF LoopInv
  <1> QED BY <1>1, <1>2 DEF RInv

LEMMA PrepareRefines == ASSUME RInv, Prepare PROVE RInv' /\ (Raise => Excused)
  <1>1. IInv' /\ Len(input.rows) \in Nat /\ outer = 1 /\ pc = "prepare"
    <2>1. IInv'
      BY PrepareKeeps DEF RInv
    <2>2. Len(input.rows) \in Nat
      BY Basics DEF RInv
    <2> QED BY <2>1, <2>2 DEF RInv, Prepare, ShapeInv
  <1>2. CASE Raise
    <2>1. Len(input.rows) \notin 4..7
      BY <1>2 DEF Prepare, Raise
    <2>2. Len(input.rows) < 4 \/ Len(input.rows) > 7
      BY <1>1, <2>1, FourToSeven
    <2>3. UNCHANGED <<input, trainer, refused>>
      BY DEF Prepare
    <2> QED BY <1>2, <2>2, <2>3, RaiseRefines DEF Excused
  <1>3. CASE ~Raise
    <2>1. /\ Len(input.rows) \in 4..7 /\ pc' = "preflight"
          /\ UNCHANGED <<input, trainer, refused, calibrations, calibrated, predictors, outer>>
      BY <1>3 DEF Prepare, foldVars
    <2>2. ShapeInv'
      BY <1>1, <2>1 DEF RInv, ShapeInv, Serving, FirstFit
    <2> QED BY <1>1, <1>3, <2>1, <2>2, EarlyRefines
  <1> QED BY <1>2, <1>3

LEMMA PreflightRefines == ASSUME RInv, Preflight PROVE RInv' /\ (Raise => Excused)
  <1>1. IInv' /\ Len(input.rows) \in Nat /\ outer = 1 /\ pc = "preflight"
    BY PreflightKeeps, Basics DEF RInv, Preflight, ShapeInv
  <1>2. CASE Raise
    <2>1. trainer = "native" /\ blocks # PlanBlocks => altered
      BY <1>1 DEF RInv, IInv, BlocksInv, PlanBlocks, Plan, doms
    <2>2. refused # {} \/ Len(input.rows) < 3 \/ (trainer = "native" /\ blocks # PlanBlocks)
      BY <1>2 DEF Preflight, Raise
    <2> QED BY <1>1, <1>2, <2>1, <2>2, RaiseRefines DEF Preflight, Excused
  <1>3. CASE ~Raise
    <2>1. /\ refused = {} /\ Len(input.rows) >= 3
          /\ pc' \in {"calibrate", "train"} /\ target' = 2
          /\ UNCHANGED <<input, trainer, refused, predictors, outer, graphVars>>
      BY <1>1, <1>3 DEF Preflight
    <2>2. ShapeInv'
      BY <1>1, <2>1 DEF RInv, ShapeInv, Serving, FirstFit
    <2> QED BY <1>1, <1>3, <2>1, <2>2, EarlyRefines DEF graphVars
  <1> QED BY <1>2, <1>3

(* The steps of the native consumer before it serves anything. *)
LEMMA NativeRefines ==
    ASSUME RInv, CalibrateAll \/ ApplyAll \/ Rehash PROVE RInv' /\ (Raise => Excused)
  <1>1. IInv' /\ trainer = "native" /\ outer = 1 /\ target = 2 /\ refused = {}
        /\ Len(input.rows) \in 4..7
    BY CalibrateAllKeeps, ApplyAllKeeps, RehashKeeps
    DEF RInv, IInv, TrainerInv, ShapeInv, CalibrateAll, ApplyAll, Rehash
  <1>2. CASE Raise
    <2>1. Rehash /\ blocks # PlanBlocks
      BY <1>2 DEF Raise, CalibrateAll, ApplyAll, Rehash
    <2>2. altered
      BY <1>1, <2>1 DEF Rehash, RInv, IInv, BlocksInv, PlanBlocks, Plan, doms
    <2> QED BY <1>2, <2>1, <2>2, RaiseRefines DEF Rehash, Excused
  <1>3. CASE ~Raise
    <2>1. /\ pc' \in {"apply", "rehash", "train"}
          /\ UNCHANGED <<input, trainer, refused, predictors, outer, target>>
      BY <1>3 DEF CalibrateAll, ApplyAll, Rehash, foldVars
    <2>2. ShapeInv'
      BY <1>1, <2>1 DEF ShapeInv, Serving, FirstFit
    <2> QED BY <1>1, <1>3, <2>1, <2>2, EarlyRefines
  <1> QED BY <1>2, <1>3

(* Finished folds stay finished while the caches stay as they are. *)
LEMMA StaysServed ==
    ASSUME UNCHANGED <<input, trainer, refused, graphVars>>
    PROVE  doms' = doms /\ \A s : Served(s) => Served(s)'
  BY ServedAgain DEF doms, graphVars

LEMMA TableStays ==
    ASSUME RInv, UNCHANGED <<input, trainer, refused, graphVars, predictors>>, pc' # "predict"
    PROVE  TableInv'
  <1>1. doms' = doms /\ \A s : Served(s) => Served(s)'
    BY StaysServed
  <1> QED BY <1>1 DEF RInv, TableInv, PromptsOf

(* A predictor out of the cache is as good as when it was put there. *)
LEMMA CachedRefines ==
    ASSUME RInv, NEW s \in CalibratedSubsets(doms), s = Training, predictors[s] # None,
           predictor' = predictors[s],
           UNCHANGED <<input, trainer, refused, graphVars, foldVars, predictors>>
    PROVE  TableInv'
  <1>1. /\ doms' = doms /\ (\A x : Served(x) => Served(x)')
        /\ Training' = s /\ \A x : PromptsOf(x)' = PromptsOf(x)
    BY StaysServed DEF Training, foldVars, doms, PromptsOf
  <1>2. \A x \in CalibratedSubsets(doms) : predictors[x] # None =>
           PromptsOf(doms \ x) \subseteq DOMAIN predictors[x] /\ Served(x)
    BY DEF RInv, TableInv
  <1>3. \A x \in CalibratedSubsets(doms) : predictors'[x] # None =>
           PromptsOf(doms \ x)' \subseteq DOMAIN predictors'[x] /\ Served(x)'
    BY <1>1, <1>2
  <1>4. PromptsOf(doms \ Training)' \subseteq DOMAIN predictor' /\ Served(Training)'
    BY <1>1, <1>2
  <1> QED BY <1>1, <1>3, <1>4 DEF TableInv

(* The prepared trainers were not built for fewer. *)
LEMMA EnoughDomains ==
    ASSUME RInv, Serving, trainer # "bilinear" PROVE Len(input.rows) >= 4
  <1>1. Len(input.rows) \in 4..7
    BY DEF RInv, ShapeInv, Serving
  <1>2. Len(input.rows) \in Nat
    BY Basics DEF RInv
  <1> QED BY <1>1, <1>2, FourToSeven

(* A fit that is served keeps the loops where they are. *)
LEMMA TrainRefines ==
    ASSUME RInv, IInv', TableInv', Len(input.rows) >= 4, pc = "train", pc' = "predict",
           UNCHANGED <<input, trainer, refused, foldVars>>,
           \A s \in CalibratedSubsets(doms) : Served(s) => Served(s)'
    PROVE  RInv'
  <1>1. /\ UNCHANGED <<outer, target, innerScores, schedule, outerScores>>
        /\ doms' = doms
    BY DEF foldVars, doms
  <1>2. ShapeInv'
    BY <1>1 DEF RInv, ShapeInv, Serving, FirstFit
  <1>2a. /\ outer \in doms
         /\ \A a \in doms : /\ doms \ {a} \in CalibratedSubsets(doms)
                            /\ \A b \in doms : doms \ {a, b} \in CalibratedSubsets(doms)
    BY RequestsArePlanned, Basics DEF RInv
  <1>3. \A a \in doms : Finished(a) => Finished(a)'
    BY <1>1, <1>2a DEF Finished
  <1>4. \A b \in doms : Fit(b) => Fit(b)'
    BY <1>1, <1>2a DEF Fit
  <1>5. LoopInv'
    <2>1. (Serving => \A a \in doms : a < outer => Finished(a))'
      BY <1>1, <1>3 DEF RInv, LoopInv, Serving
    <2>2. (target # outer => \A b \in doms \ {outer} : b < target => Fit(b))'
      BY <1>1, <1>4 DEF RInv, LoopInv
    <2>3. (target = outer => /\ schedule[outer] # None
                             /\ \A b \in doms \ {outer} : Served(doms \ {outer, b}))'
      BY <1>1, <1>2a DEF RInv, LoopInv
    <2> QED BY <2>1, <2>2, <2>3 DEF LoopInv
  <1> QED BY <1>2, <1>5 DEF RInv

LEMMA TrainBilinearRefines == ASSUME RInv, TrainBilinear PROVE RInv' /\ (Raise => Excused)
  <1>1. /\ IInv' /\ Len(input.rows) \in Nat /\ outer \in doms /\ target \in doms
        /\ trainer = "bilinear" /\ pc = "train" /\ Training = doms \ {outer, target}
    BY TrainBilinearKeeps, Basics DEF RInv, TrainBilinear, Training
  <1>2. /\ Cardinality(Training) >= Len(input.rows) - 2
        /\ outer # target => Cardinality(Training) = Len(input.rows) - 2
        /\ Cardinality(Training) \in Int
    <2>1. /\ Cardinality(Training) >= Len(input.rows) - 2
          /\ outer # target => Cardinality(Training) = Len(input.rows) - 2
      BY <1>1, RequestsArePlanned DEF RInv
    <2>2. IsFiniteSet(Training)
      BY <1>1, Basics, FS_Subset DEF RInv
    <2> QED BY <2>1, <2>2, FS_CardinalityType
  <1>3. CASE Raise
    <2>1. Cardinality(Training) < 2
      BY <1>3 DEF TrainBilinear, Trained, Raise
    <2>2. Len(input.rows) < 4
      BY <1>1, <1>2, <2>1
    <2> QED BY <1>3, <2>2, RaiseRefines DEF TrainBilinear, Excused
  <1>4. CASE ~Raise
    <2>1. /\ ~(Cardinality(Training) < 2) /\ pc' = "predict"
          /\ predictor' = OnDemandPredictor(Training)
          /\ UNCHANGED <<input, trainer, refused, graphVars, foldVars, predictors>>
      BY <1>4 DEF TrainBilinear, Trained
    <2>2. Len(input.rows) >= 4
      <3>1. CASE FirstFit
        BY <1>1, <1>2, <2>1, <3>1 DEF FirstFit
      <3>2. CASE ~FirstFit
        BY <1>1, <3>2 DEF RInv, ShapeInv, Serving
      <3> QED BY <3>1, <3>2
    <2>3. \A s : Served(s) => Served(s)'
      BY <2>1, ServedAgain DEF graphVars
    <2>4. TableInv'
      <3>1. DOMAIN predictor' = PromptsOf(doms)
        BY <2>1 DEF OnDemandPredictor
      <3>2. Served(Training)'
        BY <1>1, <2>1 DEF Served
      <3>3. PromptsOf(doms \ Training)' \subseteq DOMAIN predictor'
        BY <2>1, <3>1 DEF PromptsOf, doms, Training, foldVars
      <3>4. \A s \in CalibratedSubsets(doms) : predictors[s] # None =>
               PromptsOf(doms \ s) \subseteq DOMAIN predictors[s] /\ Served(s)
        BY DEF RInv, TableInv
      <3> QED BY <2>1, <2>3, <3>2, <3>3, <3>4 DEF TableInv, PromptsOf, doms
    <2> QED BY <1>1, <1>4, <2>1, <2>2, <2>3, <2>4, TrainRefines
  <1> QED BY <1>3, <1>4

LEMMA TrainReferenceRefines == ASSUME RInv, TrainReference PROVE RInv' /\ (Raise => Excused)
  <1> DEFINE s == Training
             calibration == CalibrationFor(s)
             scores == [d \in doms \ s |-> CalibratedBlock(s, d, calibration)]
  <1>1. /\ IInv' /\ pc = "train" /\ trainer = "reference" /\ input \in Inputs
        /\ s \in CalibratedSubsets(doms) /\ s \subseteq doms
    <2>1. IInv' /\ pc = "train" /\ trainer = "reference"
      BY TrainReferenceKeeps DEF RInv, TrainReference
    <2>2. s \in CalibratedSubsets(doms) /\ input \in Inputs
      BY RequestsArePlanned, Basics DEF RInv, Training
    <2> QED BY <2>1, <2>2, BlocksAreThere DEF doms
  <1>2. calibration = Calibration(input, s) /\ \A d \in doms \ s : scores[d] = Score(input, s, d)
    <2>1. blocks = Plan(input)
      BY <1>1 DEF RInv, IInv, TrainerInv, BlocksInv
    <2>2. \A c \in s : blocks[<<s \ {c}, c>>] = RawScore(input, s \ {c}, c)
      BY <1>1, <2>1, BlocksAreThere DEF Plan, doms
    <2>3. \A d \in doms \ s : blocks[<<s, d>>] = RawScore(input, s, d)
      BY <1>1, <2>1, BlocksAreThere DEF Plan, doms
    <2>4. calibration = Calibration(input, s)
      BY <2>2 DEF CalibrationFor, Calibration
    <2> HIDE DEF calibration
    <2> QED BY <2>3, <2>4 DEF CalibratedBlock, Score
  <1>3. UNCHANGED <<input, trainer, refused>>
    BY DEF TrainReference
  <1>4. CASE Raise
    <2>1. Collides(s, scores)
      BY <1>1, <1>4 DEF TrainReference, Raise, UseCached, Serve, Trained
    <2> HIDE DEF scores, calibration
    <2> QED BY <1>2, <1>3, <1>4, <2>1, CollisionsAreAmbiguities, RaiseRefines DEF Excused
  <1>5. CASE ~Raise /\ Cached(s)
    <2>1. /\ predictor' = predictors[s] /\ pc' = "predict" /\ predictors[s] # None
          /\ UNCHANGED <<input, trainer, refused, graphVars, foldVars, predictors>>
      BY <1>1, <1>3, <1>5 DEF TrainReference, UseCached, Trained, Cached
    <2>2. \A x : Served(x) => Served(x)'
      BY <2>1, ServedAgain DEF graphVars
    <2>3. TableInv'
      BY <1>1, <2>1, CachedRefines
    <2>4. Len(input.rows) >= 4
      BY <1>1, EnoughDomains DEF Serving
    <2> QED BY <1>1, <1>5, <2>1, <2>2, <2>3, <2>4, TrainRefines
  <1>6. CASE ~Raise /\ ~Cached(s)
    <2>1. ~Collides(s, scores)
      BY <1>1, <1>6 DEF TrainReference
    <2>2. /\ predictor' = Table(s, scores) /\ pc' = "predict"
          /\ predictors' = [predictors EXCEPT ![s] = Table(s, scores)]
          /\ calibrations' = [calibrations EXCEPT ![s] = calibration]
          /\ calibrated' = [b \in CalibratedBlocks(doms) |->
                               IF b[1] = s THEN scores[b[2]] ELSE calibrated[b]]
          /\ UNCHANGED <<blocks, altered, foldVars>>
      BY <1>1, <1>6, <2>1 DEF TrainReference, Serve, Trained
    <2>3. doms' = doms /\ Training' = Training /\ DOMAIN calibrations = CalibratedSubsets(doms)
          /\ DOMAIN predictors = CalibratedSubsets(doms)
      BY <1>3, <2>2 DEF doms, Training, foldVars, RInv, IInv, TypeOK
    <2>4. Resolved(s)
      BY <1>2, <2>1, CollisionsAreAmbiguities
    <2>5. calibration # None /\ \A d \in doms \ s : scores[d] # None
      BY <1>1, <1>2, NoneAssumption DEF doms
    <2>6. \A d \in doms \ s : <<s, d>> \in CalibratedBlocks(doms)
      BY <1>1, BlocksAreThere DEF doms
    <2>7. DOMAIN Table(s, scores) = PromptsOf(doms \ s)
      BY DEF Table
    <2> HIDE DEF scores, calibration
    <2>8. Served(s)'
      <3>1. calibrations'[s] # None
        BY <1>1, <2>2, <2>3, <2>5
      <3>2. \A d \in doms \ s : calibrated'[<<s, d>>] # None
        BY <2>2, <2>5, <2>6
      <3> QED BY <1>1, <1>3, <2>3, <2>4, <3>1, <3>2 DEF Served, Resolved
    <2>9. ASSUME NEW x \in CalibratedSubsets(doms), Served(x) PROVE Served(x)'
      <3>1. CASE x = s
        BY <2>3, <2>8, <3>1
      <3>2. CASE x # s
        <4>1. /\ Resolved(x) /\ calibrations[x] # None
              /\ \A d \in doms \ x : calibrated[<<x, d>>] # None
          BY <1>1, <2>9 DEF Served
        <4>2. calibrations'[x] # None
          BY <1>1, <2>2, <2>3, <3>2, <4>1
        <4>3. \A d \in doms \ x : <<x, d>> \in CalibratedBlocks(doms)
          BY <1>1, BlocksAreThere DEF doms
        <4>4. \A d \in doms \ x : calibrated'[<<x, d>>] # None
          BY <2>2, <3>2, <4>1, <4>3
        <4> QED BY <1>3, <2>3, <4>1, <4>2, <4>4 DEF Served, Resolved
      <3> QED BY <3>1, <3>2
    <2>10. ASSUME NEW x \in CalibratedSubsets(doms), predictors'[x] # None
           PROVE  PromptsOf(doms \ x) \subseteq DOMAIN predictors'[x] /\ Served(x)'
      <3>1. CASE x = s
        BY <1>1, <2>2, <2>3, <2>7, <2>8, <3>1
      <3>2. CASE x # s
        BY <1>1, <2>2, <2>3, <2>9, <2>10, <3>2 DEF RInv, TableInv
      <3> QED BY <3>1, <3>2
    <2>11. TableInv'
      BY <1>1, <1>3, <2>2, <2>3, <2>7, <2>8, <2>10 DEF TableInv, PromptsOf
    <2>12. Len(input.rows) >= 4
      BY <1>1, EnoughDomains DEF Serving
    <2> QED BY <1>1, <1>3, <1>6, <2>2, <2>9, <2>11, <2>12, TrainRefines
  <1> QED BY <1>4, <1>5, <1>6

LEMMA TrainNativeRefines == ASSUME RInv, TrainNative PROVE RInv' /\ (Raise => Excused)
  <1> DEFINE s == Training
             scores == [d \in doms \ s |-> calibrated[<<s, d>>]]
  <1>1. /\ IInv' /\ pc = "train" /\ trainer = "native" /\ input \in Inputs
        /\ s \in CalibratedSubsets(doms) /\ s \subseteq doms
    <2>1. IInv' /\ pc = "train" /\ trainer = "native"
      BY TrainNativeKeeps DEF RInv, TrainNative
    <2>2. s \in CalibratedSubsets(doms) /\ input \in Inputs
      BY RequestsArePlanned, Basics DEF RInv, Training
    <2> QED BY <2>1, <2>2, BlocksAreThere DEF doms
  <1>2. \A d \in doms \ s : scores[d] = Score(input, s, d)
    <2>1. calibrated = PlanCalibrated(input)
      BY <1>1 DEF RInv, IInv, BlocksInv, Serving
    <2> QED BY <1>1, <2>1, BlocksAreThere DEF PlanCalibrated, doms
  <1>3. UNCHANGED <<input, trainer, refused>>
    BY DEF TrainNative
  <1>4. CASE Raise
    <2>1. Collides(s, scores)
      BY <1>1, <1>4 DEF TrainNative, Raise, UseCached, Serve, Trained
    <2> HIDE DEF scores
    <2> QED BY <1>2, <1>3, <1>4, <2>1, CollisionsAreAmbiguities, RaiseRefines DEF Excused
  <1>5. CASE ~Raise
    <2>1. CASE Cached(s)
      <3>1. /\ predictor' = predictors[s] /\ pc' = "predict" /\ predictors[s] # None
            /\ UNCHANGED <<input, trainer, refused, graphVars, foldVars, predictors>>
        BY <1>1, <1>3, <1>5, <2>1 DEF TrainNative, UseCached, Trained, Cached
      <3>2. \A x : Served(x) => Served(x)'
        BY <3>1, ServedAgain DEF graphVars
      <3>3. TableInv'
        BY <1>1, <3>1, CachedRefines
      <3>4. Len(input.rows) >= 4
        BY <1>1, EnoughDomains DEF Serving
      <3> QED BY <1>1, <1>5, <3>1, <3>2, <3>3, <3>4, TrainRefines
    <2>2. CASE ~Cached(s)
      <3>1. ~Collides(s, scores)
        BY <1>1, <1>5, <2>2 DEF TrainNative
      <3>2. /\ predictor' = Table(s, scores) /\ pc' = "predict"
            /\ predictors' = [predictors EXCEPT ![s] = Table(s, scores)]
            /\ UNCHANGED <<graphVars, foldVars>>
        BY <1>1, <1>5, <2>2, <3>1 DEF TrainNative, Serve, Trained
      <3>3. /\ doms' = doms /\ Training' = Training
            /\ DOMAIN predictors = CalibratedSubsets(doms)
        BY <1>3, <3>2 DEF doms, Training, foldVars, RInv, IInv, TypeOK
      <3>4. Resolved(s)
        BY <1>2, <3>1, CollisionsAreAmbiguities
      <3>5. \A x : Served(x) => Served(x)'
        BY <1>3, <3>2, ServedAgain DEF graphVars
      <3>6. Served(s)'
        BY <1>1, <1>3, <3>3, <3>4 DEF Served, Resolved
      <3>7. DOMAIN Table(s, scores) = PromptsOf(doms \ s)
        BY DEF Table
      <3> HIDE DEF scores
      <3>8. ASSUME NEW x \in CalibratedSubsets(doms), predictors'[x] # None
            PROVE  PromptsOf(doms \ x) \subseteq DOMAIN predictors'[x] /\ Served(x)'
        <4>1. CASE x = s
          BY <1>1, <3>2, <3>3, <3>6, <3>7, <4>1
        <4>2. CASE x # s
          BY <1>1, <3>2, <3>3, <3>5, <3>8, <4>2 DEF RInv, TableInv
        <4> QED BY <4>1, <4>2
      <3>9. TableInv'
        BY <1>1, <1>3, <3>2, <3>3, <3>6, <3>7, <3>8 DEF TableInv, PromptsOf
      <3>10. Len(input.rows) >= 4
        BY <1>1, EnoughDomains DEF Serving
      <3> QED BY <1>1, <1>3, <1>5, <3>2, <3>5, <3>9, <3>10, TrainRefines
    <2> QED BY <2>1, <2>2
  <1> QED BY <1>4, <1>5


-----------------------------------------------------------------------------
(* The loops. *)

(* The next inner domain is asked for when this one has its score. *)
LEMMA PredictInnerRefines == ASSUME RInv, PredictInner PROVE RInv' /\ ~Raise
  <1>1. /\ IInv' /\ pc = "predict" /\ target # outer /\ target \in doms /\ outer \in doms
        /\ input \in Inputs /\ DOMAIN innerScores = doms /\ Training = doms \ {outer, target}
    BY PredictInnerKeeps DEF RInv, IInv, TypeOK, PredictInner, Training
  <1>2. input.prompts[target] \in DOMAIN predictor /\ Served(Training)
    BY <1>1 DEF RInv, TableInv, PromptsOf
  <1>3. predictor[input.prompts[target]] # None
    <2>1. Good(input, predictor, Training)
      BY <1>1 DEF RInv, IInv, PredictorInv
    <2>2. predictor[input.prompts[target]] = Score(input, Training, target)
      BY <1>1, <1>2, <2>1 DEF Good, doms
    <2>3. Training \in SUBSET Domains(input) /\ target \in Domains(input)
      BY <1>1 DEF doms
    <2> QED BY <1>1, <2>2, <2>3, NoneAssumption
  <1>4. /\ innerScores' = [innerScores EXCEPT ![target] = predictor[input.prompts[target]]]
        /\ UNCHANGED <<input, trainer, refused, graphVars, outer, schedule, outerScores,
                       predictors, predictor>>
        /\ IF After(target) = {} THEN pc' = "tune" /\ target' = target
           ELSE \E d \in After(target) : (\A e \in After(target) : d <= e) /\ Request(d)
    BY <1>2 DEF PredictInner
  <1>5. pc' \in {"tune", "train"} /\ doms' = doms /\ \A s : Served(s) => Served(s)'
    BY <1>4, StaysServed DEF Request
  <1>6. \A b \in doms : Fit(b) => Fit(b)'
    BY <1>1, <1>3, <1>4, <1>5 DEF Fit
  <1>7. ASSUME NEW b \in doms, b = target PROVE Fit(b)'
    <2>1. innerScores'[b] # None
      BY <1>1, <1>3, <1>4, <1>7
    <2>2. Served(doms \ {outer, b})'
      BY <1>1, <1>2, <1>4, <1>5, <1>7
    <2> QED BY <2>1, <2>2 DEF Fit
  <1>8. \A a \in doms : Finished(a) => Finished(a)'
    BY <1>4, <1>5 DEF Finished
  <1>9. /\ (\A a \in doms : a < outer => Finished(a))'
        /\ \A b \in doms \ {outer} : b < target => Fit(b)'
    <2>1. \A a \in doms : a < outer => Finished(a)
      BY <1>1 DEF RInv, LoopInv, Serving
    <2>2. \A b \in doms \ {outer} : b < target => Fit(b)
      BY <1>1 DEF RInv, LoopInv
    <2> QED BY <1>4, <1>5, <1>6, <1>8, <2>1, <2>2
  <1>10. \A b \in doms : b \in Int
    BY Basics DEF RInv
  <1>11. LoopInv'
    <2>1. CASE After(target) = {}
      <3>1. pc' = "tune"
        BY <1>4, <2>1
      <3>2. \A b \in doms \ {outer} : ~(b > target)
        BY <2>1 DEF After
      <3>3. \A b \in doms \ {outer} : b < target \/ b = target
        BY <1>1, <1>10, <3>2
      <3>4. \A b \in doms \ {outer} : Fit(b)'
        BY <1>7, <1>9, <3>3
      <3> QED BY <1>4, <1>5, <1>9, <3>1, <3>4 DEF LoopInv
    <2>2. CASE After(target) # {}
      <3>1. PICK d \in After(target) : (\A e \in After(target) : d <= e) /\ Request(d)
        BY <1>4, <2>2
      <3>2. /\ pc' = "train" /\ target' = d /\ d \in doms \ {outer}
            /\ \A e \in doms \ {outer} : e > target => d <= e
        BY <3>1 DEF Request, After
      <3>3. \A b \in doms \ {outer} : b < d => b < target \/ b = target
        BY <1>1, <1>10, <3>2
      <3>4. \A b \in doms \ {outer} : b < d => Fit(b)'
        BY <1>7, <1>9, <3>3
      <3> QED BY <1>4, <1>5, <1>9, <3>2, <3>4 DEF LoopInv
    <2> QED BY <2>1, <2>2
  <1>12. ShapeInv'
    <2>1. Serving' /\ Serving /\ ~FirstFit
      BY <1>1, <1>5 DEF Serving, FirstFit
    <2> QED BY <1>1, <1>4, <1>5, <2>1 DEF RInv, ShapeInv
  <1>13. TableInv' /\ ~Raise
    BY <1>4, <1>5, TableStays DEF Raise
  <1> QED BY <1>1, <1>11, <1>12, <1>13 DEF RInv

(* Tuning has every cross-fitted score it needs. *)
LEMMA TuneRefines == ASSUME RInv, Tune PROVE RInv' /\ (Raise => Excused)
  <1>1. /\ IInv' /\ pc = "tune" /\ input \in Inputs /\ outer \in doms /\ DOMAIN schedule = doms
        /\ \A b \in doms \ {outer} : Fit(b)
    BY TuneKeeps DEF RInv, IInv, TypeOK, Tune, LoopInv
  <1>2. \A b \in doms \ {outer} : innerScores[b] # None
    BY <1>1 DEF Fit
  <1>3. CASE ~LambdaFound
    <2>1. Raise /\ UNCHANGED <<input, trainer, refused>>
      BY <1>3 DEF Tune
    <2>2. input.infeasible # {}
      BY <1>3 DEF LambdaFound
    <2> QED BY <1>1, <2>1, <2>2, RaiseRefines DEF Excused
  <1>4. CASE LambdaFound
    <2>1. /\ schedule' = [schedule EXCEPT ![outer] =
                 [rows |-> doms \ {outer}, scores |-> [d \in doms \ {outer} |-> innerScores[d]]]]
          /\ pc' = "train" /\ target' = outer
          /\ UNCHANGED <<input, trainer, refused, graphVars, outer, innerScores, outerScores,
                         predictors, predictor>>
      BY <1>2, <1>4 DEF Tune, Request
    <2>2. doms' = doms /\ \A s : Served(s) => Served(s)'
      BY <2>1, StaysServed
    <2>3. schedule'[outer] # None
      <3>1. \A d \in doms \ {outer} : innerScores[d] = Score(input, doms \ {outer, d}, d)
        BY <1>2 DEF RInv, IInv, ScoreInv
      <3>2. schedule'[outer] = Tuning(input, outer)
        BY <1>1, <2>1, <3>1 DEF Tuning, doms
      <3>3. outer \in Domains(input) /\ {} \in SUBSET Domains(input)
        BY <1>1 DEF doms
      <3> QED BY <1>1, <3>2, <3>3, NoneAssumption
    <2>4. \A a \in doms : a # outer => (Finished(a) => Finished(a)')
      BY <1>1, <2>1, <2>2 DEF Finished
    <2>5. \A a \in doms : a < outer => Finished(a) /\ a # outer
      <3>1. \A a \in doms : a < outer => Finished(a)
        BY <1>1 DEF RInv, LoopInv, Serving
      <3>2. \A a \in doms : a < outer => a # outer
        BY <1>1, Basics DEF RInv
      <3> QED BY <3>1, <3>2
    <2>6. LoopInv'
      <3>1. (\A a \in doms : a < outer => Finished(a))'
        BY <2>1, <2>2, <2>4, <2>5
      <3>2. ASSUME NEW b \in doms \ {outer} PROVE Served(doms \ {outer, b})'
        <4>1. Served(doms \ {outer, b})
          BY <1>1 DEF Fit
        <4>2. (doms \ {outer, b})' = doms \ {outer, b}
          BY <2>1, <2>2
        <4> QED BY <2>2, <4>1, <4>2
      <3> QED BY <2>1, <2>2, <2>3, <3>1, <3>2 DEF LoopInv
    <2>7. ShapeInv'
      <3>1. Serving' /\ Serving /\ ~FirstFit
        BY <1>1, <2>1 DEF Serving, FirstFit
      <3>2. ~FirstFit'
        <4>1. outer # 1 \/ outer # 2
          OBVIOUS
        <4> QED BY <2>1, <4>1 DEF FirstFit
      <3> QED BY <1>1, <2>1, <2>2, <3>1, <3>2 DEF RInv, ShapeInv
    <2>8. TableInv' /\ ~Raise
      BY <2>1, TableStays DEF Raise
    <2> QED BY <1>1, <2>6, <2>7, <2>8 DEF RInv
  <1> QED BY <1>3, <1>4

(* The outer domain is finished, and the next one asked for. *)
LEMMA PredictOuterRefines == ASSUME RInv, PredictOuter PROVE RInv' /\ ~Raise
  <1>1. /\ IInv' /\ pc = "predict" /\ target = outer /\ outer \in doms /\ input \in Inputs
        /\ DOMAIN outerScores = doms /\ Training = doms \ {outer}
    BY PredictOuterKeeps DEF RInv, IInv, TypeOK, PredictOuter, Training
  <1>2. input.prompts[outer] \in DOMAIN predictor /\ Served(doms \ {outer})
    BY <1>1 DEF RInv, TableInv, PromptsOf
  <1>3. predictor[input.prompts[outer]] # None
    <2>1. Good(input, predictor, doms \ {outer})
      BY <1>1 DEF RInv, IInv, PredictorInv
    <2>2. predictor[input.prompts[outer]] = Score(input, doms \ {outer}, outer)
      BY <1>1, <1>2, <2>1 DEF Good, doms
    <2>3. doms \ {outer} \in SUBSET Domains(input) /\ outer \in Domains(input)
      BY <1>1 DEF doms
    <2> QED BY <1>1, <2>2, <2>3, NoneAssumption
  <1>4. /\ outerScores' = [outerScores EXCEPT ![outer] = predictor[input.prompts[outer]]]
        /\ UNCHANGED <<input, trainer, refused, graphVars, schedule, predictors, predictor>>
        /\ IF LastFold THEN pc' = "replay" /\ UNCHANGED <<outer, target>>
           ELSE outer' = outer + 1 /\ pc' = "train" /\ target' = 1
    BY <1>1, <1>2 DEF PredictOuter, Request
  <1>5. doms' = doms /\ \A s : Served(s) => Served(s)'
    BY <1>4, StaysServed
  <1>6. ASSUME NEW a \in doms, a = outer PROVE Finished(a)'
    <2>1. schedule[a] # None /\ \A b \in doms \ {a} : Served(doms \ {a, b})
      BY <1>1, <1>6 DEF RInv, LoopInv
    <2>2. outerScores'[a] # None /\ schedule'[a] # None
      BY <1>1, <1>3, <1>4, <1>6, <2>1
    <2>3. Served(doms \ {a})' /\ \A b \in doms \ {a} : Served(doms \ {a, b})'
      BY <1>2, <1>5, <1>6, <2>1
    <2> QED BY <1>5, <2>2, <2>3 DEF Finished
  <1>7. \A a \in doms : a # outer => (Finished(a) => Finished(a)')
    BY <1>1, <1>4, <1>5 DEF Finished
  <1>8. \A a \in doms : a < outer => Finished(a)
    BY <1>1 DEF RInv, LoopInv, Serving
  <1>9. \A a \in doms : a < outer \/ a = outer => Finished(a)'
    <2>1. \A a \in doms : a < outer => a # outer
      BY <1>1, Basics DEF RInv
    <2> QED BY <1>6, <1>7, <1>8, <2>1
  <1>10. doms = 1..Len(input.rows) /\ Len(input.rows) \in Nat
    BY Basics DEF RInv
  <1>11. LoopInv'
    <2>1. CASE LastFold
      <3>1. pc' = "replay" /\ outer' = outer
        BY <1>4, <2>1
      <3>2. \A a \in doms : a < outer \/ a = outer
        BY <1>10, <2>1 DEF LastFold
      <3>3. \A a \in doms : Finished(a)'
        BY <1>9, <3>2
      <3> QED BY <1>5, <3>1, <3>3 DEF LoopInv
    <2>2. CASE ~LastFold
      <3>1. pc' = "train" /\ target' = 1 /\ outer' = outer + 1
        BY <1>4, <2>2
      <3>2. \A a \in doms : (a < outer + 1 => a < outer \/ a = outer) /\ ~(a < 1)
        BY <1>1, <1>10
      <3>3. target' # outer'
        BY <1>1, <1>10, <3>1
      <3>4. \A a \in doms : a < outer' => Finished(a)'
        BY <1>9, <3>1, <3>2
      <3> QED BY <1>5, <3>1, <3>2, <3>3, <3>4 DEF LoopInv
    <2> QED BY <2>1, <2>2
  <1>12. ShapeInv'
    <2>1. Serving' /\ Serving /\ ~FirstFit
      BY <1>1, <1>4 DEF Serving, FirstFit
    <2> QED BY <1>1, <1>4, <1>5, <2>1 DEF RInv, ShapeInv
  <1>13. TableInv' /\ ~Raise
    <2>1. pc' # "predict" /\ pc' # "raised"
      BY <1>4
    <2> QED BY <1>4, <2>1, TableStays DEF Raise
  <1> QED BY <1>1, <1>11, <1>12, <1>13 DEF RInv

(* The calibrated subsets of the plan are what the loops ask for. *)
LEMMA SubsetsAreRequests ==
    ASSUME IInv, NEW s \in CalibratedSubsets(doms)
    PROVE  \E a, b \in doms : s = doms \ {a, b}
  <1>1. PICK k \in 1..2, omitted \in SUBSET doms : Cardinality(omitted) = k /\ s = doms \ omitted
    BY DEF CalibratedSubsets, LeavingOut, kSubset
  <1>2. IsFiniteSet(omitted)
    BY Basics, FS_Subset
  <1>3. CASE k = 1
    <2>1. PICK a : omitted = {a}
      BY <1>1, <1>2, <1>3, FS_Singleton
    <2>2. a \in doms /\ s = doms \ {a, a}
      BY <1>1, <2>1
    <2> QED BY <2>2
  <1>4. CASE k = 2
    <2>1. omitted # {}
      BY <1>1, <1>4, FS_EmptySet
    <2>2. PICK a : a \in omitted
      BY <2>1
    <2>3. IsFiniteSet(omitted \ {a}) /\ Cardinality(omitted \ {a}) = 1
      BY <1>1, <1>2, <1>4, <2>2, FS_RemoveElement
    <2>4. PICK b : omitted \ {a} = {b}
      BY <2>3, FS_Singleton
    <2>5. a \in doms /\ b \in doms /\ s = doms \ {a, b}
      BY <1>1, <2>2, <2>4
    <2> QED BY <2>5
  <1> QED BY <1>3, <1>4

(* Once every outer fold is finished, every fit of the plan was served. *)
LEMMA AllServed ==
    ASSUME RInv, \A a \in doms : Finished(a)
    PROVE  \A s \in CalibratedSubsets(doms) : Served(s)
  <1> SUFFICES ASSUME NEW s \in CalibratedSubsets(doms) PROVE Served(s)
    OBVIOUS
  <1>1. PICK a, b \in doms : s = doms \ {a, b}
    BY SubsetsAreRequests DEF RInv
  <1>2. CASE a = b
    <2>1. s = doms \ {a}
      BY <1>1, <1>2
    <2> QED BY <2>1 DEF Finished
  <1>3. CASE a # b
    BY <1>1, <1>3 DEF Finished
  <1> QED BY <1>2, <1>3

(* Steps that leave the caches, the folds and the place alone. *)
LEMMA QuietRefines ==
    ASSUME RInv, IInv', UNCHANGED <<input, trainer, refused, pc, calibrations, calibrated,
                                   foldVars, predictors, predictor>>
    PROVE  RInv'
  <1>1. /\ UNCHANGED <<outer, target, innerScores, schedule, outerScores>>
        /\ doms' = doms /\ (\A s : Served(s) => Served(s)') /\ Training' = Training
    BY ServedAgain DEF foldVars, doms, Training
  <1>2. ShapeInv'
    BY <1>1 DEF RInv, ShapeInv, Serving, FirstFit
  <1>3. TableInv'
    <2>1. \A x : PromptsOf(x)' = PromptsOf(x)
      BY DEF PromptsOf
    <2>2. \A x \in CalibratedSubsets(doms) : predictors'[x] # None =>
             PromptsOf(doms \ x)' \subseteq DOMAIN predictors'[x] /\ Served(x)'
      BY <1>1, <2>1 DEF RInv, TableInv
    <2>3. pc' = "predict" =>
             PromptsOf(doms \ Training)' \subseteq DOMAIN predictor' /\ Served(Training)'
      BY <1>1, <2>1 DEF RInv, TableInv
    <2> QED BY <1>1, <2>2, <2>3 DEF TableInv
  <1>4. LoopInv'
    <2>1. \A a \in doms : (Finished(a) => Finished(a)') /\ (Fit(a) => Fit(a)')
      BY <1>1 DEF Finished, Fit
    <2>2. (Serving => \A a \in doms : a < outer => Finished(a))'
      BY <1>1, <2>1 DEF RInv, LoopInv, Serving
    <2>3. (pc \in {"train", "predict"} /\ target # outer =>
              \A b \in doms \ {outer} : b < target => Fit(b))'
      BY <1>1, <2>1 DEF RInv, LoopInv
    <2>4. (pc \in {"train", "predict"} /\ target = outer =>
              /\ schedule[outer] # None
              /\ \A b \in doms \ {outer} : Served(doms \ {outer, b}))'
      BY <1>1 DEF RInv, LoopInv
    <2>5. (pc = "tune" => \A b \in doms \ {outer} : Fit(b))'
          /\ (pc = "replay" => \A a \in doms : Finished(a))'
      BY <1>1, <2>1 DEF RInv, LoopInv
    <2> QED BY <2>2, <2>3, <2>4, <2>5 DEF LoopInv
  <1> QED BY <1>2, <1>3, <1>4 DEF RInv

LEMMA AlterRefines == ASSUME RInv, Alter PROVE RInv'
  <1>1. IInv'
    BY AlterKeeps DEF RInv
  <1> QED BY <1>1, QuietRefines DEF Alter

LEMMA StutteringRefines == ASSUME RInv, UNCHANGED vars PROVE RInv'
  <1>1. IInv'
    BY StutteringKeeps DEF RInv
  <1> QED BY <1>1, QuietRefines DEF vars, graphVars

(* The replay finds all it looks for. *)
LEMMA ReplayRefines == ASSUME RInv, Replay PROVE RInv' /\ ~Raise
  <1>1. IInv' /\ pc = "replay" /\ \A a \in doms : Finished(a)
    BY ReplayKeeps DEF RInv, LoopInv, Replay
  <1>2. \A d \in doms : outerScores[d] # None /\ schedule[d] # None
    BY <1>1 DEF Finished
  <1>3. ASSUME trainer = "reference"
        PROVE  /\ \A s \in CalibratedSubsets(doms) : calibrations[s] # None
               /\ \A b \in CalibratedBlocks(doms) : calibrated[b] # None
    <2>1. \A s \in CalibratedSubsets(doms) :
             calibrations[s] # None /\ \A d \in doms \ s : calibrated[<<s, d>>] # None
      BY <1>1, <1>3, AllServed DEF Served
    <2>2. \A b \in CalibratedBlocks(doms) :
             b[1] \in CalibratedSubsets(doms) /\ b[2] \in doms \ b[1] /\ b = <<b[1], b[2]>>
      BY DEF CalibratedBlocks, BlocksOf
    <2> QED BY <2>1, <2>2
  <1>4. /\ pc' = "done"
        /\ UNCHANGED <<input, trainer, refused, graphVars, foldVars, predictors, predictor>>
    BY <1>2, <1>3 DEF Replay
  <1>5. /\ UNCHANGED <<outer, target, innerScores, schedule, outerScores>>
        /\ doms' = doms /\ \A s : Served(s) => Served(s)'
    BY <1>4, StaysServed DEF foldVars
  <1>6. ShapeInv'
    <2>1. Serving' /\ Serving /\ ~FirstFit
      BY <1>1, <1>4 DEF Serving, FirstFit
    <2> QED BY <1>1, <1>4, <1>5, <2>1 DEF RInv, ShapeInv
  <1>7. TableInv' /\ ~Raise
    BY <1>4, TableStays DEF Raise
  <1>8. LoopInv'
    <2>1. \A a \in doms : Finished(a)'
      BY <1>1, <1>5 DEF Finished
    <2> QED BY <1>4, <1>5, <2>1 DEF LoopInv
  <1> QED BY <1>1, <1>6, <1>7, <1>8 DEF RInv

-----------------------------------------------------------------------------
(* The refinement. *)

(* A raise is a refusal, for a reason the contract knows. *)
LEMMA RaiseRefuses ==
    ASSUME RInv, Raise, Excused, UNCHANGED <<input, refused>>, pc \notin {"done", "raised"}
    PROVE  Textbook!Refuse
  <1>1. /\ outcome = "running" /\ outcome' = "raised"
        /\ answer = None /\ answer' = None /\ UNCHANGED <<input, refused, altered>>
    BY DEF Raise, graphVars, outcome, answer
  <1>2. \/ Textbook!TooFew \/ Textbook!TooMany \/ Textbook!Ambiguous
        \/ Textbook!Unaffordable \/ refused # {} \/ altered
    BY DEF Excused, Textbook!TooFew, Textbook!TooMany, Textbook!Ambiguous, Ambiguous,
           Textbook!Unaffordable, Textbook!Domains, Domains, doms
  <1>3. altered \in BOOLEAN /\ altered = altered
    BY DEF RInv, IInv, TypeOK
  <1> QED BY <1>1, <1>2, <1>3 DEF Textbook!Refuse

(* A step inside the evaluation shows nothing. *)
LEMMA InsideIsQuiet ==
    ASSUME pc \notin {"done", "raised"}, pc' \notin {"done", "raised"},
           UNCHANGED <<input, refused, altered>>
    PROVE  UNCHANGED Textbook!textbookVars
  BY DEF outcome, answer, Textbook!textbookVars

LEMMA TunedKept == ASSUME TypeOK, TunedInv, [Next]_vars PROVE TunedInv'
  <1>1. CASE Tune
    <2>1. UNCHANGED input /\ DOMAIN schedule = doms
      BY <1>1 DEF Tune, TypeOK
    <2>2. CASE Raise
      BY <2>1, <2>2 DEF Raise, foldVars, TunedInv, doms
    <2>3. CASE ~Raise
      <3>1. outer \notin input.infeasible /\ \E v : schedule' = [schedule EXCEPT ![outer] = v]
        BY <1>1, <2>3 DEF Tune, LambdaFound
      <3> QED BY <2>1, <3>1 DEF TunedInv, doms
    <2> QED BY <2>2, <2>3
  <1>2. CASE [Next]_vars /\ ~Tune
    <2>1. UNCHANGED <<input, schedule>>
      BY <1>2 DEF Next, Step, vars, Prepare, Preflight, CalibrateAll, ApplyAll, Rehash,
                  TrainBilinear, TrainReference, TrainNative, UseCached, Serve, PredictInner,
                  PredictOuter, Replay, Alter, Raise, foldVars
    <2> QED BY <2>1 DEF TunedInv, doms
  <1> QED BY <1>1, <1>2

(* The end of the replay is the answer. *)
LEMMA ReplayAnswers == ASSUME RInv, TunedInv, Replay PROVE Textbook!Answer
  <1>1. /\ pc = "replay" /\ ~Raise /\ \A a \in doms : Finished(a)
        /\ \A d \in doms : outerScores[d] # None /\ schedule[d] # None
    BY ReplayRefines DEF Replay, RInv, LoopInv, Finished
  <1>2. /\ pc' = "done"
        /\ UNCHANGED <<input, trainer, refused, altered, schedule, outerScores>>
    BY <1>1 DEF Replay, graphVars, foldVars
  <1>8. ~Textbook!Unaffordable
    <2>1. \A a \in doms : a \notin input.infeasible
      BY <1>1 DEF TunedInv
    <2>2. input.infeasible \subseteq doms
      BY Basics, InputsAssumption DEF RInv, doms, Domains
    <2> QED BY <2>1, <2>2 DEF Textbook!Unaffordable
  <1>3. ~Textbook!TooFew /\ refused = {}
    <2>1. Len(input.rows) >= 4 /\ refused = {}
      BY <1>1 DEF RInv, ShapeInv, Serving, FirstFit
    <2>2. Len(input.rows) \in Nat
      BY Basics DEF RInv
    <2>3. ~(Len(input.rows) < 4)
      BY <2>1, <2>2
    <2> QED BY <2>1, <2>3 DEF Textbook!TooFew
  <1>4. ~Ambiguous
    <2>1. CASE trainer = "bilinear"
      BY <2>1 DEF RInv, IInv, TrainerInv
    <2>2. CASE trainer # "bilinear"
      <3> SUFFICES ASSUME NEW d \in doms, NEW e \in doms, input.prompts[d] = input.prompts[e]
                   PROVE  input.embeddings[d] = input.embeddings[e]
        BY DEF Ambiguous
      <3>1. doms \ {d, e} \in CalibratedSubsets(doms)
        BY RequestsArePlanned DEF RInv
      <3>2. Resolved(doms \ {d, e})
        BY <1>1, <2>2, <3>1, AllServed DEF Served
      <3> QED BY <3>2 DEF Resolved
    <2> QED BY <2>1, <2>2
  <1>5. ~Textbook!Ambiguous
    BY <1>4 DEF Textbook!Ambiguous, Ambiguous, Textbook!Domains, Domains, doms
  <1>6. outcome = "running" /\ outcome' = "done"
    BY <1>1, <1>2 DEF outcome
  <1>7. answer' = Textbook!TextbookAnswer
    <2>1. answer' = [a \in doms |-> [score |-> outerScores[a], tuning |-> schedule[a]]]
      BY <1>2 DEF answer, doms
    <2> QED BY <1>1, <2>1, FinishedIsTextbook DEF RInv
  <1> QED BY <1>2, <1>3, <1>5, <1>6, <1>7, <1>8 DEF Textbook!Answer

(* The safety half of ImplementsTextbook. *)
TextbookSafety == Textbook!TextbookInit /\ [][Textbook!TextbookNext]_(Textbook!textbookVars)

(* Whichever trainer serves it, an evaluation of any number of domains     *)
(* returns the textbook answer or raises, raises only for a reason the     *)
(* contract lets it raise for, and answers nothing it had to refuse: too   *)
(* few domains, too many for a prepared graph, prompts that hide different *)
(* embeddings, a fold the preflight does not admit, one with a tier that   *)
(* no lambda is feasible for, an altered mapping.                          *)
THEOREM NestedRefines == Spec => TextbookSafety
  <1>1. Init => RInv /\ TunedInv /\ Textbook!TextbookInit
    <2> SUFFICES ASSUME Init PROVE RInv /\ TunedInv /\ Textbook!TextbookInit
      OBVIOUS
    <2>1. outcome = "running" /\ answer = None
      BY DEF Init, outcome, answer
    <2>2. TunedInv
      BY DEF Init, TunedInv, NoRows
    <2> QED BY <2>1, <2>2, InitRefines DEF Init, Textbook!TextbookInit
  <1>2. RInv /\ TunedInv /\ [Next]_vars => RInv' /\ TunedInv'
    <2>1. RInv /\ Step => RInv'
      BY PrepareRefines, PreflightRefines, NativeRefines, TrainBilinearRefines,
         TrainReferenceRefines, TrainNativeRefines, PredictInnerRefines, TuneRefines,
         PredictOuterRefines, ReplayRefines DEF Step
    <2>2. RInv /\ TunedInv /\ [Next]_vars => TunedInv'
      BY TunedKept DEF RInv, IInv
    <2> QED BY <2>1, <2>2, AlterRefines, StutteringRefines DEF Next
  <1>3. RInv /\ TunedInv /\ [Next]_vars => [Textbook!TextbookNext]_(Textbook!textbookVars)
    <2> SUFFICES ASSUME RInv, TunedInv, [Next]_vars
                 PROVE  Textbook!TextbookNext \/ UNCHANGED Textbook!textbookVars
      OBVIOUS
    <2>1. CASE UNCHANGED vars
      BY <2>1 DEF vars, graphVars, foldVars, outcome, answer, doms, Textbook!textbookVars
    <2>2. CASE Alter
      BY <2>2 DEF Alter, foldVars, outcome, answer, doms, Textbook!TextbookNext, Textbook!Disturb
    <2>3. CASE Replay
      BY <2>3, ReplayAnswers DEF Textbook!TextbookNext
    <2>4. CASE Step /\ ~Replay
      <3>1. pc \notin {"done", "raised"} /\ UNCHANGED <<input, trainer, refused>>
        BY <2>4 DEF Step, Prepare, Preflight, CalibrateAll, ApplyAll, Rehash, TrainBilinear,
                    TrainReference, TrainNative, PredictInner, Tune, PredictOuter
      <3>2. CASE Raise
        <4>1. Excused
          BY <2>4, <3>2, PrepareRefines, PreflightRefines, NativeRefines, TrainBilinearRefines,
             TrainReferenceRefines, TrainNativeRefines, PredictInnerRefines, TuneRefines,
             PredictOuterRefines DEF Step
        <4> QED BY <3>1, <3>2, <4>1, RaiseRefuses DEF Textbook!TextbookNext
      <3>3. CASE ~Raise
        <4>1. pc' \notin {"done", "raised"} /\ altered' = altered
          <5>1. CASE Prepare \/ Preflight \/ CalibrateAll \/ ApplyAll \/ Rehash
            BY <3>3, <5>1 DEF Prepare, Preflight, CalibrateAll, ApplyAll, Rehash, graphVars
          <5>2. CASE TrainBilinear \/ TrainReference \/ TrainNative
            BY <3>3, <5>2 DEF TrainBilinear, TrainReference, TrainNative, UseCached, Serve,
                              Trained, graphVars
          <5>3. CASE PredictInner \/ Tune \/ PredictOuter
            BY <3>3, <5>3 DEF PredictInner, Tune, PredictOuter, Request, graphVars
          <5> QED BY <2>4, <5>1, <5>2, <5>3 DEF Step
        <4> QED BY <3>1, <4>1, InsideIsQuiet
      <3> QED BY <3>2, <3>3
    <2> QED BY <2>1, <2>2, <2>3, <2>4 DEF Next
  <1> QED BY <1>1, <1>2, <1>3, PTL DEF Spec, TextbookSafety

-----------------------------------------------------------------------------
(* Counting subsets, and the blocks of the graph.                           *)

LEMMA PairsAndTriples ==
    ASSUME NEW n \in Nat
    PROVE  /\ Pairs(n) \in Nat /\ Pairs(n + 1) = Pairs(n) + n
           /\ Triples(n) \in Nat /\ Triples(n + 1) = Triples(n) + Pairs(n)
           /\ n * Pairs(n) = 3 * Triples(n) + 2 * Pairs(n)
  <1> DEFINE x == n * (n - 1)
             p == Pairs(n)
             y == x * (n - 2)
  <1>1. x \in Nat /\ x % 2 = 0
    <2> DEFINE k == n \div 2
    <2>1. k \in Nat /\ (n = 2 * k \/ n = 2 * k + 1)
      OBVIOUS
    <2>2. CASE n = 2 * k
      <3>1. x = 2 * (k * (2 * k - 1))
        BY <2>1, <2>2
      <3>2. k * (2 * k - 1) \in Nat
        <4>1. CASE k = 0
          BY <4>1
        <4>2. CASE k # 0
          <5>1. 2 * k - 1 \in Nat
            BY <2>1, <4>2
          <5> QED BY <2>1, <5>1
        <4> QED BY <4>1, <4>2
      <3> HIDE DEF x, k
      <3> QED BY <3>1, <3>2
    <2>3. CASE n = 2 * k + 1
      <3>1. x = 2 * (k * (2 * k + 1))
        BY <2>1, <2>3
      <3>2. k * (2 * k + 1) \in Nat
        BY <2>1
      <3> HIDE DEF x, k
      <3> QED BY <3>1, <3>2
    <2> QED BY <2>1, <2>2, <2>3
  <1>2. p = x \div 2
    BY DEF Pairs
  <1>3. (n + 1) * ((n + 1) - 1) = x + 2 * n
    OBVIOUS
  <1>4. (n + 1) * ((n + 1) - 1) * ((n + 1) - 2) = y + 3 * x
    OBVIOUS
  <1>5. Triples(n) = y \div 6 /\ Triples(n + 1) = (y + 3 * x) \div 6
    BY <1>4 DEF Triples
  <1>6. Pairs(n + 1) = (x + 2 * n) \div 2
    BY <1>3 DEF Pairs
  <1> HIDE DEF x, p
  <1>7. p \in Nat /\ x = 2 * p
    BY <1>1, <1>2
  <1> DEFINE q == p * (n - 2)
             r == n - 2
  <1>8. r \in Int /\ q \in Int /\ y = x * r /\ q = p * r
    BY <1>7
  <1>9. y = 2 * q
    <2> HIDE DEF y, r, q
    <2>1. y = (2 * p) * r
      BY <1>7, <1>8
    <2>2. (2 * p) * r = 2 * (p * r)
      BY <1>7, <1>8
    <2> QED BY <1>8, <2>1, <2>2
  <1>10. PICK m \in Int : y = 3 * m
    <2> DEFINE k == n \div 3
    <2>0. k \in Nat /\ (n = 3 * k \/ n = 3 * k + 1 \/ n = 3 * k + 2)
      OBVIOUS
    <2>1. y = n * (n - 1) * (n - 2)
      BY DEF x
    <2> HIDE DEF k, y
    <2>2. CASE n = 3 * k
      <3>1. k * (n - 1) * (n - 2) \in Int /\ y = 3 * (k * (n - 1) * (n - 2))
        BY <2>0, <2>1, <2>2
      <3> QED BY <3>1
    <2>3. CASE n = 3 * k + 1
      <3>1. n * k * (n - 2) \in Int /\ y = 3 * (n * k * (n - 2))
        BY <2>0, <2>1, <2>3
      <3> QED BY <3>1
    <2>4. CASE n = 3 * k + 2
      <3>1. n * (n - 1) * k \in Int /\ y = 3 * (n * (n - 1) * k)
        BY <2>0, <2>1, <2>4
      <3> QED BY <3>1
    <2> QED BY <2>0, <2>2, <2>3, <2>4
  <1>11. y \in Nat
    <2>1. CASE n \in 0 .. 1
      BY <2>1 DEF x
    <2>2. CASE n \notin 0 .. 1
      <3>1. r \in Nat
        BY <2>2
      <3> HIDE DEF r, y
      <3> QED BY <1>1, <1>8, <3>1
    <2> QED BY <2>1, <2>2
  <1>12. n * p = q + 2 * p
    BY <1>7
  <1> HIDE DEF y, q
  <1>13. y = 6 * (q - m) /\ q - m \in Int
    BY <1>8, <1>9, <1>10
  <1>14. y \div 6 = q - m /\ 3 * (q - m) = q
    BY <1>8, <1>9, <1>10, <1>13
  <1>15. (y + 3 * x) \div 6 = y \div 6 + p
    BY <1>7, <1>11
  <1>16. y \div 6 \in Nat
    BY <1>11
  <1>17. (x + 2 * n) \div 2 = p + n
    BY <1>7
  <1> QED BY <1>5, <1>6, <1>7, <1>12, <1>14, <1>15, <1>16, <1>17 DEF p

(* One more element: the subsets without it, and those with it. *)
LEMMA SubsetsOfMore ==
    ASSUME NEW S, IsFiniteSet(S), NEW x, x \notin S, NEW k \in Nat
    PROVE  /\ IsFiniteSet(kSubset(k, S)) /\ IsFiniteSet(kSubset(k + 1, S \cup {x}))
           /\ Cardinality(kSubset(k + 1, S \cup {x}))
                = Cardinality(kSubset(k + 1, S)) + Cardinality(kSubset(k, S))
  <1> DEFINE A == kSubset(k + 1, S)
             B == kSubset(k, S)
             f == [s \in B |-> s \cup {x}]
             C == {f[s] : s \in B}
  <1>1. IsFiniteSet(A) /\ IsFiniteSet(B)
    <2>1. IsFiniteSet(SUBSET S)
      BY FS_SUBSET
    <2>2. A \in SUBSET SUBSET S /\ B \in SUBSET SUBSET S
      BY DEF kSubset
    <2> HIDE DEF A, B
    <2> QED BY <2>1, <2>2, FS_Subset
  <1>2. IsFiniteSet(C) /\ Cardinality(C) = Cardinality(B)
    <2>1. \A s, t \in B : f[s] = f[t] => s = t
      BY DEF kSubset
    <2>2. DOMAIN f = B
      OBVIOUS
    <2> HIDE DEF f, B
    <2> QED BY <1>1, <2>1, <2>2, ImageCounts
  <1>3. A \cap C = {}
    BY DEF kSubset
  <1>4. kSubset(k + 1, S \cup {x}) = A \cup C
    <2>1. ASSUME NEW s \in kSubset(k + 1, S \cup {x}) PROVE s \in A \cup C
      <3>1. s \in SUBSET (S \cup {x}) /\ Cardinality(s) = k + 1
        BY DEF kSubset
      <3>2. CASE x \notin s
        BY <3>1, <3>2 DEF kSubset
      <3>3. CASE x \in s
        <4> DEFINE t == s \ {x}
        <4>1. t \in SUBSET S /\ s = t \cup {x}
          BY <3>1, <3>3
        <4>2. IsFiniteSet(s)
          <5>1. IsFiniteSet(S \cup {x})
            BY FS_AddElement
          <5> QED BY <3>1, <5>1, FS_Subset
        <4>3. Cardinality(t) = Cardinality(s) - 1
          BY <3>3, <4>2, FS_RemoveElement
        <4>4. Cardinality(t) = k
          <5> HIDE DEF t
          <5> QED BY <3>1, <4>3
        <4>5. t \in B
          BY <4>1, <4>4 DEF kSubset
        <4>6. f[t] = s
          BY <4>1, <4>5
        <4> HIDE DEF t, f
        <4> QED BY <4>5, <4>6
      <3> QED BY <3>2, <3>3
    <2>2. ASSUME NEW s \in A PROVE s \in kSubset(k + 1, S \cup {x})
      BY DEF kSubset
    <2>3. ASSUME NEW s \in B PROVE s \cup {x} \in kSubset(k + 1, S \cup {x})
      <3>1. s \in SUBSET S /\ Cardinality(s) = k /\ x \notin s
        BY DEF kSubset
      <3>2. IsFiniteSet(s)
        BY <3>1, FS_Subset
      <3>3. Cardinality(s \cup {x}) = k + 1
        BY <3>1, <3>2, FS_AddElement
      <3> QED BY <3>1, <3>3 DEF kSubset
    <2>4. ASSUME NEW s \in C PROVE s \in kSubset(k + 1, S \cup {x})
      BY <2>3
    <2> HIDE DEF A, B, C
    <2> QED BY <2>1, <2>2, <2>4
  <1>5. IsFiniteSet(A \cup C) /\ Cardinality(A \cup C) = Cardinality(A) + Cardinality(C)
    <2> HIDE DEF A, C
    <2> QED BY <1>1, <1>2, <1>3, BothCount
  <1> HIDE DEF A, B, C
  <1>6. IsFiniteSet(kSubset(k + 1, S \cup {x}))
        /\ Cardinality(kSubset(k + 1, S \cup {x})) = Cardinality(A) + Cardinality(B)
    BY <1>2, <1>4, <1>5
  <1> QED BY <1>1, <1>6 DEF A, B

(* How many subsets of up to three elements there are. *)
LEMMA SubsetsCounted ==
    ASSUME NEW S, IsFiniteSet(S)
    PROVE  /\ Cardinality(S) \in Nat
           /\ \A k \in 0 .. 3 : IsFiniteSet(kSubset(k, S))
           /\ Cardinality(kSubset(0, S)) = 1
           /\ Cardinality(kSubset(1, S)) = Cardinality(S)
           /\ Cardinality(kSubset(2, S)) = Pairs(Cardinality(S))
           /\ Cardinality(kSubset(3, S)) = Triples(Cardinality(S))
  <1> DEFINE Counted(T) == /\ Cardinality(kSubset(0, T)) = 1
                           /\ Cardinality(kSubset(1, T)) = Cardinality(T)
                           /\ Cardinality(kSubset(2, T)) = Pairs(Cardinality(T))
                           /\ Cardinality(kSubset(3, T)) = Triples(Cardinality(T))
             Fine == {T \in SUBSET S : Counted(T)}
  <1>1. ASSUME NEW T, IsFiniteSet(T) PROVE Cardinality(kSubset(0, T)) = 1
    <2>1. kSubset(0, T) = {{}}
      <3>1. \A s \in SUBSET T : IsFiniteSet(s)
        BY <1>1, FS_Subset
      <3>2. \A s \in SUBSET T : Cardinality(s) = 0 <=> s = {}
        BY <3>1, FS_EmptySet
      <3> QED BY <3>2 DEF kSubset
    <2> QED BY <2>1, FS_Singleton
  <1>2. {} \in Fine
    <2>1. Cardinality({}) = 0 /\ IsFiniteSet({})
      BY FS_EmptySet
    <2>2. kSubset(1, {}) = {} /\ kSubset(2, {}) = {} /\ kSubset(3, {}) = {}
      BY <2>1 DEF kSubset
    <2>3. Pairs(0) = 0 /\ Triples(0) = 0
      BY DEF Pairs, Triples
    <2>4. Counted({})
      BY <1>1, <2>1, <2>2, <2>3
    <2> HIDE DEF Counted
    <2> QED BY <2>4
  <1>3. ASSUME NEW T \in Fine, NEW x \in S \ T PROVE T \cup {x} \in Fine
    <2>1. T \in SUBSET S /\ IsFiniteSet(T) /\ x \notin T /\ Counted(T)
      BY <1>3, FS_Subset
    <2> DEFINE n == Cardinality(T)
    <2>2. n \in Nat /\ Cardinality(T \cup {x}) = n + 1 /\ IsFiniteSet(T \cup {x})
      BY <2>1, FS_AddElement, FS_CardinalityType
    <2>3. /\ Cardinality(kSubset(0 + 1, T \cup {x}))
               = Cardinality(kSubset(0 + 1, T)) + Cardinality(kSubset(0, T))
          /\ Cardinality(kSubset(1 + 1, T \cup {x}))
               = Cardinality(kSubset(1 + 1, T)) + Cardinality(kSubset(1, T))
          /\ Cardinality(kSubset(2 + 1, T \cup {x}))
               = Cardinality(kSubset(2 + 1, T)) + Cardinality(kSubset(2, T))
      <3>1. 0 \in Nat /\ 1 \in Nat /\ 2 \in Nat
        OBVIOUS
      <3> HIDE DEF Fine, Counted
      <3> QED BY <2>1, <3>1, SubsetsOfMore
    <2>4. 0 + 1 = 1 /\ 1 + 1 = 2 /\ 2 + 1 = 3
      OBVIOUS
    <2>5. /\ Pairs(n) \in Nat /\ Pairs(n + 1) = Pairs(n) + n
          /\ Triples(n) \in Nat /\ Triples(n + 1) = Triples(n) + Pairs(n)
      BY <2>2, PairsAndTriples
    <2>6. Cardinality(kSubset(0, T \cup {x})) = 1
      BY <1>1, <2>2
    <2> DEFINE U == T \cup {x}
    <2>7. Counted(U)
      <3>1. /\ Cardinality(kSubset(0, T)) = 1 /\ Cardinality(kSubset(1, T)) = n
            /\ Cardinality(kSubset(2, T)) = Pairs(n) /\ Cardinality(kSubset(3, T)) = Triples(n)
        BY <2>1
      <3>2. /\ Cardinality(kSubset(1, U)) = n + 1
            /\ Cardinality(kSubset(2, U)) = Pairs(n) + n
            /\ Cardinality(kSubset(3, U)) = Triples(n) + Pairs(n)
        BY <2>3, <2>4, <3>1
      <3>3. Cardinality(kSubset(0, U)) = 1 /\ Cardinality(U) = n + 1
        BY <2>2, <2>6
      <3> HIDE DEF U, n
      <3> QED BY <2>5, <3>2, <3>3
    <2> HIDE DEF Counted
    <2> QED BY <2>1, <2>7 DEF U
  <1>4. Fine \in SUBSET SUBSET S
    OBVIOUS
  <1>5. S \in Fine
    <2> HIDE DEF Fine
    <2> QED BY <1>2, <1>3, <1>4, SetInduction
  <1>6. \A k \in 0 .. 3 : IsFiniteSet(kSubset(k, S))
    <2>1. IsFiniteSet(SUBSET S)
      BY FS_SUBSET
    <2>2. \A k \in 0 .. 3 : kSubset(k, S) \in SUBSET SUBSET S
      BY DEF kSubset
    <2> QED BY <2>1, <2>2, FS_Subset
  <1> QED BY <1>5, <1>6, FS_CardinalityType

(* What a training subset leaves out, and the ways to leave out d as well. *)
Omissions(S) == UNION {kSubset(k, S) : k \in 1..3}
OmissionsOf(S, d) == {o \in Omissions(S) : d \in o}

LEMMA OmissionsCounted ==
    ASSUME NEW S, IsFiniteSet(S)
    PROVE  /\ IsFiniteSet(Omissions(S))
           /\ Cardinality(Omissions(S))
                = Triples(Cardinality(S)) + Pairs(Cardinality(S)) + Cardinality(S)
  <1> DEFINE A == kSubset(1, S)
             B == kSubset(2, S)
             C == kSubset(3, S)
             n == Cardinality(S)
  <1>1. /\ IsFiniteSet(A) /\ Cardinality(A) = n /\ IsFiniteSet(B) /\ Cardinality(B) = Pairs(n)
        /\ IsFiniteSet(C) /\ Cardinality(C) = Triples(n) /\ n \in Nat
        /\ Pairs(n) \in Nat /\ Triples(n) \in Nat
    BY SubsetsCounted, PairsAndTriples
  <1>2. A \cap B = {} /\ (A \cup B) \cap C = {}
    BY DEF kSubset
  <1>3. Omissions(S) = (A \cup B) \cup C
    <2>1. 1..3 = {1, 2, 3}
      OBVIOUS
    <2> HIDE DEF A, B, C
    <2>2. UNION {A, B, C} = (A \cup B) \cup C
      OBVIOUS
    <2>3. {kSubset(k, S) : k \in {1, 2, 3}} = {A, B, C}
      BY DEF A, B, C
    <2> QED BY <2>1, <2>2, <2>3 DEF Omissions
  <1> HIDE DEF A, B, C
  <1>4. IsFiniteSet(A \cup B) /\ Cardinality(A \cup B) = Cardinality(A) + Cardinality(B)
    BY <1>1, <1>2, BothCount
  <1>5. /\ IsFiniteSet((A \cup B) \cup C)
        /\ Cardinality((A \cup B) \cup C) = Cardinality(A \cup B) + Cardinality(C)
    BY <1>1, <1>2, <1>4, BothCount
  <1>6. Cardinality((A \cup B) \cup C) = Triples(n) + Pairs(n) + n
    <2> DEFINE p == Pairs(n)
               t == Triples(n)
    <2>1. Cardinality((A \cup B) \cup C) = (n + p) + t /\ p \in Nat /\ t \in Nat /\ n \in Nat
      BY <1>1, <1>4, <1>5
    <2> HIDE DEF p, t, n
    <2>2. Cardinality((A \cup B) \cup C) = t + p + n
      BY <2>1
    <2> QED BY <2>2 DEF p, t, n
  <1> QED BY <1>3, <1>5, <1>6

(* The subsets the planner counts are the subsets of the graph. *)
LEMMA TrainingSubsetsCounted ==
    ASSUME NEW S, IsFiniteSet(S)
    PROVE  /\ IsFiniteSet(TrainingSubsets(S))
           /\ Cardinality(TrainingSubsets(S))
                = Triples(Cardinality(S)) + Pairs(Cardinality(S)) + Cardinality(S)
           /\ TrainingSubsets(S) = {S \ o : o \in Omissions(S)}
  <1> DEFINE O == Omissions(S)
             f == [o \in O |-> S \ o]
  <1>1. TrainingSubsets(S) = {S \ o : o \in O}
    BY DEF TrainingSubsets, LeavingOut, Omissions
  <1>2. \A o \in O : o \in SUBSET S
    BY DEF Omissions, kSubset
  <1>3. \A o, p \in O : f[o] = f[p] => o = p
    BY <1>2
  <1>4. DOMAIN f = O /\ {f[o] : o \in O} = {S \ o : o \in O}
    OBVIOUS
  <1>5. IsFiniteSet(O)
    BY OmissionsCounted
  <1> HIDE DEF O, f
  <1>6. IsFiniteSet({S \ o : o \in O}) /\ Cardinality({S \ o : o \in O}) = Cardinality(O)
    BY <1>3, <1>4, <1>5, ImageCounts
  <1> QED BY <1>1, <1>6, OmissionsCounted DEF O

(* A domain is left out together with none, one or two others. *)
LEMMA OmissionsOfCounted ==
    ASSUME NEW S, IsFiniteSet(S), NEW d \in S
    PROVE  /\ IsFiniteSet(OmissionsOf(S, d))
           /\ Cardinality(OmissionsOf(S, d)) = Pairs(Cardinality(S)) + 1
           /\ Pairs(Cardinality(S)) \in Nat /\ Cardinality(S) \in Nat
  <1> DEFINE R == S \ {d}
             A == kSubset(0, R)
             B == kSubset(1, R)
             C == kSubset(2, R)
             D == (A \cup B) \cup C
             f == [o \in D |-> o \cup {d}]
             n == Cardinality(S)
             m == Cardinality(R)
  <1>1. IsFiniteSet(R) /\ m \in Nat /\ n = m + 1 /\ n \in Nat
    <2>1. IsFiniteSet(R) /\ Cardinality(R) = Cardinality(S) - 1
      BY FS_RemoveElement
    <2>2. Cardinality(R) \in Nat /\ Cardinality(S) \in Nat
      BY <2>1, FS_CardinalityType
    <2> HIDE DEF R
    <2> QED BY <2>1, <2>2
  <1>2. /\ IsFiniteSet(A) /\ Cardinality(A) = 1 /\ IsFiniteSet(B) /\ Cardinality(B) = m
        /\ IsFiniteSet(C) /\ Cardinality(C) = Pairs(m)
    <2> HIDE DEF R
    <2> QED BY <1>1, SubsetsCounted
  <1>3. Pairs(m) \in Nat /\ Pairs(n) = Pairs(m) + m /\ Pairs(n) \in Nat
    <2> HIDE DEF n, m
    <2> QED BY <1>1, PairsAndTriples
  <1>4. IsFiniteSet(D) /\ Cardinality(D) = Pairs(n) + 1
    <2>1. A \cap B = {} /\ (A \cup B) \cap C = {}
      BY DEF kSubset
    <2> HIDE DEF A, B, C, n, m, R
    <2>2. IsFiniteSet(A \cup B) /\ Cardinality(A \cup B) = Cardinality(A) + Cardinality(B)
      BY <1>2, <2>1, BothCount
    <2>3. /\ IsFiniteSet((A \cup B) \cup C)
          /\ Cardinality((A \cup B) \cup C) = Cardinality(A \cup B) + Cardinality(C)
      BY <1>2, <2>1, <2>2, BothCount
    <2> QED BY <1>1, <1>2, <1>3, <2>2, <2>3
  <1>5. OmissionsOf(S, d) = {f[o] : o \in D}
    <2>1. ASSUME NEW o \in OmissionsOf(S, d) PROVE \E p \in D : f[p] = o
      <3> DEFINE p == o \ {d}
      <3>1. PICK k \in 1..3 : o \in kSubset(k, S)
        BY DEF OmissionsOf, Omissions
      <3>2. o \in SUBSET S /\ Cardinality(o) = k /\ d \in o
        BY <3>1 DEF kSubset, OmissionsOf
      <3>3. IsFiniteSet(o) /\ Cardinality(p) = Cardinality(o) - 1
        BY <3>2, FS_Subset, FS_RemoveElement
      <3>4. p \in SUBSET R /\ o = p \cup {d}
        BY <3>2
      <3>5. Cardinality(p) = 0 \/ Cardinality(p) = 1 \/ Cardinality(p) = 2
        <4> HIDE DEF p
        <4> QED BY <3>1, <3>2, <3>3
      <3>6. p \in D
        <4> HIDE DEF p, R
        <4> QED BY <3>4, <3>5 DEF kSubset
      <3>7. f[p] = o
        BY <3>4, <3>6
      <3> QED BY <3>6, <3>7
    <2>2. ASSUME NEW o \in D PROVE f[o] \in OmissionsOf(S, d)
      <3>1. o \in SUBSET R /\ Cardinality(o) \in 0..2
        BY DEF kSubset
      <3>2. IsFiniteSet(o) /\ d \notin o
        BY <1>1, <3>1, FS_Subset
      <3>3. Cardinality(o \cup {d}) = Cardinality(o) + 1
        BY <3>2, FS_AddElement
      <3>4. Cardinality(o \cup {d}) \in 1..3
        <4> DEFINE c == Cardinality(o)
        <4>1. c \in 0..2
          BY <3>1
        <4>2. Cardinality(o \cup {d}) = c + 1
          BY <3>3
        <4> HIDE DEF c
        <4> QED BY <4>1, <4>2
      <3>5. o \cup {d} \in kSubset(Cardinality(o \cup {d}), S)
        BY <3>1 DEF kSubset
      <3>6. f[o] = o \cup {d}
        OBVIOUS
      <3> HIDE DEF f
      <3> QED BY <3>4, <3>5, <3>6 DEF OmissionsOf, Omissions
    <2> HIDE DEF D, f
    <2> QED BY <2>1, <2>2
  <1>6. DOMAIN f = D /\ \A o, p \in D : f[o] = f[p] => o = p
    <2>1. \A o \in D : d \notin o
      BY DEF kSubset
    <2> HIDE DEF D
    <2>2. DOMAIN f = D /\ \A o \in D : f[o] = o \cup {d}
      OBVIOUS
    <2> HIDE DEF f
    <2>3. ASSUME NEW o \in D, NEW p \in D, f[o] = f[p] PROVE o = p
      <3>1. o \cup {d} = p \cup {d} /\ d \notin o /\ d \notin p
        BY <2>1, <2>2, <2>3
      <3> QED BY <3>1
    <2> QED BY <2>2, <2>3
  <1> HIDE DEF D, f, n, m
  <1>7. IsFiniteSet(OmissionsOf(S, d)) /\ Cardinality(OmissionsOf(S, d)) = Cardinality(D)
    BY <1>4, <1>5, <1>6, ImageCounts
  <1> QED BY <1>1, <1>3, <1>4, <1>7 DEF n

(* Whatever a domain weighs, it does so in Pairs + 1 blocks. *)
LEMMA BlocksWeighed ==
    ASSUME NEW S, IsFiniteSet(S), NEW w, DOMAIN w = S, NatValued(w)
    PROVE  /\ IsFiniteSet(ScoreBlocks(S))
           /\ SumOf([b \in ScoreBlocks(S) |-> w[b[2]]])
                = (Pairs(Cardinality(S)) + 1) * SumOf([d \in S |-> w[d]])
  <1> DEFINE O == Omissions(S)
             Q == {q \in S \X O : q[1] \in q[2]}
             h == [q \in Q |-> <<S \ q[2], q[1]>>]
             B == ScoreBlocks(S)
             g == [b \in B |-> w[b[2]]]
             f == [q \in Q |-> w[q[1]]]
             c == Pairs(Cardinality(S)) + 1
  <1>1. IsFiniteSet(O)
    BY OmissionsCounted
  <1>2. Q \in SUBSET (S \X O) /\ IsFiniteSet(Q)
    <2>1. IsFiniteSet(S \X O)
      <3> HIDE DEF O
      <3> QED BY <1>1, FS_Product
    <2>2. Q \in SUBSET (S \X O)
      OBVIOUS
    <2> HIDE DEF Q, O
    <2> QED BY <2>1, <2>2, FS_Subset
  <1>3. \A o \in O : o \in SUBSET S
    BY DEF Omissions, kSubset
  <1>4. \A q \in Q : q[1] \in S /\ q[2] \in O /\ q[1] \in q[2] /\ q = <<q[1], q[2]>>
    OBVIOUS
  <1>5. DOMAIN h = Q /\ \A p, q \in Q : h[p] = h[q] => p = q
    <2> SUFFICES ASSUME NEW p \in Q, NEW q \in Q, h[p] = h[q] PROVE p = q
      OBVIOUS
    <2>1. S \ p[2] = S \ q[2] /\ p[1] = q[1]
      OBVIOUS
    <2>2. p[2] \in SUBSET S /\ q[2] \in SUBSET S
      BY <1>3, <1>4
    <2>3. p[2] = q[2]
      BY <2>1, <2>2
    <2> QED BY <1>4, <2>1, <2>3
  <1>6. B = {h[q] : q \in Q}
    <2>1. TrainingSubsets(S) = {S \ o : o \in O}
      BY TrainingSubsetsCounted
    <2>2. ASSUME NEW b \in B PROVE \E q \in Q : h[q] = b
      <3>1. b[1] \in TrainingSubsets(S) /\ b[2] \in S /\ b[2] \notin b[1] /\ b = <<b[1], b[2]>>
        BY DEF ScoreBlocks, BlocksOf
      <3>2. PICK o \in O : b[1] = S \ o
        BY <2>1, <3>1
      <3>3. <<b[2], o>> \in Q
        BY <3>1, <3>2
      <3>4. h[<<b[2], o>>] = b
        BY <3>1, <3>2, <3>3
      <3> QED BY <3>3, <3>4
    <2>3. ASSUME NEW q \in Q PROVE h[q] \in B
      <3>1. S \ q[2] \in TrainingSubsets(S) /\ q[1] \in S /\ q[1] \notin S \ q[2]
        BY <1>4, <2>1
      <3> QED BY <3>1 DEF ScoreBlocks, BlocksOf
    <2> HIDE DEF Q, h, B
    <2> QED BY <2>2, <2>3
  <1>7. IsFiniteSet(B)
    <2> HIDE DEF Q, h, B
    <2> QED BY <1>2, <1>5, <1>6, ImageCounts
  <1>8. /\ DOMAIN g = B /\ NatValued(g)
        /\ g = [b \in B |-> g[b]] /\ [q \in Q |-> g[h[q]]] = f
    <2>1. \A b \in B : b[2] \in S
      BY DEF ScoreBlocks, BlocksOf
    <2>2. \A q \in Q : h[q] \in B /\ h[q][2] = q[1]
      BY <1>6
    <2> HIDE DEF B, Q, h
    <2> QED BY <2>1, <2>2 DEF NatValued
  <1>9. SumOf(g) = SumOf(f)
    <2>1. DOMAIN g = {h[q] : q \in Q} /\ NatValued(g)
      BY <1>6, <1>8
    <2>2. IsFiniteSet(Q)
      BY <1>2
    <2>3. [b \in {h[q] : q \in Q} |-> g[b]] = g /\ [q \in Q |-> g[h[q]]] = f
      BY <1>6, <1>8
    <2> HIDE DEF g, h, Q, f, B
    <2>4. SumOf([b \in {h[q] : q \in Q} |-> g[b]]) = SumOf([q \in Q |-> g[h[q]]])
      BY <1>5, <2>1, <2>2, SumOfRenamed
    <2> QED BY <2>3, <2>4
  <1>10. f \in [Q -> Nat]
    BY <1>4 DEF NatValued
  <1>11. ASSUME NEW d \in S PROVE RowSumOf(f, Q, O, d) = c * w[d]
    <2>1. RowOf(Q, O, d) = OmissionsOf(S, d)
      BY DEF OmissionsOf, RowOf
    <2>2. [o \in RowOf(Q, O, d) |-> f[<<d, o>>]] = [o \in OmissionsOf(S, d) |-> w[d]]
      <3>1. \A o \in RowOf(Q, O, d) : f[<<d, o>>] = w[d]
        BY DEF RowOf
      <3> QED BY <2>1, <3>1
    <2>3. IsFiniteSet(OmissionsOf(S, d)) /\ Cardinality(OmissionsOf(S, d)) = c /\ w[d] \in Nat
      BY OmissionsOfCounted DEF NatValued
    <2>4. SumOf([o \in OmissionsOf(S, d) |-> w[d]]) = Cardinality(OmissionsOf(S, d)) * w[d]
      BY <2>3, SumOfConstant
    <2> HIDE DEF c
    <2> QED BY <2>2, <2>3, <2>4 DEF RowSumOf
  <1>12. SumOf(f) = SumOf([d \in S |-> c * w[d]])
    <2> HIDE DEF f, c
    <2>1. SumOf(f) = SumOf([a \in S |-> RowSumOf(f, Q, O, a)])
      <3> HIDE DEF Q, O
      <3> QED BY <1>1, <1>2, <1>10, SumOfRows
    <2>2. [a \in S |-> RowSumOf(f, Q, O, a)] = [d \in S |-> c * w[d]]
      <3> HIDE DEF Q, O
      <3> QED BY <1>11
    <2> QED BY <2>1, <2>2
  <1>13. c \in Nat
    <2>1. Cardinality(S) \in Nat
      BY FS_CardinalityType
    <2>2. Pairs(Cardinality(S)) \in Nat
      BY <2>1, PairsAndTriples
    <2> QED BY <2>2
  <1>14. SumOf([d \in S |-> c * w[d]]) = c * SumOf([d \in S |-> w[d]])
    <2> HIDE DEF c
    <2> QED BY <1>13, SumOfScaled
  <1> QED BY <1>7, <1>9, <1>12, <1>14

(* The blocks the planner counts are the blocks of the graph. *)
LEMMA BlocksCounted ==
    ASSUME NEW S, IsFiniteSet(S)
    PROVE  Cardinality(ScoreBlocks(S))
             = 3 * Triples(Cardinality(S)) + 2 * Pairs(Cardinality(S)) + Cardinality(S)
  <1> DEFINE w == [d \in S |-> 1]
             B == ScoreBlocks(S)
             n == Cardinality(S)
  <1>1. DOMAIN w = S /\ NatValued(w)
    BY DEF NatValued
  <1>2. IsFiniteSet(B)
        /\ SumOf([b \in B |-> w[b[2]]]) = (Pairs(n) + 1) * SumOf([d \in S |-> w[d]])
    <2> HIDE DEF w
    <2> QED BY <1>1, BlocksWeighed
  <1>3. [b \in B |-> w[b[2]]] = [b \in B |-> 1] /\ [d \in S |-> w[d]] = [d \in S |-> 1]
    BY DEF ScoreBlocks, BlocksOf
  <1>4. SumOf([b \in B |-> 1]) = Cardinality(B) * 1 /\ SumOf([d \in S |-> 1]) = n * 1
    BY <1>2, SumOfConstant
  <1>5. n \in Nat /\ Cardinality(B) \in Nat
    BY <1>2, FS_CardinalityType
  <1>6. /\ Pairs(n) \in Nat /\ Triples(n) \in Nat
        /\ n * Pairs(n) = 3 * Triples(n) + 2 * Pairs(n)
    <2> HIDE DEF n
    <2> QED BY <1>5, PairsAndTriples
  <1> DEFINE p == Pairs(n)
             t == Triples(n)
             k == Cardinality(B)
  <1>7. k \in Nat /\ p \in Nat /\ t \in Nat /\ n * p = 3 * t + 2 * p /\ k * 1 = (p + 1) * (n * 1)
    BY <1>2, <1>3, <1>4, <1>5, <1>6
  <1> HIDE DEF p, t, k, n
  <1>8. (p + 1) * n = n * p + n
    BY <1>5, <1>7
  <1>9. k = 3 * t + 2 * p + n
    BY <1>5, <1>7, <1>8
  <1> QED BY <1>9 DEF p, t, k, n

-----------------------------------------------------------------------------
(* The closed forms of the planner, for the rows w of the domains S.        *)

LEMMA RemovalCounted ==
    ASSUME NEW S, IsFiniteSet(S), NEW w \in [S -> Nat], NEW s \in SUBSET S
    PROVE  /\ IsFiniteSet(s) /\ Cardinality(s) \in Nat /\ SumOver(w, s) \in Nat
           /\ \A c \in s : /\ SumOver(w, s \ {c}) \in Nat /\ w[c] \in Nat
                           /\ SumOver(w, s) = SumOver(w, s \ {c}) + w[c]
                           /\ SumOver(w, s \ {c}) = SumOver(w, s) - w[c]
                           /\ Cardinality(s \ {c}) = Cardinality(s) - 1
  <1>1. IsFiniteSet(s) /\ Cardinality(s) \in Nat /\ SumOver(w, s) \in Nat
    BY FS_Subset, FS_CardinalityType, SumsOver
  <1>2. ASSUME NEW c \in s
        PROVE  /\ SumOver(w, s \ {c}) \in Nat /\ w[c] \in Nat
               /\ SumOver(w, s) = SumOver(w, s \ {c}) + w[c]
               /\ Cardinality(s \ {c}) = Cardinality(s) - 1
    <2>1. s \ {c} \in SUBSET S /\ c \in S \ (s \ {c}) /\ (s \ {c}) \cup {c} = s
      OBVIOUS
    <2>2. /\ SumOver(w, s \ {c}) \in Nat
          /\ SumOver(w, (s \ {c}) \cup {c}) = SumOver(w, s \ {c}) + w[c]
      <3>1. \A T \in SUBSET S :
                /\ SumOver(w, T) \in Nat
                /\ \A x \in S \ T : SumOver(w, T \cup {x}) = SumOver(w, T) + w[x]
        BY SumsOver
      <3> QED BY <2>1, <3>1, Zenon
    <2>3. Cardinality(s \ {c}) = Cardinality(s) - 1
      BY <1>1, FS_RemoveElement
    <2> QED BY <2>1, <2>2, <2>3
  <1>3. ASSUME NEW c \in s PROVE SumOver(w, s \ {c}) = SumOver(w, s) - w[c]
    BY <1>1, <1>2
  <1> QED BY <1>1, <1>2, <1>3

(* A fit on s is calibrated by a fit on every subset that leaves out one.   *)
LEMMA OthersCounted ==
    ASSUME NEW S, IsFiniteSet(S), NEW w \in [S -> Nat], NEW s \in SUBSET S
    PROVE  /\ s # {} => SumOf([c \in s |-> SumOver(w, s \ {c})])
                          = (Cardinality(s) - 1) * SumOver(w, s)
           /\ SumOver(w, s) + SumOf([c \in s |-> SumOver(w, s \ {c})])
                = Cardinality(s) * SumOver(w, s)
  <1> DEFINE v == [c \in s |-> w[c]]
             n == SumOver(w, s)
             k == Cardinality(s)
             m == SumOf([c \in s |-> SumOver(w, s \ {c})])
  <1>1. IsFiniteSet(s) /\ k \in Nat /\ n \in Nat
    BY RemovalCounted
  <1>2. CASE s = {}
    <2>1. n = 0 /\ m = 0
      BY <1>2, SumOfNone DEF SumOver
    <2>2. k = 0
      BY <1>2, FS_EmptySet
    <2> HIDE DEF n, m, k
    <2>3. n + m = k * n
      BY <2>1, <2>2
    <2> QED BY <1>2, <2>3 DEF n, m, k
  <1>3. CASE s # {}
    <2>1. v \in [s -> Nat] /\ SumOf(v) = n
      BY DEF SumOver
    <2>2. [c \in s |-> SumOf(v) - v[c]] = [c \in s |-> SumOver(w, s \ {c})]
      <3>1. \A c \in s : SumOver(w, s \ {c}) = n - w[c] /\ v[c] = w[c]
        BY RemovalCounted
      <3> HIDE DEF v, n
      <3> QED BY <2>1, <3>1
    <2> HIDE DEF v
    <2>3. SumOf([c \in s |-> SumOf(v) - v[c]]) = (Cardinality(s) - 1) * SumOf(v)
      BY <1>1, <1>3, <2>1, SumOfOthers
    <2>4. m = (k - 1) * n
      BY <2>1, <2>2, <2>3
    <2> HIDE DEF n, m, k
    <2>5. n + (k - 1) * n = k * n
      BY <1>1
    <2>6. n + m = k * n
      BY <2>4, <2>5
    <2> QED BY <2>4, <2>6 DEF n, m, k
  <1> QED BY <1>2, <1>3

(* Requests are summed fold by fold. *)
LEMMA FoldByFold ==
    ASSUME NEW S, IsFiniteSet(S), NEW f \in [S \X S -> Nat]
    PROVE  /\ IsFiniteSet(S \X S)
           /\ SumOf(f) = SumOf([a \in S |-> SumOf([b \in S |-> f[<<a, b>>]])])
  <1>1. IsFiniteSet(S \X S)
    BY FS_Product
  <1>2. SumOf(f) = SumOf([a \in S |-> RowSumOf(f, S \X S, S, a)])
    <2> DEFINE Q == S \X S
    <2>1. Q \in SUBSET (S \X S) /\ IsFiniteSet(Q) /\ f \in [Q -> Nat]
      BY <1>1
    <2> HIDE DEF Q
    <2>2. SumOf(f) = SumOf([a \in S |-> RowSumOf(f, Q, S, a)])
      BY <2>1, SumOfRows
    <2> QED BY <2>2 DEF Q
  <1>3. \A a \in S : RowSumOf(f, S \X S, S, a) = SumOf([b \in S |-> f[<<a, b>>]])
    <2> TAKE a \in S
    <2>1. RowOf(S \X S, S, a) = S
      BY DEF RowOf
    <2> QED BY <2>1 DEF RowSumOf
  <1> QED BY <1>1, <1>2, <1>3

(* A fold makes one request for its domain and one for every other.         *)
LEMMA FoldSummed ==
    ASSUME NEW S, IsFiniteSet(S), NEW g \in [S -> Nat], NEW a \in S
    PROVE  SumOf(g) = g[a] + SumOver(g, S \ {a})
  BY SumOfAllButOne DEF SumOver

LEMMA RequestsCounted ==
    ASSUME NEW S, IsFiniteSet(S), S # {}, NEW k \in Nat, NEW l \in Nat, NEW f \in [S \X S -> Nat],
           \A a \in S : f[<<a, a>>] = k, \A a, b \in S : a # b => f[<<a, b>>] = l
    PROVE  SumOf(f) = Cardinality(S) * (k + l * (Cardinality(S) - 1))
  <1> DEFINE D == Cardinality(S)
             r == k + (D - 1) * l
  <1>1. D \in Nat /\ D # 0 /\ r \in Nat
    <2>1. D \in Nat /\ D # 0
      BY FS_CardinalityType, FS_EmptySet
    <2> HIDE DEF D
    <2>2. (D - 1) * l \in Nat
      <3>1. D - 1 \in Nat
        BY <2>1
      <3> QED BY <3>1
    <2> QED BY <2>1, <2>2
  <1>2. ASSUME NEW a \in S PROVE SumOf([b \in S |-> f[<<a, b>>]]) = r
    <2> DEFINE g == [b \in S |-> f[<<a, b>>]]
    <2>1. g \in [S -> Nat] /\ g[a] = k /\ \A b \in S \ {a} : g[b] = l
      OBVIOUS
    <2>2. [b \in S \ {a} |-> g[b]] = [b \in S \ {a} |-> l]
      BY <2>1
    <2>3. IsFiniteSet(S \ {a}) /\ Cardinality(S \ {a}) = D - 1
      BY FS_RemoveElement
    <2>4. SumOf([b \in S \ {a} |-> l]) = (D - 1) * l
      BY <2>3, SumOfConstant
    <2> HIDE DEF g, D
    <2>5. SumOf(g) = g[a] + SumOver(g, S \ {a})
      BY <2>1, FoldSummed
    <2> QED BY <2>1, <2>2, <2>4, <2>5 DEF g, SumOver
  <1>3. SumOf(f) = D * r
    <2>1. SumOf([a \in S |-> r]) = D * r
      BY <1>1, SumOfConstant
    <2> HIDE DEF r, D
    <2>2. [a \in S |-> SumOf([b \in S |-> f[<<a, b>>]])] = [a \in S |-> r]
      BY <1>2
    <2> QED BY <2>1, <2>2, FoldByFold
  <1>4. (D - 1) * l = l * (D - 1)
    <2> HIDE DEF D
    <2> QED BY <1>1
  <1> QED BY <1>3, <1>4

(* Every request asks for a multiple of the rows it is trained on. *)
(* A request of f weighs k or l times what is left of S without its domains. *)
Weighs(f, S, w, k, l) ==
    /\ IsFiniteSet(S) /\ Cardinality(S) >= 2 /\ w \in [S -> Nat] /\ k \in Nat /\ l \in Nat
    /\ f \in [S \X S -> Nat]
    /\ \A a \in S : f[<<a, a>>] = k * SumOver(w, S \ {a})
    /\ \A a, b \in S : a # b => f[<<a, b>>] = l * SumOver(w, S \ {a, b})

LEMMA RequestsWeighed ==
    ASSUME NEW S, NEW w, NEW k, NEW l, NEW f, Weighs(f, S, w, k, l)
    PROVE  SumOf(f) = (k + l * (Cardinality(S) - 2)) * ((Cardinality(S) - 1) * SumOver(w, S))
  <1> /\ IsFiniteSet(S) /\ Cardinality(S) >= 2 /\ w \in [S -> Nat] /\ k \in Nat /\ l \in Nat
      /\ f \in [S \X S -> Nat]
      /\ \A a \in S : f[<<a, a>>] = k * SumOver(w, S \ {a})
      /\ \A a, b \in S : a # b => f[<<a, b>>] = l * SumOver(w, S \ {a, b})
    BY DEF Weighs
  <1> DEFINE D == Cardinality(S)
             r == k + l * (D - 2)
             n == SumOver(w, S)
             o == [a \in S |-> SumOver(w, S \ {a})]
  <1>1. D \in Nat /\ D >= 2 /\ n \in Nat /\ S # {} /\ S \in SUBSET S
    BY FS_CardinalityType, FS_EmptySet, SumsOver
  <1>2. r \in Nat
    <2> HIDE DEF D
    <2>1. D - 2 \in Nat
      BY <1>1
    <2>2. l * (D - 2) \in Nat
      BY <2>1
    <2> QED BY <2>2
  <1>3. \A a \in S : SumOver(w, S \ {a}) \in Nat /\ Cardinality(S \ {a}) = D - 1 /\ IsFiniteSet(S \ {a})
    BY RemovalCounted, FS_RemoveElement
  <1>4. ASSUME NEW a \in S PROVE SumOf([b \in S |-> f[<<a, b>>]]) = r * o[a]
    <2> DEFINE g == [b \in S |-> f[<<a, b>>]]
               R == S \ {a}
               m == SumOver(w, R)
               h == [b \in R |-> SumOver(w, R \ {b})]
    <2>1. g \in [S -> Nat] /\ g[a] = k * m /\ \A b \in R : g[b] = l * SumOver(w, S \ {a, b})
      OBVIOUS
    <2>2. [b \in R |-> g[b]] = [b \in R |-> l * h[b]]
      <3>1. \A b \in R : S \ {a, b} = R \ {b} /\ g[b] = l * SumOver(w, S \ {a, b})
                         /\ h[b] = SumOver(w, R \ {b})
        BY <2>1
      <3> HIDE DEF g, R, h
      <3> QED BY <3>1
    <2>3. IsFiniteSet(R) /\ Cardinality(R) = D - 1 /\ m \in Nat /\ R \in SUBSET S
      BY <1>3
    <2>4. SumOf(h) = (D - 2) * m
      <3>1. R # {}
        BY <1>1, <2>3, FS_EmptySet
      <3> HIDE DEF R
      <3>2. SumOf(h) = (Cardinality(R) - 1) * m
        BY <2>3, <3>1, OthersCounted
      <3> HIDE DEF D, h, m
      <3>3. Cardinality(R) - 1 = D - 2
        BY <1>1, <2>3
      <3> QED BY <3>2, <3>3
    <2>5. SumOf([b \in R |-> l * h[b]]) = l * SumOf([b \in R |-> h[b]]) /\ [b \in R |-> h[b]] = h
      <3>1. DOMAIN h = R /\ NatValued(h) /\ [b \in R |-> h[b]] = h
        <4>1. \A b \in R : SumOver(w, R \ {b}) \in Nat
          <5> HIDE DEF R
          <5> QED BY <2>3, RemovalCounted
        <4> HIDE DEF R
        <4> QED BY <4>1 DEF NatValued
      <3>2. IsFiniteSet(R)
        BY <2>3
      <3> HIDE DEF h, R
      <3>3. SumOf([b \in R |-> l * h[b]]) = l * SumOf([b \in R |-> h[b]])
        BY <3>1, <3>2, SumOfScaled
      <3> QED BY <3>1, <3>3
    <2>6. SumOf(g) = g[a] + SumOver(g, R)
      <3>1. g \in [S -> Nat]
        BY <2>1
      <3> HIDE DEF g
      <3> QED BY <3>1, FoldSummed, Zenon
    <2>7. o[a] = m
      OBVIOUS
    <2> HIDE DEF g, R, h, m, o, D
    <2>8. SumOf(g) = k * m + l * ((D - 2) * m)
      BY <2>1, <2>2, <2>4, <2>5, <2>6 DEF SumOver
    <2>9. k * m + l * ((D - 2) * m) = (k + l * (D - 2)) * m
      <3>1. D - 2 \in Int /\ m \in Int /\ k \in Int /\ l \in Int
        BY <1>1, <2>3
      <3> QED BY <3>1
    <2> QED BY <2>7, <2>8, <2>9 DEF g
  <1>5. SumOf(o) = (D - 1) * n
    <2> HIDE DEF o
    <2> QED BY <1>1, OthersCounted DEF o
  <1>6. SumOf([a \in S |-> r * o[a]]) = r * SumOf([a \in S |-> o[a]]) /\ [a \in S |-> o[a]] = o
    <2>1. DOMAIN o = S /\ NatValued(o) /\ [a \in S |-> o[a]] = o
      BY <1>3 DEF NatValued
    <2> HIDE DEF o, r
    <2>2. SumOf([a \in S |-> r * o[a]]) = r * SumOf([a \in S |-> o[a]])
      BY <1>2, <2>1, SumOfScaled
    <2> QED BY <2>1, <2>2
  <1>7. [a \in S |-> SumOf([b \in S |-> f[<<a, b>>]])] = [a \in S |-> r * o[a]]
    <2> HIDE DEF o, r
    <2> QED BY <1>4
  <1>8. SumOf(f) = SumOf([a \in S |-> SumOf([b \in S |-> f[<<a, b>>]])])
    BY FoldByFold
  <1> HIDE DEF o
  <1>9. SumOf(f) = r * ((D - 1) * n)
    <2> HIDE DEF r, n, D
    <2> QED BY <1>5, <1>6, <1>7, <1>8
  <1> QED BY <1>9

-----------------------------------------------------------------------------
(* What is read: rows of score blocks, by destination.                      *)

Weigh(w, read) == SumOf([b \in read |-> w[b[2]]])

DestinationBlocks(S, s) == {<<s, d>> : d \in S \ s}

CalibrationReads(S) == UNION {CalibrationBlocks(s) : s \in CalibratedSubsets(S)}

LEMMA CalibratedAreFinite ==
    ASSUME NEW S, IsFiniteSet(S)
    PROVE  /\ IsFiniteSet(CalibratedSubsets(S))
           /\ CalibratedSubsets(S) \in SUBSET SUBSET S
           /\ CalibratedSubsets(S) \in SUBSET TrainingSubsets(S)
  <1>1. CalibratedSubsets(S) \in SUBSET SUBSET S
    BY DEF CalibratedSubsets, LeavingOut, kSubset
  <1>2. CalibratedSubsets(S) \in SUBSET TrainingSubsets(S)
    BY DEF CalibratedSubsets, TrainingSubsets
  <1>3. IsFiniteSet(CalibratedSubsets(S))
    BY <1>2, TrainingSubsetsCounted, FS_Subset
  <1> QED BY <1>1, <1>2, <1>3

(* The blocks B under other names, the members of Q. *)
Names(h, Q, B) ==
    /\ DOMAIN h = Q
    /\ \A p, q \in Q : h[p] = h[q] => p = q
    /\ \A q \in Q : h[q] \in B
    /\ \A b \in B : \E q \in Q : h[q] = b

LEMMA BlocksRenamed ==
    ASSUME NEW Q, IsFiniteSet(Q), NEW B, NEW h, Names(h, Q, B),
           NEW w, NEW v \in [Q -> Nat], \A q \in Q : v[q] = w[h[q][2]]
    PROVE  IsFiniteSet(B) /\ Weigh(w, B) = SumOf(v)
  <1> /\ DOMAIN h = Q /\ \A p, q \in Q : h[p] = h[q] => p = q
      /\ \A q \in Q : h[q] \in B
      /\ \A b \in B : \E q \in Q : h[q] = b
    BY DEF Names
  <1> DEFINE g == [b \in B |-> w[b[2]]]
  <1>1. B = {h[q] : q \in Q}
    OBVIOUS
  <1>2. IsFiniteSet(B)
    BY <1>1, ImageCounts
  <1>3. DOMAIN g = B /\ NatValued(g) /\ g = [b \in B |-> g[b]]
    BY DEF NatValued
  <1>4. [q \in Q |-> g[h[q]]] = v
    OBVIOUS
  <1>5. SumOf([b \in {h[q] : q \in Q} |-> g[b]]) = SumOf([q \in Q |-> g[h[q]]])
    <2>1. DOMAIN g = {h[q] : q \in Q} /\ NatValued(g)
      BY <1>1, <1>3
    <2> HIDE DEF g
    <2> QED BY <2>1, SumOfRenamed
  <1>6. SumOf(g) = SumOf(v)
    <2> HIDE DEF g
    <2> QED BY <1>1, <1>3, <1>4, <1>5
  <1> QED BY <1>2, <1>6 DEF Weigh

LEMMA CalibrationWeighed ==
    ASSUME NEW S, IsFiniteSet(S), NEW w \in [S -> Nat], NEW s \in SUBSET S
    PROVE  /\ IsFiniteSet(CalibrationBlocks(s))
           /\ Weigh(w, CalibrationBlocks(s)) = SumOver(w, s)
  <1> DEFINE h == [c \in s |-> <<s \ {c}, c>>]
             B == CalibrationBlocks(s)
             v == [c \in s |-> w[c]]
  <1>1. IsFiniteSet(s)
    BY FS_Subset
  <1>2. DOMAIN h = s /\ \A c, d \in s : h[c] = h[d] => c = d
    OBVIOUS
  <1>3. (\A c \in s : h[c] \in B) /\ \A b \in B : \E c \in s : h[c] = b
    BY DEF CalibrationBlocks
  <1>4. v \in [s -> Nat] /\ \A c \in s : v[c] = w[h[c][2]]
    OBVIOUS
  <1> HIDE DEF h, B, v
  <1>5. IsFiniteSet(B) /\ Weigh(w, B) = SumOf(v)
    <2>1. Names(h, s, B)
      BY <1>2, <1>3 DEF Names
    <2> QED BY <1>1, <1>4, <2>1, BlocksRenamed
  <1> QED BY <1>5 DEF SumOver, B, v

LEMMA DestinationsWeighed ==
    ASSUME NEW S, IsFiniteSet(S), NEW w \in [S -> Nat], NEW s
    PROVE  /\ IsFiniteSet(DestinationBlocks(S, s))
           /\ Weigh(w, DestinationBlocks(S, s)) = SumOver(w, S \ s)
  <1> DEFINE R == S \ s
             h == [d \in R |-> <<s, d>>]
             B == DestinationBlocks(S, s)
             v == [d \in R |-> w[d]]
  <1>1. IsFiniteSet(R)
    BY FS_Subset
  <1>2. DOMAIN h = R /\ \A c, d \in R : h[c] = h[d] => c = d
    OBVIOUS
  <1>3. (\A d \in R : h[d] \in B) /\ \A b \in B : \E d \in R : h[d] = b
    BY DEF DestinationBlocks
  <1>4. v \in [R -> Nat] /\ \A d \in R : v[d] = w[h[d][2]]
    OBVIOUS
  <1> HIDE DEF h, B, R, v
  <1>5. IsFiniteSet(B) /\ Weigh(w, B) = SumOf(v)
    <2>1. Names(h, R, B)
      BY <1>2, <1>3 DEF Names
    <2> QED BY <1>1, <1>4, <2>1, BlocksRenamed
  <1> QED BY <1>5 DEF SumOver, B, R, v

(* Calibrating and serving a subset touches different blocks. *)
LEMMA SubsetWeighed ==
    ASSUME NEW S, IsFiniteSet(S), NEW w \in [S -> Nat], NEW s \in SUBSET S
    PROVE  Weigh(w, CalibrationBlocks(s) \cup DestinationBlocks(S, s))
             = SumOver(w, s) + SumOver(w, S \ s)
  <1> DEFINE A == CalibrationBlocks(s)
             B == DestinationBlocks(S, s)
             f == [b \in A \cup B |-> w[b[2]]]
  <1>1. IsFiniteSet(A) /\ IsFiniteSet(B) /\ Weigh(w, A) = SumOver(w, s)
        /\ Weigh(w, B) = SumOver(w, S \ s)
    BY CalibrationWeighed, DestinationsWeighed
  <1>2. A \cap B = {}
    BY DEF CalibrationBlocks, DestinationBlocks
  <1>3. \A b \in A \cup B : b[2] \in S
    BY DEF CalibrationBlocks, DestinationBlocks
  <1> HIDE DEF A, B
  <1>4. DOMAIN f = A \cup B /\ NatValued(f)
    BY <1>3 DEF NatValued
  <1>5. /\ [b \in A |-> f[b]] = [b \in A |-> w[b[2]]]
        /\ [b \in B |-> f[b]] = [b \in B |-> w[b[2]]]
        /\ [b \in A \cup B |-> f[b]] = [b \in A \cup B |-> w[b[2]]]
    OBVIOUS
  <1> HIDE DEF f
  <1>6. SumOf([b \in A \cup B |-> f[b]]) = SumOf([b \in A |-> f[b]]) + SumOf([b \in B |-> f[b]])
    BY <1>1, <1>2, <1>4, SumOfJoined
  <1> QED BY <1>1, <1>5, <1>6 DEF Weigh, A, B

(* All calibrations together read a block for every calibrated subset and  *)
(* domain in it.                                                            *)
LEMMA CalibrationsWeighed ==
    ASSUME NEW S, IsFiniteSet(S), NEW w \in [S -> Nat]
    PROVE  Weigh(w, CalibrationReads(S)) = SumOf([s \in CalibratedSubsets(S) |-> SumOver(w, s)])
  <1> DEFINE T == CalibratedSubsets(S)
             Q == {q \in T \X S : q[2] \in q[1]}
             h == [q \in Q |-> <<q[1] \ {q[2]}, q[2]>>]
             B == CalibrationReads(S)
             f == [q \in Q |-> w[q[2]]]
  <1>1. IsFiniteSet(T) /\ T \in SUBSET SUBSET S
    BY CalibratedAreFinite
  <1>2. Q \in SUBSET (T \X S) /\ IsFiniteSet(Q)
    <2>1. IsFiniteSet(T \X S)
      <3> HIDE DEF T
      <3> QED BY <1>1, FS_Product
    <2>2. Q \in SUBSET (T \X S)
      OBVIOUS
    <2> HIDE DEF Q, T
    <2> QED BY <2>1, <2>2, FS_Subset
  <1>3. \A q \in Q : q[1] \in T /\ q[2] \in S /\ q[2] \in q[1] /\ q = <<q[1], q[2]>>
    OBVIOUS
  <1>4. DOMAIN h = Q /\ \A p, q \in Q : h[p] = h[q] => p = q
    <2> SUFFICES ASSUME NEW p \in Q, NEW q \in Q, h[p] = h[q] PROVE p = q
      OBVIOUS
    <2>1. p[1] \ {p[2]} = q[1] \ {q[2]} /\ p[2] = q[2]
      OBVIOUS
    <2>2. p[1] = q[1]
      BY <1>3, <2>1
    <2> QED BY <1>3, <2>1, <2>2
  <1>5. (\A q \in Q : h[q] \in B) /\ \A b \in B : \E q \in Q : h[q] = b
    <2>1. ASSUME NEW b \in B PROVE \E q \in Q : h[q] = b
      <3>1. PICK s \in T : b \in CalibrationBlocks(s)
        BY DEF CalibrationReads
      <3>2. PICK c \in s : b = <<s \ {c}, c>>
        BY <3>1 DEF CalibrationBlocks
      <3>3. <<s, c>> \in Q
        BY <1>1, <3>1, <3>2
      <3>4. h[<<s, c>>] = b
        BY <3>2, <3>3
      <3> QED BY <3>3, <3>4
    <2>2. ASSUME NEW q \in Q PROVE h[q] \in B
      <3>1. q[1] \in T /\ q[2] \in q[1]
        BY <1>3
      <3> QED BY <3>1 DEF CalibrationReads, CalibrationBlocks
    <2> HIDE DEF Q, h, B
    <2> QED BY <2>1, <2>2
  <1>6. \A q \in Q : f[q] = w[h[q][2]]
    OBVIOUS
  <1>7. f \in [Q -> Nat]
    BY <1>3
  <1>8. ASSUME NEW s \in T PROVE RowSumOf(f, Q, S, s) = SumOver(w, s)
    <2>1. RowOf(Q, S, s) = s
      BY <1>1 DEF RowOf
    <2>2. [c \in RowOf(Q, S, s) |-> f[<<s, c>>]] = [c \in s |-> w[c]]
      <3>1. \A c \in RowOf(Q, S, s) : f[<<s, c>>] = w[c]
        BY DEF RowOf
      <3> QED BY <2>1, <3>1
    <2> QED BY <2>2 DEF RowSumOf, SumOver
  <1>9. Weigh(w, B) = SumOf(f)
    <2> HIDE DEF B, Q, h, f
    <2>1. Names(h, Q, B)
      BY <1>4, <1>5 DEF Names
    <2> QED BY <1>2, <1>6, <1>7, <2>1, BlocksRenamed
  <1>10. SumOf(f) = SumOf([s \in T |-> RowSumOf(f, Q, S, s)])
    <2> HIDE DEF f, Q, T
    <2> QED BY <1>1, <1>2, <1>7, SumOfRows
  <1> HIDE DEF f, Q, h, B
  <1>11. Weigh(w, B) = SumOf([s \in T |-> SumOver(w, s)])
    <2> HIDE DEF T
    <2> QED BY <1>8, <1>9, <1>10
  <1> QED BY <1>11 DEF B

(* The calibrated blocks are those of its destinations, for every subset. *)
LEMMA CalibratedWeighed ==
    ASSUME NEW S, IsFiniteSet(S), NEW w \in [S -> Nat]
    PROVE  Weigh(w, CalibratedBlocks(S))
             = SumOf([s \in CalibratedSubsets(S) |-> SumOver(w, S \ s)])
  <1> DEFINE T == CalibratedSubsets(S)
             Q == CalibratedBlocks(S)
             f == [q \in Q |-> w[q[2]]]
  <1>1. IsFiniteSet(T) /\ T \in SUBSET SUBSET S
    BY CalibratedAreFinite
  <1>2. Q \in SUBSET (T \X S) /\ IsFiniteSet(Q)
    <2>1. IsFiniteSet(T \X S)
      <3> HIDE DEF T
      <3> QED BY <1>1, FS_Product
    <2>2. Q \in SUBSET (T \X S)
      BY DEF CalibratedBlocks, BlocksOf
    <2> HIDE DEF Q, T
    <2> QED BY <2>1, <2>2, FS_Subset
  <1>3. f \in [Q -> Nat]
    BY DEF CalibratedBlocks, BlocksOf
  <1>4. ASSUME NEW s \in T PROVE RowSumOf(f, Q, S, s) = SumOver(w, S \ s)
    <2>1. RowOf(Q, S, s) = S \ s
      BY DEF RowOf, CalibratedBlocks, BlocksOf
    <2>2. [c \in RowOf(Q, S, s) |-> f[<<s, c>>]] = [c \in S \ s |-> w[c]]
      <3>1. \A c \in RowOf(Q, S, s) : f[<<s, c>>] = w[c]
        BY DEF RowOf
      <3> QED BY <2>1, <3>1
    <2> QED BY <2>2 DEF RowSumOf, SumOver
  <1>5. SumOf(f) = SumOf([s \in T |-> RowSumOf(f, Q, S, s)])
    <2> HIDE DEF f, Q, T
    <2> QED BY <1>1, <1>2, <1>3, SumOfRows
  <1>6. SumOf(f) = SumOf([s \in T |-> SumOver(w, S \ s)])
    <2> HIDE DEF T, f, Q
    <2> QED BY <1>4, <1>5
  <1> QED BY <1>6 DEF Weigh

(* Calibrating and serving every subset touches every block of the graph. *)
LEMMA EveryBlockIsRead ==
    ASSUME NEW S, IsFiniteSet(S)
    PROVE  /\ CalibrationReads(S) \cup CalibratedBlocks(S) = ScoreBlocks(S)
           /\ UNION {CalibrationBlocks(s) \cup DestinationBlocks(S, s) : s \in CalibratedSubsets(S)}
                = ScoreBlocks(S)
  <1> DEFINE T == CalibratedSubsets(S)
             B == ScoreBlocks(S)
             All == UNION {CalibrationBlocks(s) \cup DestinationBlocks(S, s) : s \in T}
  <1>1. All = CalibrationReads(S) \cup CalibratedBlocks(S)
    <2>1. CalibratedBlocks(S) = UNION {DestinationBlocks(S, s) : s \in T}
      BY DEF CalibratedBlocks, BlocksOf, DestinationBlocks
    <2> QED BY <2>1 DEF CalibrationReads
  <1>2. ASSUME NEW s \in T
        PROVE  /\ \A c \in s : <<s \ {c}, c>> \in B
               /\ \A d \in S \ s : <<s, d>> \in B
    <2>1. s \in TrainingSubsets(S) /\ s \in SUBSET S
      BY CalibratedAreFinite
    <2>2. PICK k \in 1..2, o \in SUBSET S : Cardinality(o) = k /\ s = S \ o
      BY DEF CalibratedSubsets, LeavingOut, kSubset
    <2>3. ASSUME NEW c \in s PROVE s \ {c} \in TrainingSubsets(S)
      <3>1. IsFiniteSet(o) /\ c \notin o
        BY <2>2, FS_Subset
      <3>2. Cardinality(o \cup {c}) = k + 1
        BY <2>2, <3>1, FS_AddElement
      <3>3. o \cup {c} \in kSubset(k + 1, S) /\ k + 1 \in 1..3 /\ s \ {c} = S \ (o \cup {c})
        BY <2>1, <2>2, <3>2 DEF kSubset
      <3> QED BY <3>3 DEF TrainingSubsets, LeavingOut
    <2> QED BY <2>1, <2>3 DEF ScoreBlocks, BlocksOf
  <1>3. ASSUME NEW b \in B PROVE b \in All
    <2>1. b[1] \in TrainingSubsets(S) /\ b[2] \in S \ b[1] /\ b = <<b[1], b[2]>>
      BY DEF ScoreBlocks, BlocksOf
    <2>2. PICK k \in 1..3, o \in SUBSET S : Cardinality(o) = k /\ b[1] = S \ o
      BY <2>1 DEF TrainingSubsets, LeavingOut, kSubset
    <2>3. IsFiniteSet(o) /\ b[2] \in o
      BY <2>1, <2>2, FS_Subset
    <2>4. CASE k \in 1..2
      <3>1. b[1] \in T
        BY <2>2, <2>4 DEF CalibratedSubsets, LeavingOut, kSubset
      <3>2. b \in DestinationBlocks(S, b[1])
        BY <2>1 DEF DestinationBlocks
      <3> QED BY <3>1, <3>2
    <2>5. CASE k = 3
      <3> DEFINE p == o \ {b[2]}
                 s == S \ p
      <3>1. Cardinality(p) = 2
        <4>1. Cardinality(p) = Cardinality(o) - 1
          BY <2>3, FS_RemoveElement
        <4> QED BY <2>2, <2>5, <4>1
      <3>2. p \in kSubset(2, S)
        BY <3>1 DEF kSubset
      <3>3. s \in T
        BY <3>2 DEF CalibratedSubsets, LeavingOut
      <3>4. b[2] \in s /\ s \ {b[2]} = b[1]
        BY <2>1, <2>2, <2>3
      <3>5. b \in CalibrationBlocks(s)
        BY <2>1, <3>4 DEF CalibrationBlocks
      <3> QED BY <3>3, <3>5
    <2> QED BY <2>4, <2>5
  <1>4. ASSUME NEW b \in All PROVE b \in B
    BY <1>2 DEF CalibrationBlocks, DestinationBlocks
  <1> QED BY <1>1, <1>3, <1>4

-----------------------------------------------------------------------------
(* The work.  What the counters say is followed through the loops as sums   *)
(* over the requests made so far, and over the subsets calibrated so far;   *)
(* the planner's closed forms are those sums when nothing is left to do.    *)

Requests == doms \X doms

(* The requests before the one for b inside the fold a; the last of a fold  *)
(* is the one for a itself.                                                 *)
Earlier(a, b) ==
    {q \in Requests : \/ q[1] < a
                      \/ q[1] = a /\ q[2] # a /\ (b = a \/ q[2] < b)}

(* Answered requests, trained ones, and the folds whose report is retained. *)
Answered == IF pc \in {"train", "predict"} THEN Earlier(outer, target)
            ELSE IF pc = "tune" THEN Earlier(outer, outer)
            ELSE IF pc \in {"replay", "done"} THEN Requests ELSE {}

Asked == IF pc = "predict" THEN Answered \cup {<<outer, target>>} ELSE Answered

LastOfFold == pc \in {"train", "predict"} /\ target = outer

Tuned == IF pc \in {"replay", "done"} THEN doms
         ELSE {a \in doms : a < outer} \cup IF LastOfFold THEN {outer} ELSE {}

TrainedOn(q) == doms \ {q[1], q[2]}

FitRows(s) == RowCount(input, s) + SumOf([c \in s |-> RowCount(input, s \ {c})])

Ones         == [q \in Requests |-> 1]
BaseFits     == [q \in Requests |-> Cardinality(TrainedOn(q)) + 1]
FittedRows   == [q \in Requests |-> FitRows(TrainedOn(q))]
ReplayedRows == [q \in Requests |-> RowCount(input, TrainedOn(q))]
AnsweredRows == [q \in Requests |-> input.rows[q[2]]]
OtherRows    == [a \in doms |-> RowCount(input, doms \ {a})]

FitWork ==
    trainer = "bilinear" /\ pc # "raised" =>
        /\ work.calibratedFits = SumOver(Ones, Asked)
        /\ work.baseFits = SumOver(BaseFits, Asked)
        /\ work.trainingRows = SumOver(FittedRows, Asked)
        /\ work.rawRows = SumOver(ReplayedRows, Asked) + SumOver(AnsweredRows, Answered)

ReportWork ==
    pc # "raised" => work.reportRows = SumOver(OtherRows, Tuned)
                                       + IF pc = "done" THEN RowCount(input, doms) ELSE 0

PlanWork ==
    /\ trainer # "bilinear" /\ pc \notin {"prepare", "raised"} =>
          /\ work.baseFits = Cardinality(TrainingSubsets(doms))
          /\ work.memberships = Weigh(input.rows, ScoreBlocks(doms))
    /\ pc \in {"prepare", "preflight"} \/ (pc = "raised" /\ refused # {}) =>
          work.calibratedFits = 0 /\ work.rawReads = 0

(* Rows a subset is calibrated with, and those it is then applied to too.   *)
JoinedRows  == [s \in CalibratedSubsets(doms) |-> RowCount(input, s)]
Touched == [s \in CalibratedSubsets(doms) |-> RowCount(input, s) + RowCount(input, doms \ s)]

Mapped == pc \in {"calibrate", "apply", "rehash"} \/ (Serving /\ trainer = "native")

NativeWork ==
    /\ pc \in {"preflight", "calibrate"} => work.rawReads = 0 /\ work.read = {}
    /\ pc = "prepare" => work.read = {}
    /\ Mapped => work.targetReads = RowCount(input, doms)
                                    + IF pc = "calibrate" THEN 0 ELSE SumOf(JoinedRows)
    /\ pc = "apply" => /\ work.rawReads = Weigh(input.rows, CalibrationReads(doms))
                       /\ work.read = CalibrationReads(doms)
    /\ Mapped /\ pc \notin {"calibrate", "apply"} =>
          /\ work.rawReads = Weigh(input.rows, CalibrationReads(doms))
                             + Weigh(input.rows, CalibratedBlocks(doms))
          /\ work.read = CalibrationReads(doms) \cup CalibratedBlocks(doms)

(* The subsets calibrated so far, which are those served so far.            *)
Cache == {s \in CalibratedSubsets(doms) : calibrations[s] # None}

CacheWork ==
    trainer = "reference" /\ pc # "raised" =>
        /\ \A s \in CalibratedSubsets(doms) : calibrations[s] # None <=> predictors[s] # None
        /\ ~Serving => Cache = {}
        /\ pc = "done" => Cache = CalibratedSubsets(doms)
        /\ Serving =>
              /\ work.targetReads = RowCount(input, doms) + SumOver(JoinedRows, Cache)
              /\ work.rawReads = SumOver(Touched, Cache)
              /\ work.read = UNION {CalibrationBlocks(s) \cup DestinationBlocks(doms, s) :
                                       s \in Cache}

Counted == {"calibratedFits", "baseFits", "trainingRows", "rawRows", "memberships",
            "rawReads", "targetReads", "reportRows", "read"}

WorkInv == DOMAIN work = Counted /\ FitWork /\ ReportWork /\ PlanWork
                                 /\ NativeWork /\ CacheWork

LEMMA WorkBasics ==
    ASSUME IInv
    PROVE  /\ IsFiniteSet(doms) /\ doms # {} /\ input.rows \in [doms -> Nat]
           /\ IsFiniteSet(Requests) /\ IsFiniteSet(CalibratedSubsets(doms))
           /\ \A s : RowCount(input, s) = SumOver(input.rows, s)
           /\ \A s \in SUBSET doms : RowCount(input, s) \in Nat
           /\ Ones \in [Requests -> Nat] /\ BaseFits \in [Requests -> Nat]
           /\ FittedRows \in [Requests -> Nat] /\ ReplayedRows \in [Requests -> Nat]
           /\ AnsweredRows \in [Requests -> Nat] /\ OtherRows \in [doms -> Nat]
           /\ JoinedRows \in [CalibratedSubsets(doms) -> Nat]
           /\ Touched \in [CalibratedSubsets(doms) -> Nat]
  <1>1. IsFiniteSet(doms) /\ doms # {}
    BY Basics
  <1>2. input.rows \in [doms -> Nat]
    <2>1. input \in Inputs
      BY Basics
    <2>2. input.rows \in Seq(Nat \ {0})
      BY <2>1, InputsAssumption
    <2> DEFINE r == input.rows
    <2>3. r \in Seq(Nat \ {0}) /\ doms = DOMAIN r
      BY <2>2 DEF doms, Domains
    <2> HIDE DEF r
    <2>4. r \in [DOMAIN r -> Nat]
      BY <2>3
    <2> QED BY <2>3, <2>4 DEF r
  <1>3. IsFiniteSet(Requests)
    BY <1>1, FS_Product DEF Requests
  <1>4. IsFiniteSet(CalibratedSubsets(doms)) /\ CalibratedSubsets(doms) \in SUBSET SUBSET doms
    BY <1>1, CalibratedAreFinite
  <1>5. \A s : RowCount(input, s) = SumOver(input.rows, s)
    BY DEF RowCount, SumOver
  <1>6. \A s \in SUBSET doms : RowCount(input, s) \in Nat /\ Cardinality(s) \in Nat
    BY <1>1, <1>2, <1>5, RemovalCounted
  <1>7. ASSUME NEW s \in SUBSET doms PROVE FitRows(s) \in Nat
    <2>1. RowCount(input, s) + SumOf([c \in s |-> RowCount(input, s \ {c})])
             = Cardinality(s) * RowCount(input, s)
      <3>1. [c \in s |-> RowCount(input, s \ {c})] = [c \in s |-> SumOver(input.rows, s \ {c})]
        BY <1>5
      <3>2. SumOver(input.rows, s) + SumOf([c \in s |-> SumOver(input.rows, s \ {c})])
               = Cardinality(s) * SumOver(input.rows, s)
        BY <1>1, <1>2, OthersCounted
      <3>3. SumOf([c \in s |-> RowCount(input, s \ {c})])
              = SumOf([c \in s |-> SumOver(input.rows, s \ {c})])
        BY <3>1
      <3>4. RowCount(input, s) = SumOver(input.rows, s)
        BY <1>5
      <3> QED BY <3>2, <3>3, <3>4
    <2> DEFINE k == Cardinality(s)
               n == RowCount(input, s)
    <2>2. FitRows(s) = k * n /\ k \in Nat /\ n \in Nat
      BY <1>6, <2>1 DEF FitRows
    <2> HIDE DEF k, n
    <2> QED BY <2>2
  <1>8. \A q \in Requests : TrainedOn(q) \in SUBSET doms /\ q[2] \in doms
    BY DEF Requests, TrainedOn
  <1>9. /\ Ones \in [Requests -> Nat] /\ BaseFits \in [Requests -> Nat]
        /\ FittedRows \in [Requests -> Nat] /\ ReplayedRows \in [Requests -> Nat]
        /\ AnsweredRows \in [Requests -> Nat] /\ OtherRows \in [doms -> Nat]
    <2>1. \A q \in Requests : Cardinality(TrainedOn(q)) + 1 \in Nat
      BY <1>6, <1>8
    <2> QED BY <1>2, <1>6, <1>7, <1>8, <2>1
            DEF Ones, BaseFits, FittedRows, ReplayedRows, AnsweredRows, OtherRows
  <1>10. JoinedRows \in [CalibratedSubsets(doms) -> Nat] /\ Touched \in [CalibratedSubsets(doms) -> Nat]
    BY <1>4, <1>6 DEF JoinedRows, Touched
  <1> QED BY <1>1, <1>2, <1>3, <1>4, <1>5, <1>6, <1>9, <1>10

(* What is summed does not change. *)
LEMMA RowsKept ==
    ASSUME input' = input
    PROVE  /\ doms' = doms /\ Requests' = Requests
           /\ \A s : RowCount(input, s)' = RowCount(input, s)
           /\ \A a, b : Earlier(a, b)' = Earlier(a, b)
           /\ Ones' = Ones /\ BaseFits' = BaseFits /\ FittedRows' = FittedRows
           /\ ReplayedRows' = ReplayedRows /\ AnsweredRows' = AnsweredRows
           /\ OtherRows' = OtherRows /\ JoinedRows' = JoinedRows /\ Touched' = Touched
  <1>1. doms' = doms /\ Requests' = Requests
    BY DEF doms, Requests
  <1>2. \A s : RowCount(input, s)' = RowCount(input, s) /\ FitRows(s)' = FitRows(s)
    BY DEF FitRows
  <1>3. \A q : TrainedOn(q)' = TrainedOn(q)
    BY <1>1 DEF TrainedOn
  <1>4. \A a, b : Earlier(a, b)' = Earlier(a, b)
    BY <1>1 DEF Earlier
  <1>5. /\ Ones' = Ones /\ BaseFits' = BaseFits /\ FittedRows' = FittedRows
        /\ ReplayedRows' = ReplayedRows /\ AnsweredRows' = AnsweredRows
        /\ OtherRows' = OtherRows /\ JoinedRows' = JoinedRows /\ Touched' = Touched
    BY <1>1, <1>2, <1>3 DEF Ones, BaseFits, FittedRows, ReplayedRows, AnsweredRows, OtherRows,
                             JoinedRows, Touched
  <1> QED BY <1>1, <1>2, <1>4, <1>5

-----------------------------------------------------------------------------
(* How the loops move on. *)

LEMMA NextRequest ==
    ASSUME IInv, NEW a \in doms, NEW b \in doms \ {a}, NEW d \in doms \ {a}, d > b,
           \A e \in doms \ {a} : e > b => d <= e
    PROVE  Earlier(a, d) = Earlier(a, b) \cup {<<a, b>>}
  <1>1. doms = 1..Len(input.rows) /\ Len(input.rows) \in Nat
    BY Basics
  <1>2. \A q \in Requests : q[1] \in doms /\ q[2] \in doms /\ q = <<q[1], q[2]>>
    BY DEF Requests
  <1>3. \A c \in doms : c \in Int
    BY <1>1
  <1>4. <<a, b>> \in Requests
    BY DEF Requests
  <1>5. \A q \in Requests : q[2] # a => (q[2] < d <=> q[2] < b \/ q[2] = b)
    BY <1>2, <1>3
  <1> QED BY <1>2, <1>4, <1>5 DEF Earlier

LEMMA EarlierMoves ==
    ASSUME IInv, NEW a \in doms, NEW b \in doms
    PROVE  /\ Earlier(a, b) \in SUBSET Requests /\ <<a, b>> \in Requests \ Earlier(a, b)
           /\ b # a /\ (\A e \in doms \ {a} : ~(e > b)) =>
                Earlier(a, a) = Earlier(a, b) \cup {<<a, b>>}
           /\ a + 1 \in doms => Earlier(a + 1, 1) = Earlier(a, a) \cup {<<a, a>>}
           /\ a = Len(input.rows) => Requests = Earlier(a, a) \cup {<<a, a>>}
           /\ Earlier(1, 2) = {}
  <1>1. doms = 1..Len(input.rows) /\ Len(input.rows) \in Nat
    BY Basics
  <1>2. \A q \in Requests : q[1] \in doms /\ q[2] \in doms /\ q = <<q[1], q[2]>>
    BY DEF Requests
  <1>3. \A d \in doms : d \in Int /\ 1 <= d /\ d <= Len(input.rows)
    BY <1>1
  <1>4. <<a, b>> \in Requests /\ <<a, a>> \in Requests
    BY DEF Requests
  <1>5. Earlier(a, b) \in SUBSET Requests /\ <<a, b>> \notin Earlier(a, b)
    BY <1>3 DEF Earlier
  <1>6. ASSUME b # a, \A e \in doms \ {a} : ~(e > b)
        PROVE  Earlier(a, a) = Earlier(a, b) \cup {<<a, b>>}
    <2>1. \A q \in Requests : q[2] # a => q[2] < b \/ q[2] = b
      BY <1>2, <1>3, <1>6
    <2> QED BY <1>2, <1>4, <1>6, <2>1 DEF Earlier
  <1>7. ASSUME a + 1 \in doms PROVE Earlier(a + 1, 1) = Earlier(a, a) \cup {<<a, a>>}
    <2>1. \A q \in Requests : (q[1] < a + 1 <=> q[1] < a \/ q[1] = a) /\ ~(q[2] < 1)
      BY <1>2, <1>3
    <2>2. a + 1 # 1
      BY <1>3
    <2> QED BY <1>2, <1>4, <2>1, <2>2 DEF Earlier
  <1>8. ASSUME a = Len(input.rows) PROVE Requests = Earlier(a, a) \cup {<<a, a>>}
    <2>1. \A q \in Requests : q[1] < a \/ q[1] = a
      BY <1>2, <1>3, <1>8
    <2> QED BY <1>2, <1>4, <2>1 DEF Earlier
  <1>9. Earlier(1, 2) = {}
    <2>1. \A q \in Requests : ~(q[1] < 1) /\ (q[2] < 2 => q[2] = 1)
      BY <1>2, <1>3
    <2>2. 2 # 1
      OBVIOUS
    <2> QED BY <2>1, <2>2 DEF Earlier
  <1> QED BY <1>4, <1>5, <1>6, <1>7, <1>8, <1>9

-----------------------------------------------------------------------------
(* Steps that leave a part of the story alone. *)

LEMMA SamePlace ==
    ASSUME UNCHANGED <<input, pc, outer, target>>
    PROVE  Answered' = Answered /\ Asked' = Asked /\ Tuned' = Tuned
  <1>1. doms' = doms /\ Requests' = Requests /\ \A a, b : Earlier(a, b)' = Earlier(a, b)
    BY RowsKept
  <1>2. Earlier(outer, target)' = Earlier(outer, target) /\ Earlier(outer, outer)' = Earlier(outer, outer)
    BY DEF Earlier, Requests, doms
  <1>3. Answered' = Answered
    BY <1>1, <1>2 DEF Answered
  <1>4. Asked' = Asked
    BY <1>3 DEF Asked
  <1>5. Tuned' = Tuned
    BY <1>1 DEF Tuned, LastOfFold
  <1> QED BY <1>3, <1>4, <1>5

LEMMA FitKept ==
    ASSUME FitWork, UNCHANGED <<input, trainer>>, pc # "raised",
           trainer = "bilinear" =>
               /\ Asked' = Asked /\ Answered' = Answered
               /\ work'.calibratedFits = work.calibratedFits /\ work'.baseFits = work.baseFits
               /\ work'.trainingRows = work.trainingRows /\ work'.rawRows = work.rawRows
    PROVE  FitWork'
  BY RowsKept DEF FitWork

LEMMA ReportKept ==
    ASSUME ReportWork, input' = input, pc \notin {"raised", "done"}, pc' # "done",
           Tuned' = Tuned, work'.reportRows = work.reportRows
    PROVE  ReportWork'
  BY RowsKept DEF ReportWork

LEMMA PlanKept ==
    ASSUME PlanWork, UNCHANGED <<input, trainer>>, pc \notin {"prepare", "raised"},
           pc' \notin {"prepare", "preflight", "raised"},
           trainer # "bilinear" => /\ work'.baseFits = work.baseFits
                                   /\ work'.memberships = work.memberships
    PROVE  PlanWork'
  BY RowsKept DEF PlanWork

LEMMA NativeKept ==
    ASSUME NativeWork, UNCHANGED <<input, trainer>>, Serving, Serving',
           trainer = "native" => /\ work'.targetReads = work.targetReads
                                 /\ work'.rawReads = work.rawReads /\ work'.read = work.read
    PROVE  NativeWork'
  <1>1. pc \notin {"prepare", "preflight", "calibrate", "apply", "rehash"}
        /\ pc' \notin {"prepare", "preflight", "calibrate", "apply", "rehash"}
    BY DEF Serving
  <1> QED BY <1>1, RowsKept DEF NativeWork, Mapped

LEMMA CacheKept ==
    ASSUME CacheWork, UNCHANGED <<input, trainer, calibrations, predictors>>, Serving, Serving',
           trainer = "reference" => /\ work'.targetReads = work.targetReads
                                    /\ work'.rawReads = work.rawReads /\ work'.read = work.read
                                    /\ pc' = "done" => Cache = CalibratedSubsets(doms)
    PROVE  CacheWork'
  <1>1. Cache' = Cache /\ doms' = doms
    BY DEF Cache, doms
  <1>2. pc # "raised"
    BY DEF Serving
  <1> QED BY <1>1, <1>2, RowsKept DEF CacheWork

(* A raise ends the counting. *)
LEMMA RaiseWorks ==
    ASSUME RInv, WorkInv, Raise, UNCHANGED <<input, trainer, refused>>, pc # "raised", pc # "done"
    PROVE  WorkInv'
  <1>1. pc' = "raised" /\ work' = work
    BY DEF Raise
  <1>2. refused # {} => pc \in {"prepare", "preflight"}
    BY DEF RInv, IInv, TypeOK, ShapeInv, Serving
  <1>3. PlanWork'
    BY <1>1, <1>2 DEF WorkInv, PlanWork
  <1>4. FitWork' /\ ReportWork' /\ NativeWork' /\ CacheWork'
    BY <1>1 DEF FitWork, ReportWork, NativeWork, Mapped, Serving, CacheWork
  <1> QED BY <1>1, <1>3, <1>4 DEF WorkInv, Counted

(* Steps beside the program. *)
LEMMA QuietWorks ==
    ASSUME WorkInv, UNCHANGED <<input, trainer, refused, pc, outer, target, calibrations,
                                predictors, work>>
    PROVE  WorkInv'
  <1>1. Answered' = Answered /\ Asked' = Asked /\ Tuned' = Tuned
    BY SamePlace
  <1>2. Cache' = Cache /\ doms' = doms
    BY DEF Cache, doms
  <1>3. FitWork' /\ ReportWork'
    BY <1>1, RowsKept DEF WorkInv, FitWork, ReportWork
  <1>4. PlanWork' /\ NativeWork'
    BY RowsKept DEF WorkInv, PlanWork, NativeWork, Mapped, Serving
  <1>5. CacheWork'
    BY <1>2, RowsKept DEF WorkInv, CacheWork, Serving
  <1> QED BY <1>3, <1>4, <1>5 DEF WorkInv, Counted

-----------------------------------------------------------------------------
(* Before the first fit. *)

(* No fold is before the first, and no request before its first.            *)
LEMMA NothingYet ==
    ASSUME IInv, outer = 1, pc \notin {"predict", "tune", "replay", "done"},
           pc = "train" => target = 2
    PROVE  Asked = {} /\ Answered = {} /\ Tuned = {}
  <1>1. Earlier(1, 2) = {}
    BY EarlierMoves, Basics
  <1>2. Answered = {} /\ Asked = {}
    BY <1>1 DEF Answered, Asked
  <1>3. \A a \in doms : ~(a < 1)
    BY Basics
  <1>4. ~LastOfFold
    BY DEF LastOfFold
  <1> QED BY <1>2, <1>3, <1>4 DEF Tuned

LEMMA InitWorks == Init => WorkInv
  <1> SUFFICES ASSUME Init PROVE WorkInv
    OBVIOUS
  <1>1. IInv /\ outer = 1 /\ pc \in {"prepare", "preflight"} /\ work = NoWork
    BY InitEstablishes DEF Init
  <1>2. Asked = {} /\ Answered = {} /\ Tuned = {}
    BY <1>1, NothingYet
  <1>3. \A f : SumOver(f, {}) = 0
    BY SumOfNone DEF SumOver
  <1>4. DOMAIN work = Counted /\ work.calibratedFits = 0 /\ work.baseFits = 0
        /\ work.trainingRows = 0 /\ work.rawRows = 0 /\ work.rawReads = 0
        /\ work.reportRows = 0 /\ work.read = {}
    BY <1>1 DEF NoWork, Counted
  <1>5. FitWork
    BY <1>2, <1>3, <1>4 DEF FitWork
  <1>6. ReportWork
    BY <1>1, <1>2, <1>3, <1>4 DEF ReportWork
  <1>7. PlanWork
    BY <1>1, <1>4 DEF PlanWork, Init
  <1>8. NativeWork
    BY <1>1, <1>4 DEF NativeWork, Mapped, Serving
  <1>9. CacheWork
    BY <1>1 DEF CacheWork, Cache, Serving, Init
  <1> QED BY <1>4, <1>5, <1>6, <1>7, <1>8, <1>9 DEF WorkInv

LEMMA PrepareWorks == ASSUME RInv, WorkInv, Prepare PROVE WorkInv'
  <1>1. /\ pc = "prepare" /\ trainer # "bilinear" /\ IInv' /\ outer = 1
        /\ UNCHANGED <<input, trainer, refused>>
    BY PrepareKeeps DEF Prepare, RInv, IInv, TrainerInv, ShapeInv
  <1>2. CASE Raise
    BY <1>1, <1>2, RaiseWorks
  <1>3. CASE ~Raise
    <2>1. /\ work' = [work EXCEPT
                !.baseFits = Cardinality(TrainingSubsets(doms)),
                !.memberships = SumOf([b \in ScoreBlocks(doms) |-> input.rows[b[2]]])]
          /\ pc' = "preflight" /\ UNCHANGED <<calibrations, predictors, outer>>
      BY <1>3 DEF Prepare, foldVars
    <2>2. DOMAIN work = Counted
      BY DEF WorkInv
    <2>3. /\ DOMAIN work' = Counted /\ work'.baseFits = Cardinality(TrainingSubsets(doms))
          /\ work'.memberships = Weigh(input.rows, ScoreBlocks(doms))
          /\ \A f \in Counted \ {"baseFits", "memberships"} : work'[f] = work[f]
      BY <2>1, <2>2 DEF Counted, Weigh
    <2>4. FitWork'
      BY <1>1 DEF FitWork
    <2>5. ReportWork'
      <3>1. Tuned = {}
        BY <1>1, NothingYet DEF RInv
      <3>2. Tuned' = {}
        <4>1. outer' = 1 /\ \A a \in doms' : ~(a < 1)
          BY <1>1, <2>1, Basics DEF RInv, doms
        <4> QED BY <2>1, <4>1 DEF Tuned, LastOfFold
      <3> QED BY <1>1, <2>1, <2>3, <3>1, <3>2, ReportKept DEF WorkInv, Counted
    <2>6. PlanWork'
      <3>1. work'.calibratedFits = 0 /\ work'.rawReads = 0
        BY <1>1, <2>3 DEF WorkInv, PlanWork, Counted
      <3> QED BY <1>1, <2>1, <2>3, <3>1, RowsKept DEF PlanWork
    <2>7. NativeWork'
      <3>1. work'.rawReads = 0 /\ work'.read = {}
        BY <1>1, <2>3 DEF WorkInv, PlanWork, NativeWork, Counted
      <3> QED BY <2>1, <3>1 DEF NativeWork, Mapped, Serving
    <2>8. CacheWork'
      <3>1. Cache' = Cache /\ doms' = doms
        BY <1>1, <2>1 DEF Cache, doms
      <3>2. ~Serving /\ ~Serving'
        BY <1>1, <2>1 DEF Serving
      <3> QED BY <1>1, <2>1, <3>1, <3>2 DEF WorkInv, CacheWork
    <2> QED BY <2>3, <2>4, <2>5, <2>6, <2>7, <2>8 DEF WorkInv
  <1> QED BY <1>2, <1>3

(* The same after a step. *)
LEMMA NothingAfter ==
    ASSUME IInv, input' = input, outer' = 1, pc' \notin {"predict", "tune", "replay", "done"},
           pc' = "train" => target' = 2
    PROVE  Asked' = {} /\ Answered' = {} /\ Tuned' = {}
  <1>1. Earlier(1, 2)' = {}
    <2>1. Earlier(1, 2) = {}
      BY EarlierMoves, Basics
    <2> QED BY <2>1, RowsKept
  <1>2. pc' = "train" => Earlier(outer, target)' = {}
    <2> SUFFICES ASSUME pc' = "train" PROVE Earlier(outer, target)' = {}
      OBVIOUS
    <2>1. outer' = 1 /\ target' = 2
      OBVIOUS
    <2> QED BY <1>1, <2>1 DEF Earlier
  <1>3. Answered' = {} /\ Asked' = {}
    BY <1>2 DEF Answered, Asked
  <1>4. doms' = doms /\ \A a \in doms : ~(a < 1)
    BY Basics DEF doms
  <1>5. ~LastOfFold'
    BY DEF LastOfFold
  <1> QED BY <1>3, <1>4, <1>5 DEF Tuned

LEMMA NothingSummed == \A f : SumOver(f, {}) = 0
  BY SumOfNone DEF SumOver

LEMMA PreflightWorks == ASSUME RInv, WorkInv, Preflight PROVE WorkInv'
  <1>1. /\ pc = "preflight" /\ IInv' /\ outer = 1 /\ UNCHANGED <<input, trainer, refused>>
    BY PreflightKeeps DEF Preflight, RInv, ShapeInv
  <1>2. CASE Raise
    BY <1>1, <1>2, RaiseWorks
  <1>3. CASE ~Raise
    <2>1. /\ work' = [work EXCEPT !.targetReads = ShardTargets]
          /\ pc' = IF trainer = "native" THEN "calibrate" ELSE "train"
          /\ target' = 2 /\ UNCHANGED <<calibrations, predictors, outer>>
      BY <1>3 DEF Preflight, graphVars
    <2>2. DOMAIN work = Counted
      BY DEF WorkInv
    <2>3. /\ DOMAIN work' = Counted /\ work'.targetReads = ShardTargets
          /\ \A f \in Counted \ {"targetReads"} : work'[f] = work[f]
      BY <2>1, <2>2 DEF Counted
    <2>4. /\ work'.calibratedFits = work.calibratedFits /\ work'.baseFits = work.baseFits
          /\ work'.trainingRows = work.trainingRows /\ work'.rawRows = work.rawRows
          /\ work'.memberships = work.memberships /\ work'.reportRows = work.reportRows
          /\ work'.rawReads = work.rawReads /\ work'.read = work.read
      BY <2>3 DEF Counted
    <2>5. /\ Asked = {} /\ Answered = {} /\ Tuned = {}
          /\ Asked' = {} /\ Answered' = {} /\ Tuned' = {}
      BY <1>1, <2>1, NothingYet, NothingAfter DEF RInv
    <2>6. FitWork'
      BY <1>1, <2>4, <2>5, FitKept DEF WorkInv
    <2>7. ReportWork'
      BY <1>1, <2>1, <2>4, <2>5, ReportKept DEF WorkInv
    <2>8. PlanWork'
      BY <1>1, <2>1, <2>4, PlanKept DEF WorkInv
    <2>9. work'.rawReads = 0 /\ work'.read = {}
      BY <1>1, <2>4 DEF WorkInv, NativeWork
    <2>10. trainer # "bilinear" => work'.targetReads = RowCount(input, doms) + 0
      <3>1. RowCount(input, doms) \in Nat
        BY WorkBasics DEF RInv
      <3>2. trainer # "bilinear" => work'.targetReads = RowCount(input, doms)
        BY <2>3 DEF ShardTargets
      <3> QED BY <3>1, <3>2
    <2>11. NativeWork'
      BY <1>1, <2>1, <2>9, <2>10, RowsKept DEF NativeWork, Mapped, Serving
    <2>12. CacheWork'
      <3> SUFFICES ASSUME trainer = "reference" PROVE CacheWork'
        BY <1>1 DEF CacheWork
      <3>1. Cache' = Cache /\ doms' = doms
        BY <1>1, <2>1 DEF Cache, doms
      <3>2. /\ Cache = {}
            /\ \A s \in CalibratedSubsets(doms) : calibrations[s] # None <=> predictors[s] # None
        BY <1>1 DEF WorkInv, CacheWork, Serving
      <3>3. SumOver(JoinedRows, {}) = 0 /\ SumOver(Touched, {}) = 0
        BY NothingSummed
      <3>4. UNION {CalibrationBlocks(s) \cup DestinationBlocks(doms, s) : s \in {}} = {}
        OBVIOUS
      <3> QED BY <1>1, <2>1, <2>9, <2>10, <3>1, <3>2, <3>3, <3>4, RowsKept DEF CacheWork
    <2> QED BY <2>3, <2>6, <2>7, <2>8, <2>11, <2>12 DEF WorkInv
  <1> QED BY <1>2, <1>3

(* The native consumer's own steps. *)
LEMMA NativeStarts ==
    ASSUME RInv, WorkInv, CalibrateAll \/ ApplyAll \/ Rehash, ~Raise,
           work'.baseFits = work.baseFits, work'.memberships = work.memberships,
           work'.reportRows = work.reportRows
    PROVE  /\ UNCHANGED <<input, trainer, refused>>
           /\ FitWork' /\ ReportWork' /\ PlanWork' /\ CacheWork'
  <1>1. /\ IInv' /\ outer = 1 /\ target = 2 /\ trainer = "native"
        /\ UNCHANGED <<input, trainer, refused, outer, target>>
        /\ pc \in {"calibrate", "apply", "rehash"} /\ pc' \in {"apply", "rehash", "train"}
    <2>1. IInv' /\ trainer = "native" /\ outer = 1 /\ target = 2
      BY CalibrateAllKeeps, ApplyAllKeeps, RehashKeeps
      DEF RInv, IInv, TrainerInv, ShapeInv, CalibrateAll, ApplyAll, Rehash
    <2> QED BY <2>1 DEF CalibrateAll, ApplyAll, Rehash, foldVars
  <1>2. Tuned = {} /\ Tuned' = {}
    BY <1>1, NothingYet, NothingAfter DEF RInv
  <1>3. FitWork' /\ CacheWork'
    BY <1>1 DEF FitWork, CacheWork
  <1>4. ReportWork'
    BY <1>1, <1>2, ReportKept DEF WorkInv
  <1>5. PlanWork'
    BY <1>1, PlanKept DEF WorkInv
  <1> QED BY <1>1, <1>3, <1>4, <1>5

LEMMA CalibrateAllWorks == ASSUME RInv, WorkInv, CalibrateAll PROVE WorkInv'
  <1> DEFINE R == CalibrationReads(doms)
             n == RowCount(input, doms)
             m == SumOf(JoinedRows)
  <1>1. /\ work' = Reading(R, m) /\ pc = "calibrate" /\ pc' = "apply" /\ DOMAIN work = Counted
        /\ ~Raise /\ trainer' = trainer
    BY DEF CalibrateAll, CalibrationReads, JoinedRows, WorkInv, Raise
  <1>2. work.rawReads = 0 /\ work.read = {} /\ work.targetReads = n + 0
    BY <1>1 DEF WorkInv, NativeWork, Mapped
  <1>3. /\ DOMAIN work' = Counted
        /\ work'.baseFits = work.baseFits /\ work'.memberships = work.memberships
        /\ work'.reportRows = work.reportRows
        /\ work'.rawReads = work.rawReads + Weigh(input.rows, R)
        /\ work'.targetReads = work.targetReads + m /\ work'.read = work.read \cup R
    <2> HIDE DEF R, m
    <2> QED BY <1>1 DEF Reading, Counted, Weigh
  <1>4. n \in Nat /\ m \in Nat /\ Weigh(input.rows, R) \in Nat /\ Weigh(input.rows, R) = m
    <2>1. n \in Nat /\ m \in Nat
      BY WorkBasics, NumbersAreNat DEF RInv
    <2>2. Weigh(input.rows, R) = SumOf([s \in CalibratedSubsets(doms) |-> SumOver(input.rows, s)])
      BY WorkBasics, CalibrationsWeighed DEF RInv
    <2>3. [s \in CalibratedSubsets(doms) |-> SumOver(input.rows, s)] = JoinedRows
      BY WorkBasics DEF RInv, JoinedRows
    <2> QED BY <2>1, <2>2, <2>3
  <1>5. /\ work'.rawReads = Weigh(input.rows, R) /\ work'.read = R /\ work'.targetReads = n + m
    <2> HIDE DEF R, n, m
    <2> QED BY <1>2, <1>3, <1>4
  <1>6. UNCHANGED <<input, trainer, refused>> /\ FitWork' /\ ReportWork' /\ PlanWork' /\ CacheWork'
    BY <1>1, <1>3, NativeStarts
  <1>7. NativeWork'
    BY <1>1, <1>5, <1>6, RowsKept DEF NativeWork, Mapped, Serving
  <1> QED BY <1>3, <1>6, <1>7 DEF WorkInv

LEMMA ApplyAllWorks == ASSUME RInv, WorkInv, ApplyAll PROVE WorkInv'
  <1> DEFINE R == CalibratedBlocks(doms)
             n == RowCount(input, doms)
             m == SumOf(JoinedRows)
             A == Weigh(input.rows, CalibrationReads(doms))
  <1>1. /\ work' = Reading(R, 0) /\ pc = "apply" /\ pc' = "rehash" /\ DOMAIN work = Counted
        /\ ~Raise /\ trainer' = trainer
    BY DEF ApplyAll, WorkInv, Raise
  <1>2. work.rawReads = A /\ work.read = CalibrationReads(doms) /\ work.targetReads = n + m
    BY <1>1 DEF WorkInv, NativeWork, Mapped
  <1>3. /\ DOMAIN work' = Counted
        /\ work'.baseFits = work.baseFits /\ work'.memberships = work.memberships
        /\ work'.reportRows = work.reportRows
        /\ work'.rawReads = work.rawReads + Weigh(input.rows, R)
        /\ work'.targetReads = work.targetReads + 0 /\ work'.read = work.read \cup R
    <2> HIDE DEF R
    <2> QED BY <1>1 DEF Reading, Counted, Weigh
  <1>4. n \in Nat /\ m \in Nat
    BY WorkBasics, NumbersAreNat DEF RInv
  <1>5. /\ work'.rawReads = A + Weigh(input.rows, R) /\ work'.targetReads = n + m
        /\ work'.read = CalibrationReads(doms) \cup R
    <2> HIDE DEF R, n, m, A
    <2> QED BY <1>2, <1>3, <1>4
  <1>6. UNCHANGED <<input, trainer, refused>> /\ FitWork' /\ ReportWork' /\ PlanWork' /\ CacheWork'
    BY <1>1, <1>3, NativeStarts
  <1>7. NativeWork'
    BY <1>1, <1>5, <1>6, RowsKept DEF NativeWork, Mapped, Serving
  <1> QED BY <1>3, <1>6, <1>7 DEF WorkInv

LEMMA RehashWorks == ASSUME RInv, WorkInv, Rehash PROVE WorkInv'
  <1>1. pc = "rehash" /\ UNCHANGED <<input, trainer, refused>> /\ trainer = "native"
    BY DEF Rehash, RInv, IInv, TrainerInv
  <1>2. CASE Raise
    BY <1>1, <1>2, RaiseWorks
  <1>3. CASE ~Raise
    <2>1. pc' = "train" /\ work' = work
      BY <1>3 DEF Rehash
    <2>2. FitWork' /\ ReportWork' /\ PlanWork' /\ CacheWork'
      BY <1>3, <2>1, NativeStarts
    <2>3. NativeWork'
      BY <1>1, <2>1, RowsKept DEF WorkInv, NativeWork, Mapped, Serving
    <2> QED BY <2>1, <2>2, <2>3 DEF WorkInv, Counted
  <1> QED BY <1>2, <1>3

-----------------------------------------------------------------------------
(* A request is trained, and counted once. *)

LEMMA TrainPlace ==
    ASSUME IInv, UNCHANGED <<input, outer, target>>, pc = "train", pc' = "predict"
    PROVE  /\ Answered' = Answered /\ Asked = Answered /\ Tuned' = Tuned
           /\ Asked \in SUBSET Requests /\ <<outer, target>> \in Requests \ Asked
           /\ Asked' = Asked \cup {<<outer, target>>}
  <1>1. Answered = Earlier(outer, target) /\ Asked = Earlier(outer, target)
    BY DEF Answered, Asked
  <1>2. /\ Earlier(outer, target) \in SUBSET Requests
        /\ <<outer, target>> \in Requests \ Earlier(outer, target)
    BY EarlierMoves, Basics
  <1>3. Answered' = Earlier(outer, target)
    BY DEF Answered, Earlier, Requests, doms
  <1>4. Asked' = Answered' \cup {<<outer, target>>}
    BY DEF Asked
  <1>5. Tuned' = Tuned
    BY RowsKept DEF Tuned, LastOfFold
  <1> QED BY <1>1, <1>2, <1>3, <1>4, <1>5

LEMMA TrainBilinearWorks == ASSUME RInv, WorkInv, TrainBilinear PROVE WorkInv'
  <1> DEFINE q == <<outer, target>>
  <1>1. pc = "train" /\ trainer = "bilinear" /\ UNCHANGED <<input, trainer, refused>>
    BY DEF TrainBilinear
  <1>2. CASE Raise
    BY <1>1, <1>2, RaiseWorks
  <1>3. CASE ~Raise
    <2>1. /\ pc' = "predict" /\ UNCHANGED <<outer, target>>
          /\ work' = [work EXCEPT
                  !.calibratedFits = @ + 1,
                  !.baseFits = @ + Cardinality(Training) + 1,
                  !.trainingRows = @ + RowCount(input, Training)
                      + SumOf([c \in Training |-> RowCount(input, Training \ {c})]),
                  !.rawRows = @ + RowCount(input, Training)]
      BY <1>3 DEF TrainBilinear, Trained, foldVars
    <2>2. DOMAIN work = Counted
      BY DEF WorkInv
    <2>3. /\ DOMAIN work' = Counted /\ work'.reportRows = work.reportRows
          /\ work'.calibratedFits = work.calibratedFits + 1
          /\ work'.baseFits = work.baseFits + Cardinality(Training) + 1
          /\ work'.trainingRows = work.trainingRows + RowCount(input, Training)
                      + SumOf([c \in Training |-> RowCount(input, Training \ {c})])
          /\ work'.rawRows = work.rawRows + RowCount(input, Training)
      BY <2>1, <2>2 DEF Counted
    <2>4. /\ Answered' = Answered /\ Asked = Answered /\ Tuned' = Tuned
          /\ Asked \in SUBSET Requests /\ q \in Requests \ Asked /\ Asked' = Asked \cup {q}
      BY <1>1, <2>1, TrainPlace DEF RInv
    <2>5. Training = TrainedOn(q) /\ TrainedOn(q) \in SUBSET doms
      BY DEF Training, TrainedOn
    <2>6. /\ Ones[q] = 1 /\ BaseFits[q] = Cardinality(Training) + 1
          /\ FittedRows[q] = RowCount(input, Training)
                             + SumOf([c \in Training |-> RowCount(input, Training \ {c})])
          /\ ReplayedRows[q] = RowCount(input, Training)
      BY <2>4, <2>5 DEF Ones, BaseFits, FittedRows, ReplayedRows, FitRows
    <2>7. ASSUME NEW f \in [Requests -> Nat]
          PROVE  /\ SumOver(f, Asked') = SumOver(f, Asked) + f[q]
                 /\ SumOver(f, Asked) \in Nat /\ f[q] \in Nat
      <3>1. IsFiniteSet(Requests)
        BY WorkBasics DEF RInv
      <3>2. \A T \in SUBSET Requests :
                /\ SumOver(f, T) \in Nat
                /\ \A x \in Requests \ T : SumOver(f, T \cup {x}) = SumOver(f, T) + f[x]
        BY <3>1, SumsOver
      <3> QED BY <2>4, <3>2, Zenon
    <2>8. /\ Ones \in [Requests -> Nat] /\ BaseFits \in [Requests -> Nat]
          /\ FittedRows \in [Requests -> Nat] /\ ReplayedRows \in [Requests -> Nat]
          /\ AnsweredRows \in [Requests -> Nat] /\ IsFiniteSet(Requests)
      BY WorkBasics DEF RInv
    <2>9. /\ work.calibratedFits = SumOver(Ones, Asked)
          /\ work.baseFits = SumOver(BaseFits, Asked)
          /\ work.trainingRows = SumOver(FittedRows, Asked)
          /\ work.rawRows = SumOver(ReplayedRows, Asked) + SumOver(AnsweredRows, Answered)
      BY <1>1 DEF WorkInv, FitWork
    <2>10. work'.calibratedFits = SumOver(Ones, Asked')
      BY <2>3, <2>6, <2>7, <2>8, <2>9
    <2>11. work'.baseFits = SumOver(BaseFits, Asked')
      <3>1. Cardinality(Training) \in Nat
        BY <2>5, WorkBasics, FS_Subset, FS_CardinalityType DEF RInv
      <3>2. SumOver(BaseFits, Asked') = SumOver(BaseFits, Asked) + BaseFits[q]
            /\ SumOver(BaseFits, Asked) \in Nat
        BY <2>7, <2>8
      <3> QED BY <2>3, <2>6, <2>9, <3>1, <3>2
    <2>12. work'.trainingRows = SumOver(FittedRows, Asked')
      <3> DEFINE n == RowCount(input, Training)
                 m == SumOf([c \in Training |-> RowCount(input, Training \ {c})])
                 x == SumOver(FittedRows, Asked)
      <3>1. n \in Nat /\ x \in Nat
        BY <2>5, <2>7, <2>8, WorkBasics DEF RInv
      <3>2. m \in Nat
        <4> DEFINE g == [c \in Training |-> RowCount(input, Training \ {c})]
        <4>1. \A c \in Training : RowCount(input, Training \ {c}) \in Nat
          BY <2>5, WorkBasics DEF RInv
        <4>2. g \in [Training -> Nat] /\ DOMAIN g = Training /\ NatValued(g)
          BY <4>1 DEF NatValued
        <4>3. IsFiniteSet(Training)
          BY <2>5, WorkBasics, FS_Subset DEF RInv
        <4> HIDE DEF g
        <4>4. SumOf(g) \in Nat
          BY <4>2, <4>3, SumIsNat
        <4> QED BY <4>4 DEF g
      <3>3. work'.trainingRows = x + n + m /\ SumOver(FittedRows, Asked') = x + (n + m)
        BY <2>3, <2>6, <2>7, <2>8, <2>9
      <3> HIDE DEF n, m, x
      <3> QED BY <3>1, <3>2, <3>3
    <2>13. work'.rawRows = SumOver(ReplayedRows, Asked') + SumOver(AnsweredRows, Answered')
      <3> DEFINE n == RowCount(input, Training)
                 x == SumOver(ReplayedRows, Asked)
                 y == SumOver(AnsweredRows, Answered)
      <3>1. x \in Nat /\ y \in Nat /\ n \in Nat
        BY <2>4, <2>5, <2>7, <2>8, WorkBasics DEF RInv
      <3>2. work'.rawRows = (x + y) + n /\ SumOver(ReplayedRows, Asked') = x + n
            /\ SumOver(AnsweredRows, Answered') = y
        BY <2>3, <2>4, <2>6, <2>7, <2>8, <2>9
      <3> HIDE DEF n, x, y
      <3> QED BY <3>1, <3>2
    <2>14. FitWork'
      BY <1>1, <2>10, <2>11, <2>12, <2>13, RowsKept DEF FitWork
    <2>15. ReportWork'
      BY <1>1, <2>1, <2>3, <2>4, ReportKept DEF WorkInv
    <2>16. PlanWork'
      BY <1>1, <2>1, PlanKept DEF WorkInv
    <2>17. NativeWork' /\ CacheWork'
      BY <1>1, <2>1 DEF NativeWork, Mapped, Serving, CacheWork
    <2> QED BY <2>3, <2>14, <2>15, <2>16, <2>17 DEF WorkInv
  <1> QED BY <1>2, <1>3

(* A prepared predictor that was served before costs nothing.               *)
LEMMA CachedWorks ==
    ASSUME RInv, WorkInv, pc = "train", pc' = "predict", trainer # "bilinear",
           UNCHANGED <<input, trainer, refused, outer, target, work>>,
           trainer = "reference" => UNCHANGED <<calibrations, predictors>>
    PROVE  WorkInv'
  <1>1. Tuned' = Tuned
    BY TrainPlace DEF RInv
  <1>2. FitWork'
    BY DEF FitWork
  <1>3. ReportWork'
    BY <1>1, ReportKept DEF WorkInv
  <1>4. PlanWork'
    BY PlanKept DEF WorkInv
  <1>5. NativeWork'
    BY NativeKept DEF WorkInv, Serving
  <1>6. CacheWork'
    <2>1. CASE trainer = "reference"
      BY <2>1, CacheKept DEF WorkInv, Serving
    <2>2. CASE trainer # "reference"
      BY <2>2 DEF CacheWork
    <2> QED BY <2>1, <2>2
  <1> QED BY <1>2, <1>3, <1>4, <1>5, <1>6 DEF WorkInv, Counted

LEMMA TrainNativeWorks == ASSUME RInv, WorkInv, TrainNative PROVE WorkInv'
  <1>1. pc = "train" /\ trainer = "native" /\ UNCHANGED <<input, trainer, refused>>
    BY DEF TrainNative
  <1>2. CASE Raise
    BY <1>1, <1>2, RaiseWorks
  <1>3. CASE ~Raise
    <2>1. pc' = "predict" /\ UNCHANGED <<outer, target, work>>
      BY <1>3 DEF TrainNative, UseCached, Serve, Trained, foldVars
    <2> QED BY <1>1, <2>1, CachedWorks
  <1> QED BY <1>2, <1>3

(* The first fit of a subset out of prepared blocks, as the plan has it.    *)
LEMMA FirstFitOfReference ==
    ASSUME RInv, pc = "train", trainer = "reference", NEW s, s = Training,
           NEW scores, scores = [d \in doms \ s |-> CalibratedBlock(s, d, CalibrationFor(s))]
    PROVE  /\ s \in CalibratedSubsets(doms) /\ s \in SUBSET doms
           /\ CalibrationFor(s) # None /\ Table(s, scores) # None
  <1>1. s \in CalibratedSubsets(doms) /\ input \in Inputs
    BY RequestsArePlanned, Basics DEF RInv, Training
  <1>2. s \in SUBSET doms
    BY <1>1, BlocksAreThere DEF doms
  <1>3. blocks = Plan(input)
    BY DEF RInv, IInv, TrainerInv, BlocksInv
  <1>4. CalibrationFor(s) = Calibration(input, s)
    <2>1. \A c \in s : blocks[<<s \ {c}, c>>] = RawScore(input, s \ {c}, c)
      BY <1>1, <1>3, BlocksAreThere DEF Plan, doms
    <2> QED BY <2>1 DEF CalibrationFor, Calibration
  <1>5. \A d \in doms \ s : scores[d] = Score(input, s, d)
    <2>1. \A d \in doms \ s : blocks[<<s, d>>] = RawScore(input, s, d)
      BY <1>1, <1>3, BlocksAreThere DEF Plan, doms
    <2> QED BY <1>4, <2>1 DEF CalibratedBlock, Score
  <1>6. Table(s, scores) = Lookup(input, s)
    <2> DEFINE named(p) == CHOOSE d \in doms \ s : input.prompts[d] = p
    <2>1. \A p \in PromptsOf(doms \ s) : named(p) \in doms \ s
      BY DEF PromptsOf
    <2>2. \A p \in PromptsOf(doms \ s) : scores[named(p)] = Score(input, s, named(p))
      <3> HIDE DEF named
      <3> QED BY <1>5, <2>1
    <2>3. Table(s, scores) = [p \in PromptsOf(doms \ s) |-> scores[named(p)]]
      BY DEF Table
    <2>4. Lookup(input, s) = [p \in PromptsOf(doms \ s) |-> Score(input, s, named(p))]
      BY DEF Lookup, PromptsOf, doms
    <2> HIDE DEF named
    <2> QED BY <2>2, <2>3, <2>4
  <1>7. None # Calibration(input, s) /\ None # Lookup(input, s)
    BY <1>1, <1>2, NoneAssumption DEF doms
  <1> QED BY <1>1, <1>2, <1>4, <1>6, <1>7

LEMMA TrainReferenceWorks == ASSUME RInv, WorkInv, TrainReference PROVE WorkInv'
  <1> DEFINE s == Training
             calibration == CalibrationFor(s)
             scores == [d \in doms \ s |-> CalibratedBlock(s, d, calibration)]
             R == CalibrationBlocks(s) \cup DestinationBlocks(doms, s)
  <1>1. pc = "train" /\ trainer = "reference" /\ UNCHANGED <<input, trainer, refused>>
    BY DEF TrainReference
  <1>2. CASE Raise
    BY <1>1, <1>2, RaiseWorks
  <1>3. /\ s \in CalibratedSubsets(doms) /\ s \in SUBSET doms
        /\ calibration # None /\ Table(s, scores) # None
    BY <1>1, FirstFitOfReference
  <1>4. CASE ~Raise /\ Cached(s)
    <2>1. pc' = "predict" /\ UNCHANGED <<outer, target, work, calibrations, predictors>>
      BY <1>3, <1>4 DEF TrainReference, UseCached, Trained, foldVars, graphVars
    <2> QED BY <1>1, <2>1, CachedWorks
  <1>5. CASE ~Raise /\ ~Cached(s)
    <2>1. /\ pc' = "predict" /\ UNCHANGED <<outer, target>>
          /\ predictors' = [predictors EXCEPT ![s] = Table(s, scores)]
          /\ calibrations' = [calibrations EXCEPT ![s] = calibration]
          /\ work' = Reading(CalibrationBlocks(s) \cup Destinations(s), RowCount(input, s))
      BY <1>3, <1>5 DEF TrainReference, Serve, Trained, foldVars
    <2>2. /\ DOMAIN work = Counted /\ Destinations(s) = DestinationBlocks(doms, s)
          /\ DOMAIN calibrations = CalibratedSubsets(doms)
          /\ DOMAIN predictors = CalibratedSubsets(doms)
      BY DEF WorkInv, Destinations, DestinationBlocks, RInv, IInv, TypeOK
    <2>3. /\ DOMAIN work' = Counted /\ work'.reportRows = work.reportRows
          /\ work'.baseFits = work.baseFits /\ work'.memberships = work.memberships
          /\ work'.rawReads = work.rawReads + Weigh(input.rows, R)
          /\ work'.targetReads = work.targetReads + RowCount(input, s)
          /\ work'.read = work.read \cup R
      <3>1. work' = Reading(R, RowCount(input, s)) /\ DOMAIN work = Counted
        BY <2>1, <2>2
      <3> HIDE DEF R
      <3> QED BY <3>1 DEF Reading, Counted, Weigh
    <2>4. Tuned' = Tuned
      BY <1>1, <2>1, TrainPlace DEF RInv
    <2>5. FitWork' /\ NativeWork'
      BY <1>1, <2>1 DEF FitWork, NativeWork, Mapped, Serving
    <2>6. ReportWork'
      BY <1>1, <2>1, <2>3, <2>4, ReportKept DEF WorkInv
    <2>7. PlanWork'
      BY <1>1, <2>1, <2>3, PlanKept DEF WorkInv
    <2>8. \A t \in CalibratedSubsets(doms) : calibrations[t] # None <=> predictors[t] # None
      BY <1>1 DEF WorkInv, CacheWork
    <2>9. s \in CalibratedSubsets(doms) \ Cache /\ Cache \in SUBSET CalibratedSubsets(doms)
      <3>1. predictors[s] = None
        BY <1>5 DEF Cached
      <3> QED BY <1>3, <2>8, <3>1 DEF Cache
    <2> HIDE DEF scores, calibration
    <2>10. doms' = doms /\ Cache' = Cache \cup {s}
      <3>1. doms' = doms
        BY <1>1 DEF doms
      <3>2. \A t \in CalibratedSubsets(doms) : calibrations'[t] = IF t = s THEN calibration ELSE calibrations[t]
        BY <2>1, <2>2
      <3> HIDE DEF s
      <3> QED BY <1>3, <3>1, <3>2 DEF Cache
    <2>11. \A t \in CalibratedSubsets(doms) : calibrations'[t] # None <=> predictors'[t] # None
      <3> HIDE DEF s
      <3> QED BY <1>3, <2>1, <2>2, <2>8
    <2>12. /\ JoinedRows[s] = RowCount(input, s)
           /\ Touched[s] = RowCount(input, s) + RowCount(input, doms \ s)
           /\ Weigh(input.rows, R) = Touched[s]
      <3>1. Weigh(input.rows, R) = SumOver(input.rows, s) + SumOver(input.rows, doms \ s)
        <4>1. IsFiniteSet(doms) /\ input.rows \in [doms -> Nat]
          BY WorkBasics DEF RInv
        <4> HIDE DEF s
        <4> QED BY <1>3, <4>1, SubsetWeighed
      <3>2. /\ JoinedRows[s] = RowCount(input, s)
            /\ Touched[s] = RowCount(input, s) + RowCount(input, doms \ s)
        BY <1>3 DEF JoinedRows, Touched
      <3>3. /\ RowCount(input, s) = SumOver(input.rows, s)
            /\ RowCount(input, doms \ s) = SumOver(input.rows, doms \ s)
        BY WorkBasics DEF RInv
      <3> QED BY <3>1, <3>2, <3>3
    <2>13. ASSUME NEW f \in [CalibratedSubsets(doms) -> Nat]
           PROVE  /\ SumOver(f, Cache') = SumOver(f, Cache) + f[s]
                  /\ SumOver(f, Cache) \in Nat /\ f[s] \in Nat
      <3>1. IsFiniteSet(CalibratedSubsets(doms))
        BY WorkBasics DEF RInv
      <3>2. \A T \in SUBSET CalibratedSubsets(doms) :
                /\ SumOver(f, T) \in Nat
                /\ \A x \in CalibratedSubsets(doms) \ T : SumOver(f, T \cup {x}) = SumOver(f, T) + f[x]
        BY <3>1, SumsOver
      <3>3. Cache' = Cache \cup {s} /\ f[s] \in Nat
        BY <1>3, <2>10
      <3>4. /\ SumOver(f, Cache \cup {s}) = SumOver(f, Cache) + f[s]
            /\ SumOver(f, Cache) \in Nat
        BY <2>9, <3>2, Zenon
      <3> QED BY <3>3, <3>4
    <2>14. /\ JoinedRows \in [CalibratedSubsets(doms) -> Nat]
           /\ Touched \in [CalibratedSubsets(doms) -> Nat] /\ RowCount(input, doms) \in Nat
      BY WorkBasics DEF RInv
    <2>15. /\ work.targetReads = RowCount(input, doms) + SumOver(JoinedRows, Cache)
           /\ work.rawReads = SumOver(Touched, Cache)
           /\ work.read = UNION {CalibrationBlocks(t) \cup DestinationBlocks(doms, t) : t \in Cache}
      BY <1>1 DEF WorkInv, CacheWork, Serving
    <2>16. work'.targetReads = RowCount(input, doms) + SumOver(JoinedRows, Cache')
      <3> DEFINE n == RowCount(input, doms)
                 x == SumOver(JoinedRows, Cache)
                 y == JoinedRows[s]
      <3>1. n \in Nat /\ x \in Nat /\ y \in Nat
        BY <2>13, <2>14
      <3>2. work'.targetReads = (n + x) + y /\ SumOver(JoinedRows, Cache') = x + y
        BY <2>3, <2>12, <2>13, <2>14, <2>15
      <3> HIDE DEF n, x, y
      <3>3. work'.targetReads = n + (x + y)
        BY <3>1, <3>2
      <3> QED BY <3>2, <3>3 DEF n
    <2>17. work'.rawReads = SumOver(Touched, Cache')
      BY <2>3, <2>12, <2>13, <2>14, <2>15
    <2>18. work'.read = UNION {CalibrationBlocks(t) \cup DestinationBlocks(doms, t) : t \in Cache'}
      <3> HIDE DEF s
      <3> QED BY <2>3, <2>10, <2>15
    <2>19. CacheWork'
      <3>1. /\ JoinedRows' = JoinedRows /\ Touched' = Touched
            /\ RowCount(input, doms)' = RowCount(input, doms)
        BY <1>1, RowsKept
      <3>2. Serving' /\ pc' # "done"
        BY <2>1 DEF Serving
      <3>3. SumOver(JoinedRows, Cache)' = SumOver(JoinedRows, Cache')
            /\ SumOver(Touched, Cache)' = SumOver(Touched, Cache')
        BY <3>1
      <3> QED BY <2>10, <2>11, <2>16, <2>17, <2>18, <3>1, <3>2, <3>3 DEF CacheWork
    <2> QED BY <2>3, <2>5, <2>6, <2>7, <2>19 DEF WorkInv
  <1> QED BY <1>2, <1>4, <1>5

-----------------------------------------------------------------------------
(* A prediction answers the request, and moves on. *)

LEMMA PredictionWorks ==
    ASSUME RInv, WorkInv, pc = "predict", CountPrediction,
           UNCHANGED <<input, trainer, refused, calibrations, predictors>>,
           pc' \in {"train", "tune", "replay"},
           Answered' = Asked, Asked' = Asked, Tuned' = Tuned
    PROVE  WorkInv'
  <1> DEFINE q == <<outer, target>>
             k == IF trainer = "bilinear" THEN input.rows[target] ELSE 0
             x == SumOver(ReplayedRows, Asked)
             y == SumOver(AnsweredRows, Answered)
  <1>1. DOMAIN work = Counted /\ work' = [work EXCEPT !.rawRows = @ + k]
    BY DEF WorkInv, CountPrediction
  <1>2. /\ DOMAIN work' = Counted /\ work'.rawRows = work.rawRows + k
        /\ work'.calibratedFits = work.calibratedFits /\ work'.baseFits = work.baseFits
        /\ work'.trainingRows = work.trainingRows /\ work'.memberships = work.memberships
        /\ work'.rawReads = work.rawReads /\ work'.targetReads = work.targetReads
        /\ work'.reportRows = work.reportRows /\ work'.read = work.read
    <2> HIDE DEF k
    <2> QED BY <1>1 DEF Counted
  <1>3. /\ Answered = Earlier(outer, target) /\ Asked = Answered \cup {q}
        /\ Answered \in SUBSET Requests /\ q \in Requests \ Answered
    <2>1. Answered = Earlier(outer, target) /\ Asked = Answered \cup {q}
      BY DEF Answered, Asked
    <2>2. outer \in doms /\ target \in doms /\ IInv
      BY Basics DEF RInv
    <2>3. Earlier(outer, target) \in SUBSET Requests /\ q \in Requests \ Earlier(outer, target)
      BY <2>2, EarlierMoves
    <2> QED BY <2>1, <2>3
  <1>4. ASSUME NEW f \in [Requests -> Nat]
        PROVE  \A T \in SUBSET Requests :
                  /\ SumOver(f, T) \in Nat
                  /\ \A z \in Requests \ T : SumOver(f, T \cup {z}) = SumOver(f, T) + f[z]
    BY WorkBasics, SumsOver DEF RInv
  <1>5. ReplayedRows \in [Requests -> Nat] /\ AnsweredRows \in [Requests -> Nat]
    BY WorkBasics DEF RInv
  <1>6. SumOver(AnsweredRows, Asked) = y + AnsweredRows[q] /\ y \in Nat
    <2>1. /\ SumOver(AnsweredRows, Answered) \in Nat
          /\ SumOver(AnsweredRows, Answered \cup {q}) = SumOver(AnsweredRows, Answered) + AnsweredRows[q]
      BY <1>3, <1>4, <1>5, Zenon
    <2> QED BY <1>3, <2>1
  <1>7. x \in Nat
    <2>1. Asked \in SUBSET Requests
      BY <1>3
    <2> QED BY <1>4, <1>5, <2>1
  <1>8. trainer = "bilinear" => k = AnsweredRows[q] /\ k \in Nat
    BY <1>3, <1>5 DEF AnsweredRows
  <1>9. FitWork'
    <2> SUFFICES ASSUME trainer = "bilinear" PROVE FitWork'
      BY DEF FitWork
    <2>1. /\ work.calibratedFits = SumOver(Ones, Asked)
          /\ work.baseFits = SumOver(BaseFits, Asked)
          /\ work.trainingRows = SumOver(FittedRows, Asked) /\ work.rawRows = x + y
      BY DEF WorkInv, FitWork
    <2>2. work'.rawRows = x + SumOver(AnsweredRows, Answered')
      <3>1. SumOver(AnsweredRows, Answered') = y + k
        BY <1>6, <1>8
      <3>2. x \in Nat /\ y \in Nat /\ k \in Nat /\ work'.rawRows = (x + y) + k
        BY <1>2, <1>6, <1>7, <1>8, <2>1
      <3> HIDE DEF x, y, k
      <3>3. (x + y) + k = x + (y + k)
        BY <3>2
      <3> QED BY <3>1, <3>2, <3>3
    <2>3. /\ work'.calibratedFits = SumOver(Ones, Asked')
          /\ work'.baseFits = SumOver(BaseFits, Asked')
          /\ work'.trainingRows = SumOver(FittedRows, Asked')
          /\ work'.rawRows = SumOver(ReplayedRows, Asked') + SumOver(AnsweredRows, Answered')
      BY <1>2, <2>1, <2>2
    <2> QED BY <2>3, RowsKept DEF FitWork
  <1>10. ReportWork'
    BY <1>2, ReportKept DEF WorkInv
  <1>11. PlanWork'
    BY <1>2, PlanKept DEF WorkInv
  <1>12. Serving /\ Serving'
    BY DEF Serving
  <1>13. NativeWork' /\ CacheWork'
    BY <1>2, <1>12, NativeKept, CacheKept DEF WorkInv
  <1> QED BY <1>2, <1>9, <1>10, <1>11, <1>13 DEF WorkInv

LEMMA PredictInnerWorks == ASSUME RInv, WorkInv, PredictInner PROVE WorkInv'
  <1>1. /\ pc = "predict" /\ target # outer /\ ~Raise /\ UNCHANGED <<input, trainer, refused>>
        /\ outer \in doms /\ target \in doms /\ IInv
    BY PredictInnerRefines, Basics DEF PredictInner, RInv
  <1>2. /\ CountPrediction /\ UNCHANGED <<outer, calibrations, predictors>>
        /\ IF After(target) = {} THEN pc' = "tune" /\ target' = target
           ELSE \E d \in After(target) : (\A e \in After(target) : d <= e) /\ Request(d)
    BY <1>1 DEF PredictInner, graphVars
  <1>3. Asked = Earlier(outer, target) \cup {<<outer, target>>}
    BY <1>1 DEF Asked, Answered
  <1>4. Tuned = {a \in doms : a < outer} /\ doms' = doms
    BY <1>1 DEF Tuned, LastOfFold, doms
  <1>5. CASE After(target) = {}
    <2>1. pc' = "tune" /\ \A e \in doms \ {outer} : ~(e > target)
      BY <1>2, <1>5 DEF After
    <2>2. Earlier(outer, outer) = Asked
      BY <1>1, <1>3, <2>1, EarlierMoves
    <2>3. Answered' = Earlier(outer, outer)
      BY <1>1, <1>2, <2>1 DEF Answered, Earlier, Requests, doms
    <2>4. Asked' = Answered' /\ Tuned' = {a \in doms : a < outer}
      BY <1>2, <1>4, <2>1 DEF Asked, Tuned, LastOfFold
    <2> QED BY <1>1, <1>2, <1>4, <2>1, <2>2, <2>3, <2>4, PredictionWorks
  <1>6. CASE After(target) # {}
    <2>1. PICK d \in After(target) : (\A e \in After(target) : d <= e) /\ Request(d)
      BY <1>2, <1>6
    <2>2. /\ d \in doms \ {outer} /\ d > target
          /\ \A e \in doms \ {outer} : e > target => d <= e
      BY <2>1 DEF After
    <2>3. pc' = "train" /\ target' = d
      BY <2>1 DEF Request
    <2>4. Earlier(outer, d) = Asked
      <3>1. Earlier(outer, d) = Earlier(outer, target) \cup {<<outer, target>>}
        BY <1>1, <2>2, NextRequest
      <3> QED BY <1>3, <3>1
    <2>5. Answered' = Earlier(outer, d)
      BY <1>1, <1>2, <2>3 DEF Answered, Earlier, Requests, doms
    <2>6. Asked' = Answered' /\ Tuned' = {a \in doms : a < outer}
      BY <1>2, <1>4, <2>2, <2>3 DEF Asked, Tuned, LastOfFold
    <2> QED BY <1>1, <1>2, <1>4, <2>3, <2>4, <2>5, <2>6, PredictionWorks
  <1> QED BY <1>5, <1>6

LEMMA PredictOuterWorks == ASSUME RInv, WorkInv, PredictOuter PROVE WorkInv'
  <1>1. /\ pc = "predict" /\ target = outer /\ ~Raise /\ UNCHANGED <<input, trainer, refused>>
        /\ outer \in doms /\ IInv /\ doms = 1 .. Len(input.rows) /\ Len(input.rows) \in Nat
    BY PredictOuterRefines, Basics DEF PredictOuter, RInv
  <1>2. /\ CountPrediction /\ UNCHANGED <<calibrations, predictors>>
        /\ IF LastFold THEN pc' = "replay" /\ UNCHANGED <<outer, target>>
           ELSE outer' = outer + 1 /\ Request(1)
    BY <1>1 DEF PredictOuter, graphVars
  <1>3. Asked = Earlier(outer, outer) \cup {<<outer, outer>>}
    BY <1>1 DEF Asked, Answered
  <1>4. Tuned = {a \in doms : a < outer} \cup {outer} /\ doms' = doms /\ Requests' = Requests
    BY <1>1 DEF Tuned, LastOfFold, doms, Requests
  <1>5. outer \in Nat /\ 1 <= outer /\ outer <= Len(input.rows) /\ \A a \in doms : a \in Nat
    BY <1>1
  <1>6. CASE LastFold
    <2>1. pc' = "replay" /\ outer = Len(input.rows)
      BY <1>2, <1>6 DEF LastFold
    <2>2. Requests = Asked
      BY <1>1, <1>3, <2>1, EarlierMoves
    <2>3. Answered' = Requests /\ Asked' = Requests
      BY <1>4, <2>1 DEF Answered, Asked
    <2>4. Tuned' = doms
      BY <1>4, <2>1 DEF Tuned
    <2>5. Tuned = doms
      BY <1>1, <1>4, <2>1
    <2> QED BY <1>1, <1>2, <2>1, <2>2, <2>3, <2>4, <2>5, PredictionWorks
  <1>7. CASE ~LastFold
    <2>1. pc' = "train" /\ outer' = outer + 1 /\ target' = 1
      BY <1>2, <1>7 DEF Request
    <2>2. outer + 1 \in doms
      BY <1>1, <1>5, <1>7 DEF LastFold
    <2>3. Earlier(outer + 1, 1) = Asked
      BY <1>1, <1>3, <2>2, EarlierMoves
    <2>4. Answered' = Earlier(outer + 1, 1)
      BY <1>1, <2>1 DEF Answered, Earlier, Requests, doms
    <2>5. Asked' = Answered'
      BY <2>1 DEF Asked
    <2>6. Tuned' = Tuned
      <3>1. ~LastOfFold'
        BY <1>5, <2>1 DEF LastOfFold
      <3>2. Tuned' = {a \in doms : a < outer + 1}
        BY <1>4, <2>1, <3>1 DEF Tuned
      <3>3. \A a \in doms : a < outer + 1 <=> a < outer \/ a = outer
        BY <1>5
      <3> QED BY <1>1, <1>4, <3>2, <3>3
    <2> QED BY <1>1, <1>2, <2>1, <2>3, <2>4, <2>5, <2>6, PredictionWorks
  <1> QED BY <1>6, <1>7

-----------------------------------------------------------------------------
(* The reports: one of every outer fold, and one of all rows. *)

LEMMA TunedWorks == ASSUME RInv, WorkInv, Tune, ~Raise PROVE WorkInv'
  <1> DEFINE k == RowCount(input, doms \ {outer})
             x == SumOver(OtherRows, Tuned)
  <1>1. /\ pc = "tune" /\ ~Raise /\ UNCHANGED <<input, trainer, refused>>
        /\ outer \in doms /\ IInv
    BY Basics DEF Tune, RInv
  <1>2. /\ work' = [work EXCEPT !.reportRows = @ + k]
        /\ pc' = "train" /\ target' = outer
        /\ UNCHANGED <<outer, calibrations, predictors>>
    BY <1>1 DEF Tune, Request, graphVars
  <1>3. DOMAIN work = Counted
    BY DEF WorkInv
  <1>4. /\ DOMAIN work' = Counted /\ work'.reportRows = work.reportRows + k
        /\ work'.calibratedFits = work.calibratedFits /\ work'.baseFits = work.baseFits
        /\ work'.trainingRows = work.trainingRows /\ work'.memberships = work.memberships
        /\ work'.rawReads = work.rawReads /\ work'.targetReads = work.targetReads
        /\ work'.rawRows = work.rawRows /\ work'.read = work.read
    <2> HIDE DEF k
    <2> QED BY <1>2, <1>3 DEF Counted
  <1>5. Answered' = Answered /\ Asked' = Asked
    <2>1. Answered = Earlier(outer, outer) /\ Asked = Answered
      BY <1>1 DEF Answered, Asked
    <2>2. Answered' = Earlier(outer, outer)
      BY <1>1, <1>2 DEF Answered, Earlier, Requests, doms
    <2>3. Asked' = Answered'
      BY <1>2 DEF Asked
    <2> QED BY <2>1, <2>2, <2>3
  <1>6. /\ Tuned = {a \in doms : a < outer} /\ outer \in doms \ Tuned
        /\ Tuned \in SUBSET doms /\ Tuned' = Tuned \cup {outer}
    <2>1. doms' = doms /\ ~(outer < outer)
      BY <1>1, Basics DEF doms
    <2>2. Tuned = {a \in doms : a < outer}
      BY <1>1 DEF Tuned, LastOfFold
    <2>3. Tuned' = {a \in doms : a < outer} \cup {outer}
      BY <1>2, <2>1 DEF Tuned, LastOfFold
    <2> QED BY <1>1, <2>1, <2>2, <2>3
  <1>7. SumOver(OtherRows, Tuned') = x + k /\ x \in Nat /\ k \in Nat
    <2>1. IsFiniteSet(doms) /\ OtherRows \in [doms -> Nat]
      BY WorkBasics DEF RInv
    <2>2. \A T \in SUBSET doms :
              /\ SumOver(OtherRows, T) \in Nat
              /\ \A z \in doms \ T : SumOver(OtherRows, T \cup {z}) = SumOver(OtherRows, T) + OtherRows[z]
      BY <2>1, SumsOver
    <2>3. /\ SumOver(OtherRows, Tuned) \in Nat
          /\ SumOver(OtherRows, Tuned \cup {outer}) = SumOver(OtherRows, Tuned) + OtherRows[outer]
      BY <1>6, <2>2, Zenon
    <2>4. OtherRows[outer] = k /\ OtherRows[outer] \in Nat
      BY <1>1, <2>1 DEF OtherRows
    <2> QED BY <1>6, <2>3, <2>4
  <1>8. FitWork'
    BY <1>1, <1>4, <1>5, FitKept DEF WorkInv
  <1>9. ReportWork'
    <2>1. work.reportRows = x + 0
      BY <1>1 DEF WorkInv, ReportWork
    <2>2. work'.reportRows = SumOver(OtherRows, Tuned') + 0
      <3>1. /\ x \in Nat /\ k \in Nat /\ work.reportRows = x + 0
            /\ work'.reportRows = work.reportRows + k /\ SumOver(OtherRows, Tuned') = x + k
        BY <1>4, <1>7, <2>1
      <3> HIDE DEF x, k
      <3> QED BY <3>1
    <2>3. SumOver(OtherRows, Tuned)' = SumOver(OtherRows, Tuned')
      BY <1>1, RowsKept
    <2> QED BY <1>2, <2>2, <2>3 DEF ReportWork
  <1>10. PlanWork'
    BY <1>1, <1>2, <1>4, PlanKept DEF WorkInv
  <1>11. Serving /\ Serving' /\ pc' # "done"
    BY <1>1, <1>2 DEF Serving
  <1>12. NativeWork' /\ CacheWork'
    BY <1>1, <1>2, <1>4, <1>11, NativeKept, CacheKept DEF WorkInv
  <1> QED BY <1>4, <1>8, <1>9, <1>10, <1>12 DEF WorkInv

LEMMA TuneWorks == ASSUME RInv, WorkInv, Tune PROVE WorkInv'
  <1>1. pc = "tune" /\ UNCHANGED <<input, trainer, refused>>
    BY DEF Tune
  <1>2. CASE Raise
    BY <1>1, <1>2, RaiseWorks
  <1> QED BY <1>2, TunedWorks

LEMMA ReplayWorks == ASSUME RInv, WorkInv, Replay PROVE WorkInv'
  <1> DEFINE k == RowCount(input, doms)
             x == SumOver(OtherRows, Tuned)
  <1>1. pc = "replay" /\ ~Raise /\ UNCHANGED <<input, trainer, refused>>
    BY ReplayRefines DEF Replay
  <1>2. /\ work' = [work EXCEPT !.reportRows = @ + k]
        /\ pc' = "done" /\ UNCHANGED <<outer, target, calibrations, predictors>>
        /\ trainer = "reference" => \A s \in CalibratedSubsets(doms) : calibrations[s] # None
    BY <1>1 DEF Replay, graphVars, foldVars
  <1>3. DOMAIN work = Counted
    BY DEF WorkInv
  <1>4. /\ DOMAIN work' = Counted /\ work'.reportRows = work.reportRows + k
        /\ work'.calibratedFits = work.calibratedFits /\ work'.baseFits = work.baseFits
        /\ work'.trainingRows = work.trainingRows /\ work'.memberships = work.memberships
        /\ work'.rawReads = work.rawReads /\ work'.targetReads = work.targetReads
        /\ work'.rawRows = work.rawRows /\ work'.read = work.read
    <2> HIDE DEF k
    <2> QED BY <1>2, <1>3 DEF Counted
  <1>5. /\ doms' = doms /\ Answered = Requests /\ Answered' = Requests
        /\ Asked = Requests /\ Asked' = Requests /\ Tuned = doms /\ Tuned' = doms
    <2>1. doms' = doms /\ Requests' = Requests
      BY <1>1 DEF doms, Requests
    <2> QED BY <1>1, <1>2, <2>1 DEF Answered, Asked, Tuned
  <1>6. FitWork'
    BY <1>1, <1>4, <1>5, FitKept DEF WorkInv
  <1>7. ReportWork'
    <2>1. work.reportRows = x + 0 /\ x \in Nat
      <3>1. IsFiniteSet(doms) /\ OtherRows \in [doms -> Nat]
        BY WorkBasics DEF RInv
      <3>2. \A T \in SUBSET doms : SumOver(OtherRows, T) \in Nat
        BY <3>1, SumsOver
      <3> QED BY <1>1, <1>5, <3>2 DEF WorkInv, ReportWork
    <2>2. work'.reportRows = x + k
      <3> HIDE DEF x, k
      <3> QED BY <1>4, <2>1
    <2>3. SumOver(OtherRows, Tuned)' = x /\ RowCount(input, doms)' = k
      BY <1>1, <1>5, RowsKept
    <2> QED BY <1>2, <2>2, <2>3 DEF ReportWork
  <1>8. PlanWork'
    BY <1>1, <1>2, <1>4, PlanKept DEF WorkInv
  <1>9. Serving /\ Serving'
    BY <1>1, <1>2 DEF Serving
  <1>10. NativeWork'
    BY <1>1, <1>4, <1>9, NativeKept DEF WorkInv
  <1>11. trainer = "reference" => Cache = CalibratedSubsets(doms)
    BY <1>2 DEF Cache
  <1>12. CacheWork'
    BY <1>1, <1>2, <1>4, <1>9, <1>11, CacheKept DEF WorkInv
  <1> QED BY <1>4, <1>6, <1>7, <1>8, <1>10, <1>12 DEF WorkInv

-----------------------------------------------------------------------------
(* The counters of a finished evaluation, in closed form. *)

(* The planner's products, as the loops make them. *)
LEMMA ClosedForms ==
    ASSUME NEW D \in Nat, NEW n \in Nat
    PROVE  /\ D * (1 + 1 * (D - 1)) = D * D
           /\ D * (D + (D - 1) * (D - 1)) = D * ((D - 1) * (D - 1) + D)
           /\ ((D - 1) + (D - 2) * (D - 2)) * ((D - 1) * n)
                 = n * (D - 1) * ((D - 2) * (D - 2) + (D - 1))
           /\ (1 + 1 * (D - 2)) * ((D - 1) * n) + D * n = n * (D * (D - 1) + 1)
           /\ (D - 1) * n + n = D * n
  <1>1. D * (1 + 1 * (D - 1)) = D * D /\ D * (D + (D - 1) * (D - 1)) = D * ((D - 1) * (D - 1) + D)
    OBVIOUS
  <1>2. ((D - 1) + (D - 2) * (D - 2)) * ((D - 1) * n)
           = n * (D - 1) * ((D - 2) * (D - 2) + (D - 1))
    OBVIOUS
  <1>3. (1 + 1 * (D - 2)) * ((D - 1) * n) + D * n = n * (D * (D - 1) + 1)
    OBVIOUS
  <1>4. (D - 1) * n + n = D * n
    OBVIOUS
  <1> QED BY <1>1, <1>2, <1>3, <1>4

(* The shape of what is summed. *)
LEMMA RequestShapes ==
    ASSUME IInv
    PROVE  /\ IsFiniteSet(doms) /\ doms # {} /\ input.rows \in [doms -> Nat]
           /\ Cardinality(doms) = Len(input.rows) /\ Len(input.rows) \in Nat \ {0}
           /\ RowCount(input, doms) = SumOver(input.rows, doms)
           /\ RowCount(input, doms) \in Nat
           /\ \A a \in doms : /\ TrainedOn(<<a, a>>) = doms \ {a}
                              /\ Cardinality(doms \ {a}) = Len(input.rows) - 1
           /\ \A a, b \in doms :
                /\ TrainedOn(<<a, b>>) = doms \ {a, b}
                /\ a # b => Cardinality(doms \ {a, b}) = Len(input.rows) - 2
           /\ \A s \in SUBSET doms : FitRows(s) = Cardinality(s) * SumOver(input.rows, s)
  <1>1. /\ IsFiniteSet(doms) /\ doms # {} /\ input.rows \in [doms -> Nat]
        /\ \A s : RowCount(input, s) = SumOver(input.rows, s)
        /\ \A s \in SUBSET doms : RowCount(input, s) \in Nat
    BY WorkBasics
  <1>2. Cardinality(doms) = Len(input.rows) /\ Len(input.rows) \in Nat \ {0}
    BY Basics
  <1>3. RowCount(input, doms) = SumOver(input.rows, doms) /\ RowCount(input, doms) \in Nat
    BY <1>1
  <1>4. \A a \in doms : /\ TrainedOn(<<a, a>>) = doms \ {a}
                        /\ Cardinality(doms \ {a}) = Len(input.rows) - 1
    <2>1. \A a \in doms : TrainedOn(<<a, a>>) = doms \ {a}
      BY DEF TrainedOn
    <2>2. \A a \in doms : Cardinality(doms \ {a}) = Cardinality(doms) - 1
      BY <1>1, FS_RemoveElement
    <2> QED BY <1>2, <2>1, <2>2
  <1>5. \A a, b \in doms :
                /\ TrainedOn(<<a, b>>) = doms \ {a, b}
                /\ a # b => Cardinality(doms \ {a, b}) = Len(input.rows) - 2
    BY RequestsArePlanned DEF TrainedOn
  <1>6. ASSUME NEW s \in SUBSET doms PROVE FitRows(s) = Cardinality(s) * SumOver(input.rows, s)
    <2>1. [c \in s |-> RowCount(input, s \ {c})] = [c \in s |-> SumOver(input.rows, s \ {c})]
      BY <1>1
    <2>2. SumOver(input.rows, s) + SumOf([c \in s |-> SumOver(input.rows, s \ {c})])
             = Cardinality(s) * SumOver(input.rows, s)
      BY <1>1, OthersCounted
    <2>3. SumOf([c \in s |-> RowCount(input, s \ {c})])
            = SumOf([c \in s |-> SumOver(input.rows, s \ {c})])
      BY <2>1
    <2>4. RowCount(input, s) = SumOver(input.rows, s)
      BY <1>1
    <2> QED BY <2>2, <2>3, <2>4 DEF FitRows
  <1> QED BY <1>1, <1>2, <1>3, <1>4, <1>5, <1>6

LEMMA RequestTotals ==
    ASSUME IInv, Len(input.rows) >= 4, NEW D, D = Len(input.rows), NEW n, n = RowCount(input, doms)
    PROVE  /\ SumOf(Ones) = D * (1 + 1 * (D - 1))
           /\ SumOf(BaseFits) = D * (D + (D - 1) * (D - 1))
           /\ SumOf(FittedRows) = ((D - 1) + (D - 2) * (D - 2)) * ((D - 1) * n)
           /\ SumOf(ReplayedRows) = (1 + 1 * (D - 2)) * ((D - 1) * n)
           /\ SumOf(AnsweredRows) = D * n
           /\ SumOf(OtherRows) = (D - 1) * n
  <1> DEFINE w == input.rows
  <1>1. /\ IsFiniteSet(doms) /\ doms # {} /\ w \in [doms -> Nat]
        /\ Cardinality(doms) = D /\ D \in Nat /\ D >= 4
        /\ n = SumOver(w, doms) /\ n \in Nat
    BY RequestShapes
  <1>2. /\ Ones \in [doms \X doms -> Nat] /\ BaseFits \in [doms \X doms -> Nat]
        /\ FittedRows \in [doms \X doms -> Nat] /\ ReplayedRows \in [doms \X doms -> Nat]
        /\ AnsweredRows \in [doms \X doms -> Nat]
    BY WorkBasics DEF Requests
  <1>3. \A a, b \in doms : <<a, b>> \in Requests
    BY DEF Requests
  <1>4. \A a \in doms : TrainedOn(<<a, a>>) = doms \ {a} /\ Cardinality(doms \ {a}) = D - 1
    BY RequestShapes
  <1>5. \A a, b \in doms : /\ TrainedOn(<<a, b>>) = doms \ {a, b}
                           /\ a # b => Cardinality(doms \ {a, b}) = D - 2
    BY RequestShapes
  <1>6. D - 1 \in Nat /\ D - 2 \in Nat /\ D >= 2
    BY <1>1
  <1>7. \A s : RowCount(input, s) = SumOver(w, s)
    BY WorkBasics
  <1>8. \A s \in SUBSET doms : FitRows(s) = Cardinality(s) * SumOver(w, s)
    BY RequestShapes
  <1> HIDE DEF w
  <1>9. SumOf(Ones) = D * (1 + 1 * (D - 1))
    <2>1. (\A a \in doms : Ones[<<a, a>>] = 1) /\ \A a, b \in doms : a # b => Ones[<<a, b>>] = 1
      BY <1>3 DEF Ones
    <2>2. IsFiniteSet(doms) /\ doms # {} /\ Ones \in [doms \X doms -> Nat] /\ 1 \in Nat
      BY <1>1, <1>2
    <2>3. SumOf(Ones) = Cardinality(doms) * (1 + 1 * (Cardinality(doms) - 1))
      BY <2>1, <2>2, RequestsCounted
    <2> QED BY <1>1, <2>3
  <1>10. SumOf(BaseFits) = D * (D + (D - 1) * (D - 1))
    <2>1. \A a, b \in doms : BaseFits[<<a, b>>] = Cardinality(TrainedOn(<<a, b>>)) + 1
      BY <1>3 DEF BaseFits
    <2>2. (D - 1) + 1 = D /\ (D - 2) + 1 = D - 1
      BY <1>1
    <2>3. \A a \in doms : BaseFits[<<a, a>>] = (D - 1) + 1
      BY <1>4, <2>1, Zenon
    <2>4. ASSUME NEW a \in doms, NEW b \in doms, a # b PROVE BaseFits[<<a, b>>] = (D - 2) + 1
      <3>1. TrainedOn(<<a, b>>) = doms \ {a, b} /\ Cardinality(doms \ {a, b}) = D - 2
        BY <1>5, <2>4
      <3>2. BaseFits[<<a, b>>] = Cardinality(TrainedOn(<<a, b>>)) + 1
        BY <2>1
      <3> QED BY <3>1, <3>2, Zenon
    <2>5. \A a \in doms : BaseFits[<<a, a>>] = D
      BY <2>2, <2>3, Zenon
    <2>6. \A a, b \in doms : a # b => BaseFits[<<a, b>>] = D - 1
      BY <2>2, <2>4, Zenon
    <2>7. /\ IsFiniteSet(doms) /\ doms # {} /\ BaseFits \in [doms \X doms -> Nat]
          /\ D \in Nat /\ D - 1 \in Nat
      BY <1>1, <1>2, <1>6
    <2>8. SumOf(BaseFits) = Cardinality(doms) * (D + (D - 1) * (Cardinality(doms) - 1))
      BY <2>5, <2>6, <2>7, RequestsCounted
    <2> QED BY <1>1, <2>8
  <1>11. SumOf(FittedRows) = ((D - 1) + (D - 2) * (D - 2)) * ((D - 1) * n)
    <2>1. \A a, b \in doms : FittedRows[<<a, b>>] = FitRows(TrainedOn(<<a, b>>))
      BY <1>3 DEF FittedRows
    <2>2. \A a \in doms : FittedRows[<<a, a>>] = (D - 1) * SumOver(w, doms \ {a})
      BY <1>4, <1>8, <2>1
    <2>3. \A a, b \in doms : a # b => FittedRows[<<a, b>>] = (D - 2) * SumOver(w, doms \ {a, b})
      BY <1>5, <1>8, <2>1
    <2>6. /\ IsFiniteSet(doms) /\ Cardinality(doms) >= 2 /\ w \in [doms -> Nat]
          /\ FittedRows \in [doms \X doms -> Nat]
          /\ 1 \in Nat /\ D - 1 \in Nat /\ D - 2 \in Nat
      BY <1>1, <1>2, <1>6
    <2> DEFINE k == (D - 1)
               l == (D - 2)
    <2>7. Weighs(FittedRows, doms, w, k, l)
      BY <2>2, <2>3, <2>6 DEF Weighs
    <2> HIDE DEF k, l
    <2>8. SumOf(FittedRows) = (k + l * (Cardinality(doms) - 2))
                             * ((Cardinality(doms) - 1) * SumOver(w, doms))
      BY <2>7, RequestsWeighed
    <2> QED BY <1>1, <2>8 DEF k, l
  <1>12. SumOf(ReplayedRows) = (1 + 1 * (D - 2)) * ((D - 1) * n)
    <2>1. \A a, b \in doms : ReplayedRows[<<a, b>>] = SumOver(w, TrainedOn(<<a, b>>))
      BY <1>3, <1>7 DEF ReplayedRows
    <2>2. \A s \in SUBSET doms : SumOver(w, s) \in Nat
      BY <1>1, RemovalCounted
    <2>3. \A s \in SUBSET doms : SumOver(w, s) = 1 * SumOver(w, s)
      BY <2>2
    <2>4. \A a \in doms : ReplayedRows[<<a, a>>] = 1 * SumOver(w, doms \ {a})
      BY <1>4, <2>1, <2>3
    <2>5. \A a, b \in doms : a # b => ReplayedRows[<<a, b>>] = 1 * SumOver(w, doms \ {a, b})
      BY <1>5, <2>1, <2>3
    <2>6. /\ IsFiniteSet(doms) /\ Cardinality(doms) >= 2 /\ w \in [doms -> Nat]
          /\ ReplayedRows \in [doms \X doms -> Nat]
          /\ 1 \in Nat /\ D - 1 \in Nat /\ D - 2 \in Nat
      BY <1>1, <1>2, <1>6
    <2> DEFINE k == 1
               l == 1
    <2>7. Weighs(ReplayedRows, doms, w, k, l)
      BY <2>4, <2>5, <2>6 DEF Weighs
    <2> HIDE DEF k, l
    <2>8. SumOf(ReplayedRows) = (k + l * (Cardinality(doms) - 2))
                             * ((Cardinality(doms) - 1) * SumOver(w, doms))
      BY <2>7, RequestsWeighed
    <2> QED BY <1>1, <2>8 DEF k, l
  <1>13. SumOf(AnsweredRows) = D * n
    <2>1. \A a, b \in doms : AnsweredRows[<<a, b>>] = w[b]
      BY <1>3 DEF AnsweredRows, w
    <2>2. SumOf(AnsweredRows) = SumOf([a \in doms |-> SumOf([b \in doms |-> AnsweredRows[<<a, b>>]])])
      BY <1>1, <1>2, FoldByFold
    <2>3. \A a \in doms : [b \in doms |-> AnsweredRows[<<a, b>>]] = [b \in doms |-> w[b]]
      BY <2>1
    <2>4. \A a \in doms : SumOf([b \in doms |-> AnsweredRows[<<a, b>>]]) = n
      BY <1>1, <2>3 DEF SumOver
    <2>5. [a \in doms |-> SumOf([b \in doms |-> AnsweredRows[<<a, b>>]])] = [a \in doms |-> n]
      BY <2>4
    <2>6. SumOf([a \in doms |-> n]) = D * n
      BY <1>1, SumOfConstant
    <2> QED BY <2>2, <2>5, <2>6
  <1>14. SumOf(OtherRows) = (D - 1) * n
    <2>1. OtherRows = [a \in doms |-> SumOver(w, doms \ {a})]
      BY <1>7 DEF OtherRows
    <2>2. SumOf([a \in doms |-> SumOver(w, doms \ {a})]) = (Cardinality(doms) - 1) * SumOver(w, doms)
      BY <1>1, OthersCounted
    <2> QED BY <1>1, <2>1, <2>2
  <1> QED BY <1>9, <1>10, <1>11, <1>12, <1>13, <1>14

(* The loops of an evaluation that ended have asked for everything. *)
LEMMA EverythingAsked ==
    ASSUME RInv, pc = "done"
    PROVE  /\ Len(input.rows) >= 4 /\ Asked = Requests /\ Answered = Requests /\ Tuned = doms
           /\ \A f \in [Requests -> Nat] : SumOver(f, Requests) = SumOf(f)
           /\ SumOver(OtherRows, doms) = SumOf(OtherRows)
  <1>1. Len(input.rows) >= 4
    BY DEF RInv, ShapeInv, Serving, FirstFit
  <1>2. Asked = Requests /\ Answered = Requests /\ Tuned = doms
    BY DEF Asked, Answered, Tuned
  <1>3. IsFiniteSet(Requests) /\ IsFiniteSet(doms) /\ OtherRows \in [doms -> Nat]
    BY WorkBasics DEF RInv
  <1> QED BY <1>1, <1>2, <1>3, SumsOver

LEMMA ReportsFollow ==
    ASSUME RInv, WorkInv, pc = "done"
    PROVE  work.reportRows = PipelineEstimate(input).reportRows
  <1> DEFINE D == Len(input.rows)
             n == RowCount(input, doms)
  <1>1. work.reportRows = SumOf(OtherRows) + n
    BY EverythingAsked DEF WorkInv, ReportWork
  <1>2. IInv /\ Len(input.rows) >= 4
    BY EverythingAsked DEF RInv
  <1>3. D \in Nat /\ n \in Nat /\ Cardinality(doms) = D
    BY <1>2, RequestShapes
  <1>4. SumOf(OtherRows) = (D - 1) * n
    BY <1>2, RequestTotals
  <1>5. PipelineEstimate(input).reportRows = D * n
    BY <1>3 DEF PipelineEstimate, doms
  <1> HIDE DEF D, n
  <1>6. (D - 1) * n + n = D * n
    BY <1>3, ClosedForms
  <1> QED BY <1>1, <1>4, <1>5, <1>6

LEMMA OnDemandFollows ==
    ASSUME RInv, WorkInv, pc = "done", trainer = "bilinear"
    PROVE  \A f \in {"calibratedFits", "baseFits", "trainingRows", "rawRows"} :
              work[f] = Estimate(input)[f]
  <1> DEFINE D == Len(input.rows)
             n == RowCount(input, doms)
  <1>1. IInv /\ Len(input.rows) >= 4
    BY EverythingAsked DEF RInv
  <1>2. /\ Ones \in [Requests -> Nat] /\ BaseFits \in [Requests -> Nat]
        /\ FittedRows \in [Requests -> Nat] /\ ReplayedRows \in [Requests -> Nat]
        /\ AnsweredRows \in [Requests -> Nat]
    BY <1>1, WorkBasics
  <1>3. /\ work.calibratedFits = SumOf(Ones) /\ work.baseFits = SumOf(BaseFits)
        /\ work.trainingRows = SumOf(FittedRows)
        /\ work.rawRows = SumOf(ReplayedRows) + SumOf(AnsweredRows)
    BY <1>2, EverythingAsked DEF WorkInv, FitWork
  <1>4. D \in Nat /\ n \in Nat
    BY <1>1, RequestShapes
  <1>5. /\ SumOf(Ones) = D * (1 + 1 * (D - 1))
        /\ SumOf(BaseFits) = D * (D + (D - 1) * (D - 1))
        /\ SumOf(FittedRows) = ((D - 1) + (D - 2) * (D - 2)) * ((D - 1) * n)
        /\ SumOf(ReplayedRows) = (1 + 1 * (D - 2)) * ((D - 1) * n)
        /\ SumOf(AnsweredRows) = D * n
    BY <1>1, RequestTotals
  <1>6. /\ Estimate(input).calibratedFits = D * D
        /\ Estimate(input).baseFits = D * ((D - 1) * (D - 1) + D)
        /\ Estimate(input).trainingRows = n * (D - 1) * ((D - 2) * (D - 2) + (D - 1))
        /\ Estimate(input).rawRows = n * (D * (D - 1) + 1)
    BY DEF Estimate, doms
  <1> HIDE DEF D, n
  <1>7. /\ D * (1 + 1 * (D - 1)) = D * D
        /\ D * (D + (D - 1) * (D - 1)) = D * ((D - 1) * (D - 1) + D)
        /\ ((D - 1) + (D - 2) * (D - 2)) * ((D - 1) * n)
              = n * (D - 1) * ((D - 2) * (D - 2) + (D - 1))
        /\ (1 + 1 * (D - 2)) * ((D - 1) * n) + D * n = n * (D * (D - 1) + 1)
    BY <1>4, ClosedForms
  <1>8. work.calibratedFits = Estimate(input).calibratedFits
    BY <1>3, <1>5, <1>6, <1>7, Zenon
  <1>9. work.baseFits = Estimate(input).baseFits
    BY <1>3, <1>5, <1>6, <1>7, Zenon
  <1>10. work.trainingRows = Estimate(input).trainingRows
    BY <1>3, <1>5, <1>6, <1>7, Zenon
  <1>11. work.rawRows = Estimate(input).rawRows
    BY <1>3, <1>5, <1>6, <1>7, Zenon
  <1> QED BY <1>8, <1>9, <1>10, <1>11

(* What is read of the blocks and the targets, in the planner's terms. *)
LEMMA ReadsCounted ==
    ASSUME IInv
    PROVE  /\ Weigh(input.rows, CalibrationReads(doms)) = SumOf(JoinedRows)
           /\ Weigh(input.rows, CalibratedBlocks(doms))
                 = SumOf([s \in CalibratedSubsets(doms) |-> RowCount(input, doms \ s)])
           /\ SumOf(Touched) = PipelineEstimate(input).rawReads
           /\ PipelineEstimate(input).rawReads
                 = SumOf(JoinedRows)
                   + SumOf([s \in CalibratedSubsets(doms) |-> RowCount(input, doms \ s)])
           /\ PipelineEstimate(input).targetReads = RowCount(input, doms) + SumOf(JoinedRows)
           /\ SumOver(JoinedRows, CalibratedSubsets(doms)) = SumOf(JoinedRows)
           /\ SumOver(Touched, CalibratedSubsets(doms)) = SumOf(Touched)
  <1> DEFINE w == input.rows
             C == CalibratedSubsets(doms)
             E == [s \in C |-> RowCount(input, doms \ s)]
  <1>1. /\ IsFiniteSet(doms) /\ w \in [doms -> Nat] /\ IsFiniteSet(C)
        /\ \A s : RowCount(input, s) = SumOver(w, s)
        /\ \A s \in SUBSET doms : RowCount(input, s) \in Nat
        /\ JoinedRows \in [C -> Nat] /\ Touched \in [C -> Nat] /\ RowCount(input, doms) \in Nat
    BY WorkBasics
  <1>2. JoinedRows = [s \in C |-> RowCount(input, s)]
    BY DEF JoinedRows
  <1>3. E \in [C -> Nat]
    BY <1>1
  <1>4. Weigh(w, CalibrationReads(doms)) = SumOf(JoinedRows)
    <2>1. Weigh(w, CalibrationReads(doms)) = SumOf([s \in C |-> SumOver(w, s)])
      BY <1>1, CalibrationsWeighed
    <2>2. [s \in C |-> SumOver(w, s)] = [s \in C |-> RowCount(input, s)]
      BY <1>1
    <2> QED BY <1>2, <2>1, <2>2
  <1>5. Weigh(w, CalibratedBlocks(doms)) = SumOf(E)
    <2>1. Weigh(w, CalibratedBlocks(doms)) = SumOf([s \in C |-> SumOver(w, doms \ s)])
      BY <1>1, CalibratedWeighed
    <2>2. [s \in C |-> SumOver(w, doms \ s)] = [s \in C |-> RowCount(input, doms \ s)]
      BY <1>1
    <2> QED BY <2>1, <2>2
  <1>6. /\ PipelineEstimate(input).rawReads = SumOf(JoinedRows) + SumOf(E)
        /\ PipelineEstimate(input).targetReads = SumOf(JoinedRows) + RowCount(input, doms)
    BY <1>2 DEF PipelineEstimate, doms
  <1> HIDE DEF C, E, w
  <1>7. SumOf(JoinedRows) \in Nat
    BY <1>1, NumbersAreNat
  <1>8. SumOf(Touched) = SumOf(JoinedRows) + SumOf(E)
    <2>1. /\ DOMAIN JoinedRows = C /\ NatValued(JoinedRows) /\ JoinedRows = [s \in C |-> JoinedRows[s]]
          /\ DOMAIN E = C /\ NatValued(E) /\ E = [s \in C |-> E[s]]
      BY <1>1, <1>3, NumbersAreNat
    <2>2. SumOf([s \in C |-> JoinedRows[s] + E[s]])
             = SumOf([s \in C |-> JoinedRows[s]]) + SumOf([s \in C |-> E[s]])
      BY <1>1, <2>1, SumOfSums
    <2>3. Touched = [s \in C |-> JoinedRows[s] + E[s]]
      BY DEF Touched, JoinedRows, E, C
    <2>4. SumOf([s \in C |-> JoinedRows[s]]) = SumOf(JoinedRows) /\ SumOf([s \in C |-> E[s]]) = SumOf(E)
      BY <2>1, Zenon
    <2> QED BY <2>2, <2>3, <2>4
  <1>9. SumOver(JoinedRows, C) = SumOf(JoinedRows) /\ SumOver(Touched, C) = SumOf(Touched)
    BY <1>1, SumsOver
  <1>10. PipelineEstimate(input).targetReads = RowCount(input, doms) + SumOf(JoinedRows)
    BY <1>1, <1>6, <1>7
  <1> QED BY <1>4, <1>5, <1>6, <1>8, <1>9, <1>10 DEF w, C, E

LEMMA PreparedFollows ==
    ASSUME RInv, WorkInv, pc = "done", trainer # "bilinear"
    PROVE  /\ work.baseFits = Estimate(input).subsets
           /\ work.memberships = Estimate(input).memberships
           /\ work.rawReads = PipelineEstimate(input).rawReads
           /\ work.targetReads = PipelineEstimate(input).targetReads
           /\ work.read = ScoreBlocks(doms)
           /\ Cardinality(work.read) = Estimate(input).blocks
  <1> DEFINE D == Len(input.rows)
             n == RowCount(input, doms)
             w == input.rows
  <1>1. /\ IsFiniteSet(doms) /\ w \in [doms -> Nat] /\ Cardinality(doms) = D /\ D \in Nat
        /\ n = SumOver(w, doms) /\ n \in Nat /\ IInv
    BY RequestShapes DEF RInv
  <1>2. /\ Estimate(input).subsets = Triples(D) + Pairs(D) + D
        /\ Estimate(input).blocks = 3 * Triples(D) + 2 * Pairs(D) + D
        /\ Estimate(input).memberships = n * (Pairs(D) + 1)
    BY DEF Estimate, doms
  <1>3. /\ work.baseFits = Cardinality(TrainingSubsets(doms))
        /\ work.memberships = Weigh(w, ScoreBlocks(doms))
    BY DEF WorkInv, PlanWork
  <1>4. work.baseFits = Estimate(input).subsets
    BY <1>1, <1>2, <1>3, TrainingSubsetsCounted
  <1>5. work.memberships = Estimate(input).memberships
    <2> HIDE DEF w, n, D
    <2>1. DOMAIN w = doms /\ NatValued(w)
      BY <1>1, NumbersAreNat
    <2>2. SumOf([b \in ScoreBlocks(doms) |-> w[b[2]]])
             = (Pairs(Cardinality(doms)) + 1) * SumOf([d \in doms |-> w[d]])
      BY <1>1, <2>1, BlocksWeighed
    <2>3. work.memberships = (Pairs(D) + 1) * n
      BY <1>1, <1>3, <2>2 DEF Weigh, SumOver
    <2>4. Pairs(D) \in Nat
      BY <1>1, PairsAndTriples
    <2>5. (Pairs(D) + 1) * n = n * (Pairs(D) + 1)
      BY <1>1, <2>4
    <2> QED BY <1>2, <2>3, <2>5
  <1>6. /\ work.rawReads = PipelineEstimate(input).rawReads
        /\ work.targetReads = PipelineEstimate(input).targetReads
        /\ work.read = ScoreBlocks(doms)
    <2>1. CASE trainer = "native"
      <3>1. /\ work.targetReads = n + SumOf(JoinedRows)
            /\ work.rawReads = Weigh(w, CalibrationReads(doms)) + Weigh(w, CalibratedBlocks(doms))
            /\ work.read = CalibrationReads(doms) \cup CalibratedBlocks(doms)
        BY <2>1 DEF WorkInv, NativeWork, Mapped, Serving
      <3> QED BY <1>1, <3>1, ReadsCounted, EveryBlockIsRead
    <2>2. CASE trainer = "reference"
      <3>1. /\ Cache = CalibratedSubsets(doms)
            /\ work.targetReads = n + SumOver(JoinedRows, Cache)
            /\ work.rawReads = SumOver(Touched, Cache)
            /\ work.read = UNION {CalibrationBlocks(s) \cup DestinationBlocks(doms, s) : s \in Cache}
        BY <2>2 DEF WorkInv, CacheWork, Serving
      <3> QED BY <1>1, <3>1, ReadsCounted, EveryBlockIsRead
    <2>3. trainer \in {"native", "reference"}
      BY TrainersAssumption DEF RInv, IInv, TypeOK
    <2> QED BY <2>1, <2>2, <2>3
  <1>7. Cardinality(work.read) = Estimate(input).blocks
    BY <1>1, <1>2, <1>6, BlocksCounted
  <1> QED BY <1>4, <1>5, <1>6, <1>7

LEMMA WorkFollows == ASSUME RInv, WorkInv PROVE WorkIsAsPlanned
  <1>1. refused # {} => work.calibratedFits = 0 /\ work.rawReads = 0
    <2> SUFFICES ASSUME refused # {} PROVE work.calibratedFits = 0 /\ work.rawReads = 0
      OBVIOUS
    <2>1. pc \in {"prepare", "preflight", "raised"}
      BY DEF RInv, IInv, TypeOK, ShapeInv, Serving
    <2> QED BY <2>1 DEF WorkInv, PlanWork
  <1>2. pc = "done" => work.reportRows = PipelineEstimate(input).reportRows
    BY ReportsFollow
  <1>3. pc = "done" /\ trainer = "bilinear" =>
           \A f \in {"calibratedFits", "baseFits", "trainingRows", "rawRows"} :
              work[f] = Estimate(input)[f]
    BY OnDemandFollows
  <1>4. pc = "done" /\ trainer # "bilinear" =>
           /\ work.baseFits = Estimate(input).subsets
           /\ work.memberships = Estimate(input).memberships
           /\ work.rawReads = PipelineEstimate(input).rawReads
           /\ work.targetReads = PipelineEstimate(input).targetReads
           /\ work.read = ScoreBlocks(doms)
           /\ Cardinality(work.read) = Estimate(input).blocks
    BY PreparedFollows
  <1> QED BY <1>1, <1>2, <1>3, <1>4 DEF WorkIsAsPlanned

(* Whichever trainer serves it, an evaluation of any number of domains that *)
(* finishes has done exactly the work its planner announced in closed form: *)
(* the fits and the rows they were given, the targets and score blocks it   *)
(* read, every block of the plan among them, and the rows it reported on;   *)
(* and one that the preflight refuses has calibrated and read nothing.      *)
THEOREM NestedWorkAsPlanned == Spec => []WorkIsAsPlanned
  <1>1. Init => RInv /\ WorkInv
    BY InitRefines, InitWorks
  <1>2. RInv /\ WorkInv /\ [Next]_vars => RInv' /\ WorkInv'
    <2>1. RInv /\ WorkInv /\ Step => RInv'
      BY PrepareRefines, PreflightRefines, NativeRefines, TrainBilinearRefines,
         TrainReferenceRefines, TrainNativeRefines, PredictInnerRefines, TuneRefines,
         PredictOuterRefines, ReplayRefines DEF Step
    <2>2. RInv /\ WorkInv /\ Step => WorkInv'
      BY PrepareWorks, PreflightWorks, CalibrateAllWorks, ApplyAllWorks, RehashWorks,
         TrainBilinearWorks, TrainReferenceWorks, TrainNativeWorks, PredictInnerWorks,
         TuneWorks, PredictOuterWorks, ReplayWorks DEF Step
    <2>3. WorkInv /\ (Alter \/ UNCHANGED vars) => WorkInv'
      BY QuietWorks DEF Alter, vars, graphVars, foldVars
    <2> QED BY <2>1, <2>2, <2>3, AlterRefines, StutteringRefines DEF Next
  <1>3. RInv /\ WorkInv => WorkIsAsPlanned
    BY WorkFollows
  <1> QED BY <1>1, <1>2, <1>3, PTL DEF Spec
=============================================================================
