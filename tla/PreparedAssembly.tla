-------------------------- MODULE PreparedAssembly ---------------------------
(***************************************************************************)
(* The final predictor of a prepared evaluation: what the assembly checks  *)
(* of the three artifacts it is handed, what it makes of them, and what a  *)
(* saved predictor is checked for when it is parsed                        *)
(* (predictors/prepared_assembly.py and predictors/prepared_artifacts.py). *)
(*                                                                         *)
(* The assembly is handed a store, a statistics bundle and a score bundle, *)
(* with the four digests the caller trusts.  It compares the digests the   *)
(* objects carry, constructs every object again so that the digests are    *)
(* computed from what the objects hold now, and compares again.            *)
(***************************************************************************)
EXTENDS PreparedArtifacts

CONSTANTS
    MaxArtifactScalars,    \* MAX_PREPARED_ARTIFACT_NUMERIC_SCALARS
    MaxCalibratorPoints,   \* MAX_PREDICTOR_CALIBRATOR_POINTS
    MaxAssemblyObjects,    \* MAX_PREPARED_ASSEMBLY_OBJECT_BYTES
    MaxArtifactBytes,      \* MAX_PREDICTOR_ARTIFACT_BYTES
    MaxAssemblyBytes,      \* MAX_PREPARED_ASSEMBLY_MODELED_BYTES
    MaxAssemblyWork,       \* MAX_PREPARED_ASSEMBLY_WORK_UNITS
    KeyBytes(_),           \* the example ids and prompt digests of a store
    NameBytes(_, _)        \* the names a plan and an encoder put in a document

(* 800_000 scalars and 500_000 points in the code. *)
ASSUME AssemblyAssumption ==
    /\ {MaxArtifactScalars, MaxCalibratorPoints, MaxAssemblyObjects, MaxArtifactBytes,
        MaxAssemblyBytes, MaxAssemblyWork} \subseteq Nat
    /\ MaxArtifactScalars <= 2 * MaxCalibratorPoints

-----------------------------------------------------------------------------
(* Preflight: shapes and closed-form costs, before any number is read.      *)

ParentsAreShaped(store, statistics, scores) ==
    LET plan == store.plan
        coefficients == scores.coefficients
    IN /\ statistics.plan = plan
       /\ coefficients.plan = plan
       /\ scores.shards.plan = plan
       /\ StatisticsAreValid(statistics)
       /\ DOMAIN coefficients.blocks = TrainingSubsets(plan.domains)
       /\ \A s \in DOMAIN coefficients.blocks :
             coefficients.blocks[s].plan = plan /\ coefficients.blocks[s].subset = s
       /\ \A d \in plan.domains :
             scores.shards.children[d].plan = plan /\ scores.shards.children[d].domain = d
       /\ DOMAIN scores.blocks = ScoreBlocks(plan.domains)
       /\ \A b \in DOMAIN scores.blocks :
             scores.blocks[b].plan = plan /\ scores.blocks[b].block = b
       /\ StoreBytes(plan) <= MaxNumericBytes
       /\ StatisticScalars(plan) <= MaxStatisticScalars

AllTags(statistics) == TagsOf(statistics.children, statistics.plan.domains)

(* All that the estimates read of the three artifacts. *)
ShapeOf(store, statistics, scores) ==
    [plan |-> store.plan, widths |-> scores.coefficients.widths,
     width |-> ActiveWidth(store.plan, AllTags(statistics)),
     keyBytes |-> KeyBytes(store.prompts), nameBytes |-> NameBytes(store.plan, store.identity)]

(* A plausible slip: the calibrators are forgotten. *)
RetainedScalarsUncalibrated(plan, width) ==
    7 + Cardinality(plan.models) * (width + 1)

(* Means, scales and ridge; one row of weights and an intercept a model;    *)
(* and a calibrator of at most one point a training row.                    *)
RetainedScalars(plan, width) ==
    LET n == RowCount(plan, plan.domains)
        m == Cardinality(plan.models)
    IN 7 + m * (width + 1) + 2 * n * m

(* An estimate of so many objects, and of so many numbers in them. *)
Amplified(objects, numbers) == 64 * objects + 32 * numbers

(* What the interpreter adds to the numbers while all of it is traversed.   *)
ObjectBytes(shape) ==
    LET plan == shape.plan
        w == shape.width
        n == Examples(plan)
        m == Cardinality(plan.models)
        D == Cardinality(plan.domains)
        children == 4 + 2 * D + Cardinality(TrainingSubsets(plan.domains))
                    + Cardinality(ScoreBlocks(plan.domains))
    IN Amplified(children + 4 * n + 4 * n * m + 8 * D + 8 * m, 0)
       + Amplified(5 * D + 1, StatisticScalars(plan))                  \* resnapshot
       + Amplified(12, 3 * MomentCells(plan))                          \* aggregate
       + Amplified(3 * w + 4 * m + 16, 4 * w * w + 4 * m * w + 12 * w + 8 * m)
       + Amplified(8 * n + 12 * n * m + 12 * m + 8 * D, 6 * n * m + m * (w + 1))

(* No document of this shape is longer. *)
DocumentBytes(shape) ==
    LET m == Cardinality(shape.plan.models)
        D == Cardinality(shape.plan.domains)
    IN 6 * shape.nameBytes                                             \* escaped names
       + 64 * (7 + 3 * D + 2 * m)                                      \* digests
       + 32 * (RetainedScalars(shape.plan, shape.width) + 4 * D + 16)  \* numbers
       + 24 * (80 + 8 * m + 8 * D) + 64 * 1024                         \* structure

(* The parents, the final solve, one model's calibration at a time, what is *)
(* kept, and the document with the parser's two copies of it.               *)
StorageBytes(shape) ==
    LET plan == shape.plan
        n == Examples(plan)
        m == Cardinality(plan.models)
        longest == Max({plan.rows[d] : d \in plan.domains})
    IN StoreBytes(plan) + 2 * shape.keyBytes
       + F64 * (StatisticScalars(plan) + CoefficientCells(plan, shape.widths) + ScoreCells(plan)
                + MomentCells(plan) + SolveScalars(plan, shape.width)
                + Max({n * m, 2 * longest * m}) + 4 * n
                + RetainedScalars(plan, shape.width))
       + ObjectBytes(shape) + 3 * DocumentBytes(shape)

BitLength(n) == CHOOSE k \in 0..n : 2^k > n /\ (k = 0 \/ 2^(k - 1) <= n)

AssemblyWork(shape) ==
    LET plan == shape.plan
        w == shape.width
        n == Examples(plan)
        d == plan.width
        m == Cardinality(plan.models)
        resnapshot == 2 * n * (d + m) + n * EmbeddingWidth(plan) + 2 * StatisticScalars(plan)
                      + 2 * CoefficientCells(plan, shape.widths) + 2 * ScoreCells(plan) + n * d
        solve == w * w * w + 2 * m * w * w + m * w
        sortFactor == IF n = 1 THEN 1 ELSE BitLength(n - 1)
    IN resnapshot + StatisticScalars(plan) + solve + m * n * (sortFactor + 16)

(* The limits on assembling a predictor of this shape. *)
AssemblyAffordable(shape) ==
    /\ ObjectBytes(shape) <= MaxAssemblyObjects
    /\ DocumentBytes(shape) <= MaxArtifactBytes
    /\ StorageBytes(shape) <= MaxAssemblyBytes
    /\ AssemblyWork(shape) <= MaxAssemblyWork

(* And the limit on the predictor itself. *)
AssemblyAdmitted(store, statistics, scores) ==
    LET shape == ShapeOf(store, statistics, scores)
    IN /\ RetainedScalars(shape.plan, shape.width) <= MaxArtifactScalars
       /\ AssemblyAffordable(shape)

-----------------------------------------------------------------------------
(* Pins, reconstruction, and the joins between the parents.                 *)

PinsOf(store, statistics, scores) ==
    [fit |-> store.fit, store |-> store.sha256, statistics |-> statistics.sha256,
     scores |-> scores.sha256]

PinsHold(pins, store, statistics, scores) == pins = PinsOf(store, statistics, scores)

FreshStatistics(statistics) ==
    StatisticsBundle([statistics EXCEPT
        !.children = [d \in DOMAIN @ |-> DomainStatistics(@[d])]])

FreshCoefficients(coefficients) ==
    CoefficientBundle([coefficients EXCEPT
        !.blocks = [s \in DOMAIN @ |-> CoefficientBlock(@[s])]])

FreshShards(shards) ==
    FeatureShards([shards EXCEPT !.children = [d \in DOMAIN @ |-> FeatureShard(@[d])]])

FreshScores(scores) ==
    ScoreBundle([scores EXCEPT
        !.coefficients = FreshCoefficients(@),
        !.shards = FreshShards(@),
        !.blocks = [b \in DOMAIN @ |-> ScoreBlock(@[b])]])

(* What the constructors insist on while everything is constructed again.   *)
ConstructorsAccept(store, statistics, scores) ==
    /\ StoreIsValid(store)
    /\ StatisticsAreValid(statistics)
    /\ CoefficientsAreValid(scores.coefficients)
    /\ ScoresAreValid(scores)

(* A plausible slip: the parents need only be laid out alike. *)
ParentsLaidOutAlike(store, statistics, scores) ==
    LET coefficients == scores.coefficients
    IN /\ StatisticsBelong(store, statistics)
       /\ coefficients.plan = store.plan
       /\ coefficients.identity = store.identity
       /\ coefficients.masks = MasksOf(statistics)
       /\ BuildShards(store) = scores.shards

ParentsBelongTogether(store, statistics, scores) ==
    LET coefficients == scores.coefficients
    IN /\ StatisticsBelong(store, statistics)
       /\ CoefficientsBelong(store, coefficients)
       /\ coefficients.statistics = statistics.sha256
       /\ coefficients.masks = MasksOf(statistics)
       /\ scores.shards.identity = store.identity
       /\ BuildShards(store) = scores.shards

(* The block a held-out domain is calibrated with is chosen by meaning: the *)
(* fit on all the other domains, scored on this one.                        *)
Context(plan, d) == <<plan.domains \ {d}, d>>

ContextsJoin(store, scores) ==
    \A d \in store.plan.domains :
        LET b == Context(store.plan, d)
            shard == scores.shards.children[d]
        IN /\ scores.blocks[b].coefficient = scores.coefficients.blocks[b[1]].sha256
           /\ scores.blocks[b].shard = shard.sha256
           /\ shard.prompts = store.prompts[d]

-----------------------------------------------------------------------------
(* The final solve over all domains. *)

AllDomains(aggregate) == IdentifyAll(aggregate, "all_domains")

AllDomainStatistics(store, statistics) ==
    AllDomains([plan |-> store.plan, store |-> store.sha256,
                statistics |-> statistics.sha256, identity |-> store.identity,
                children |-> Digests(statistics.children), tags |-> AllTags(statistics),
                moments |-> Combined(statistics, store.plan.domains),
                sha256 |-> Unhashed])

(* The columns a prediction will read, and how it scales them. *)
SchemaOf(aggregate) ==
    [tags |-> aggregate.tags, identity |-> aggregate.identity,
     scaling |-> aggregate.moments]

FinalCoefficient(coefficient) == IdentifyAll(coefficient, "final_coefficient")

SolveAllDomains(aggregate, ridge) ==
    FinalCoefficient(
        [aggregate |-> aggregate.sha256, ridge |-> ridge,
         schema |-> SchemaOf(aggregate),
         weights |-> [m \in aggregate.plan.models |->
                         [moments |-> aggregate.moments, ridge |-> ridge, model |-> m]],
         intercepts |-> [m \in aggregate.plan.models |->
                            [moments |-> aggregate.moments, ridge |-> ridge, model |-> m]],
         sha256 |-> Unhashed])

-----------------------------------------------------------------------------
(* Calibration: one join of scores and targets for every held-out domain.   *)

TargetShard(store, shard, d) ==
    IdentifyAll([plan |-> store.plan, store |-> store.sha256, domain |-> d,
                 shard |-> shard.sha256, prompts |-> shard.prompts,
                 targets |-> store.targets[d], sha256 |-> Unhashed],
                "targets")

(* The targets of every row of the store, once, behind the shard of the     *)
(* features they belong to.                                                 *)
TargetShards(store, shards) ==
    [d \in store.plan.domains |-> TargetShard(store, shards.children[d], d)]

(* What the lineage keeps of one join. *)
CalibrationSource(context, rows, scores, target) ==
    [context |-> context, rows |-> rows, scores |-> scores.sha256,
     shard |-> target.shard, targets |-> target.sha256]

CalibrationSources(store, scores, shards) ==
    LET targets == TargetShards(store, shards)
    IN [d \in store.plan.domains |->
           LET b == Context(store.plan, d)
           IN CalibrationSource(b, store.plan.rows[d], scores.blocks[b], targets[d])]

SourceRows(sources) == Total([d \in DOMAIN sources |-> sources[d].rows])

JoinedPairs(store, scores, m) ==
    [d \in store.plan.domains |->
        [score |-> scores.blocks[Context(store.plan, d)].scores, model |-> m,
         target |-> store.targets[d][m]]]

CalibrationInput(m, sources, pairs) ==
    Sha256("calibration_input", [model |-> m, sources |-> sources, pairs |-> pairs])

CalibratorIdentity(calibrator) ==
    Sha256("calibrator", [input |-> calibrator.input, fitted |-> calibrator.fitted,
                          points |-> calibrator.points])

CalibrationIsValid(calibrator, sources) == calibrator.points <= SourceRows(sources)

FitCalibrator(m, sources, pairs, points) ==
    LET fitted == [input |-> CalibrationInput(m, sources, pairs), fitted |-> pairs,
                   points |-> points, identity |-> Unhashed]
    IN [fitted EXCEPT !.identity = CalibratorIdentity(fitted)]

-----------------------------------------------------------------------------
(* The predictor. *)

ModelState(weights, bias, calibrator) ==
    [weights |-> weights, bias |-> bias, calibrator |-> calibrator]

(* The roots that the predictor keeps of everything it was made from. *)
Lineage(pins, snapshot, aggregate, final, sources) ==
    [fit |-> pins.fit, store |-> pins.store, statistics |-> pins.statistics,
     scores |-> pins.scores, snapshot |-> snapshot, aggregate |-> aggregate.sha256,
     final |-> final.sha256, sources |-> sources]

Assembled(store, statistics, scores, points) ==
    LET shards == BuildShards(store)
        aggregate == AllDomainStatistics(store, statistics)
        final == SolveAllDomains(aggregate, scores.coefficients.ridge)
        sources == CalibrationSources(store, scores, shards)
    IN [schema |-> final.schema,
        models |-> [m \in store.plan.models |->
                       ModelState(final.weights[m], final.intercepts[m],
                                  FitCalibrator(m, sources, JoinedPairs(store, scores, m),
                                                points))],
        domains |-> store.plan.domains, examples |-> RowCount(store.plan, store.plan.domains),
        width |-> ActiveWidth(store.plan, AllTags(statistics)), ridge |-> final.ridge,
        lineage |-> Lineage(PinsOf(store, statistics, scores), store.snapshot,
                            aggregate, final, sources)]

NumericScalars(artifact) ==
    7 + SumOf([m \in DOMAIN artifact.models |->
                  artifact.width + 1 + 2 * artifact.models[m].calibrator.points])

ArtifactFits(artifact) ==
    /\ NumericScalars(artifact) <= MaxArtifactScalars
    /\ artifact.examples <= MaxCalibratorPoints

(* The context of a source is the one its held-out domain has in the graph  *)
(* derived again from the domains and rows of the sources.                  *)
SourcesAreSemantic(artifact) ==
    LET sources == artifact.lineage.sources
    IN /\ DOMAIN sources = artifact.domains
       /\ \A d \in artifact.domains : sources[d].context = Context(artifact, d)

(* A plausible slip: the digest of the final coefficient is taken on trust. *)
ArtifactIsValidTrusting(artifact) ==
    /\ SourcesAreSemantic(artifact)
    /\ artifact.examples = SourceRows(artifact.lineage.sources)
    /\ \A m \in DOMAIN artifact.models :
          CalibrationIsValid(artifact.models[m].calibrator, artifact.lineage.sources)

(* The constructor of the artifact.  It derives the digest of the final     *)
(* coefficient from the weights themselves.                                 *)
ArtifactIsValid(artifact) ==
    LET final == FinalCoefficient(
                    [aggregate |-> artifact.lineage.aggregate, ridge |-> artifact.ridge,
                     schema |-> artifact.schema,
                     weights |-> [m \in DOMAIN artifact.models |-> artifact.models[m].weights],
                     intercepts |-> [m \in DOMAIN artifact.models |-> artifact.models[m].bias],
                     sha256 |-> Unhashed])
    IN /\ SourcesAreSemantic(artifact)
       /\ artifact.examples = SourceRows(artifact.lineage.sources)
       /\ \A m \in DOMAIN artifact.models :
             CalibrationIsValid(artifact.models[m].calibrator, artifact.lineage.sources)
       /\ final.sha256 = artifact.lineage.final

(* Parsing constructs the calibrators and the artifact again from the       *)
(* document and compares the identities the document carries.               *)
ParseAccepts(document) ==
    /\ \A m \in DOMAIN document.models :
          document.models[m].calibrator.identity
              = CalibratorIdentity(document.models[m].calibrator)
    /\ ArtifactFits(document)
    /\ ArtifactIsValid(document)
=============================================================================
