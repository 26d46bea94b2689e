-------------------------- MODULE PreparedArtifacts --------------------------
(***************************************************************************)
(* The artifacts of a prepared evaluation, from the pinned source rows to  *)
(* the out-of-fold scores: what each one is made of, what its constructor  *)
(* insists on, and which of its parts its SHA-256 names                    *)
(* (predictors/prepared_store.py and predictors/prepared_execution.py).    *)
(*                                                                         *)
(* A digest is the record of what was hashed: the writer frames every      *)
(* token, so two digests are equal exactly when the hashed contents are.   *)
(* A moment, a weight or a score is the term that says what it was         *)
(* computed from; the rows of one domain are one value.                    *)
(***************************************************************************)
EXTENDS PreparedGraph

CONSTANTS
    Unhashed,             \* the digest of an artifact before it is constructed
    NoEncoder,            \* the identity, snapshot and vectors of a surface-only source
    Catalogue,            \* SURFACE_DOMAIN_TAG_CATALOGUE
    MaxNumericBytes,      \* MAX_PREPARED_REFERENCE_NUMERIC_BYTES
    MaxStatisticScalars,  \* MAX_PREPARED_REFERENCE_STATISTIC_SCALARS
    MaxStatisticWork,     \* MAX_PREPARED_REFERENCE_STATISTIC_WORK_UNITS
    MaxExecutionWork,     \* MAX_PREPARED_REFERENCE_EXECUTION_WORK_UNITS
    MaxExecutionBytes     \* MAX_PREPARED_REFERENCE_EXECUTION_NUMERIC_BYTES

ASSUME ArtifactAssumption ==
    /\ {MaxNumericBytes, MaxStatisticScalars, MaxStatisticWork, MaxExecutionWork,
        MaxExecutionBytes} \subseteq Nat
    /\ IsFiniteSet(Catalogue)

Sha256(kind, content) == [kind |-> kind, of |-> content]

(* The last assignment of a constructor: the digest of what it was given. *)
Identify(artifact, kind, content) == [artifact EXCEPT !.sha256 = Sha256(kind, content)]

Without(artifact, fields) == [f \in DOMAIN artifact \ fields |-> artifact[f]]

(* An artifact whose digest names all of its other fields. *)
IdentifyAll(artifact, kind) == Identify(artifact, kind, Without(artifact, {"sha256"}))

Digests(children) == [c \in DOMAIN children |-> children[c].sha256]

-----------------------------------------------------------------------------
(* Source rows, embedding snapshot and feature store. *)

FixedWidth == 5           \* three continuous and two binary surface columns

(* What every artifact repeats of the plan it was made for. *)
Plan(source) ==
    [domains |-> Domains(source), rows |-> source.rows, models |-> source.models,
     width |-> FixedWidth + Cardinality(Catalogue) + source.embeddingWidth]

Examples(plan) == RowCount(plan, plan.domains)

EmbeddingWidth(plan) == plan.width - FixedWidth - Cardinality(Catalogue)

(* A surface-only source has no encoder, and so no snapshot to name. *)
SnapshotDigest(identity, prompts, vectors) ==
    IF identity = NoEncoder THEN NoEncoder
    ELSE Sha256("snapshot", [identity |-> identity, prompts |-> prompts, vectors |-> vectors])

(* The embeddings of the source rows, in the order of their ids. *)
BuildSnapshot(source) ==
    SnapshotDigest(source.identity, source.prompts, source.embeddings)

(* What a fit reads of its rows: not their costs. *)
SourceFit(source) ==
    Sha256("source_fit", [plan |-> Plan(source), prompts |-> source.prompts,
                          targets |-> source.targets])

StoredFeatures(source) ==
    [d \in Domains(source) |-> [surface |-> source.prompts[d], tags |-> source.tags[d],
                                vector |-> source.embeddings[d]]]

F64 == 8

(* The features and targets of every row. *)
StoreBytes(plan) == F64 * (Examples(plan) * (plan.width + Cardinality(plan.models)))

(* While a store is built its snapshot is held beside it. *)
StoreAdmitted(plan) ==
    StoreBytes(plan) + F64 * (Examples(plan) * EmbeddingWidth(plan)) <= MaxNumericBytes

(* The embedding columns must hash back to the snapshot they came from. *)
StoreIsValid(store) ==
    /\ StoreBytes(store.plan) <= MaxNumericBytes
    /\ DOMAIN store.features = store.plan.domains
    /\ DOMAIN store.targets = store.plan.domains
    /\ store.snapshot = SnapshotDigest(store.identity, store.prompts,
                           [d \in store.plan.domains |-> store.features[d].vector])

FeatureStore(store) == IdentifyAll(store, "store")

BuildStore(source) ==
    FeatureStore([plan |-> Plan(source), identity |-> source.identity,
                  snapshot |-> BuildSnapshot(source), fit |-> SourceFit(source),
                  prompts |-> source.prompts, features |-> StoredFeatures(source),
                  targets |-> source.targets, sha256 |-> Unhashed])

-----------------------------------------------------------------------------
(* Moments of one domain, their bundle, and their combination for a subset. *)

DomainContent(store, d) ==
    Sha256("domain_content",
           [domain |-> d, width |-> store.plan.width, models |-> store.plan.models,
            identity |-> store.identity, prompts |-> store.prompts[d],
            features |-> store.features[d], targets |-> store.targets[d]])

(* Welford's update over the rows of one domain: of all its features and    *)
(* targets, and of nothing else.                                            *)
Moments(store, d) == [x |-> store.features[d], y |-> store.targets[d]]

(* The means, the packed upper triangle and the cross products of a domain. *)
MomentCells(plan) ==
    LET d == plan.width
        t == Cardinality(plan.models)
    IN d + t + (d * (d + 1)) \div 2 + d * t

StatisticScalars(plan) == Cardinality(plan.domains) * MomentCells(plan)

(* Three linear passes over a row before its quadratic products. *)
StatisticsAdmitted(plan) ==
    /\ StatisticScalars(plan) <= MaxStatisticScalars
    /\ Examples(plan) * (MomentCells(plan) + 2 * (plan.width + Cardinality(plan.models)))
           <= MaxStatisticWork

DomainStatistics(child) == IdentifyAll(child, "domain_statistics")

StatisticsAreValid(statistics) ==
    /\ StatisticScalars(statistics.plan) <= MaxStatisticScalars
    /\ DOMAIN statistics.children = statistics.plan.domains
    /\ \A d \in statistics.plan.domains :
          /\ statistics.children[d].domain = d
          /\ statistics.children[d].rows = statistics.plan.rows[d]

StatisticsBundle(statistics) ==
    Identify(statistics, "statistics",
             [plan |-> statistics.plan, store |-> statistics.store,
              identity |-> statistics.identity, children |-> Digests(statistics.children)])

BuildStatistics(store) ==
    StatisticsBundle(
        [plan |-> store.plan, store |-> store.sha256, identity |-> store.identity,
         children |->
            [d \in store.plan.domains |->
                DomainStatistics([domain |-> d, rows |-> store.plan.rows[d],
                                  tags |-> store.features[d].tags,
                                  content |-> DomainContent(store, d),
                                  moments |-> Moments(store, d),
                                  sha256 |-> Unhashed])],
         sha256 |-> Unhashed])

TagsOf(children, s) == UNION {children[d].tags : d \in s}

IncludedContent(statistics, s) ==
    Sha256("subset_content", [d \in s |-> statistics.children[d].content])

(* Chan's combination, one domain after another: the term of their moments. *)
Combined(statistics, s) == [d \in s |-> statistics.children[d].moments]

SubsetAggregate(aggregate) == IdentifyAll(aggregate, "subset_statistics")

(* A plausible slip: the moments of the whole bundle are combined. *)
SubsetStatisticsOfAll(statistics, s) ==
    SubsetAggregate([plan |-> statistics.plan, subset |-> s,
                     identity |-> statistics.identity,
                     tags |-> TagsOf(statistics.children, s),
                     included |-> IncludedContent(statistics, s),
                     moments |-> Combined(statistics, statistics.plan.domains),
                     sha256 |-> Unhashed])

(* Only the subset's own domains: neither the moments, nor the tags that    *)
(* choose the columns, nor the digest of the content look at the others.    *)
SubsetStatistics(statistics, s) ==
    SubsetAggregate([plan |-> statistics.plan, subset |-> s,
                     identity |-> statistics.identity,
                     tags |-> TagsOf(statistics.children, s),
                     included |-> IncludedContent(statistics, s),
                     moments |-> Combined(statistics, s), sha256 |-> Unhashed])

-----------------------------------------------------------------------------
(* One ridge solution for every training subset. *)

ActiveWidth(plan, tags) ==
    plan.width - Cardinality(Catalogue) + Cardinality(tags)

CoefficientCells(plan, width) ==
    SumOf([s \in TrainingSubsets(plan.domains) |-> Cardinality(plan.models) * (width[s] + 1)])

ScoreCells(plan) ==
    SumOf([b \in ScoreBlocks(plan.domains) |-> plan.rows[b[2]] * Cardinality(plan.models)])

(* The matrices a solve of so many columns works in. *)
SolveScalars(plan, w) ==
    2 * w * w + 2 * Cardinality(plan.models) * w + 2 * w + 3 * Cardinality(plan.models)

(* What solving every subset and scoring every block takes, from the plan   *)
(* and the active widths alone.  Its last term, hashing the features of     *)
(* every shard, has the same limit for itself when the shards are built.    *)
ExecutionWork(plan, width) ==
    LET d == plan.width
        t == Cardinality(plan.models)
        n == Examples(plan)
        SubsetWork(s) ==
            LET w == width[s]
            IN Cardinality(s) * MomentCells(plan)              \* combination
               + 3 * MomentCells(plan)                         \* copy, validate, hash
               + (w * (w + 1)) \div 2 + w * t                  \* moment transform
               + 3 * w                                         \* coordinates
               + w * w * w + 2 * t * w * w + t * w             \* solve
               + 4 * t * (w + 1)                               \* coefficient payload
        BlockWork(b) ==
            LET w == width[b[1]]
                rows == plan.rows[b[2]]
            IN n                                               \* row selection
               + rows * t * w                                  \* dot products
               + rows * (d + w + t * w + 3 * t)                \* decode, encode
               + 2 * rows * t                                  \* score payload
    IN SumOf([s \in TrainingSubsets(plan.domains) |-> SubsetWork(s)])
       + SumOf([b \in ScoreBlocks(plan.domains) |-> BlockWork(b)]) + n * d

(* The numbers that are held when every block is there and one is copied. *)
ExecutionBytes(plan, width) ==
    LET t == Cardinality(plan.models)
        copied == {t * (width[s] + 1) : s \in TrainingSubsets(plan.domains)}
                  \cup {t * plan.rows[d] : d \in plan.domains} \cup {plan.width}
    IN StoreBytes(plan)
       + F64 * (Cardinality(plan.domains) + StatisticScalars(plan)
                + CoefficientCells(plan, width) + ScoreCells(plan)
                + SolveScalars(plan, plan.width) + MomentCells(plan)
                + SumOf(width) + Max(copied))

ActiveWidths(plan, tags) ==
    [s \in TrainingSubsets(plan.domains) |->
        ActiveWidth(plan, UNION {tags[d] : d \in s})]

CoefficientBlock(block) == IdentifyAll(block, "coefficient")

(* The solution is a function of the moments and the ridge; a subset whose  *)
(* residual is too large is refused, which leaves everything as it was.     *)
SolveSubset(statistics, s, ridge) ==
    LET subset == SubsetStatistics(statistics, s)
    IN CoefficientBlock([plan |-> statistics.plan, subset |-> s, tags |-> subset.tags,
                         identity |-> subset.identity, statistics |-> subset.sha256,
                         included |-> subset.included, ridge |-> ridge,
                         weights |-> [moments |-> subset.moments, ridge |-> ridge],
                         sha256 |-> Unhashed])

(* Statistics are combined with the store they name, and with no other. *)
StatisticsBelong(store, statistics) ==
    /\ statistics.plan = store.plan
    /\ statistics.store = store.sha256
    /\ statistics.identity = store.identity

MasksOf(statistics) ==
    [d \in statistics.plan.domains |-> statistics.children[d].tags]

CoefficientsAreValid(coefficients) ==
    LET plan == coefficients.plan
    IN /\ DOMAIN coefficients.blocks = TrainingSubsets(plan.domains)
       /\ coefficients.widths = ActiveWidths(plan, coefficients.masks)
       /\ \A s \in DOMAIN coefficients.blocks :
             LET block == coefficients.blocks[s]
             IN /\ block.plan = plan
                /\ block.subset = s
                /\ block.ridge = coefficients.ridge
                /\ block.tags = UNION {coefficients.masks[d] : d \in s}
                /\ block.identity = coefficients.identity

CoefficientBundle(coefficients) ==
    Identify(coefficients, "coefficients",
             [plan |-> coefficients.plan, store |-> coefficients.store,
              identity |-> coefficients.identity, masks |-> coefficients.masks,
              ridge |-> coefficients.ridge, statistics |-> coefficients.statistics,
              blocks |-> Digests(coefficients.blocks)])

CoefficientsAdmitted(store, statistics) ==
    LET width == ActiveWidths(store.plan, MasksOf(statistics))
    IN /\ StatisticsBelong(store, statistics)
       /\ ExecutionWork(store.plan, width) <= MaxExecutionWork
       /\ ExecutionBytes(store.plan, width) <= MaxExecutionBytes

BuildCoefficients(store, statistics, ridge) ==
    CoefficientBundle(
        [plan |-> store.plan, store |-> store.sha256, identity |-> store.identity,
         masks |-> MasksOf(statistics), ridge |-> ridge, statistics |-> statistics.sha256,
         widths |-> ActiveWidths(store.plan, MasksOf(statistics)),
         blocks |-> [s \in TrainingSubsets(store.plan.domains) |->
                        SolveSubset(statistics, s, ridge)],
         sha256 |-> Unhashed])

-----------------------------------------------------------------------------
(* The rows a score reads, without their targets, and the scores.           *)

FeatureShard(shard) == IdentifyAll(shard, "shard")

ShardContent(store, d) ==
    Sha256("shard_content", [plan |-> store.plan, domain |-> d, identity |-> store.identity,
                             prompts |-> store.prompts[d], features |-> store.features[d]])

FeatureShards(shards) ==
    Identify(shards, "shards", [plan |-> shards.plan, identity |-> shards.identity,
                                children |-> Digests(shards.children)])

BuildShards(store) ==
    FeatureShards([plan |-> store.plan, identity |-> store.identity,
                   children |->
                      [d \in store.plan.domains |->
                          FeatureShard([plan |-> store.plan, domain |-> d,
                                        identity |-> store.identity,
                                        prompts |-> store.prompts[d],
                                        content |-> ShardContent(store, d),
                                        sha256 |-> Unhashed])],
                   sha256 |-> Unhashed])

ScoreBlock(block) == IdentifyAll(block, "scores")

(* Every block names the fit that made it and the rows it was made on.      *)
ScoresAreValid(scores) ==
    LET plan == scores.coefficients.plan
    IN /\ scores.shards.plan = plan
       /\ scores.shards.identity = scores.coefficients.identity
       /\ DOMAIN scores.blocks = ScoreBlocks(plan.domains)
       /\ \A b \in DOMAIN scores.blocks :
             /\ scores.blocks[b].plan = plan
             /\ scores.blocks[b].block = b
             /\ scores.blocks[b].coefficient = scores.coefficients.blocks[b[1]].sha256
             /\ scores.blocks[b].shard = scores.shards.children[b[2]].sha256

ScoreBundle(scores) ==
    Identify(scores, "score_bundle",
             [coefficients |-> scores.coefficients.sha256, shards |-> scores.shards.sha256,
              blocks |-> Digests(scores.blocks)])

CoefficientsBelong(store, coefficients) ==
    /\ coefficients.plan = store.plan
    /\ coefficients.store = store.sha256
    /\ coefficients.identity = store.identity
    /\ coefficients.widths = [s \in DOMAIN coefficients.blocks |->
                                 ActiveWidth(store.plan, coefficients.blocks[s].tags)]

ScoreStore(store, coefficients, b) ==
    [weights |-> coefficients.blocks[b[1]].weights, on |-> store.features[b[2]]]

BuildScores(store, coefficients) ==
    LET shards == BuildShards(store)
    IN ScoreBundle(
          [coefficients |-> coefficients, shards |-> shards,
           blocks |->
              [b \in ScoreBlocks(store.plan.domains) |->
                  ScoreBlock([plan |-> store.plan, block |-> b,
                              coefficient |-> coefficients.blocks[b[1]].sha256,
                              shard |-> shards.children[b[2]].sha256,
                              scores |-> ScoreStore(store, coefficients, b),
                              sha256 |-> Unhashed])],
           sha256 |-> Unhashed])
=============================================================================
