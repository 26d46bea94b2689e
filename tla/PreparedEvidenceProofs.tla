----------------------- MODULE PreparedEvidenceProofs ------------------------
(***************************************************************************)
(* What the digests of a prepared evaluation are worth, for every set of   *)
(* sources, domains, models, tags and ridges.                              *)
(*                                                                         *)
(* A digest is the record of what was hashed, so an artifact that has just *)
(* been constructed is determined by its digest, once it is known which    *)
(* fields it has.  From there: what passes the checks of the assembly is   *)
(* what the stages built (every part is compared as carried and as         *)
(* computed afresh); the parents' digests make it one run; the parser,     *)
(* which derives the digest of the final coefficient again, refuses every  *)
(* damaged field a prediction depends on; the digest of a held-out         *)
(* domain's scores leaves out its targets and nothing else; and the count  *)
(* of scalars the assembly is admitted by is the one its constructor makes *)
(* in the end, so that nothing else of one run is ever refused.            *)
(***************************************************************************)
EXTENDS PreparedEvidence, TotalsProofs, FiniteSetTheorems

-----------------------------------------------------------------------------
(* Digests. *)

\* Equal digests are digests of one content.
LEMMA DigestsAgree ==
    ASSUME NEW j, NEW k, NEW a, NEW b, Sha256(j, a) = Sha256(k, b)
    PROVE  j = k /\ a = b
BY DEF Sha256

\* What a digest of all fields is a digest of.
LEMMA IdentifiedAll ==
    ASSUME NEW a, NEW kind, "sha256" \in DOMAIN a
    PROVE  /\ IdentifyAll(a, kind).sha256 = Sha256(kind, Without(a, {"sha256"}))
           /\ DOMAIN IdentifyAll(a, kind) = DOMAIN a
           /\ \A f \in DOMAIN a \ {"sha256"} : IdentifyAll(a, kind)[f] = a[f]
BY DEF IdentifyAll, Identify

\* Artifacts of one shape and one digest differ nowhere else.
LEMMA FieldsAgree ==
    ASSUME NEW a, NEW b, DOMAIN a = DOMAIN b,
           Without(a, {"sha256"}) = Without(b, {"sha256"})
    PROVE  \A f \in DOMAIN a \ {"sha256"} : a[f] = b[f]
<1> SUFFICES ASSUME NEW f \in DOMAIN a \ {"sha256"} PROVE a[f] = b[f]
  OBVIOUS
<1>1. Without(a, {"sha256"})[f] = a[f] /\ Without(b, {"sha256"})[f] = b[f]
  BY DEF Without
<1> QED
  BY <1>1

-----------------------------------------------------------------------------
(* Artifacts with all their fields, and artifacts as a constructor leaves   *)
(* them.                                                                    *)

HasFields(x, F) == x = [f \in F |-> x[f]]

Made(x, kind, F) ==
    HasFields(x, F) /\ x.sha256 = Sha256(kind, Without(x, {"sha256"}))

Family(c, F) ==
    /\ c = [i \in DOMAIN c |-> c[i]]
    /\ \A i \in DOMAIN c : HasFields(c[i], F)

MadeFamily(c, kind, F) ==
    /\ c = [i \in DOMAIN c |-> c[i]]
    /\ \A i \in DOMAIN c : Made(c[i], kind, F)

\* What an artifact is as a function.
LEMMA FieldsDomain ==
    ASSUME NEW F, NEW x, HasFields(x, F)
    PROVE  DOMAIN x = F
BY DEF HasFields

\* A constructed artifact is determined by its digest.
LEMMA MadeDetermines ==
    ASSUME NEW F, NEW kind, NEW x, NEW y, Made(x, kind, F), Made(y, kind, F),
           x.sha256 = y.sha256
    PROVE  x = y
<1>1. DOMAIN x = F /\ DOMAIN y = F
  BY FieldsDomain DEF Made
<1>2. Without(x, {"sha256"}) = Without(y, {"sha256"})
  BY DigestsAgree DEF Made
<1>3. \A f \in F \ {"sha256"} : x[f] = y[f]
  BY <1>1, <1>2, FieldsAgree
<1>4. \A f \in F : x[f] = y[f]
  BY <1>3
<1> QED
  BY <1>4 DEF Made, HasFields

\* A constructor makes its artifact, and keeps every other field.
LEMMA IdentifyMakes ==
    ASSUME NEW F, "sha256" \in F, NEW kind, NEW x, HasFields(x, F)
    PROVE  /\ Made(IdentifyAll(x, kind), kind, F)
           /\ \A f \in F \ {"sha256"} : IdentifyAll(x, kind)[f] = x[f]
<1> DEFINE y == IdentifyAll(x, kind)
<1>1. DOMAIN x = F
  BY FieldsDomain
<1>2. /\ y = [x EXCEPT !.sha256 = Sha256(kind, Without(x, {"sha256"}))]
      /\ y.sha256 = Sha256(kind, Without(x, {"sha256"}))
      /\ \A f \in F \ {"sha256"} : y[f] = x[f]
  BY <1>1 DEF IdentifyAll, Identify
<1>3. y = [f \in F |-> y[f]] /\ DOMAIN y = F
  BY <1>1, <1>2 DEF HasFields
<1> HIDE DEF y
<1>4. Without(y, {"sha256"}) = Without(x, {"sha256"})
  BY <1>1, <1>2, <1>3 DEF Without
<1> QED
  BY <1>2, <1>3, <1>4 DEF Made, HasFields, y

\* The digests of a family determine it.
LEMMA FamilyDetermines ==
    ASSUME NEW F, NEW kind, NEW c, NEW e, MadeFamily(c, kind, F), MadeFamily(e, kind, F),
           Digests(c) = Digests(e)
    PROVE  c = e
<1>1. DOMAIN c = DOMAIN e
  BY DEF Digests
<1>2. \A i \in DOMAIN c : c[i].sha256 = e[i].sha256
  <2> SUFFICES ASSUME NEW i \in DOMAIN c PROVE c[i].sha256 = e[i].sha256
    OBVIOUS
  <2>1. Digests(c)[i] = c[i].sha256 /\ Digests(e)[i] = e[i].sha256
    BY <1>1 DEF Digests
  <2> QED
    BY <2>1
<1>3. \A i \in DOMAIN c : c[i] = e[i]
  BY <1>1, <1>2, MadeDetermines DEF MadeFamily
<1> QED
  BY <1>1, <1>3 DEF MadeFamily

\* Constructing every member makes the family.
LEMMA FamilyMakes ==
    ASSUME NEW F, "sha256" \in F, NEW kind, NEW c, Family(c, F)
    PROVE  MadeFamily([i \in DOMAIN c |-> IdentifyAll(c[i], kind)], kind, F)
<1>1. \A i \in DOMAIN c : Made(IdentifyAll(c[i], kind), kind, F)
  BY IdentifyMakes DEF Family
<1> QED
  BY <1>1 DEF MadeFamily

\* A made family has its fields.
LEMMA MadeFamilyHasFields ==
    ASSUME NEW F, NEW kind, NEW c, MadeFamily(c, kind, F)
    PROVE  Family(c, F)
BY DEF MadeFamily, Family, Made

-----------------------------------------------------------------------------
(* The artifacts of a run.                                                  *)

StoreFields == {"plan", "identity", "snapshot", "fit", "prompts", "features", "targets",
                "sha256"}
StatisticsFields == {"plan", "store", "identity", "children", "sha256"}
ChildFields == {"domain", "rows", "tags", "content", "moments", "sha256"}
CoefficientsFields == {"plan", "store", "identity", "masks", "ridge", "statistics",
                       "widths", "blocks", "sha256"}
CoefficientFields == {"plan", "subset", "tags", "identity", "statistics", "included",
                      "ridge", "weights", "sha256"}
ShardsFields == {"plan", "identity", "children", "sha256"}
ShardFields == {"plan", "domain", "identity", "prompts", "content", "sha256"}
ScoresFields == {"coefficients", "shards", "blocks", "sha256"}
ScoreFields == {"plan", "block", "coefficient", "shard", "scores", "sha256"}

StatisticsShaped(x) ==
    HasFields(x, StatisticsFields) /\ Family(x.children, ChildFields)

CoefficientsShaped(x) ==
    HasFields(x, CoefficientsFields) /\ Family(x.blocks, CoefficientFields)

ShardsShaped(x) ==
    HasFields(x, ShardsFields) /\ Family(x.children, ShardFields)

ScoresShaped(x) ==
    /\ HasFields(x, ScoresFields) /\ Family(x.blocks, ScoreFields)
    /\ CoefficientsShaped(x.coefficients) /\ ShardsShaped(x.shards)

StoreMade(x) == Made(x, "store", StoreFields)

StatisticsMade(x) ==
    /\ HasFields(x, StatisticsFields)
    /\ MadeFamily(x.children, "domain_statistics", ChildFields)
    /\ x.sha256 = Sha256("statistics", [plan |-> x.plan, store |-> x.store,
                                        identity |-> x.identity,
                                        children |-> Digests(x.children)])

CoefficientsMade(x) ==
    /\ HasFields(x, CoefficientsFields)
    /\ MadeFamily(x.blocks, "coefficient", CoefficientFields)
    /\ x.sha256 = Sha256("coefficients", [plan |-> x.plan, store |-> x.store,
                                          identity |-> x.identity, masks |-> x.masks,
                                          ridge |-> x.ridge, statistics |-> x.statistics,
                                          blocks |-> Digests(x.blocks)])

ShardsMade(x) ==
    /\ HasFields(x, ShardsFields)
    /\ MadeFamily(x.children, "shard", ShardFields)
    /\ x.sha256 = Sha256("shards", [plan |-> x.plan, identity |-> x.identity,
                                    children |-> Digests(x.children)])

ScoresMade(x) ==
    /\ HasFields(x, ScoresFields)
    /\ MadeFamily(x.blocks, "scores", ScoreFields)
    /\ CoefficientsMade(x.coefficients) /\ ShardsMade(x.shards)
    /\ x.sha256 = Sha256("score_bundle", [coefficients |-> x.coefficients.sha256,
                                          shards |-> x.shards.sha256,
                                          blocks |-> Digests(x.blocks)])

\* The digest of a bundle, and what it leaves alone.
LEMMA IdentifyKeeps ==
    ASSUME NEW F, "sha256" \in F, NEW kind, NEW content, NEW x, HasFields(x, F)
    PROVE  /\ HasFields(Identify(x, kind, content), F)
           /\ Identify(x, kind, content).sha256 = Sha256(kind, content)
           /\ \A f \in F \ {"sha256"} : Identify(x, kind, content)[f] = x[f]
<1>1. DOMAIN x = F
  BY FieldsDomain
<1> QED
  BY <1>1 DEF Identify, HasFields

\* Two bundles of statistics with one digest are one bundle.
LEMMA StatisticsDetermined ==
    ASSUME NEW x, NEW y, StatisticsMade(x), StatisticsMade(y), x.sha256 = y.sha256
    PROVE  x = y
<1> DEFINE C(z) == [plan |-> z.plan, store |-> z.store, identity |-> z.identity,
                   children |-> Digests(z.children)]
<1>5. Sha256("statistics", C(x)) = Sha256("statistics", C(y))
  BY DEF StatisticsMade
<1>1. C(x) = C(y)
  BY <1>5, DigestsAgree
<1>2. x.plan = y.plan /\ x.store = y.store /\ x.identity = y.identity
      /\ Digests(x.children) = Digests(y.children)
  BY <1>1
<1>3. x.children = y.children
  BY <1>2, FamilyDetermines DEF StatisticsMade
<1>4. \A f \in StatisticsFields : x[f] = y[f]
  BY <1>2, <1>3 DEF StatisticsFields
<1> QED
  BY <1>4 DEF StatisticsMade, HasFields

\* Coefficients are determined by their digest and the widths of their masks.
LEMMA CoefficientsDetermined ==
    ASSUME NEW x, NEW y, CoefficientsMade(x), CoefficientsMade(y), x.sha256 = y.sha256,
           x.widths = ActiveWidths(x.plan, x.masks),
           y.widths = ActiveWidths(y.plan, y.masks)
    PROVE  x = y
<1> DEFINE C(z) == [plan |-> z.plan, store |-> z.store, identity |-> z.identity,
                   masks |-> z.masks, ridge |-> z.ridge, statistics |-> z.statistics,
                   blocks |-> Digests(z.blocks)]
<1>5. Sha256("coefficients", C(x)) = Sha256("coefficients", C(y))
  BY DEF CoefficientsMade
<1>1. C(x) = C(y)
  BY <1>5, DigestsAgree
<1>2. x.plan = y.plan /\ x.store = y.store /\ x.identity = y.identity /\ x.masks = y.masks
      /\ x.ridge = y.ridge /\ x.statistics = y.statistics
      /\ Digests(x.blocks) = Digests(y.blocks)
  BY <1>1
<1>3. x.blocks = y.blocks
  BY <1>2, FamilyDetermines DEF CoefficientsMade
<1>4. \A f \in CoefficientsFields : x[f] = y[f]
  BY <1>2, <1>3 DEF CoefficientsFields
<1> QED
  BY <1>4 DEF CoefficientsMade, HasFields

LEMMA ShardsDetermined ==
    ASSUME NEW x, NEW y, ShardsMade(x), ShardsMade(y), x.sha256 = y.sha256
    PROVE  x = y
<1> DEFINE C(z) == [plan |-> z.plan, identity |-> z.identity,
                   children |-> Digests(z.children)]
<1>5. Sha256("shards", C(x)) = Sha256("shards", C(y))
  BY DEF ShardsMade
<1>1. C(x) = C(y)
  BY <1>5, DigestsAgree
<1>2. x.plan = y.plan /\ x.identity = y.identity
      /\ Digests(x.children) = Digests(y.children)
  BY <1>1
<1>3. x.children = y.children
  BY <1>2, FamilyDetermines DEF ShardsMade
<1>4. \A f \in ShardsFields : x[f] = y[f]
  BY <1>2, <1>3 DEF ShardsFields
<1> QED
  BY <1>4 DEF ShardsMade, HasFields

\* The digest of the scores names everything down to the weights and the prompts.
LEMMA ScoresDetermined ==
    ASSUME NEW x, NEW y, ScoresMade(x), ScoresMade(y), x.sha256 = y.sha256,
           x.coefficients.widths = ActiveWidths(x.coefficients.plan, x.coefficients.masks),
           y.coefficients.widths = ActiveWidths(y.coefficients.plan, y.coefficients.masks)
    PROVE  x = y
<1> DEFINE C(z) == [coefficients |-> z.coefficients.sha256, shards |-> z.shards.sha256,
                   blocks |-> Digests(z.blocks)]
<1>7. Sha256("score_bundle", C(x)) = Sha256("score_bundle", C(y))
  BY DEF ScoresMade
<1>1. C(x) = C(y)
  <2> HIDE DEF C
  <2> QED
    BY <1>7, DigestsAgree
<1>2. x.coefficients.sha256 = y.coefficients.sha256 /\ x.shards.sha256 = y.shards.sha256
      /\ Digests(x.blocks) = Digests(y.blocks)
  BY <1>1
<1>3. x.coefficients = y.coefficients
  BY <1>2, CoefficientsDetermined DEF ScoresMade
<1>4. x.shards = y.shards
  BY <1>2, ShardsDetermined DEF ScoresMade
<1>5. x.blocks = y.blocks
  BY <1>2, FamilyDetermines DEF ScoresMade
<1>6. \A f \in ScoresFields : x[f] = y[f]
  BY <1>3, <1>4, <1>5 DEF ScoresFields
<1> QED
  BY <1>6 DEF ScoresMade, HasFields

-----------------------------------------------------------------------------
(* What is constructed again is made.                                       *)

LEMMA FreshStatisticsMade ==
    ASSUME NEW x, StatisticsShaped(x)
    PROVE  StatisticsMade(FreshStatistics(x))
<1> DEFINE c == [d \in DOMAIN x.children |-> IdentifyAll(x.children[d], "domain_statistics")]
           y == [x EXCEPT !.children = c]
           content == [plan |-> y.plan, store |-> y.store, identity |-> y.identity,
                       children |-> Digests(y.children)]
<1>1. FreshStatistics(x) = Identify(y, "statistics", content)
  BY DEF FreshStatistics, StatisticsBundle, DomainStatistics
<1>2. MadeFamily(c, "domain_statistics", ChildFields)
  BY FamilyMakes DEF StatisticsShaped, ChildFields
<1> HIDE DEF c
<1>3. HasFields(y, StatisticsFields) /\ y.children = c
  BY DEF StatisticsShaped, HasFields, StatisticsFields
<1> HIDE DEF y
<1>4. "sha256" \in StatisticsFields
  BY DEF StatisticsFields
<1> DEFINE z == Identify(y, "statistics", content)
<1>5. /\ HasFields(z, StatisticsFields) /\ z.sha256 = Sha256("statistics", content)
      /\ \A f \in StatisticsFields \ {"sha256"} : z[f] = y[f]
  BY <1>3, <1>4, IdentifyKeeps
<1> HIDE DEF z
<1>6. z.plan = y.plan /\ z.store = y.store /\ z.identity = y.identity
      /\ z.children = y.children
  BY <1>5 DEF StatisticsFields
<1>7. StatisticsMade(z)
  BY <1>2, <1>3, <1>5, <1>6 DEF StatisticsMade
<1> QED
  BY <1>1, <1>7 DEF z


LEMMA FreshCoefficientsMade ==
    ASSUME NEW x, CoefficientsShaped(x)
    PROVE  /\ CoefficientsMade(FreshCoefficients(x))
           /\ \A f \in {"plan", "masks", "widths"} : FreshCoefficients(x)[f] = x[f]
<1> DEFINE c == [s \in DOMAIN x.blocks |-> IdentifyAll(x.blocks[s], "coefficient")]
           y == [x EXCEPT !.blocks = c]
           content == [plan |-> y.plan, store |-> y.store, identity |-> y.identity,
                       masks |-> y.masks, ridge |-> y.ridge, statistics |-> y.statistics,
                       blocks |-> Digests(y.blocks)]
<1>1. FreshCoefficients(x) = Identify(y, "coefficients", content)
  BY DEF FreshCoefficients, CoefficientBundle, CoefficientBlock
<1>2. MadeFamily(c, "coefficient", CoefficientFields)
  BY FamilyMakes DEF CoefficientsShaped, CoefficientFields
<1> HIDE DEF c
<1>3. /\ HasFields(y, CoefficientsFields) /\ y.blocks = c
      /\ y.plan = x.plan /\ y.masks = x.masks /\ y.widths = x.widths
  BY DEF CoefficientsShaped, HasFields, CoefficientsFields
<1> HIDE DEF y
<1>4. "sha256" \in CoefficientsFields
  BY DEF CoefficientsFields
<1> DEFINE z == Identify(y, "coefficients", content)
<1>5. /\ HasFields(z, CoefficientsFields) /\ z.sha256 = Sha256("coefficients", content)
      /\ \A f \in CoefficientsFields \ {"sha256"} : z[f] = y[f]
  BY <1>3, <1>4, IdentifyKeeps
<1> HIDE DEF z
<1>6. /\ z.plan = y.plan /\ z.store = y.store /\ z.identity = y.identity
      /\ z.masks = y.masks /\ z.ridge = y.ridge /\ z.statistics = y.statistics
      /\ z.widths = y.widths /\ z.blocks = y.blocks
  BY <1>5 DEF CoefficientsFields
<1>7. CoefficientsMade(z)
  BY <1>2, <1>3, <1>5, <1>6 DEF CoefficientsMade
<1> QED
  BY <1>1, <1>3, <1>6, <1>7 DEF z

LEMMA FreshShardsMade ==
    ASSUME NEW x, ShardsShaped(x)
    PROVE  ShardsMade(FreshShards(x))
<1> DEFINE c == [d \in DOMAIN x.children |-> IdentifyAll(x.children[d], "shard")]
           y == [x EXCEPT !.children = c]
           content == [plan |-> y.plan, identity |-> y.identity,
                       children |-> Digests(y.children)]
<1>1. FreshShards(x) = Identify(y, "shards", content)
  BY DEF FreshShards, FeatureShards, FeatureShard
<1>2. MadeFamily(c, "shard", ShardFields)
  BY FamilyMakes DEF ShardsShaped, ShardFields
<1> HIDE DEF c
<1>3. HasFields(y, ShardsFields) /\ y.children = c
  BY DEF ShardsShaped, HasFields, ShardsFields
<1> HIDE DEF y
<1>4. "sha256" \in ShardsFields
  BY DEF ShardsFields
<1> DEFINE z == Identify(y, "shards", content)
<1>5. /\ HasFields(z, ShardsFields) /\ z.sha256 = Sha256("shards", content)
      /\ \A f \in ShardsFields \ {"sha256"} : z[f] = y[f]
  BY <1>3, <1>4, IdentifyKeeps
<1> HIDE DEF z
<1>6. z.plan = y.plan /\ z.identity = y.identity /\ z.children = y.children
  BY <1>5 DEF ShardsFields
<1>7. ShardsMade(z)
  BY <1>2, <1>3, <1>5, <1>6 DEF ShardsMade
<1> QED
  BY <1>1, <1>7 DEF z

LEMMA FreshScoresMade ==
    ASSUME NEW x, ScoresShaped(x)
    PROVE  /\ ScoresMade(FreshScores(x))
           /\ FreshScores(x).coefficients = FreshCoefficients(x.coefficients)
<1> DEFINE c == [b \in DOMAIN x.blocks |-> IdentifyAll(x.blocks[b], "scores")]
           y == [x EXCEPT !.coefficients = FreshCoefficients(@),
                          !.shards = FreshShards(@), !.blocks = c]
           content == [coefficients |-> y.coefficients.sha256, shards |-> y.shards.sha256,
                       blocks |-> Digests(y.blocks)]
<1>1. FreshScores(x) = Identify(y, "score_bundle", content)
  BY DEF FreshScores, ScoreBundle, ScoreBlock
<1>2. MadeFamily(c, "scores", ScoreFields)
  BY FamilyMakes DEF ScoresShaped, ScoreFields
<1> HIDE DEF c
<1>3. /\ HasFields(y, ScoresFields) /\ y.blocks = c
      /\ y.coefficients = FreshCoefficients(x.coefficients)
      /\ y.shards = FreshShards(x.shards)
  BY DEF ScoresShaped, HasFields, ScoresFields
<1> HIDE DEF y
<1>4. "sha256" \in ScoresFields
  BY DEF ScoresFields
<1> DEFINE z == Identify(y, "score_bundle", content)
<1>5. /\ HasFields(z, ScoresFields) /\ z.sha256 = Sha256("score_bundle", content)
      /\ \A f \in ScoresFields \ {"sha256"} : z[f] = y[f]
  <2>1. HasFields(y, ScoresFields)
    BY <1>3
  <2> HIDE DEF content
  <2>2. HasFields(z, ScoresFields) /\ z.sha256 = Sha256("score_bundle", content)
    BY <1>4, <2>1, IdentifyKeeps
  <2>3. ASSUME NEW f \in ScoresFields \ {"sha256"} PROVE z[f] = y[f]
    BY <1>4, <2>1, IdentifyKeeps
  <2> QED
    BY <2>2, <2>3
<1> HIDE DEF z
<1>6. z.coefficients = y.coefficients /\ z.shards = y.shards /\ z.blocks = y.blocks
  BY <1>5 DEF ScoresFields
<1>7. CoefficientsMade(y.coefficients) /\ ShardsMade(y.shards)
  BY <1>3, FreshCoefficientsMade, FreshShardsMade DEF ScoresShaped
<1>8. ScoresMade(z)
  BY <1>2, <1>3, <1>5, <1>6, <1>7 DEF ScoresMade
<1> QED
  BY <1>1, <1>3, <1>6, <1>8 DEF z

-----------------------------------------------------------------------------
(* What a stage builds is made.                                             *)

LEMMA BuildStoreMade ==
    ASSUME NEW source
    PROVE  /\ StoreMade(BuildStore(source))
           /\ BuildStore(source).plan = Plan(source)
           /\ BuildStore(source).identity = source.identity
           /\ BuildStore(source).prompts = source.prompts
           /\ BuildStore(source).features = StoredFeatures(source)
           /\ BuildStore(source).targets = source.targets
<1> DEFINE x == [plan |-> Plan(source), identity |-> source.identity,
                 snapshot |-> BuildSnapshot(source), fit |-> SourceFit(source),
                 prompts |-> source.prompts, features |-> StoredFeatures(source),
                 targets |-> source.targets, sha256 |-> Unhashed]
<1>1. BuildStore(source) = IdentifyAll(x, "store")
  BY DEF BuildStore, FeatureStore
<1>2. HasFields(x, StoreFields) /\ "sha256" \in StoreFields
  BY DEF HasFields, StoreFields
<1>3. /\ x.plan = Plan(source) /\ x.identity = source.identity
      /\ x.prompts = source.prompts /\ x.features = StoredFeatures(source)
      /\ x.targets = source.targets
  OBVIOUS
<1> HIDE DEF x
<1>4. /\ Made(IdentifyAll(x, "store"), "store", StoreFields)
      /\ \A f \in StoreFields \ {"sha256"} : IdentifyAll(x, "store")[f] = x[f]
  BY <1>2, IdentifyMakes
<1> QED
  BY <1>1, <1>3, <1>4 DEF StoreMade, StoreFields

LEMMA BuildStatisticsMade ==
    ASSUME NEW of
    PROVE  /\ StatisticsMade(BuildStatistics(of))
           /\ BuildStatistics(of).plan = of.plan
           /\ BuildStatistics(of).store = of.sha256
           /\ BuildStatistics(of).identity = of.identity
           /\ BuildStatistics(of).children =
                 [d \in of.plan.domains |->
                    DomainStatistics([domain |-> d, rows |-> of.plan.rows[d],
                                      tags |-> of.features[d].tags,
                                      content |-> DomainContent(of, d),
                                      moments |-> Moments(of, d),
                                      sha256 |-> Unhashed])]
<1> DEFINE r == [d \in of.plan.domains |->
                    [domain |-> d, rows |-> of.plan.rows[d], tags |-> of.features[d].tags,
                     content |-> DomainContent(of, d), moments |-> Moments(of, d),
                     sha256 |-> Unhashed]]
           c == [d \in DOMAIN r |-> IdentifyAll(r[d], "domain_statistics")]
           y == [plan |-> of.plan, store |-> of.sha256, identity |-> of.identity,
                 children |-> c, sha256 |-> Unhashed]
           content == [plan |-> y.plan, store |-> y.store, identity |-> y.identity,
                       children |-> Digests(y.children)]
           z == Identify(y, "statistics", content)
<1>1. c = [d \in of.plan.domains |->
             DomainStatistics([domain |-> d, rows |-> of.plan.rows[d],
                               tags |-> of.features[d].tags,
                               content |-> DomainContent(of, d),
                               moments |-> Moments(of, d), sha256 |-> Unhashed])]
  BY DEF DomainStatistics
<1>2. Family(r, ChildFields) /\ "sha256" \in ChildFields
  BY DEF Family, HasFields, ChildFields
<1>3. MadeFamily(c, "domain_statistics", ChildFields)
  <2> HIDE DEF r
  <2> QED
    BY <1>2, FamilyMakes
<1>4. BuildStatistics(of) = z
  BY <1>1 DEF BuildStatistics, StatisticsBundle
<1> HIDE DEF c
<1>5. /\ HasFields(y, StatisticsFields) /\ "sha256" \in StatisticsFields
      /\ y.plan = of.plan /\ y.store = of.sha256 /\ y.identity = of.identity
      /\ y.children = c
  BY DEF HasFields, StatisticsFields
<1> HIDE DEF y
<1>6. /\ HasFields(z, StatisticsFields) /\ z.sha256 = Sha256("statistics", content)
      /\ \A f \in StatisticsFields \ {"sha256"} : z[f] = y[f]
  BY <1>5, IdentifyKeeps
<1> HIDE DEF z
<1>7. z.plan = y.plan /\ z.store = y.store /\ z.identity = y.identity
      /\ z.children = y.children
  BY <1>6 DEF StatisticsFields
<1>8. StatisticsMade(z)
  BY <1>3, <1>5, <1>6, <1>7 DEF StatisticsMade
<1> QED
  BY <1>1, <1>4, <1>5, <1>7, <1>8

\* A subset's coefficients have all their fields, and are identified last.
SolvedRecord(summary, s, ridge) ==
    LET subset == SubsetStatistics(summary, s)
    IN [plan |-> summary.plan, subset |-> s, tags |-> subset.tags,
        identity |-> subset.identity, statistics |-> subset.sha256,
        included |-> subset.included, ridge |-> ridge,
        weights |-> [moments |-> subset.moments, ridge |-> ridge],
        sha256 |-> Unhashed]

LEMMA BuildCoefficientsMade ==
    ASSUME NEW of, NEW summary, NEW ridge
    PROVE  /\ CoefficientsMade(BuildCoefficients(of, summary, ridge))
           /\ BuildCoefficients(of, summary, ridge).plan = of.plan
           /\ BuildCoefficients(of, summary, ridge).identity = of.identity
           /\ BuildCoefficients(of, summary, ridge).masks = MasksOf(summary)
           /\ BuildCoefficients(of, summary, ridge).store = of.sha256
           /\ BuildCoefficients(of, summary, ridge).ridge = ridge
           /\ BuildCoefficients(of, summary, ridge).statistics = summary.sha256
           /\ BuildCoefficients(of, summary, ridge).widths
                 = ActiveWidths(BuildCoefficients(of, summary, ridge).plan,
                                BuildCoefficients(of, summary, ridge).masks)
<1> DEFINE r == [s \in TrainingSubsets(of.plan.domains) |-> SolvedRecord(summary, s, ridge)]
           c == [s \in DOMAIN r |-> IdentifyAll(r[s], "coefficient")]
           y == [plan |-> of.plan, store |-> of.sha256, identity |-> of.identity,
                 masks |-> MasksOf(summary), ridge |-> ridge,
                 statistics |-> summary.sha256,
                 widths |-> ActiveWidths(of.plan, MasksOf(summary)),
                 blocks |-> c, sha256 |-> Unhashed]
           content == [plan |-> y.plan, store |-> y.store, identity |-> y.identity,
                       masks |-> y.masks, ridge |-> y.ridge, statistics |-> y.statistics,
                       blocks |-> Digests(y.blocks)]
           z == Identify(y, "coefficients", content)
<1>1. c = [s \in TrainingSubsets(of.plan.domains) |-> SolveSubset(summary, s, ridge)]
  BY DEF SolveSubset, SolvedRecord, CoefficientBlock
<1>2. Family(r, CoefficientFields) /\ "sha256" \in CoefficientFields
  BY DEF Family, HasFields, CoefficientFields, SolvedRecord
<1>3. MadeFamily(c, "coefficient", CoefficientFields)
  <2> HIDE DEF r
  <2> QED
    BY <1>2, FamilyMakes
<1>4. BuildCoefficients(of, summary, ridge) = z
  BY <1>1 DEF BuildCoefficients, CoefficientBundle
<1> HIDE DEF c
<1>5. /\ HasFields(y, CoefficientsFields) /\ "sha256" \in CoefficientsFields
      /\ y.plan = of.plan /\ y.store = of.sha256 /\ y.identity = of.identity
      /\ y.masks = MasksOf(summary) /\ y.ridge = ridge
      /\ y.statistics = summary.sha256 /\ y.blocks = c
      /\ y.widths = ActiveWidths(of.plan, MasksOf(summary))
  BY DEF HasFields, CoefficientsFields
<1> HIDE DEF y
<1>6. /\ HasFields(z, CoefficientsFields) /\ z.sha256 = Sha256("coefficients", content)
      /\ \A f \in CoefficientsFields \ {"sha256"} : z[f] = y[f]
  <2> HIDE DEF content
  <2> QED
    BY <1>5, IdentifyKeeps
<1> HIDE DEF z
<1>7. /\ z.plan = y.plan /\ z.store = y.store /\ z.identity = y.identity
      /\ z.masks = y.masks /\ z.ridge = y.ridge /\ z.statistics = y.statistics
      /\ z.widths = y.widths /\ z.blocks = y.blocks
  BY <1>6 DEF CoefficientsFields
<1>8. CoefficientsMade(z)
  BY <1>3, <1>5, <1>6, <1>7 DEF CoefficientsMade
<1> QED
  BY <1>1, <1>4, <1>5, <1>7, <1>8


LEMMA BuildCoefficientsBlocks ==
    ASSUME NEW of, NEW summary, NEW ridge, NEW q \in TrainingSubsets(of.plan.domains)
    PROVE  BuildCoefficients(of, summary, ridge).blocks[q] = SolveSubset(summary, q, ridge)
<1> DEFINE B == [s \in TrainingSubsets(of.plan.domains) |-> SolveSubset(summary, s, ridge)]
<1>1. B[q] = SolveSubset(summary, q, ridge)
  OBVIOUS
<1>2. BuildCoefficients(of, summary, ridge).blocks = B
  <2> HIDE DEF B
  <2> QED
    BY DEF BuildCoefficients, CoefficientBundle, Identify, B
<1> QED
  BY <1>1, <1>2

LEMMA BuildShardsMade ==
    ASSUME NEW of
    PROVE  /\ ShardsMade(BuildShards(of))
           /\ BuildShards(of).children =
                 [d \in of.plan.domains |->
                     FeatureShard([plan |-> of.plan, domain |-> d, identity |-> of.identity,
                                   prompts |-> of.prompts[d], content |-> ShardContent(of, d),
                                   sha256 |-> Unhashed])]
<1> DEFINE r == [d \in of.plan.domains |->
                    [plan |-> of.plan, domain |-> d, identity |-> of.identity,
                     prompts |-> of.prompts[d], content |-> ShardContent(of, d),
                     sha256 |-> Unhashed]]
           c == [d \in DOMAIN r |-> IdentifyAll(r[d], "shard")]
           y == [plan |-> of.plan, identity |-> of.identity, children |-> c,
                 sha256 |-> Unhashed]
           content == [plan |-> y.plan, identity |-> y.identity,
                       children |-> Digests(y.children)]
           z == Identify(y, "shards", content)
<1>1. c = [d \in of.plan.domains |->
              FeatureShard([plan |-> of.plan, domain |-> d, identity |-> of.identity,
                            prompts |-> of.prompts[d], content |-> ShardContent(of, d),
                            sha256 |-> Unhashed])]
  BY DEF FeatureShard
<1>2. Family(r, ShardFields) /\ "sha256" \in ShardFields
  BY DEF Family, HasFields, ShardFields
<1>3. MadeFamily(c, "shard", ShardFields)
  <2> HIDE DEF r
  <2> QED
    BY <1>2, FamilyMakes
<1>4. BuildShards(of) = z
  BY <1>1 DEF BuildShards, FeatureShards
<1> HIDE DEF c
<1>5. /\ HasFields(y, ShardsFields) /\ "sha256" \in ShardsFields
      /\ y.plan = of.plan /\ y.identity = of.identity /\ y.children = c
  BY DEF HasFields, ShardsFields
<1> HIDE DEF y
<1>6. /\ HasFields(z, ShardsFields) /\ z.sha256 = Sha256("shards", content)
      /\ \A f \in ShardsFields \ {"sha256"} : z[f] = y[f]
  <2> HIDE DEF content
  <2> QED
    BY <1>5, IdentifyKeeps
<1> HIDE DEF z
<1>7. z.plan = y.plan /\ z.identity = y.identity /\ z.children = y.children
  BY <1>6 DEF ShardsFields
<1>8. ShardsMade(z)
  BY <1>3, <1>5, <1>6, <1>7 DEF ShardsMade
<1> QED
  BY <1>1, <1>4, <1>5, <1>7, <1>8

LEMMA BuildScoresMade ==
    ASSUME NEW of, NEW fits, CoefficientsMade(fits)
    PROVE  /\ ScoresMade(BuildScores(of, fits))
           /\ BuildScores(of, fits).coefficients = fits
           /\ BuildScores(of, fits).shards = BuildShards(of)
           /\ BuildScores(of, fits).blocks =
                 [b \in ScoreBlocks(of.plan.domains) |->
                     ScoreBlock([plan |-> of.plan, block |-> b,
                                 coefficient |-> fits.blocks[b[1]].sha256,
                                 shard |-> BuildShards(of).children[b[2]].sha256,
                                 scores |-> ScoreStore(of, fits, b),
                                 sha256 |-> Unhashed])]
<1> DEFINE r == [b \in ScoreBlocks(of.plan.domains) |->
                    [plan |-> of.plan, block |-> b,
                     coefficient |-> fits.blocks[b[1]].sha256,
                     shard |-> BuildShards(of).children[b[2]].sha256,
                     scores |-> ScoreStore(of, fits, b), sha256 |-> Unhashed]]
           c == [b \in DOMAIN r |-> IdentifyAll(r[b], "scores")]
           y == [coefficients |-> fits, shards |-> BuildShards(of), blocks |-> c,
                 sha256 |-> Unhashed]
           content == [coefficients |-> y.coefficients.sha256, shards |-> y.shards.sha256,
                       blocks |-> Digests(y.blocks)]
           z == Identify(y, "score_bundle", content)
<1>1. c = [b \in ScoreBlocks(of.plan.domains) |->
              ScoreBlock([plan |-> of.plan, block |-> b,
                          coefficient |-> fits.blocks[b[1]].sha256,
                          shard |-> BuildShards(of).children[b[2]].sha256,
                          scores |-> ScoreStore(of, fits, b), sha256 |-> Unhashed])]
  BY DEF ScoreBlock
<1>2. Family(r, ScoreFields) /\ "sha256" \in ScoreFields
  BY DEF Family, HasFields, ScoreFields
<1>3. MadeFamily(c, "scores", ScoreFields)
  <2> HIDE DEF r
  <2> QED
    BY <1>2, FamilyMakes
<1>4. BuildScores(of, fits) = z
  BY <1>1 DEF BuildScores, ScoreBundle
<1> HIDE DEF c
<1>5. /\ HasFields(y, ScoresFields) /\ "sha256" \in ScoresFields
      /\ y.coefficients = fits /\ y.shards = BuildShards(of) /\ y.blocks = c
  BY DEF HasFields, ScoresFields
<1> HIDE DEF y
<1>6. /\ HasFields(z, ScoresFields) /\ z.sha256 = Sha256("score_bundle", content)
      /\ \A f \in ScoresFields \ {"sha256"} : z[f] = y[f]
  <2> HIDE DEF content
  <2> QED
    BY <1>5, IdentifyKeeps
<1> HIDE DEF z
<1>7. z.coefficients = y.coefficients /\ z.shards = y.shards /\ z.blocks = y.blocks
  BY <1>6 DEF ScoresFields
<1>8. ScoresMade(z)
  BY <1>3, <1>5, <1>6, <1>7, BuildShardsMade DEF ScoresMade
<1> QED
  BY <1>1, <1>4, <1>5, <1>7, <1>8

\* What is made has all its fields.
LEMMA MadeIsShaped ==
    /\ \A x : StatisticsMade(x) => StatisticsShaped(x)
    /\ \A x : CoefficientsMade(x) => CoefficientsShaped(x)
    /\ \A x : ShardsMade(x) => ShardsShaped(x)
    /\ \A x : ScoresMade(x) => ScoresShaped(x)
<1>1. \A x : StatisticsMade(x) => StatisticsShaped(x)
  BY MadeFamilyHasFields DEF StatisticsMade, StatisticsShaped
<1>2. \A x : CoefficientsMade(x) => CoefficientsShaped(x)
  BY MadeFamilyHasFields DEF CoefficientsMade, CoefficientsShaped
<1>3. \A x : ShardsMade(x) => ShardsShaped(x)
  BY MadeFamilyHasFields DEF ShardsMade, ShardsShaped
<1>4. \A x : ScoresMade(x) => ScoresShaped(x)
  BY <1>2, <1>3, MadeFamilyHasFields DEF ScoresMade, ScoresShaped
<1> QED
  BY <1>1, <1>2, <1>3, <1>4

-----------------------------------------------------------------------------
(* What is held, after one leaf was overwritten, has all its fields, and    *)
(* carries the digests it was made with.                                    *)

\* One member of a family with one field replaced.
LEMMA FamilyWith ==
    ASSUME NEW F, NEW c, Family(c, F), NEW i, NEW f, NEW v
    PROVE  Family([c EXCEPT ![i] = [@ EXCEPT ![f] = v]], F)
<1> DEFINE e == [c EXCEPT ![i] = [@ EXCEPT ![f] = v]]
<1>1. e = [j \in DOMAIN c |-> IF j = i THEN [c[i] EXCEPT ![f] = v] ELSE c[j]]
  BY DEF Family
<1>2. \A j \in DOMAIN c : HasFields(c[j], F)
  BY DEF Family
<1>3. ASSUME NEW j \in DOMAIN c PROVE HasFields(e[j], F)
  <2>1. CASE j = i
    <3>1. e[j] = [c[i] EXCEPT ![f] = v] /\ HasFields(c[i], F)
      BY <1>1, <1>2, <2>1
    <3> QED
      BY <3>1 DEF HasFields
  <2>2. CASE j # i
    BY <1>1, <1>2, <2>2
  <2> QED
    BY <2>1, <2>2
<1> QED
  BY <1>1, <1>3 DEF Family


HeldShaped(h) ==
    /\ h = [store |-> h.store, statistics |-> h.statistics, scores |-> h.scores]
    /\ HasFields(h.store, StoreFields)
    /\ StatisticsShaped(h.statistics)
    /\ ScoresShaped(h.scores)

\* Replacing parts that are shaped alike.
LEMMA StatisticsWith ==
    ASSUME NEW x, StatisticsShaped(x), NEW c, Family(c, ChildFields)
    PROVE  /\ StatisticsShaped([x EXCEPT !.children = c])
           /\ [x EXCEPT !.children = c].sha256 = x.sha256
<1>1. HasFields([x EXCEPT !.children = c], StatisticsFields)
      /\ [x EXCEPT !.children = c].children = c
      /\ [x EXCEPT !.children = c].sha256 = x.sha256
  BY DEF StatisticsShaped, HasFields, StatisticsFields
<1> QED
  BY <1>1 DEF StatisticsShaped

LEMMA CoefficientsWith ==
    ASSUME NEW x, CoefficientsShaped(x), NEW c, Family(c, CoefficientFields)
    PROVE  CoefficientsShaped([x EXCEPT !.blocks = c])
<1>1. HasFields([x EXCEPT !.blocks = c], CoefficientsFields)
      /\ [x EXCEPT !.blocks = c].blocks = c
  BY DEF CoefficientsShaped, HasFields, CoefficientsFields
<1> QED
  BY <1>1 DEF CoefficientsShaped

LEMMA ShardsWith ==
    ASSUME NEW x, ShardsShaped(x), NEW c, Family(c, ShardFields)
    PROVE  ShardsShaped([x EXCEPT !.children = c])
<1>1. HasFields([x EXCEPT !.children = c], ShardsFields)
      /\ [x EXCEPT !.children = c].children = c
  BY DEF ShardsShaped, HasFields, ShardsFields
<1> QED
  BY <1>1 DEF ShardsShaped

LEMMA ScoresWith ==
    ASSUME NEW x, ScoresShaped(x)
    PROVE  /\ \A c : Family(c, ScoreFields) =>
                 /\ ScoresShaped([x EXCEPT !.blocks = c])
                 /\ [x EXCEPT !.blocks = c].sha256 = x.sha256
           /\ \A c : CoefficientsShaped(c) =>
                 /\ ScoresShaped([x EXCEPT !.coefficients = c])
                 /\ [x EXCEPT !.coefficients = c].sha256 = x.sha256
           /\ \A c : ShardsShaped(c) =>
                 /\ ScoresShaped([x EXCEPT !.shards = c])
                 /\ [x EXCEPT !.shards = c].sha256 = x.sha256
<1>1. DOMAIN x = ScoresFields
  BY FieldsDomain DEF ScoresShaped
<1>2. ASSUME NEW f \in {"coefficients", "shards", "blocks"}, NEW c
      PROVE  LET y == [x EXCEPT ![f] = c]
             IN /\ HasFields(y, ScoresFields) /\ y[f] = c
                /\ \A g \in ScoresFields \ {f} : y[g] = x[g]
  BY <1>1 DEF HasFields, ScoresFields
<1>3. ASSUME NEW c, Family(c, ScoreFields)
      PROVE  /\ ScoresShaped([x EXCEPT !.blocks = c])
             /\ [x EXCEPT !.blocks = c].sha256 = x.sha256
  <2> DEFINE y == [x EXCEPT !.blocks = c]
  <2>1. /\ HasFields(y, ScoresFields) /\ y.blocks = c
        /\ \A g \in ScoresFields \ {"blocks"} : y[g] = x[g]
    BY <1>2
  <2> HIDE DEF y
  <2>2. y.coefficients = x.coefficients /\ y.shards = x.shards /\ y.sha256 = x.sha256
    BY <2>1 DEF ScoresFields
  <2> QED
    BY <1>3, <2>1, <2>2 DEF ScoresShaped, y
<1>4. ASSUME NEW c, CoefficientsShaped(c)
      PROVE  /\ ScoresShaped([x EXCEPT !.coefficients = c])
             /\ [x EXCEPT !.coefficients = c].sha256 = x.sha256
  <2> DEFINE y == [x EXCEPT !.coefficients = c]
  <2>1. /\ HasFields(y, ScoresFields) /\ y.coefficients = c
        /\ \A g \in ScoresFields \ {"coefficients"} : y[g] = x[g]
    BY <1>2
  <2> HIDE DEF y
  <2>2. y.blocks = x.blocks /\ y.shards = x.shards /\ y.sha256 = x.sha256
    BY <2>1 DEF ScoresFields
  <2> QED
    BY <1>4, <2>1, <2>2 DEF ScoresShaped, y
<1>5. ASSUME NEW c, ShardsShaped(c)
      PROVE  /\ ScoresShaped([x EXCEPT !.shards = c])
             /\ [x EXCEPT !.shards = c].sha256 = x.sha256
  <2> DEFINE y == [x EXCEPT !.shards = c]
  <2>1. /\ HasFields(y, ScoresFields) /\ y.shards = c
        /\ \A g \in ScoresFields \ {"shards"} : y[g] = x[g]
    BY <1>2
  <2> HIDE DEF y
  <2>2. y.blocks = x.blocks /\ y.coefficients = x.coefficients /\ y.sha256 = x.sha256
    BY <2>1 DEF ScoresFields
  <2> QED
    BY <1>5, <2>1, <2>2 DEF ScoresShaped, y
<1> QED
  BY <1>3, <1>4, <1>5

\* One overwritten leaf changes neither the shape nor the digests carried.
LEMMA OverwrittenShaped ==
    ASSUME NEW h, HeldShaped(h), NEW leaf
    PROVE  LET o == Overwritten(h, leaf)
           IN /\ HeldShaped(o)
              /\ o.store.plan = h.store.plan
              /\ PinsFrom(o) = PinsFrom(h)
<1> DEFINE o == Overwritten(h, leaf)
           d == CHOOSE e \in h.store.plan.domains : TRUE
           b == Context(h.store.plan, d)
           nothing == [m \in h.store.plan.models |-> Foreign]
           st == h.statistics
           sc == h.scores
           Parts(x) == x = [store |-> x.store, statistics |-> x.statistics,
                            scores |-> x.scores]
<1>1. CASE leaf = "targets"
  <2> DEFINE c == [h.store.targets EXCEPT ![d] = nothing]
             x == [h.store EXCEPT !.targets = c]
  <2>1. o = [h EXCEPT !.store = x]
    BY <1>1 DEF Overwritten
  <2> HIDE DEF o, c
  <2>2. HasFields(x, StoreFields) /\ x.sha256 = h.store.sha256
        /\ x.plan = h.store.plan /\ x.fit = h.store.fit
    BY DEF HeldShaped, HasFields, StoreFields
  <2> HIDE DEF x
  <2>3. o.statistics = st /\ o.scores = sc /\ o.store = x /\ Parts(o)
    BY <2>1 DEF HeldShaped
  <2> QED
    BY <2>2, <2>3 DEF HeldShaped, PinsFrom, PinsOf, o
<1>2. CASE leaf = "moments"
  <2> DEFINE v == [st.children[d].moments EXCEPT !.y = nothing]
             c == [st.children EXCEPT ![d] = [@ EXCEPT !["moments"] = v]]
  <2>1. o = [h EXCEPT !.statistics = [@ EXCEPT !.children = c]]
    BY <1>2 DEF Overwritten
  <2>2. Family(c, ChildFields)
    <3> HIDE DEF v, d
    <3> QED
      BY FamilyWith DEF HeldShaped, StatisticsShaped
  <2> HIDE DEF o, c
  <2>3. /\ o.store = h.store /\ o.scores = sc /\ Parts(o)
        /\ o.statistics = [st EXCEPT !.children = c]
    BY <2>1 DEF HeldShaped
  <2>4. StatisticsShaped(o.statistics) /\ o.statistics.sha256 = st.sha256
    BY <2>2, <2>3, StatisticsWith DEF HeldShaped
  <2> QED
    BY <2>3, <2>4 DEF HeldShaped, PinsFrom, PinsOf, o
<1>3. ASSUME NEW x, ScoresShaped(x), x.sha256 = sc.sha256, o = [h EXCEPT !.scores = x]
      PROVE  /\ HeldShaped(o) /\ o.store.plan = h.store.plan
             /\ PinsFrom(o) = PinsFrom(h)
  <2> HIDE DEF o
  <2>1. o.store = h.store /\ o.statistics = st /\ o.scores = x /\ Parts(o)
    BY <1>3 DEF HeldShaped
  <2> QED
    BY <1>3, <2>1 DEF HeldShaped, PinsFrom, PinsOf
<1>4. CASE leaf = "weights"
  <2> DEFINE k == sc.coefficients
             v == [k.blocks[b[1]].weights EXCEPT !.ridge = Foreign]
             c == [k.blocks EXCEPT ![b[1]] = [@ EXCEPT !["weights"] = v]]
             y == [k EXCEPT !.blocks = c]
             x == [sc EXCEPT !.coefficients = y]
  <2>1. o = [h EXCEPT !.scores = x]
    BY <1>4 DEF Overwritten
  <2>2. Family(c, CoefficientFields)
    <3> HIDE DEF v, b
    <3> QED
      BY FamilyWith DEF HeldShaped, ScoresShaped, CoefficientsShaped
  <2> HIDE DEF o, c
  <2>3. CoefficientsShaped(y)
    BY <2>2, CoefficientsWith DEF HeldShaped, ScoresShaped
  <2> HIDE DEF y
  <2>4. ScoresShaped(x) /\ x.sha256 = sc.sha256
    BY <2>3, ScoresWith DEF HeldShaped
  <2> HIDE DEF x
  <2> QED
    BY <1>3, <2>1, <2>4 DEF o
<1>5. CASE leaf = "prompts"
  <2> DEFINE k == sc.shards
             c == [k.children EXCEPT ![d] = [@ EXCEPT !["prompts"] = Foreign]]
             y == [k EXCEPT !.children = c]
             x == [sc EXCEPT !.shards = y]
  <2>1. o = [h EXCEPT !.scores = x]
    BY <1>5 DEF Overwritten
  <2>2. Family(c, ShardFields)
    <3> HIDE DEF d
    <3> QED
      BY FamilyWith DEF HeldShaped, ScoresShaped, ShardsShaped
  <2> HIDE DEF o, c
  <2>3. ShardsShaped(y)
    BY <2>2, ShardsWith DEF HeldShaped, ScoresShaped
  <2> HIDE DEF y
  <2>4. ScoresShaped(x) /\ x.sha256 = sc.sha256
    BY <2>3, ScoresWith DEF HeldShaped
  <2> HIDE DEF x
  <2> QED
    BY <1>3, <2>1, <2>4 DEF o
<1>6. ASSUME NEW f, NEW v,
             o = [h EXCEPT !.scores = [sc EXCEPT !.blocks =
                    [sc.blocks EXCEPT ![b] = [sc.blocks[b] EXCEPT ![f] = v]]]]
      PROVE  /\ HeldShaped(o) /\ o.store.plan = h.store.plan
             /\ PinsFrom(o) = PinsFrom(h)
  <2> HIDE DEF o, b
  <2> DEFINE c == [sc.blocks EXCEPT ![b] = [sc.blocks[b] EXCEPT ![f] = v]]
             x == [sc EXCEPT !.blocks = c]
  <2>1. o = [h EXCEPT !.scores = x]
    BY <1>6
  <2>2. Family(c, ScoreFields)
    BY FamilyWith DEF HeldShaped, ScoresShaped
  <2> HIDE DEF c
  <2>3. ScoresShaped(x) /\ x.sha256 = sc.sha256
    BY <2>2, ScoresWith DEF HeldShaped
  <2> HIDE DEF x
  <2> QED
    BY <1>3, <2>1, <2>3 DEF o
<1>7. CASE leaf = "raw_scores"
  <2> DEFINE v == [sc.blocks[b].scores EXCEPT !.on.surface = Foreign]
  <2>1. o = [h EXCEPT !.scores = [sc EXCEPT !.blocks =
                [sc.blocks EXCEPT ![b] = [sc.blocks[b] EXCEPT !["scores"] = v]]]]
    BY <1>7 DEF Overwritten
  <2> HIDE DEF o, v, b
  <2> QED
    BY <1>6, <2>1 DEF o
<1>8. CASE leaf = "fit_of_the_scores"
  <2> DEFINE v == [sc.blocks[b].coefficient EXCEPT !.of.ridge = Foreign]
  <2>1. o = [h EXCEPT !.scores = [sc EXCEPT !.blocks =
                [sc.blocks EXCEPT ![b] = [sc.blocks[b] EXCEPT !["coefficient"] = v]]]]
    BY <1>8 DEF Overwritten
  <2> HIDE DEF o, v, b
  <2> QED
    BY <1>6, <2>1 DEF o
<1>9. CASE leaf \notin Leaves
  <2>1. o = h
    BY <1>9 DEF Overwritten, Leaves
  <2> QED
    BY <2>1
<1> QED
  BY <1>1, <1>2, <1>4, <1>5, <1>7, <1>8, <1>9 DEF Leaves

-----------------------------------------------------------------------------
(* An assembly that passes.                                                 *)

\* What is used most of the scores a stage makes.
LEMMA ScoresName ==
    ASSUME NEW of, NEW fits, CoefficientsMade(fits)
    PROVE  ScoresMade(BuildScores(of, fits)) /\ BuildScores(of, fits).coefficients = fits
BY BuildScoresMade, Zenon

\* The operator holds all three artifacts.
AllNamed == store \in Names /\ statistics \in Names /\ solved \in Scorable

\* The checks that stand before the assembly.
LEMMA PassedChecks ==
    ASSUME NEW h, NEW pins, Verdict(h, pins) = "passed"
    PROVE  /\ Preflighted(h) /\ Pinned(pins, h)
           /\ ConstructorsAccept(Fresh(h).store, Fresh(h).statistics, Fresh(h).scores)
           /\ Pinned(pins, Fresh(h)) /\ Related(Fresh(h))
BY DEF Verdict

\* What the tables hold of a run.
LEMMA BuiltParts ==
    ASSUME AllNamed
    PROVE  \E s0 \in Names, s1 \in Names, t1 \in Names, r \in Ridges :
              /\ solved = <<s0, <<s1, t1, r>>>> /\ <<s1, t1, r>> \in Solvable
              /\ CoefficientsOf[solved[2]]
                    = BuildCoefficients(StoreOf[s1], StatisticsOf[t1], r)
              /\ CoefficientsAdmitted(StoreOf[s1], StatisticsOf[t1])
              /\ CoefficientsBelong(StoreOf[s0], CoefficientsOf[solved[2]])
              /\ ScoresOf[solved] = BuildScores(StoreOf[s0], CoefficientsOf[solved[2]])
<1>1. PICK s0 \in Names, solve \in Solvable : solved = <<s0, solve>>
  BY DEF AllNamed, Scorable
<1>2. PICK s1 \in Names, t1 \in Names, r \in Ridges : solve = <<s1, t1, r>>
  BY <1>1 DEF Solvable
<1>3. solved[1] = s0 /\ solved[2] = solve /\ solve[1] = s1 /\ solve[2] = t1 /\ solve[3] = r
  BY <1>1, <1>2
<1>4. CoefficientsAdmitted(StoreOf[s1], StatisticsOf[t1])
  BY <1>1, <1>3 DEF Solvable
<1>5. CoefficientsBelong(StoreOf[s0], CoefficientsOf[solve])
  BY <1>1, <1>3 DEF AllNamed, Scorable
<1>6. CoefficientsOf[solve] = BuildCoefficients(StoreOf[s1], StatisticsOf[t1], r)
  BY <1>1, <1>3 DEF CoefficientsOf
<1>7. ScoresOf[solved] = BuildScores(StoreOf[s0], CoefficientsOf[solve])
  BY <1>3 DEF ScoresOf, AllNamed
<1> QED
  BY <1>1, <1>2, <1>3, <1>4, <1>5, <1>6, <1>7

LEMMA BuiltMade ==
    ASSUME AllNamed
    PROVE  /\ HeldShaped(Built)
           /\ StoreMade(Built.store) /\ StatisticsMade(Built.statistics)
           /\ ScoresMade(Built.scores)
           /\ LET fits == Built.scores.coefficients
              IN fits.widths = ActiveWidths(fits.plan, fits.masks)
           /\ Built.store.plan = Plan(Source[store])
<1>1. Built.store = BuildStore(Source[store])
      /\ Built.statistics = BuildStatistics(StoreOf[statistics])
      /\ Built.scores = ScoresOf[solved]
      /\ Built = [store |-> Built.store, statistics |-> Built.statistics,
                  scores |-> Built.scores]
  BY DEF Built, AllNamed, StoreOf, StatisticsOf
<1>2. StoreMade(Built.store) /\ Built.store.plan = Plan(Source[store])
      /\ StatisticsMade(Built.statistics)
  BY <1>1, BuildStoreMade, BuildStatisticsMade
<1>3. PICK s0, s1, t1, r :
         /\ CoefficientsOf[solved[2]]
                = BuildCoefficients(StoreOf[s1], StatisticsOf[t1], r)
         /\ ScoresOf[solved] = BuildScores(StoreOf[s0], CoefficientsOf[solved[2]])
  BY BuiltParts
<1> DEFINE fits == CoefficientsOf[solved[2]]
<1>7. /\ fits = BuildCoefficients(StoreOf[s1], StatisticsOf[t1], r)
      /\ Built.scores = BuildScores(StoreOf[s0], fits)
  BY <1>1, <1>3
<1> HIDE DEF fits
<1>4. CoefficientsMade(fits) /\ fits.widths = ActiveWidths(fits.plan, fits.masks)
  BY <1>7, BuildCoefficientsMade
<1>5. ScoresMade(Built.scores) /\ Built.scores.coefficients = fits
  BY <1>4, <1>7, ScoresName
<1>6. HeldShaped(Built)
  <2>1. HasFields(Built.store, StoreFields)
    BY <1>2 DEF StoreMade, Made
  <2>2. StatisticsShaped(Built.statistics) /\ ScoresShaped(Built.scores)
    BY <1>2, <1>5, MadeIsShaped
  <2> QED
    BY <1>1, <2>1, <2>2 DEF HeldShaped
<1> QED
  BY <1>2, <1>4, <1>5, <1>6

\* What passes is what was built, whatever was overwritten in between: every part
\* has its digest twice, once carried and once computed afresh.
LEMMA FreshIsBuilt ==
    ASSUME AllNamed, NEW pins, Verdict(Held, pins) = "passed"
    PROVE  Fresh(Held) = Built /\ pins = PinsFrom(Built)
<1> DEFINE F == Fresh(Held)
<1>1. HeldShaped(Held) /\ PinsFrom(Held) = PinsFrom(Built)
  BY BuiltMade, OverwrittenShaped DEF Held
<1>2. pins = PinsFrom(Held) /\ pins = PinsFrom(F)
  BY PassedChecks DEF Pinned, PinsHold, PinsFrom
<1>3. /\ F.store = FeatureStore(Held.store)
      /\ F.statistics = FreshStatistics(Held.statistics)
      /\ F.scores = FreshScores(Held.scores)
      /\ F = [store |-> F.store, statistics |-> F.statistics, scores |-> F.scores]
  BY DEF Fresh
<1>4. CoefficientsAreValid(F.scores.coefficients)
  BY PassedChecks DEF ConstructorsAccept
<1> HIDE DEF F
<1>5. StoreMade(F.store)
  BY <1>1, <1>3, IdentifyMakes DEF FeatureStore, StoreMade, HeldShaped, StoreFields
<1>6. StatisticsMade(F.statistics) /\ ScoresMade(F.scores)
  BY <1>1, <1>3, FreshStatisticsMade, FreshScoresMade DEF HeldShaped
<1>7. /\ F.store.sha256 = Built.store.sha256
      /\ F.statistics.sha256 = Built.statistics.sha256
      /\ F.scores.sha256 = Built.scores.sha256
  BY <1>1, <1>2 DEF PinsFrom, PinsOf
<1>8. F.store = Built.store
  BY <1>5, <1>7, BuiltMade, MadeDetermines DEF StoreMade
<1>9. F.statistics = Built.statistics
  BY <1>6, <1>7, BuiltMade, StatisticsDetermined
<1>10. F.scores = Built.scores
  <2>1. F.scores.coefficients.widths
           = ActiveWidths(F.scores.coefficients.plan, F.scores.coefficients.masks)
    BY <1>4 DEF CoefficientsAreValid
  <2>2. Built.scores.coefficients.widths
           = ActiveWidths(Built.scores.coefficients.plan, Built.scores.coefficients.masks)
    BY BuiltMade
  <2>3. ScoresMade(Built.scores)
    BY BuiltMade
  <2> QED
    BY <1>6, <1>7, <2>1, <2>2, <2>3, ScoresDetermined
<1>11. Built = [store |-> Built.store, statistics |-> Built.statistics,
                scores |-> Built.scores]
  BY DEF Built
<1> QED
  BY <1>1, <1>2, <1>3, <1>8, <1>9, <1>10, <1>11 DEF F


\* What passes is one run: the digests of the parents tie the coefficients and the
\* statistics to the store, and the shards to its features.
LEMMA PassedIsRun ==
    ASSUME AllNamed, NEW pins, Verdict(Held, pins) = "passed"
    PROVE  LET run == <<store, solved[2][3]>>
           IN /\ run \in Finished
              /\ Fresh(Held) = RunOf(run[1], run[2])
              /\ pins = RunPins[run]
<1>1. /\ Fresh(Held) = Built /\ pins = PinsFrom(Built)
      /\ ParentsBelongTogether(Built.store, Built.statistics, Built.scores)
  BY FreshIsBuilt, PassedChecks DEF Related
<1>2. PICK s0 \in Names, s1 \in Names, t1 \in Names, r \in Ridges :
         /\ solved = <<s0, <<s1, t1, r>>>> /\ <<s1, t1, r>> \in Solvable
         /\ CoefficientsOf[solved[2]] = BuildCoefficients(StoreOf[s1], StatisticsOf[t1], r)
         /\ CoefficientsAdmitted(StoreOf[s1], StatisticsOf[t1])
         /\ CoefficientsBelong(StoreOf[s0], CoefficientsOf[solved[2]])
         /\ ScoresOf[solved] = BuildScores(StoreOf[s0], CoefficientsOf[solved[2]])
  BY BuiltParts
<1> DEFINE fits == BuildCoefficients(StoreOf[s1], StatisticsOf[t1], r)
           s == store
           t == statistics
<1>3. /\ Built.store = StoreOf[s] /\ Built.statistics = StatisticsOf[t]
      /\ Built.scores = BuildScores(StoreOf[s0], fits)
      /\ s \in Names /\ t \in Names /\ solved[2][3] = r
      /\ Built = [store |-> Built.store, statistics |-> Built.statistics,
                  scores |-> Built.scores]
  BY <1>2 DEF Built, AllNamed
<1>4. \A n \in Names : /\ StoreOf[n] = BuildStore(Source[n])
                       /\ StatisticsOf[n] = BuildStatistics(StoreOf[n])
                       /\ StoreMade(StoreOf[n])
                       /\ StatisticsMade(StatisticsOf[n])
                       /\ StatisticsOf[n].store = StoreOf[n].sha256
  BY BuildStoreMade, BuildStatisticsMade DEF StoreOf, StatisticsOf
<1>5. CoefficientsMade(fits) /\ fits.store = StoreOf[s1].sha256
      /\ fits.statistics = StatisticsOf[t1].sha256
  BY BuildCoefficientsMade
<1> HIDE DEF fits
<1>6. BuildScores(StoreOf[s0], fits).coefficients = fits
  BY <1>5, ScoresName
<1>7. /\ StatisticsOf[t].store = StoreOf[s].sha256
      /\ fits.store = StoreOf[s].sha256
      /\ fits.statistics = StatisticsOf[t].sha256
      /\ CoefficientsBelong(StoreOf[s], fits)
  BY <1>1, <1>3, <1>6
     DEF ParentsBelongTogether, StatisticsBelong, CoefficientsBelong
<1>8. fits.store = StoreOf[s0].sha256
  BY <1>2 DEF CoefficientsBelong, fits
<1>9. \A n \in {s0, s1, t} : StoreOf[n] = StoreOf[s]
  <2>1. \A n \in {s0, s1, t} : n \in Names /\ StoreOf[n].sha256 = StoreOf[s].sha256
    BY <1>3, <1>4, <1>5, <1>7, <1>8
  <2> QED
    BY <1>3, <1>4, <2>1, MadeDetermines DEF StoreMade
<1>10. StatisticsOf[t] = StatisticsOf[s]
  BY <1>3, <1>4, <1>9
<1>11. StatisticsOf[t1] = StatisticsOf[s]
  BY <1>3, <1>4, <1>5, <1>7, <1>10, StatisticsDetermined
<1>12. fits = BuildCoefficients(StoreOf[s], StatisticsOf[s], r)
  BY <1>9, <1>11 DEF fits
<1>13. <<s, s, r>> \in Solvable /\ CoefficientsOf[<<s, s, r>>] = fits
  <2>1. CoefficientsAdmitted(StoreOf[s], StatisticsOf[s])
    BY <1>2, <1>9, <1>11
  <2>2. StoreAdmitted(StoreOf[s].plan) /\ StatisticsAdmitted(StoreOf[s].plan)
    BY <1>2, <1>9 DEF Solvable
  <2>3. <<s, s, r>> \in Solvable
    BY <1>3, <2>1, <2>2 DEF Solvable
  <2> QED
    BY <1>12, <2>3 DEF CoefficientsOf
<1>14. <<s, <<s, s, r>>>> \in Scorable
  BY <1>3, <1>7, <1>13 DEF Scorable
<1>15. ScoresOf[<<s, <<s, s, r>>>>] = Built.scores
  BY <1>3, <1>9, <1>13, <1>14 DEF ScoresOf
<1>16. <<s, r>> \in Finished
  BY <1>3, <1>14 DEF Finished
<1>17. RunOf(s, r) = Built
  BY <1>3, <1>10, <1>15 DEF RunOf
<1>18. RunPins[<<s, r>>] = PinsFrom(Built)
  BY <1>16, <1>17 DEF RunPins
<1> QED
  BY <1>1, <1>3, <1>16, <1>17, <1>18

-----------------------------------------------------------------------------
(* The parser of a predictor.                                               *)

\* The final coefficient the constructor derives, and what its digest says.
FinalOf(a) ==
    [aggregate |-> a.lineage.aggregate, ridge |-> a.ridge, schema |-> a.schema,
     weights |-> [m \in DOMAIN a.models |-> a.models[m].weights],
     intercepts |-> [m \in DOMAIN a.models |-> a.models[m].bias],
     sha256 |-> Unhashed]

\* Two valid artifacts that name one final coefficient predict alike, before
\* calibration: their schema, ridge, weights and biases are the same.
LEMMA FinalDetermines ==
    ASSUME NEW a, NEW b, ArtifactIsValid(a), ArtifactIsValid(b),
           a.lineage.final = b.lineage.final
    PROVE  /\ a.schema = b.schema /\ a.ridge = b.ridge
           /\ DOMAIN a.models = DOMAIN b.models
           /\ \A m \in DOMAIN a.models :
                 /\ a.models[m].weights = b.models[m].weights
                 /\ a.models[m].bias = b.models[m].bias
<1>1. /\ FinalCoefficient(FinalOf(a)).sha256 = a.lineage.final
      /\ FinalCoefficient(FinalOf(b)).sha256 = b.lineage.final
  BY DEF ArtifactIsValid, FinalOf
<1>2. /\ "sha256" \in DOMAIN FinalOf(a) /\ "sha256" \in DOMAIN FinalOf(b)
      /\ DOMAIN FinalOf(a) = DOMAIN FinalOf(b)
  BY DEF FinalOf
<1>3. Sha256("final_coefficient", Without(FinalOf(a), {"sha256"}))
          = Sha256("final_coefficient", Without(FinalOf(b), {"sha256"}))
  BY <1>1, <1>2, IdentifiedAll DEF FinalCoefficient
<1>4. \A f \in DOMAIN FinalOf(a) \ {"sha256"} : FinalOf(a)[f] = FinalOf(b)[f]
  <2>1. Without(FinalOf(a), {"sha256"}) = Without(FinalOf(b), {"sha256"})
    BY <1>3, DigestsAgree
  <2> QED
    BY <1>2, <2>1, FieldsAgree
<1>5. \A f \in {"schema", "ridge", "weights", "intercepts"} : FinalOf(a)[f] = FinalOf(b)[f]
  BY <1>4 DEF FinalOf
<1>6. a.schema = b.schema /\ a.ridge = b.ridge
  BY <1>5 DEF FinalOf
<1>7. /\ [m \in DOMAIN a.models |-> a.models[m].weights]
            = [m \in DOMAIN b.models |-> b.models[m].weights]
      /\ [m \in DOMAIN a.models |-> a.models[m].bias]
            = [m \in DOMAIN b.models |-> b.models[m].bias]
  BY <1>5 DEF FinalOf
<1>8. /\ DOMAIN a.models = DOMAIN b.models
      /\ \A m \in DOMAIN a.models :
                 /\ a.models[m].weights = b.models[m].weights
                 /\ a.models[m].bias = b.models[m].bias
  <2> DEFINE F(x) == [m \in DOMAIN x.models |-> x.models[m].weights]
             G(x) == [m \in DOMAIN x.models |-> x.models[m].bias]
  <2>1. DOMAIN F(a) = DOMAIN a.models /\ DOMAIN F(b) = DOMAIN b.models
    OBVIOUS
  <2>2. DOMAIN a.models = DOMAIN b.models
    BY <1>7, <2>1
  <2>3. ASSUME NEW m \in DOMAIN a.models
        PROVE  /\ F(a)[m] = a.models[m].weights /\ F(b)[m] = b.models[m].weights
               /\ G(a)[m] = a.models[m].bias /\ G(b)[m] = b.models[m].bias
    BY <2>2
  <2> QED
    BY <1>7, <2>2, <2>3
<1> QED
  BY <1>6, <1>8

\* The shape of a predictor: what Assembled and its parts put into it.
StateShaped(model) ==
    /\ model = [weights |-> model.weights, bias |-> model.bias,
                calibrator |-> model.calibrator]
    /\ model.calibrator =
          [input |-> model.calibrator.input, fitted |-> model.calibrator.fitted,
           points |-> model.calibrator.points, identity |-> model.calibrator.identity]

SourceShaped(source) ==
    /\ source = [context |-> source.context, rows |-> source.rows, scores |-> source.scores,
                 shard |-> source.shard, targets |-> source.targets]
    /\ source.context = <<source.context[1], source.context[2]>>
    /\ source.rows \in Nat

LineageShaped(lineage) ==
    /\ lineage = [fit |-> lineage.fit, store |-> lineage.store,
                  statistics |-> lineage.statistics, scores |-> lineage.scores,
                  snapshot |-> lineage.snapshot, aggregate |-> lineage.aggregate,
                  final |-> lineage.final, sources |-> lineage.sources]
    /\ \E n \in Nat : lineage.sources = [d \in 1 .. n |-> lineage.sources[d]]
    /\ \A d \in DOMAIN lineage.sources : SourceShaped(lineage.sources[d])

Shaped(a) ==
    /\ a = [schema |-> a.schema, models |-> a.models, domains |-> a.domains,
            examples |-> a.examples, width |-> a.width, ridge |-> a.ridge,
            lineage |-> a.lineage]
    /\ a.models = [m \in DOMAIN a.models |-> a.models[m]]
    /\ \A m \in DOMAIN a.models : StateShaped(a.models[m])
    /\ LineageShaped(a.lineage)

\* A calibrator's identity covers its input, its map and its points.
LEMMA IdentityDetermines ==
    ASSUME NEW c, NEW e, CalibratorIdentity(c) = CalibratorIdentity(e)
    PROVE  c.input = e.input /\ c.fitted = e.fitted /\ c.points = e.points
<1>1. [input |-> c.input, fitted |-> c.fitted, points |-> c.points]
          = [input |-> e.input, fitted |-> e.fitted, points |-> e.points]
  BY DigestsAgree DEF CalibratorIdentity
<1> QED
  BY <1>1

\* A function on 1 .. n is a sequence of its length.
LEMMA FunctionsAreSequences ==
    ASSUME NEW n \in Nat, NEW w \in [1 .. n -> Nat]
    PROVE  w \in Seq(Nat) /\ Len(w) = n
<1>1. w \in Seq(Nat)
  OBVIOUS
<1>2. Len(w) = n
  OBVIOUS
<1> QED
  BY <1>1, <1>2

\* The total of the rows notices one row more.
LEMMA RowsCount ==
    ASSUME NEW n \in Nat, NEW r, NEW t,
           \A e \in 1 .. n : r[e].rows \in Nat /\ t[e].rows \in Nat,
           r = [e \in 1 .. n |-> r[e]], t = [e \in 1 .. n |-> t[e]],
           NEW d \in 1 .. n, t[d].rows = r[d].rows + 1,
           \A e \in 1 .. n : e # d => t[e].rows = r[e].rows
    PROVE  SourceRows(t) # SourceRows(r)
<1> DEFINE w == [e \in DOMAIN r |-> r[e].rows]
           v == [e \in DOMAIN t |-> t[e].rows]
<1>1. DOMAIN r = 1 .. n /\ DOMAIN t = 1 .. n
  OBVIOUS
<1>2. w \in Seq(Nat) /\ v \in Seq(Nat) /\ Len(w) = n /\ Len(v) = n
  <2>1. w \in [1 .. n -> Nat] /\ v \in [1 .. n -> Nat]
    BY <1>1
  <2> HIDE DEF w, v
  <2> QED
    BY <2>1, FunctionsAreSequences
<1>3. v[d] = w[d] + 1 /\ \A e \in 1 .. n : e # d => v[e] = w[e]
  BY <1>1
<1> HIDE DEF w, v
<1>4. Total(v) = Total(w) + 1 /\ Total(w) \in Nat
  BY <1>2, <1>3, TotalOfRaised, TotalIsNat
<1> QED
  BY <1>4 DEF SourceRows, w, v

\* A calibrator, apart from its identity.
LEMMA CalibratorsAgree ==
    ASSUME NEW c, NEW e, DOMAIN c = {"input", "fitted", "points", "identity"},
           DOMAIN e = DOMAIN c,
           c.input = e.input, c.fitted = e.fitted, c.points = e.points
    PROVE  Without(c, {"identity"}) = Without(e, {"identity"})
<1>1. \A f \in DOMAIN c \ {"identity"} : c[f] = e[f]
  OBVIOUS
<1> QED
  BY <1>1 DEF Without

\* What inference reads, from its parts.
LEMMA InferenceAgrees ==
    ASSUME NEW a, NEW b, a.schema = b.schema, a.ridge = b.ridge, a.domains = b.domains,
           a.examples = b.examples, DOMAIN a.models = DOMAIN b.models,
           \A m \in DOMAIN a.models :
              /\ a.models[m].weights = b.models[m].weights
              /\ a.models[m].bias = b.models[m].bias
              /\ Without(a.models[m].calibrator, {"identity"})
                    = Without(b.models[m].calibrator, {"identity"})
    PROVE  Inference(a) = Inference(b)
BY DEF Inference

\* What the parser accepts of a predictor with one damaged field infers as the
\* predictor does, and was calibrated from the same sources.
LEMMA DamageRefused ==
    ASSUME NEW a, Shaped(a), ParseAccepts(a),
           NEW field \in Fields, ParseAccepts(Damaged(a, field)),
           DOMAIN a.models # {}, a.domains # {}
    PROVE  /\ Inference(Damaged(a, field)) = Inference(a)
           /\ Damaged(a, field).lineage.sources = a.lineage.sources
<1> DEFINE b == Damaged(a, field)
           m == CHOOSE e \in DOMAIN a.models : TRUE
           d == CHOOSE e \in a.domains : TRUE
<1>1. m \in DOMAIN a.models /\ d \in a.domains
  OBVIOUS
<1>2. CASE field = "schema"
  <2>1. b = [a EXCEPT !.schema.scaling = Foreign]
    BY <1>2 DEF Damaged
  <2>2. b.models = a.models /\ b.lineage = a.lineage /\ b.ridge = a.ridge
        /\ b.domains = a.domains /\ b.examples = a.examples
    BY <2>1 DEF Shaped
  <2> HIDE DEF b
  <2>3. b.schema = a.schema
    BY <2>2, FinalDetermines DEF ParseAccepts, b
  <2> QED
    BY <2>2, <2>3 DEF Inference, b
<1>3. CASE field = "ridge"
  <2>1. b = [a EXCEPT !.ridge = Foreign]
    BY <1>3 DEF Damaged
  <2>2. b.models = a.models /\ b.lineage = a.lineage /\ b.schema = a.schema
        /\ b.domains = a.domains /\ b.examples = a.examples
    BY <2>1 DEF Shaped
  <2> HIDE DEF b
  <2>3. b.ridge = a.ridge
    BY <2>2, FinalDetermines DEF ParseAccepts, b
  <2> QED
    BY <2>2, <2>3 DEF Inference, b
<1>4. CASE field \in {"weights", "bias", "calibrator", "points", "identity"}
  <2>1. /\ b.lineage = a.lineage /\ b.ridge = a.ridge /\ b.schema = a.schema
        /\ b.domains = a.domains /\ b.examples = a.examples
        /\ DOMAIN b.models = DOMAIN a.models
        /\ \A e \in DOMAIN a.models \ {m} : b.models[e] = a.models[e]
    BY <1>1, <1>4 DEF Damaged, Shaped
  <2>2. field \in {"weights", "bias"} => b.models[m].calibrator = a.models[m].calibrator
    <3>1. CASE field = "weights"
      <4>1. b.models[m] = [a.models[m] EXCEPT !.weights.model = Foreign]
        BY <1>1, <3>1 DEF Damaged, Shaped
      <4> QED
        BY <1>1, <4>1 DEF Shaped, StateShaped
    <3>2. CASE field = "bias"
      <4>1. b.models[m] = [a.models[m] EXCEPT !.bias.ridge = Foreign]
        BY <1>1, <3>2 DEF Damaged, Shaped
      <4> QED
        BY <1>1, <4>1 DEF Shaped, StateShaped
    <3> QED
      BY <3>1, <3>2
  <2> DEFINE c == a.models[m].calibrator
             New(e) == b.models[m] = [a.models[m] EXCEPT !.calibrator = e]
  <2>3. DOMAIN c = {"input", "fitted", "points", "identity"}
    BY <1>1 DEF Shaped, StateShaped
  <2>4. /\ field = "calibrator" => New([c EXCEPT !.fitted = Foreign])
        /\ field = "points" => New([c EXCEPT !.points = @ + 1])
        /\ field = "identity" => New([c EXCEPT !.identity = Foreign])
    BY <1>1 DEF Damaged, Shaped
  <2>8. ASSUME NEW e, New(e) PROVE b.models[m].calibrator = e
    BY <1>1, <2>8 DEF Shaped, StateShaped
  <2>9. /\ DOMAIN b.models[m].calibrator = DOMAIN c
        /\ field = "identity" => /\ b.models[m].calibrator.input = c.input
                                 /\ b.models[m].calibrator.fitted = c.fitted
                                 /\ b.models[m].calibrator.points = c.points
        /\ field \in {"calibrator", "points"} =>
              b.models[m].calibrator.identity = c.identity
    <3>1. CASE field \in {"weights", "bias"}
      BY <2>2, <3>1
    <3>2. CASE field = "calibrator"
      <4>1. b.models[m].calibrator = [c EXCEPT !.fitted = Foreign]
        BY <2>4, <2>8, <3>2
      <4> QED
        BY <2>3, <3>2, <4>1
    <3>3. CASE field = "points"
      <4>1. b.models[m].calibrator = [c EXCEPT !.points = @ + 1]
        BY <2>4, <2>8, <3>3
      <4> QED
        BY <2>3, <3>3, <4>1
    <3>4. CASE field = "identity"
      <4>1. b.models[m].calibrator = [c EXCEPT !.identity = Foreign]
        BY <2>4, <2>8, <3>4
      <4> QED
        BY <2>3, <3>4, <4>1
    <3> QED
      BY <1>4, <3>1, <3>2, <3>3, <3>4
  <2>5. ParseAccepts(b)
    OBVIOUS
  <2> HIDE DEF b
  <2>6. \A e \in DOMAIN a.models : /\ b.models[e].weights = a.models[e].weights
                                   /\ b.models[e].bias = a.models[e].bias
    BY <2>1, <2>5, FinalDetermines DEF ParseAccepts
  <2>7. Without(b.models[m].calibrator, {"identity"})
           = Without(a.models[m].calibrator, {"identity"})
    <3>1. CASE field \in {"weights", "bias"}
      BY <2>2, <3>1
    <3>2. CASE field = "identity"
      BY <2>3, <2>9, <3>2, CalibratorsAgree
    <3>3. CASE field \in {"calibrator", "points"}
      <4>1. CalibratorIdentity(b.models[m].calibrator)
                = CalibratorIdentity(a.models[m].calibrator)
        BY <1>1, <2>1, <2>5, <2>9, <3>3 DEF ParseAccepts
      <4> QED
        BY <2>3, <2>9, <4>1, IdentityDetermines, CalibratorsAgree
    <3> QED
      BY <1>4, <3>1, <3>2, <3>3
  <2> QED
    BY <2>1, <2>6, <2>7, InferenceAgrees DEF b
<1>5. CASE field \in {"aggregate", "final", "store"}
  BY <1>5 DEF Damaged, Shaped, LineageShaped, Inference
<1>6. CASE field = "examples"
  <2>1. b = [a EXCEPT !.examples = @ + 1]
    BY <1>6 DEF Damaged
  <2>2. b.models = a.models /\ b.lineage = a.lineage /\ b.schema = a.schema
        /\ b.domains = a.domains /\ b.ridge = a.ridge
    BY <2>1 DEF Shaped
  <2> HIDE DEF b
  <2>3. b.examples = a.examples
    BY <2>2 DEF ParseAccepts, ArtifactIsValid, b
  <2> QED
    BY <2>2, <2>3 DEF Inference, b
<1>7. CASE field \in {"context", "rows"}
  <2>1. /\ b.models = a.models /\ b.ridge = a.ridge /\ b.schema = a.schema
        /\ b.domains = a.domains /\ b.examples = a.examples
    BY <1>7 DEF Damaged, Shaped
  <2>2. d \in DOMAIN a.lineage.sources
    BY <1>1 DEF ParseAccepts, ArtifactIsValid, SourcesAreSemantic
  <2>3. PICK n \in Nat : a.lineage.sources = [e \in 1 .. n |-> a.lineage.sources[e]]
    BY DEF Shaped, LineageShaped
  <2>4. /\ DOMAIN a.lineage.sources = 1 .. n
        /\ \A e \in 1 .. n : SourceShaped(a.lineage.sources[e])
    BY <2>3 DEF Shaped, LineageShaped
  <2>5. CASE field = "context"
    <3> DEFINE r == a.lineage.sources
               c == r[d].context
               new == [r[d] EXCEPT !.context = <<c[1] \cup {d}, c[2]>>]
    <3>7. b.lineage = [a.lineage EXCEPT !.sources[d].context[1] = @ \cup {d}]
      BY <2>5 DEF Damaged, Shaped
    <3>8. b.lineage.sources = [r EXCEPT ![d].context[1] = @ \cup {d}]
      BY <3>7 DEF Shaped, LineageShaped
    <3>9. [c EXCEPT ![1] = @ \cup {d}] = <<c[1] \cup {d}, c[2]>>
      <4>1. c = <<c[1], c[2]>>
        BY <2>2, <2>4 DEF SourceShaped
      <4> HIDE DEF c
      <4>2. \A x, y : [<<x, y>> EXCEPT ![1] = @ \cup {d}] = <<x \cup {d}, y>>
        OBVIOUS
      <4> QED
        BY <4>1, <4>2
    <3>1. b.lineage.sources = [r EXCEPT ![d] = new]
      BY <3>8, <3>9
    <3>2. b.lineage.sources[d].context = a.lineage.sources[d].context
      BY <1>1, <2>1 DEF ParseAccepts, ArtifactIsValid, SourcesAreSemantic, Context
    <3>3. b.lineage.sources[d] = new
      BY <2>2, <3>1
    <3>4. new.context = a.lineage.sources[d].context
      BY <3>2, <3>3
    <3>5. new = a.lineage.sources[d]
      <4>1. SourceShaped(r[d])
        BY <2>2, <2>4
      <4> HIDE DEF r
      <4>2. new.context = <<c[1] \cup {d}, c[2]>>
        BY <4>1 DEF SourceShaped
      <4>3. <<c[1] \cup {d}, c[2]>> = r[d].context
        BY <3>4, <4>2 DEF r
      <4>4. new = [r[d] EXCEPT !.context = r[d].context]
        BY <4>3
      <4> HIDE DEF new
      <4>5. new = r[d]
        BY <4>1, <4>4 DEF SourceShaped
      <4> QED
        BY <4>5 DEF r
    <3> HIDE DEF new
    <3>6. b.lineage.sources = a.lineage.sources
      BY <2>2, <2>3, <3>1, <3>5
    <3> QED
      BY <2>1, <3>6 DEF Inference
  <2>6. CASE field = "rows"
    <3>1. b.lineage.sources
              = [a.lineage.sources EXCEPT ![d] = [a.lineage.sources[d] EXCEPT !.rows = @ + 1]]
      BY <2>2, <2>6 DEF Damaged, Shaped, LineageShaped
    <3> DEFINE r == a.lineage.sources
               t == b.lineage.sources
    <3>2. /\ t = [e \in 1 .. n |-> t[e]]
          /\ \A e \in 1 .. n : e # d => t[e] = r[e]
          /\ t[d].rows = r[d].rows + 1
      BY <2>2, <2>3, <2>4, <3>1 DEF SourceShaped
    <3>3. \A e \in 1 .. n : r[e].rows \in Nat
      BY <2>4 DEF SourceShaped
    <3>4. SourceRows(t) = SourceRows(r)
      BY <2>1 DEF ParseAccepts, ArtifactIsValid
    <3>5. d \in 1 .. n /\ r = [e \in 1 .. n |-> r[e]]
      BY <2>2, <2>3, <2>4
    <3> HIDE DEF r, t
    <3>6. \A e \in 1 .. n : r[e].rows \in Nat /\ t[e].rows \in Nat
      <4> HIDE DEF b, d
      <4> QED
        BY <3>2, <3>3, <3>5
    <3>7. SourceRows(t) # SourceRows(r)
      <4>1. \A e \in 1 .. n : e # d => t[e].rows = r[e].rows
        BY <3>2
      <4> HIDE DEF b, d
      <4> QED
        BY <3>2, <3>5, <3>6, <4>1, RowsCount
    <3> QED
      BY <3>4, <3>7
  <2> QED
    BY <1>7, <2>5, <2>6
<1> QED
  BY <1>2, <1>3, <1>4, <1>5, <1>6, <1>7 DEF Fields

-----------------------------------------------------------------------------
(* The predictor, and the session.                                          *)

\* A join keeps its context, its rows and three digests.
LEMMA SourcesShaped ==
    ASSUME NEW of, NEW scored, NEW shards, NEW n \in Nat, of.plan.domains = 1 .. n,
           \A d \in 1 .. n : of.plan.rows[d] \in Nat
    PROVE  LET sources == CalibrationSources(of, scored, shards)
           IN /\ sources = [d \in 1 .. n |-> sources[d]]
              /\ \A d \in 1 .. n : SourceShaped(sources[d])
<1> DEFINE sources == CalibrationSources(of, scored, shards)
           T == TargetShards(of, shards)
           C(d) == CalibrationSource(Context(of.plan, d), of.plan.rows[d],
                                     scored.blocks[Context(of.plan, d)], T[d])
<1>1. sources = [d \in 1 .. n |-> C(d)]
  BY DEF CalibrationSources
<1>2. \A d \in 1 .. n : SourceShaped(C(d))
  BY DEF SourceShaped, CalibrationSource, Context
<1> HIDE DEF C, sources
<1>3. \A d \in 1 .. n : sources[d] = C(d)
  BY <1>1
<1>4. sources = [d \in 1 .. n |-> sources[d]]
  BY <1>1, <1>3
<1> QED
  BY <1>2, <1>3, <1>4 DEF sources

\* What is assembled has the shape of a predictor.
LEMMA AssembledShaped ==
    ASSUME NEW of, NEW summary, NEW scored, NEW points, NEW n \in Nat,
           of.plan.domains = 1 .. n, \A d \in 1 .. n : of.plan.rows[d] \in Nat
    PROVE  /\ Shaped(Assembled(of, summary, scored, points))
           /\ DOMAIN Assembled(of, summary, scored, points).models = of.plan.models
           /\ Assembled(of, summary, scored, points).domains = of.plan.domains
<1> DEFINE shards == BuildShards(of)
           aggregate == AllDomainStatistics(of, summary)
           final == SolveAllDomains(aggregate, scored.coefficients.ridge)
           sources == CalibrationSources(of, scored, shards)
           a == Assembled(of, summary, scored, points)
           P(m) == JoinedPairs(of, scored, m)
           I(m) == CalibrationInput(m, sources, P(m))
           K(m) == FitCalibrator(m, sources, P(m), points)
           S(m) == ModelState(final.weights[m], final.intercepts[m], K(m))
           L == Lineage(PinsOf(of, summary, scored), of.snapshot, aggregate, final, sources)
           models == [m \in of.plan.models |-> S(m)]
           examples == RowCount(of.plan, of.plan.domains)
           width == ActiveWidth(of.plan, AllTags(summary))
<1>1. a = [schema |-> final.schema, models |-> models, domains |-> of.plan.domains,
           examples |-> examples, width |-> width, ridge |-> final.ridge, lineage |-> L]
  BY DEF Assembled
<1>2. /\ sources = [d \in 1 .. n |-> sources[d]]
      /\ \A d \in 1 .. n : SourceShaped(sources[d])
  BY SourcesShaped
<1> HIDE DEF final, sources, aggregate, shards, examples, width
<1>3. ASSUME NEW m PROVE StateShaped(S(m))
  <2>1. K(m) = [input |-> K(m).input, fitted |-> K(m).fitted, points |-> K(m).points,
                identity |-> K(m).identity]
    <3> HIDE DEF P
    <3> QED
      BY DEF FitCalibrator
  <2> HIDE DEF K
  <2> QED
    BY <2>1 DEF StateShaped, ModelState
<1> HIDE DEF S
<1>4. LineageShaped(L)
  <2>1. L.sources = sources /\ DOMAIN sources = 1 .. n
    BY <1>2 DEF Lineage
  <2>2. /\ \E k \in Nat : L.sources = [d \in 1 .. k |-> L.sources[d]]
        /\ \A d \in DOMAIN L.sources : SourceShaped(L.sources[d])
    BY <1>2, <2>1
  <2>3. L = [fit |-> L.fit, store |-> L.store, statistics |-> L.statistics,
             scores |-> L.scores, snapshot |-> L.snapshot, aggregate |-> L.aggregate,
             final |-> L.final, sources |-> L.sources]
    BY DEF Lineage
  <2> HIDE DEF L
  <2> QED
    BY <2>2, <2>3 DEF LineageShaped
<1> HIDE DEF L
<1>5. /\ DOMAIN models = of.plan.models
      /\ \A m \in of.plan.models : models[m] = S(m)
      /\ models = [m \in DOMAIN models |-> models[m]]
  OBVIOUS
<1> HIDE DEF models, a
<1>6. /\ a.models = models /\ a.lineage = L /\ a.domains = of.plan.domains
      /\ a = [schema |-> a.schema, models |-> a.models, domains |-> a.domains,
              examples |-> a.examples, width |-> a.width, ridge |-> a.ridge,
              lineage |-> a.lineage]
  BY <1>1
<1>7. Shaped(a)
  BY <1>3, <1>4, <1>5, <1>6 DEF Shaped
<1> QED
  BY <1>5, <1>6, <1>7 DEF a

\* The plan of a source has its domains 1..n, with rows in each, and a model.
LEMMA PlanOfSource ==
    ASSUME NEW s \in Names
    PROVE  \E n \in Nat \ {0} :
              /\ Plan(Source[s]).domains = 1 .. n
              /\ \A d \in 1 .. n : Plan(Source[s]).rows[d] \in Nat
              /\ Plan(Source[s]).models # {}
<1>1. Source[s].rows \in Seq(Nat \ {0}) /\ Source[s].rows # << >> /\ Source[s].models # {}
  BY EvidenceAssumption DEF Names
<1>2. DOMAIN Source[s].rows = 1 .. Len(Source[s].rows) /\ Len(Source[s].rows) \in Nat \ {0}
  BY <1>1
<1>3. /\ Plan(Source[s]).domains = DOMAIN Source[s].rows
      /\ Plan(Source[s]).rows = Source[s].rows /\ Plan(Source[s]).models = Source[s].models
  BY DEF Plan, Domains
<1>4. \A d \in 1 .. Len(Source[s].rows) : Source[s].rows[d] \in Nat
  BY <1>1
<1> QED
  BY <1>1, <1>2, <1>3, <1>4

\* The predictor that came out of an assembly has the shape of one.
LEMMA PredictorShaped ==
    ASSUME AllNamed, NEW pins, Verdict(Held, pins) = "passed"
    PROVE  /\ Shaped(Predictor) /\ DOMAIN Predictor.models # {}
           /\ Predictor.domains # {}
<1> DEFINE F == Fresh(Held)
<1>1. F = Built
  BY FreshIsBuilt
<1>2. F.store.plan = Plan(Source[store])
  BY <1>1, BuiltMade
<1>3. PICK n \in Nat \ {0} :
          /\ Plan(Source[store]).domains = 1 .. n
          /\ \A d \in 1 .. n : Plan(Source[store]).rows[d] \in Nat
          /\ Plan(Source[store]).models # {}
  BY PlanOfSource DEF AllNamed
<1> HIDE DEF F
<1>4. Predictor = Assembled(F.store, F.statistics, F.scores, attempt.points)
  BY DEF Predictor, PredictorOf, F
<1>5. /\ Shaped(Predictor) /\ DOMAIN Predictor.models = F.store.plan.models
      /\ Predictor.domains = F.store.plan.domains
  BY <1>2, <1>3, <1>4, AssembledShaped
<1>6. 1 \in 1 .. n
  BY <1>3
<1>7. DOMAIN Predictor.models # {} /\ Predictor.domains # {}
  BY <1>2, <1>3, <1>5, <1>6
<1> QED
  BY <1>5, <1>7

(* What is held has a name, what was assembled passed the checks, and a document *)
(* is of that predictor.                                                         *)
PartsNamed ==
    /\ store # None => store \in Names
    /\ statistics # None => statistics \in Names
    /\ solved # None => (\E x \in Solvable : solved = <<x>>) \/ solved \in Scorable

AttemptJudged ==
    attempt # None =>
        LET verdict == Verdict(Held, Pins(attempt.pins))
            plan == StoreOf[store].plan
        IN /\ AllHeld
           /\ verdict # "passed" => attempt.outcome = verdict
           /\ verdict = "passed" =>
                 \E points \in {1, RowCount(plan, plan.domains)} :
                    attempt.outcome = IF ArtifactFits(PredictorOf(Fresh(Held), points))
                                      THEN "assembled" ELSE "too_large_after_all"

AttemptPassed ==
    attempt # None /\ attempt.outcome = "assembled" =>
        AllHeld /\ Verdict(Held, Pins(attempt.pins)) = "passed"

DocumentRead ==
    document # None =>
        /\ attempt # None /\ attempt.outcome = "assembled"
        /\ ParseAccepts(Predictor)
        /\ document.damage \in Fields \cup {None}
        /\ document.accepted => ParseAccepts(Found(document.damage))
        /\ document.pinned => (document.accepted <=> Found(document.damage) = Predictor)

EInv == PartsNamed /\ AttemptJudged /\ DocumentRead

\* No check is called as an assembly that succeeds is.
LEMMA JudgedIsPassed ==
    ASSUME AttemptJudged
    PROVE  AttemptPassed
<1>1. \A h, pins : Verdict(h, pins) # "assembled"
  BY DEF Verdict
<1> QED
  BY <1>1 DEF AttemptJudged, AttemptPassed

\* A pair is not a singleton tuple, so both parts of the scores are named.
LEMMA HeldIsNamed ==
    ASSUME PartsNamed, AllHeld
    PROVE  AllNamed
<1>1. store \in Names /\ statistics \in Names /\ solved # None
  BY DEF PartsNamed, AllHeld
<1>2. ASSUME NEW x, solved = <<x>> PROVE FALSE
  BY <1>2 DEF AllHeld
<1> QED
  BY <1>1, <1>2 DEF PartsNamed, AllNamed

\* The predictor is a function of what is held and what was attempted.
LEMMA PredictorStays ==
    ASSUME UNCHANGED <<store, statistics, solved, changed, attempt>>
    PROVE  /\ Predictor' = Predictor /\ AllHeld' = AllHeld
           /\ Held' = Held /\ Pins(attempt.pins)' = Pins(attempt.pins)
           /\ \A field : Found(field)' = Found(field)
<1>1. Built' = Built
  BY DEF Built
<1>2. Held' = Held
  BY <1>1 DEF Held
<1>3. Predictor' = Predictor
  BY <1>2 DEF Predictor
<1>4. Pins(attempt.pins)' = Pins(attempt.pins)
  BY <1>1 DEF Pins
<1>5. \A field : Found(field)' = Found(field)
  BY <1>3 DEF Found
<1>6. AllHeld' = AllHeld
  BY DEF AllHeld
<1> QED
  BY <1>2, <1>3, <1>4, <1>5, <1>6

LEMMA EInvInit == Init => EInv
BY DEF Init, EInv, PartsNamed, AttemptJudged, DocumentRead

LEMMA EInvNext ==
    ASSUME EInv, [Next]_vars
    PROVE  EInv'
<1> USE DEF EInv
<1> DEFINE same == <<store, statistics, solved, changed, attempt>>
<1>1. CASE RunBuildStore \/ RunBuildStatistics \/ RunBuildCoefficients \/ RunBuildScores
  <2>1. attempt = None /\ attempt' = None /\ document = None /\ document' = None
    BY <1>1 DEF RunBuildStore, RunBuildStatistics, RunBuildCoefficients, RunBuildScores,
                Working, DocumentRead
  <2>2. AttemptJudged' /\ DocumentRead'
    BY <2>1 DEF AttemptJudged, DocumentRead
  <2>3. CASE RunBuildStore
    <3>1. store' \in Session /\ UNCHANGED <<statistics, solved>>
      BY <2>3 DEF RunBuildStore
    <3>2. Session \subseteq Names
      BY EvidenceAssumption DEF Session, PartsNamed, Names
    <3> QED
      BY <2>2, <3>1, <3>2 DEF PartsNamed
  <2>4. CASE RunBuildStatistics
    BY <2>2, <2>4 DEF RunBuildStatistics, PartsNamed
  <2>5. CASE RunBuildCoefficients
    BY <2>2, <2>5 DEF RunBuildCoefficients, PartsNamed
  <2>6. CASE RunBuildScores
    BY <2>2, <2>6 DEF RunBuildScores, PartsNamed
  <2> QED
    BY <1>1, <2>2, <2>3, <2>4, <2>5, <2>6
<1>2. CASE Overwrite
  <2>1. attempt' = None /\ document' = None
    BY <1>2 DEF Overwrite, Working, DocumentRead
  <2>2. PartsNamed'
    BY <1>2 DEF Overwrite, PartsNamed
  <2> QED
    BY <2>1, <2>2 DEF AttemptJudged, DocumentRead
<1>3. CASE Assemble
  <2>1. document' = None /\ PartsNamed'
    BY <1>3 DEF Assemble, DocumentRead, PartsNamed
  <2>2. AttemptJudged'
    <3>1. /\ AllHeld' = AllHeld /\ AllHeld /\ Held' = Held
          /\ \A pinned : Pins(pinned)' = Pins(pinned)
      <4>1. UNCHANGED <<store, statistics, solved, changed>> /\ AllHeld
        BY <1>3 DEF Assemble
      <4>2. Built' = Built /\ AllHeld' = AllHeld
        BY <4>1 DEF Built, AllHeld
      <4> QED
        BY <4>1, <4>2 DEF Held, Pins
    <3>2. PICK pinned \in Pinnings :
            LET verdict == Verdict(Held, Pins(pinned))
                plan == StoreOf[store].plan
            IN /\ attempt'.pins = pinned
               /\ verdict # "passed" => attempt'.outcome = verdict
               /\ verdict = "passed" =>
                     \E points \in {1, RowCount(plan, plan.domains)} :
                        attempt'.outcome = IF ArtifactFits(PredictorOf(Fresh(Held), points))
                                           THEN "assembled" ELSE "too_large_after_all"
      BY <1>3 DEF Assemble
    <3>3. Verdict(Held, Pins(attempt.pins))' = Verdict(Held, Pins(pinned))
      BY <3>1, <3>2
    <3>4. /\ StoreOf[store]' = StoreOf[store]
          /\ \A points : ArtifactFits(PredictorOf(Fresh(Held), points))'
                            = ArtifactFits(PredictorOf(Fresh(Held), points))
      BY <1>3, <3>1 DEF Assemble
    <3> QED
      BY <3>1, <3>2, <3>3, <3>4 DEF AttemptJudged
  <2> QED
    BY <2>1, <2>2 DEF DocumentRead
<1>4. ASSUME UNCHANGED same
      PROVE  /\ PartsNamed' /\ AttemptJudged' /\ Predictor' = Predictor
             /\ \A field : Found(field)' = Found(field)
  <2>1. PartsNamed'
    BY <1>4 DEF PartsNamed
  <2>2. /\ Predictor' = Predictor /\ AllHeld' = AllHeld
        /\ Held' = Held /\ Pins(attempt.pins)' = Pins(attempt.pins)
        /\ \A field : Found(field)' = Found(field)
    BY <1>4, PredictorStays
  <2>3. AttemptJudged'
    <3>1. /\ Verdict(Held, Pins(attempt.pins))' = Verdict(Held, Pins(attempt.pins))
          /\ StoreOf[store]' = StoreOf[store]
          /\ \A points : ArtifactFits(PredictorOf(Fresh(Held), points))'
                            = ArtifactFits(PredictorOf(Fresh(Held), points))
      BY <1>4, <2>2
    <3> QED
      BY <1>4, <2>2, <3>1 DEF AttemptJudged
  <2> QED
    BY <2>1, <2>2, <2>3
<1>5. CASE Save
  <2>1. /\ UNCHANGED same /\ attempt # None /\ attempt.outcome = "assembled"
        /\ ParseAccepts(Predictor) /\ document'.damage = None
        /\ ~document'.accepted /\ ~document'.pinned
    BY <1>5 DEF Save, SaveOneStage
  <2> QED
    BY <1>4, <2>1 DEF DocumentRead
<1>6. CASE Parse
  <2>1. /\ UNCHANGED same /\ document # None
    BY <1>6 DEF Parse, Unread
  <2>2. PICK field \in Fields :
          document' = [damage |-> field, pinned |-> FALSE,
                       accepted |-> ParseAccepts(Found(field))]
    BY <1>6 DEF Parse
  <2>3. /\ document'.damage = field /\ ~document'.pinned
        /\ document'.accepted => ParseAccepts(Found(field))
    BY <2>2
  <2> QED
    BY <1>4, <2>1, <2>3 DEF DocumentRead
<1>7. CASE Load
  <2>1. /\ UNCHANGED same /\ document # None
    BY <1>7 DEF Load, Unread
  <2>2. PICK field \in Fields \cup {None} :
          document' = [damage |-> field, pinned |-> TRUE,
                       accepted |-> /\ PinnedBytes(Found(field)) = PinnedBytes(Predictor)
                                    /\ ParseAccepts(Found(field))]
    BY <1>7 DEF Load
  <2>3. PinnedBytes(Found(field)) = PinnedBytes(Predictor) <=> Found(field) = Predictor
    BY DigestsAgree DEF PinnedBytes
  <2>4. /\ document'.damage = field
        /\ document'.accepted <=> /\ PinnedBytes(Found(field)) = PinnedBytes(Predictor)
                                  /\ ParseAccepts(Found(field))
    BY <2>2
  <2>5. ParseAccepts(Predictor)
    BY <2>1 DEF DocumentRead
  <2>6. document'.accepted <=> Found(field) = Predictor
    BY <2>3, <2>4, <2>5
  <2> QED
    BY <1>4, <2>1, <2>4, <2>6 DEF DocumentRead
<1>8. CASE UNCHANGED vars
  <2>1. UNCHANGED same /\ document' = document
    BY <1>8 DEF vars
  <2> QED
    BY <1>4, <2>1 DEF DocumentRead
<1> QED
  BY <1>1, <1>2, <1>3, <1>5, <1>6, <1>7, <1>8 DEF Next

LEMMA EvidenceInductive == Spec => []EInv
<1>1. Init => EInv
  BY EInvInit
<1>2. EInv /\ [Next]_vars => EInv'
  BY EInvNext
<1> QED
  BY <1>1, <1>2, PTL DEF Spec

(* Whatever was rebuilt, mixed or overwritten, the predictor that comes out is  *)
(* that of one undisturbed run, under the pins of that run                      *)
(* (assemble_prepared_bilinear_artifact).                                       *)
THEOREM OneLineage == Spec => []PredictorIsOneLineage
<1>1. EInv => PredictorIsOneLineage
  <2> SUFFICES ASSUME EInv, Accepted
               PROVE  \E run \in Finished :
                         /\ Pins(attempt.pins) = RunPins[run]
                         /\ Predictor = PredictorOf(RunOf(run[1], run[2]), attempt.points)
    BY DEF PredictorIsOneLineage
  <2>1. AllNamed /\ Verdict(Held, Pins(attempt.pins)) = "passed"
    BY HeldIsNamed, JudgedIsPassed DEF EInv, AttemptPassed, Accepted
  <2> DEFINE run == <<store, solved[2][3]>>
  <2>2. /\ run \in Finished /\ Fresh(Held) = RunOf(run[1], run[2])
        /\ Pins(attempt.pins) = RunPins[run]
    BY <2>1, PassedIsRun
  <2> QED
    BY <2>2 DEF Predictor
<1> QED
  BY <1>1, EvidenceInductive, PTL

(* No single damaged field that a prediction or the calibration sources depend  *)
(* on survives the parser, and under a pin only what was saved is accepted      *)
(* (the constructor of the artifact and the loader of prepared_artifacts.py).   *)
THEOREM DamageNeverInfers == Spec => []DamagedInferenceRefused
<1>1. EInv => DamagedInferenceRefused
  <2> SUFFICES ASSUME EInv, document # None, document.accepted
               PROVE  /\ Inference(Found(document.damage)) = Inference(Predictor)
                      /\ Found(document.damage).lineage.sources = Predictor.lineage.sources
    BY DEF DamagedInferenceRefused, EInv, DocumentRead
  <2>1. /\ ParseAccepts(Predictor) /\ ParseAccepts(Found(document.damage))
        /\ document.damage \in Fields \cup {None}
        /\ attempt # None /\ attempt.outcome = "assembled"
    BY DEF EInv, DocumentRead
  <2>2. CASE document.damage = None
    BY <2>2 DEF Found
  <2>3. CASE document.damage # None
    <3>1. document.damage \in Fields /\ Found(document.damage) = Damaged(Predictor, document.damage)
      BY <2>1, <2>3 DEF Found
    <3>2. /\ Shaped(Predictor) /\ DOMAIN Predictor.models # {}
          /\ Predictor.domains # {}
      BY <2>1, HeldIsNamed, JudgedIsPassed, PredictorShaped DEF EInv, AttemptPassed
    <3> QED
      BY <2>1, <3>1, <3>2, DamageRefused
  <2> QED
    BY <2>2, <2>3
<1> QED
  BY <1>1, EvidenceInductive, PTL

-----------------------------------------------------------------------------
(* What a score of a held-out domain may depend on.                         *)

\* What the statistics keep of one domain.
LEMMA ChildParts ==
    ASSUME NEW of, NEW e \in of.plan.domains
    PROVE  /\ BuildStatistics(of).children[e].tags = of.features[e].tags
           /\ BuildStatistics(of).children[e].content = DomainContent(of, e)
           /\ BuildStatistics(of).children[e].moments = Moments(of, e)
<1> DEFINE child == [domain |-> e, rows |-> of.plan.rows[e], tags |-> of.features[e].tags,
                     content |-> DomainContent(of, e), moments |-> Moments(of, e),
                     sha256 |-> Unhashed]
<1>1. BuildStatistics(of).children[e] = IdentifyAll(child, "domain_statistics")
  <2> DEFINE C == [d \in of.plan.domains |->
                     DomainStatistics([domain |-> d, rows |-> of.plan.rows[d],
                                       tags |-> of.features[d].tags,
                                       content |-> DomainContent(of, d),
                                       moments |-> Moments(of, d), sha256 |-> Unhashed])]
  <2>1. C[e] = IdentifyAll(child, "domain_statistics")
    BY DEF DomainStatistics
  <2>2. BuildStatistics(of).children = C
    <3> HIDE DEF C
    <3> QED
      BY DEF BuildStatistics, StatisticsBundle, Identify, C
  <2> QED
    BY <2>1, <2>2
<1>2. /\ {"tags", "content", "moments"} \subseteq DOMAIN child \ {"sha256"}
      /\ "sha256" \in DOMAIN child
      /\ child.tags = of.features[e].tags /\ child.content = DomainContent(of, e)
      /\ child.moments = Moments(of, e)
  OBVIOUS
<1> HIDE DEF child
<1> QED
  BY <1>1, <1>2, IdentifiedAll

\* A subset's solution looks at the plan, the identity, and its own domains' children.
LEMMA SubsetAgrees ==
    ASSUME NEW x, NEW y, x.plan = y.plan, x.identity = y.identity, NEW q, NEW ridge,
           \A e \in q : /\ x.children[e].tags = y.children[e].tags
                       /\ x.children[e].content = y.children[e].content
                       /\ x.children[e].moments = y.children[e].moments
    PROVE  SolveSubset(x, q, ridge) = SolveSubset(y, q, ridge)
<1>1. {x.children[e].tags : e \in q} = {y.children[e].tags : e \in q}
  OBVIOUS
<1>2. TagsOf(x.children, q) = TagsOf(y.children, q)
  BY <1>1 DEF TagsOf
<1>3. IncludedContent(x, q) = IncludedContent(y, q) /\ Combined(x, q) = Combined(y, q)
  BY DEF IncludedContent, Combined
<1>4. SubsetStatistics(x, q) = SubsetStatistics(y, q)
  BY <1>2, <1>3 DEF SubsetStatistics
<1> QED
  BY <1>4 DEF SolveSubset

\* Solutions with one digest are of one plan, subset, ridge and content.
LEMMA SubsetSeparates ==
    ASSUME NEW x, NEW y, NEW q, NEW p, NEW ridge, NEW u,
           SolveSubset(x, q, ridge).sha256 = SolveSubset(y, p, u).sha256
    PROVE  /\ x.plan = y.plan /\ q = p /\ ridge = u
           /\ \A e \in q : x.children[e].content = y.children[e].content
<1> DEFINE a == SolvedRecord(x, q, ridge)
           b == SolvedRecord(y, p, u)
<1>1. /\ SolveSubset(x, q, ridge) = IdentifyAll(a, "coefficient")
      /\ SolveSubset(y, p, u) = IdentifyAll(b, "coefficient")
  BY DEF SolveSubset, SolvedRecord, CoefficientBlock
<1>2. /\ DOMAIN a = CoefficientFields /\ DOMAIN b = CoefficientFields
      /\ a.plan = x.plan /\ b.plan = y.plan /\ a.subset = q /\ b.subset = p
      /\ a.ridge = ridge /\ b.ridge = u
      /\ a.included = SubsetStatistics(x, q).included
      /\ b.included = SubsetStatistics(y, p).included
  BY DEF SolvedRecord, CoefficientFields
<1>3. \A z, s : SubsetStatistics(z, s).included = IncludedContent(z, s)
  <2> SUFFICES ASSUME NEW z, NEW s
               PROVE  SubsetStatistics(z, s).included = IncludedContent(z, s)
    OBVIOUS
  <2> DEFINE c == [plan |-> z.plan, subset |-> s, identity |-> z.identity,
                   tags |-> TagsOf(z.children, s), included |-> IncludedContent(z, s),
                   moments |-> Combined(z, s), sha256 |-> Unhashed]
  <2>1. SubsetStatistics(z, s) = IdentifyAll(c, "subset_statistics")
    BY DEF SubsetStatistics, SubsetAggregate
  <2>2. /\ "included" \in DOMAIN c \ {"sha256"} /\ "sha256" \in DOMAIN c
        /\ c.included = IncludedContent(z, s)
    OBVIOUS
  <2> HIDE DEF c
  <2> QED
    BY <2>1, <2>2, IdentifiedAll
<1> HIDE DEF a, b
<1>4. "sha256" \in DOMAIN a /\ "sha256" \in DOMAIN b
  BY <1>2 DEF CoefficientFields
<1>5. Sha256("coefficient", Without(a, {"sha256"})) = Sha256("coefficient", Without(b, {"sha256"}))
  BY <1>1, <1>4, IdentifiedAll
<1>6. \A f \in DOMAIN a \ {"sha256"} : a[f] = b[f]
  <2>1. Without(a, {"sha256"}) = Without(b, {"sha256"})
    BY <1>5, DigestsAgree
  <2> QED
    BY <1>2, <2>1, FieldsAgree
<1>7. a.plan = b.plan /\ a.subset = b.subset /\ a.ridge = b.ridge /\ a.included = b.included
  BY <1>2, <1>6 DEF CoefficientFields
<1>8. IncludedContent(x, q) = IncludedContent(y, q)
  BY <1>2, <1>3, <1>7
<1>9. [d \in q |-> x.children[d].content] = [d \in q |-> y.children[d].content]
  BY <1>8, DigestsAgree DEF IncludedContent
<1>10. ASSUME NEW e \in q PROVE x.children[e].content = y.children[e].content
  <2> DEFINE F(z) == [d \in q |-> z.children[d].content]
  <2>1. F(x)[e] = x.children[e].content /\ F(y)[e] = y.children[e].content
    OBVIOUS
  <2> QED
    BY <1>9, <2>1
<1> QED
  BY <1>2, <1>7, <1>10

\* The content of a domain names its features, its targets and their identity.
LEMMA ContentSeparates ==
    ASSUME NEW x, NEW y, NEW e, DomainContent(x, e) = DomainContent(y, e)
    PROVE  /\ x.features[e] = y.features[e] /\ x.targets[e] = y.targets[e]
           /\ x.identity = y.identity
<1> DEFINE C(z) == [domain |-> e, width |-> z.plan.width, models |-> z.plan.models,
                    identity |-> z.identity, prompts |-> z.prompts[e],
                    features |-> z.features[e], targets |-> z.targets[e]]
<1>1. C(x) = C(y)
  BY DigestsAgree DEF DomainContent
<1>2. \A z : /\ C(z).features = z.features[e] /\ C(z).targets = z.targets[e]
             /\ C(z).identity = z.identity
  OBVIOUS
<1> HIDE DEF C
<1> QED
  BY <1>1, <1>2

\* The shard of a domain, and what its digest names.
ShardRecord(of, d) ==
    [plan |-> of.plan, domain |-> d, identity |-> of.identity, prompts |-> of.prompts[d],
     content |-> ShardContent(of, d), sha256 |-> Unhashed]

LEMMA ShardSeparates ==
    ASSUME NEW x, NEW y, NEW d,
           FeatureShard(ShardRecord(x, d)).sha256 = FeatureShard(ShardRecord(y, d)).sha256
    PROVE  x.identity = y.identity /\ x.features[d] = y.features[d]
<1> DEFINE a == ShardRecord(x, d)
           b == ShardRecord(y, d)
<1>1. /\ DOMAIN a = ShardFields /\ DOMAIN b = ShardFields
      /\ a.content = ShardContent(x, d) /\ b.content = ShardContent(y, d)
      /\ a.identity = x.identity /\ b.identity = y.identity
  BY DEF ShardRecord, ShardFields
<1> HIDE DEF a, b
<1>2. "sha256" \in DOMAIN a /\ "sha256" \in DOMAIN b
  BY <1>1 DEF ShardFields
<1>3. Sha256("shard", Without(a, {"sha256"})) = Sha256("shard", Without(b, {"sha256"}))
  BY <1>2, IdentifiedAll DEF FeatureShard, a, b
<1>4. \A f \in DOMAIN a \ {"sha256"} : a[f] = b[f]
  <2>1. Without(a, {"sha256"}) = Without(b, {"sha256"})
    BY <1>3, DigestsAgree
  <2> QED
    BY <1>1, <2>1, FieldsAgree
<1>5. a.content = b.content /\ a.identity = b.identity
  BY <1>1, <1>4 DEF ShardFields
<1>6. ShardContent(x, d) = ShardContent(y, d)
  BY <1>1, <1>5
<1>7. x.features[d] = y.features[d]
  <2> DEFINE C(z) == [plan |-> z.plan, domain |-> d, identity |-> z.identity,
                      prompts |-> z.prompts[d], features |-> z.features[d]]
  <2>1. C(x) = C(y)
    BY <1>6, DigestsAgree DEF ShardContent
  <2>2. \A z : C(z).features = z.features[d]
    OBVIOUS
  <2> HIDE DEF C
  <2> QED
    BY <2>1, <2>2
<1> QED
  BY <1>1, <1>5, <1>7

\* The block of scores of a domain, by the fit on all the others.
BlockRecord(of, summary, d, ridge) ==
    [plan |-> of.plan, block |-> Context(of.plan, d),
     coefficient |-> SolveSubset(summary, of.plan.domains \ {d}, ridge).sha256,
     shard |-> FeatureShard(ShardRecord(of, d)).sha256,
     scores |-> [weights |-> SolveSubset(summary, of.plan.domains \ {d}, ridge).weights,
                 on |-> of.features[d]],
     sha256 |-> Unhashed]

\* Leaving one domain out is a training subset, and scores that domain.
LEMMA ContextScored ==
    ASSUME NEW doms, NEW d \in doms
    PROVE  /\ doms \ {d} \in TrainingSubsets(doms)
           /\ <<doms \ {d}, d>> \in ScoreBlocks(doms)
<1>1. {d} \in kSubset(1, doms)
  BY FS_Singleton DEF kSubset
<1>2. doms \ {d} \in LeavingOut(doms, 1) /\ 1 \in 1 .. 3
  BY <1>1 DEF LeavingOut
<1>3. doms \ {d} \in TrainingSubsets(doms)
  BY <1>2 DEF TrainingSubsets
<1> QED
  BY <1>3 DEF ScoreBlocks, BlocksOf

\* What a stage makes of the shards and the block.
LEMMA BuiltShard ==
    ASSUME NEW of, NEW d \in of.plan.domains
    PROVE  BuildShards(of).children[d] = FeatureShard(ShardRecord(of, d))
<1> DEFINE C == [e \in of.plan.domains |-> FeatureShard(ShardRecord(of, e))]
<1>1. C[d] = FeatureShard(ShardRecord(of, d))
  OBVIOUS
<1>2. BuildShards(of).children = C
  BY DEF BuildShards, FeatureShards, Identify, ShardRecord
<1> QED
  BY <1>1, <1>2

LEMMA BuiltBlock ==
    ASSUME NEW of, NEW summary, NEW ridge, NEW d \in of.plan.domains
    PROVE  BuildScores(of, BuildCoefficients(of, summary, ridge)).blocks[Context(of.plan, d)]
              = ScoreBlock(BlockRecord(of, summary, d, ridge))
<1> DEFINE fits == BuildCoefficients(of, summary, ridge)
           q == of.plan.domains \ {d}
           b == Context(of.plan, d)
           R(k) == [plan |-> of.plan, block |-> k, coefficient |-> fits.blocks[k[1]].sha256,
                    shard |-> BuildShards(of).children[k[2]].sha256,
                    scores |-> ScoreStore(of, fits, k), sha256 |-> Unhashed]
           C == [k \in ScoreBlocks(of.plan.domains) |-> ScoreBlock(R(k))]
<1>1. /\ q \in TrainingSubsets(of.plan.domains) /\ b \in ScoreBlocks(of.plan.domains)
      /\ b[1] = q /\ b[2] = d
  BY ContextScored DEF Context
<1>2. fits.blocks[q] = SolveSubset(summary, q, ridge)
  BY <1>1, BuildCoefficientsBlocks
<1> HIDE DEF fits
<1>3. BuildShards(of).children[d] = FeatureShard(ShardRecord(of, d))
  BY BuiltShard
<1>4. BuildScores(of, fits).blocks = C
  BY DEF BuildScores, ScoreBundle, Identify
<1>5. ScoreStore(of, fits, b) = [weights |-> SolveSubset(summary, q, ridge).weights,
                                 on |-> of.features[d]]
  BY <1>1, <1>2 DEF ScoreStore
<1>6. R(b) = BlockRecord(of, summary, d, ridge)
  BY <1>1, <1>2, <1>3, <1>5 DEF BlockRecord
<1>7. C[b] = ScoreBlock(R(b))
  BY <1>1
<1> QED
  BY <1>4, <1>6, <1>7 DEF fits

\* What the stages leave of a source.
LEMMA StoreParts ==
    ASSUME NEW n \in Names
    PROVE  /\ StoreOf[n].plan = Plan(Source[n]) /\ StoreOf[n].identity = Source[n].identity
           /\ StoreOf[n].prompts = Source[n].prompts
           /\ StoreOf[n].targets = Source[n].targets
           /\ StoreOf[n].features = StoredFeatures(Source[n])
           /\ Plan(Source[n]).domains = Domains(Source[n])
           /\ \A e \in Domains(Source[n]) :
                 StoredFeatures(Source[n])[e].surface = Source[n].prompts[e]
           /\ StatisticsOf[n] = BuildStatistics(StoreOf[n])
           /\ StatisticsOf[n].plan = StoreOf[n].plan
           /\ StatisticsOf[n].identity = StoreOf[n].identity
<1>1. StoreOf[n] = BuildStore(Source[n]) /\ StatisticsOf[n] = BuildStatistics(StoreOf[n])
  BY DEF StoreOf, StatisticsOf
<1>2. \A e \in Domains(Source[n]) :
         StoredFeatures(Source[n])[e].surface = Source[n].prompts[e]
  BY DEF StoredFeatures
<1>3. Plan(Source[n]).domains = Domains(Source[n])
  BY DEF Plan
<1>4. /\ BuildStatistics(StoreOf[n]).plan = StoreOf[n].plan
      /\ BuildStatistics(StoreOf[n]).identity = StoreOf[n].identity
  BY DEF BuildStatistics, StatisticsBundle, Identify
<1> QED
  BY <1>1, <1>2, <1>3, <1>4, BuildStoreMade

\* Two runs that give a domain one score digest differ in nothing but its targets.
LEMMA BlocksSeparate ==
    ASSUME NEW s \in Names, NEW t \in Names, NEW r, NEW u, NEW d \in Domains(Source[s]),
           ScoreBlock(BlockRecord(StoreOf[s], StatisticsOf[s], d, r)).sha256
              = ScoreBlock(BlockRecord(StoreOf[t], StatisticsOf[t], d, u)).sha256
    PROVE  SameButTargetsOf(s, t, d) /\ r = u
<1> DEFINE S == StoreOf[s]
           T == StoreOf[t]
           a == BlockRecord(S, StatisticsOf[s], d, r)
           b == BlockRecord(T, StatisticsOf[t], d, u)
           q == S.plan.domains \ {d}
           p == T.plan.domains \ {d}
<1>1. /\ DOMAIN a = ScoreFields /\ DOMAIN b = ScoreFields
      /\ a.plan = S.plan /\ b.plan = T.plan
      /\ a.coefficient = SolveSubset(StatisticsOf[s], q, r).sha256
      /\ b.coefficient = SolveSubset(StatisticsOf[t], p, u).sha256
      /\ a.shard = FeatureShard(ShardRecord(S, d)).sha256
      /\ b.shard = FeatureShard(ShardRecord(T, d)).sha256
  BY DEF BlockRecord, ScoreFields
<1> HIDE DEF a, b
<1>2. "sha256" \in DOMAIN a /\ "sha256" \in DOMAIN b
  BY <1>1 DEF ScoreFields
<1>3. Sha256("scores", Without(a, {"sha256"})) = Sha256("scores", Without(b, {"sha256"}))
  BY <1>2, IdentifiedAll DEF ScoreBlock, a, b
<1>4. \A f \in DOMAIN a \ {"sha256"} : a[f] = b[f]
  <2>1. Without(a, {"sha256"}) = Without(b, {"sha256"})
    BY <1>3, DigestsAgree
  <2> QED
    BY <1>1, <2>1, FieldsAgree
<1>5. /\ S.plan = T.plan
      /\ SolveSubset(StatisticsOf[s], q, r).sha256 = SolveSubset(StatisticsOf[t], p, u).sha256
      /\ FeatureShard(ShardRecord(S, d)).sha256 = FeatureShard(ShardRecord(T, d)).sha256
  BY <1>1, <1>4 DEF ScoreFields
<1>6. /\ r = u
      /\ \A e \in q : StatisticsOf[s].children[e].content = StatisticsOf[t].children[e].content
  BY <1>5, SubsetSeparates
<1>7. S.identity = T.identity /\ S.features[d] = T.features[d]
  BY <1>5, ShardSeparates
<1>8. ASSUME NEW e \in q
      PROVE  S.features[e] = T.features[e] /\ S.targets[e] = T.targets[e]
  <2>1. e \in S.plan.domains /\ e \in T.plan.domains
    BY <1>5
  <2>2. /\ StatisticsOf[s].children[e].content = DomainContent(S, e)
        /\ StatisticsOf[t].children[e].content = DomainContent(T, e)
    BY <2>1, StoreParts, ChildParts
  <2>3. DomainContent(S, e) = DomainContent(T, e)
    BY <1>6, <2>2
  <2> QED
    BY <2>3, ContentSeparates
<1>9. /\ Plan(Source[s]) = Plan(Source[t]) /\ Source[s].identity = Source[t].identity
      /\ Domains(Source[s]) = Domains(Source[t]) /\ q = Domains(Source[s]) \ {d}
  BY <1>5, <1>7, StoreParts
<1>10. StoredFeatures(Source[s]) = StoredFeatures(Source[t])
  <2>1. \A e \in Domains(Source[s]) : StoredFeatures(Source[s])[e] = StoredFeatures(Source[t])[e]
    BY <1>7, <1>8, <1>9, StoreParts
  <2>2. \A n : StoredFeatures(Source[n])
                 = [e \in Domains(Source[n]) |-> StoredFeatures(Source[n])[e]]
    BY DEF StoredFeatures
  <2> QED
    BY <1>9, <2>1, <2>2
<1>11. \A e \in Domains(Source[s]) \ {d} : Source[s].targets[e] = Source[t].targets[e]
  BY <1>8, <1>9, StoreParts
<1> QED
  BY <1>6, <1>9, <1>10, <1>11 DEF SameButTargetsOf

\* Two runs that differ in nothing but the targets of a domain give it one score digest.
LEMMA BlocksAgree ==
    ASSUME NEW s \in Names, NEW t \in Names, NEW r, NEW d \in Domains(Source[s]),
           SameButTargetsOf(s, t, d)
    PROVE  BlockRecord(StoreOf[s], StatisticsOf[s], d, r)
              = BlockRecord(StoreOf[t], StatisticsOf[t], d, r)
<1> DEFINE S == StoreOf[s]
           T == StoreOf[t]
           q == S.plan.domains \ {d}
<1>1. /\ S.plan = T.plan /\ S.identity = T.identity /\ S.features = T.features
      /\ S.plan.domains = Domains(Source[s])
      /\ \A e \in q : S.targets[e] = T.targets[e]
  BY StoreParts DEF SameButTargetsOf
<1>2. \A e \in S.plan.domains : S.prompts[e] = T.prompts[e]
  BY <1>1, StoreParts
<1>3. ShardRecord(S, d) = ShardRecord(T, d)
  <2>1. S.prompts[d] = T.prompts[d]
    BY <1>1, <1>2
  <2>2. ShardContent(S, d) = ShardContent(T, d)
    BY <1>1, <2>1 DEF ShardContent
  <2> QED
    BY <1>1, <2>1, <2>2 DEF ShardRecord
<1>4. ASSUME NEW e \in q
      PROVE  /\ StatisticsOf[s].children[e].tags = StatisticsOf[t].children[e].tags
             /\ StatisticsOf[s].children[e].content = StatisticsOf[t].children[e].content
             /\ StatisticsOf[s].children[e].moments = StatisticsOf[t].children[e].moments
  <2>1. /\ S.prompts[e] = T.prompts[e] /\ S.targets[e] = T.targets[e]
        /\ e \in S.plan.domains /\ e \in T.plan.domains
    BY <1>1, <1>2
  <2>2. DomainContent(S, e) = DomainContent(T, e) /\ Moments(S, e) = Moments(T, e)
    BY <1>1, <2>1 DEF DomainContent, Moments
  <2>3. /\ StatisticsOf[s] = BuildStatistics(S) /\ StatisticsOf[t] = BuildStatistics(T)
        /\ S.features[e].tags = T.features[e].tags
    BY <1>1, StoreParts
  <2> HIDE DEF S, T
  <2> QED
    BY <2>1, <2>2, <2>3, ChildParts
<1>5. SolveSubset(StatisticsOf[s], q, r) = SolveSubset(StatisticsOf[t], q, r)
  <2>1. /\ StatisticsOf[s].plan = StatisticsOf[t].plan
        /\ StatisticsOf[s].identity = StatisticsOf[t].identity
    BY <1>1, StoreParts
  <2> QED
    BY <1>4, <2>1, SubsetAgrees
<1> QED
  BY <1>1, <1>3, <1>5 DEF BlockRecord

\* The digest a run records for the scores of a domain.
LEMMA RunScore ==
    ASSUME NEW run \in Finished, NEW d \in Domains(Source[run[1]])
    PROVE  /\ run[1] \in Names
           /\ RunOf(run[1], run[2]).scores.blocks[Context(StoreOf[run[1]].plan, d)]
                = ScoreBlock(BlockRecord(StoreOf[run[1]], StatisticsOf[run[1]], d, run[2]))
           /\ RunOf(run[1], run[2]).scores.coefficients.plan = StoreOf[run[1]].plan
<1> DEFINE s == run[1]
           r == run[2]
           solve == <<s, s, r>>
           fits == BuildCoefficients(StoreOf[s], StatisticsOf[s], r)
<1>1. s \in Names /\ <<s, solve>> \in Scorable /\ solve \in Solvable
  BY DEF Finished, Scorable
<1>2. CoefficientsOf[solve] = fits
  BY <1>1 DEF CoefficientsOf
<1>3. RunOf(s, r).scores = BuildScores(StoreOf[s], fits)
  <2>1. ScoresOf[<<s, solve>>] = BuildScores(StoreOf[s], CoefficientsOf[solve])
    BY <1>1 DEF ScoresOf
  <2> QED
    BY <1>2, <2>1 DEF RunOf
<1>4. d \in StoreOf[s].plan.domains
  BY <1>1, StoreParts
<1>5. fits.plan = StoreOf[s].plan /\ CoefficientsMade(fits)
  BY BuildCoefficientsMade
<1>6. BuildScores(StoreOf[s], fits).blocks[Context(StoreOf[s].plan, d)]
         = ScoreBlock(BlockRecord(StoreOf[s], StatisticsOf[s], d, r))
  BY <1>4, BuiltBlock
<1> HIDE DEF fits
<1>7. BuildScores(StoreOf[s], fits).coefficients = fits
  BY <1>5, ScoresName
<1> QED
  BY <1>1, <1>3, <1>5, <1>6, <1>7

LEMMA RunDigest ==
    ASSUME NEW run \in Finished
    PROVE  /\ DOMAIN ScoreDigests[run] = Domains(Source[run[1]])
           /\ \A d \in Domains(Source[run[1]]) :
                 ScoreDigests[run][d]
                   = ScoreBlock(BlockRecord(StoreOf[run[1]], StatisticsOf[run[1]], d,
                                            run[2])).sha256
<1> DEFINE scored == RunOf(run[1], run[2]).scores
           D == [d \in Domains(Source[run[1]]) |->
                    scored.blocks[Context(scored.coefficients.plan, d)].sha256]
<1>1. ScoreDigests[run] = D
  BY DEF ScoreDigests
<1> HIDE DEF scored
<1>2. /\ DOMAIN D = Domains(Source[run[1]])
      /\ \A d \in Domains(Source[run[1]]) :
            D[d] = scored.blocks[Context(scored.coefficients.plan, d)].sha256
  OBVIOUS
<1> HIDE DEF D
<1> QED
  BY <1>1, <1>2, RunScore DEF scored

(* The scores a calibrator is fitted on are blind to the targets of the domain  *)
(* they are for: the predictor records for them the digest that exactly the     *)
(* runs on sources that differ in nothing else would record                     *)
(* (combine_prepared_subset_statistics and the blocks built on it).             *)
THEOREM HeldOutBlind == Spec => []HeldOutTargetsUnseen
<1>1. EInv => HeldOutTargetsUnseen
  <2> DEFINE s == store
             r == solved[2][3]
             mine == <<s, r>>
             sources == Predictor.lineage.sources
  <2> SUFFICES ASSUME EInv, Accepted, NEW run \in Finished, NEW d \in DOMAIN sources
               PROVE  d \in DOMAIN ScoreDigests[run] /\ ScoreDigests[run][d] = sources[d].scores
                         <=> SameButTargetsOf(s, run[1], d) /\ run[2] = r
    BY DEF HeldOutTargetsUnseen
  <2>1. AllNamed /\ Verdict(Held, Pins(attempt.pins)) = "passed"
    BY HeldIsNamed, JudgedIsPassed DEF EInv, AttemptPassed, Accepted
  <2>2. mine \in Finished /\ Fresh(Held) = RunOf(s, r)
    BY <2>1, PassedIsRun
  <2>3. s \in Names /\ run[1] \in Names
    BY <2>1 DEF AllNamed, Finished
  <2> DEFINE scored == RunOf(s, r).scores
             plan == StoreOf[s].plan
             shards == BuildShards(StoreOf[s])
  <2>4. sources = CalibrationSources(StoreOf[s], scored, shards)
    <3>1. Predictor = Assembled(StoreOf[s], StatisticsOf[s], scored, attempt.points)
      BY <2>2 DEF Predictor, PredictorOf, RunOf
    <3> HIDE DEF scored, sources
    <3> QED
      BY <3>1 DEF Assembled, Lineage, sources
  <2> HIDE DEF scored, shards
  <2>5. /\ DOMAIN sources = Domains(Source[s])
        /\ sources[d].scores = scored.blocks[Context(plan, d)].sha256
    <3> DEFINE T == TargetShards(StoreOf[s], shards)
               C == [e \in plan.domains |->
                        CalibrationSource(Context(plan, e), plan.rows[e],
                                          scored.blocks[Context(plan, e)], T[e])]
    <3>1. CalibrationSources(StoreOf[s], scored, shards) = C
      BY DEF CalibrationSources
    <3> HIDE DEF T
    <3>2. /\ DOMAIN C = plan.domains
          /\ \A e \in plan.domains :
                C[e].scores = scored.blocks[Context(plan, e)].sha256
      BY DEF CalibrationSource
    <3> HIDE DEF C, sources
    <3> QED
      BY <2>3, <2>4, <3>1, <3>2, StoreParts
  <2> HIDE DEF sources
  <2>6. sources[d].scores = ScoreBlock(BlockRecord(StoreOf[s], StatisticsOf[s], d, r)).sha256
    <3>1. d \in Domains(Source[s]) /\ mine[1] = s /\ mine[2] = r
      BY <2>5
    <3> QED
      BY <2>2, <2>5, <3>1, RunScore DEF scored
  <2>7. ASSUME d \in Domains(Source[run[1]])
        PROVE  ScoreDigests[run][d]
                  = ScoreBlock(BlockRecord(StoreOf[run[1]], StatisticsOf[run[1]], d,
                                           run[2])).sha256
    BY <2>7, RunDigest
  <2>8. DOMAIN ScoreDigests[run] = Domains(Source[run[1]])
    BY RunDigest
  <2>9. ASSUME d \in DOMAIN ScoreDigests[run], ScoreDigests[run][d] = sources[d].scores
        PROVE  SameButTargetsOf(s, run[1], d) /\ run[2] = r
    BY <2>3, <2>5, <2>6, <2>7, <2>8, <2>9, BlocksSeparate
  <2>10. ASSUME SameButTargetsOf(s, run[1], d), run[2] = r
         PROVE  d \in DOMAIN ScoreDigests[run] /\ ScoreDigests[run][d] = sources[d].scores
    <3>1. Plan(Source[s]) = Plan(Source[run[1]])
      BY <2>10 DEF SameButTargetsOf
    <3>2. d \in Domains(Source[s]) /\ d \in Domains(Source[run[1]])
      BY <2>3, <2>5, <3>1, StoreParts
    <3>3. BlockRecord(StoreOf[s], StatisticsOf[s], d, r)
             = BlockRecord(StoreOf[run[1]], StatisticsOf[run[1]], d, r)
      BY <2>3, <2>10, <3>2, BlocksAgree
    <3> QED
      BY <2>6, <2>7, <2>8, <2>10, <3>2, <3>3
  <2> QED
    BY <2>9, <2>10
<1> QED
  BY <1>1, EvidenceInductive, PTL

-----------------------------------------------------------------------------
(* The closed form of the largest predictor is the count the constructor    *)
(* makes.                                                                   *)

\* A source has rows, models, and columns for no more tags than the catalogue has.
LEMMA RowsOfSource ==
    ASSUME NEW s \in Names
    PROVE  LET plan == Plan(Source[s])
           IN /\ RowCount(plan, plan.domains) \in Nat \ {0}
              /\ IsFiniteSet(plan.models) /\ Cardinality(plan.models) \in Nat \ {0}
<1> DEFINE plan == Plan(Source[s])
<1>1. PICK n \in Nat \ {0} : /\ plan.domains = 1 .. n
                             /\ \A d \in 1 .. n : plan.rows[d] \in Nat
  BY PlanOfSource
<1>2. plan.models = Source[s].models /\ plan.rows = Source[s].rows
  BY DEF Plan
<1>3. IsFiniteSet(plan.models) /\ Cardinality(plan.models) \in Nat \ {0}
  BY <1>2, EvidenceAssumption, FS_CardinalityType, FS_EmptySet DEF Names
<1>4. \A d \in 1 .. n : plan.rows[d] \in Nat \ {0}
  <2>1. Source[s].rows \in Seq(Nat \ {0})
    BY EvidenceAssumption DEF Names
  <2>2. 1 .. n = DOMAIN Source[s].rows
    BY <1>1 DEF Plan, Domains
  <2> QED
    BY <1>2, <2>1, <2>2
<1> HIDE DEF plan
<1> DEFINE f == [d \in 1 .. n |-> plan.rows[d]]
           S == (1 .. n) \ {1}
<1>5. /\ DOMAIN f = S \cup {1} /\ NatValued(f) /\ f[1] \in Nat \ {0}
      /\ IsFiniteSet(S) /\ 1 \notin S
  <2>1. IsFiniteSet(1 .. n)
    BY <1>1, FS_Interval
  <2>2. IsFiniteSet(S)
    BY <2>1, FS_Subset
  <2>3. DOMAIN f = S \cup {1} /\ 1 \in 1 .. n
    BY <1>1
  <2>4. NatValued(f) /\ f[1] \in Nat \ {0}
    BY <1>4, <2>3 DEF NatValued
  <2> QED
    BY <2>2, <2>3, <2>4
<1> HIDE DEF f, S
<1>6. SumOf(f) = f[1] + SumOf([y \in S |-> f[y]])
  BY <1>5, SumOfOneMore
<1>7. SumOf([y \in S |-> f[y]]) \in Nat
  <2> DEFINE g == [y \in S |-> f[y]]
  <2>1. DOMAIN g = S /\ NatValued(g)
    BY <1>5 DEF NatValued
  <2> HIDE DEF g
  <2>2. SumOf(g) \in Nat
    BY <1>5, <2>1, SumIsNat
  <2> QED
    BY <2>2 DEF g
<1>8. RowCount(plan, plan.domains) = SumOf(f)
  BY <1>1 DEF RowCount, f
<1> QED
  BY <1>3, <1>5, <1>6, <1>7, <1>8 DEF plan

\* A predictor has as many columns as the plan, less the tags that no domain has.
LEMMA WidthOfRun ==
    ASSUME NEW s \in Names
    PROVE  ActiveWidth(Plan(Source[s]), AllTags(StatisticsOf[s])) \in Nat
<1> DEFINE summary == StatisticsOf[s]
           doms == Plan(Source[s]).domains
<1>1. /\ StoreOf[s].plan = Plan(Source[s]) /\ summary.plan = Plan(Source[s])
      /\ summary = BuildStatistics(StoreOf[s]) /\ doms = Domains(Source[s])
      /\ StoreOf[s].features = StoredFeatures(Source[s])
  BY StoreParts
<1>2. ASSUME NEW d \in doms
      PROVE  summary.children[d].tags \subseteq Catalogue
  <2>1. summary.children[d].tags = StoredFeatures(Source[s])[d].tags
    BY <1>1, ChildParts
  <2>2. StoredFeatures(Source[s])[d].tags = Source[s].tags[d]
    BY <1>1 DEF StoredFeatures
  <2>3. Source[s].tags[d] \subseteq Catalogue
    BY <1>1, EvidenceAssumption DEF Names
  <2> QED
    BY <2>1, <2>2, <2>3
<1> HIDE DEF summary
<1>3. AllTags(summary) \subseteq Catalogue
  BY <1>1, <1>2 DEF AllTags, TagsOf
<1>4. /\ Cardinality(AllTags(summary)) \in Nat /\ Cardinality(Catalogue) \in Nat
      /\ Source[s].embeddingWidth \in Nat
  BY <1>3, ArtifactAssumption, EvidenceAssumption, FS_Subset, FS_CardinalityType DEF Names
<1>5. Plan(Source[s]).width = 5 + Cardinality(Catalogue) + Source[s].embeddingWidth
  BY DEF Plan, FixedWidth
<1> QED
  BY <1>4, <1>5 DEF ActiveWidth, summary

\* What the constructor counts of a predictor with so many points a calibrator.
LEMMA PredictorCounts ==
    ASSUME NEW of, NEW summary, NEW scored, NEW points \in Nat,
           IsFiniteSet(of.plan.models), ActiveWidth(of.plan, AllTags(summary)) \in Nat
    PROVE  LET a == Assembled(of, summary, scored, points)
           IN /\ NumericScalars(a)
                    = 7 + Cardinality(of.plan.models)
                          * (ActiveWidth(of.plan, AllTags(summary)) + 1 + 2 * points)
              /\ a.examples = RowCount(of.plan, of.plan.domains)
<1> DEFINE a == Assembled(of, summary, scored, points)
           w == ActiveWidth(of.plan, AllTags(summary))
           c == w + 1 + 2 * points
<1>1. /\ a.width = w /\ a.examples = RowCount(of.plan, of.plan.domains)
      /\ DOMAIN a.models = of.plan.models
      /\ \A m \in of.plan.models : a.models[m].calibrator.points = points
  <2> DEFINE shards == BuildShards(of)
             aggregate == AllDomainStatistics(of, summary)
             final == SolveAllDomains(aggregate, scored.coefficients.ridge)
             sources == CalibrationSources(of, scored, shards)
             K(m) == FitCalibrator(m, sources, JoinedPairs(of, scored, m), points)
             models == [m \in of.plan.models |->
                           ModelState(final.weights[m], final.intercepts[m], K(m))]
             lineage == Lineage(PinsOf(of, summary, scored), of.snapshot, aggregate, final,
                                sources)
             examples == RowCount(of.plan, of.plan.domains)
  <2>1. a = [schema |-> final.schema, models |-> models, domains |-> of.plan.domains,
             examples |-> examples, width |-> w, ridge |-> final.ridge,
             lineage |-> lineage]
    BY DEF Assembled
  <2> HIDE DEF final, sources, aggregate, shards, lineage, examples, w
  <2>2. \A m : K(m).points = points
    BY DEF FitCalibrator
  <2> HIDE DEF K
  <2>3. /\ DOMAIN models = of.plan.models
        /\ \A m \in of.plan.models : models[m].calibrator = K(m)
    BY DEF ModelState
  <2> HIDE DEF models, a
  <2>4. a.width = w /\ a.examples = examples /\ a.models = models
    BY <2>1
  <2> QED
    BY <2>2, <2>3, <2>4 DEF examples
<1> HIDE DEF a
<1>2. NumericScalars(a) = 7 + SumOf([m \in of.plan.models |-> c])
  <2>1. [m \in DOMAIN a.models |-> a.width + 1 + 2 * a.models[m].calibrator.points]
           = [m \in of.plan.models |-> c]
    BY <1>1
  <2> QED
    BY <2>1 DEF NumericScalars
<1>3. c \in Nat
  OBVIOUS
<1> HIDE DEF c
<1>4. SumOf([m \in of.plan.models |-> c]) = Cardinality(of.plan.models) * c
  BY <1>3, SumOfConstant
<1> QED
  BY <1>1, <1>2, <1>4 DEF a, c

\* The estimate is the count of the largest.
LEMMA LargestIsRetained ==
    ASSUME NEW s \in Names
    PROVE  Largest[s] = RetainedScalars(Plan(Source[s]),
                                        ActiveWidth(Plan(Source[s]), AllTags(StatisticsOf[s])))
<1> DEFINE run == RunOf(s, CHOOSE ridge \in Ridges : TRUE)
           plan == Plan(Source[s])
           n == RowCount(plan, plan.domains)
           m == Cardinality(plan.models)
           w == ActiveWidth(plan, AllTags(StatisticsOf[s]))
<1>1. run.store = StoreOf[s] /\ run.statistics = StatisticsOf[s] /\ StoreOf[s].plan = plan
  BY StoreParts DEF RunOf
<1>2. n \in Nat /\ m \in Nat /\ IsFiniteSet(plan.models) /\ w \in Nat
  BY RowsOfSource, WidthOfRun
<1>3. Largest[s] = NumericScalars(PredictorOf(run, RowCount(run.store.plan,
                                                           run.store.plan.domains)))
  BY DEF Largest
<1> HIDE DEF run
<1>4. Largest[s] = NumericScalars(Assembled(StoreOf[s], StatisticsOf[s], run.scores, n))
  BY <1>1, <1>3 DEF PredictorOf
<1> HIDE DEF plan
<1>5. Largest[s] = 7 + m * (w + 1 + 2 * n)
  BY <1>1, <1>2, <1>4, PredictorCounts
<1>6. RetainedScalars(plan, w) = 7 + m * (w + 1) + 2 * n * m
  BY DEF RetainedScalars
<1> HIDE DEF n, m, w
<1>7. 7 + m * (w + 1 + 2 * n) = 7 + m * (w + 1) + 2 * n * m
  BY <1>2
<1>8. Largest[s] = RetainedScalars(plan, w)
  BY <1>5, <1>6, <1>7
<1> QED
  BY <1>8 DEF plan, w

-----------------------------------------------------------------------------
(* What the preflight looks at is not what an overwritten leaf changes.     *)

\* A field of a member of a family, after another field of a member was replaced.
LEMMA OtherFieldStays ==
    ASSUME NEW F, NEW c, Family(c, F), NEW i, NEW f, NEW v,
           NEW g \in F \ {f}, NEW j \in DOMAIN c
    PROVE  [c EXCEPT ![i] = [@ EXCEPT ![f] = v]][j][g] = c[j][g]
<1> DEFINE e == [c EXCEPT ![i] = [@ EXCEPT ![f] = v]]
<1>1. e[j] = IF j = i THEN [c[i] EXCEPT ![f] = v] ELSE c[j]
  OBVIOUS
<1>2. DOMAIN c[j] = F
  BY FieldsDomain DEF Family
<1>3. j = i => [c[i] EXCEPT ![f] = v][g] = c[j][g]
  BY <1>2
<1> HIDE DEF e
<1> QED
  BY <1>1, <1>3 DEF e

LEMMA OverwrittenAdmitted ==
    ASSUME NEW h, HeldShaped(h), NEW leaf,
           DOMAIN h.statistics.children = h.statistics.plan.domains
    PROVE  LET o == Overwritten(h, leaf)
           IN /\ o.store.plan = h.store.plan
              /\ ShapeOf(o.store, o.statistics, o.scores)
                    = ShapeOf(h.store, h.statistics, h.scores)
<1> DEFINE o == Overwritten(h, leaf)
           d == CHOOSE e \in h.store.plan.domains : TRUE
           b == Context(h.store.plan, d)
           nothing == [m \in h.store.plan.models |-> Foreign]
           st == h.statistics
           sc == h.scores
<1>1. o.store.plan = h.store.plan
  BY OverwrittenShaped
<1>2. DOMAIN h = {"store", "statistics", "scores"}
  BY DEF HeldShaped
<1>3. DOMAIN st = StatisticsFields /\ DOMAIN sc = ScoresFields
  BY FieldsDomain DEF HeldShaped, StatisticsShaped, ScoresShaped
<1>4. o.scores.coefficients.widths = sc.coefficients.widths
  <2>1. CASE leaf = "weights"
    <3> DEFINE k == sc.coefficients
               c == [k.blocks EXCEPT ![b[1]].weights.ridge = Foreign]
               y == [k EXCEPT !.blocks = c]
               x == [sc EXCEPT !.coefficients = y]
    <3>1. o = [h EXCEPT !.scores = x]
      BY <2>1 DEF Overwritten
    <3> HIDE DEF o, c
    <3>2. y.widths = k.widths
      <4>1. DOMAIN k = CoefficientsFields
        BY FieldsDomain DEF HeldShaped, ScoresShaped, CoefficientsShaped
      <4> QED
        BY <4>1 DEF CoefficientsFields
    <3> HIDE DEF y
    <3>3. x.coefficients = y
      BY <1>3 DEF ScoresFields
    <3> HIDE DEF x
    <3>4. o.scores = x
      BY <1>2, <3>1
    <3> QED
      BY <3>2, <3>3, <3>4
  <2>2. CASE leaf \in {"targets", "moments"}
    <3>1. \E v, f : f \in {"store", "statistics"} /\ o = [h EXCEPT ![f] = v]
      <4>1. CASE leaf = "targets"
        <5>1. o = [h EXCEPT !["store"] = [h.store EXCEPT !.targets[d] = nothing]]
          BY <4>1 DEF Overwritten
        <5> HIDE DEF o, d, nothing
        <5> QED
          BY <5>1
      <4>2. CASE leaf = "moments"
        <5>1. o = [h EXCEPT !["statistics"] = [st EXCEPT !.children[d].moments.y = nothing]]
          BY <4>2 DEF Overwritten
        <5> HIDE DEF o, d, nothing
        <5> QED
          BY <5>1
      <4> QED
        BY <2>2, <4>1, <4>2
    <3> HIDE DEF o
    <3> QED
      BY <1>2, <3>1
  <2>3. CASE leaf \in {"prompts", "raw_scores", "fit_of_the_scores"}
    <3>1. \E v, f : f \in {"shards", "blocks"} /\ o = [h EXCEPT !.scores = [sc EXCEPT ![f] = v]]
      <4>1. CASE leaf = "prompts"
        <5>1. o = [h EXCEPT !.scores = [sc EXCEPT !["shards"] =
                        [sc.shards EXCEPT !.children[d].prompts = Foreign]]]
          BY <4>1 DEF Overwritten
        <5> HIDE DEF o, d
        <5> QED
          BY <5>1
      <4>2. CASE leaf = "raw_scores"
        <5>1. o = [h EXCEPT !.scores = [sc EXCEPT !["blocks"] =
                        [sc.blocks EXCEPT ![b].scores.on.surface = Foreign]]]
          BY <4>2 DEF Overwritten
        <5> HIDE DEF o, b
        <5> QED
          BY <5>1
      <4>3. CASE leaf = "fit_of_the_scores"
        <5>1. o = [h EXCEPT !.scores = [sc EXCEPT !["blocks"] =
                        [sc.blocks EXCEPT ![b].coefficient.of.ridge = Foreign]]]
          BY <4>3 DEF Overwritten
        <5> HIDE DEF o, b
        <5> QED
          BY <5>1
      <4> QED
        BY <2>3, <4>1, <4>2, <4>3
    <3>2. PICK v, f : f \in {"shards", "blocks"} /\ o = [h EXCEPT !.scores = [sc EXCEPT ![f] = v]]
      BY <3>1
    <3> HIDE DEF o
    <3>3. o.scores = [sc EXCEPT ![f] = v]
      BY <1>2, <3>2
    <3> QED
      BY <1>3, <3>2, <3>3 DEF ScoresFields
  <2>4. CASE leaf \notin Leaves
    BY <2>4 DEF Overwritten, Leaves
  <2> QED
    BY <2>1, <2>2, <2>3, <2>4 DEF Leaves
<1>5. AllTags(o.statistics) = AllTags(st)
  <2>1. CASE leaf = "moments"
    <3> DEFINE v == [st.children[d].moments EXCEPT !.y = nothing]
               c == [st.children EXCEPT ![d] = [@ EXCEPT !["moments"] = v]]
               x == [st EXCEPT !.children = c]
    <3>1. o = [h EXCEPT !.statistics = x]
      BY <2>1 DEF Overwritten
    <3>2. /\ DOMAIN c = DOMAIN st.children
          /\ \A e \in DOMAIN st.children : c[e].tags = st.children[e].tags
      <4> HIDE DEF v, d
      <4>1. Family(st.children, ChildFields) /\ "tags" \in ChildFields \ {"moments"}
        BY DEF HeldShaped, StatisticsShaped, ChildFields
      <4> QED
        BY <4>1, OtherFieldStays
    <3> HIDE DEF o, c
    <3>3. x.children = c /\ x.plan = st.plan
      BY <1>3 DEF StatisticsFields
    <3> HIDE DEF x
    <3>4. o.statistics = x
      BY <1>2, <3>1
    <3> QED
      BY <3>2, <3>3, <3>4 DEF AllTags, TagsOf
  <2>2. CASE leaf # "moments"
    <3>1. \/ o = h
          \/ \E v, f : f \in {"store", "scores"} /\ o = [h EXCEPT ![f] = v]
      <4>1. CASE leaf = "targets"
        <5>1. o = [h EXCEPT !["store"] = [h.store EXCEPT !.targets[d] = nothing]]
          BY <4>1 DEF Overwritten
        <5> HIDE DEF o, d, nothing
        <5> QED
          BY <5>1
      <4>2. CASE leaf = "weights"
        <5>1. o = [h EXCEPT !["scores"] =
                      [sc EXCEPT !.coefficients.blocks[b[1]].weights.ridge = Foreign]]
          BY <4>2 DEF Overwritten
        <5> HIDE DEF o, b
        <5> QED
          BY <5>1
      <4>3. CASE leaf = "prompts"
        <5>1. o = [h EXCEPT !["scores"] =
                      [sc EXCEPT !.shards.children[d].prompts = Foreign]]
          BY <4>3 DEF Overwritten
        <5> HIDE DEF o, d
        <5> QED
          BY <5>1
      <4>4. CASE leaf = "raw_scores"
        <5>1. o = [h EXCEPT !["scores"] = [sc EXCEPT !.blocks[b].scores.on.surface = Foreign]]
          BY <4>4 DEF Overwritten
        <5> HIDE DEF o, b
        <5> QED
          BY <5>1
      <4>5. CASE leaf = "fit_of_the_scores"
        <5>1. o = [h EXCEPT !["scores"] =
                      [sc EXCEPT !.blocks[b].coefficient.of.ridge = Foreign]]
          BY <4>5 DEF Overwritten
        <5> HIDE DEF o, b
        <5> QED
          BY <5>1
      <4>6. CASE leaf \notin Leaves
        BY <4>6 DEF Overwritten, Leaves
      <4> QED
        BY <2>2, <4>1, <4>2, <4>3, <4>4, <4>5, <4>6 DEF Leaves
    <3> HIDE DEF o
    <3>2. o.statistics = st
      BY <1>2, <3>1
    <3> QED
      BY <3>2
  <2> QED
    BY <2>1, <2>2
<1>6. o.store.prompts = h.store.prompts /\ o.store.identity = h.store.identity
  <2>1. CASE leaf = "targets"
    <3> DEFINE x == [h.store EXCEPT !.targets[d] = nothing]
    <3>1. o = [h EXCEPT !.store = x]
      BY <2>1 DEF Overwritten
    <3> HIDE DEF o
    <3>2. DOMAIN h.store = StoreFields
      BY FieldsDomain DEF HeldShaped
    <3>3. x.prompts = h.store.prompts /\ x.identity = h.store.identity
      BY <3>2 DEF StoreFields
    <3> HIDE DEF x
    <3>4. o.store = x
      BY <1>2, <3>1
    <3> QED
      BY <3>3, <3>4
  <2>2. CASE leaf # "targets"
    <3>1. o = h \/ \E v, f : f \in {"statistics", "scores"} /\ o = [h EXCEPT ![f] = v]
      <4>1. CASE leaf = "moments"
        <5>1. o = [h EXCEPT !["statistics"] = [st EXCEPT !.children[d].moments.y = nothing]]
          BY <4>1 DEF Overwritten
        <5> HIDE DEF o, d, nothing
        <5> QED
          BY <5>1
      <4>2. CASE leaf = "weights"
        <5>1. o = [h EXCEPT !["scores"] =
                      [sc EXCEPT !.coefficients.blocks[b[1]].weights.ridge = Foreign]]
          BY <4>2 DEF Overwritten
        <5> HIDE DEF o, b
        <5> QED
          BY <5>1
      <4>3. CASE leaf = "prompts"
        <5>1. o = [h EXCEPT !["scores"] =
                      [sc EXCEPT !.shards.children[d].prompts = Foreign]]
          BY <4>3 DEF Overwritten
        <5> HIDE DEF o, d
        <5> QED
          BY <5>1
      <4>4. CASE leaf = "raw_scores"
        <5>1. o = [h EXCEPT !["scores"] = [sc EXCEPT !.blocks[b].scores.on.surface = Foreign]]
          BY <4>4 DEF Overwritten
        <5> HIDE DEF o, b
        <5> QED
          BY <5>1
      <4>5. CASE leaf = "fit_of_the_scores"
        <5>1. o = [h EXCEPT !["scores"] =
                      [sc EXCEPT !.blocks[b].coefficient.of.ridge = Foreign]]
          BY <4>5 DEF Overwritten
        <5> HIDE DEF o, b
        <5> QED
          BY <5>1
      <4>6. CASE leaf \notin Leaves
        BY <4>6 DEF Overwritten, Leaves
      <4> QED
        BY <2>2, <4>1, <4>2, <4>3, <4>4, <4>5, <4>6 DEF Leaves
    <3> HIDE DEF o
    <3>2. o.store = h.store
      BY <1>2, <3>1
    <3> QED
      BY <3>2
  <2> QED
    BY <2>1, <2>2
<1> HIDE DEF o
<1>7. ShapeOf(o.store, o.statistics, o.scores) = ShapeOf(h.store, st, sc)
  BY <1>1, <1>4, <1>5, <1>6 DEF ShapeOf
<1> QED
  BY <1>1, <1>7 DEF o

\* The statistics of every domain are there.
LEMMA ChildrenOfSource ==
    ASSUME NEW s \in Names
    PROVE  DOMAIN StatisticsOf[s].children = StatisticsOf[s].plan.domains
<1>1. StatisticsOf[s] = BuildStatistics(StoreOf[s])
  BY DEF StatisticsOf
<1> DEFINE of == StoreOf[s]
           C == [d \in of.plan.domains |->
                    DomainStatistics([domain |-> d, rows |-> of.plan.rows[d],
                                      tags |-> of.features[d].tags,
                                      content |-> DomainContent(of, d),
                                      moments |-> Moments(of, d), sha256 |-> Unhashed])]
<1>2. DOMAIN C = of.plan.domains
  OBVIOUS
<1>3. BuildStatistics(of).children = C /\ BuildStatistics(of).plan = of.plan
  <2> HIDE DEF of
  <2> QED
    BY BuildStatisticsMade, Zenon
<1> HIDE DEF C
<1> QED
  BY <1>1, <1>2, <1>3

\* What is held is admitted or not as what was built.
LEMMA HeldAdmitted ==
    ASSUME AllNamed
    PROVE  AssemblyAdmitted(Held.store, Held.statistics, Held.scores)
              <=> AssemblyAdmitted(Built.store, Built.statistics, Built.scores)
<1>1. Built.statistics = StatisticsOf[statistics] /\ statistics \in Names
  BY DEF Built, AllNamed
<1>2. HeldShaped(Built) /\ DOMAIN Built.statistics.children = Built.statistics.plan.domains
  BY <1>1, BuiltMade, ChildrenOfSource
<1>3. ShapeOf(Held.store, Held.statistics, Held.scores)
         = ShapeOf(Built.store, Built.statistics, Built.scores)
  <2> HIDE DEF Built
  <2> QED
    BY <1>2, OverwrittenAdmitted DEF Held
<1> QED
  BY <1>3 DEF AssemblyAdmitted

\* What passed the checks is never found too large by the constructor.
LEMMA PassedFits ==
    ASSUME AllNamed, NEW pins, Verdict(Held, pins) = "passed",
           NEW points \in {1, RowCount(StoreOf[store].plan, StoreOf[store].plan.domains)}
    PROVE  ArtifactFits(PredictorOf(Fresh(Held), points))
<1> DEFINE s == store
           plan == Plan(Source[s])
           n == RowCount(plan, plan.domains)
           m == Cardinality(plan.models)
           w == ActiveWidth(plan, AllTags(StatisticsOf[s]))
           run == RunOf(s, solved[2][3])
           a == PredictorOf(run, points)
<1>1. /\ Fresh(Held) = Built /\ Fresh(Held) = run
      /\ s \in Names /\ StoreOf[s].plan = plan
  BY FreshIsBuilt, PassedIsRun, StoreParts DEF AllNamed
<1>2. n \in Nat \ {0} /\ m \in Nat \ {0} /\ IsFiniteSet(plan.models) /\ w \in Nat
  BY <1>1, RowsOfSource, WidthOfRun
<1>3. points \in Nat \ {0} /\ points <= n
  BY <1>1, <1>2
<1>4. run.store = StoreOf[s] /\ run.statistics = StatisticsOf[s]
  BY DEF RunOf
<1> HIDE DEF run
<1>5. RetainedScalars(plan, w) <= MaxArtifactScalars
  <2>1. AssemblyAdmitted(Held.store, Held.statistics, Held.scores)
    BY PassedChecks DEF Preflighted
  <2>2. AssemblyAdmitted(run.store, run.statistics, run.scores)
    BY <1>1, <2>1, HeldAdmitted
  <2> QED
    BY <1>1, <1>4, <2>2 DEF AssemblyAdmitted, ShapeOf
<1>6. /\ NumericScalars(a) = 7 + m * (w + 1 + 2 * points)
      /\ a.examples = n
  <2>1. a = Assembled(StoreOf[s], StatisticsOf[s], run.scores, points)
    BY <1>4 DEF PredictorOf
  <2> HIDE DEF plan, a
  <2> QED
    BY <1>1, <1>2, <1>3, <2>1, PredictorCounts
<1>7. 7 + m * (w + 1) + 2 * n * m <= MaxArtifactScalars
  BY <1>5 DEF RetainedScalars
<1> HIDE DEF plan, n, m, w, a
<1>8. NumericScalars(a) <= MaxArtifactScalars
  <2>1. 7 + m * (w + 1 + 2 * points) <= 7 + m * (w + 1) + 2 * n * m
    <3>1. PICK k \in Nat : n = points + k
      <4>1. n - points \in Nat /\ n = points + (n - points)
        BY <1>2, <1>3
      <4> QED
        BY <4>1
    <3>2. 7 + m * (w + 1) + 2 * n * m = 7 + m * (w + 1 + 2 * points) + 2 * (k * m)
      BY <1>2, <1>3, <3>1
    <3>3. k * m \in Nat /\ m * (w + 1 + 2 * points) \in Nat
      BY <1>2, <1>3
    <3> QED
      BY <3>2, <3>3
  <2>2. m * (w + 1 + 2 * points) \in Nat /\ m * (w + 1) \in Nat /\ 2 * n * m \in Nat
    BY <1>2, <1>3
  <2> QED
    BY <1>6, <1>7, <2>1, <2>2, AssemblyAssumption
<1>9. a.examples <= MaxCalibratorPoints
  <2>1. 2 * n <= 2 * n * m
    <3>1. PICK k \in Nat : m = k + 1
      <4>1. m - 1 \in Nat /\ m = (m - 1) + 1
        BY <1>2
      <4> QED
        BY <4>1
    <3>2. 2 * n * m = 2 * n + 2 * (n * k) /\ n * k \in Nat
      BY <1>2, <3>1
    <3> QED
      BY <1>2, <3>2
  <2>2. m * (w + 1) \in Nat /\ 2 * n * m \in Nat
    BY <1>2
  <2>3. 2 * n <= 2 * MaxCalibratorPoints
    BY <1>2, <1>7, <2>1, <2>2, AssemblyAssumption
  <2> QED
    BY <1>2, <1>6, <2>3, AssemblyAssumption
<1>10. ArtifactFits(a)
  BY <1>8, <1>9 DEF ArtifactFits
<1> QED
  BY <1>1, <1>10 DEF a

-----------------------------------------------------------------------------
(* Constructing again what was just constructed changes nothing.            *)

LEMMA FieldAgain ==
    ASSUME NEW F, NEW x, HasFields(x, F), NEW f
    PROVE  [x EXCEPT ![f] = x[f]] = x
BY DEF HasFields

LEMMA IdentifiedAgain ==
    ASSUME NEW F, NEW x, HasFields(x, F), NEW kind, NEW content,
           x.sha256 = Sha256(kind, content)
    PROVE  Identify(x, kind, content) = x
BY FieldAgain DEF Identify

LEMMA FamilyAgain ==
    ASSUME NEW F, NEW kind, NEW c, MadeFamily(c, kind, F)
    PROVE  [i \in DOMAIN c |-> IdentifyAll(c[i], kind)] = c
<1>1. \A i \in DOMAIN c : IdentifyAll(c[i], kind) = c[i]
  BY IdentifiedAgain DEF MadeFamily, Made, IdentifyAll
<1> QED
  BY <1>1 DEF MadeFamily

LEMMA StatisticsAgain ==
    ASSUME NEW x, StatisticsMade(x)
    PROVE  FreshStatistics(x) = x
<1> DEFINE c == [d \in DOMAIN x.children |-> IdentifyAll(x.children[d], "domain_statistics")]
           content == [plan |-> x.plan, store |-> x.store, identity |-> x.identity,
                       children |-> Digests(x.children)]
<1>1. FreshStatistics(x) = StatisticsBundle([x EXCEPT !.children = c])
  BY DEF FreshStatistics, DomainStatistics
<1>2. c = x.children
  BY FamilyAgain DEF StatisticsMade
<1> HIDE DEF c
<1>3. [x EXCEPT !.children = c] = x
  BY <1>2, FieldAgain DEF StatisticsMade
<1>4. FreshStatistics(x) = Identify(x, "statistics", content)
  BY <1>1, <1>3 DEF StatisticsBundle
<1>5. HasFields(x, StatisticsFields) /\ x.sha256 = Sha256("statistics", content)
  BY DEF StatisticsMade
<1> HIDE DEF content
<1> QED
  BY <1>4, <1>5, IdentifiedAgain

LEMMA CoefficientsAgain ==
    ASSUME NEW x, CoefficientsMade(x)
    PROVE  FreshCoefficients(x) = x
<1> DEFINE c == [s \in DOMAIN x.blocks |-> IdentifyAll(x.blocks[s], "coefficient")]
           content == [plan |-> x.plan, store |-> x.store, identity |-> x.identity,
                       masks |-> x.masks, ridge |-> x.ridge, statistics |-> x.statistics,
                       blocks |-> Digests(x.blocks)]
<1>1. FreshCoefficients(x) = CoefficientBundle([x EXCEPT !.blocks = c])
  BY DEF FreshCoefficients, CoefficientBlock
<1>2. c = x.blocks
  BY FamilyAgain DEF CoefficientsMade
<1> HIDE DEF c
<1>3. [x EXCEPT !.blocks = c] = x
  BY <1>2, FieldAgain DEF CoefficientsMade
<1>4. FreshCoefficients(x) = Identify(x, "coefficients", content)
  BY <1>1, <1>3 DEF CoefficientBundle
<1>5. HasFields(x, CoefficientsFields) /\ x.sha256 = Sha256("coefficients", content)
  BY DEF CoefficientsMade
<1> HIDE DEF content
<1> QED
  BY <1>4, <1>5, IdentifiedAgain

LEMMA ShardsAgain ==
    ASSUME NEW x, ShardsMade(x)
    PROVE  FreshShards(x) = x
<1> DEFINE c == [d \in DOMAIN x.children |-> IdentifyAll(x.children[d], "shard")]
           content == [plan |-> x.plan, identity |-> x.identity,
                       children |-> Digests(x.children)]
<1>1. FreshShards(x) = FeatureShards([x EXCEPT !.children = c])
  BY DEF FreshShards, FeatureShard
<1>2. c = x.children
  BY FamilyAgain DEF ShardsMade
<1> HIDE DEF c
<1>3. [x EXCEPT !.children = c] = x
  BY <1>2, FieldAgain DEF ShardsMade
<1>4. FreshShards(x) = Identify(x, "shards", content)
  BY <1>1, <1>3 DEF FeatureShards
<1>5. HasFields(x, ShardsFields) /\ x.sha256 = Sha256("shards", content)
  BY DEF ShardsMade
<1> HIDE DEF content
<1> QED
  BY <1>4, <1>5, IdentifiedAgain

LEMMA ScoresAgain ==
    ASSUME NEW x, ScoresMade(x)
    PROVE  FreshScores(x) = x
<1> DEFINE c == [b \in DOMAIN x.blocks |-> IdentifyAll(x.blocks[b], "scores")]
           k == FreshCoefficients(x.coefficients)
           h == FreshShards(x.shards)
           content == [coefficients |-> x.coefficients.sha256, shards |-> x.shards.sha256,
                       blocks |-> Digests(x.blocks)]
<1>1. FreshScores(x)
         = ScoreBundle([x EXCEPT !.coefficients = k, !.shards = h, !.blocks = c])
  BY DEF FreshScores, ScoreBlock
<1>2. c = x.blocks /\ k = x.coefficients /\ h = x.shards
  BY FamilyAgain, CoefficientsAgain, ShardsAgain DEF ScoresMade
<1> HIDE DEF c, k, h
<1>3. [x EXCEPT !.coefficients = k, !.shards = h, !.blocks = c] = x
  <2>1. HasFields(x, ScoresFields)
    BY DEF ScoresMade
  <2>2. [x EXCEPT !.coefficients = k] = x /\ [x EXCEPT !.shards = h] = x
        /\ [x EXCEPT !.blocks = c] = x
    BY <1>2, <2>1, FieldAgain
  <2>3. [x EXCEPT !.coefficients = k, !.shards = h, !.blocks = c]
           = [[[x EXCEPT !.coefficients = k] EXCEPT !.shards = h] EXCEPT !.blocks = c]
    OBVIOUS
  <2> QED
    BY <2>2, <2>3, Zenon
<1>4. FreshScores(x) = Identify(x, "score_bundle", content)
  BY <1>1, <1>3 DEF ScoreBundle
<1>5. HasFields(x, ScoresFields) /\ x.sha256 = Sha256("score_bundle", content)
  BY DEF ScoresMade
<1> HIDE DEF content
<1> QED
  BY <1>4, <1>5, IdentifiedAgain

-----------------------------------------------------------------------------
(* The artifacts of one run pass every check that comes after the preflight. *)

\* The store of a source hashes back to its snapshot.
LEMMA SourceStoreValid ==
    ASSUME NEW s \in Names, StoreAdmitted(StoreOf[s].plan)
    PROVE  /\ StoreBytes(StoreOf[s].plan) <= MaxNumericBytes
           /\ StoreIsValid(StoreOf[s])
<1> DEFINE source == Source[s]
           of == StoreOf[s]
           doms == Domains(source)
<1>1. /\ of.plan = Plan(source) /\ of.identity = source.identity
      /\ of.prompts = source.prompts /\ of.targets = source.targets
      /\ of.features = StoredFeatures(source) /\ Plan(source).domains = doms
  BY StoreParts
<1>2. of.snapshot = BuildSnapshot(source)
  BY DEF StoreOf, BuildStore, FeatureStore, IdentifyAll, Identify
<1>3. DOMAIN source.targets = doms /\ source.embeddings = [d \in doms |-> source.embeddings[d]]
  BY EvidenceAssumption DEF Names
<1>4. /\ DOMAIN StoredFeatures(source) = doms
      /\ \A d \in doms : StoredFeatures(source)[d].vector = source.embeddings[d]
  BY DEF StoredFeatures
<1>5. StoreBytes(of.plan) <= MaxNumericBytes
  <2> DEFINE plan == of.plan
             n == Examples(plan)
             e == EmbeddingWidth(plan)
             w == plan.width + Cardinality(plan.models)
  <2>1. n \in Nat /\ Cardinality(plan.models) \in Nat
    BY <1>1, RowsOfSource DEF Examples
  <2>2. plan.width = 5 + Cardinality(Catalogue) + source.embeddingWidth
    BY <1>1 DEF Plan, FixedWidth
  <2>3. Cardinality(Catalogue) \in Nat /\ source.embeddingWidth \in Nat
    BY ArtifactAssumption, EvidenceAssumption, FS_CardinalityType DEF Names
  <2>4. e \in Nat /\ w \in Nat
    BY <2>1, <2>2, <2>3 DEF EmbeddingWidth, FixedWidth
  <2>5. 8 * (n * w) + 8 * (n * e) <= MaxNumericBytes /\ StoreBytes(plan) = 8 * (n * w)
    BY DEF StoreAdmitted, StoreBytes, F64
  <2> HIDE DEF n, w, e
  <2>6. n * w \in Nat /\ n * e \in Nat
    BY <2>1, <2>4
  <2>7. MaxNumericBytes \in Nat
    BY ArtifactAssumption
  <2> QED
    BY <2>5, <2>6, <2>7
<1> HIDE DEF source, of, doms
<1>6. [d \in of.plan.domains |-> of.features[d].vector] = source.embeddings
  BY <1>1, <1>3, <1>4
<1> QED
  BY <1>1, <1>2, <1>3, <1>4, <1>5, <1>6 DEF StoreIsValid, BuildSnapshot, of

\* What a stage writes in the parts of its bundle.
LEMMA StatisticsParts ==
    ASSUME NEW of, StatisticScalars(of.plan) <= MaxStatisticScalars
    PROVE  LET summary == BuildStatistics(of)
           IN /\ StatisticsAreValid(summary) /\ StatisticsBelong(of, summary)
              /\ DOMAIN summary.children = of.plan.domains
<1> DEFINE summary == BuildStatistics(of)
           R(d) == [domain |-> d, rows |-> of.plan.rows[d], tags |-> of.features[d].tags,
                    content |-> DomainContent(of, d), moments |-> Moments(of, d),
                    sha256 |-> Unhashed]
           C == [d \in of.plan.domains |-> DomainStatistics(R(d))]
<1>1. \A d : DomainStatistics(R(d)).domain = d /\ DomainStatistics(R(d)).rows = of.plan.rows[d]
  BY DEF DomainStatistics, IdentifyAll, Identify
<1>2. summary.children = C
  BY BuildStatisticsMade, Zenon
<1> HIDE DEF R
<1>3. DOMAIN C = of.plan.domains /\ \A d \in of.plan.domains : C[d] = DomainStatistics(R(d))
  OBVIOUS
<1>4. /\ summary.plan = of.plan /\ summary.store = of.sha256
      /\ summary.identity = of.identity
  BY BuildStatisticsMade
<1> HIDE DEF summary, C
<1> QED
  BY <1>1, <1>2, <1>3, <1>4 DEF StatisticsAreValid, StatisticsBelong, summary

LEMMA CoefficientsParts ==
    ASSUME NEW of, NEW summary, NEW ridge, summary.plan = of.plan,
           summary.identity = of.identity
    PROVE  LET fits == BuildCoefficients(of, summary, ridge)
           IN /\ CoefficientsAreValid(fits)
              /\ DOMAIN fits.blocks = TrainingSubsets(of.plan.domains)
              /\ \A q \in DOMAIN fits.blocks :
                    fits.blocks[q].plan = of.plan /\ fits.blocks[q].subset = q
<1> DEFINE fits == BuildCoefficients(of, summary, ridge)
           Q == TrainingSubsets(of.plan.domains)
           C == [q \in Q |-> SolveSubset(summary, q, ridge)]
<1>1. /\ fits.plan = of.plan /\ fits.identity = of.identity
      /\ fits.masks = MasksOf(summary) /\ fits.ridge = ridge
      /\ fits.widths = ActiveWidths(fits.plan, fits.masks)
  BY BuildCoefficientsMade
<1>2. fits.blocks = C
  <2> HIDE DEF C
  <2> QED
    BY DEF BuildCoefficients, CoefficientBundle, Identify, C
<1>3. DOMAIN C = Q /\ \A q \in Q : C[q] = SolveSubset(summary, q, ridge)
  OBVIOUS
<1>4. ASSUME NEW q \in Q
      PROVE  LET block == SolveSubset(summary, q, ridge)
             IN /\ block.plan = of.plan /\ block.subset = q /\ block.ridge = ridge
                /\ block.tags = UNION {MasksOf(summary)[d] : d \in q}
                /\ block.identity = of.identity
  <2> DEFINE block == SolveSubset(summary, q, ridge)
             record == SolvedRecord(summary, q, ridge)
             aggregate == SubsetStatistics(summary, q)
  <2>1. block = IdentifyAll(record, "coefficient")
    BY DEF SolveSubset, SolvedRecord, CoefficientBlock
  <2>2. /\ DOMAIN record = CoefficientFields
        /\ record.plan = of.plan /\ record.subset = q /\ record.ridge = ridge
        /\ record.tags = aggregate.tags /\ record.identity = aggregate.identity
    BY DEF SolvedRecord, CoefficientFields
  <2>3. aggregate.tags = TagsOf(summary.children, q) /\ aggregate.identity = of.identity
    BY DEF SubsetStatistics, SubsetAggregate, IdentifyAll, Identify
  <2> HIDE DEF record, aggregate
  <2>4. /\ block.plan = of.plan /\ block.subset = q /\ block.ridge = ridge
        /\ block.tags = aggregate.tags /\ block.identity = aggregate.identity
    BY <2>1, <2>2, IdentifiedAll DEF CoefficientFields
  <2>5. TagsOf(summary.children, q) = UNION {MasksOf(summary)[d] : d \in q}
    <3>1. \A d \in q : d \in of.plan.domains
      BY DEF TrainingSubsets, LeavingOut, Q
    <3>2. \A d \in q : MasksOf(summary)[d] = summary.children[d].tags
      BY <3>1 DEF MasksOf
    <3> QED
      BY <3>2 DEF TagsOf
  <2> HIDE DEF block
  <2> QED
    BY <2>3, <2>4, <2>5 DEF block
<1> HIDE DEF fits, C
<1>5. \A q \in Q : fits.blocks[q] = SolveSubset(summary, q, ridge)
  BY <1>2, <1>3
<1>6. DOMAIN fits.blocks = Q
  BY <1>2, <1>3
<1>7. CoefficientsAreValid(fits)
  BY <1>1, <1>4, <1>5, <1>6 DEF CoefficientsAreValid
<1>8. \A q \in Q : fits.blocks[q].plan = of.plan /\ fits.blocks[q].subset = q
  BY <1>4, <1>5
<1> QED
  BY <1>6, <1>7, <1>8 DEF fits

LEMMA ShardsParts ==
    ASSUME NEW of
    PROVE  LET shards == BuildShards(of)
           IN /\ shards.plan = of.plan /\ shards.identity = of.identity
              /\ \A d \in of.plan.domains :
                    /\ shards.children[d].plan = of.plan /\ shards.children[d].domain = d
                    /\ shards.children[d].prompts = of.prompts[d]
<1> DEFINE shards == BuildShards(of)
<1>1. shards.plan = of.plan /\ shards.identity = of.identity
  BY DEF BuildShards, FeatureShards, Identify
<1>2. ASSUME NEW d \in of.plan.domains
      PROVE  /\ shards.children[d].plan = of.plan /\ shards.children[d].domain = d
             /\ shards.children[d].prompts = of.prompts[d]
  <2>1. shards.children[d] = IdentifyAll(ShardRecord(of, d), "shard")
    BY BuiltShard DEF FeatureShard
  <2>2. /\ DOMAIN ShardRecord(of, d) = ShardFields
        /\ ShardRecord(of, d).plan = of.plan /\ ShardRecord(of, d).domain = d
        /\ ShardRecord(of, d).prompts = of.prompts[d]
    BY DEF ShardRecord, ShardFields
  <2> HIDE DEF shards
  <2> QED
    BY <2>1, <2>2, IdentifiedAll DEF ShardFields
<1> QED
  BY <1>1, <1>2

LEMMA ScoresParts ==
    ASSUME NEW of, NEW fits, CoefficientsMade(fits), fits.plan = of.plan,
           fits.identity = of.identity
    PROVE  LET scored == BuildScores(of, fits)
           IN /\ ScoresAreValid(scored)
              /\ scored.coefficients = fits /\ scored.shards = BuildShards(of)
              /\ DOMAIN scored.blocks = ScoreBlocks(of.plan.domains)
              /\ \A b \in ScoreBlocks(of.plan.domains) :
                    scored.blocks[b].plan = of.plan /\ scored.blocks[b].block = b
<1> DEFINE scored == BuildScores(of, fits)
           B == ScoreBlocks(of.plan.domains)
           R(b) == [plan |-> of.plan, block |-> b, coefficient |-> fits.blocks[b[1]].sha256,
                    shard |-> BuildShards(of).children[b[2]].sha256,
                    scores |-> ScoreStore(of, fits, b), sha256 |-> Unhashed]
           C == [b \in B |-> ScoreBlock(R(b))]
<1>1. /\ scored.coefficients = fits /\ scored.shards = BuildShards(of)
      /\ scored.blocks = C
  <2>1. scored.blocks = C
    <3> HIDE DEF C
    <3> QED
      BY DEF BuildScores, ScoreBundle, Identify, C
  <2>2. scored.coefficients = fits /\ scored.shards = BuildShards(of)
    BY DEF BuildScores, ScoreBundle, Identify
  <2> QED
    BY <2>1, <2>2
<1>2. ASSUME NEW b
      PROVE  /\ ScoreBlock(R(b)).plan = of.plan /\ ScoreBlock(R(b)).block = b
             /\ ScoreBlock(R(b)).coefficient = fits.blocks[b[1]].sha256
             /\ ScoreBlock(R(b)).shard = BuildShards(of).children[b[2]].sha256
  BY DEF ScoreBlock, IdentifyAll, Identify
<1> HIDE DEF R
<1>3. DOMAIN C = B /\ \A b \in B : C[b] = ScoreBlock(R(b))
  OBVIOUS
<1>4. BuildShards(of).plan = of.plan /\ BuildShards(of).identity = of.identity
  BY ShardsParts
<1> HIDE DEF scored, C
<1> QED
  BY <1>1, <1>2, <1>3, <1>4 DEF ScoresAreValid, scored

\* The checks that come after the preflight, of what one run left.
LEMMA RunAccepted ==
    ASSUME NEW s \in Names, NEW r \in Ridges, <<s, <<s, s, r>>>> \in Scorable
    PROVE  LET run == RunOf(s, r)
           IN /\ ParentsAreShaped(run.store, run.statistics, run.scores)
              /\ Fresh(run) = run
              /\ ConstructorsAccept(run.store, run.statistics, run.scores)
              /\ Related(run)
<1> DEFINE run == RunOf(s, r)
           of == StoreOf[s]
           summary == StatisticsOf[s]
           fits == BuildCoefficients(of, summary, r)
           scored == BuildScores(of, fits)
<1>1. /\ run = [store |-> of, statistics |-> summary, scores |-> scored]
      /\ CoefficientsBelong(of, fits)
  <2>1. <<s, s, r>> \in Solvable /\ CoefficientsBelong(of, CoefficientsOf[<<s, s, r>>])
    BY DEF Scorable
  <2>2. CoefficientsOf[<<s, s, r>>] = fits
    BY <2>1 DEF CoefficientsOf
  <2>3. ScoresOf[<<s, <<s, s, r>>>>] = scored
    BY <2>2 DEF ScoresOf
  <2> HIDE DEF fits, scored
  <2> QED
    BY <2>1, <2>2, <2>3 DEF RunOf
<1>2. run.store = of /\ run.statistics = summary /\ run.scores = scored
  BY <1>1
<1>0. StoreAdmitted(of.plan) /\ StatisticScalars(of.plan) <= MaxStatisticScalars
  BY DEF Scorable, Solvable, StatisticsAdmitted
<1>3. /\ summary = BuildStatistics(of) /\ StoreMade(of) /\ StatisticsMade(summary)
      /\ StatisticsAreValid(summary) /\ StatisticsBelong(of, summary)
      /\ summary.plan = of.plan /\ summary.identity = of.identity
  <2>1. of = BuildStore(Source[s]) /\ summary = BuildStatistics(of)
    BY DEF StoreOf, StatisticsOf
  <2>2. StoreMade(of)
    BY <2>1, BuildStoreMade
  <2>3. StatisticsAreValid(BuildStatistics(of)) /\ StatisticsBelong(of, BuildStatistics(of))
    BY <1>0, StatisticsParts
  <2> HIDE DEF of, summary
  <2>4. StatisticsMade(summary)
    BY <2>1, BuildStatisticsMade
  <2> QED
    BY <2>1, <2>2, <2>3, <2>4 DEF StatisticsBelong
<1>4. /\ CoefficientsMade(fits) /\ fits.plan = of.plan /\ fits.identity = of.identity
      /\ fits.masks = MasksOf(summary) /\ fits.statistics = summary.sha256
  BY BuildCoefficientsMade
<1>5. /\ CoefficientsAreValid(fits)
      /\ DOMAIN fits.blocks = TrainingSubsets(of.plan.domains)
      /\ \A q \in DOMAIN fits.blocks :
            fits.blocks[q].plan = of.plan /\ fits.blocks[q].subset = q
  BY <1>3, CoefficientsParts
<1>6. StoreIsValid(of) /\ StoreBytes(of.plan) <= MaxNumericBytes
  BY <1>0, SourceStoreValid
<1>7. /\ BuildShards(of).plan = of.plan /\ BuildShards(of).identity = of.identity
      /\ \A d \in of.plan.domains :
            /\ BuildShards(of).children[d].plan = of.plan
            /\ BuildShards(of).children[d].domain = d
            /\ BuildShards(of).children[d].prompts = of.prompts[d]
  BY ShardsParts
<1> HIDE DEF run, of, summary, fits
<1>8. /\ ScoresAreValid(scored) /\ ScoresMade(scored)
      /\ scored.coefficients = fits /\ scored.shards = BuildShards(of)
      /\ DOMAIN scored.blocks = ScoreBlocks(of.plan.domains)
      /\ \A b \in ScoreBlocks(of.plan.domains) :
            scored.blocks[b].plan = of.plan /\ scored.blocks[b].block = b
  <2>1. ScoresMade(scored)
    BY <1>4, ScoresName
  <2> QED
    BY <1>4, <2>1, ScoresParts
<1> HIDE DEF scored
<1>9. ParentsAreShaped(of, summary, scored)
  BY <1>0, <1>3, <1>4, <1>5, <1>6, <1>7, <1>8 DEF ParentsAreShaped
<1>10. Fresh(run) = run
  <2>1. FeatureStore(of) = of
    BY <1>3, IdentifiedAgain DEF FeatureStore, IdentifyAll, StoreMade, Made
  <2>2. FreshStatistics(summary) = summary /\ FreshScores(scored) = scored
    BY <1>3, <1>8, StatisticsAgain, ScoresAgain
  <2> QED
    BY <1>1, <1>2, <2>1, <2>2 DEF Fresh
<1>11. ConstructorsAccept(of, summary, scored)
  BY <1>3, <1>5, <1>6, <1>8 DEF ConstructorsAccept
<1>12. Related(run)
  <2>1. ParentsBelongTogether(of, summary, scored)
    BY <1>1, <1>3, <1>4, <1>7, <1>8 DEF ParentsBelongTogether
  <2>2. ContextsJoin(of, scored)
    <3> SUFFICES ASSUME NEW d \in of.plan.domains
                 PROVE  LET b == Context(of.plan, d)
                            shard == scored.shards.children[d]
                        IN /\ scored.blocks[b].coefficient
                                 = scored.coefficients.blocks[b[1]].sha256
                           /\ scored.blocks[b].shard = shard.sha256
                           /\ shard.prompts = of.prompts[d]
      BY DEF ContextsJoin
    <3>1. /\ Context(of.plan, d) \in ScoreBlocks(of.plan.domains)
          /\ Context(of.plan, d)[2] = d
      BY ContextScored DEF Context
    <3> QED
      BY <1>4, <1>7, <1>8, <3>1 DEF ScoresAreValid
  <2> QED
    BY <1>2, <2>1, <2>2 DEF Related
<1> QED
  BY <1>2, <1>9, <1>10, <1>11, <1>12 DEF run

\* A run that fits passes.
LEMMA RunPasses ==
    ASSUME NEW s \in Names, NEW r \in Ridges, <<s, <<s, s, r>>>> \in Scorable,
           LET run == RunOf(s, r)
           IN AssemblyAdmitted(run.store, run.statistics, run.scores)
    PROVE  Verdict(RunOf(s, r), PinsFrom(RunOf(s, r))) = "passed"
<1> DEFINE run == RunOf(s, r)
<1>1. /\ Preflighted(run) /\ Fresh(run) = run
      /\ ConstructorsAccept(run.store, run.statistics, run.scores) /\ Related(run)
  BY RunAccepted DEF Preflighted
<1>2. Pinned(PinsFrom(run), run)
  BY DEF Pinned, PinsHold, PinsFrom
<1> HIDE DEF run
<1>3. Verdict(run, PinsFrom(run)) = "passed"
  BY <1>1, <1>2 DEF Verdict
<1> QED
  BY <1>3 DEF run

(* Artifacts of one run under its pins are refused exactly when the largest     *)
(* predictor or one of the four estimates of assembling it is above its limit,  *)
(* and then before any work; what passed is never found too large when it is    *)
(* there (the five limits of PreparedAllDomainAssemblyEstimate and the          *)
(* constructor of the artifact).                                                *)
THEOREM RefusedBeforeWork == Spec => []RefusalIsWarranted
<1>1. EInv => RefusalIsWarranted
  <2> DEFINE fits == /\ Largest[store] <= MaxArtifactScalars
                     /\ AssemblyAffordable(
                           ShapeOf(Built.store, Built.statistics, Built.scores))
             One(r) == /\ statistics = store /\ solved = <<store, <<store, store, r>>>>
                       /\ attempt.pins \in {None, <<store, r>>}
             pins == Pins(attempt.pins)
  <2> SUFFICES ASSUME EInv, attempt # None, document = None
               PROVE  /\ attempt.outcome # "too_large_after_all"
                      /\ \A r \in Ridges :
                            /\ One(r) /\ changed = None /\ fits
                                  => attempt.outcome = "assembled"
                            /\ One(r) /\ ~fits => attempt.outcome = "too_large"
    BY DEF RefusalIsWarranted
  <2>1. AllNamed
    BY HeldIsNamed DEF EInv, AttemptJudged
  <2>2. Verdict(Held, pins) # "passed" => attempt.outcome = Verdict(Held, pins)
    BY DEF EInv, AttemptJudged
  <2>3. Verdict(Held, pins) = "passed" => attempt.outcome = "assembled"
    BY <2>1, PassedFits DEF EInv, AttemptJudged
  <2>4. attempt.outcome # "too_large_after_all"
    BY <2>2, <2>3 DEF Verdict
  <2>5. ASSUME NEW r \in Ridges, One(r)
        PROVE  /\ AssemblyAdmitted(Built.store, Built.statistics, Built.scores) <=> fits
               /\ Built = RunOf(store, r) /\ pins = PinsFrom(Built)
               /\ store \in Names /\ <<store, <<store, store, r>>>> \in Scorable
    <3>1. store \in Names /\ <<store, <<store, store, r>>>> \in Scorable
      BY <2>1, <2>5 DEF AllNamed
    <3>2. Built = RunOf(store, r)
      BY <2>5 DEF Built, RunOf
    <3>3. Built.store.plan = Plan(Source[store]) /\ Built.statistics = StatisticsOf[store]
      BY <2>1, <2>5, BuiltMade DEF Built
    <3>4. AssemblyAdmitted(Built.store, Built.statistics, Built.scores) <=> fits
      <4>1. Largest[store]
               = RetainedScalars(Built.store.plan,
                                 ActiveWidth(Built.store.plan, AllTags(Built.statistics)))
        BY <3>1, <3>3, LargestIsRetained
      <4> QED
        BY <4>1 DEF AssemblyAdmitted, ShapeOf
    <3>5. pins = PinsFrom(Built)
      <4>1. CASE attempt.pins = None
        BY <4>1 DEF Pins
      <4>2. CASE attempt.pins = <<store, r>>
        <5>1. <<store, r>> \in Finished
          BY <3>1 DEF Finished
        <5>2. RunPins[<<store, r>>] = PinsFrom(RunOf(store, r))
          BY <5>1 DEF RunPins
        <5> QED
          BY <3>2, <4>2, <5>2 DEF Pins
      <4> QED
        BY <2>5, <4>1, <4>2
    <3> QED
      BY <3>1, <3>2, <3>4, <3>5
  <2>6. ASSUME NEW r \in Ridges, One(r), changed = None, fits
        PROVE  attempt.outcome = "assembled"
    <3>1. Held = Built
      BY <2>6, LeavesAssumption DEF Held, Overwritten, Leaves
    <3>2. Verdict(Built, PinsFrom(Built)) = "passed"
      BY <2>5, <2>6, RunPasses
    <3>3. pins = PinsFrom(Built)
      BY <2>5, <2>6
    <3> QED
      BY <2>3, <3>1, <3>2, <3>3
  <2>7. ASSUME NEW r \in Ridges, One(r), ~fits
        PROVE  attempt.outcome = "too_large"
    <3>1. ~AssemblyAdmitted(Built.store, Built.statistics, Built.scores)
      BY <2>5, <2>7
    <3>2. ~Preflighted(Held)
      BY <2>1, <3>1, HeldAdmitted DEF Preflighted
    <3>3. \A h, p : ~Preflighted(h) => Verdict(h, p) = "too_large"
      BY DEF Verdict
    <3> HIDE DEF pins
    <3>4. Verdict(Held, pins) = "too_large"
      BY <3>2, <3>3
    <3> QED
      BY <2>2, <3>4
  <2> QED
    BY <2>4, <2>6, <2>7
<1> QED
  BY <1>1, EvidenceInductive, PTL
=============================================================================
