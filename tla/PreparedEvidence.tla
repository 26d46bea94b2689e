-------------------------- MODULE PreparedEvidence ---------------------------
(***************************************************************************)
(* An operator's session with the prepared artifacts: the stages are run   *)
(* and run again in any order, over any of the sources, with any ridge;    *)
(* what is held is handed to the assembly with some pins; the predictor is *)
(* written out and a document is parsed.                                   *)
(*                                                                         *)
(* An artifact that a stage made is named by what it was made from, since  *)
(* the stages are deterministic; the tables below hold the artifacts       *)
(* themselves.                                                             *)
(***************************************************************************)
EXTENDS PreparedAssembly

CONSTANTS
    Source,       \* name -> the rows of a source
    Runs,         \* the names an operator works with; the others only compare
    Mixed,        \* those among them that one session may have together (a bound)
    Ridges,
    Foreign,      \* a value that is nobody's
    None

ASSUME EvidenceAssumption ==
    /\ Runs \subseteq DOMAIN Source /\ Mixed \subseteq Runs
    /\ \A s \in DOMAIN Source :
          /\ Source[s].rows \in Seq(Nat \ {0}) /\ Source[s].rows # << >>
          /\ IsFiniteSet(Source[s].models) /\ Source[s].models # {}
          /\ Source[s].embeddingWidth \in Nat
          /\ \A d \in Domains(Source[s]) : Source[s].tags[d] \subseteq Catalogue
          /\ DOMAIN Source[s].targets = Domains(Source[s])
          /\ Source[s].identity = NoEncoder <=> Source[s].embeddingWidth = 0
          /\ Source[s].identity = NoEncoder =>
                \A d \in Domains(Source[s]) : Source[s].embeddings[d] = NoEncoder
          /\ KeyBytes(Source[s].prompts) \in Nat
          /\ NameBytes(Plan(Source[s]), Source[s].identity) \in Nat
          /\ Source[s].embeddings = [d \in Domains(Source[s]) |-> Source[s].embeddings[d]]

Names == DOMAIN Source

VARIABLES
    store,         \* name of the source, or None
    statistics,    \* name of the source of the store it was computed from
    solved,        \* the coefficients, or the scores that hold them: <<solve>>
                   \* or <<store, solve>>, solve = <<store, statistics, ridge>>
    changed,       \* the leaf that was overwritten in memory, or None
    attempt,       \* [pins, points, outcome] of the assembly, or None
    document       \* None, or [damage, pinned, accepted]: the field of it that
                   \* was damaged (or None) and what its reader said of it

vars == <<store, statistics, solved, changed, attempt, document>>

-----------------------------------------------------------------------------
(* What the stages make. *)

StoreOf == [s \in Names |-> BuildStore(Source[s])]

StatisticsOf == [s \in Names |-> BuildStatistics(StoreOf[s])]

(* The solves that no stage up to them refuses. *)
Solvable ==
    {solve \in Names \X Names \X Ridges :
        /\ StoreAdmitted(StoreOf[solve[1]].plan)
        /\ StatisticsAdmitted(StoreOf[solve[1]].plan)
        /\ CoefficientsAdmitted(StoreOf[solve[1]], StatisticsOf[solve[2]])}

CoefficientsOf ==
    [solve \in Solvable |->
        BuildCoefficients(StoreOf[solve[1]], StatisticsOf[solve[2]], solve[3])]

Scorable ==
    {score \in Names \X Solvable :
        CoefficientsBelong(StoreOf[score[1]], CoefficientsOf[score[2]])}

ScoresOf == [score \in Scorable |-> BuildScores(StoreOf[score[1]], CoefficientsOf[score[2]])]

(* The three artifacts of a run that was never disturbed. *)
RunOf(s, ridge) ==
    [store |-> StoreOf[s], statistics |-> StatisticsOf[s],
     scores |-> ScoresOf[<<s, <<s, s, ridge>>>>]]

PinsFrom(held) == PinsOf(held.store, held.statistics, held.scores)

(* The runs that no stage refuses; only these have pins to be noted. *)
Finished ==
    {run \in Names \X Ridges : <<run[1], <<run[1], run[1], run[2]>>>> \in Scorable}

RunPins == [run \in Finished |-> PinsFrom(RunOf(run[1], run[2]))]

-----------------------------------------------------------------------------
(* What is handed over: one leaf may no longer be what its digest says.     *)

Built ==
    [store |-> StoreOf[store], statistics |-> StatisticsOf[statistics],
     scores |-> ScoresOf[solved]]

Leaves == {"targets", "moments", "weights", "prompts", "raw_scores", "fit_of_the_scores"}

ASSUME LeavesAssumption == None \notin Leaves

Overwritten(held, leaf) ==
    LET d == CHOOSE e \in held.store.plan.domains : TRUE
        b == Context(held.store.plan, d)
        nothing == [m \in held.store.plan.models |-> Foreign]
    IN CASE leaf = "targets" -> [held EXCEPT !.store.targets[d] = nothing]
         [] leaf = "moments" ->
               [held EXCEPT !.statistics.children[d].moments.y = nothing]
         [] leaf = "weights" ->
               [held EXCEPT !.scores.coefficients.blocks[b[1]].weights.ridge = Foreign]
         [] leaf = "prompts" ->
               [held EXCEPT !.scores.shards.children[d].prompts = Foreign]
         [] leaf = "raw_scores" ->
               [held EXCEPT !.scores.blocks[b].scores.on.surface = Foreign]
         [] leaf = "fit_of_the_scores" ->
               [held EXCEPT !.scores.blocks[b].coefficient.of.ridge = Foreign]
         [] OTHER -> held

Held == Overwritten(Built, changed)

(* The pins come with the run they are of, or are noted from what is held.  *)
Pins(pinned) == IF pinned = None THEN PinsFrom(Built) ELSE RunPins[pinned]

Fresh(held) ==
    [store |-> FeatureStore(held.store), statistics |-> FreshStatistics(held.statistics),
     scores |-> FreshScores(held.scores)]

Preflighted(held) ==
    /\ ParentsAreShaped(held.store, held.statistics, held.scores)
    /\ AssemblyAdmitted(held.store, held.statistics, held.scores)

Pinned(pins, held) == PinsHold(pins, held.store, held.statistics, held.scores)

Related(held) ==
    /\ ParentsBelongTogether(held.store, held.statistics, held.scores)
    /\ ContextsJoin(held.store, held.scores)

PredictorOf(held, points) == Assembled(held.store, held.statistics, held.scores, points)

(* The checks in their order; each one is reached when those before it pass. *)
Verdict(held, pins) ==
    LET fresh == Fresh(held)
    IN IF ~Preflighted(held) THEN "too_large"
       ELSE IF ~Pinned(pins, held) THEN "not_what_was_pinned"
       ELSE IF ~ConstructorsAccept(fresh.store, fresh.statistics, fresh.scores) THEN "altered"
       ELSE IF ~Pinned(pins, fresh) THEN "altered"
       ELSE IF ~Related(fresh) THEN "unrelated"
       ELSE "passed"

(* The predictor that was assembled. *)
Predictor == PredictorOf(Fresh(Held), attempt.points)

-----------------------------------------------------------------------------
(* A document with one field of its inference state or lineage damaged.     *)

Fields == {"schema", "weights", "bias", "ridge", "calibrator", "points", "identity",
           "aggregate", "final", "context", "rows", "examples", "store"}

Damaged(artifact, field) ==
    LET m == CHOOSE e \in DOMAIN artifact.models : TRUE
        d == CHOOSE e \in artifact.domains : TRUE
    IN CASE field = "schema" -> [artifact EXCEPT !.schema.scaling = Foreign]
         [] field = "weights" -> [artifact EXCEPT !.models[m].weights.model = Foreign]
         [] field = "bias" -> [artifact EXCEPT !.models[m].bias.ridge = Foreign]
         [] field = "ridge" -> [artifact EXCEPT !.ridge = Foreign]
         [] field = "calibrator" -> [artifact EXCEPT !.models[m].calibrator.fitted = Foreign]
         [] field = "points" -> [artifact EXCEPT !.models[m].calibrator.points = @ + 1]
         [] field = "identity" -> [artifact EXCEPT !.models[m].calibrator.identity = Foreign]
         [] field = "aggregate" -> [artifact EXCEPT !.lineage.aggregate = Foreign]
         [] field = "final" -> [artifact EXCEPT !.lineage.final = Foreign]
         [] field = "context" -> [artifact EXCEPT !.lineage.sources[d].context[1] = @ \cup {d}]
         [] field = "rows" -> [artifact EXCEPT !.lineage.sources[d].rows = @ + 1]
         [] field = "examples" -> [artifact EXCEPT !.examples = @ + 1]
         [] field = "store" -> [artifact EXCEPT !.lineage.store = Foreign]

(* What a reader finds in the place of the document. *)
Found(field) == IF field = None THEN Predictor ELSE Damaged(Predictor, field)

(* The digest of the bytes, all read from one unchanged file. *)
PinnedBytes(artifact) == Sha256("document", artifact)

-----------------------------------------------------------------------------
Init ==
    /\ store = None /\ statistics = None /\ solved = None
    /\ changed = None
    /\ attempt = None
    /\ document = None

Working == changed = None /\ attempt = None

(* The sources of this session. *)
Session == IF store = None THEN Runs ELSE IF store \in Mixed THEN Mixed ELSE {store}

RunBuildStore ==
    /\ Working
    /\ store' \in {s \in Session : StoreAdmitted(StoreOf[s].plan)}
    /\ UNCHANGED <<statistics, solved, changed, attempt, document>>

RunBuildStatistics ==
    /\ Working /\ store # None
    /\ StatisticsAdmitted(StoreOf[store].plan)
    /\ statistics' = store
    /\ UNCHANGED <<store, solved, changed, attempt, document>>

(* Refused, with nothing changed, when the statistics are of another store, *)
(* or the solves and the scores together are over a limit.                  *)
RunBuildCoefficients ==
    /\ Working /\ store # None /\ statistics # None
    /\ \E ridge \in Ridges :
          /\ <<store, statistics, ridge>> \in Solvable
          /\ solved' = <<<<store, statistics, ridge>>>>
    /\ UNCHANGED <<store, statistics, changed, attempt, document>>

RunBuildScores ==
    /\ Working /\ store # None /\ solved # None
    /\ Len(solved) = 1
    /\ <<store, solved[1]>> \in Scorable
    /\ solved' = <<store, solved[1]>>
    /\ UNCHANGED <<store, statistics, changed, attempt, document>>

AllHeld == None \notin {store, statistics, solved} /\ Len(solved) = 2

Overwrite ==
    /\ Working /\ AllHeld
    /\ changed' \in Leaves
    /\ UNCHANGED <<store, statistics, solved, attempt, document>>

Pinnings == {None} \cup (Finished \cap (Session \X Ridges))

(* A calibrator has between one point and one a row: what the fit leaves of *)
(* them is the data's business.                                             *)
Assemble ==
    /\ AllHeld /\ attempt = None
    /\ \E pinned \in Pinnings :
          LET verdict == Verdict(Held, Pins(pinned))
          IN \/ /\ verdict # "passed"
                /\ attempt' = [pins |-> pinned, points |-> 0, outcome |-> verdict]
             \/ /\ verdict = "passed"
                /\ \E points \in {1, RowCount(StoreOf[store].plan,
                                              StoreOf[store].plan.domains)} :
                      attempt' = [pins |-> pinned, points |-> points,
                                  outcome |->
                                     IF ArtifactFits(PredictorOf(Fresh(Held), points))
                                     THEN "assembled" ELSE "too_large_after_all"]
    /\ UNCHANGED <<store, statistics, solved, changed, document>>

(* One stage beside the target, then os.replace: the whole document is      *)
(* there, or a step failed and what was there before still is.              *)
SaveOneStage == document' = [damage |-> None, pinned |-> FALSE, accepted |-> FALSE]

Save ==
    /\ attempt # None /\ document = None
    /\ attempt.outcome = "assembled"
    /\ ParseAccepts(Predictor)
    /\ SaveOneStage
    /\ UNCHANGED <<store, statistics, solved, changed, attempt>>

Unread == document # None /\ document.damage = None /\ ~document.pinned

(* The parser without a pin on the bytes: what the document says of itself. *)
Parse ==
    /\ Unread
    /\ \E field \in Fields :
          document' = [damage |-> field, pinned |-> FALSE,
                       accepted |-> ParseAccepts(Found(field))]
    /\ UNCHANGED <<store, statistics, solved, changed, attempt>>

(* The loader under the pin of the bytes that were saved. *)
Load ==
    /\ Unread
    /\ \E field \in Fields \cup {None} :
          document' = [damage |-> field, pinned |-> TRUE,
                       accepted |-> /\ PinnedBytes(Found(field)) = PinnedBytes(Predictor)
                                    /\ ParseAccepts(Found(field))]
    /\ UNCHANGED <<store, statistics, solved, changed, attempt>>

Next ==
    \/ RunBuildStore
    \/ RunBuildStatistics
    \/ RunBuildCoefficients
    \/ RunBuildScores
    \/ Overwrite
    \/ Assemble
    \/ Save
    \/ Parse
    \/ Load

Spec == Init /\ [][Next]_vars

-----------------------------------------------------------------------------
(* A predictor comes out only when the pins are those of one undisturbed    *)
(* run, and it is the predictor of that run: whatever was rebuilt in        *)
(* between, mixed with the parts of another run, or overwritten under a     *)
(* digest that still looks right (the two comparisons of                    *)
(* assemble_prepared_bilinear_artifact and its cross-parent associations).  *)
Accepted == attempt # None /\ document = None /\ attempt.outcome = "assembled"

PredictorIsOneLineage ==
    Accepted =>
        \E run \in Finished :
            /\ Pins(attempt.pins) = RunPins[run]
            /\ Predictor = PredictorOf(RunOf(run[1], run[2]), attempt.points)

(* Everything the scores of a held-out domain may depend on.                *)
SameButTargetsOf(s, t, d) ==
    LET others == Domains(Source[s]) \ {d}
    IN /\ Plan(Source[s]) = Plan(Source[t])
       /\ Source[s].identity = Source[t].identity
       /\ StoredFeatures(Source[s]) = StoredFeatures(Source[t])
       /\ \A e \in others : Source[s].targets[e] = Source[t].targets[e]

ScoreDigests ==
    [run \in Finished |->
        LET scored == RunOf(run[1], run[2]).scores
        IN [d \in Domains(Source[run[1]]) |->
               scored.blocks[Context(scored.coefficients.plan, d)].sha256]]

(* The scores a calibrator is fitted on are blind to the targets of the     *)
(* domain they are for, and to every cost: the digest the predictor records *)
(* for them is shared by exactly the runs whose sources differ in nothing   *)
(* else (combine_prepared_subset_statistics and the blocks built on it).    *)
HeldOutTargetsUnseen ==
    Accepted =>
        LET sources == Predictor.lineage.sources IN
        \A run \in Finished, d \in DOMAIN sources :
            d \in DOMAIN ScoreDigests[run] /\ ScoreDigests[run][d] = sources[d].scores
                <=> SameButTargetsOf(store, run[1], d) /\ run[2] = solved[2][3]

Largest ==
    [s \in Names |->
        LET run == RunOf(s, CHOOSE ridge \in Ridges : TRUE)
        IN NumericScalars(PredictorOf(run, RowCount(run.store.plan, run.store.plan.domains)))]

(* The artifacts of one run under its pins are refused exactly when the     *)
(* largest predictor the fit could leave has too many numbers in it or one  *)
(* of the four other estimates is over its limit, and then before any work: *)
(* no pin, constructor or join of the assembly refuses what one run made,   *)
(* and nothing that was admitted is found too large when it is there.  The  *)
(* numbers are counted as the constructor of the artifact counts them,      *)
(* where the preflight uses a closed form (_estimate_assembly).             *)
RefusalIsWarranted ==
    attempt # None /\ document = None =>
        LET fits == /\ Largest[store] <= MaxArtifactScalars
                    /\ AssemblyAffordable(
                          ShapeOf(Built.store, Built.statistics, Built.scores))
            oneRun == \E ridge \in Ridges :
                         /\ statistics = store /\ solved = <<store, <<store, store, ridge>>>>
                         /\ attempt.pins \in {None, <<store, ridge>>}
        IN /\ attempt.outcome # "too_large_after_all"
           /\ oneRun /\ changed = None /\ fits => attempt.outcome = "assembled"
           /\ oneRun /\ ~fits => attempt.outcome = "too_large"

Inference(artifact) ==
    [schema |-> artifact.schema, ridge |-> artifact.ridge, domains |-> artifact.domains,
     examples |-> artifact.examples,
     models |-> [m \in DOMAIN artifact.models |->
                    [weights |-> artifact.models[m].weights, bias |-> artifact.models[m].bias,
                     calibrator |-> Without(artifact.models[m].calibrator, {"identity"})]]]

(* The parser without a pin accepts no document in which one field that a   *)
(* prediction depends on, or that says what the calibrators were fitted on, *)
(* is not what was assembled; a digest of a parent it cannot check.  The    *)
(* loader with a pin accepts what was saved and nothing else.               *)
DamagedInferenceRefused ==
    document # None =>
        LET found == Found(document.damage)
        IN /\ document.accepted =>
                 /\ Inference(found) = Inference(Predictor)
                 /\ found.lineage.sources = Predictor.lineage.sources
           /\ document.pinned => (document.accepted <=> found = Predictor)
=============================================================================
