# A TLA+ development of tierroute

tierroute trains and evaluates routers that choose a language model for a prompt
under a budget. It is an offline Python program with two native C sidecars: its
hard parts are not servers and locks but **several files that must change as
one**, **child processes behind pipes and deadlines**, **accounting that must
agree with itself over a whole stream**, and **exact searches whose result is
claimed to be optimal**. This directory models those parts in TLA+, checks them
with TLC on small instances and proves the central ones with TLAPS.

Paths below are relative to the package, `src/src/tierroute/`, unless they start
with `native/` or `docs/`. `PROJECT.json` holds the same facts in a form programs
can read: components, runs, mutants, hazards, theorems, and for every definition
the source lines it translates.

## 1. The system

| component | state it keeps | operations | interacts with |
|---|---|---|---|
| Atomic text bundles, `core/atomic_io.py` | destination, stage and backup files; registries of both; attempted renames; rollback and cleanup errors | `replace_text_bundle` and its stages: reserve, write, back up, rename, verify, undo, clean | called by the train commands of `cli.py` |
| Predictor/policy pair, `cli.py`, `policies/lambda_artifacts.py` | two JSON files bound by a hash | `_save_training_artifacts`, `_route` | bundle writes; a concurrent route command reads |
| Budget ledgers, `adapters/budgets.py` | active query, balance, spend, overspends | `begin_query`, `charge_realized`, `finish_query`, `report` | driven by the simulator |
| Offline simulator, `eval/simulator.py`, `core/router.py`, `eval/schemas.py`, `eval/planning.py` | per query: history, evidence, charges; per tier: results | `_run_tier`, `_run_query`, `validate_action`, the oracle plans | calls any router; consumed by metrics and tuning |
| Lambda tuning, `policies/lambda_tuning.py`, `policies/lambda_threshold.py` | crossings, bounded sample, candidate set, best selection | preflight, `derive_lambda_candidate_set`, `tune_tier_lambdas`, `route_from_predictions` | replays every candidate through the simulator |
| Native prepared session, `predictors/native_prepared.py` | workspace, request and response files, child process, two drain threads, result mapping | `run`: prepare, launch, drain, poll, reap, verdict, load, hand over | speaks the session protocol with the C sidecar |
| Prepared child, `native/tierroute_prepared.c` | its answer | reads request and store, writes header and records, exits | stdout and stderr pipes |
| Native ridge session, `predictors/native_ridge.py`, `native/tierroute_ridge.c` | as above, the request on stdin | the same capture with other failure paths | |
| Prepared store files, `predictors/prepared_files.py` | stage, published file, receipt, private snapshot and its mapping | write, publish, authenticate, copy, map | written by training commands, read by sessions |
| Nested evaluation, `policies/lambda_tuning.py`, `eval/validation.py`, `predictors/training.py` | folds, cross-fitted scores, tuned lambdas, the per-example schedule | preflight, cross-fit, tune, refit, score, replay | asks one of three trainers for a predictor per training side |
| Prepared reference pipeline, `policies/prepared_reference.py`, `predictors/prepared_graph.py`, `prepared_execution.py`, `prepared_store.py` | graph of training subsets and score blocks, coefficients, caches of calibrators and predictors | plan, fit, score, calibrate, serve | a trainer of the nested evaluation; reference of what the sidecar computes |
| Native prepared benchmark, `policies/native_prepared_benchmark.py` | a mapped result, calibrated copies of its scores | verify, calibrate, copy, verify again, serve | a trainer of the nested evaluation; prepared session |
| Prepared all-domain artifacts, `predictors/prepared_assembly.py`, `prepared_artifacts.py` | one artifact file with its manifest | assemble, save, load | store files, sessions |
| Baselines, comparison, provenance, `policies/baseline*.py`, `benchmark.py`, `eval/provenance.py` | reports | configuration search | simulator, tuning |
| Predictors and features, `predictors/*.py`, `features/` | coefficients, calibration | fit, predict, encode | |
| Exact costs, `core/costs.py`; dataset adapters; command line, demo, scripts | none | arithmetic, parsing, printing | everything |

The program is single-threaded except for the drain threads of the two native
sessions. Concurrency therefore comes from **other processes** (a route command
during a train command, several writers of one store, the sidecar) and from
**asynchronous exceptions** (`KeyboardInterrupt`), which Python may deliver
between any two statements.

### What makes each component correct, and what is hard

* **Bundles.** No destination ever shows a torn document; the original is never
  lost while the whole bundle is not in place; later documents are visible only
  with earlier ones; the exception tells exactly which state the files are in;
  the call ends. Hard: a rename that took effect and raised, failures inside the
  rollback and inside the cleanup, death between two renames.
* **Artifact pair.** A reader never routes with a predictor and a policy that
  were not on disk together. Hard: two reads against a commit or a rollback.
* **Ledgers and simulator.** Evidence, result and ledger agree to the last unit;
  an overspend ends its query and exhausts a shared ledger for good; the oracle
  is an upper bound. Hard: quotes that differ from charges, the call cap and the
  budget running out together, balances carried across queries.
* **Tuning.** The exact candidate set represents every lambda; the selection is
  optimal when it says exhaustive and says so only when it is; the preflight's
  estimate bounds the work. Hard: ties, equal costs, a budget that moves with the
  choices themselves, eviction and thinning.
* **Nested evaluation.** Nothing computed from a held-out domain's targets reaches
  its scores or its lambdas; whichever trainer serves it, the answer is that of
  the textbook procedure; the work is what the planner announced. Hard: fits,
  calibrators and predictors shared between outer folds by name, predictors that
  recognise a domain by its prompts only, scores mapped from a file that is
  altered while they are read.
* **Native sessions.** A result is returned only for a child that ended well and
  left exactly the expected file; no child, descriptor or workspace leaks; both
  pipes are drained together; everything ends in time. Hard: deadline against a
  late answer, a drain thread that outlives its joins, failures between launch
  and drains, an ownership that changes hands while things may still raise.
* **Sidecar.** What the caller believes is the score of the right row, subset and
  target; both ends admit the same stores at the same cost; a failure is reported
  with the child's own status. Hard: flat offsets computed apart by two programs in
  two languages, a stage that fails with the answer half written, a store that is
  altered between its authentication and the child.
* **Artifacts and assembly.** A predictor comes from one undisturbed run; no
  held-out target reaches the scores its calibrators are fitted on; what one
  undisturbed run made is assembled if the five estimates of the preflight (numbers
  kept, objects, document, storage, work) are within their limits, and refused before
  the work if one is not. Hard: stages rerun in any order, digests cached before an
  object is altered, estimates computed apart from what they estimate.
* **Store files.** What is published is whole and is never replaced; a returned
  receipt stays good; an authenticated snapshot stays under its readers. Hard:
  racing writers, withdrawal in two steps, link counts that renew `st_ctime` under
  a reader, a close that fails half way or meets an exported view.

`PROJECT.json` lists each hazard at its line, with the properties that would
catch it, or the reason why none does.

## 2. Modules

| module | models | builds on |
|---|---|---|
| `AtomicBundle` | `replace_text_bundle`, one action per statement that changes a file or a registry | |
| `BundleContract` | its abstract specification: publish in order, take back in reverse, answer truthfully | |
| `BundleRefines` | the refinement mapping from the first to the second | both |
| `BundleReader` | a route command loading the pair meanwhile; the composition that is checked | `BundleRefines` |
| `BudgetLedger` | the per-query and the cumulative ledger | |
| `Totals` | sums of what a sequence records, as running totals, and of what a function has for its arguments | |
| `BudgetReplay`, `MCBudgetReplay` | the simulator over one tier, with an arbitrary router | `BudgetLedger`, `Totals` |
| `LambdaCandidates`, `MCLambdaCandidates` | crossings, bounded sample, boundaries, thinning, label, preflight bound | |
| `LambdaTuning`, `MCLambdaTuning` | one-shot choice, replay of every candidate, selection | `LambdaCandidates`, `Totals` |
| `PreparedGraph` | the graph of training subsets and score blocks, scores as terms, the planner's closed forms | |
| `TextbookLodo` | abstract specification of a nested evaluation: the one answer, or a refusal for one of six reasons | `PreparedGraph` |
| `NestedLodo`, `MCNestedLodo` | the loops of the nested evaluation and its three trainers, shown to implement it | both |
| `ChildPipes` | a sidecar, its pipes and the two drain threads | |
| `AdapterCall` | what a call of either native adapter keeps; the waits and the verdict both share | `ChildPipes` |
| `PreparedSession` | the main thread of `NativePreparedSessionAdapter.run` | `AdapterCall` |
| `RidgeSession` | the main thread of `NativeRidgeAdapter.solve` | `AdapterCall` |
| `NativeSessions` | one call of either adapter beside its child and drains; fairness and properties | both |
| `PreparedLayout` | the arithmetic of both ends of a prepared session: graph in wire order, offsets, sizes, work, limits | `Totals` |
| `PreparedSidecar`, `MCPreparedSidecar` | the program `native/tierroute_prepared.c` stage by stage, and the caller's parser and verifier | `PreparedLayout` |
| `PreparedArtifacts` | every artifact of the prepared reference pipeline: its leaves, its checks, its digest, its rows | `PreparedGraph` |
| `PreparedAssembly` | the all-domain assembly and the parser of the predictor it makes | `PreparedArtifacts` |
| `PreparedEvidence`, `MCPreparedEvidence` | an operator who runs and reruns the stages, mixes, alters, assembles, saves and parses | `PreparedAssembly` |
| `StorePublication` | concurrent writers and an authenticating reader of one store name | |
| `StoreSnapshot`, `MCStoreSnapshot` | that reader as the program has it: a private copy, its mapping, the threads that share it and `close` | `StorePublication` |
| `AtomicBundleProofs` | theorems | `BundleReader`, and with it the call and its contract |
| `TotalsProofs` | lemmas about sums, cited by the five below that count | `Totals` |
| `BudgetReplayProofs`, `LambdaTuningProofs`, `NestedLodoProofs`, `PreparedEvidenceProofs` | theorems | their module, `TotalsProofs` |
| `NativeSessionsProofs`, `StoreProofs` | theorems | their module (`StoreProofs`: both store modules and the program started on a store, with `TotalsProofs`) |

### How state and actions correspond to the code

**AtomicBundle.** A name is modelled by the inode behind it: `dest[i]`,
`stage[i]`, `backup[i]` are "orig", "copy", "new", "empty", "partial" or
"absent". `stages`, `backups` and `attempted` are the registries the handler
works from (`atomic_io.py:357-362`), so a file that exists but never entered a
registry is a state of the model. Each body action either completes, or raises
before or *after* its effect. `Rollback`/`RollbackFails` are one iteration of the
reverse loop (388-437), including the second inspection that decides whether a
raised restoration took effect. `Interrupt` leaves the function from the places
no `try` guards; `Crash` ends the process.

**BundleContract.** Three facts per call: which version each destination shows,
publishing or restoring, and what was given up. The mapping in `BundleRefines`
reads a destination as "old" if it is the original, its copy, or absent as before.

**BundleReader.** Two reads (`cli.py:1260-1318`) against every step of the
bundle; contents are reduced to "old" and "new" and the hash check to equality.

**BudgetLedger, BudgetReplay.** The variables are the fields of the ledgers and
the locals of `_run_query`. `Call`, `Overspend`, `Refused`, `Select`,
`RouterCrash` are the ways one turn of the `while True` loop can end; each ends
the query in the ledger where the code's `finally` does. The router is any
router: it answers any action, an invalid one, or raises.

**LambdaCandidates.** A root is the lambda at which two models of an example cross
(`Root`, from `CostGap` and `ScoreGap`), the exact fraction with its least positive
denominator. `Observe` is one turn of the streaming loop of `_bounded_candidates`
(733-751) and of the exact loop (cap 0); `streamed` are the crossings seen so far, taken
in the order of the loops (`Upcoming`). `Derive` is everything after it, and
`IsCandidateSet` what the constructor asks of its result. The priority of
a root is its SHA-256, then the root itself: any assignment (`hash`) that gives every
root a natural number of its own, chosen initially.

**LambdaTuning.** `Replay` folds `Step` over the stream: the choice of
`route_from_predictions`, then the charge of the simulator with the ledger that
was chosen. `Try` is one turn of the loop of `tune_tier_lambdas` (1107-1121); `best` is
the pair of a lambda and its replay that the loop carries, or nothing yet.

**PreparedGraph, NestedLodo, TextbookLodo.** The examples are grouped by domain and a
domain is one batch of prompts with an embedding. A score is not a number but a term that
says which domains its base fit saw, which features it was computed on and which scores
its calibrator was fitted to, so a leak or a mix-up of cache entries is visible in it.
`outer` and `target` are the loop variables of `nested_lodo_lambda_evaluation` and of the
cross-fit inside it; `Training` is the set of rows both folds leave. The trainers differ
in `TrainBilinear` (fits made for every request), `TrainReference` (calibrates a subset
when it is first asked for) and `TrainNative` (serves copies made by `CalibrateAll` and
`ApplyAll` before `Rehash` verified the mapping a last time). Subsets and blocks are named
by their domains; `subset_by_domains` and `block_by_context` of the code translate those
names to indices. `TextbookLodo` has the same inputs and no fits, caches or mappings; the
mapping hides everything but the outcome and the answer. `PlanAdmitted`, `FoldsRefused`,
`Covers` and `LambdaFound` are the refusals: of a plan, of the folds, of rows left without
a score, and of a fold for which `tune_tier_lambdas` finds no feasible lambda
(`lambda_tuning.py:1122-1123`). Which folds the last concerns is an attribute of the input
(`infeasible`): it depends on budgets and costs, which this module does not have, and
`LambdaTuning` has how it comes about.

**ChildPipes, AdapterCall, PreparedSession, RidgeSession.** Data is counted in
blocks: one block is the answer's header, `Size` blocks are the exact successful
answer. The child is any program unless `conforms` (what its header then says is
left open until the adapter reads it); each drain thread moves blocks
from a pipe of capacity `PipeCap` into the response file (stdout) or drops them
(stderr). The main thread has one action per step of `run` (or `solve`),
`_execute_bounded` and the reader of the answer; every wait may expire (`Deadline`,
the second alternatives of `Reap`, `Join`, `Rejoin`). The adapters differ where the
code does. The prepared one hands response and workspace over to a result
(`Restat`, `HandOver`), and an interrupt reaches its `finally` only. The ridge one
kills and reaps on an interrupt (`InterruptWait`), closes pipes by descriptor number
(`CloseAfterFailedStart`, `RidgeClosePipes`), keeps what went wrong in the joins for
later (`trouble`) and leaves nothing behind (`Leave`).

**PreparedLayout, PreparedSidecar.** A file is what its header says (`shape`) and what its
rows are; the caller authenticated `sealed`, the child finds `carried`, together with the
header of the request, which may have become another one (`request`). The program's stages
are the calls of `main` in their order, each with the status it may fail with. Buffers are
flat sequences that start out `Unset`, as `malloc` leaves them; a weight or a score is a
term naming the rows and features it came from, so an offset that is off reads, or leaves
behind, another cell; `Written` keeps a buffer's size. Arithmetic that the code checks for
overflow may fail at every such check. `LoadResult` and `VerifyIntegrity` are the caller:
the header's verdict, the record prefixes and counts, the digests of the payloads, and the
second verification after the mapping may have been altered (`Tamper`).

**PreparedArtifacts, PreparedAssembly, PreparedEvidence.** An artifact is a record of
its leaves with `sha256`, the digest its constructor computed last; a digest is the
record of what was hashed (the writers frame every token). Construction and use are
kept apart: a leaf overwritten afterwards leaves `sha256` as it was, which is what
the fresh snapshots of the assembly are for. `Assemble` is the function as a whole,
in its order: shape, estimate, pins, fresh snapshots, pins again, associations, the
join of contexts, the combination, the solve and the calibrators. A calibrator is a
term naming its pairs. The variables of `PreparedEvidence` name what the operator
holds by what it was made from; the tables at its beginning hold the artifacts.
`Parse` reads a document on its own word, `Load` under the digest of the bytes that were
saved (the pinned loader of `prepared_artifacts.py`).

The limits are the code's, in the order it tests them: `StoreInputs` (numeric bytes),
`StatisticsAdmitted` (scalars and work), `ExecutionAdmitted` (work and bytes) and
`AssemblyAdmitted` with its five. `ShapeOf` is what the estimate is computed from: counts
of rows, domains, models, active tags and embedding columns, and the sizes of names and
keys (`NameBytes`, `KeyBytes`), which stand for the text they measure. A store without an
encoder has no embedding, no snapshot of one and no embedding columns.

**StorePublication.** Each writer is a process at one place of
`write_prepared_store_file_from_sections` or `_publish_new_stage`; a file is
identified by its writer, `changes` counts renewals of `st_ctime`. `LinkRaises`
and `UnlinkRaises` are calls that took effect and raised. The reader opens,
scans and re-inspects as `copy_authenticated_prepared_store` does, and is `sure`
if it started after the file's receipt had been returned.

**StoreSnapshot.** `life` is the place in `authenticate_prepared_store_file`, then
"live" or "closed"; `holds` are the three things `close` has to release. Methods of
the returned store run under `_lock` (`inside`); a method that finds no mapping raises
and changes nothing, which is a stuttering step. `BeginClose` is the mapping's close,
`CloseStream` and `CloseDirectory` the two best efforts after it, each of which may
fail and leave its part for a later call. A copy given up for an I/O error is not
tried again in the same behaviour.

## 3. What is checked

Every property of a passing run has a mutant: a plausible bug, written next to
the definition it changes, under which TLC finds that property violated.

| run | instance and distinct states | what it shows |
|---|---|---|
| `bundle` | 3 documents, any of them existing before; 3 faults; a reader of the first two; 500 thousand | `NeverTorn`, `OldContentNeverLost`, `OutcomeIsExact`, `CleanOutcomeNoDebris`, `EventuallyAnswered`; `AcceptedPairCoexisted`: a pair a reader accepts was on disk together during its reads; `SettledPairLoads`: after a clean answer no later reader is refused; and that every behaviour implements `BundleContract` |
| `budget_replay` | 2 queries, 2 models, 2 calls, limit 3, quotes in {1, 2}, charges in {0, 1, 2, 4}, both ledgers; 727 thousand | `EvidenceConserved` (with the constructor checks, `ResultsWellFormed`), `SharedLimitHolds`, `OracleDominates`, `ExhaustionIsFinal` |
| `lambda_candidates` | 1 example, 4 models of 4 possible offers, caps none/2/3/7, all digest orders; 141 thousand | `SampleIsBottomHash`, `LabelIsTruthful`, `SearchKeepsBothEnds`, `PreflightBoundsTheWork` |
| `lambda_tuning` | 2 queries, 3 models of 4 possible offers (costs, charges, scores and qualities independent), limit 5, no cap and cap 3, both ledgers; 187 thousand | `ExactSetIsComplete`, `SelectionIsOptimal`, `SelectionFitsBudget` |
| `nested_lodo` | 3, 4, 5 and 8 uneven domains, equal prompts with equal and with different embeddings, each trainer, a refused fold or none, folds that no lambda is feasible for, one alteration of the mapping; 9.6 thousand | `LeakFree`: no target of a held-out domain in its scores, its lambdas or what these were tuned on; `WorkIsAsPlanned`: fits, solves, reads and reports are the planner's closed forms; and that every behaviour implements `TextbookLodo` |
| `native_sessions` | either adapter; answers of 2 blocks, children writing up to 3, up to 2 of stderr, one-block pipes, 2-block reads, one fault or interrupt; 247 thousand | `AnswersMatchChild`, `ChildNeverOrphaned`, `HandOverIsExact`, `AcceptedNeverChanges`, `EventuallyAnswers`, `Delivers`, `DrainsFinish` |
| `prepared_sidecar` | stores of 4, 5 and 7 domains, whole, altered in any one of 30 places before or after they were sealed, at and above every limit; 3.7 thousand | `AnswersAreCanonical`: every score the caller believes is that of its row, target and training side; `PreflightsAgree`: the two ends admit the same stores, lay them out alike and count the same work; `BlameIsRight`: a failure carries the status the child failed with, and no partial answer parses |
| `prepared_evidence` | 4 domains, 2 models, 3 tags, 2 ridges, twelve sources, three of which may be mixed and eight of which are over a limit, one overwritten leaf, any pins, one damaged field; 4.4 thousand | `PredictorIsOneLineage`, `HeldOutTargetsUnseen`, `RefusalIsWarranted`: what one undisturbed run made is refused exactly if it is over one of the five limits, and then before any work; `DamagedInferenceRefused`: a document that was altered in what inference reads is refused by the parser, and one that was altered at all by the pinned loader |
| `store_publication` | 3 writers with 3 faults or deaths, a repeating reader with 2 of its own, 2 threads that share its store; 1.4 million up to symmetry | `PublishedIsComplete`, `ReceiptIsFinal`, `NeverTakenAway`; `SnapshotOutlivesItsReaders` |
| `bundle_async_doc` | 2 documents, 1 fault | a violation, see below |
| `prepared_overlong` | as `native_sessions` | a violation, see below |
| `ridge_start` | as `native_sessions` | a violation, see below |

**Why the bounds are enough.** Three documents give a first, a middle and a last one, so
undoing past the failing rename and stopping before the beginning both occur; three faults
let the body, the rollback of one document *and* its second inspection (or a cleanup) fail
in one behaviour. Two queries are what a balance needs to survive or to leak; a charge of
4 against a limit of 3 is an overspend whatever was left, 0 is free, and quotes of 1 and 2
make models that fit only sometimes. Three models give three crossings per example; offers
that share a cost, a score or a crossing make the ties; caps 2, 3 and 7 make the heap
overflow, make it fit while the derived set does not, and make both fit. Pipes of one
block and answers of two make every write wait; three blocks are an overlong answer. A
`MaxErr` of 2 with one-block pipes lets a child block on stderr while stdout is read, and
the reverse. The sidecar's stores have row keys of two lengths, domains in no order, tags
that differ between domains and features with and without an embedding; its limits (8
rows, 14 features, 2 targets, and sizes just above the largest store admitted) are small
enough for a store of the instance to exceed each of them, which `PreflightsAgree` needs.
Of the sources of `prepared_evidence` three may be mixed: the first, one with another
target, one with another prompt and a tag. The nine others are used alone. One has no
encoder; five go over one limit of the assembly each, and keep the four others; three are
refused earlier:

| source | what is different | limit it is over |
|---|---|---|
| `longer` | three more rows in a domain, no encoder | numbers kept: 49, where 45 are allowed (and the reworded source has 45) |
| `embedded` | one more embedding column, no tags | objects: 62368, `MaxAssemblyObjects` 62300 |
| `verbose` | longer names | document: 74040, `MaxArtifactBytes` 74000 |
| `lettered` | a row id of 4096 bytes | storage: 296848, `MaxAssemblyBytes` 293000 |
| `tagged` | two tags everywhere | work: 2666, `MaxAssemblyWork` 2650 |
| `dense` | three tags everywhere | work of the execution: 24979, `MaxExecutionWork` 20500 |
| `deeper` | two more embedding columns | statistics: 404 scalars, `MaxStatisticScalars` 350, and work |
| `broader` | twenty rows in a domain | bytes of the store: 2304, `MaxNumericBytes` 700 |

The sources that are admitted come close to each limit from below (45 numbers, 62272
objects, 73744 bytes of document, 292096 of storage, 2626 of work). `MaxExecutionBytes` is
kept by every source that gets that far. 23 calibrator points lie between what pooling
leaves at best and at worst.

Two threads are a reader and a closer; the third party is the view one of
them keeps. Four domains are the fewest a nested calibrated fit can do with, three are
one too few, five give calibrated subsets of another shape, and eight are one more than
the prepared graph accepts. Three writers let a second one publish while a first
withdraws and a third is still inspecting.

**Bounds by name.** `MaxFaults` (failing calls and deaths), `MaxMishaps` (failing calls of
the process that authenticates), `MaxMade`, `MaxErr`, `PipeCap`, `Chunk` (blocks),
`Limits` and `Pairs` (the sidecar), `MaxNumericBytes`, `MaxStatisticScalars`,
`MaxStatisticWork`, `MaxExecutionWork`, `MaxExecutionBytes`, `MaxArtifactScalars`,
`MaxCalibratorPoints`, `MaxAssemblyObjects`, `MaxArtifactBytes`, `MaxAssemblyBytes`,
`MaxAssemblyWork`, `KeyBytes` and `NameBytes` (how long text is), `Source`, `Runs`,
`Mixed` (the sources one session may have together), `Ridges`, `NQueries`, `MaxCalls`,
`Prices`, `NModels`, `NExamples`, `Offers`, `Caps`, `Probes` (the lambdas the optimum is
compared with: all fractions n/d with n <= 9, d <= 5, which lie on, between and beyond all
crossings of the offers). The crossings' stream and the candidates are finite by
construction.

`Inputs` of `NestedLodo` are the sizes, prompts, embeddings and infeasible folds above;
the mapping is altered once and stays altered. (An alteration undone before the next
verification could not be noticed by the code either.)

**Symmetry** is used in `store_publication` only, for writers and threads: no
definition tells them apart and its properties are safety properties.

**Deadlock** is checked everywhere except in `store_publication`, `nested_lodo` and
`prepared_evidence`, where the system may really stop: all writers ended and there is
nothing to read; the evaluation returned or raised; the operator has parsed
or loaded a document.

**Fairness.** `AtomicBundle` assumes that a call runs on (`WF(Call)`): it is
straight-line Python over system calls that return. Crashes, interrupts and
faults are never fair. `NativeSessions` assumes weak fairness of the main
thread and of each drain thread (threads of a live interpreter), of the delivery
of a SIGKILL that was sent, and of the computing and writing of a *conforming*
child. The expiry of the deadline is not assumed in general; it is the premise
of `EventuallyAnswers`, because with a hung child time is the only thing that
ends the call. `Delivers` conversely has as its premise that no wait expires.
`NestedLodo` assumes that the evaluation runs on (`WF(Step)`): it is
single-threaded Python; the alteration of the mapping is not fair.
The other modules make no fairness assumption and state no liveness property.

### Where code and documentation disagree

* `bundle_async_doc`: the docstring of `replace_text_bundle` says that ordinary
  exceptions, "including asynchronous Python exceptions, roll back every
  attempted replacement" (`core/atomic_io.py:328-329`). The code guards the body
  and each iteration of the undo loop, but not the statements between them nor
  the final cleanup. An interrupt there leaves new content in place although the
  call raised. (Nothing is lost: `OldContentNeverLost` holds in that state too.)
* `prepared_overlong`: the protocol says the parent rejects overlong streams and
  bounded-output overflow (`docs/native-prepared-session-protocol.md:336-337`).
  `_execute_bounded` joins the drain threads a second time without looking
  whether they ended (`native_prepared.py:1448`). If the stdout drain stalls past
  both joins while it still has blocks to read, the overflow flag is not yet set,
  the file has exactly the admitted size, and the answer is accepted. The bytes
  used are the admitted ones (`AcceptedNeverChanges` holds); what is missed is the
  rejection. `native_ridge.py` looks again and raises in this state.
* `ridge_start`: a comment in `solve` says that all expected adapter-owned
  filesystem calls are wrapped closer to their trust boundary
  (`native_ridge.py:206-207`). When the second drain cannot be started, the code
  kills the child and closes both pipes by `pipe.fileno()`, expecting an `OSError`
  (887-892). The first drain may have ended with the killed child and closed its
  own stream, and `fileno()` of a closed stream raises a `ValueError`: it replaces the
  adapter's own error, passes every handler and leaves the response descriptor open
  (`HandOverIsExact` names that state). `_join_drain_threads` makes the same call
  (1023); there the error is kept and reported, but the other pipe stays open and its
  thread is not joined again.

### Other observations the models made

* Because equal utility goes to the cheaper model, the choice at a crossing is
  already the choice of the whole interval to its right. The midpoints and the
  tail of the candidate set are therefore redundant for completeness; they do no
  harm.
* If removing the stage or syncing the directory fails after the link
  (`prepared_files.py:1731-1732`), the store stays published although the caller
  got an exception and no receipt, and a retry is refused because the name is
  taken. No document promises otherwise.
* A reader that authenticates between the link and the removal of the stage may
  be refused, because the removal renews `st_ctime`. `ReceiptIsFinal` therefore
  speaks of readers that start after the receipt was returned.
* A `KeyboardInterrupt` in the poll loop of the prepared session leaves the child
  running (`native_prepared.py:932`); `ChildNeverOrphaned` excludes it explicitly.
  `DrainsFinish` says what remains true: with a child that ends by itself the drain
  threads end too.
* In the ridge session an interrupt during a join that follows a timeout is reported
  as the timeout, and a workspace that cannot be removed replaces the error the call
  was leaving with.
* `from_json` of a prepared predictor checks each calibrator against its own digest
  and pairs. The calibrators of two models swapped as a whole, names included, make
  a document it accepts; only `load`, which pins the bytes of the file, refuses it.

## 4. What is proved

For every value of the constants, from the named assumptions of the modules:

| module | theorems |
|---|---|
| `AtomicBundleProofs` | `Inductive`; `TypeCorrect`, `Untorn`, `OriginalsSurvive`, `ReportsAreExact`, `PolicyLast`, `NoDebris`; `Refines`: every step implements a step of `BundleContract` or stutters; for a call beside its readers `ReadersOnlyRead`, `ReaderInductive`, `PairsCoexisted`, `PairsLoad` |
| `BudgetReplayProofs` | `ReplayInductive`; `ReplayTypeCorrect`, `OverspendEnds`, `FeasibleAffordable`, `OracleIsUpperBound`, `ExhaustedForGood`; `EvidenceInductive`; `ReportsReconcile`, `SharedLimitKept` |
| `LambdaTuningProofs` | `DerivationInductive`; `SampleIsLowest`, `LabelsAreTruthful`, `EndsAreKept`, `PreflightIsABound`; `TuningInductive`; `EveryLambdaHasACandidate`, `SelectionsAreOptimal`, `SelectionsFitTheBudget` |
| `NativeSessionsProofs` | `SessionInductive`; `SessionTypes`, `OnlyTheChildsAnswer`, `NoChildIsLeft`, `NothingLeaks`, `ResultsStayPut` |
| `NestedLodoProofs` | `NestedInductive`; `NestedTypeCorrect`, `NestedLeakFree`; `NestedAnswers`: what is returned is the textbook answer; `NestedRefines`: every step implements a step of `TextbookLodo` or stutters; `NestedWorkAsPlanned` |
| `PreparedEvidenceProofs` | `EvidenceInductive`; `OneLineage`, `HeldOutBlind`, `DamageNeverInfers`, `RefusedBeforeWork` |
| `StoreProofs` | `PublicationInductive`; `PublicationTypeCorrect`, `PublishedWhole`, `ReceiptHolds`, `NothingTakenAway`; `SnapshotInductive`; `ReadersKeepTheirSnapshot`; `SnapshotImplementsPublication`: the composition takes only steps of `StorePublication`; `SidecarAgrees`, `SidecarBlame`, `SidecarAnswers`: what the caller believes is what its store determines |
| `TotalsProofs` | lemmas only: totals of sequences, sums over finite sets, and how many subsets, pairs and images there are |

**Bundle** (assumptions: N positive, MaxFaults natural). None of the invariants
is inductive: that a destination is whole depends on the stage being whole when it
is renamed, and that the original survives depends on the backup being complete
before the first rename and staying registered. The invariant `IInv` says, for
each statement and loop index, which stages and backups are complete, that exactly
the destinations up to `attempted` may be new, that during the rollback those
above the loop index are restored or given up, and that a destination is given up
only together with an error. One lemma per action proves that it is preserved, and
each property follows from it. `Refines` uses the same invariant: the mapping is a
function of the state, `Commit` maps to `Publish` (or to its raising form),
`Rollback` to `Restore`, `Finish` to `Return`, and the rest to stuttering.

**Reader of the pair.** A reader leaves the variables of the call alone
(`ReadersOnlyRead`), so `IInv` holds beside it. `ReaderInv` adds what the
pair of its two reads can still become: an old predictor was read before the first rename
or after it was put back, a new one before its own restoration, and once the predictor
went back no new policy appears. So either pair the reader may end up accepting was on
disk at one moment since it began.

**Replay** (Limit natural, prices natural, at least one query and one call). The
invariant ties the running query to the ledger: as long as every call was within budget,
what was charged plus what remains is at most Limit, every recorded call was within
budget and is a candidate of the oracle, and the history is as long as the calls; after
an overspend the shared balance is zero; no query is active outside routing; a feasible
result costs at most Limit and selects a candidate of the oracle, and a call over budget
is the last one of an infeasible result.

**Evidence** (`EInv`, on top of that invariant). Every finished query costs what its
calls were charged (`QueriesSound`); what the queries cost plus what the running one was
charged is what the ledger spent, and the overspends are counted the same way
(`Balance`); under the shared ledger the feasible queries, the running one and the
balance never exceed the limit together (`Shared`). The sums are totals over sequences.
No induction rule of the library can be instantiated here, so `TotalsProofs` argues by
descent: `RunningTotals` exists because otherwise there is a least length at which no
function adds up, and two totals agree because otherwise there is a least index at which
they part. (`LeastElement` gets that minimum from the well-foundedness of the order on
the naturals.) Everything else cites the value of a total of the empty sequence and of an
appended one.

**Candidates** (at least one model and one example, natural costs, integer scores; a cap
is 0 or at least 2; every root has a natural priority of its own). Canonical fractions
are equal exactly if neither is below the other, and `Below` is a strict order on them;
`Lowest` and `Highest` therefore exist in every finite set. `DerivationInv` says that the
heap holds the roots of lowest priority of all crossings streamed, that it is full when
it overflowed and is everything seen when it did not, that the upper extreme was observed
with nothing above it, and that what `Derive` left was computed from the complete stream.
An eviction keeps the first part because the replaced root is the one of highest priority
among those kept. The label and the two ends then follow from lemmas on the operators: a
sorted set of lambdas has each of them once, its last is past every crossing because the
tail is past the upper extreme, and `_rank_spaced` always keeps the first and last rank.

`PreflightIsABound` is about numbers that are computed before any example is read. What is
streamed is one crossing per pair of models whose costs differ; that the pairs of equal
and of unequal cost together are at most all pairs is shown by adding one model at a time,
and the sum over the examples is the count the limits were checked against. The derived
candidates are at most two for each boundary, zero counted as one of these, and what
thinning keeps is at most the cap.

**Tuning** (in addition: natural limit and charges, integer qualities, any set of
nonnegative fractions as `Probes`). The complete set has, for every lambda, a
candidate with the same crossings below, at and above it: the crossing itself, the
midpoint of two neighbours, zero or the tail (`NoGapIsMissed`). Between two lambdas that
no crossing separates the sign of every gain in utility is the same, hence the order of
preference of every example, hence, by descent over the stream, each choice, balance
and charge of the whole replay: `EveryLambdaHasACandidate`. This holds for both ledgers,
although what is affordable moves with the choices themselves. `TuningInv` says that
`best` is the best of what was tried and feasible; together they give
`SelectionsAreOptimal`. `SelectionsFitTheBudget` needs that a feasible replay spent
what its choices were charged, and under the shared ledger that this and the balance
make up the limit.

**Native sessions** (answers of at least two blocks, one of them the header; positive
capacities; any number of faults). What has been seen, is held by the drain and is in
the pipe is what the child wrote, unless the drain gave up; the file is what was seen up
to the limit; a drain that reached the end of the stream did so because the child was
dead and the pipe empty (`DrainInv`). Beside it stands a table for the main thread of
either adapter: at each statement, whether there is a child, whether it was reaped or
sent a SIGKILL, which descriptors and directories exist and who owns them, and what an
answer on its way out was compared with. `Beneath` is what the main thread may rely on
while child and drains run: a dead child stays dead, its status and what it wrote no
longer change, the file only grows. The five theorems read their property off the table;
`ResultsStayPut` also uses that an accepted file is full. The proof attempt corrected
one property: `HandOverIsExact` had said which descriptor a ridge call may leave open only
for a single fault, and with two the workspace may be left behind together with it.

**Publication** (the foreign file and "nothing" are not writers; MaxFaults
natural; any set of writers). The invariant says for each writer, by its place:
how far its data is (`ContentFollows`) and how often its times were renewed
(`TimesFollow`); that the destination is its own file while it verifies, removes
its stage, syncs, holds a receipt or is about to withdraw, and that its stage is
gone from the sync on (`Owns`). A sure reader looks at the file of a writer that
has its receipt, with the times that file has now (`SureReader`).

**Snapshot** (MaxMishaps natural; any writers and threads). That a mapping is never
taken from a running read depends on the lock, and that the directory outlives the
mapping on the order in `close`. The invariant says what exists at each place of the
authentication and that only a live store has a mapping (`LifeFollows`), and that a
thread inside a method is the one lock holder, that a closing one has already released
the mapping, and that nobody is inside anything but a live store (`LockFollows`).
`SnapshotImplementsPublication` makes the theorems on `StorePublication` hold for the
composition the run checks.

**Sidecar** (natural limits; the header of a file holds natural numbers and finite sets
of tags, its rows are any sequence; any set of pairs of files). Three parts. The first is
arithmetic: `NumbersAgree` says that the plan of the child is the estimate of the caller,
number by number. The child adds up over its blocks and training subsets, the caller
over the omitted sets, each once; so what has to be shown is that the blocks, in the order
of the nested loops, list every pair of a subset and a domain it leaves out exactly once
(`BlocksAre`, from `SortedByRank`: a set in order has a place for each element), that the
rows of a subset's blocks are the rows it leaves out (`BlockRowsAre`), and that a sum taken
block by block is the sum taken subset by subset (`BlockTotals`). `HeapIsWhatIsAllocated`
adds up the seventeen buffers of `allocate_buffers` against the closed form. The second is
the program: `StageInv` says what each stage has found, in the order of `main`, which
together is the caller's own scan (`KnownIsAdmitted`), and that a refusal as malformed or
too large happened on a file the caller would not have sent. `BlameInv` adds what was
written: nothing, a part beginning with the header, or the whole answer, the last if the
exit status is success. `AnswerHasItsSize` and `AnswerParses` are why `_load_result` then
finds no protocol error: the lengths of the payloads are the lengths of the slices, and
their bytes add up to the promised size.

The third is what stands in the cells, `SidecarAnswers`. A flat offset is a running total
of what lies before it, so the stretches of two subsets, or of two blocks, share no cell
(`StretchesFollow`), and inside a stretch a cell tells its target and its column, or its
row and its target, by quotient and remainder (`WeightPlaces`, `ScorePlaces`,
`ScoresApart`). The invariant `Filled` then says for each stage which cells are final: the
moments of a domain are the rows that went by, in order (`MomentsRight`); the subsets
before the current one hold the coefficients of the fit to exactly their rows
(`SubsetRight`, where the combination of moments is the fit because a set of numbers has
one ascending order, `SortedIsUnique`); the rows before the current one are scored
(`RowScored`), each at the number of rows of its domain that went before it, which is its
place in the domain (`PlaceOfRow`). That a score is the sum over *all* active columns, each
once and with its own coefficient, is `ActiveColumns`: surface, active tags and embedding
are the packed positions in order. `HeldInv` adds the caller: an accepted answer is the
complete answer of a child that succeeded on the sealed file, its digest is the
answer's, and, unless it was altered after it was loaded, its views are those of the
expected graph; what `verify_integrity` lets through is so again. A view that speaks of a
subset is then the view of a block (`ScoreViewIs`), and the cell it is read at is the cell
the row was scored in (`ScoreIsInPlace`).

**Prepared evidence** (each source has at least one domain, with a positive number of
rows each, and at least one model; any sources, tags, ridges and limits). A digest is
the record of what was hashed, and an artifact that has just been constructed is
therefore determined by its digest, once it is known which fields it has (`Made`,
`MadeDetermines`, and their like for children, blocks and bundles). From this follow the
four results:

* *What passes is what was built* (`FreshIsBuilt`). The assembly compares the pins with
  the digests as carried and with the digests as computed afresh. Overwriting a leaf
  keeps the carried ones (`OverwrittenShaped`), so the fresh ones are those of what the
  stages built, and so are the fresh artifacts.
* *It is one run* (`PassedIsRun`): the statistics and the coefficients name their store
  and each other, and the shards its features, so every part is of one source. The
  ridge is the coefficients' own. `OneLineage` needs beside it only the invariant `EInv`:
  what is assembled had passed, under the pins that are recorded.
* *The held-out targets are not in it* (`HeldOutBlind`), an equivalence: two runs whose
  sources agree but for one domain's targets (and the costs) give that domain one score
  digest (`BlocksAgree`), and two that give it one digest agree in all the rest
  (`BlocksSeparate`).
* *Damage is refused* (`DamageNeverInfers`). The parser derives the digest of the final
  coefficient from the weights, biases, ridge and schema (`FinalDetermines`) and each
  calibrator's identity from its pairs; the examples and the contexts it derives from the
  sources. A row count changed in one source makes another total, which is where
  `TotalsProofs` is needed again.

* *A refusal is warranted, and early* (`RefusedBeforeWork`). For the artifacts of one
  undisturbed run the theorem says that they are assembled if the largest predictor the
  fit can leave is within `MaxArtifactScalars` and the four other estimates
  (`AssemblyAffordable`: objects, document, storage, work) are within theirs, and refused
  as too large before any pin, constructor or join if not. `RetainedScalars`, which the
  preflight computes from the plan and the active width alone, is the count the
  constructor of the artifact takes over its models when every calibrator keeps all the
  points (`LargestIsRetained`, `PredictorCounts`). Pooling only merges points, so the
  artifact counts no more and an admitted assembly is never "too large after all"
  (`PassedFits`). Conversely the artifacts of one undisturbed run pass every later check,
  because constructing again what was just constructed changes nothing (the `...Again`
  lemmas, `RunAccepted`, `RunPasses`).

A run of `Finished` is one that no stage refuses: only such a run has artifacts, pins and
digests to compare with.

**Nested evaluation** (each input has at least one domain, with a positive number
of rows each; any number of domains and any trainers). `LeakFree` is not
inductive: a score is clean only if the predictor it came from was, a cached
predictor only if the blocks it was made from were those of the plan. The
invariant therefore says more than cleanness: every trained or cached predictor
gives each domain outside its training side exactly the textbook score
(`PredictorInv`), every stored score and tuning is the textbook's (`ScoreInv`),
the blocks are the plan's unless altered, and altered blocks *differ* from the
plan's (`BlocksInv`). The last part is what makes the second verification useful:
passing it proves that the copies made before were made from the plan's blocks.
One lemma per action, two for the predictors (a table by prompts is unambiguous
because collisions were refused; a predictor made on demand because its provider
is a function of the prompt) and one for the graph (each calibrated subset has
every block it looks up). `NestedAnswers` adds that a finished evaluation has an
entry for every domain.

`NestedRefines` is the other half: what may be refused. `TextbookLodo` lets an evaluation
raise for six reasons only (too few domains, too many for a prepared graph, ambiguous
prompts, a fold the preflight does not admit, a tier without a feasible lambda in some
fold, an altered mapping), and has it answer only if the code had none of the first,
third, fourth and fifth to refuse it for. Each `raise` that `NestedLodo` has is traced to
one of them. What the module does not have is no part of the claim: malformed examples and
tiers, the other size limits of the plan, arithmetic that is not finite, a native session
that fails (`NativeSessions`). `RInv` adds to the invariant the sizes of the graph that
was admitted (`ShapeInv`), that the table by prompts has an entry for every training side
and prompt that will be asked for (`TableInv`), and which folds the loops have behind them
(`LoopInv`). A look-up of the reference trainer or of the native table then cannot fail,
and a native evaluation that raises late does so because its mapping was altered.

`NestedWorkAsPlanned` needs an invariant of its own beside `RInv`: `WorkInv` says what
each counter is at *every* step, as a sum over the requests made so far (`Asked`,
`Answered`, `Tuned`, read off the loop variables) for the trainer that fits on demand, and
over the subsets calibrated so far (`Cache`) for the reference trainer; the native bridge
has read what its phase says. `EarlierMoves` is why a step adds exactly one request and
skips none. When nothing is left to do these are sums over all requests or all
calibrated subsets, and the rest is counting: how many subsets leave out one, two or
three domains (`SubsetsCounted`, by adding one domain at a time: `Pairs` and `Triples`
satisfy the recurrences of the binomials), how many of them a domain is scored by
(`OmissionsOfCounted`), what the rows of everyone but one add up to (`OthersCounted`), and
a sum over pairs taken fold by fold (`FoldByFold`). That every block is read at least
once is `EveryBlockIsRead`; that a subset is not calibrated twice is the invariant's
`calibrations[s] # None <=> predictors[s] # None` together with `NoneAssumption`: no
calibrator and no table of scores is the value that stands for "nothing yet".
`TrainersAssumption` names the three trainers there are.

**Only model-checked:** all liveness (`EventuallyAnswered`, `EventuallyAnswers`,
`Delivers`, `DrainsFinish`) and with it the fair part of both contracts: the prover has no
ENABLED. Every safety property that a passing run checks is also proved. Conversely type
correctness, `PolicyLast` (`LaterImpliesEarlier`), `OverspendEnds` and `FeasibleAffordable`
are proved and no longer checked by a run of their own.

What the proofs changed in the model: the refusals of `Verdict`, `PreflightStatus`,
`Load` and `Complaint` are the code's first failing check. As a `CASE` with guards that
overlap they were *some* failing check, which TLC, taking the first, could not tell from
the intended meaning; they are chains of conditions now. `PreparedEvidence` and
`PreparedArtifacts` state what the parsers of the code guarantee of a source (at least
one model, finitely many tags, a target for every domain), without which sums over it
mean nothing.

## 5. What is not modelled, and why

* Loss of power. `Crash` and `Die` end a process, not the machine: fsync orders
  are actions that may fail, but the page cache is not modelled.
* Two concurrent bundle writers: the code takes no lock and promises nothing.
* In the sessions: descriptor numbers and their reuse (hence the double close at
  `native_prepared.py:952`), asynchronous exceptions between two statements (the interrupt
  of the model arrives in the waits and while the answer is read), descendants of the
  child, a child writing to the response file behind the pipe. `rmtree` of the prepared
  workspace is assumed to succeed, as the code does. The Windows branches are left out. A
  drain of stdout writes a block and then notes that the limit is exceeded
  (`native_prepared.py:1319`, `1324`); `OutWrite` is both at once. A look of the main
  thread between the two is therefore no state of the model; just before the write it sees
  no overflow either.
* In the sidecar: the arithmetic itself (terms stand for numbers), SHA-256 (an
  injective function), and platforms `platform_is_supported` refuses. `Subsets` and
  `Blocks`, the order of the graph, are one definition that both ends use:
  what is compared is every number, offset and size each end derives from it. The caller's
  checks of the values in an answer (finite, no negative zero, means and scales:
  `native_prepared.py:1792-1798`, `1862`) and its inspection of the response file
  (`1515-1548`) are not in `LoadVerdict`; they raise the protocol error too, so the
  protocol clause of `BlameIsRight` speaks of files that could be inspected and of
  answers whose values are in range. The ridge sidecar, `native/tierroute_ridge.c`,
  is only what its pipes and status can be.
* In the assembly and its parents: text (`KeyBytes` and `NameBytes` are its sizes, the
  limits on the length of one text are left out), the limits of the plan itself, the
  lengths of payloads, the limit on hashing one feature shard
  (`prepared_execution.py:1014-1018`: its cost is a part of the execution work, whose
  limit is the same), the staged files of the training evidence
  (`prepared_artifacts.py:1762-1975`; the save of a document is one step), and the
  pool-adjacent-violators step inside a calibrator.
* In the replay: decimal arithmetic (`core/costs.py` promises exactness), hashes
  and metric summaries. One tier is one behaviour; tiers share nothing.
* In the tuning: explicit grids, the byte and digit estimates of the preflight. The
  run compares the optimum with finitely many lambdas; `EveryLambdaHasACandidate` and
  `SelectionsAreOptimal` hold for any set of them.
* In the publication: an exception between `mkstemp` and the `try`, a change of
  the directory under the writers, the data of the file (complete or not). In the
  snapshot: the finalizer (`__del__`), which is a `close` whose error is dropped.
* In the nested evaluation: digests and evidence records, credentials, the byte and
  work-unit limits, the reads made only to hash scores (the native bridge counts
  them apart), the tuning itself (`LambdaTuning` has it; here it is what it was
  computed from, and whether it finds a lambda is an attribute of the input), and the
  order of rows inside a domain.
* Floating point: the ridge, boosting and calibration numerics, feature encoding.
* Parsing of data sets, printing, the demo, showcase and release scripts.

## 6. Plan

The items of section 2 came in the order of what they guard: the user's files, the
evaluation's claims, the sidecars, the evidence. What is left, in this order:

1. Proofs: that each property of `BundleContract` follows from the contract alone.
2. `ArtifactFile`: the staged files of a prepared predictor, saved and loaded against
   another writer (`prepared_artifacts.py:1762-1975`).
3. Mapped results after the hand-over: `NativePreparedSessionResult`, its views and
   its close (`native_prepared.py:508-866`), as `StoreSnapshot` has them for stores.
4. `IsotonicBlocks`: the pool-adjacent-violators step of `calibration.py` against
   its definition.
5. Abstract specifications for the replay (a budgeted account) and for the
   publication (a write-once register), refined by the present modules.
