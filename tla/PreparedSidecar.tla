--------------------------- MODULE PreparedSidecar ---------------------------
(***************************************************************************)
(* The prepared sidecar, native/tierroute_prepared.c, from its first read  *)
(* to its exit status, and the caller that reads what it wrote             *)
(* (_load_result and verify_integrity of predictors/native_prepared.py).   *)
(* Who runs when, pipes, deadlines and descriptors are PreparedSession's;  *)
(* here is what the program computes and which answers are believed.       *)
(*                                                                         *)
(* The caller authenticated the file "sealed"; its request carries that    *)
(* file's digest and sizes.  The child finds "carried" behind the request  *)
(* header, which may itself have been altered on the way: carried.request  *)
(* is "unlike" when its magic, version, flags, reserve or ridge is not     *)
(* one's own, "blank" when one of its digests or its nonce is all zeros.   *)
(* A harness may start the program on a file no caller admits.             *)
(*                                                                         *)
(* Numbers are terms: a coefficient says which rows it was fitted to and   *)
(* in what order, a score which feature of which row meets which           *)
(* coefficient.  Buffers are flat and start out Unset, as malloc leaves    *)
(* them, so an offset that is off reads another cell.  Whether arithmetic  *)
(* overflows depends on the data: it may, at every step that checks.       *)
(***************************************************************************)
EXTENDS PreparedLayout

CONSTANTS Pairs,    \* <<sealed, carried>> files the program may be started on
          Unset

(* A row as it is on disk: an ID is a number in the order of its bytes, 0   *)
(* when it has no content or is not UTF-8; what its tag features say; and   *)
(* whether its features and its targets are finite.                         *)
StoredRow == [id : Nat, idBytes : Nat, domain : Nat, tags : SUBSET (0..(TagCount - 1)),
              features : BOOLEAN, targets : BOOLEAN]

IsFile(file) ==
    /\ IsShape(file.shape) /\ file.rows \in Seq(StoredRow)
    /\ {file.magic, file.layout, file.digests, file.embedded, file.padding, file.payload} \subseteq BOOLEAN
    /\ file.length \in {"inRequest", "inHeader", "short", "exact", "trailing"}
    /\ file.request \in {"sound", "unlike", "blank"}

ASSUME SidecarAssumption ==
    /\ {Limits.rows, Limits.features, Limits.targets, Limits.id, Limits.store,
        Limits.result, Limits.work, Limits.heap, Limits.scratch} \subseteq Nat
    /\ \A pair \in Pairs : IsFile(pair[1]) /\ IsFile(pair[2]) /\ pair[1].request = "sound"

VARIABLES sealed, carried, stage, status, turn, parsed, plan, moments, weights, scores, side,
          out, exit, verdict, mapped, views

program == <<stage, status, turn, parsed, plan, moments, weights, scores, side>>
caller  == <<exit, verdict, mapped, views>>
sidecar == <<sealed, carried, program, out, caller>>

Success == 0  Protocol == 1  Resource == 2  Numeric == 3  Allocation == 4  Solving == 5  Internal == 6

Digest(x) == [digest |-> x]

-----------------------------------------------------------------------------
(* What both ends ask of a store. *)

InRange(shape) ==
    /\ Len(shape.counts) \in 4..7
    /\ shape.rows \in 1..Limits.rows
    /\ shape.features \in Surface..Limits.features
    /\ shape.targets \in 1..Limits.targets

RowKeysFit(shape) ==
    /\ shape.rows * 35 <= shape.keyBytes
    /\ shape.keyBytes <= shape.rows * (34 + Limits.id)

Catalogued(shape) ==
    /\ \A d \in DOMAIN shape.counts : shape.counts[d] > 0
    /\ \A d \in DOMAIN shape.tags : shape.tags[d] \subseteq 0..(TagCount - 1)
    /\ Rows(shape) = shape.rows

EmbeddingStated(file) == file.embedded = (file.shape.features > Surface)

KeysInOrder(rows) ==
    /\ \A r \in DOMAIN rows : rows[r].id > 0 /\ rows[r].idBytes \in 1..Limits.id
    /\ \A r \in 2..Len(rows) : rows[r - 1].id < rows[r].id

KeysFill(file) ==
    file.shape.keyBytes = Over(file.rows, LAMBDA row : 34 + row.idBytes)

RowsOf(rows, d) == Sorted({r \in DOMAIN rows : rows[r].domain = d}, <)

DomainsAgree(file) ==
    /\ \A r \in DOMAIN file.rows : file.rows[r].domain \in Domains(file.shape)
    /\ \A d \in Domains(file.shape) : Len(RowsOf(file.rows, d)) = file.shape.counts[d + 1]

ObservedTags(rows, d) == UNION {rows[r].tags : r \in {q \in DOMAIN rows : rows[q].domain = d}}

TagsAgree(file) ==
    \A d \in Domains(file.shape) : ObservedTags(file.rows, d) = file.shape.tags[d + 1]

-----------------------------------------------------------------------------
(* The caller: header, records, sections, end of file, digests; then the   *)
(* limits of one session.                                                   *)

ParseHeader(file) ==
    /\ file.magic /\ file.layout /\ file.digests
    /\ InRange(file.shape) /\ RowKeysFit(file.shape)
    /\ Catalogued(file.shape) /\ EmbeddingStated(file)

ScanStore(file) ==
    /\ ParseHeader(file)
    /\ KeysInOrder(file.rows) /\ KeysFill(file)
    /\ DomainsAgree(file) /\ file.padding
    /\ \A r \in DOMAIN file.rows : file.rows[r].features /\ file.rows[r].targets
    /\ TagsAgree(file)
    /\ file.length = "exact" /\ file.payload

Admits(file) == ScanStore(file) /\ WithinLimits(file.shape, Estimate(file.shape))

(* What the request header says; a harness gives the numbers it can. *)
Request ==
    [store |-> Digest(sealed),
     bytes |-> Header.request + FileBytes(sealed.shape),
     result |-> IF InRange(sealed.shape) THEN Estimate(sealed.shape).resultBytes
                                         ELSE Header.result]

-----------------------------------------------------------------------------
SidecarInit ==
    /\ \E pair \in Pairs : sealed = pair[1] /\ carried = pair[2]
    /\ stage = "session" /\ status = Success /\ turn = 1 /\ parsed = {}
    /\ plan = <<>> /\ moments = <<>> /\ weights = <<>> /\ scores = <<>> /\ side = <<>>
    /\ out = <<>> /\ exit = "running" /\ verdict = [kind |-> "none", code |-> Success] /\ mapped = <<>> /\ views = <<>>

work == <<plan, moments, weights, scores, side>>

Goto(step) == stage' = step /\ status' = status /\ turn' = 1
Repeat == stage' = stage /\ status' = status /\ turn' = turn + 1
Fail(s) == stage' = "write" /\ status' = s /\ turn' = turn /\ UNCHANGED work
MayFail(codes) == \E s \in codes : Fail(s)
Alone == UNCHANGED <<sealed, carried, out, caller>>
Parsed == UNCHANGED parsed

(* A stage that keeps nothing but its verdict. *)
Stage(here, next, verdictOf, faults) ==
    /\ stage = here
    /\ \/ verdictOf = Success /\ Goto(next) /\ UNCHANGED work
       \/ verdictOf # Success /\ Fail(verdictOf)
       \/ MayFail(faults)
    /\ Alone /\ Parsed

(* Platform, binary streams, then the header of the request; like the      *)
(* store's, it counts as read before its magic is looked at.               *)
ReadSession ==
    /\ stage = "session"
    /\ \/ /\ carried.length # "inRequest" /\ parsed' = {"request"}
          /\ IF carried.request # "unlike" THEN Goto("store") /\ UNCHANGED work ELSE Fail(Protocol)
       \/ carried.length = "inRequest" /\ Fail(Protocol) /\ parsed' = parsed
       \/ Fail(Internal) /\ parsed' = parsed
    /\ Alone

ReadStore ==
    /\ stage = "store"
    /\ \/ /\ carried.length # "inHeader" /\ parsed' = parsed \cup {"store"}
          /\ IF carried.magic THEN Goto("preflight") /\ UNCHANGED work ELSE Fail(Protocol)
       \/ carried.length = "inHeader" /\ Fail(Protocol) /\ parsed' = parsed
       \/ Fail(Internal) /\ parsed' = parsed
    /\ Alone

PreflightStatus ==
    LET shape == carried.shape
        unlike == \/ ~carried.layout
                  \/ Request.bytes # Header.request + FileBytes(shape)
                  \/ Request.result \notin Header.result..Limits.result
                  \/ ~RowKeysFit(shape) \/ ~carried.digests \/ carried.request = "blank"
                  \/ ~Catalogued(shape) \/ ~EmbeddingStated(carried)
        numbers == Plan(shape).numbers
    IN IF ~InRange(shape) \/ FileBytes(shape) > Limits.store THEN Resource
       ELSE IF unlike THEN Protocol
       ELSE IF numbers.resultBytes # Request.result \/ ~WithinLimits(shape, numbers)
            THEN Resource ELSE Success

Preflight ==
    /\ stage = "preflight"
    /\ IF PreflightStatus = Success
       THEN /\ Goto("authenticate") /\ plan' = Plan(carried.shape)
            /\ UNCHANGED <<moments, weights, scores, side>>
       ELSE Fail(PreflightStatus)
    /\ Alone /\ Parsed

(* The whole file once, for two digests, then the end of the file. *)
Authenticate ==
    Stage("authenticate", "rowKeys",
          IF carried.length = "exact" /\ Digest(carried) = Request.store /\ carried.payload
          THEN Success ELSE Protocol, {Internal})

RowKeys ==
    Stage("rowKeys", "allocate",
          IF KeysInOrder(carried.rows) /\ KeysFill(carried) THEN Success ELSE Protocol, {Internal})

Cells(n) == [c \in 0..(n - 1) |-> Unset]

Allocate ==
    /\ stage = "allocate"
    /\ \/ /\ Goto("load") /\ plan' = plan
          /\ LET buffers == Buffers(carried.shape, plan.subsets, plan.blocks)
             IN /\ moments' = [d \in Domains(carried.shape) |-> <<>>]
                /\ weights' = Cells(buffers.weights)
                /\ scores' = Cells(buffers.scores)
                /\ side' = [means |-> Cells(buffers.means), scales |-> Cells(buffers.scales),
                            intercepts |-> Cells(buffers.intercepts)]
       \/ Fail(Allocation)
    /\ Alone /\ Parsed

(* Domain indices against the header's counts, the padding, every target.  *)
Load ==
    Stage("load", "moments",
          IF ~DomainsAgree(carried) \/ ~carried.padding THEN Protocol
          ELSE IF \E r \in DOMAIN carried.rows : ~carried.rows[r].targets THEN Numeric
          ELSE Success,
          {Internal})

(* One row of features into the moments of its domain. *)
Moments ==
    /\ stage = "moments" /\ turn <= Len(carried.rows)
    /\ \/ /\ carried.rows[turn].features /\ Repeat
          /\ moments' = [moments EXCEPT ![carried.rows[turn].domain] = Append(@, turn)]
          /\ UNCHANGED <<plan, weights, scores, side>>
       \/ MayFail({Numeric, Internal})
    /\ Alone /\ Parsed

CheckMoments ==
    /\ stage = "moments" /\ turn > Len(carried.rows)
    /\ \/ TagsAgree(carried) /\ Goto("solve") /\ UNCHANGED work
       \/ ~TagsAgree(carried) /\ Fail(Protocol)
       \/ Fail(Numeric)
    /\ Alone /\ Parsed

(* A buffer after some of its cells were written; it keeps its size. *)
Written(cells, made) == [c \in DOMAIN cells |-> IF c \in DOMAIN made THEN made[c] ELSE cells[c]]

(* The moments of a subset: those of its domains, in ascending order. *)
Combined(doms) == [d \in doms |-> moments[d]]

CombinedRows(doms) == SumOf([d \in doms |-> Len(moments[d])])

Coefficient(kind, fit, target, raw) ==
    [kind |-> kind, fit |-> fit, target |-> target, raw |-> raw]

Targets == 0..(carried.shape.targets - 1)

WeightAt(s, target, position) ==
    plan.weightOffset[s] + target * plan.subsets[s].width + position

Continuously(s) == ((s - 1) * Continuous)..(s * Continuous - 1)

(* The writes of solve_one_subset. *)
Solved(s) ==
    LET subset == plan.subsets[s]
        fit == Combined(subset.domains)
        M == carried.shape.targets
    IN [weights |-> [c \in {WeightAt(s, t, p) : t \in Targets, p \in 0..(subset.width - 1)} |->
            LET cell == c - plan.weightOffset[s]
            IN Coefficient("weight", fit, cell \div subset.width,
                           ActiveRaw(subset.tags, cell % subset.width))],
        means |-> [c \in Continuously(s) |-> Coefficient("mean", fit, 0, c % Continuous)],
        scales |-> [c \in Continuously(s) |-> Coefficient("scale", fit, 0, c % Continuous)],
        intercepts |-> [c \in ((s - 1) * M)..(s * M - 1) |->
            Coefficient("intercept", fit, c - (s - 1) * M, 0)]]

Solve ==
    /\ stage = "solve" /\ turn <= Len(plan.subsets)
    /\ \/ /\ CombinedRows(plan.subsets[turn].domains) = plan.subsets[turn].rows
          /\ LET made == Solved(turn)
             IN /\ weights' = Written(weights, made.weights)
                /\ side' = [means |-> Written(side.means, made.means),
                            scales |-> Written(side.scales, made.scales),
                            intercepts |-> Written(side.intercepts, made.intercepts)]
          /\ IF turn = Len(plan.subsets) THEN Goto("score") ELSE Repeat
          /\ UNCHANGED <<plan, moments, scores>>
       \/ CombinedRows(plan.subsets[turn].domains) # plan.subsets[turn].rows /\ Fail(Internal)
       \/ MayFail({Numeric, Solving})
    /\ Alone /\ Parsed

-----------------------------------------------------------------------------
(* Scoring reads the features a second time, row by row; domain_row counts *)
(* the rows of each domain that went by.                                    *)

RowsBefore(row, d) == Cardinality({r \in 1..(row - 1) : carried.rows[r].domain = d})

(* A plausible slip: rows one cell apart, whatever the number of targets. *)
ScoreAtUnstrided(b, row, target) ==
    plan.scoreOffset[b] + RowsBefore(row, carried.rows[row].domain) + target

ScoreAt(b, row, target) ==
    plan.scoreOffset[b] + RowsBefore(row, carried.rows[row].domain) * carried.shape.targets + target

Term(row, s, target, position) ==
    [row |-> row, raw |-> ActiveRaw(plan.subsets[s].tags, position),
     encoding |-> IF position >= Continuous THEN <<>>
                  ELSE <<side.means[(s - 1) * Continuous + position],
                         side.scales[(s - 1) * Continuous + position]>>,
     weight |-> weights[WeightAt(s, target, position)]]

ScoreOf(row, s, target) ==
    [terms |-> {Term(row, s, target, p) : p \in 0..(plan.subsets[s].width - 1)},
     intercept |-> side.intercepts[(s - 1) * carried.shape.targets + target]]

Scored(row) ==
    LET d == carried.rows[row].domain
        reached == {b \in DOMAIN plan.blocks : plan.blocks[b].domain = d}
        writes == {<<b, t>> : b \in reached, t \in Targets}
    IN [c \in {ScoreAt(w[1], row, w[2]) : w \in writes} |->
           LET w == CHOOSE x \in writes : ScoreAt(x[1], row, x[2]) = c
           IN ScoreOf(row, plan.blocks[w[1]].subset, w[2])]

Score ==
    /\ stage = "score" /\ turn <= Len(carried.rows)
    /\ \/ /\ scores' = Written(scores, Scored(turn))
          /\ IF turn = Len(carried.rows) THEN Goto("validate") ELSE Repeat
          /\ UNCHANGED <<plan, moments, weights, side>>
       \/ MayFail({Numeric, Internal})
    /\ Alone /\ Parsed

UnsetIn(cells) == \E c \in DOMAIN cells : cells[c] = Unset

(* An unset cell holds anything: it may look canonical. *)
Validate ==
    Stage("validate", "write", Success,
          IF \E cells \in {weights, scores, side.means, side.scales, side.intercepts} : UnsetIn(cells)
          THEN {Numeric} ELSE {})

-----------------------------------------------------------------------------
(* The answer.  A failure is a header alone; what the header echoes is what *)
(* was read before the failure.                                             *)

HeaderOf(file) ==
    <<Len(file.shape.counts), file.shape.rows, file.shape.features, file.shape.targets,
      file.stamp, file.digests, file.embedded, file.request>>

(* A plausible slip: the store is echoed once it is admitted. *)
HeaderRecordLate ==
    [status |-> status,
     store |-> IF "request" \in parsed THEN Request.store ELSE Unset,
     echo |-> IF plan # <<>> THEN HeaderOf(carried) ELSE Unset,
     numbers |-> IF plan # <<>> THEN plan.numbers ELSE Unset,
     records |-> IF status = Success THEN <<Len(plan.subsets), Len(plan.blocks)>> ELSE Unset]

HeaderRecord ==
    [status |-> status,
     store |-> IF "request" \in parsed THEN Request.store ELSE Unset,
     echo |-> IF "store" \in parsed THEN HeaderOf(carried) ELSE Unset,
     numbers |-> IF plan # <<>> THEN plan.numbers ELSE Unset,
     records |-> IF status = Success THEN <<Len(plan.subsets), Len(plan.blocks)>> ELSE Unset]

Slice(cells, from, count) == [c \in 1..count |-> cells[from + c - 1]]

CoefficientPrefix(subsets, shape, s) ==
    [index |-> s, about |-> subsets[s], bytes |-> 8 * CoefficientCells(shape, subsets[s])]

CoefficientRecord(s) ==
    LET M == carried.shape.targets
    IN [prefix |-> CoefficientPrefix(plan.subsets, carried.shape, s),
        payload |-> Slice(side.means, (s - 1) * Continuous, Continuous)
                    \o Slice(side.scales, (s - 1) * Continuous, Continuous)
                    \o Slice(side.intercepts, (s - 1) * M, M)
                    \o Slice(weights, plan.weightOffset[s], M * plan.subsets[s].width)]

ScorePrefix(blocks, shape, b) ==
    [index |-> b, about |-> blocks[b], bytes |-> 8 * ScoreCells(shape, blocks[b])]

ScoreRecord(b) ==
    [prefix |-> ScorePrefix(plan.blocks, carried.shape, b),
     payload |-> Slice(scores, plan.scoreOffset[b], ScoreCells(carried.shape, plan.blocks[b]))]

Answer ==
    IF status # Success THEN <<HeaderRecord>>
    ELSE <<HeaderRecord>> \o [s \in DOMAIN plan.subsets |-> CoefficientRecord(s)]
                          \o [b \in DOMAIN plan.blocks |-> ScoreRecord(b)]

(* A write or the flush fails: nothing is on disk, the header, all records  *)
(* but the last, or everything.                                             *)
Write ==
    /\ stage = "write" /\ stage' = "exited"
    /\ LET answer == Answer
       IN \/ out' = answer /\ exit' = (IF status = Success THEN "success" ELSE "failure")
          \/ \E landed \in {0, 1, Len(answer) - 1, Len(answer)} :
                out' = SubSeq(answer, 1, landed) /\ exit' = "failure"
    /\ UNCHANGED <<sealed, carried, status, turn, parsed, work, verdict, mapped, views>>

-----------------------------------------------------------------------------
(* The caller: _load_result. *)

Bytes(records) ==
    IF records = <<>> THEN 0
    ELSE Header.result + Over(Tail(records), LAMBDA r : 8 * Len(r.payload)
            + (IF "width" \in DOMAIN r.prefix.about THEN Header.coefficient ELSE Header.score))

RecordPrefixes(shape) ==
    LET subsets == Subsets(shape)
        blocks == Blocks(subsets, shape)
    IN [s \in DOMAIN subsets |-> CoefficientPrefix(subsets, shape, s)]
       \o [b \in DOMAIN blocks |-> ScorePrefix(blocks, shape, b)]

Counts(shape) == <<Len(Subsets(shape)), Len(Blocks(Subsets(shape), shape))>>

ParseRecords(records, shape) ==
    /\ [r \in DOMAIN records |-> records[r].prefix] = RecordPrefixes(shape)
    /\ \A r \in DOMAIN records : 8 * Len(records[r].payload) = records[r].prefix.bytes

Says(kind, code) == [kind |-> kind, code |-> code]

LoadVerdict ==
    LET expected == Estimate(sealed.shape)
        crash == IF exit = "failure" THEN "execution" ELSE "protocol"
    IN CASE out = <<>> -> Says(crash, Success)
         [] out # <<>> /\ (\/ Bytes(out) > expected.resultBytes
                          \/ out[1].store # Digest(sealed)
                          \/ out[1].echo # HeaderOf(sealed)) -> Says("protocol", Success)
         [] OTHER ->
              IF out[1].status # Success
              THEN IF exit = "success" \/ Len(out) # 1
                   THEN Says("protocol", Success) ELSE Says("status", out[1].status)
              ELSE IF /\ exit = "success"
                      /\ out[1].numbers = expected
                      /\ out[1].records = Counts(sealed.shape)
                      /\ Bytes(out) = expected.resultBytes
                      /\ ParseRecords(Tail(out), sealed.shape)
                   THEN Says("accepted", Success) ELSE Says("protocol", Success)

(* A view is a record's metadata and the place of its payload. *)
ViewsOf(records) == [r \in DOMAIN records |-> [prefix |-> records[r].prefix, at |-> r]]

LoadResult ==
    /\ stage = "exited" /\ Admits(sealed)
    /\ stage' = "loaded" /\ verdict' = LoadVerdict
    /\ IF verdict'.kind = "accepted"
       THEN mapped' = out /\ views' = [of |-> ViewsOf(Tail(out)), sha |-> Digest(out)]
       ELSE UNCHANGED <<mapped, views>>
    /\ UNCHANGED <<sealed, carried, status, turn, parsed, work, out, exit>>

(* Code between this call and a later stage, or the file under the mapping, *)
(* changes one thing.                                                       *)
Tamper ==
    /\ stage = "loaded" /\ verdict.kind = "accepted" /\ stage' = "tampered"
    /\ \E r, q \in {1, Len(views.of) - 1, Len(views.of)} :
          /\ r # q
          /\ \/ mapped' = [mapped EXCEPT ![r + 1].payload = mapped[q + 1].payload] /\ views' = views
             \/ views' = [views EXCEPT !.of[r].at = q] /\ mapped' = mapped
             \/ views' = [views EXCEPT !.of[r].prefix = views.of[q].prefix] /\ mapped' = mapped
    /\ UNCHANGED <<sealed, carried, status, turn, parsed, work, out, exit, verdict>>

(* verify_integrity: the mapping against its digest and header, then every  *)
(* record and the place of its view against the expected graph.             *)
Intact ==
    /\ Digest(mapped) = views.sha
    /\ mapped[1].status = Success
    /\ mapped[1].store = Digest(sealed) /\ mapped[1].echo = HeaderOf(sealed)
    /\ mapped[1].numbers = Estimate(sealed.shape) /\ mapped[1].records = Counts(sealed.shape)
    /\ [r \in DOMAIN views.of |-> views.of[r].prefix] = RecordPrefixes(sealed.shape)
    /\ \A r \in DOMAIN views.of : views.of[r].at = r

VerifyIntegrity ==
    /\ stage \in {"loaded", "tampered"} /\ verdict.kind = "accepted" /\ stage' = "verified"
    /\ verdict' = Says(IF Intact THEN "verified" ELSE "integrity", Success)
    /\ UNCHANGED <<sealed, carried, status, turn, parsed, work, out, exit, mapped, views>>

Settled ==
    /\ \/ stage = "exited" /\ ~Admits(sealed)
       \/ stage = "loaded" /\ verdict.kind # "accepted"
       \/ stage = "verified"
    /\ UNCHANGED sidecar

SidecarNext == \/ ReadSession \/ ReadStore \/ Preflight \/ Authenticate \/ RowKeys \/ Allocate
               \/ Load \/ Moments \/ CheckMoments \/ Solve \/ Score \/ Validate \/ Write
               \/ LoadResult \/ Tamper \/ VerifyIntegrity \/ Settled

SidecarSpec == SidecarInit /\ [][SidecarNext]_sidecar

-----------------------------------------------------------------------------
(* What an answer means, said without offsets, masks or blocks. *)

Column(file, doms) ==
    0..(TagOffset - 1)
    \cup {TagOffset + tag : tag \in UNION {ObservedTags(file.rows, d) : d \in doms}}
    \cup Surface..(file.shape.features - 1)

Fit(file, doms) == [d \in doms |-> RowsOf(file.rows, d)]

TrueScore(file, doms, d, i, target) ==
    LET fit == Fit(file, doms)
    IN [terms |-> {[row |-> RowsOf(file.rows, d)[i], raw |-> raw,
                    encoding |-> IF raw >= Continuous THEN <<>>
                                 ELSE <<Coefficient("mean", fit, 0, raw),
                                        Coefficient("scale", fit, 0, raw)>>,
                    weight |-> Coefficient("weight", fit, target, raw)] :
                       raw \in Column(file, doms)},
        intercept |-> Coefficient("intercept", fit, target, 0)]

Believed == verdict.kind \in {"accepted", "verified"} /\ stage # "tampered"

Payload(view) == mapped[view.at + 1].payload

ScoreViews == {r \in DOMAIN views.of : "subset" \in DOMAIN views.of[r].prefix.about}

(* What the caller believes is what the store it authenticated determines:  *)
(* the score a view gives for the i-th row of a domain under a training     *)
(* subset is that row's features under the fit to exactly that subset's     *)
(* rows, in row order, whatever was altered on the way to the child or in   *)
(* the caller's hands since (allocate_buffers to write_score_records,       *)
(* _load_result, verify_integrity).                                         *)
AnswersAreCanonical ==
    Believed =>
        /\ carried = sealed
        /\ LET subsets == Subsets(sealed.shape) IN \A r \in ScoreViews :
             LET about == views.of[r].prefix.about
                 doms == subsets[about.subset].domains
                 M == sealed.shape.targets
             IN \A i \in 1..about.rows, t \in 0..(M - 1) :
                  Payload(views.of[r])[(i - 1) * M + t + 1]
                     = TrueScore(sealed, doms, about.domain, i, t)

(* The two ends agree on what a store is and what its session costs: the    *)
(* child turns down as malformed or too large exactly what the caller would *)
(* not have sent, both arrive at the same numbers, and the heap that was    *)
(* admitted covers every buffer (preflight_session, _scan_store_descriptor, *)
(* estimate_prepared_session).                                              *)
PreflightsAgree ==
    /\ sealed = carried /\ stage = "exited" =>
         /\ status \in {Protocol, Resource} => ~Admits(sealed)
         /\ status = Success => Admits(sealed)
    /\ stage = "authenticate" =>
         /\ plan.numbers = Estimate(carried.shape)
         /\ AllocatedBytes(carried.shape, plan.subsets, plan.blocks) + Slack <= plan.numbers.heap

(* A failure is reported as what it was: a status the caller raises is the  *)
(* status the child ended with, and a protocol error is never what an       *)
(* honest child gets once it has read both headers and what it echoes of    *)
(* them is what was sent (write_result_header against _load_result).        *)
BlameIsRight ==
    /\ verdict.kind = "status" => verdict.code = status /\ status # Success
    /\ verdict.kind = "protocol" /\ HeaderOf(carried) = HeaderOf(sealed) =>
         \/ status = Success /\ exit = "failure"
         \/ parsed # {"request", "store"}
=============================================================================
