---------------------------- MODULE StoreProofs -----------------------------
(***************************************************************************)
(* Safety of StorePublication for any number of writers and faults.  The   *)
(* published file is tied to its writer's place: between the link and the  *)
(* end of a successful call the destination is the writer's own file, and  *)
(* since a link never replaces, no other writer can be at such a place.    *)
(*                                                                         *)
(* Then of StoreSnapshot, for any number of threads and failures.  The     *)
(* lock ties a running read or close to the life of the store: a thread    *)
(* that is inside finds what it found when it entered.  The writers and    *)
(* the reader of the composition take steps of StorePublication only, so   *)
(* the theorems about it hold there too.                                   *)
(*                                                                         *)
(* Last of the program that is started on a store, for files of any size   *)
(* (PreparedSidecar and PreparedLayout).  First the arithmetic: the sums   *)
(* the child takes over its blocks are the sums the caller takes over the  *)
(* omitted sets, so both ends arrive at the same numbers.  Then the        *)
(* program: what a stage has found is what the caller asked of the file,   *)
(* so nothing it refuses was admitted, and what it writes after a success  *)
(* is what the caller checks an answer against.  Then its scores: every    *)
(* cell of every buffer has one place, a stage fills the cells that are    *)
(* its own and leaves the others, so the record of a block holds the       *)
(* scores of its rows in their order, under the fit to exactly its         *)
(* subset's rows.                                                          *)
(***************************************************************************)
EXTENDS StoreSnapshot, PreparedSidecar, TotalsProofs, FiniteSetTheorems, TLAPS

\* How far the data and the times of a writer's file are at each place.
ContentFollows(w) ==
    /\ pc[w] \in {"inspect", "mkstemp"} => content[w] = "none"
    /\ pc[w] \in {"publish", "link", "verify", "look", "withdraw", "unlink", "sync", "receipt"}
          => content[w] = "complete"

TimesFollow(w) ==
    /\ pc[w] \in {"inspect", "mkstemp", "write", "publish", "link"} => changes[w] = 0
    /\ pc[w] \in {"verify", "look", "withdraw", "unlink"} => changes[w] = 1
    /\ pc[w] \in {"sync", "receipt", "cleanup"} => changes[w] <= 2

\* Where a writer is certain of the destination and of its stage.
Owns(w) ==
    /\ pc[w] \in {"verify", "unlink", "sync", "receipt", "withdraw"} => destination = w
    /\ pc[w] \in {"sync", "receipt"} => w \notin staged

SureReader ==
    reader.sure =>
        /\ reader.at \in {"scan", "accepted"}
        /\ reader.file \in Writers
        /\ pc[reader.file] = "receipt"
        /\ reader.ctime = changes[reader.file]

IInv ==
    /\ TypeOK
    /\ \A w \in Writers : ContentFollows(w) /\ TimesFollow(w) /\ Owns(w)
    /\ PublishedIsComplete
    /\ SureReader

-----------------------------------------------------------------------------

\* The invariant holds initially.
LEMMA InitInvariant == Init => IInv
BY PublicationAssumption
   DEF Init, IInv, TypeOK, ContentFollows, TimesFollow, Owns, PublishedIsComplete, SureReader,
       Idle, Places

\* A writer's step that neither fails nor dies preserves it.
LEMMA NormalInvariant ==
    ASSUME IInv, NEW w \in Writers, Normal(w)
    PROVE  IInv'
<1> USE PublicationAssumption
    DEF IInv, TypeOK, ContentFollows, TimesFollow, Owns, PublishedIsComplete, SureReader,
        Places, Goes, store
<1>1. CASE Inspect(w)      BY <1>1 DEF Inspect
<1>2. CASE MakeStage(w)    BY <1>2 DEF MakeStage
<1>3. CASE WriteStage(w)   BY <1>3 DEF WriteStage
<1>4. CASE CheckStage(w)   BY <1>4 DEF CheckStage
<1>5. CASE Link(w)         BY <1>5 DEF Link, Appears, Touched
<1>6. CASE LinkRefused(w)  BY <1>6 DEF LinkRefused
<1>7. CASE Verify(w)       BY <1>7 DEF Verify
<1>8. CASE Look(w)         BY <1>8 DEF Look, MayWithdraw
<1>9. CASE Withdraw(w)     BY <1>9 DEF Withdraw, Touched
<1>10. CASE UnlinkStage(w) BY <1>10 DEF UnlinkStage, Touched
<1>11. CASE Sync(w)        BY <1>11 DEF Sync
<1>12. CASE Cleanup(w)     BY <1>12 DEF Cleanup, Touched
<1> QED
    BY <1>1, <1>2, <1>3, <1>4, <1>5, <1>6, <1>7, <1>8, <1>9, <1>10, <1>11, <1>12 DEF Normal

\* A failing operation and a dying process preserve it.
LEMMA FailingInvariant ==
    ASSUME IInv, NEW w \in Writers, Failing(w)
    PROVE  IInv'
<1> USE PublicationAssumption
    DEF IInv, TypeOK, ContentFollows, TimesFollow, Owns, PublishedIsComplete, SureReader,
        Places, Ended, Goes, Fault, store
<1>1. CASE LinkRaises(w)     BY <1>1 DEF LinkRaises, Appears, Touched
<1>2. CASE OperationFails(w) BY <1>2 DEF OperationFails, Handler
<1>3. CASE UnlinkRaises(w)   BY <1>3 DEF UnlinkRaises, Touched
<1>4. CASE Die(w)            BY <1>4 DEF Die
<1> QED BY <1>1, <1>2, <1>3, <1>4 DEF Failing

\* So does the reader, which changes no file.
LEMMA ReaderInvariant ==
    ASSUME IInv, Open \/ Finish \/ Again
    PROVE  IInv'
<1> USE PublicationAssumption
    DEF IInv, TypeOK, ContentFollows, TimesFollow, Owns, PublishedIsComplete, SureReader,
        store, writer
<1>1. CASE Open   BY <1>1 DEF Open, Ctime
<1>2. CASE Finish BY <1>2 DEF Finish, Ctime, Authentic
<1>3. CASE Again  BY <1>3 DEF Again, Idle
<1> QED BY <1>1, <1>2, <1>3

LEMMA StutterInvariant ==
    ASSUME IInv, UNCHANGED vars
    PROVE  IInv'
BY DEF IInv, TypeOK, ContentFollows, TimesFollow, Owns, PublishedIsComplete, SureReader,
       vars, store, writer

\* The inductive invariant, for every number of writers and of faults.
THEOREM PublicationInductive == Spec => []IInv
<1>1. IInv /\ [Next]_vars => IInv'
    BY NormalInvariant, FailingInvariant, ReaderInvariant, StutterInvariant DEF Next
<1> QED BY InitInvariant, <1>1, PTL DEF Spec

\* The variables keep their types: in particular no inode is renewed more than
\* three times.
THEOREM PublicationTypeCorrect == Spec => []TypeOK
<1>1. IInv => TypeOK BY DEF IInv
<1> QED BY PublicationInductive, <1>1, PTL

\* Whatever interleaving, failure or crash: the destination is a whole store.
THEOREM PublishedWhole == Spec => []PublishedIsComplete
<1>1. IInv => PublishedIsComplete BY DEF IInv
<1> QED BY PublicationInductive, <1>1, PTL

\* A returned receipt names the caller's own file for good, and an
\* authentication that starts with it is never refused.
THEOREM ReceiptHolds == Spec => []ReceiptIsFinal
<1>1. IInv => ReceiptIsFinal
    BY DEF IInv, Owns, SureReader, ReceiptIsFinal
<1> QED BY PublicationInductive, <1>1, PTL

\* No step replaces a file at the destination, and only the writer that
\* published one withdraws it.
THEOREM NothingTakenAway == Spec => NeverTakenAway
<1> DEFINE Kept == destination # Nothing =>
                      \/ destination' = destination
                      \/ /\ destination' = Nothing
                         /\ destination \in Writers
                         /\ pc[destination] = "withdraw" /\ pc'[destination] = "cleanup"
<1>1. ASSUME IInv, NEW w \in Writers, Normal(w) PROVE Kept
    <2>1. CASE Withdraw(w)
        BY <1>1, <2>1 DEF IInv, Owns, Withdraw, Goes, TypeOK
    <2>2. CASE ~Withdraw(w)
        BY <1>1, <2>2 DEF Normal, Inspect, MakeStage, WriteStage, CheckStage, Link, LinkRefused,
           Verify, Look, UnlinkStage, Sync, Cleanup, store
    <2> QED BY <2>1, <2>2
<1>2. ASSUME NEW w \in Writers, Failing(w) PROVE Kept
    BY <1>2 DEF Failing, LinkRaises, OperationFails, UnlinkRaises, Die, store
<1>3. ASSUME Open \/ Finish \/ Again PROVE Kept
    BY <1>3 DEF Open, Finish, Again, store
<1>4. IInv /\ [Next]_vars => [Kept]_vars
    BY <1>1, <1>2, <1>3 DEF Next
<1> QED BY PublicationInductive, <1>4, PTL DEF Spec, NeverTakenAway

-----------------------------------------------------------------------------
(* The snapshot.                                                           *)

\* What has been made, and copied, when the authentication is at each place.
LifeFollows ==
    /\ life \in {"created", "copying", "copied"} => holds = {"directory", "stream"}
    /\ life \in {"copied", "live"} => copied = "whole"
    /\ Readable => life = "live"

\* The lock holder is the one thread in a method, and only a live store is read
\* or closed.
LockFollows ==
    /\ \A t \in Threads : at[t] \in {"hash", "closeStream", "closeDirectory"} => inside = {t}
    /\ \A t \in Threads : at[t] \in {"closeStream", "closeDirectory"} => ~Readable
    /\ inside # {} => life = "live"

SInv ==
    /\ SnapshotTypeOK
    /\ SnapshotOutlivesItsReaders
    /\ LifeFollows
    /\ LockFollows

-----------------------------------------------------------------------------

\* The invariant holds initially.
LEMMA SnapshotInitInvariant == SnapshotInit => SInv
BY SnapshotAssumption
   DEF SnapshotInit, SInv, SnapshotTypeOK, SnapshotOutlivesItsReaders, LifeFollows, LockFollows,
       Readable

\* The bound on failures is kept; nothing else needs to know what a failure is.
LEMMA MishapsBounded ==
    mishaps \in 0 .. MaxMishaps /\ (Mishap \/ NoMishap) => mishaps' \in 0 .. MaxMishaps
BY SnapshotAssumption DEF Mishap, NoMishap

\* Every step of the authentication preserves it.
LEMMA AuthenticationInvariant ==
    ASSUME SInv, Authentication
    PROVE  SInv'
<1> USE DEF SInv, SnapshotTypeOK, SnapshotOutlivesItsReaders, LifeFollows, LockFollows,
            Readable, Moves
<1>1. CASE CreatePrivate  BY <1>1, MishapsBounded DEF CreatePrivate
<1>2. CASE StartCopy      BY <1>2, MishapsBounded DEF StartCopy
<1>3. CASE CopyPayload    BY <1>3 DEF CopyPayload
<1>4. CASE FinishCopy     BY <1>4, MishapsBounded DEF FinishCopy, RollBack
<1>5. CASE CopyFails      BY <1>5, MishapsBounded DEF CopyFails
<1>6. CASE MapSnapshot    BY <1>6, MishapsBounded DEF MapSnapshot
<1>7. CASE Abort          BY <1>7, MishapsBounded DEF Abort
<1>8. CASE Retry          BY <1>8 DEF Retry
<1>9. QED  BY <1>1, <1>2, <1>3, <1>4, <1>5, <1>6, <1>7, <1>8 DEF Authentication

\* Every step of a method preserves it.
LEMMA MethodInvariant ==
    ASSUME SInv, NEW t \in Threads, Method(t)
    PROVE  SInv'
<1> USE DEF SInv, SnapshotTypeOK, SnapshotOutlivesItsReaders, LifeFollows, LockFollows,
            Readable, Returned
<1>1. CASE BeginHash(t)       BY <1>1 DEF BeginHash
<1>2. CASE EndHash(t)         BY <1>2 DEF EndHash
<1>3. CASE BeginKeys(t)       BY <1>3 DEF BeginKeys
<1>4. CASE EndKeys(t)         BY <1>4 DEF EndKeys
<1>5. CASE Export(t)          BY <1>5 DEF Export
<1>6. CASE ReleaseView(t)     BY <1>6 DEF ReleaseView
<1>7. CASE BeginClose(t)      BY <1>7 DEF BeginClose
<1>8. CASE CloseStream(t)     BY <1>8, MishapsBounded DEF CloseStream, Releases
<1>9. CASE CloseDirectory(t)  BY <1>9, MishapsBounded DEF CloseDirectory, Releases
<1>10. QED
  BY <1>1, <1>2, <1>3, <1>4, <1>5, <1>6, <1>7, <1>8, <1>9 DEF Method

\* So does every step of the composition.
LEMMA SnapshotStepInvariant == SInv /\ [SnapshotNext]_snapshotVars => SInv'
<1> SUFFICES ASSUME SInv, [SnapshotNext]_snapshotVars  PROVE SInv'
  OBVIOUS
<1>1. CASE UNCHANGED snapshot
  BY <1>1 DEF SInv, SnapshotTypeOK, SnapshotOutlivesItsReaders, LifeFollows, LockFollows,
              Readable, snapshot
<1>2. CASE Authentication
  BY <1>2, AuthenticationInvariant
<1>3. CASE \E t \in Threads : Method(t)
  BY <1>3, MethodInvariant
<1>4. QED
  BY <1>1, <1>2, <1>3 DEF SnapshotNext, Publishing, snapshotVars

\* The inductive invariant of the snapshot: the place of the authentication says
\* what exists, and the lock says who is inside, for every set of threads and
\* every number of failures (prepared_files.py, AuthenticatedPreparedStore).
THEOREM SnapshotInductive == SnapshotSpec => []SInv
BY SnapshotInitInvariant, SnapshotStepInvariant, PTL DEF SnapshotSpec

\* A returned store keeps its mapping, its file and its directory under every
\* reader, and says it is closed only with everything released.
THEOREM ReadersKeepTheirSnapshot == SnapshotSpec => []SnapshotOutlivesItsReaders
<1>1. SInv => SnapshotOutlivesItsReaders
  BY DEF SInv
<1>2. QED
  BY <1>1, SnapshotInductive, PTL

-----------------------------------------------------------------------------

\* An authentication takes steps of the reader of StorePublication, or none.
LEMMA AuthenticationIsReading == Authentication => [Next]_vars
BY DEF Authentication, CreatePrivate, StartCopy, CopyPayload, FinishCopy, CopyFails, MapSnapshot,
       Abort, Retry, Next

\* A method of the returned store does not touch the destination or its writers.
LEMMA MethodsAreApart ==
    ASSUME NEW t \in Threads, Method(t)
    PROVE  UNCHANGED vars
BY DEF Method, BeginHash, EndHash, BeginKeys, EndKeys, Export, ReleaseView, BeginClose,
       CloseStream, CloseDirectory

\* The composition implements StorePublication: seen from the destination, an
\* authentication that copies, maps and is closed is one of its readers.
THEOREM SnapshotImplementsPublication == SnapshotSpec => Spec
<1>1. SnapshotInit => Init
  BY DEF SnapshotInit
<1>2. [SnapshotNext]_snapshotVars => [Next]_vars
  <2> SUFFICES ASSUME [SnapshotNext]_snapshotVars  PROVE [Next]_vars
    OBVIOUS
  <2>1. CASE Publishing
    BY <2>1 DEF Publishing, Next
  <2>2. CASE Authentication
    BY <2>2, AuthenticationIsReading
  <2>3. CASE \E t \in Threads : Method(t)
    BY <2>3, MethodsAreApart
  <2>4. CASE UNCHANGED snapshotVars
    BY <2>4 DEF snapshotVars
  <2>5. QED
    BY <2>1, <2>2, <2>3, <2>4 DEF SnapshotNext
<1>3. QED
  BY <1>1, <1>2, PTL DEF SnapshotSpec, Spec

-----------------------------------------------------------------------------
(* Totals of sequences that are sums or multiples of others.                *)

\* Step by step: what holds at zero and is passed on holds everywhere up to N.
LEMMA StepByStep ==
    ASSUME NEW N \in Nat, NEW Good, 0 \in Good,
           \A n \in 0 .. (N - 1) : n \in Good => n + 1 \in Good
    PROVE  \A n \in 0 .. N : n \in Good
<1> DEFINE Bad == {n \in 0 .. N : n \notin Good}
<1>1. SUFFICES ASSUME Bad # {} PROVE FALSE
  OBVIOUS
<1>2. PICK n \in Bad : \A m \in Bad : n <= m
  <2>1. Bad \in SUBSET Nat
    OBVIOUS
  <2> QED
    BY <1>1, <2>1, LeastElement
<1>3. n # 0 /\ n - 1 \in 0 .. (N - 1) /\ n - 1 \notin Bad
  BY <1>2
<1>4. n - 1 \in Good
  BY <1>3
<1>5. (n - 1) + 1 \in Good
  BY <1>3, <1>4
<1> QED
  BY <1>2, <1>5

LEMMA Distributes ==
    ASSUME NEW a \in Int, NEW b \in Int, NEW c \in Int
    PROVE  c * (a + b) = c * a + c * b
OBVIOUS

LEMMA RunningTotalsAt ==
    ASSUME NEW w \in Seq(Nat)
    PROVE  /\ RunningTotals(w)[0] = 0
           /\ \A n \in 1 .. Len(w) : RunningTotals(w)[n] = RunningTotals(w)[n - 1] + w[n]
           /\ \A n \in 0 .. Len(w) : RunningTotals(w)[n] \in Nat
           /\ Total(w) = RunningTotals(w)[Len(w)]
<1>1. Adds(RunningTotals(w), w, Len(w))
  BY RunningTotalsAdd
<1>2. Len(w) \in Nat
  OBVIOUS
<1> HIDE DEF RunningTotals
<1>3. RunningTotals(w)[0] = 0 /\ \A n \in 1 .. Len(w) : RunningTotals(w)[n] = RunningTotals(w)[n - 1] + w[n]
  BY <1>1, <1>2, AddsAt
<1> QED
  BY <1>3, RunningTotalsAreNat DEF Total

\* The running totals of a sequence are the only numbers that add up so.
LEMMA TotalsAreThese ==
    ASSUME NEW w \in Seq(Nat), NEW g, g[0] = 0,
           \A n \in 1 .. Len(w) : g[n] = g[n - 1] + w[n]
    PROVE  \A n \in 0 .. Len(w) : RunningTotals(w)[n] = g[n]
<1> DEFINE f == RunningTotals(w)
           Good == {n \in 0 .. Len(w) : f[n] = g[n]}
<1>1. f[0] = 0 /\ \A n \in 1 .. Len(w) : f[n] = f[n - 1] + w[n]
  BY RunningTotalsAt
<1> HIDE DEF f
<1>2. Len(w) \in Nat
  OBVIOUS
<1>3. 0 \in Good
  BY <1>1, <1>2
<1>4. ASSUME NEW n \in 0 .. (Len(w) - 1), n \in Good PROVE n + 1 \in Good
  <2>1. n + 1 \in 1 .. Len(w) /\ (n + 1) - 1 = n /\ n + 1 \in 0 .. Len(w)
    BY <1>2
  <2>2. f[n + 1] = f[n] + w[n + 1] /\ g[n + 1] = g[n] + w[n + 1]
    BY <1>1, <2>1
  <2> QED
    BY <1>4, <2>1, <2>2
<1>5. \A n \in 0 .. Len(w) : n \in Good
  BY <1>2, <1>3, <1>4, StepByStep
<1> QED
  BY <1>5 DEF f

\* A sequence of numbers and its running totals as functions of an index.
Accrues(N, u, f) ==
    /\ u \in [1 .. N -> Nat] /\ f \in [0 .. N -> Nat] /\ f[0] = 0
    /\ \A n \in 0 .. (N - 1) : f[n + 1] = f[n] + u[n + 1]

Follows(w, N, u, f) ==
    /\ Accrues(N, u, f) /\ Total(w) = f[N]
    /\ \A n \in 1 .. N : u[n] = w[n]
    /\ \A n \in 0 .. N : f[n] = RunningTotals(w)[n]

LEMMA TotalsAsFunctions ==
    ASSUME NEW w \in Seq(Nat), NEW L, L = Len(w)
    PROVE  L \in Nat /\ \E u, f : Follows(w, L, u, f)
<1> DEFINE N == Len(w)
           r == RunningTotals(w)
           u == [n \in 1 .. N |-> w[n]]
           f == [n \in 0 .. N |-> r[n]]
<1>1. /\ r[0] = 0 /\ \A n \in 1 .. N : r[n] = r[n - 1] + w[n]
      /\ \A n \in 0 .. N : r[n] \in Nat
      /\ Total(w) = r[N]
  BY RunningTotalsAt
<1>2. N \in Nat /\ \A n \in 1 .. N : w[n] \in Nat
  OBVIOUS
<1> HIDE DEF r, N
<1>3. u \in [1 .. N -> Nat] /\ f \in [0 .. N -> Nat]
  BY <1>1, <1>2
<1>4. f[0] = 0 /\ Total(w) = f[N] /\ \A n \in 0 .. N : f[n] = r[n]
  BY <1>1, <1>2
<1>5. ASSUME NEW n \in 0 .. (N - 1) PROVE f[n + 1] = f[n] + u[n + 1]
  <2>1. n \in 0 .. N /\ n + 1 \in 0 .. N /\ n + 1 \in 1 .. N /\ (n + 1) - 1 = n
    BY <1>2
  <2>2. f[n + 1] = r[n + 1] /\ f[n] = r[n] /\ u[n + 1] = w[n + 1]
    BY <2>1
  <2>3. r[n + 1] = r[n] + w[n + 1]
    BY <1>1, <2>1
  <2> QED
    BY <2>2, <2>3
<1>6. \A n \in 1 .. N : u[n] = w[n]
  OBVIOUS
<1> HIDE DEF u, f
<1> QED
  BY <1>2, <1>3, <1>4, <1>5, <1>6 DEF N, r, Follows, Accrues

LEMMA FunctionsAdded ==
    ASSUME NEW N \in Nat,
           NEW u, NEW f, Accrues(N, u, f),
           NEW v, NEW h, Accrues(N, v, h),
           NEW w, NEW g, Accrues(N, w, g),
           \A n \in 1 .. N : w[n] = u[n] + v[n]
    PROVE  g[N] = f[N] + h[N]
<1> USE DEF Accrues
<1> DEFINE Good == {n \in 0 .. N : g[n] = f[n] + h[n]}
<1>1. 0 \in Good
  OBVIOUS
<1>2. ASSUME NEW n \in 0 .. (N - 1), n \in Good PROVE n + 1 \in Good
  <2>1. n \in 0 .. N /\ n + 1 \in 0 .. N /\ n + 1 \in 1 .. N
    OBVIOUS
  <2>2. g[n + 1] = (f[n] + h[n]) + (u[n + 1] + v[n + 1])
    BY <1>2, <2>1
  <2>3. f[n + 1] + h[n + 1] = (f[n] + u[n + 1]) + (h[n] + v[n + 1])
    BY <2>1
  <2>4. f[n] \in Int /\ h[n] \in Int /\ u[n + 1] \in Int /\ v[n + 1] \in Int
    BY <2>1
  <2> QED
    BY <2>1, <2>2, <2>3, <2>4
<1>3. \A n \in 0 .. N : n \in Good
  <2> HIDE DEF Good
  <2> QED
    BY <1>1, <1>2, StepByStep
<1> QED
  BY <1>3

LEMMA FunctionsScaled ==
    ASSUME NEW N \in Nat, NEW c \in Nat,
           NEW u, NEW f, Accrues(N, u, f),
           NEW w, NEW g, Accrues(N, w, g),
           \A n \in 1 .. N : w[n] = c * u[n]
    PROVE  g[N] = c * f[N]
<1> USE DEF Accrues
<1> DEFINE Good == {n \in 0 .. N : g[n] = c * f[n]}
<1>1. 0 \in Good
  OBVIOUS
<1>2. ASSUME NEW n \in 0 .. (N - 1), n \in Good PROVE n + 1 \in Good
  <2>1. n \in 0 .. N /\ n + 1 \in 0 .. N /\ n + 1 \in 1 .. N
    OBVIOUS
  <2>2. g[n + 1] = c * f[n] + c * u[n + 1]
    BY <1>2, <2>1
  <2>3. c \in Int /\ f[n] \in Int /\ u[n + 1] \in Int
    BY <2>1
  <2>4. c * (f[n] + u[n + 1]) = c * f[n] + c * u[n + 1]
    BY <2>3, Distributes, Zenon
  <2>5. c * f[n + 1] = c * (f[n] + u[n + 1])
    BY <2>1
  <2>6. g[n + 1] = c * f[n + 1]
    BY <2>2, <2>4, <2>5, Zenon
  <2> QED
    BY <2>1, <2>6
<1>3. \A n \in 0 .. N : n \in Good
  <2> HIDE DEF Good
  <2> QED
    BY <1>1, <1>2, StepByStep
<1> QED
  BY <1>3

\* The total of sums is the sum of the totals.
LEMMA TotalOfSums ==
    ASSUME NEW u \in Seq(Nat), NEW v \in Seq(Nat), NEW w \in Seq(Nat), Len(u) = Len(w), Len(v) = Len(w),
           \A n \in 1 .. Len(w) : w[n] = u[n] + v[n]
    PROVE  Total(w) = Total(u) + Total(v)
<1> DEFINE N == Len(w)
<1>1. N \in Nat /\ N = Len(u) /\ N = Len(v) /\ \A n \in 1 .. N : w[n] = u[n] + v[n]
  OBVIOUS
<1>2. PICK x, f : Follows(u, N, x, f)
  BY <1>1, TotalsAsFunctions
<1>3. PICK y, g : Follows(v, N, y, g)
  BY <1>1, TotalsAsFunctions
<1>4. PICK z, h : Follows(w, N, z, h)
  BY <1>1, TotalsAsFunctions
<1> HIDE DEF N
<1>6. \A n \in 1 .. N : z[n] = x[n] + y[n]
  BY <1>1, <1>2, <1>3, <1>4 DEF Follows
<1>7. h[N] = f[N] + g[N]
  <2>1. Accrues(N, x, f) /\ Accrues(N, y, g) /\ Accrues(N, z, h)
    BY <1>2, <1>3, <1>4 DEF Follows
  <2>2. N \in Nat
    BY <1>1
  <2> QED
    BY <2>1, <2>2, <1>6, FunctionsAdded
<1> QED
  BY <1>2, <1>3, <1>4, <1>7 DEF Follows

LEMMA TotalOfScaled ==
    ASSUME NEW u \in Seq(Nat), NEW w \in Seq(Nat), Len(u) = Len(w), NEW c \in Nat,
           \A n \in 1 .. Len(w) : w[n] = c * u[n]
    PROVE  Total(w) = c * Total(u)
<1> DEFINE N == Len(w)
<1>1. N \in Nat /\ N = Len(u) /\ \A n \in 1 .. N : w[n] = c * u[n]
  OBVIOUS
<1>2. PICK x, f : Follows(u, N, x, f)
  BY <1>1, TotalsAsFunctions
<1>4. PICK z, h : Follows(w, N, z, h)
  BY <1>1, TotalsAsFunctions
<1> HIDE DEF N
<1>6. \A n \in 1 .. N : z[n] = c * x[n]
  BY <1>1, <1>2, <1>4 DEF Follows
<1>7. h[N] = c * f[N]
  <2>1. Accrues(N, x, f) /\ Accrues(N, z, h)
    BY <1>2, <1>4 DEF Follows
  <2>2. N \in Nat
    BY <1>1
  <2> QED
    BY <2>1, <2>2, <1>6, FunctionsScaled
<1> QED
  BY <1>2, <1>4, <1>7 DEF Follows

-----------------------------------------------------------------------------
(* A set in order: every element has a place of its own.                    *)

LEMMA TupleOfNumbers ==
    ASSUME NEW N \in Nat, NEW w \in [1 .. N -> Nat]
    PROVE  w \in Seq(Nat) /\ Len(w) = N
OBVIOUS

\* The total of a sequence is the sum of its entries, in no order.
LEMMA TotalIsSum ==
    ASSUME NEW w \in Seq(Nat), NEW u \in [1 .. Len(w) -> Nat], \A n \in 1 .. Len(w) : u[n] = w[n]
    PROVE  Total(w) = SumOf(u)
<1> DEFINE N == Len(w)
           Good == {n \in 0 .. N : RunningTotals(w)[n] = SumOver(u, 1 .. n)}
<1>1. N \in Nat
  OBVIOUS
<1>2. PICK x, f : Follows(w, N, x, f)
  BY <1>1, TotalsAsFunctions
<1>3. u \in [1 .. N -> Nat] /\ \A n \in 1 .. N : u[n] = x[n]
  BY <1>1, <1>2 DEF Follows
<1>4. IsFiniteSet(1 .. N)
  BY <1>1, FS_Interval
<1> HIDE DEF N
<1>5. /\ SumOver(u, 1 .. N) = SumOf(u) /\ SumOver(u, {}) = 0
      /\ \A T \in SUBSET (1 .. N) : \A y \in (1 .. N) \ T :
            SumOver(u, T \cup {y}) = SumOver(u, T) + u[y]
  <2> DEFINE I == 1 .. N
  <2>1. u \in [I -> Nat] /\ IsFiniteSet(I)
    BY <1>3, <1>4
  <2> HIDE DEF I
  <2>2. /\ SumOver(u, I) = SumOf(u) /\ SumOver(u, {}) = 0
        /\ \A T \in SUBSET I : \A y \in I \ T : SumOver(u, T \cup {y}) = SumOver(u, T) + u[y]
    BY <2>1, SumsOver
  <2> QED
    BY <2>2 DEF I
<1>6. 0 \in Good
  <2>1. 1 .. 0 = {}
    OBVIOUS
  <2>2. RunningTotals(w)[0] = 0
    BY <1>1, <1>2 DEF Follows, Accrues
  <2> QED
    BY <1>1, <1>5, <2>1, <2>2
<1>7. ASSUME NEW n \in 0 .. (N - 1), n \in Good PROVE n + 1 \in Good
  <2>1. n + 1 \in 0 .. N /\ n + 1 \in (1 .. N) \ (1 .. n) /\ 1 .. n \in SUBSET (1 .. N) /\ n \in 0 .. N
    BY <1>1
  <2>2. 1 .. (n + 1) = (1 .. n) \cup {n + 1}
    BY <1>1
  <2>3. SumOver(u, 1 .. (n + 1)) = SumOver(u, 1 .. n) + u[n + 1]
    <3> DEFINE I == 1 .. N
               T == 1 .. n
               y == n + 1
    <3>1. \A U \in SUBSET I : \A z \in I \ U : SumOver(u, U \cup {z}) = SumOver(u, U) + u[z]
      BY <1>5
    <3>2. T \in SUBSET I /\ y \in I \ T /\ 1 .. y = T \cup {y}
      BY <2>1, <2>2
    <3> HIDE DEF I, T, y
    <3>3. SumOver(u, T \cup {y}) = SumOver(u, T) + u[y]
      BY <3>1, <3>2
    <3>4. SumOver(u, 1 .. y) = SumOver(u, T) + u[y]
      BY <3>2, <3>3
    <3> QED
      BY <3>4 DEF T, y
  <2>4. f[n + 1] = f[n] + x[n + 1] /\ f[n] = RunningTotals(w)[n] /\ f[n + 1] = RunningTotals(w)[n + 1]
    BY <1>2, <2>1 DEF Follows, Accrues
  <2>5. u[n + 1] = x[n + 1]
    BY <1>3, <2>1
  <2>6. RunningTotals(w)[n] = SumOver(u, 1 .. n)
    BY <1>7
  <2>7. RunningTotals(w)[n + 1] = SumOver(u, 1 .. (n + 1))
    BY <2>3, <2>4, <2>5, <2>6
  <2> QED
    BY <2>1, <2>7
<1>8. \A n \in 0 .. N : n \in Good
  <2> HIDE DEF Good
  <2> QED
    BY <1>1, <1>6, <1>7, StepByStep
<1>9. N \in 0 .. N
  BY <1>1
<1>10. RunningTotals(w)[N] = SumOver(u, 1 .. N)
  BY <1>8, <1>9
<1> QED
  BY <1>5, <1>10 DEF N, Total

\* The elements of a set in some order, each of them once.
Enumerates(s, S) ==
    /\ s \in [1 .. Cardinality(S) -> S]
    /\ \A k, l \in 1 .. Cardinality(S) : s[k] = s[l] => k = l
    /\ \A x \in S : \E k \in 1 .. Cardinality(S) : s[k] = x

\* Listed one after the other, the elements of a set have the sum of the set.
LEMMA TotalOfListed ==
    ASSUME NEW S, IsFiniteSet(S), NEW f \in [S -> Nat], NEW s, Enumerates(s, S),
           NEW w, w = [k \in 1 .. Cardinality(S) |-> f[s[k]]]
    PROVE  w \in Seq(Nat) /\ Total(w) = SumOf(f)
<1> DEFINE N == Cardinality(S)
<1>1. N \in Nat
  BY FS_CardinalityType
<1>2. /\ DOMAIN s = 1 .. N /\ \A k \in 1 .. N : s[k] \in S
      /\ \A k, l \in 1 .. N : s[k] = s[l] => k = l
      /\ \A x \in S : \E k \in 1 .. N : s[k] = x
  BY DEF Enumerates
<1>3. w = [k \in 1 .. N |-> f[s[k]]]
  OBVIOUS
<1> HIDE DEF N
<1>4. w \in Seq(Nat) /\ Len(w) = N /\ w \in [1 .. N -> Nat]
  <2>1. \A k \in 1 .. N : f[s[k]] \in Nat
    BY <1>2
  <2>2. w \in [1 .. N -> Nat]
    BY <1>3, <2>1
  <2> QED
    BY <1>1, <2>2, TupleOfNumbers
<1>5. {s[k] : k \in 1 .. N} = S
  BY <1>2
<1>6. DOMAIN f = S /\ NatValued(f) /\ f = [x \in S |-> f[x]]
  BY DEF NatValued
<1>7. IsFiniteSet(1 .. N)
  BY <1>1, FS_Interval
<1>8. SumOf([y \in {s[k] : k \in 1 .. N} |-> f[y]]) = SumOf([k \in 1 .. N |-> f[s[k]]])
  <2>1. DOMAIN f = {s[k] : k \in 1 .. N}
    BY <1>5, <1>6
  <2>2. \A k, l \in 1 .. N : s[k] = s[l] => k = l
    BY <1>2
  <2>3. DOMAIN s = 1 .. N
    BY <1>2
  <2> QED
    <3> DEFINE I == 1 .. N
               J == {s[k] : k \in I}
    <3>1. IsFiniteSet(I) /\ DOMAIN s = I /\ DOMAIN f = J /\ \A k, l \in I : s[k] = s[l] => k = l
      BY <1>7, <2>1, <2>2, <2>3
    <3> HIDE DEF I
    <3>2. SumOf([y \in J |-> f[y]]) = SumOf([k \in I |-> f[s[k]]])
      <4>1. NatValued(f)
        BY <1>6
      <4> QED
        BY <3>1, <4>1, SumOfRenamed
    <3> QED
      BY <3>2 DEF I
<1>9. SumOf(f) = SumOf(w)
  <2>1. [y \in {s[k] : k \in 1 .. N} |-> f[y]] = [x \in S |-> f[x]]
    BY <1>5
  <2> QED
    BY <1>3, <1>6, <1>8, <2>1
<1>10. Total(w) = SumOf(w)
  BY <1>4, TotalIsSum
<1> QED
  BY <1>4, <1>9, <1>10

\* In a strict total order the numbers of predecessors are 0, 1, ... each once.
LEMMA RanksAreExact ==
    ASSUME NEW S, IsFiniteSet(S), NEW P, \A x \in S : P[x] \subseteq S /\ x \notin P[x],
           \A x, y \in S : x # y => x \in P[y] \/ y \in P[x],
           \A x, y \in S : x \in P[y] => P[x] \subseteq P[y]
    PROVE  /\ Cardinality(S) \in Nat
           /\ \A x \in S : Cardinality(P[x]) \in 0 .. (Cardinality(S) - 1)
           /\ \A x, y \in S : Cardinality(P[x]) = Cardinality(P[y]) => x = y
           /\ \A k \in 1 .. Cardinality(S) : \E x \in S : Cardinality(P[x]) = k - 1
<1> DEFINE N == Cardinality(S)
           rank == [x \in S |-> Cardinality(P[x])]
<1>1. N \in Nat
  BY FS_CardinalityType
<1>2. ASSUME NEW x \in S PROVE IsFiniteSet(P[x]) /\ Cardinality(P[x]) \in 0 .. (N - 1)
  <2>1. P[x] \in SUBSET S /\ P[x] # S
    OBVIOUS
  <2>2. IsFiniteSet(P[x]) /\ Cardinality(P[x]) <= N /\ Cardinality(P[x]) # N
    BY <2>1, FS_Subset
  <2>3. Cardinality(P[x]) \in Nat
    BY <2>2, FS_CardinalityType
  <2> QED
    BY <1>1, <2>2, <2>3
<1>3. ASSUME NEW x \in S, NEW y \in S, x \in P[y] PROVE Cardinality(P[x]) < Cardinality(P[y])
  <2>1. P[x] \in SUBSET P[y] /\ P[x] # P[y]
    BY <1>3
  <2>2. IsFiniteSet(P[y])
    BY <1>2
  <2>3. Cardinality(P[x]) <= Cardinality(P[y]) /\ Cardinality(P[x]) # Cardinality(P[y])
    BY <2>1, <2>2, FS_Subset
  <2>4. Cardinality(P[x]) \in Int /\ Cardinality(P[y]) \in Int
    BY <1>2
  <2> QED
    BY <2>3, <2>4
<1>4. ASSUME NEW x \in S, NEW y \in S, Cardinality(P[x]) = Cardinality(P[y]) PROVE x = y
  <2>1. CASE x \in P[y]
    <3>1. Cardinality(P[x]) < Cardinality(P[y])
      BY <1>3, <2>1
    <3>2. Cardinality(P[x]) \in Int
      BY <1>2
    <3> QED
      BY <1>4, <3>1, <3>2
  <2>2. CASE y \in P[x]
    <3>1. Cardinality(P[y]) < Cardinality(P[x])
      BY <1>3, <2>2
    <3>2. Cardinality(P[x]) \in Int
      BY <1>2
    <3> QED
      BY <1>4, <3>1, <3>2
  <2> QED
    BY <2>1, <2>2
<1>5. {rank[x] : x \in S} = 0 .. (N - 1)
  <2> DEFINE R == {rank[x] : x \in S}
  <2>1. \A x \in S : rank[x] = Cardinality(P[x])
    OBVIOUS
  <2>2. \A x, y \in S : rank[x] = rank[y] => x = y
    BY <1>4, <2>1
  <2>3. \A x \in S : rank[x] \in 0 .. (N - 1)
    BY <1>2, <2>1
  <2>4. R \in SUBSET (0 .. (N - 1))
    BY <2>3
  <2>5. DOMAIN rank = S
    OBVIOUS
  <2> HIDE DEF rank
  <2>6. IsFiniteSet(R) /\ Cardinality(R) = N
    BY <2>2, <2>5, ImageCounts
  <2>7. IsFiniteSet(0 .. (N - 1)) /\ Cardinality(0 .. (N - 1)) = N
    <3> DEFINE last == N - 1
    <3>1. last \in Int /\ 0 \in Int /\ (IF 0 > last THEN 0 ELSE last - 0 + 1) = N
      BY <1>1
    <3> HIDE DEF last
    <3>2. IsFiniteSet(0 .. last) /\ Cardinality(0 .. last) = N
      BY <3>1, FS_Interval
    <3> QED
      BY <3>2 DEF last
  <2> HIDE DEF R
  <2>8. 0 .. (N - 1) = R
    BY <2>4, <2>6, <2>7, FS_Subset
  <2> QED
    BY <2>8 DEF R
<1>6. ASSUME NEW k \in 1 .. N PROVE \E x \in S : Cardinality(P[x]) = k - 1
  <2>1. k - 1 \in 0 .. (N - 1)
    BY <1>1
  <2>2. k - 1 \in {rank[x] : x \in S}
    BY <1>5, <2>1
  <2> QED
    BY <2>2
<1> QED
  BY <1>1, <1>2, <1>4, <1>6

\* P gives each element of S those before it, r their number, s the order.
Orders(S, P, r, s) ==
    /\ \A x \in S : P[x] \subseteq S /\ x \notin P[x]
    /\ \A x, y \in S : x # y => x \in P[y] \/ y \in P[x]
    /\ \A x, y \in S : x \in P[y] => P[x] \subseteq P[y]
    /\ r = [x \in S |-> Cardinality(P[x])]
    /\ s = [k \in 1 .. Cardinality(S) |-> CHOOSE x \in S : r[x] = k - 1]

\* Sorted by rank, the elements of a set are enumerated.
LEMMA SortedByRank ==
    ASSUME NEW S, IsFiniteSet(S), NEW P, NEW r, NEW s, Orders(S, P, r, s)
    PROVE  /\ Enumerates(s, S) /\ Cardinality(S) \in Nat
           /\ \A k \in 1 .. Cardinality(S) : Cardinality(P[s[k]]) = k - 1
<1> DEFINE N == Cardinality(S)
<1>5. /\ N \in Nat
      /\ \A x \in S : Cardinality(P[x]) \in 0 .. (N - 1)
      /\ \A x, y \in S : Cardinality(P[x]) = Cardinality(P[y]) => x = y
      /\ \A k \in 1 .. N : \E x \in S : Cardinality(P[x]) = k - 1
  BY RanksAreExact DEF Orders
<1>6. s = [k \in 1 .. N |-> CHOOSE x \in S : r[x] = k - 1]
  BY DEF Orders
<1> HIDE DEF N
<1>7. ASSUME NEW k \in 1 .. N PROVE s[k] \in S /\ Cardinality(P[s[k]]) = k - 1
  <2>1. \A x \in S : r[x] = Cardinality(P[x])
    BY DEF Orders
  <2>2. PICK x \in S : Cardinality(P[x]) = k - 1
    BY <1>5
  <2>3. s[k] = CHOOSE y \in S : r[y] = k - 1
    BY <1>6
  <2>4. r[x] = k - 1
    BY <2>1, <2>2
  <2>5. s[k] \in S /\ r[s[k]] = k - 1
    BY <2>3, <2>4, Zenon
  <2> QED
    BY <2>1, <2>5
<1>8. ASSUME NEW k \in 1 .. N, NEW l \in 1 .. N, s[k] = s[l] PROVE k = l
  <2>1. Cardinality(P[s[k]]) = k - 1 /\ Cardinality(P[s[l]]) = l - 1
    BY <1>7
  <2>2. k - 1 = l - 1
    BY <1>8, <2>1, Zenon
  <2> QED
    BY <1>5, <2>2
<1>9. ASSUME NEW x \in S PROVE \E k \in 1 .. N : s[k] = x
  <2> DEFINE k == Cardinality(P[x]) + 1
  <2>1. k \in 1 .. N /\ k - 1 = Cardinality(P[x])
    BY <1>5
  <2>2. s[k] \in S /\ Cardinality(P[s[k]]) = k - 1
    BY <1>7, <2>1
  <2>3. s[k] = x
    BY <1>5, <2>1, <2>2
  <2> QED
    BY <2>1, <2>3
<1>10. s \in [1 .. N -> S]
  BY <1>6, <1>7
<1> QED
  BY <1>5, <1>7, <1>8, <1>9, <1>10 DEF N, Enumerates

LEMMA SortedNumbers ==
    ASSUME NEW S, IsFiniteSet(S), S \subseteq Int
    PROVE  /\ Enumerates(Sorted(S, <), S) /\ Cardinality(S) \in Nat
           /\ \A k \in 1 .. Cardinality(S) : Cardinality({y \in S : y < Sorted(S, <)[k]}) = k - 1
<1> DEFINE P == [x \in S |-> {y \in S : y < x}]
           s == Sorted(S, <)
           r == [x \in S |-> Cardinality({y \in S : y < x})]
<1>1. \A x \in S : P[x] \subseteq S /\ x \notin P[x]
  OBVIOUS
<1>2. \A x, y \in S : x # y => x \in P[y] \/ y \in P[x]
  OBVIOUS
<1>3. \A x, y \in S : x \in P[y] => P[x] \subseteq P[y]
  <2> SUFFICES ASSUME NEW x \in S, NEW y \in S, x \in P[y], NEW z \in P[x] PROVE z \in P[y]
    OBVIOUS
  <2>1. x < y /\ z \in S /\ z < x
    OBVIOUS
  <2>2. x \in Int /\ y \in Int /\ z \in Int
    BY <2>1
  <2>3. z < y
    BY <2>1, <2>2
  <2> QED
    BY <2>1, <2>3
<1>4. \A x \in S : P[x] = {y \in S : y < x}
  OBVIOUS
<1> HIDE DEF P
<1>5. s = [k \in 1 .. Cardinality(S) |-> CHOOSE x \in S : r[x] = k - 1]
  BY Zenon DEF Sorted
<1>8. r = [x \in S |-> Cardinality(P[x])]
  BY <1>4, Zenon
<1> HIDE DEF s, r
<1>6. /\ Enumerates(s, S) /\ Cardinality(S) \in Nat
      /\ \A k \in 1 .. Cardinality(S) : Cardinality(P[s[k]]) = k - 1
  <2>1. Orders(S, P, r, s)
    BY <1>1, <1>2, <1>3, <1>5, <1>8, Zenon DEF Orders
  <2> QED
    BY <2>1, SortedByRank
<1>7. \A k \in 1 .. Cardinality(S) : s[k] \in S
  BY <1>6 DEF Enumerates
<1> QED
  BY <1>4, <1>6, <1>7 DEF s

LEMMA LeastOf ==
    ASSUME NEW S \in SUBSET Nat, S # {}
    PROVE  Min(S) \in S /\ \A y \in S : Min(S) <= y
<1>1. \E x \in S : \A y \in S : x <= y
  BY LeastElement
<1> QED
  BY <1>1 DEF Min

\* The lexicographic order of two sets is decided by the least number they differ in.
LEMMA BeforeDecides ==
    ASSUME NEW a \in SUBSET Nat, NEW b \in SUBSET Nat
    PROVE  Before(a, b) <=> \E m \in a \ b : \A y \in Nat : y < m => (y \in a <=> y \in b)
<1> DEFINE D == (a \ b) \cup (b \ a)
<1>1. ASSUME Before(a, b) PROVE \E m \in a \ b : \A y \in Nat : y < m => (y \in a <=> y \in b)
  <2>1. a # b /\ Min(D) \in a
    BY <1>1 DEF Before
  <2>2. D \in SUBSET Nat /\ D # {}
    BY <2>1
  <2>3. Min(D) \in D /\ \A y \in D : Min(D) <= y
    BY <2>2, LeastOf
  <2>4. Min(D) \in a \ b
    BY <2>1, <2>3
  <2>5. ASSUME NEW y \in Nat, y < Min(D) PROVE y \in a <=> y \in b
    <3>1. Min(D) \in Nat
      BY <2>2, <2>3
    <3>2. y \notin D
      BY <2>3, <2>5, <3>1
    <3> QED
      BY <3>2
  <2> QED
    BY <2>4, <2>5
<1>2. ASSUME NEW m \in a \ b, \A y \in Nat : y < m => (y \in a <=> y \in b) PROVE Before(a, b)
  <2>1. a # b /\ D # {} /\ m \in D /\ D \in SUBSET Nat
    OBVIOUS
  <2>2. Min(D) \in D /\ \A y \in D : Min(D) <= y
    BY <2>1, LeastOf
  <2>3. Min(D) \in Nat /\ m \in Nat /\ Min(D) <= m
    BY <2>1, <2>2
  <2>4. ~(Min(D) < m)
    <3> SUFFICES ASSUME Min(D) < m PROVE FALSE
      OBVIOUS
    <3>1. Min(D) \in a <=> Min(D) \in b
      BY <1>2, <2>3
    <3> QED
      BY <2>2, <3>1
  <2>5. Min(D) = m
    BY <2>3, <2>4
  <2> QED
    BY <2>1, <2>5 DEF Before
<1> QED
  BY <1>1, <1>2

LEMMA BeforeOrders ==
    ASSUME NEW a \in SUBSET Nat, NEW b \in SUBSET Nat
    PROVE  /\ ~Before(a, a)
           /\ a # b => Before(a, b) \/ Before(b, a)
           /\ \A c \in SUBSET Nat : Before(a, b) /\ Before(b, c) => Before(a, c)
<1>1. ~Before(a, a)
  BY DEF Before
<1>2. ASSUME a # b PROVE Before(a, b) \/ Before(b, a)
  <2> DEFINE D == (a \ b) \cup (b \ a)
  <2>1. D \in SUBSET Nat /\ D # {}
    BY <1>2
  <2>2. Min(D) \in D
    BY <2>1, LeastOf
  <2>3. (b \ a) \cup (a \ b) = D
    OBVIOUS
  <2> QED
    BY <1>2, <2>2, <2>3 DEF Before
<1>3. ASSUME NEW c \in SUBSET Nat, Before(a, b), Before(b, c) PROVE Before(a, c)
  <2>1. PICK m \in a \ b : \A y \in Nat : y < m => (y \in a <=> y \in b)
    BY <1>3, BeforeDecides
  <2>2. PICK n \in b \ c : \A y \in Nat : y < n => (y \in b <=> y \in c)
    BY <1>3, BeforeDecides
  <2>3. m \in Nat /\ n \in Nat /\ m # n
    OBVIOUS
  <2>4. CASE m < n
    <3>1. m \in a \ c
      BY <2>1, <2>2, <2>3, <2>4
    <3>2. \A y \in Nat : y < m => (y \in a <=> y \in c)
      BY <2>1, <2>2, <2>3, <2>4
    <3> QED
      BY <3>1, <3>2, BeforeDecides
  <2>5. CASE n < m
    <3>1. n \in a \ c
      BY <2>1, <2>2, <2>3, <2>5
    <3>2. \A y \in Nat : y < n => (y \in a <=> y \in c)
      BY <2>1, <2>2, <2>3, <2>5
    <3> QED
      BY <3>1, <3>2, BeforeDecides
  <2> QED
    BY <2>3, <2>4, <2>5
<1> QED
  BY <1>1, <1>2, <1>3

LEMMA SortedSubsets ==
    ASSUME NEW S, IsFiniteSet(S), S \subseteq SUBSET Nat
    PROVE  Enumerates(Sorted(S, Before), S) /\ Cardinality(S) \in Nat
<1> DEFINE P == [x \in S |-> {y \in S : Before(y, x)}]
           s == Sorted(S, Before)
           r == [x \in S |-> Cardinality({y \in S : Before(y, x)})]
<1>1. \A x \in S : P[x] \subseteq S /\ x \notin P[x]
  BY BeforeOrders
<1>2. \A x, y \in S : x # y => x \in P[y] \/ y \in P[x]
  BY BeforeOrders
<1>3. \A x, y \in S : x \in P[y] => P[x] \subseteq P[y]
  <2> SUFFICES ASSUME NEW x \in S, NEW y \in S, x \in P[y], NEW z \in P[x] PROVE z \in P[y]
    OBVIOUS
  <2>1. Before(x, y) /\ z \in S /\ Before(z, x)
    OBVIOUS
  <2>2. Before(z, y)
    BY <2>1, BeforeOrders
  <2> QED
    BY <2>1, <2>2
<1>4. \A x \in S : P[x] = {y \in S : Before(y, x)}
  OBVIOUS
<1> HIDE DEF P
<1>5. s = [k \in 1 .. Cardinality(S) |-> CHOOSE x \in S : r[x] = k - 1]
  BY Zenon DEF Sorted
<1>8. r = [x \in S |-> Cardinality(P[x])]
  BY <1>4, Zenon
<1> HIDE DEF s, r
<1>6. Enumerates(s, S) /\ Cardinality(S) \in Nat
  <2>1. Orders(S, P, r, s)
    BY <1>1, <1>2, <1>3, <1>5, <1>8, Zenon DEF Orders
  <2> QED
    BY <2>1, SortedByRank
<1> QED
  BY <1>6 DEF s

LEMMA SortedPairs ==
    ASSUME NEW S, IsFiniteSet(S), S \subseteq Int \X Int
    PROVE  Enumerates(Sorted(S, Sooner), S) /\ Cardinality(S) \in Nat
<1> DEFINE P == [x \in S |-> {y \in S : Sooner(y, x)}]
           s == Sorted(S, Sooner)
           r == [x \in S |-> Cardinality({y \in S : Sooner(y, x)})]
<1>0. \A x \in S : x[1] \in Int /\ x[2] \in Int /\ x = <<x[1], x[2]>>
  OBVIOUS
<1>1. \A x \in S : P[x] \subseteq S /\ x \notin P[x]
  BY <1>0 DEF Sooner
<1>2. \A x, y \in S : x # y => x \in P[y] \/ y \in P[x]
  BY <1>0 DEF Sooner
<1>3. \A x, y \in S : x \in P[y] => P[x] \subseteq P[y]
  <2> SUFFICES ASSUME NEW x \in S, NEW y \in S, x \in P[y], NEW z \in P[x] PROVE z \in P[y]
    OBVIOUS
  <2>1. Sooner(x, y) /\ z \in S /\ Sooner(z, x)
    OBVIOUS
  <2>2. Sooner(z, y)
    BY <1>0, <2>1 DEF Sooner
  <2> QED
    BY <2>1, <2>2
<1>4. \A x \in S : P[x] = {y \in S : Sooner(y, x)}
  OBVIOUS
<1> HIDE DEF P
<1>5. s = [k \in 1 .. Cardinality(S) |-> CHOOSE x \in S : r[x] = k - 1]
  BY Zenon DEF Sorted
<1>8. r = [x \in S |-> Cardinality(P[x])]
  BY <1>4, Zenon
<1> HIDE DEF s, r
<1>6. Enumerates(s, S) /\ Cardinality(S) \in Nat
  <2>1. Orders(S, P, r, s)
    BY <1>1, <1>2, <1>3, <1>5, <1>8, Zenon DEF Orders
  <2> QED
    BY <2>1, SortedByRank
<1> QED
  BY <1>6 DEF s

-----------------------------------------------------------------------------
(* The graph of a shape.                                                    *)

LEMMA DomainsAre ==
    ASSUME NEW shape, IsShape(shape)
    PROVE  /\ Len(shape.counts) \in Nat \ {0} /\ IsFiniteSet(Domains(shape))
           /\ Domains(shape) \subseteq Nat /\ 0 \in Domains(shape)
           /\ \A d \in Domains(shape) : d + 1 \in DOMAIN shape.counts /\ shape.counts[d + 1] \in Nat
           /\ \A d \in Domains(shape) : d + 1 \in 1 .. Len(shape.counts)
           /\ Rows(shape) \in Nat
<1>1. Len(shape.counts) \in Nat \ {0} /\ shape.counts \in Seq(Nat) /\ DOMAIN shape.counts = 1 .. Len(shape.counts)
  BY DEF IsShape
<1>2. IsFiniteSet(Domains(shape))
  BY <1>1, FS_Interval DEF Domains
<1>3. \A d \in Domains(shape) : d \in Nat /\ d + 1 \in DOMAIN shape.counts /\ d + 1 \in 1 .. Len(shape.counts)
  BY <1>1 DEF Domains
<1>4. \A d \in Domains(shape) : shape.counts[d + 1] \in Nat
  BY <1>1, <1>3
<1>5. 0 \in Domains(shape)
  BY <1>1 DEF Domains
<1>6. Rows(shape) \in Nat
  BY <1>1, TotalIsNat DEF Rows
<1> QED
  BY <1>1, <1>2, <1>3, <1>4, <1>5, <1>6

LEMMA RowsInAre ==
    ASSUME NEW shape, IsShape(shape), NEW doms \in SUBSET Domains(shape)
    PROVE  /\ IsFiniteSet(doms) /\ Cardinality(doms) \in Nat
           /\ [d \in doms |-> shape.counts[d + 1]] \in [doms -> Nat]
           /\ RowsIn(shape, doms) \in Nat
<1>1. IsFiniteSet(doms) /\ Cardinality(doms) \in Nat
  BY DomainsAre, FS_Subset, FS_CardinalityType
<1>2. [d \in doms |-> shape.counts[d + 1]] \in [doms -> Nat]
  BY DomainsAre
<1> QED
  BY <1>1, <1>2, NumbersAreNat DEF RowsIn

LEMMA TagsAre ==
    ASSUME NEW shape, IsShape(shape), NEW doms \in SUBSET Domains(shape)
    PROVE  IsFiniteSet(TagsOf(shape, doms)) /\ Cardinality(TagsOf(shape, doms)) \in Nat
<1> DEFINE part == [d \in doms |-> shape.tags[d + 1]]
<1>1. IsFiniteSet(doms) /\ \A d \in doms : IsFiniteSet(part[d])
  BY RowsInAre, DomainsAre DEF IsShape
<1>2. TagsOf(shape, doms) = UNION {part[d] : d \in doms}
  BY DEF TagsOf
<1>3. IsFiniteSet({part[d] : d \in doms})
  <2>1. DOMAIN part = doms
    OBVIOUS
  <2> HIDE DEF part
  <2> QED
    BY <1>1, <2>1, ImageIsBounded
<1>4. IsFiniteSet(UNION {part[d] : d \in doms})
  BY <1>1, <1>3, FS_UNION
<1> QED
  BY <1>2, <1>4, FS_CardinalityType

\* The sets that are left out, in wire order.
LEMMA OmittedAre ==
    ASSUME NEW shape, IsShape(shape)
    PROVE  /\ Omitted(shape) \in Seq(SUBSET Domains(shape)) /\ Len(Omitted(shape)) \in Nat \ {0}
           /\ DOMAIN Omitted(shape) = 1 .. Len(Omitted(shape))
           /\ \A k \in DOMAIN Omitted(shape) : Omitted(shape)[k] \in SUBSET Domains(shape)
<1> DEFINE D == Domains(shape)
<1>0. IsFiniteSet(D) /\ D \subseteq Nat /\ 0 \in D
  BY DomainsAre
<1> HIDE DEF D
<1>1. ASSUME NEW k \in Nat
      PROVE  /\ Sorted(kSubset(k, D), Before) \in Seq(SUBSET D)
             /\ Len(Sorted(kSubset(k, D), Before)) = Cardinality(kSubset(k, D))
             /\ IsFiniteSet(kSubset(k, D)) /\ Cardinality(kSubset(k, D)) \in Nat
  <2> DEFINE S == kSubset(k, D)
             s == Sorted(S, Before)
  <2>1. S \in SUBSET (SUBSET D)
    BY DEF kSubset
  <2>2. IsFiniteSet(SUBSET D)
    BY <1>0, FS_SUBSET
  <2> HIDE DEF S
  <2>3. IsFiniteSet(S)
    BY <2>1, <2>2, FS_Subset
  <2>4. Enumerates(s, S) /\ Cardinality(S) \in Nat
    BY <1>0, <2>1, <2>3, SortedSubsets
  <2> HIDE DEF s
  <2>7. s \in [1 .. Cardinality(S) -> SUBSET D]
    BY <2>1, <2>4 DEF Enumerates
  <2> QED
    BY <2>3, <2>4, <2>7 DEF s, S
<1>2. Cardinality(kSubset(1, D)) > 0
  <2>1. {0} \in kSubset(1, D)
    BY <1>0, FS_Singleton DEF kSubset
  <2>2. Cardinality(kSubset(1, D)) # 0
    BY <1>1, <2>1, FS_EmptySet
  <2> QED
    BY <1>1, <2>2
<1> DEFINE a == Sorted(kSubset(3, D), Before)
           b == Sorted(kSubset(2, D), Before)
           c == Sorted(kSubset(1, D), Before)
<1>3. /\ a \in Seq(SUBSET D) /\ b \in Seq(SUBSET D) /\ c \in Seq(SUBSET D)
      /\ Len(c) > 0
  BY <1>1, <1>2
<1>4. Omitted(shape) = a \o b \o c
  BY DEF Omitted, OmittedOf, D
<1> HIDE DEF a, b, c
<1>5. Omitted(shape) \in Seq(SUBSET D) /\ Len(Omitted(shape)) = Len(a) + Len(b) + Len(c)
  BY <1>3, <1>4
<1>6. Len(a) \in Nat /\ Len(b) \in Nat /\ Len(c) \in Nat
  BY <1>3
<1>7. Len(Omitted(shape)) \in Nat \ {0}
  BY <1>3, <1>5, <1>6
<1> HIDE DEF Omitted
<1> QED
  BY <1>5, <1>7 DEF D

Kept(shape, k) == Domains(shape) \ Omitted(shape)[k]

LEMMA SubsetsAre ==
    ASSUME NEW shape, IsShape(shape), shape.features >= Surface
    PROVE  /\ Len(Subsets(shape)) = Len(Omitted(shape))
           /\ DOMAIN Subsets(shape) = 1 .. Len(Omitted(shape))
           /\ \A k \in 1 .. Len(Omitted(shape)) :
                /\ Subsets(shape)[k] = Subset(shape, Omitted(shape)[k])
                /\ Omitted(shape)[k] \subseteq Domains(shape)
                /\ Subsets(shape)[k].domains = Kept(shape, k)
                /\ Subsets(shape)[k].domains \subseteq Domains(shape)
                /\ Domains(shape) \ Subsets(shape)[k].domains = Omitted(shape)[k]
                /\ Subsets(shape)[k].tags = TagsOf(shape, Kept(shape, k))
                /\ Subsets(shape)[k].rows = RowsIn(shape, Kept(shape, k))
                /\ Subsets(shape)[k].rows \in Nat
                /\ Subsets(shape)[k].width
                      = shape.features - TagCount + Cardinality(TagsOf(shape, Kept(shape, k)))
                /\ Subsets(shape)[k].width \in Nat
<1>1. /\ DOMAIN Omitted(shape) = 1 .. Len(Omitted(shape)) /\ Len(Omitted(shape)) \in Nat
      /\ \A k \in 1 .. Len(Omitted(shape)) : Omitted(shape)[k] \in SUBSET Domains(shape)
  BY OmittedAre
<1> DEFINE K == Len(Omitted(shape))
<1>2. Subsets(shape) = [k \in 1 .. K |-> Subset(shape, Omitted(shape)[k])]
  BY <1>1 DEF Subsets
<1> HIDE DEF K
<1>3. Len(Subsets(shape)) = K /\ DOMAIN Subsets(shape) = 1 .. K
  <2>1. K \in Nat
    BY <1>1 DEF K
  <2> HIDE DEF Subsets
  <2> QED
    BY <1>2, <2>1
<1>4. ASSUME NEW k \in 1 .. K
      PROVE  /\ Subsets(shape)[k] = Subset(shape, Omitted(shape)[k])
             /\ Omitted(shape)[k] \subseteq Domains(shape)
             /\ Subsets(shape)[k].domains = Kept(shape, k)
             /\ Subsets(shape)[k].domains \subseteq Domains(shape)
             /\ Domains(shape) \ Subsets(shape)[k].domains = Omitted(shape)[k]
             /\ Subsets(shape)[k].tags = TagsOf(shape, Kept(shape, k))
             /\ Subsets(shape)[k].rows = RowsIn(shape, Kept(shape, k))
             /\ Subsets(shape)[k].rows \in Nat
             /\ Subsets(shape)[k].width
                   = shape.features - TagCount + Cardinality(TagsOf(shape, Kept(shape, k)))
             /\ Subsets(shape)[k].width \in Nat
  <2>1. Subsets(shape)[k] = Subset(shape, Omitted(shape)[k])
    BY <1>2
  <2>2. Omitted(shape)[k] \subseteq Domains(shape)
    BY <1>1 DEF K
  <2> DEFINE s == Subsets(shape)[k]
             kept == Kept(shape, k)
  <2>3. /\ s.domains = kept /\ s.tags = TagsOf(shape, kept) /\ s.rows = RowsIn(shape, kept)
        /\ s.width = WidthOf(shape, TagsOf(shape, kept))
    BY <2>1 DEF Subset, Kept
  <2>4. kept \in SUBSET Domains(shape) /\ Domains(shape) \ kept = Omitted(shape)[k]
    BY <2>2 DEF Kept
  <2> HIDE DEF s, kept
  <2>5. s.rows \in Nat
    BY <2>3, <2>4, RowsInAre
  <2>6. Cardinality(TagsOf(shape, kept)) \in Nat
    BY <2>4, TagsAre
  <2>7. shape.features \in Nat /\ shape.features >= 12
    BY DEF IsShape, Surface
  <2>8. s.width = shape.features - TagCount + Cardinality(TagsOf(shape, kept)) /\ s.width \in Nat
    BY <2>3, <2>6, <2>7 DEF WidthOf, TagOffset, TagCount, Surface
  <2> QED
    BY <2>1, <2>2, <2>3, <2>4, <2>5, <2>8 DEF s, kept
<1> QED
  BY <1>3, <1>4 DEF K

Reached(shape) == Destinations(Subsets(shape), shape)
ReachedInOrder(shape) == Sorted(Reached(shape), Sooner)

LEMMA BlocksAre ==
    ASSUME NEW shape, IsShape(shape), shape.features >= Surface
    PROVE  /\ Reached(shape) \in SUBSET ((1 .. Len(Omitted(shape))) \X Domains(shape))
           /\ IsFiniteSet(Reached(shape)) /\ Cardinality(Reached(shape)) \in Nat
           /\ Enumerates(ReachedInOrder(shape), Reached(shape))
           /\ DOMAIN Blocks(Subsets(shape), shape) = 1 .. Cardinality(Reached(shape))
           /\ Len(Blocks(Subsets(shape), shape)) = Cardinality(Reached(shape))
           /\ \A b \in 1 .. Cardinality(Reached(shape)) :
                /\ ReachedInOrder(shape)[b] \in Reached(shape)
                /\ Blocks(Subsets(shape), shape)[b]
                      = [subset |-> ReachedInOrder(shape)[b][1], domain |-> ReachedInOrder(shape)[b][2],
                         rows |-> shape.counts[ReachedInOrder(shape)[b][2] + 1]]
           /\ \A k \in 1 .. Len(Omitted(shape)) :
                RowOf(Reached(shape), Domains(shape), k) = Omitted(shape)[k]
<1> DEFINE K == Len(Omitted(shape))
           Q == Reached(shape)
           r == ReachedInOrder(shape)
           B == Blocks(Subsets(shape), shape)
<1>1. K \in Nat /\ DOMAIN Subsets(shape) = 1 .. K
  BY OmittedAre, SubsetsAre
<1>2. Q = {p \in (1 .. K) \X Domains(shape) : p[2] \notin Subsets(shape)[p[1]].domains}
  BY <1>1 DEF Reached, Destinations
<1>3. IsFiniteSet((1 .. K) \X Domains(shape))
  <2>1. IsFiniteSet(1 .. K)
    BY <1>1, FS_Interval
  <2>2. IsFiniteSet(Domains(shape))
    BY DomainsAre
  <2> DEFINE T == Domains(shape)
             I == 1 .. K
  <2> HIDE DEF T, I
  <2>3. IsFiniteSet(I \X T)
    BY <2>1, <2>2, FS_Product DEF I, T
  <2> QED
    BY <2>3 DEF I, T
<1> HIDE DEF K, Q
<1>4. Q \in SUBSET ((1 .. K) \X Domains(shape))
  BY <1>2
<1>5. IsFiniteSet(Q)
  BY <1>3, <1>4, FS_Subset
<1>6. Q \subseteq Int \X Int
  BY <1>1, <1>4, DomainsAre
<1>7. Enumerates(r, Q) /\ Cardinality(Q) \in Nat
  BY <1>5, <1>6, SortedPairs DEF ReachedInOrder, Q
<1>8. r \in [1 .. Cardinality(Q) -> Q]
  BY <1>7 DEF Enumerates
<1>9. B = [b \in 1 .. Cardinality(Q) |->
              [subset |-> r[b][1], domain |-> r[b][2], rows |-> shape.counts[r[b][2] + 1]]]
  <2>1. B = [b \in DOMAIN r |->
              [subset |-> r[b][1], domain |-> r[b][2], rows |-> shape.counts[r[b][2] + 1]]]
    BY DEF Blocks, ReachedInOrder, Reached
  <2> HIDE DEF r, B
  <2>2. DOMAIN r = 1 .. Cardinality(Q)
    BY <1>8
  <2> QED
    BY <2>1, <2>2
<1>10. ASSUME NEW k \in 1 .. K PROVE RowOf(Q, Domains(shape), k) = Omitted(shape)[k]
  <2>1. /\ Omitted(shape)[k] \subseteq Domains(shape)
        /\ Domains(shape) \ Subsets(shape)[k].domains = Omitted(shape)[k]
    BY SubsetsAre DEF K
  <2>2. \A d \in Domains(shape) : <<k, d>> \in Q <=> d \notin Subsets(shape)[k].domains
    BY <1>2
  <2> QED
    BY <2>1, <2>2 DEF RowOf
<1> HIDE DEF r, B
<1>11. DOMAIN B = 1 .. Cardinality(Q) /\ Len(B) = Cardinality(Q)
  BY <1>7, <1>9
<1>12. \A b \in 1 .. Cardinality(Q) :
          /\ r[b] \in Q
          /\ B[b] = [subset |-> r[b][1], domain |-> r[b][2], rows |-> shape.counts[r[b][2] + 1]]
  BY <1>8, <1>9
<1> QED
  BY <1>4, <1>5, <1>7, <1>10, <1>11, <1>12 DEF K, Q, r, B

Listing(S, f, s, w) ==
    /\ IsFiniteSet(S) /\ f \in [S -> Nat] /\ Enumerates(s, S)
    /\ w = [k \in 1 .. Cardinality(S) |-> f[s[k]]]

LEMMA TotalOfListing ==
    ASSUME NEW S, NEW f, NEW s, NEW w, Listing(S, f, s, w)
    PROVE  w \in Seq(Nat) /\ Total(w) = SumOf(f)
<1>1. IsFiniteSet(S) /\ f \in [S -> Nat] /\ Enumerates(s, S)
  BY DEF Listing
<1>2. w = [k \in 1 .. Cardinality(S) |-> f[s[k]]]
  BY DEF Listing
<1> QED
  BY <1>1, <1>2, TotalOfListed

TellsApart(shape, g, w, v) ==
    /\ g \in [Reached(shape) -> Nat]
    /\ w = [b \in 1 .. Cardinality(Reached(shape)) |-> g[ReachedInOrder(shape)[b]]]
    /\ v = [k \in 1 .. Len(Omitted(shape)) |-> SumOf([d \in Omitted(shape)[k] |-> g[<<k, d>>]])]

\* A number for each destination, totalled over the blocks or over the sets.
LEMMA BlockTotals ==
    ASSUME NEW shape, IsShape(shape), shape.features >= Surface, NEW g, NEW w, NEW v,
           TellsApart(shape, g, w, v)
    PROVE  w \in Seq(Nat) /\ v \in Seq(Nat) /\ Total(w) = Total(v)
<1> DEFINE K == Len(Omitted(shape))
           Q == Reached(shape)
           T == Domains(shape)
           S == 1 .. K
           r == ReachedInOrder(shape)
<1>1. K \in Nat /\ IsFiniteSet(S) /\ IsFiniteSet(T)
  <2>1. K \in Nat /\ IsFiniteSet(T)
    BY OmittedAre, DomainsAre
  <2> HIDE DEF K
  <2> QED
    BY <2>1, FS_Interval
<1>2. Q \in SUBSET (S \X T) /\ IsFiniteSet(Q) /\ Enumerates(r, Q)
  BY BlocksAre
<1>3. \A k \in S : RowOf(Q, T, k) = Omitted(shape)[k]
  BY BlocksAre
<1>4. v = [k \in S |-> SumOf([d \in Omitted(shape)[k] |-> g[<<k, d>>]])]
  BY DEF TellsApart
<1>5. w = [b \in 1 .. Cardinality(Q) |-> g[r[b]]] /\ g \in [Q -> Nat]
  BY DEF TellsApart
<1> HIDE DEF K, Q, T, r
<1>6. w \in Seq(Nat) /\ Total(w) = SumOf(g)
  <2>1. IsFiniteSet(Q) /\ g \in [Q -> Nat] /\ Enumerates(r, Q)
    BY <1>2, <1>5
  <2>2. w = [b \in 1 .. Cardinality(Q) |-> g[r[b]]]
    BY <1>5
  <2> QED
    BY <2>1, <2>2, TotalOfListing DEF Listing
<1>7. v = [k \in S |-> RowSumOf(g, Q, T, k)]
  BY <1>3, <1>4 DEF RowSumOf
<1>8. /\ \A k \in S : RowSumOf(g, Q, T, k) \in Nat
      /\ SumOf(g) = SumOf([k \in S |-> RowSumOf(g, Q, T, k)])
  <2>1. IsFiniteSet(S) /\ IsFiniteSet(T)
    BY <1>1
  <2>2. Q \in SUBSET (S \X T) /\ IsFiniteSet(Q) /\ g \in [Q -> Nat]
    BY <1>2, <1>5
  <2> HIDE DEF S
  <2> QED
    BY <2>1, <2>2, SumOfRows
<1>9. v \in [1 .. K -> Nat]
  BY <1>7, <1>8
<1>10. v \in Seq(Nat) /\ Len(v) = K
  BY <1>1, <1>9, TupleOfNumbers
<1>11. Total(v) = SumOf(v)
  BY <1>9, <1>10, TotalIsSum
<1> QED
  BY <1>6, <1>7, <1>8, <1>10, <1>11

-----------------------------------------------------------------------------
(* The caller's estimate as totals of sequences.                            *)

\* The numbers of the sets that are left out, in wire order.
Ranks(shape) == 1 .. Len(Omitted(shape))
WidthOn(shape, k) == Subsets(shape)[k].width
LeftRows(shape) == [k \in Ranks(shape) |-> RowsIn(shape, Omitted(shape)[k])]
Reaches(shape)  == [k \in Ranks(shape) |-> Cardinality(Omitted(shape)[k])]
Widths(shape)   == [k \in Ranks(shape) |-> shape.targets * WidthOn(shape, k)]
Records(shape)  == [k \in Ranks(shape) |-> 6 + shape.targets + shape.targets * WidthOn(shape, k)]
Solves(shape)   == [k \in Ranks(shape) |->
    WidthOn(shape, k) * WidthOn(shape, k) * WidthOn(shape, k)
    + 2 * shape.targets * WidthOn(shape, k) * WidthOn(shape, k) + shape.targets * WidthOn(shape, k)]
Scorings(shape) == [k \in Ranks(shape) |->
    RowsIn(shape, Omitted(shape)[k]) * shape.targets * WidthOn(shape, k)]
Widest(shape) == Max({WidthOn(shape, k) : k \in Ranks(shape)})

LEMMA SequencesAre ==
    ASSUME NEW shape, IsShape(shape), shape.features >= Surface
    PROVE  /\ Ranks(shape) = 1 .. Len(Omitted(shape)) /\ Len(Omitted(shape)) \in Nat \ {0}
           /\ shape.targets \in Nat
           /\ \A k \in Ranks(shape) :
                /\ WidthOn(shape, k) \in Nat /\ RowsIn(shape, Omitted(shape)[k]) \in Nat
                /\ Cardinality(Omitted(shape)[k]) \in Nat
           /\ \A s \in {LeftRows(shape), Reaches(shape), Widths(shape), Records(shape),
                        Solves(shape), Scorings(shape)} :
                s \in [Ranks(shape) -> Nat] /\ s \in Seq(Nat) /\ Len(s) = Len(Omitted(shape))
<1> DEFINE K == Len(Omitted(shape))
           M == shape.targets
<1>1. K \in Nat \ {0} /\ M \in Nat /\ Ranks(shape) = 1 .. K
  BY OmittedAre DEF IsShape, Ranks
<1>2. ASSUME NEW k \in Ranks(shape)
      PROVE  /\ WidthOn(shape, k) \in Nat /\ RowsIn(shape, Omitted(shape)[k]) \in Nat
             /\ Cardinality(Omitted(shape)[k]) \in Nat
  <2>1. Subsets(shape)[k].width \in Nat /\ Omitted(shape)[k] \in SUBSET Domains(shape)
    BY <1>1, SubsetsAre
  <2> QED
    BY <2>1, RowsInAre DEF WidthOn
<1> HIDE DEF K, M
<1>3. LeftRows(shape) \in [Ranks(shape) -> Nat] /\ Reaches(shape) \in [Ranks(shape) -> Nat]
  BY <1>2 DEF LeftRows, Reaches
<1>4. Widths(shape) \in [Ranks(shape) -> Nat] /\ Records(shape) \in [Ranks(shape) -> Nat]
  <2>1. \A k \in Ranks(shape) : M * WidthOn(shape, k) \in Nat /\ 6 + M + M * WidthOn(shape, k) \in Nat
    BY <1>1, <1>2
  <2> QED
    BY <2>1 DEF Widths, Records, M
<1>5. Solves(shape) \in [Ranks(shape) -> Nat]
  <2>1. \A k \in Ranks(shape) :
           WidthOn(shape, k) * WidthOn(shape, k) * WidthOn(shape, k)
           + 2 * M * WidthOn(shape, k) * WidthOn(shape, k) + M * WidthOn(shape, k) \in Nat
    <3>1. ASSUME NEW w \in Nat PROVE w * w * w + 2 * M * w * w + M * w \in Nat
      BY <1>1
    <3> QED
      BY <1>2, <3>1
  <2> QED
    BY <2>1 DEF Solves, M
<1>6. Scorings(shape) \in [Ranks(shape) -> Nat]
  <2>1. \A k \in Ranks(shape) : RowsIn(shape, Omitted(shape)[k]) * M * WidthOn(shape, k) \in Nat
    BY <1>1, <1>2
  <2> QED
    BY <2>1 DEF Scorings, M
<1>7. ASSUME NEW s \in [Ranks(shape) -> Nat] PROVE s \in Seq(Nat) /\ Len(s) = K
  <2>1. K \in Nat /\ s \in [1 .. K -> Nat]
    BY <1>1
  <2> QED
    BY <2>1, TupleOfNumbers
<1> QED
  BY <1>1, <1>2, <1>3, <1>4, <1>5, <1>6, <1>7 DEF K, M

\* The estimate, in those numbers.
LEMMA EstimateIs ==
    ASSUME NEW shape, IsShape(shape), shape.features >= Surface
    PROVE  LET F == shape.features
               M == shape.targets
               n == Rows(shape)
               D == Len(shape.counts)
               K == Len(Omitted(shape))
               packed == (F * (F + 1)) \div 2
           IN Estimate(shape) =
                [memberships |-> Total(LeftRows(shape)),
                 resultBytes |-> Header.result
                    + Total([k \in Ranks(shape) |->
                               Header.coefficient + 8 * Records(shape)[k]
                               + Header.score * Reaches(shape)[k] + 8 * LeftRows(shape)[k] * M]),
                 statistics |-> 3 * n * (F + M) + (n * F * (F + 1)) \div 2 + n * F * M,
                 solve |-> Total(Solves(shape)),
                 score |-> Total(Scorings(shape)),
                 heap |-> 8 * (n * M + D * (F + M + packed + F * M) + K * (6 + M)
                               + Total(Widths(shape)) + Total(LeftRows(shape)) * M
                               + 3 * F + 2 * M + packed + F * M
                               + 2 * Widest(shape) * Widest(shape) + M * Widest(shape)) + n + Slack,
                 scanned |-> FileBytes(shape) + shape.keyBytes + n + ((8 - (DomainEnd(shape) % 8)) % 8)
                             + 8 * n * M + 2 * (8 * n * F),
                 cells |-> Total([k \in Ranks(shape) |-> Records(shape)[k] + LeftRows(shape)[k] * M])]
<1> DEFINE O == Omitted(shape)
           F == shape.features
           M == shape.targets
           W(o) == F - TagCount + Cardinality(TagsOf(shape, Domains(shape) \ o))
           P == Ranks(shape)
<1>1. /\ P = DOMAIN O
      /\ \A k \in P : W(O[k]) = WidthOn(shape, k)
  <2>1. DOMAIN O = P
    BY OmittedAre DEF Ranks
  <2>2. \A k \in P : W(O[k]) = WidthOn(shape, k)
    BY SubsetsAre DEF Kept, WidthOn, Ranks
  <2> QED
    BY <2>1, <2>2
<1> DEFINE V == [k \in P |-> WidthOn(shape, k)]
<1> HIDE DEF O, P, F, M
<1>2. LeftRows(shape) = [k \in DOMAIN O |-> RowsIn(shape, O[k])]
  BY <1>1 DEF LeftRows, O, P
<1>3. Solves(shape) = [k \in DOMAIN O |-> W(O[k]) * W(O[k]) * W(O[k]) + 2 * M * W(O[k]) * W(O[k]) + M * W(O[k])]
  <2> HIDE DEF W
  <2> QED
    BY <1>1 DEF Solves, M, P
<1>4. Scorings(shape) = [k \in DOMAIN O |-> RowsIn(shape, O[k]) * M * W(O[k])]
  <2> HIDE DEF W
  <2> QED
    BY <1>1 DEF Scorings, M, P, O
<1>5. Widths(shape) = [k \in DOMAIN O |-> M * W(O[k])]
  <2> HIDE DEF W
  <2> QED
    BY <1>1 DEF Widths, M, P
<1>6. Widest(shape) = Max({W(O[k]) : k \in DOMAIN O})
  <2> HIDE DEF W
  <2>1. {W(O[k]) : k \in DOMAIN O} = {WidthOn(shape, k) : k \in P}
    BY <1>1
  <2> QED
    BY <2>1 DEF Widest, P
<1>7. \A k \in P : /\ Records(shape)[k] = 6 + M + M * W(O[k])
                   /\ LeftRows(shape)[k] = RowsIn(shape, O[k])
                   /\ Reaches(shape)[k] = Cardinality(O[k])
  <2> HIDE DEF W
  <2> QED
    BY <1>1 DEF Records, LeftRows, Reaches, P, O, M
<1>8. [k \in P |-> Header.coefficient + 8 * Records(shape)[k]
                   + Header.score * Reaches(shape)[k] + 8 * LeftRows(shape)[k] * M]
      = [k \in DOMAIN O |-> Header.coefficient + 8 * (6 + M + M * W(O[k]))
                   + Header.score * Cardinality(O[k]) + 8 * RowsIn(shape, O[k]) * M]
  <2> HIDE DEF W
  <2> QED
    BY <1>1, <1>7
<1>9. [k \in P |-> Records(shape)[k] + LeftRows(shape)[k] * M]
      = [k \in DOMAIN O |-> 6 + M + M * W(O[k]) + RowsIn(shape, O[k]) * M]
  <2> HIDE DEF W
  <2> QED
    BY <1>1, <1>7
<1> DEFINE E1 == [k \in DOMAIN O |-> RowsIn(shape, O[k])]
<1>10. Estimate(shape) =
        LET n == Rows(shape)
            D == Len(shape.counts)
            packed == (F * (F + 1)) \div 2
            widest == Max({W(O[k]) : k \in DOMAIN O})
        IN [memberships |-> Total([k \in DOMAIN O |-> RowsIn(shape, O[k])]),
            resultBytes |-> Header.result + Total([k \in DOMAIN O |-> Header.coefficient + 8 * (6 + M + M * W(O[k]))
                   + Header.score * Cardinality(O[k]) + 8 * RowsIn(shape, O[k]) * M]),
            statistics |-> 3 * n * (F + M) + (n * F * (F + 1)) \div 2 + n * F * M,
            solve |-> Total([k \in DOMAIN O |-> W(O[k]) * W(O[k]) * W(O[k]) + 2 * M * W(O[k]) * W(O[k]) + M * W(O[k])]),
            score |-> Total([k \in DOMAIN O |-> RowsIn(shape, O[k]) * M * W(O[k])]),
            heap |-> 8 * (n * M + D * (F + M + packed + F * M) + Len(O) * (6 + M)
                      + Total([k \in DOMAIN O |-> M * W(O[k])]) + Total([k \in DOMAIN O |-> RowsIn(shape, O[k])]) * M
                      + 3 * F + 2 * M + packed + F * M + 2 * widest * widest + M * widest)
                 + n + Slack,
            scanned |-> FileBytes(shape) + shape.keyBytes + n + ((8 - (DomainEnd(shape) % 8)) % 8)
                    + 8 * n * M + 2 * (8 * n * F),
            cells |-> Total([k \in DOMAIN O |-> 6 + M + M * W(O[k]) + RowsIn(shape, O[k]) * M])]
  BY Zenon DEF Estimate, Over, O, F, M
<1> HIDE DEF W
<1> QED
  BY <1>2, <1>3, <1>4, <1>5, <1>6, <1>8, <1>9, <1>10, Zenon DEF O, F, M, P

-----------------------------------------------------------------------------
(* The child's plan as totals, over blocks and over omitted sets.           *)

\* What the blocks number: their count, their rows and the work of scoring.
BlockRows(shape)  == [b \in DOMAIN Blocks(Subsets(shape), shape) |-> Blocks(Subsets(shape), shape)[b].rows]
BlockCells(shape) == [b \in DOMAIN Blocks(Subsets(shape), shape) |->
    shape.targets * Blocks(Subsets(shape), shape)[b].rows]
BlockWork(shape)  == [b \in DOMAIN Blocks(Subsets(shape), shape) |->
    (shape.targets * Blocks(Subsets(shape), shape)[b].rows)
        * Subsets(shape)[Blocks(Subsets(shape), shape)[b].subset].width]

LEMMA BlockFields ==
    ASSUME NEW shape, IsShape(shape), shape.features >= Surface
    PROVE  \A b \in DOMAIN Blocks(Subsets(shape), shape) :
              LET reached == ReachedInOrder(shape)[b]
                  block == Blocks(Subsets(shape), shape)[b]
              IN /\ reached \in Reached(shape)
                 /\ block.subset = reached[1] /\ block.domain = reached[2]
                 /\ block.rows = shape.counts[reached[2] + 1]
<1> DEFINE r == ReachedInOrder(shape)
           B == Blocks(Subsets(shape), shape)
<1>1. SUFFICES ASSUME NEW b \in DOMAIN B
               PROVE  /\ r[b] \in Reached(shape)
                      /\ B[b].subset = r[b][1] /\ B[b].domain = r[b][2]
                      /\ B[b].rows = shape.counts[r[b][2] + 1]
  OBVIOUS
<1>2. r[b] \in Reached(shape)
  BY BlocksAre
<1>3. B[b] = [subset |-> r[b][1], domain |-> r[b][2], rows |-> shape.counts[r[b][2] + 1]]
  BY BlocksAre
<1> HIDE DEF r, B
<1> QED
  BY <1>2, <1>3

\* A pair is reached if the set leaves out the domain.
LEMMA ReachedAre ==
    ASSUME NEW shape, IsShape(shape), shape.features >= Surface
    PROVE  /\ \A q \in Reached(shape) : /\ q[1] \in Ranks(shape) /\ q[2] \in Omitted(shape)[q[1]]
                                        /\ q[2] \in Domains(shape) /\ shape.counts[q[2] + 1] \in Nat
                                        /\ WidthOn(shape, q[1]) \in Nat
           /\ \A k \in Ranks(shape) : \A d \in Omitted(shape)[k] :
                 <<k, d>> \in Reached(shape) /\ d \in Domains(shape)
<1>1. Reached(shape) \in SUBSET (Ranks(shape) \X Domains(shape))
  BY BlocksAre DEF Ranks
<1>2. \A k \in Ranks(shape) : RowOf(Reached(shape), Domains(shape), k) = Omitted(shape)[k]
  BY BlocksAre DEF Ranks
<1>3. ASSUME NEW q \in Reached(shape)
      PROVE  /\ q[1] \in Ranks(shape) /\ q[2] \in Omitted(shape)[q[1]]
             /\ q[2] \in Domains(shape) /\ shape.counts[q[2] + 1] \in Nat
             /\ WidthOn(shape, q[1]) \in Nat
  <2>1. q[1] \in Ranks(shape) /\ q[2] \in Domains(shape) /\ <<q[1], q[2]>> = q
    BY <1>1
  <2>2. q[2] \in RowOf(Reached(shape), Domains(shape), q[1])
    BY <2>1 DEF RowOf
  <2> QED
    BY <1>2, <2>1, <2>2, DomainsAre, SequencesAre
<1>4. ASSUME NEW k \in Ranks(shape), NEW d \in Omitted(shape)[k]
      PROVE  <<k, d>> \in Reached(shape) /\ d \in Domains(shape)
  BY <1>2 DEF RowOf
<1> QED
  BY <1>3, <1>4

LEMMA BlockRowsAre ==
    ASSUME NEW shape, IsShape(shape), shape.features >= Surface
    PROVE  /\ BlockRows(shape) \in Seq(Nat)
           /\ Len(BlockRows(shape)) = Len(Blocks(Subsets(shape), shape))
           /\ Total(BlockRows(shape)) = Total(LeftRows(shape))
<1> DEFINE Q == Reached(shape)
           r == ReachedInOrder(shape)
           B == Blocks(Subsets(shape), shape)
           g == [q \in Q |-> shape.counts[q[2] + 1]]
           w == BlockRows(shape)
           v == LeftRows(shape)
<1>1. /\ DOMAIN B = 1 .. Cardinality(Q) /\ Len(B) = Cardinality(Q) /\ Cardinality(Q) \in Nat
      /\ \A b \in 1 .. Cardinality(Q) : r[b] \in Q /\ B[b].rows = shape.counts[r[b][2] + 1]
  BY BlocksAre, BlockFields
<1>2. g \in [Q -> Nat]
  BY ReachedAre
<1>3. w = [b \in DOMAIN B |-> B[b].rows]
  BY DEF BlockRows
<1>4. \A q \in Q : g[q] = shape.counts[q[2] + 1]
  OBVIOUS
<1> HIDE DEF B, r, g, w
<1>5. w = [b \in 1 .. Cardinality(Q) |-> g[r[b]]]
  BY <1>1, <1>3, <1>4
<1>6. \A k \in Ranks(shape) : \A d \in Omitted(shape)[k] : g[<<k, d>>] = shape.counts[d + 1]
  BY <1>4, ReachedAre
<1>7. ASSUME NEW k \in Ranks(shape)
      PROVE  RowsIn(shape, Omitted(shape)[k]) = SumOf([d \in Omitted(shape)[k] |-> g[<<k, d>>]])
  <2>1. [d \in Omitted(shape)[k] |-> shape.counts[d + 1]] = [d \in Omitted(shape)[k] |-> g[<<k, d>>]]
    BY <1>6
  <2> QED
    BY <2>1 DEF RowsIn
<1>8. v = [k \in 1 .. Len(Omitted(shape)) |-> SumOf([d \in Omitted(shape)[k] |-> g[<<k, d>>]])]
  BY <1>7 DEF LeftRows, Ranks
<1> HIDE DEF v
<1>9. w \in Seq(Nat) /\ Total(w) = Total(v)
  <2>1. TellsApart(shape, g, w, v)
    BY <1>2, <1>5, <1>8 DEF TellsApart, Q, r
  <2> QED
    BY <2>1, BlockTotals
<1>10. Len(w) = Cardinality(Q)
  <2> DEFINE N == Cardinality(Q)
  <2>1. DOMAIN w = 1 .. N /\ N \in Nat
    BY <1>1, <1>5
  <2> HIDE DEF N
  <2> QED
    BY <1>9, <2>1 DEF N
<1> QED
  BY <1>1, <1>9, <1>10 DEF w, v, B

LEMMA BlocksCounted ==
    ASSUME NEW shape, IsShape(shape), shape.features >= Surface
    PROVE  Len(Blocks(Subsets(shape), shape)) = Total(Reaches(shape))
<1> DEFINE Q == Reached(shape)
           r == ReachedInOrder(shape)
           g == [q \in Q |-> 1]
           N == Cardinality(Q)
           w == [b \in 1 .. N |-> 1]
           v == Reaches(shape)
<1>1. /\ Len(Blocks(Subsets(shape), shape)) = N /\ N \in Nat /\ IsFiniteSet(Q)
      /\ \A b \in 1 .. N : r[b] \in Q
  BY BlocksAre
<1>2. g \in [Q -> Nat] /\ \A q \in Q : g[q] = 1
  OBVIOUS
<1> HIDE DEF g, r, Q
<1>3. w = [b \in 1 .. N |-> g[r[b]]]
  BY <1>1, <1>2
<1>4. ASSUME NEW k \in Ranks(shape)
      PROVE  Cardinality(Omitted(shape)[k]) = SumOf([d \in Omitted(shape)[k] |-> g[<<k, d>>]])
  <2>1. [d \in Omitted(shape)[k] |-> g[<<k, d>>]] = [d \in Omitted(shape)[k] |-> 1]
    BY <1>2, ReachedAre DEF Q
  <2>2. IsFiniteSet(Omitted(shape)[k]) /\ Cardinality(Omitted(shape)[k]) \in Nat
    BY SubsetsAre, RowsInAre DEF Ranks
  <2>3. SumOf([d \in Omitted(shape)[k] |-> 1]) = Cardinality(Omitted(shape)[k]) * 1
    BY <2>2, SumOfConstant
  <2> DEFINE c == Cardinality(Omitted(shape)[k])
  <2>4. SumOf([d \in Omitted(shape)[k] |-> g[<<k, d>>]]) = c * 1 /\ c \in Nat
    BY <2>1, <2>2, <2>3
  <2> HIDE DEF c
  <2>5. c * 1 = c
    BY <2>4
  <2> QED
    BY <2>4, <2>5 DEF c
<1>5. v = [k \in 1 .. Len(Omitted(shape)) |-> SumOf([d \in Omitted(shape)[k] |-> g[<<k, d>>]])]
  BY <1>4 DEF Reaches, Ranks
<1> HIDE DEF v
<1>6. w \in Seq(Nat) /\ Total(w) = Total(v)
  <2> HIDE DEF w
  <2> QED
    <3>1. TellsApart(shape, g, w, v)
      BY <1>2, <1>3, <1>5 DEF TellsApart, Q, r, N
    <3> QED
      BY <3>1, BlockTotals
<1>7. Total(w) = N
  <2>1. Len(w) = N /\ w \in [1 .. N -> Nat] /\ IsFiniteSet(1 .. N) /\ Cardinality(1 .. N) = N
    BY <1>1, FS_Interval
  <2>2. SumOf(w) = N * 1
    BY <2>1, SumOfConstant
  <2>3. Total(w) = SumOf(w)
    <3> HIDE DEF w
    <3> QED
      BY <1>6, <2>1, TotalIsSum
  <2> QED
    BY <1>1, <2>2, <2>3
<1> QED
  BY <1>1, <1>6, <1>7 DEF v

LEMMA BlockWorkIs ==
    ASSUME NEW shape, IsShape(shape), shape.features >= Surface
    PROVE  Total(BlockWork(shape)) = Total(Scorings(shape))
<1> DEFINE Q == Reached(shape)
           r == ReachedInOrder(shape)
           B == Blocks(Subsets(shape), shape)
           M == shape.targets
           g == [q \in Q |-> (M * shape.counts[q[2] + 1]) * WidthOn(shape, q[1])]
           w == BlockWork(shape)
           v == Scorings(shape)
<1>1. /\ DOMAIN B = 1 .. Cardinality(Q) /\ Cardinality(Q) \in Nat
      /\ \A b \in 1 .. Cardinality(Q) :
            r[b] \in Q /\ B[b].rows = shape.counts[r[b][2] + 1] /\ B[b].subset = r[b][1]
  BY BlocksAre, BlockFields
<1>2. M \in Nat
  BY SequencesAre
<1>3. g \in [Q -> Nat]
  <2>1. \A q \in Q : (M * shape.counts[q[2] + 1]) * WidthOn(shape, q[1]) \in Nat
    <3>1. ASSUME NEW a \in Nat, NEW b \in Nat PROVE (M * a) * b \in Nat
      BY <1>2
    <3> QED
      BY <3>1, ReachedAre
  <2> QED
    BY <2>1
<1>4. w = [b \in DOMAIN B |-> (M * B[b].rows) * WidthOn(shape, B[b].subset)]
  BY DEF BlockWork, WidthOn
<1>5. \A q \in Q : g[q] = (M * shape.counts[q[2] + 1]) * WidthOn(shape, q[1])
  OBVIOUS
<1> HIDE DEF B, r, g, w, M
<1>6. w = [b \in 1 .. Cardinality(Q) |-> g[r[b]]]
  BY <1>1, <1>4, <1>5
<1>7. ASSUME NEW k \in Ranks(shape)
      PROVE  RowsIn(shape, Omitted(shape)[k]) * M * WidthOn(shape, k)
                = SumOf([d \in Omitted(shape)[k] |-> g[<<k, d>>]])
  <2> DEFINE left == Omitted(shape)[k]
             c == M * WidthOn(shape, k)
             f == [d \in left |-> shape.counts[d + 1]]
  <2>1. left \in SUBSET Domains(shape) /\ WidthOn(shape, k) \in Nat /\ c \in Nat
    <3>1. left \in SUBSET Domains(shape)
      BY SubsetsAre DEF Ranks
    <3>2. WidthOn(shape, k) \in Nat
      BY SequencesAre
    <3>3. ASSUME NEW a \in Nat PROVE M * a \in Nat
      BY <1>2
    <3> QED
      BY <3>1, <3>2, <3>3
  <2>2. IsFiniteSet(left) /\ f \in [left -> Nat] /\ RowsIn(shape, left) = SumOf(f) /\ SumOf(f) \in Nat
    BY <2>1, RowsInAre DEF RowsIn
  <2>3. \A d \in left : f[d] = shape.counts[d + 1] /\ f[d] \in Nat
    BY <2>2
  <2>4. \A d \in left : g[<<k, d>>] = (M * f[d]) * WidthOn(shape, k)
    BY <1>5, <2>3, ReachedAre DEF Q
  <2> HIDE DEF f, left
  <2>5. ASSUME NEW a \in Nat, NEW x \in Nat
        PROVE  (M * a) * x = (M * x) * a /\ a * M * x = (M * x) * a
    BY <1>2
  <2>6. \A d \in left : g[<<k, d>>] = c * f[d]
    BY <2>1, <2>3, <2>4, <2>5
  <2> HIDE DEF c
  <2>7. [d \in left |-> g[<<k, d>>]] = [d \in left |-> c * f[d]]
    BY <2>6
  <2>8. DOMAIN f = left /\ NatValued(f) /\ f = [d \in left |-> f[d]]
    BY <2>2, NumbersAreNat
  <2>9. SumOf([d \in left |-> c * f[d]]) = c * SumOf([d \in left |-> f[d]])
    BY <2>1, <2>2, <2>8, SumOfScaled
  <2>10. SumOf([d \in left |-> g[<<k, d>>]]) = c * SumOf(f)
    BY <2>7, <2>8, <2>9
  <2>11. RowsIn(shape, left) * M * WidthOn(shape, k) = (M * WidthOn(shape, k)) * RowsIn(shape, left)
    BY <2>1, <2>2, <2>5
  <2> QED
    BY <2>2, <2>10, <2>11 DEF left, c
<1>8. v = [k \in 1 .. Len(Omitted(shape)) |-> SumOf([d \in Omitted(shape)[k] |-> g[<<k, d>>]])]
  BY <1>7 DEF Scorings, Ranks, M
<1> HIDE DEF v
<1>9. w \in Seq(Nat) /\ Total(w) = Total(v)
  <2>1. TellsApart(shape, g, w, v)
    BY <1>3, <1>6, <1>8 DEF TellsApart, Q, r
  <2> QED
    BY <2>1, BlockTotals
<1> QED
  BY <1>9 DEF w, v

\* The total of a sequence that is a multiple of another, entry by entry.
LEMMA BlockCellsAre ==
    ASSUME NEW shape, IsShape(shape), shape.features >= Surface
    PROVE  Total(BlockCells(shape)) = shape.targets * Total(LeftRows(shape))
<1> DEFINE B == Blocks(Subsets(shape), shape)
           u == BlockRows(shape)
           w == BlockCells(shape)
           M == shape.targets
           N == Len(B)
<1>1. /\ u \in Seq(Nat) /\ Len(u) = N /\ Total(u) = Total(LeftRows(shape))
  BY BlockRowsAre
<1>2. M \in Nat /\ N \in Nat /\ DOMAIN B = 1 .. N
  BY SequencesAre, BlocksAre
<1>3. \A b \in DOMAIN B : u[b] = B[b].rows /\ w[b] = M * B[b].rows
  BY DEF BlockRows, BlockCells
<1>4. DOMAIN w = DOMAIN B /\ w = [b \in DOMAIN w |-> w[b]]
  BY DEF BlockCells
<1> HIDE DEF B, u, w, M, N
<1>5. \A b \in 1 .. N : w[b] = M * u[b] /\ w[b] \in Nat
  <2>1. \A b \in 1 .. N : u[b] \in Nat
    BY <1>1
  <2>2. ASSUME NEW a \in Nat PROVE M * a \in Nat
    BY <1>2
  <2> QED
    BY <1>2, <1>3, <2>1, <2>2
<1>6. w \in [1 .. N -> Nat]
  BY <1>2, <1>4, <1>5
<1>7. w \in Seq(Nat) /\ Len(w) = N
  BY <1>2, <1>6, TupleOfNumbers
<1>8. Total(w) = M * Total(u)
  <2>1. u \in Seq(Nat) /\ w \in Seq(Nat) /\ Len(u) = Len(w) /\ M \in Nat
    BY <1>1, <1>2, <1>7
  <2>2. \A b \in 1 .. Len(w) : w[b] = M * u[b]
    BY <1>5, <1>7
  <2> QED
    BY <2>1, <2>2, TotalOfScaled
<1> QED
  BY <1>1, <1>8 DEF M, w

LEMMA PlanIs ==
    ASSUME NEW shape, IsShape(shape), shape.features >= Surface
    PROVE  LET F == shape.features
               M == shape.targets
               n == Rows(shape)
               D == Len(shape.counts)
               K == Len(Omitted(shape))
               blocks == Len(Blocks(Subsets(shape), shape))
               widest == Widest(shape)
           IN Plan(shape).numbers =
                [memberships |-> Total(BlockRows(shape)),
                 resultBytes |-> Header.result + Header.coefficient * K + 8 * Total(Records(shape))
                                 + Header.score * blocks + 8 * Total(BlockCells(shape)),
                 statistics |-> n * (3 * (F + M) + Packed(shape) + F * M),
                 solve |-> Total(Solves(shape)),
                 score |-> Total(BlockWork(shape)),
                 heap |-> 8 * (n * M + D * MomentCells(shape) + K * (2 * Continuous + M)
                               + Total(Widths(shape)) + Total(BlockCells(shape))
                               + 3 * F + 2 * M + Packed(shape) + F * M
                               + 2 * widest * widest + M * widest) + n + Slack,
                 scanned |-> FileBytes(shape) + shape.keyBytes + n
                             + (Padded(DomainEnd(shape)) - DomainEnd(shape))
                             + 8 * n * M + 2 * 8 * n * F,
                 cells |-> Total(Records(shape)) + Total(BlockCells(shape))]
<1> DEFINE F == shape.features
           M == shape.targets
           S == Subsets(shape)
           B == Blocks(S, shape)
<1>1. DOMAIN S = Ranks(shape) /\ Len(S) = Len(Omitted(shape))
  BY SubsetsAre DEF Ranks
<1>2. M \in Nat /\ \A k \in Ranks(shape) : S[k].width \in Nat /\ WidthOn(shape, k) = S[k].width
  BY SequencesAre DEF WidthOn
<1> HIDE DEF S, M
<1>3. Records(shape) = [k \in DOMAIN S |-> 2 * Continuous + M + M * S[k].width]
  <2>1. \A k \in Ranks(shape) : 2 * Continuous + M + M * S[k].width = 6 + M + M * WidthOn(shape, k)
    BY <1>2 DEF Continuous
  <2> QED
    BY <1>1, <2>1 DEF Records, M
<1>4. Widths(shape) = [k \in DOMAIN S |-> M * S[k].width]
  BY <1>1, <1>2 DEF Widths, M
<1>5. Solves(shape) = [k \in DOMAIN S |->
          S[k].width * S[k].width * S[k].width + 2 * M * S[k].width * S[k].width + M * S[k].width]
  BY <1>1, <1>2 DEF Solves, M
<1>6. Widest(shape) = Max({S[k].width : k \in DOMAIN S})
  <2>1. {S[k].width : k \in DOMAIN S} = {WidthOn(shape, k) : k \in Ranks(shape)}
    BY <1>1, <1>2
  <2> QED
    BY <2>1 DEF Widest
<1>7. BlockRows(shape) = [b \in DOMAIN B |-> B[b].rows]
  BY DEF BlockRows, S
<1>8. BlockCells(shape) = [b \in DOMAIN B |-> M * B[b].rows]
  BY DEF BlockCells, S, M
<1>9. BlockWork(shape) = [b \in DOMAIN B |-> (M * B[b].rows) * S[B[b].subset].width]
  BY DEF BlockWork, S, M
<1>10. Plan(shape).numbers =
        LET n == Rows(shape)
            coefficients == Total([k \in DOMAIN S |-> 2 * Continuous + M + M * S[k].width])
            scoreTotal == Total([b \in DOMAIN B |-> M * B[b].rows])
            widest == Max({S[k].width : k \in DOMAIN S})
        IN [memberships |-> Total([b \in DOMAIN B |-> B[b].rows]),
            resultBytes |-> Header.result + Header.coefficient * Len(S) + 8 * coefficients
                                + Header.score * Len(B) + 8 * scoreTotal,
            statistics |-> n * (3 * (F + M) + Packed(shape) + F * M),
            solve |-> Total([k \in DOMAIN S |->
                S[k].width * S[k].width * S[k].width + 2 * M * S[k].width * S[k].width + M * S[k].width]),
            score |-> Total([b \in DOMAIN B |-> (M * B[b].rows) * S[B[b].subset].width]),
            heap |-> 8 * (n * M + Len(shape.counts) * MomentCells(shape)
                          + Len(S) * (2 * Continuous + M)
                          + Total([k \in DOMAIN S |-> M * S[k].width]) + scoreTotal
                          + 3 * F + 2 * M + Packed(shape) + F * M
                          + 2 * widest * widest + M * widest) + n + Slack,
            scanned |-> FileBytes(shape) + shape.keyBytes + n
                        + (Padded(DomainEnd(shape)) - DomainEnd(shape))
                        + 8 * n * M + 2 * 8 * n * F,
            cells |-> coefficients + scoreTotal]
  <2> DEFINE numbers == Plan(shape).numbers
  <2>1. Plan(shape).numbers = Plan(shape)["numbers"]
    OBVIOUS
  <2> QED
    BY DEF Plan, Over, CoefficientCells, WeightCells, ScoreCells, SolveWork, S, M
<1> HIDE DEF B, F
<1> QED
  BY <1>1, <1>3, <1>4, <1>5, <1>6, <1>7, <1>8, <1>9, <1>10, Zenon DEF F, M, B, S

-----------------------------------------------------------------------------
(* The two agree.                                                           *)

\* Half of a product of two neighbours is a number, and times n is half of n times it.
LEMMA HalvesAreWhole ==
    ASSUME NEW n \in Nat, NEW F \in Nat
    PROVE  /\ (F * (F + 1)) \div 2 \in Nat
           /\ (n * F * (F + 1)) \div 2 = n * ((F * (F + 1)) \div 2)
<1>1. PICK h \in Nat : F * (F + 1) = 2 * h
  <2>1. PICK q \in Nat : F = 2 * q \/ F = 2 * q + 1
    <3>1. F \div 2 \in Nat /\ (F = 2 * (F \div 2) \/ F = 2 * (F \div 2) + 1)
      OBVIOUS
    <3> QED
      BY <3>1
  <2>2. CASE F = 2 * q
    <3>1. q * (F + 1) \in Nat /\ F * (F + 1) = 2 * (q * (F + 1))
      <4>1. ASSUME NEW a \in Nat PROVE q * a \in Nat /\ (2 * q) * a = 2 * (q * a)
        BY <2>1
      <4> QED
        BY <2>2, <4>1
    <3> QED
      BY <3>1
  <2>3. CASE F = 2 * q + 1
    <3>1. F * (q + 1) \in Nat /\ F * (F + 1) = 2 * (F * (q + 1))
      <4>1. ASSUME NEW a \in Nat PROVE F * a \in Nat /\ F * (2 * a) = 2 * (F * a)
        OBVIOUS
      <4>2. F + 1 = 2 * (q + 1) /\ q + 1 \in Nat
        BY <2>3
      <4> QED
        BY <4>1, <4>2
    <3> QED
      BY <3>1
  <2> QED
    BY <2>1, <2>2, <2>3
<1>2. n * F * (F + 1) = 2 * (n * h)
  <2>1. n * F * (F + 1) = n * (F * (F + 1))
    <3>1. ASSUME NEW a \in Nat, NEW b \in Nat, NEW c \in Nat PROVE a * b * c = a * (b * c)
      OBVIOUS
    <3>2. F + 1 \in Nat
      OBVIOUS
    <3> QED
      BY <3>1, <3>2
  <2>2. n * (2 * h) = 2 * (n * h)
    OBVIOUS
  <2> QED
    BY <1>1, <2>1, <2>2
<1>3. \A m \in Nat : (2 * m) \div 2 = m
  OBVIOUS
<1>4. n * h \in Nat
  OBVIOUS
<1> QED
  BY <1>1, <1>2, <1>3, <1>4

LEMMA PaddingAgrees ==
    ASSUME NEW x \in Nat
    PROVE  Padded(x) - x = (8 - (x % 8)) % 8
BY DEF Padded

\* The bytes and the cells of the answer, added set by set.
LEMMA OutputsAgree ==
    ASSUME NEW shape, IsShape(shape), shape.features >= Surface
    PROVE  LET M == shape.targets
               K == Len(Omitted(shape))
           IN /\ Total([k \in Ranks(shape) |-> Records(shape)[k] + LeftRows(shape)[k] * M])
                   = Total(Records(shape)) + M * Total(LeftRows(shape))
              /\ Total([k \in Ranks(shape) |->
                           Header.coefficient + 8 * Records(shape)[k]
                           + Header.score * Reaches(shape)[k] + 8 * LeftRows(shape)[k] * M])
                   = Header.coefficient * K + 8 * Total(Records(shape))
                     + Header.score * Total(Reaches(shape)) + 8 * (M * Total(LeftRows(shape)))
<1> DEFINE M == shape.targets
           K == Len(Omitted(shape))
           P == Ranks(shape)
           x == Records(shape)
           y == Reaches(shape)
           z == LeftRows(shape)
           zM == [k \in P |-> M * z[k]]
           x8 == [k \in P |-> 8 * x[k]]
           y32 == [k \in P |-> 32 * y[k]]
           z8 == [k \in P |-> 8 * zM[k]]
           c == [k \in P |-> 48]
           p == [k \in P |-> x8[k] + y32[k]]
           q == [k \in P |-> c[k] + z8[k]]
           whole == [k \in P |-> x[k] + zM[k]]
           all == [k \in P |-> p[k] + q[k]]
<1>1. /\ P = 1 .. K /\ K \in Nat /\ M \in Nat
      /\ x \in Seq(Nat) /\ Len(x) = K /\ y \in Seq(Nat) /\ Len(y) = K /\ z \in Seq(Nat) /\ Len(z) = K
      /\ x \in [P -> Nat] /\ y \in [P -> Nat] /\ z \in [P -> Nat]
  BY SequencesAre
<1>0. ASSUME NEW a \in Nat, NEW b \in Nat PROVE a * b \in Nat /\ a + b \in Nat
  OBVIOUS
<1> HIDE DEF M, K, P, x, y, z
<1>2. ASSUME NEW s, s \in [P -> Nat] PROVE s \in Seq(Nat) /\ Len(s) = K
  <2>1. s \in [1 .. K -> Nat]
    BY <1>1, <1>2
  <2> QED
    BY <1>1, <2>1, TupleOfNumbers
<1>3. ASSUME NEW s, NEW t, NEW e \in Nat, s \in [P -> Nat], t = [k \in P |-> e * s[k]]
      PROVE  t \in [P -> Nat] /\ Total(t) = e * Total(s)
  <2>1. \A k \in P : e * s[k] \in Nat
    BY <1>0, <1>3
  <2>2. t \in [P -> Nat] /\ \A k \in P : t[k] = e * s[k]
    BY <1>3, <2>1
  <2>3. s \in Seq(Nat) /\ t \in Seq(Nat) /\ Len(s) = Len(t) /\ Len(t) = K
    BY <1>2, <1>3, <2>2
  <2>4. \A k \in 1 .. Len(t) : t[k] = e * s[k]
    BY <1>1, <2>2, <2>3
  <2> QED
    BY <2>2, <2>3, <2>4, TotalOfScaled
<1>4. ASSUME NEW s, NEW t, NEW u, s \in [P -> Nat], t \in [P -> Nat], u = [k \in P |-> s[k] + t[k]]
      PROVE  u \in [P -> Nat] /\ Total(u) = Total(s) + Total(t)
  <2>1. \A k \in P : s[k] + t[k] \in Nat
    BY <1>0, <1>4
  <2>2. u \in [P -> Nat] /\ \A k \in P : u[k] = s[k] + t[k]
    BY <1>4, <2>1
  <2>3. s \in Seq(Nat) /\ t \in Seq(Nat) /\ u \in Seq(Nat) /\ Len(s) = Len(u) /\ Len(t) = Len(u) /\ Len(u) = K
    BY <1>2, <1>4, <2>2
  <2>4. \A k \in 1 .. Len(u) : u[k] = s[k] + t[k]
    BY <1>1, <2>2, <2>3
  <2> QED
    BY <2>2, <2>3, <2>4, TotalOfSums
<1>5. zM \in [P -> Nat] /\ Total(zM) = M * Total(z)
  <2> HIDE DEF zM
  <2> QED
    BY <1>1, <1>3 DEF zM
<1>6. x8 \in [P -> Nat] /\ Total(x8) = 8 * Total(x)
  <2> HIDE DEF x8
  <2> QED
    BY <1>1, <1>3 DEF x8
<1>7. y32 \in [P -> Nat] /\ Total(y32) = 32 * Total(y)
  <2> HIDE DEF y32
  <2> QED
    BY <1>1, <1>3 DEF y32
<1>8. z8 \in [P -> Nat] /\ Total(z8) = 8 * Total(zM)
  <2> HIDE DEF z8, zM
  <2> QED
    BY <1>5, <1>3 DEF z8
<1>9. c \in [P -> Nat] /\ Total(c) = 48 * K
  <2>1. c \in [P -> Nat]
    OBVIOUS
  <2>2. c \in Seq(Nat) /\ Len(c) = K
    <3> HIDE DEF c
    <3> QED
      BY <1>2, <2>1
  <2>3. IsFiniteSet(P) /\ Cardinality(P) = K
    BY <1>1, FS_Interval
  <2>4. SumOf(c) = K * 48
    BY <2>3, SumOfConstant
  <2>5. Total(c) = SumOf(c)
    <3> HIDE DEF c
    <3> QED
      BY <1>1, <2>1, <2>2, TotalIsSum
  <2> QED
    BY <1>1, <2>1, <2>4, <2>5
<1>10. p \in [P -> Nat] /\ Total(p) = Total(x8) + Total(y32)
  <2> HIDE DEF p, x8, y32
  <2> QED
    BY <1>4, <1>6, <1>7 DEF p
<1>11. q \in [P -> Nat] /\ Total(q) = Total(c) + Total(z8)
  <2> HIDE DEF q, c, z8
  <2> QED
    BY <1>4, <1>8, <1>9 DEF q
<1>12. Total(all) = Total(p) + Total(q)
  <2> HIDE DEF all, p, q
  <2> QED
    BY <1>4, <1>10, <1>11 DEF all
<1>13. Total(whole) = Total(x) + Total(zM)
  <2> HIDE DEF whole, zM
  <2> QED
    BY <1>1, <1>4, <1>5 DEF whole
<1>14. [k \in P |-> x[k] + z[k] * M] = whole
  <2>1. \A k \in P : z[k] * M = M * z[k]
    BY <1>1
  <2> QED
    BY <2>1
<1>15. [k \in P |-> Header.coefficient + 8 * x[k] + Header.score * y[k] + 8 * z[k] * M] = all
  <2>1. ASSUME NEW k \in P
        PROVE  Header.coefficient + 8 * x[k] + Header.score * y[k] + 8 * z[k] * M
                  = (8 * x[k] + 32 * y[k]) + (48 + 8 * (M * z[k]))
    <3> DEFINE zk == z[k]
               xk == x[k]
               yk == y[k]
    <3>1. zk \in Nat /\ xk \in Nat /\ yk \in Nat
      BY <1>1
    <3> HIDE DEF zk, xk, yk
    <3>2. 8 * zk * M = 8 * (M * zk)
      BY <1>1, <3>1
    <3>3. M * zk \in Nat
      BY <1>1, <3>1
    <3>4. Header.coefficient = 48 /\ Header.score = 32
      BY DEF Header
    <3>5. 48 + 8 * xk + 32 * yk + 8 * (M * zk) = (8 * xk + 32 * yk) + (48 + 8 * (M * zk))
      BY <3>1, <3>3
    <3> QED
      BY <3>2, <3>4, <3>5 DEF zk, xk, yk
  <2> QED
    BY <2>1
<1>16. Total(x) \in Nat /\ Total(y) \in Nat /\ Total(z) \in Nat
  BY <1>1, TotalIsNat
<1>17. M * Total(z) \in Nat
  BY <1>1, <1>16
<1>18. Total(all) = Header.coefficient * K + 8 * Total(x) + Header.score * Total(y) + 8 * (M * Total(z))
  <2> HIDE DEF all, p, q, x8, y32, z8, c, zM
  <2>1. Total(all) = (8 * Total(x) + 32 * Total(y)) + (48 * K + 8 * (M * Total(z)))
    BY <1>5, <1>6, <1>7, <1>8, <1>9, <1>10, <1>11, <1>12
  <2>2. Header.coefficient = 48 /\ Header.score = 32
    BY DEF Header
  <2> QED
    BY <1>1, <1>16, <1>17, <2>1, <2>2
<1>19. Total(whole) = Total(x) + M * Total(z)
  <2> HIDE DEF whole, zM
  <2> QED
    BY <1>5, <1>13
<1> HIDE DEF all, whole
<1> QED
  BY <1>14, <1>15, <1>18, <1>19 DEF M, K, P, x, y, z

\* The caller's estimate and the child's plan come to the same numbers.
LEMMA NumbersAgree ==
    ASSUME NEW shape, IsShape(shape), shape.features >= Surface
    PROVE  Plan(shape).numbers = Estimate(shape)
<1> DEFINE F == shape.features
           M == shape.targets
           n == Rows(shape)
           D == Len(shape.counts)
           K == Len(Omitted(shape))
           w == Widest(shape)
           left == Total(LeftRows(shape))
           records == Total(Records(shape))
           reaches == Total(Reaches(shape))
           widths == Total(Widths(shape))
           P == Packed(shape)
           blocks == Len(Blocks(Subsets(shape), shape))
<1>1. /\ F \in Nat /\ M \in Nat /\ n \in Nat /\ D \in Nat /\ K \in Nat
      /\ left \in Nat /\ records \in Nat /\ reaches \in Nat /\ widths \in Nat
      /\ shape.keyBytes \in Nat
  BY DomainsAre, SequencesAre, TotalIsNat DEF IsShape
<1>2. P = (F * (F + 1)) \div 2 /\ P \in Nat
  <2>1. P = (F * (F + 1)) \div 2
    BY DEF Packed
  <2> HIDE DEF P, F
  <2> QED
    BY <1>1, <2>1, HalvesAreWhole
<1>3. MomentCells(shape) = F + M + P + F * M
  BY DEF MomentCells
<1>4. /\ Total(BlockRows(shape)) = left
      /\ Total(BlockCells(shape)) = M * left
      /\ Total(BlockWork(shape)) = Total(Scorings(shape))
      /\ blocks = reaches
  BY BlockRowsAre, BlockCellsAre, BlockWorkIs, BlocksCounted
<1>5. n * (3 * (F + M) + P + F * M) = 3 * n * (F + M) + (n * F * (F + 1)) \div 2 + n * F * M
  <2> DEFINE s == F + M
             t == F * M
  <2> HIDE DEF n, F, M, P
  <2>1. (n * F * (F + 1)) \div 2 = n * P
    <3>1. (n * F * (F + 1)) \div 2 = n * ((F * (F + 1)) \div 2)
      BY <1>1, HalvesAreWhole
    <3> QED
      BY <1>2, <3>1
  <2>2. s \in Nat /\ t \in Nat /\ P \in Nat
    BY <1>1, <1>2
  <2>3. ASSUME NEW a \in Nat, NEW b \in Nat, NEW c \in Nat
        PROVE  n * (3 * a + b + c) = 3 * n * a + n * b + n * c
    BY <1>1
  <2>4. n * t = n * F * M
    BY <1>1
  <2> HIDE DEF s, t
  <2>5. n * (3 * s + P + t) = 3 * n * s + n * P + n * t
    BY <2>2, <2>3
  <2> QED
    BY <2>1, <2>4, <2>5 DEF s, t
<1>6. Padded(DomainEnd(shape)) - DomainEnd(shape) = (8 - (DomainEnd(shape) % 8)) % 8
  <2>1. DomainEnd(shape) \in Nat
    BY <1>1 DEF DomainEnd, Header
  <2> QED
    BY <2>1, PaddingAgrees
<1>7. 2 * 8 * n * F = 2 * (8 * n * F)
  <2> HIDE DEF n, F
  <2> QED
    BY <1>1
<1>8. M * left = left * M
  <2> HIDE DEF left, M
  <2> QED
    BY <1>1
<1>9. 2 * Continuous + M = 6 + M
  BY DEF Continuous
<1>10. Total([k \in Ranks(shape) |-> Records(shape)[k] + LeftRows(shape)[k] * M]) = records + M * left
  BY OutputsAgree
<1>11. Header.result + Header.coefficient * K + 8 * records + Header.score * blocks + 8 * (M * left)
         = Header.result
           + Total([k \in Ranks(shape) |->
                       Header.coefficient + 8 * Records(shape)[k]
                       + Header.score * Reaches(shape)[k] + 8 * LeftRows(shape)[k] * M])
  <2> DEFINE total == Total([k \in Ranks(shape) |->
                       Header.coefficient + 8 * Records(shape)[k]
                       + Header.score * Reaches(shape)[k] + 8 * LeftRows(shape)[k] * M])
             c == Header.coefficient
             s == Header.score
             h == Header.result
             x == M * left
  <2>1. total = c * K + 8 * records + s * reaches + 8 * x
    BY OutputsAgree
  <2>2. c = 48 /\ s = 32 /\ h = 448
    BY DEF Header
  <2>3. x \in Nat
    <3> HIDE DEF M, left
    <3> QED
      BY <1>1
  <2> HIDE DEF total, c, s, h, x, K, records, reaches, blocks
  <2>4. h + c * K + 8 * records + s * blocks + 8 * x = h + total
    BY <1>1, <1>4, <2>1, <2>2, <2>3
  <2> QED
    BY <2>4 DEF total, c, s, h, x
<1> DEFINE E == Estimate(shape)
           N == Plan(shape).numbers
<1>12. E = [memberships |-> left,
            resultBytes |-> Header.result + Total([k \in Ranks(shape) |->
                       Header.coefficient + 8 * Records(shape)[k]
                       + Header.score * Reaches(shape)[k] + 8 * LeftRows(shape)[k] * M]),
            statistics |-> 3 * n * (F + M) + (n * F * (F + 1)) \div 2 + n * F * M,
            solve |-> Total(Solves(shape)),
            score |-> Total(Scorings(shape)),
            heap |-> 8 * (n * M + D * (F + M + P + F * M) + K * (6 + M)
                          + widths + left * M
                          + 3 * F + 2 * M + P + F * M + 2 * w * w + M * w) + n + Slack,
            scanned |-> FileBytes(shape) + shape.keyBytes + n + ((8 - (DomainEnd(shape) % 8)) % 8)
                        + 8 * n * M + 2 * (8 * n * F),
            cells |-> Total([k \in Ranks(shape) |-> Records(shape)[k] + LeftRows(shape)[k] * M])]
  BY <1>2, EstimateIs
<1>13. N = [memberships |-> Total(BlockRows(shape)),
            resultBytes |-> Header.result + Header.coefficient * K + 8 * records
                            + Header.score * blocks + 8 * Total(BlockCells(shape)),
            statistics |-> n * (3 * (F + M) + P + F * M),
            solve |-> Total(Solves(shape)),
            score |-> Total(BlockWork(shape)),
            heap |-> 8 * (n * M + D * MomentCells(shape) + K * (2 * Continuous + M)
                          + widths + Total(BlockCells(shape))
                          + 3 * F + 2 * M + P + F * M + 2 * w * w + M * w) + n + Slack,
            scanned |-> FileBytes(shape) + shape.keyBytes + n
                        + (Padded(DomainEnd(shape)) - DomainEnd(shape))
                        + 8 * n * M + 2 * 8 * n * F,
            cells |-> records + Total(BlockCells(shape))]
  BY PlanIs
<1> HIDE DEF F, M, n, D, K, w, left, records, reaches, widths, P, blocks, E, N
<1> QED
  BY <1>3, <1>4, <1>5, <1>6, <1>7, <1>8, <1>9, <1>10, <1>11, <1>12, <1>13, Zenon DEF E, N

LEMMA ResultIsMore ==
    ASSUME NEW shape, IsShape(shape), shape.features >= Surface
    PROVE  \E n \in Nat : Estimate(shape).resultBytes = Header.result + n
<1> DEFINE M == shape.targets
           K == Len(Omitted(shape))
           total == Total([k \in Ranks(shape) |->
                       Header.coefficient + 8 * Records(shape)[k]
                       + Header.score * Reaches(shape)[k] + 8 * LeftRows(shape)[k] * M])
           bytes == Header.result + total
           E == Estimate(shape)
<1>1. \E a, c, d, e, g, h, i :
         E = [memberships |-> a, resultBytes |-> bytes, statistics |-> c, solve |-> d, score |-> e,
              heap |-> g, scanned |-> h, cells |-> i]
  BY EstimateIs, Zenon
<1> HIDE DEF E, bytes
<1>2. E.resultBytes = bytes
  BY <1>1
<1>3. total \in Nat
  <2> DEFINE x == Total(Records(shape))
             y == Total(Reaches(shape))
             z == Total(LeftRows(shape))
  <2>1. total = Header.coefficient * K + 8 * x + Header.score * y + 8 * (M * z)
    BY OutputsAgree
  <2>2. K \in Nat /\ M \in Nat /\ x \in Nat /\ y \in Nat /\ z \in Nat
    BY SequencesAre, TotalIsNat
  <2> HIDE DEF total, K, M, x, y, z
  <2>3. M * z \in Nat /\ Header.coefficient = 48 /\ Header.score = 32
    BY <2>2 DEF Header
  <2> QED
    BY <2>1, <2>2, <2>3
<1> QED
  BY <1>2, <1>3 DEF E, bytes

-----------------------------------------------------------------------------
(* What is allocated is what was admitted.                                  *)

\* The greatest of finitely many numbers is one of them.
LEMMA GreatestOf ==
    ASSUME NEW S \in SUBSET Nat, IsFiniteSet(S), S # {}
    PROVE  Max(S) \in S /\ \A x \in S : x <= Max(S)
<1> DEFINE Good == {T \in SUBSET S : T = {} \/ \E m \in T : \A x \in T : x <= m}
<1>1. {} \in Good
  OBVIOUS
<1>2. ASSUME NEW T \in Good, NEW x \in S \ T PROVE T \cup {x} \in Good
  <2>1. CASE T = {}
    BY <2>1
  <2>2. CASE T # {}
    <3>1. PICK m \in T : \A y \in T : y <= m
      BY <2>2
    <3>2. \E k \in T \cup {x} : \A y \in T \cup {x} : y <= k
      <4>1. CASE x <= m
        BY <3>1, <4>1
      <4>2. CASE ~(x <= m)
        BY <3>1, <4>2
      <4> QED
        BY <4>1, <4>2
    <3> QED
      BY <3>2
  <2> QED
    BY <2>1, <2>2
<1>3. Good \in SUBSET SUBSET S
  OBVIOUS
<1> HIDE DEF Good
<1>4. S \in Good
  BY <1>1, <1>2, <1>3, SetInduction
<1>5. \E m \in S : \A x \in S : x <= m
  BY <1>4 DEF Good
<1> QED
  BY <1>5 DEF Max

LEMMA SumOfField ==
    ASSUME NEW S, IsFiniteSet(S), NEW r \in [S -> Nat], NEW T \in SUBSET S, NEW x \in S \ T
    PROVE  SumOver(r, T \cup {x}) = SumOver(r, T) + r[x]
  BY SumsOver

\* The sum over the buffers, one by one.
LEMMA SumOfBuffers ==
    ASSUME NEW r,
           DOMAIN r = {"targets", "moments", "means", "scales", "intercepts", "weights", "scores", "featureRow", "deltaX", "deltaY", "xMean", "yMean", "xx", "xy", "gram", "cholesky", "rightHandSides"},
           \A x \in DOMAIN r : r[x] \in Nat, r = [x \in DOMAIN r |-> r[x]]
    PROVE  SumOf(r) = r.targets + r.moments + r.means + r.scales + r.intercepts + r.weights + r.scores + r.featureRow + r.deltaX + r.deltaY + r.xMean + r.yMean + r.xx + r.xy + r.gram + r.cholesky + r.rightHandSides
<1> DEFINE S == {"targets", "moments", "means", "scales", "intercepts", "weights", "scores", "featureRow", "deltaX", "deltaY", "xMean", "yMean", "xx", "xy", "gram", "cholesky", "rightHandSides"}
           T0 == {}
           T1 == T0 \cup {"targets"}
           T2 == T1 \cup {"moments"}
           T3 == T2 \cup {"means"}
           T4 == T3 \cup {"scales"}
           T5 == T4 \cup {"intercepts"}
           T6 == T5 \cup {"weights"}
           T7 == T6 \cup {"scores"}
           T8 == T7 \cup {"featureRow"}
           T9 == T8 \cup {"deltaX"}
           T10 == T9 \cup {"deltaY"}
           T11 == T10 \cup {"xMean"}
           T12 == T11 \cup {"yMean"}
           T13 == T12 \cup {"xx"}
           T14 == T13 \cup {"xy"}
           T15 == T14 \cup {"gram"}
           T16 == T15 \cup {"cholesky"}
           T17 == T16 \cup {"rightHandSides"}
<1>1. r \in [S -> Nat]
  OBVIOUS
<1>2. T17 = S
  OBVIOUS
<1>3. "targets" \notin T0 /\ "moments" \notin T1 /\ "means" \notin T2 /\ "scales" \notin T3 /\ "intercepts" \notin T4 /\ "weights" \notin T5 /\ "scores" \notin T6 /\ "featureRow" \notin T7 /\ "deltaX" \notin T8 /\ "deltaY" \notin T9 /\ "xMean" \notin T10 /\ "yMean" \notin T11 /\ "xx" \notin T12 /\ "xy" \notin T13 /\ "gram" \notin T14 /\ "cholesky" \notin T15 /\ "rightHandSides" \notin T16
  OBVIOUS
<1>4. T0 \in SUBSET S /\ T1 \in SUBSET S /\ T2 \in SUBSET S /\ T3 \in SUBSET S /\ T4 \in SUBSET S /\ T5 \in SUBSET S /\ T6 \in SUBSET S /\ T7 \in SUBSET S /\ T8 \in SUBSET S /\ T9 \in SUBSET S /\ T10 \in SUBSET S /\ T11 \in SUBSET S /\ T12 \in SUBSET S /\ T13 \in SUBSET S /\ T14 \in SUBSET S /\ T15 \in SUBSET S /\ T16 \in SUBSET S
  OBVIOUS
<1>5. IsFiniteSet(T0)
  BY FS_EmptySet
<1>6. "targets" \in S /\ "moments" \in S /\ "means" \in S /\ "scales" \in S /\ "intercepts" \in S /\ "weights" \in S /\ "scores" \in S /\ "featureRow" \in S /\ "deltaX" \in S /\ "deltaY" \in S /\ "xMean" \in S /\ "yMean" \in S /\ "xx" \in S /\ "xy" \in S /\ "gram" \in S /\ "cholesky" \in S /\ "rightHandSides" \in S
  OBVIOUS
<1> HIDE DEF S, T0, T1, T2, T3, T4, T5, T6, T7, T8, T9, T10, T11, T12, T13, T14, T15, T16, T17
<1>7. IsFiniteSet(T1)
  BY <1>5, FS_AddElement DEF T1
<1>8. IsFiniteSet(T2)
  BY <1>7, FS_AddElement DEF T2
<1>9. IsFiniteSet(T3)
  BY <1>8, FS_AddElement DEF T3
<1>10. IsFiniteSet(T4)
  BY <1>9, FS_AddElement DEF T4
<1>11. IsFiniteSet(T5)
  BY <1>10, FS_AddElement DEF T5
<1>12. IsFiniteSet(T6)
  BY <1>11, FS_AddElement DEF T6
<1>13. IsFiniteSet(T7)
  BY <1>12, FS_AddElement DEF T7
<1>14. IsFiniteSet(T8)
  BY <1>13, FS_AddElement DEF T8
<1>15. IsFiniteSet(T9)
  BY <1>14, FS_AddElement DEF T9
<1>16. IsFiniteSet(T10)
  BY <1>15, FS_AddElement DEF T10
<1>17. IsFiniteSet(T11)
  BY <1>16, FS_AddElement DEF T11
<1>18. IsFiniteSet(T12)
  BY <1>17, FS_AddElement DEF T12
<1>19. IsFiniteSet(T13)
  BY <1>18, FS_AddElement DEF T13
<1>20. IsFiniteSet(T14)
  BY <1>19, FS_AddElement DEF T14
<1>21. IsFiniteSet(T15)
  BY <1>20, FS_AddElement DEF T15
<1>22. IsFiniteSet(T16)
  BY <1>21, FS_AddElement DEF T16
<1>23. IsFiniteSet(T17)
  BY <1>22, FS_AddElement DEF T17
<1>24. IsFiniteSet(S)
  BY <1>2, <1>23
<1>25. SumOver(r, T0) = 0 /\ SumOver(r, S) = SumOf(r)
  BY <1>1, <1>24, SumsOver DEF T0
<1>26. SumOver(r, T1) = SumOver(r, T0) + r.targets
  BY <1>1, <1>3, <1>4, <1>6, <1>24, SumOfField DEF T1
<1>27. SumOver(r, T2) = SumOver(r, T1) + r.moments
  BY <1>1, <1>3, <1>4, <1>6, <1>24, SumOfField DEF T2
<1>28. SumOver(r, T3) = SumOver(r, T2) + r.means
  BY <1>1, <1>3, <1>4, <1>6, <1>24, SumOfField DEF T3
<1>29. SumOver(r, T4) = SumOver(r, T3) + r.scales
  BY <1>1, <1>3, <1>4, <1>6, <1>24, SumOfField DEF T4
<1>30. SumOver(r, T5) = SumOver(r, T4) + r.intercepts
  BY <1>1, <1>3, <1>4, <1>6, <1>24, SumOfField DEF T5
<1>31. SumOver(r, T6) = SumOver(r, T5) + r.weights
  BY <1>1, <1>3, <1>4, <1>6, <1>24, SumOfField DEF T6
<1>32. SumOver(r, T7) = SumOver(r, T6) + r.scores
  BY <1>1, <1>3, <1>4, <1>6, <1>24, SumOfField DEF T7
<1>33. SumOver(r, T8) = SumOver(r, T7) + r.featureRow
  BY <1>1, <1>3, <1>4, <1>6, <1>24, SumOfField DEF T8
<1>34. SumOver(r, T9) = SumOver(r, T8) + r.deltaX
  BY <1>1, <1>3, <1>4, <1>6, <1>24, SumOfField DEF T9
<1>35. SumOver(r, T10) = SumOver(r, T9) + r.deltaY
  BY <1>1, <1>3, <1>4, <1>6, <1>24, SumOfField DEF T10
<1>36. SumOver(r, T11) = SumOver(r, T10) + r.xMean
  BY <1>1, <1>3, <1>4, <1>6, <1>24, SumOfField DEF T11
<1>37. SumOver(r, T12) = SumOver(r, T11) + r.yMean
  BY <1>1, <1>3, <1>4, <1>6, <1>24, SumOfField DEF T12
<1>38. SumOver(r, T13) = SumOver(r, T12) + r.xx
  BY <1>1, <1>3, <1>4, <1>6, <1>24, SumOfField DEF T13
<1>39. SumOver(r, T14) = SumOver(r, T13) + r.xy
  BY <1>1, <1>3, <1>4, <1>6, <1>24, SumOfField DEF T14
<1>40. SumOver(r, T15) = SumOver(r, T14) + r.gram
  BY <1>1, <1>3, <1>4, <1>6, <1>24, SumOfField DEF T15
<1>41. SumOver(r, T16) = SumOver(r, T15) + r.cholesky
  BY <1>1, <1>3, <1>4, <1>6, <1>24, SumOfField DEF T16
<1>42. SumOver(r, T17) = SumOver(r, T16) + r.rightHandSides
  BY <1>1, <1>3, <1>4, <1>6, <1>24, SumOfField DEF T17
<1>43. r.targets \in Nat /\ r.moments \in Nat /\ r.means \in Nat /\ r.scales \in Nat /\ r.intercepts \in Nat /\ r.weights \in Nat /\ r.scores \in Nat /\ r.featureRow \in Nat /\ r.deltaX \in Nat /\ r.deltaY \in Nat /\ r.xMean \in Nat /\ r.yMean \in Nat /\ r.xx \in Nat /\ r.xy \in Nat /\ r.gram \in Nat /\ r.cholesky \in Nat /\ r.rightHandSides \in Nat
  OBVIOUS
<1> QED
  BY <1>2, <1>25, <1>43, <1>26, <1>27, <1>28, <1>29, <1>30, <1>31, <1>32, <1>33, <1>34, <1>35, <1>36, <1>37, <1>38, <1>39, <1>40, <1>41, <1>42

LEMMA WidestIs ==
    ASSUME NEW shape, IsShape(shape), shape.features >= Surface
    PROVE  Widest(shape) \in Nat
<1> DEFINE P == Ranks(shape)
           f == [k \in P |-> WidthOn(shape, k)]
           S == {WidthOn(shape, k) : k \in P}
<1>1. IsFiniteSet(P) /\ P # {}
  <2> DEFINE K == Len(Omitted(shape))
  <2>1. K \in Nat \ {0} /\ P = 1 .. K
    BY SequencesAre
  <2> HIDE DEF K, P
  <2>2. IsFiniteSet(1 .. K)
    BY <2>1, FS_Interval
  <2>3. 1 \in 1 .. K
    BY <2>1
  <2> QED
    BY <2>1, <2>2, <2>3
<1>2. S \in SUBSET Nat /\ S # {}
  <2>1. \A k \in P : WidthOn(shape, k) \in Nat
    BY SequencesAre
  <2> QED
    BY <1>1, <2>1
<1>3. IsFiniteSet(S)
  <2>1. S = {f[k] : k \in P} /\ DOMAIN f = P
    OBVIOUS
  <2> HIDE DEF f, S, P
  <2> QED
    BY <1>1, <2>1, ImageIsBounded
<1>4. Max(S) \in S
  <2> HIDE DEF S
  <2> QED
    BY <1>2, <1>3, GreatestOf
<1> QED
  BY <1>2, <1>4 DEF Widest

\* The heap that is admitted is what the buffers take, and the slack.
LEMMA HeapIsWhatIsAllocated ==
    ASSUME NEW shape, IsShape(shape), shape.features >= Surface
    PROVE  /\ AllocatedBytes(shape, Plan(shape).subsets, Plan(shape).blocks) + Slack
                = Plan(shape).numbers.heap
           /\ Plan(shape).numbers.heap \in Nat
<1> DEFINE F == shape.features
           M == shape.targets
           n == Rows(shape)
           D == Len(shape.counts)
           K == Len(Omitted(shape))
           w == Widest(shape)
           widths == Total(Widths(shape))
           cells == Total(BlockCells(shape))
           P == Packed(shape)
           Q == MomentCells(shape)
           S == Subsets(shape)
           B == Blocks(S, shape)
           r == Buffers(shape, S, B)
<1>1. /\ F \in Nat /\ M \in Nat /\ n \in Nat /\ D \in Nat /\ K \in Nat /\ w \in Nat /\ widths \in Nat
      /\ Total(LeftRows(shape)) \in Nat
  BY DomainsAre, SequencesAre, WidestIs, TotalIsNat DEF IsShape
<1>2. cells \in Nat
  <2>1. cells = M * Total(LeftRows(shape))
    BY BlockCellsAre
  <2> HIDE DEF cells, M
  <2> QED
    BY <1>1, <2>1
<1>3. P \in Nat
  BY <1>1, HalvesAreWhole DEF Packed
<1>4. Q \in Nat
  <2>1. Q = F + M + P + F * M
    BY DEF MomentCells
  <2> HIDE DEF Q, F, M, P
  <2> QED
    BY <1>1, <1>3, <2>1
<1>5. /\ DOMAIN S = Ranks(shape) /\ Len(S) = K
  BY SubsetsAre DEF Ranks
<1>6. Widths(shape) = [k \in DOMAIN S |-> M * S[k].width]
  BY <1>5 DEF Widths, WidthOn
<1>7. w = Max({S[k].width : k \in DOMAIN S})
  <2>1. {S[k].width : k \in DOMAIN S} = {WidthOn(shape, k) : k \in Ranks(shape)}
    BY <1>5 DEF WidthOn
  <2> QED
    BY <2>1 DEF Widest
<1>8. BlockCells(shape) = [b \in DOMAIN B |-> M * B[b].rows]
  BY DEF BlockCells
<1>9. r = [targets |-> n * M, moments |-> D * Q,
           means |-> K * Continuous, scales |-> K * Continuous, intercepts |-> K * M,
           weights |-> widths, scores |-> cells,
           featureRow |-> F, deltaX |-> F, deltaY |-> M, xMean |-> F, yMean |-> M,
           xx |-> P, xy |-> F * M, gram |-> w * w, cholesky |-> w * w, rightHandSides |-> M * w]
  <2>1. r = [targets |-> n * M, moments |-> D * Q,
             means |-> Len(S) * Continuous, scales |-> Len(S) * Continuous, intercepts |-> Len(S) * M,
             weights |-> Total([k \in DOMAIN S |-> M * S[k].width]),
             scores |-> Total([b \in DOMAIN B |-> M * B[b].rows]),
             featureRow |-> F, deltaX |-> F, deltaY |-> M, xMean |-> F, yMean |-> M,
             xx |-> P, xy |-> F * M,
             gram |-> Max({S[k].width : k \in DOMAIN S}) * Max({S[k].width : k \in DOMAIN S}),
             cholesky |-> Max({S[k].width : k \in DOMAIN S}) * Max({S[k].width : k \in DOMAIN S}),
             rightHandSides |-> M * Max({S[k].width : k \in DOMAIN S})]
    BY Zenon DEF Buffers, Over, WeightCells, ScoreCells
  <2> HIDE DEF r, S, B, n, M, D, Q, F, P, w, K
  <2> QED
    BY <1>5, <1>6, <1>7, <1>8, <2>1, Zenon
<1> HIDE DEF F, M, n, D, K, w, widths, cells, P, Q, r
<1>10. n * M \in Nat /\ D * Q \in Nat /\ K * Continuous \in Nat /\ K * M \in Nat /\ F * M \in Nat
       /\ w * w \in Nat /\ M * w \in Nat
  BY <1>1, <1>4 DEF Continuous
<1>11. SumOf(r) = n * M + D * Q + K * Continuous + K * Continuous + K * M + widths + cells
                  + F + F + M + F + M + P + F * M + w * w + w * w + M * w
  <2> DEFINE nM == n * M
             DQ == D * Q
             KC == K * Continuous
             KM == K * M
             FM == F * M
             ww == w * w
             Mw == M * w
  <2>0. nM \in Nat /\ DQ \in Nat /\ KC \in Nat /\ KM \in Nat /\ FM \in Nat /\ ww \in Nat /\ Mw \in Nat
    BY <1>10
  <2>1. r = [targets |-> nM, moments |-> DQ, means |-> KC, scales |-> KC, intercepts |-> KM,
             weights |-> widths, scores |-> cells,
             featureRow |-> F, deltaX |-> F, deltaY |-> M, xMean |-> F, yMean |-> M,
             xx |-> P, xy |-> FM, gram |-> ww, cholesky |-> ww, rightHandSides |-> Mw]
    BY <1>9
  <2> HIDE DEF nM, DQ, KC, KM, FM, ww, Mw
  <2>2. DOMAIN r = {"targets", "moments", "means", "scales", "intercepts", "weights", "scores",
                    "featureRow", "deltaX", "deltaY", "xMean", "yMean", "xx", "xy", "gram",
                    "cholesky", "rightHandSides"}
    BY <2>1
  <2>3. /\ r.targets = nM /\ r.moments = DQ /\ r.means = KC /\ r.scales = KC /\ r.intercepts = KM
        /\ r.weights = widths /\ r.scores = cells /\ r.featureRow = F /\ r.deltaX = F /\ r.deltaY = M
        /\ r.xMean = F /\ r.yMean = M /\ r.xx = P /\ r.xy = FM /\ r.gram = ww /\ r.cholesky = ww
        /\ r.rightHandSides = Mw
    BY <2>1
  <2>4. \A x \in DOMAIN r : r[x] \in Nat
    BY <1>1, <1>2, <1>3, <2>0, <2>2, <2>3
  <2>5. r = [x \in DOMAIN r |-> r[x]]
    BY <2>1
  <2>6. SumOf(r) = r.targets + r.moments + r.means + r.scales + r.intercepts + r.weights + r.scores
                   + r.featureRow + r.deltaX + r.deltaY + r.xMean + r.yMean + r.xx + r.xy + r.gram
                   + r.cholesky + r.rightHandSides
    BY <2>2, <2>4, <2>5, SumOfBuffers
  <2> QED
    BY <2>3, <2>6 DEF nM, DQ, KC, KM, FM, ww, Mw
<1>12. AllocatedBytes(shape, Plan(shape).subsets, Plan(shape).blocks) = n + 8 * SumOf(r)
  <2>1. Plan(shape).subsets = S /\ Plan(shape).blocks = B
    BY DEF Plan
  <2> QED
    BY <2>1 DEF AllocatedBytes, n, r
<1>13. Plan(shape).numbers.heap
          = 8 * (n * M + D * Q + K * (2 * Continuous + M) + widths + cells
                 + 3 * F + 2 * M + P + F * M + 2 * w * w + M * w) + n + Slack
  <2> DEFINE N == Plan(shape).numbers
             heap == 8 * (n * M + D * Q + K * (2 * Continuous + M) + widths + cells
                          + 3 * F + 2 * M + P + F * M + 2 * w * w + M * w) + n + Slack
  <2>1. \E a, b, c, d, e, g, h :
           N = [memberships |-> a, resultBytes |-> b, statistics |-> c, solve |-> d, score |-> e,
                heap |-> heap, scanned |-> g, cells |-> h]
    BY PlanIs, Zenon DEF F, M, n, D, K, w, widths, cells, P, Q
  <2> HIDE DEF N, heap
  <2>2. N.heap = heap
    BY <2>1
  <2> QED
    BY <2>2 DEF N, heap
<1>14. n * M + D * Q + K * (2 * Continuous + M) + widths + cells
         + 3 * F + 2 * M + P + F * M + 2 * w * w + M * w
       = n * M + D * Q + K * Continuous + K * Continuous + K * M + widths + cells
         + F + F + M + F + M + P + F * M + w * w + w * w + M * w
  <2>1. K * (2 * Continuous + M) = K * Continuous + K * Continuous + K * M
    BY <1>1 DEF Continuous
  <2>2. 2 * w * w = w * w + w * w
    BY <1>1
  <2> DEFINE nM == n * M
             DQ == D * Q
             KC == K * Continuous
             KM == K * M
             FM == F * M
             ww == w * w
             Mw == M * w
             K2 == K * (2 * Continuous + M)
             w2 == 2 * w * w
  <2>3. nM \in Nat /\ DQ \in Nat /\ KC \in Nat /\ KM \in Nat /\ FM \in Nat /\ ww \in Nat /\ Mw \in Nat
    BY <1>10
  <2>4. K2 = KC + KC + KM /\ w2 = ww + ww
    BY <2>1, <2>2
  <2> HIDE DEF nM, DQ, KC, KM, FM, ww, Mw, K2, w2
  <2>5. nM + DQ + K2 + widths + cells + 3 * F + 2 * M + P + FM + w2 + Mw
        = nM + DQ + KC + KC + KM + widths + cells
         + F + F + M + F + M + P + FM + ww + ww + Mw
    BY <1>1, <1>2, <1>3, <2>3, <2>4
  <2> QED
    BY <2>5 DEF nM, DQ, KC, KM, FM, ww, Mw, K2, w2
<1> DEFINE all == SumOf(r)
<1>15. all \in Nat
  <2> DEFINE nM == n * M
             DQ == D * Q
             KC == K * Continuous
             KM == K * M
             FM == F * M
             ww == w * w
             Mw == M * w
  <2>1. nM \in Nat /\ DQ \in Nat /\ KC \in Nat /\ KM \in Nat /\ FM \in Nat /\ ww \in Nat /\ Mw \in Nat
    BY <1>10
  <2>2. all = nM + DQ + KC + KC + KM + widths + cells
         + F + F + M + F + M + P + FM + ww + ww + Mw
    BY <1>11
  <2> HIDE DEF nM, DQ, KC, KM, FM, ww, Mw, all
  <2> QED
    BY <1>1, <1>2, <1>3, <2>1, <2>2
<1>16. Plan(shape).numbers.heap = 8 * all + n + Slack
  BY <1>11, <1>13, <1>14
<1> HIDE DEF all
<1>18. Plan(shape).numbers.heap \in Nat
  BY <1>1, <1>15, <1>16 DEF Slack
<1>17. (n + 8 * all) + Slack = 8 * all + n + Slack
  BY <1>1, <1>15 DEF Slack
<1> QED
  BY <1>12, <1>16, <1>17, <1>18 DEF all

-----------------------------------------------------------------------------
(* The program: what each stage has found.                                  *)

Running == {"session", "store", "preflight", "authenticate", "rowKeys", "allocate", "load",
            "moments", "solve", "score", "validate"}
PastMagic == Running \ {"session", "store"}
PastPlan  == PastMagic \ {"preflight"}
PastDigest == PastPlan \ {"authenticate"}
PastKeys == PastDigest \ {"rowKeys"}
PastLoad == PastKeys \ {"allocate", "load"}
PastMoments == PastLoad \ {"moments"}

\* What the stages before this one have found.
Known(s) ==
    /\ s \in PastMagic => carried.magic
    /\ s \in PastPlan => PreflightStatus = Success /\ plan = Plan(carried.shape)
    /\ s \in PastDigest => carried.length = "exact" /\ Digest(carried) = Request.store /\ carried.payload
    /\ s \in PastKeys => KeysInOrder(carried.rows) /\ KeysFill(carried)
    /\ s \in PastLoad => /\ DomainsAgree(carried) /\ carried.padding
                         /\ \A r \in DOMAIN carried.rows : carried.rows[r].targets
    /\ s \in PastMoments => /\ TagsAgree(carried)
                            /\ \A r \in DOMAIN carried.rows : carried.rows[r].features

FilesAre == IsFile(sealed) /\ IsFile(carried) /\ sealed.request = "sound"

StageFollows ==
    /\ stage \in Running \cup {"write", "exited", "loaded", "tampered", "verified"}
    /\ stage \in Running => status = Success /\ Known(stage)
    /\ stage \notin Running /\ status = Success => Known("validate")
    /\ stage \in {"moments", "solve", "score"} => turn \in Nat \ {0}
    /\ stage = "moments" => \A r \in DOMAIN carried.rows : r < turn => carried.rows[r].features

RefusalsFollow == sealed = carried /\ status \in {Protocol, Resource} => ~Admits(sealed)

StageInv == FilesAre /\ StageFollows /\ RefusalsFollow

LEMMA VerdictsStay ==
    ASSUME sealed' = sealed, carried' = carried
    PROVE  /\ PreflightStatus' = PreflightStatus /\ Request' = Request
           /\ FilesAre => FilesAre'
BY DEF PreflightStatus, Request, FilesAre

LEMMA KnownStays ==
    ASSUME sealed' = sealed, carried' = carried, NEW s, Known(s), plan' = plan
    PROVE  Known(s)'
BY VerdictsStay DEF Known

LEMMA InRangeIs ==
    ASSUME NEW shape, IsShape(shape), InRange(shape)
    PROVE  shape.features >= Surface
<1>1. Limits.features \in Nat /\ shape.features \in Nat
  BY SidecarAssumption DEF IsShape
<1> QED
  BY <1>1 DEF InRange, Surface

\* Of a file that reaches it as it was sealed, the child thinks as the caller does.
LEMMA SameAsAdmitted ==
    ASSUME FilesAre, sealed = carried
    PROVE  /\ PreflightStatus = Success <=>
                /\ carried.layout /\ carried.digests /\ InRange(carried.shape) /\ RowKeysFit(carried.shape)
                /\ Catalogued(carried.shape) /\ EmbeddingStated(carried)
                /\ WithinLimits(carried.shape, Estimate(carried.shape))
<1> DEFINE shape == carried.shape
<1>1. IsShape(shape) /\ carried.request # "blank"
  BY DEF FilesAre, IsFile
<1>2. CASE InRange(shape)
  <2>0. WithinLimits(shape, Estimate(shape)) =>
          ~(FileBytes(shape) > Limits.store) /\ Estimate(shape).resultBytes \in Header.result..Limits.result
    <3> DEFINE result == Estimate(shape).resultBytes
               bytes == FileBytes(shape)
    <3>1. /\ Rows(shape) \in Nat /\ shape.keyBytes \in Nat
          /\ shape.features \in Nat /\ shape.targets \in Nat
      BY <1>1, <1>2, InRangeIs, DomainsAre DEF IsShape
    <3>2. Padded(DomainEnd(shape)) \in Nat
      <4>1. DomainEnd(shape) \in Nat
        BY <3>1 DEF DomainEnd, Header
      <4> QED
        BY <4>1 DEF Padded
    <3>3. bytes \in Nat
      <4>1. Rows(shape) * (shape.features + shape.targets) \in Nat
        BY <3>1
      <4> QED
        BY <3>1, <3>2, <4>1 DEF FileBytes
    <3>4. PICK n \in Nat : result = Header.result + n
      BY <1>1, <1>2, InRangeIs, ResultIsMore
    <3>5. Header.result \in Nat /\ Limits.result \in Nat /\ Limits.store \in Nat
      BY SidecarAssumption DEF Header
    <3>6. WithinLimits(shape, Estimate(shape)) => bytes <= Limits.store /\ result <= Limits.result
      BY DEF WithinLimits
    <3> HIDE DEF result, bytes
    <3>7. bytes <= Limits.store /\ result <= Limits.result =>
            ~(bytes > Limits.store) /\ result \in Header.result..Limits.result
      BY <3>3, <3>4, <3>5
    <3> QED
      BY <3>6, <3>7 DEF result, bytes
  <2>1. Plan(shape).numbers = Estimate(shape)
    BY <1>1, <1>2, InRangeIs, NumbersAgree
  <2>2. Request.bytes = Header.request + FileBytes(shape) /\ Request.result = Estimate(shape).resultBytes
    BY <1>2 DEF Request
  <2> DEFINE fine == /\ carried.layout /\ carried.digests /\ RowKeysFit(shape)
                     /\ Catalogued(shape) /\ EmbeddingStated(carried)
             fits == WithinLimits(shape, Estimate(shape))
  <2>3. PreflightStatus =
          LET unlike == ~fine \/ Estimate(shape).resultBytes \notin Header.result..Limits.result
          IN IF FileBytes(shape) > Limits.store THEN Resource
             ELSE IF unlike THEN Protocol ELSE IF ~fits THEN Resource ELSE Success
    <3>1. PreflightStatus =
            LET unlike == \/ ~carried.layout
                          \/ Request.bytes # Header.request + FileBytes(shape)
                          \/ Request.result \notin Header.result..Limits.result
                          \/ ~RowKeysFit(shape) \/ ~carried.digests \/ carried.request = "blank"
                          \/ ~Catalogued(shape) \/ ~EmbeddingStated(carried)
                numbers == Plan(shape).numbers
            IN IF FileBytes(shape) > Limits.store THEN Resource
               ELSE IF unlike THEN Protocol
               ELSE IF numbers.resultBytes # Request.result \/ ~WithinLimits(shape, numbers)
                    THEN Resource ELSE Success
      BY <1>2 DEF PreflightStatus
    <3> HIDE DEF shape
    <3> QED
      BY <1>1, <2>1, <2>2, <3>1, Zenon
  <2>4. PreflightStatus = Success <=> fine /\ fits
    <3> HIDE DEF fine, fits, shape
    <3> QED
      BY <2>0, <2>3 DEF Success, Protocol, Resource, fits
  <2> QED
    BY <1>2, <2>4
<1>3. CASE ~InRange(shape)
  BY <1>3 DEF PreflightStatus, Success, Resource
<1> QED
  BY <1>2, <1>3

LEMMA KnownIsAdmitted ==
    ASSUME FilesAre, sealed = carried, Known("validate")
    PROVE  Admits(sealed)
<1>1. /\ carried.magic /\ PreflightStatus = Success
      /\ carried.length = "exact" /\ carried.payload
      /\ KeysInOrder(carried.rows) /\ KeysFill(carried)
      /\ DomainsAgree(carried) /\ carried.padding
      /\ \A r \in DOMAIN carried.rows : carried.rows[r].targets
      /\ TagsAgree(carried)
      /\ \A r \in DOMAIN carried.rows : carried.rows[r].features
  BY DEF Known, PastMagic, PastPlan, PastDigest, PastKeys, PastLoad, PastMoments, Running
<1> QED
  BY <1>1, SameAsAdmitted DEF Admits, ScanStore, ParseHeader

LEMMA FailsWarranted ==
    ASSUME StageInv, NEW s, stage' = "write", status' = s, Alone, s # Success,
           sealed = carried /\ s \in {Protocol, Resource} => ~Admits(sealed)
    PROVE  StageInv'
<1>1. sealed' = sealed /\ carried' = carried
  BY DEF Alone
<1>2. FilesAre'
  BY <1>1, VerdictsStay DEF StageInv
<1>3. StageFollows'
  BY DEF StageFollows, Running
<1>4. RefusalsFollow'
  BY <1>1 DEF RefusalsFollow
<1> QED
  BY <1>2, <1>3, <1>4 DEF StageInv

LEMMA GoesOn ==
    ASSUME StageInv, NEW s, NEW t, stage = s, s \in Running, t \in Running,
           stage' = t, status' = status, Alone, Known(t)', turn' \in Nat \ {0},
           (stage = "moments" => \A r \in DOMAIN carried.rows : r < turn => carried.rows[r].features)'
    PROVE  StageInv'
<1>1. sealed' = sealed /\ carried' = carried
  BY DEF Alone
<1>2. FilesAre'
  BY <1>1, VerdictsStay DEF StageInv
<1>3. StageFollows'
  BY DEF StageInv, StageFollows
<1>4. RefusalsFollow'
  BY <1>1 DEF RefusalsFollow, StageInv, StageFollows, Success, Protocol, Resource
<1> QED
  BY <1>2, <1>3, <1>4 DEF StageInv

\* What the caller asks of a store, one by one.
LEMMA AdmittedIs ==
    ASSUME FilesAre, sealed = carried, Admits(sealed)
    PROVE  /\ carried.magic /\ carried.length = "exact" /\ carried.payload
           /\ PreflightStatus = Success
           /\ KeysInOrder(carried.rows) /\ KeysFill(carried)
           /\ DomainsAgree(carried) /\ carried.padding /\ TagsAgree(carried)
           /\ Digest(carried) = Request.store
BY SameAsAdmitted DEF Admits, ScanStore, ParseHeader, Request

LEMMA CodesDiffer ==
    /\ Internal # Success /\ Numeric # Success /\ Allocation # Success /\ Solving # Success
    /\ Protocol # Success /\ Resource # Success
    /\ {Internal, Numeric, Allocation, Solving} \cap {Protocol, Resource} = {}
BY DEF Internal, Numeric, Allocation, Solving, Protocol, Resource, Success

LEMMA StageInit == SidecarInit => StageInv
<1> SUFFICES ASSUME SidecarInit PROVE StageInv
  OBVIOUS
<1>1. FilesAre
  BY SidecarAssumption DEF SidecarInit, FilesAre
<1>2. StageFollows
  BY DEF SidecarInit, StageFollows, Running, Known, PastMagic, PastPlan, PastDigest, PastKeys,
         PastLoad, PastMoments
<1>3. RefusalsFollow
  BY CodesDiffer DEF SidecarInit, RefusalsFollow
<1> QED
  BY <1>1, <1>2, <1>3 DEF StageInv

\* A step of the program that fails with one of its own codes.
LEMMA OwnFailure ==
    ASSUME StageInv, NEW codes \in SUBSET {Internal, Numeric, Allocation, Solving}, MayFail(codes), Alone
    PROVE  StageInv'
<1>1. PICK s \in codes : Fail(s)
  BY DEF MayFail
<1> QED
  BY <1>1, CodesDiffer, FailsWarranted DEF Fail

LEMMA ReadSessionKeeps == ASSUME StageInv, ReadSession PROVE StageInv'
<1>1. CASE Goto("store")
  <2>1. stage' = "store" /\ status' = status /\ turn' = 1 /\ stage = "session" /\ Alone
    BY <1>1 DEF Goto, ReadSession
  <2>2. Known("store")'
    BY DEF Known, PastMagic, PastPlan, PastDigest, PastKeys, PastLoad, PastMoments
  <2> QED
    BY <2>1, <2>2, GoesOn DEF Running
<1>2. CASE carried.length = "inRequest" /\ Fail(Protocol)
  <2>1. sealed = carried => ~Admits(sealed)
    BY <1>2, AdmittedIs DEF StageInv
  <2> QED
    BY <1>2, <2>1, CodesDiffer, FailsWarranted DEF ReadSession, Fail
<1>3. CASE Fail(Internal)
  BY <1>3, CodesDiffer, FailsWarranted DEF ReadSession, Fail
<1>4. CASE carried.request = "unlike" /\ Fail(Protocol)
  <2>1. sealed # carried
    BY <1>4 DEF StageInv, FilesAre
  <2> QED
    BY <1>4, <2>1, CodesDiffer, FailsWarranted DEF ReadSession, Fail
<1> QED
  BY <1>1, <1>2, <1>3, <1>4 DEF ReadSession

LEMMA ReadStoreKeeps == ASSUME StageInv, ReadStore PROVE StageInv'
<1>1. CASE carried.magic /\ Goto("preflight")
  <2>1. stage' = "preflight" /\ status' = status /\ turn' = 1 /\ stage = "store" /\ Alone
    BY <1>1 DEF Goto, ReadStore
  <2>2. Known("preflight")'
    BY <1>1, <2>1 DEF Known, PastMagic, PastPlan, PastDigest, PastKeys, PastLoad, PastMoments, Alone
  <2> QED
    BY <2>1, <2>2, GoesOn DEF Running
<1>2. CASE ~carried.magic /\ Fail(Protocol)
  <2>1. sealed = carried => ~Admits(sealed)
    BY <1>2, AdmittedIs DEF StageInv
  <2> QED
    BY <1>2, <2>1, CodesDiffer, FailsWarranted DEF ReadStore, Fail
<1>3. CASE carried.length = "inHeader" /\ Fail(Protocol)
  <2>1. sealed = carried => ~Admits(sealed)
    BY <1>3, AdmittedIs DEF StageInv
  <2> QED
    BY <1>3, <2>1, CodesDiffer, FailsWarranted DEF ReadStore, Fail
<1>4. CASE Fail(Internal)
  BY <1>4, CodesDiffer, FailsWarranted DEF ReadStore, Fail
<1> QED
  BY <1>1, <1>2, <1>3, <1>4 DEF ReadStore

LEMMA PreflightKeeps == ASSUME StageInv, Preflight PROVE StageInv'
<1>0. stage = "preflight" /\ Alone /\ sealed' = sealed /\ carried' = carried /\ Known("preflight")
  BY DEF Preflight, Alone, StageInv, StageFollows, Running
<1>1. CASE PreflightStatus = Success
  <2>1. stage' = "authenticate" /\ status' = status /\ turn' = 1 /\ plan' = Plan(carried.shape)
    BY <1>1 DEF Goto, Preflight
  <2>2. PreflightStatus' = PreflightStatus
    BY <1>0, VerdictsStay
  <2>3. Known("authenticate")'
    BY <1>0, <1>1, <2>1, <2>2 DEF Known, PastMagic, PastPlan, PastDigest, PastKeys, PastLoad, PastMoments, Success,
       Running
  <2> QED
    BY <1>0, <2>1, <2>3, GoesOn DEF Running
<1>2. CASE PreflightStatus # Success
  <2>1. Fail(PreflightStatus)
    BY <1>2 DEF Preflight
  <2>2. sealed = carried => ~Admits(sealed)
    BY <1>2, AdmittedIs DEF StageInv
  <2> QED
    BY <1>0, <1>2, <2>1, <2>2, FailsWarranted DEF Fail
<1> QED
  BY <1>1, <1>2

\* A stage that keeps nothing but its verdict.
LEMMA StageKeeps ==
    ASSUME StageInv, NEW here \in Running, NEW next \in Running, NEW v,
           NEW codes \in SUBSET {Internal, Numeric, Allocation, Solving},
           Stage(here, next, v, codes), next # "moments",
           v = Success => (Known(here) => Known(next)),
           sealed = carried /\ v \in {Protocol, Resource} => ~Admits(sealed)
    PROVE  StageInv'
<1>0. stage = here /\ Alone /\ sealed' = sealed /\ carried' = carried /\ Known(here)
  BY DEF Stage, Alone, StageInv, StageFollows
<1>1. CASE v = Success /\ Goto(next) /\ UNCHANGED work
  <2>1. stage' = next /\ status' = status /\ turn' = 1 /\ plan' = plan
    BY <1>1 DEF Goto, work
  <2>2. Known(next)'
    BY <1>0, <1>1, <2>1, KnownStays
  <2> QED
    BY <1>0, <2>1, <2>2, GoesOn
<1>2. CASE v # Success /\ Fail(v)
  BY <1>0, <1>2, FailsWarranted DEF Fail
<1>3. CASE MayFail(codes)
  BY <1>0, <1>3, OwnFailure
<1> QED
  BY <1>1, <1>2, <1>3 DEF Stage

LEMMA AuthenticateKeeps == ASSUME StageInv, Authenticate PROVE StageInv'
<1> DEFINE v == IF carried.length = "exact" /\ Digest(carried) = Request.store /\ carried.payload
                THEN Success ELSE Protocol
<1>1. v = Success => (Known("authenticate") => Known("rowKeys"))
  BY CodesDiffer DEF Known, PastMagic, PastPlan, PastDigest, PastKeys, PastLoad, PastMoments, Running
<1>2. sealed = carried /\ v \in {Protocol, Resource} => ~Admits(sealed)
  BY AdmittedIs, CodesDiffer DEF StageInv
<1>3. Stage("authenticate", "rowKeys", v, {Internal})
  BY DEF Authenticate
<1> HIDE DEF v
<1> QED
  BY <1>1, <1>2, <1>3, StageKeeps DEF Running

LEMMA RowKeysKeeps == ASSUME StageInv, RowKeys PROVE StageInv'
<1> DEFINE v == IF KeysInOrder(carried.rows) /\ KeysFill(carried) THEN Success ELSE Protocol
<1>1. v = Success => (Known("rowKeys") => Known("allocate"))
  BY CodesDiffer DEF Known, PastMagic, PastPlan, PastDigest, PastKeys, PastLoad, PastMoments, Running
<1>2. sealed = carried /\ v \in {Protocol, Resource} => ~Admits(sealed)
  BY AdmittedIs, CodesDiffer DEF StageInv
<1>3. Stage("rowKeys", "allocate", v, {Internal})
  BY DEF RowKeys
<1> HIDE DEF v
<1> QED
  BY <1>1, <1>2, <1>3, StageKeeps DEF Running

LEMMA ValidateKeeps == ASSUME StageInv, Validate PROVE StageInv'
<1> DEFINE codes == IF \E cells \in {weights, scores, side.means, side.scales, side.intercepts} : UnsetIn(cells)
                     THEN {Numeric} ELSE {}
<1>0. /\ stage = "validate" /\ Alone /\ sealed' = sealed /\ carried' = carried
      /\ status = Success /\ Known("validate")
  BY DEF Validate, Stage, Alone, StageInv, StageFollows, Running
<1>1. CASE Goto("write") /\ UNCHANGED work
  <2>1. stage' = "write" /\ status' = status /\ plan' = plan
    BY <1>1 DEF Goto, work
  <2>2. Known("validate")'
    BY <1>0, <2>1, KnownStays
  <2>3. StageFollows'
    BY <1>0, <2>1, <2>2 DEF StageFollows, Running
  <2>4. RefusalsFollow'
    BY <1>0, <2>1, CodesDiffer DEF RefusalsFollow
  <2> QED
    BY <1>0, <2>3, <2>4, VerdictsStay DEF StageInv
<1>2. CASE MayFail(codes)
  <2>1. codes \in SUBSET {Internal, Numeric, Allocation, Solving}
    OBVIOUS
  <2> HIDE DEF codes
  <2> QED
    BY <1>0, <1>2, <2>1, OwnFailure
<1> HIDE DEF codes
<1>3. Stage("validate", "write", Success, codes)
  BY DEF Validate, codes
<1> QED
  BY <1>1, <1>2, <1>3 DEF Stage

LEMMA AllocateKeeps == ASSUME StageInv, Allocate PROVE StageInv'
<1>0. stage = "allocate" /\ Alone /\ sealed' = sealed /\ carried' = carried /\ Known("allocate")
  BY DEF Allocate, Alone, StageInv, StageFollows, Running
<1>1. CASE Goto("load") /\ plan' = plan
  <2>1. stage' = "load" /\ status' = status /\ turn' = 1
    BY <1>1 DEF Goto
  <2>2. Known("allocate")'
    BY <1>0, <1>1, KnownStays
  <2>3. Known("load")'
    BY <2>2 DEF Known, PastMagic, PastPlan, PastDigest, PastKeys, PastLoad, PastMoments, Running
  <2> QED
    BY <1>0, <2>1, <2>3, GoesOn DEF Running
<1>2. CASE Fail(Allocation)
  BY <1>0, <1>2, CodesDiffer, FailsWarranted DEF Fail
<1> QED
  BY <1>1, <1>2 DEF Allocate

LEMMA LoadKeeps == ASSUME StageInv, Load PROVE StageInv'
<1>0. /\ stage = "load" /\ Alone /\ sealed' = sealed /\ carried' = carried /\ Known("load") /\ FilesAre
  BY DEF Load, Stage, Alone, StageInv, StageFollows, Running
<1> DEFINE v == IF ~DomainsAgree(carried) \/ ~carried.padding THEN Protocol
                ELSE IF \E r \in DOMAIN carried.rows : ~carried.rows[r].targets THEN Numeric
                ELSE Success
<1>1. v = Success => /\ DomainsAgree(carried) /\ carried.padding
                     /\ \A r \in DOMAIN carried.rows : carried.rows[r].targets
  BY CodesDiffer
<1>2. sealed = carried /\ v \in {Protocol, Resource} => ~Admits(sealed)
  BY AdmittedIs, CodesDiffer DEF StageInv
<1>3. \/ v = Success /\ Goto("moments") /\ UNCHANGED work
      \/ v # Success /\ Fail(v)
      \/ MayFail({Internal})
  BY DEF Load, Stage
<1> HIDE DEF v
<1>4. CASE v = Success /\ Goto("moments") /\ UNCHANGED work
  <2>1. stage' = "moments" /\ status' = status /\ turn' = 1 /\ plan' = plan
    BY <1>4 DEF Goto, work
  <2>2. Known("load")'
    BY <1>0, <2>1, KnownStays
  <2>3. Known("moments")'
    BY <1>0, <1>1, <1>4, <2>2 DEF Known, PastMagic, PastPlan, PastDigest, PastKeys, PastLoad, PastMoments, Running
  <2>4. \A r \in DOMAIN carried.rows : r \in Nat \ {0}
    BY <1>0 DEF FilesAre, IsFile
  <2>5. \A r \in DOMAIN carried'.rows : r < turn' => carried'.rows[r].features
    BY <1>0, <2>1, <2>4
  <2> QED
    BY <1>0, <2>1, <2>3, <2>5, GoesOn DEF Running
<1>5. CASE v # Success /\ Fail(v)
  BY <1>0, <1>2, <1>5, FailsWarranted DEF Fail
<1>6. CASE MayFail({Internal})
  BY <1>0, <1>6, OwnFailure
<1> QED
  BY <1>3, <1>4, <1>5, <1>6

LEMMA MomentsKeeps == ASSUME StageInv, Moments PROVE StageInv'
<1>0. /\ stage = "moments" /\ Alone /\ sealed' = sealed /\ carried' = carried /\ Known("moments") /\ FilesAre
      /\ turn \in Nat \ {0} /\ \A r \in DOMAIN carried.rows : r < turn => carried.rows[r].features
  BY DEF Moments, Alone, StageInv, StageFollows, Running
<1>1. CASE carried.rows[turn].features /\ Repeat /\ plan' = plan
  <2>1. stage' = "moments" /\ status' = status /\ turn' = turn + 1
    BY <1>0, <1>1 DEF Repeat
  <2>2. Known("moments")'
    BY <1>0, <1>1, KnownStays
  <2>3. \A r \in DOMAIN carried.rows : r \in Nat
    BY <1>0 DEF FilesAre, IsFile
  <2>4. \A r \in DOMAIN carried'.rows : r < turn' => carried'.rows[r].features
    BY <1>0, <1>1, <2>1, <2>3
  <2> QED
    BY <1>0, <2>1, <2>2, <2>4, GoesOn DEF Running
<1>2. CASE MayFail({Numeric, Internal})
  BY <1>0, <1>2, OwnFailure
<1> QED
  BY <1>1, <1>2 DEF Moments

LEMMA CheckMomentsKeeps == ASSUME StageInv, CheckMoments PROVE StageInv'
<1>0. /\ stage = "moments" /\ Alone /\ sealed' = sealed /\ carried' = carried /\ Known("moments") /\ FilesAre
      /\ turn \in Nat \ {0} /\ \A r \in DOMAIN carried.rows : r < turn => carried.rows[r].features
      /\ turn > Len(carried.rows)
  BY DEF CheckMoments, Alone, StageInv, StageFollows, Running
<1>1. CASE TagsAgree(carried) /\ Goto("solve") /\ UNCHANGED work
  <2>1. stage' = "solve" /\ status' = status /\ turn' = 1 /\ plan' = plan
    BY <1>1 DEF Goto, work
  <2>2. Known("moments")'
    BY <1>0, <2>1, KnownStays
  <2>3. \A r \in DOMAIN carried.rows : r < turn
    BY <1>0 DEF FilesAre, IsFile
  <2>4. Known("solve")'
    BY <1>0, <1>1, <2>2, <2>3 DEF Known, PastMagic, PastPlan, PastDigest, PastKeys, PastLoad, PastMoments, Running
  <2> QED
    BY <1>0, <2>1, <2>4, GoesOn DEF Running
<1>2. CASE ~TagsAgree(carried) /\ Fail(Protocol)
  <2>1. sealed = carried => ~Admits(sealed)
    BY <1>2, AdmittedIs DEF StageInv
  <2> QED
    BY <1>0, <1>2, <2>1, CodesDiffer, FailsWarranted DEF Fail
<1>3. CASE Fail(Numeric)
  BY <1>0, <1>3, CodesDiffer, FailsWarranted DEF Fail
<1> QED
  BY <1>1, <1>2, <1>3 DEF CheckMoments

LEMMA SolveKeeps == ASSUME StageInv, Solve PROVE StageInv'
<1>0. /\ stage = "solve" /\ Alone /\ sealed' = sealed /\ carried' = carried /\ Known("solve")
      /\ turn \in Nat \ {0}
  BY DEF Solve, Alone, StageInv, StageFollows, Running
<1>1. CASE plan' = plan /\ (Goto("score") \/ Repeat)
  <2>1. stage' \in {"score", "solve"} /\ status' = status /\ turn' \in Nat \ {0}
    BY <1>0, <1>1 DEF Goto, Repeat
  <2>2. Known("solve")'
    BY <1>0, <1>1, KnownStays
  <2>3. Known("score")'
    BY <2>2 DEF Known, PastMagic, PastPlan, PastDigest, PastKeys, PastLoad, PastMoments, Running
  <2> QED
    BY <1>0, <2>1, <2>2, <2>3, GoesOn DEF Running
<1>2. CASE Fail(Internal)
  BY <1>0, <1>2, CodesDiffer, FailsWarranted DEF Fail
<1>3. CASE MayFail({Numeric, Solving})
  BY <1>0, <1>3, OwnFailure
<1> QED
  BY <1>1, <1>2, <1>3 DEF Solve

LEMMA ScoreKeeps == ASSUME StageInv, Score PROVE StageInv'
<1>0. /\ stage = "score" /\ Alone /\ sealed' = sealed /\ carried' = carried /\ Known("score")
      /\ turn \in Nat \ {0}
  BY DEF Score, Alone, StageInv, StageFollows, Running
<1>1. CASE plan' = plan /\ (Goto("validate") \/ Repeat)
  <2>1. stage' \in {"score", "validate"} /\ status' = status /\ turn' \in Nat \ {0}
    BY <1>0, <1>1 DEF Goto, Repeat
  <2>2. Known("score")'
    BY <1>0, <1>1, KnownStays
  <2>3. Known("validate")'
    BY <2>2 DEF Known, PastMagic, PastPlan, PastDigest, PastKeys, PastLoad, PastMoments, Running
  <2> QED
    BY <1>0, <2>1, <2>2, <2>3, GoesOn DEF Running
<1>2. CASE MayFail({Numeric, Internal})
  BY <1>0, <1>2, OwnFailure
<1> QED
  BY <1>1, <1>2 DEF Score

\* Once the child has written, nothing it knew changes any more.
LEMMA AfterwardsKeeps ==
    ASSUME StageInv, stage \notin {"session", "store", "preflight", "authenticate", "rowKeys", "allocate",
                                   "load", "moments", "solve", "score", "validate"},
           stage' \in {"exited", "loaded", "tampered", "verified"},
           UNCHANGED <<sealed, carried, status, work>>
    PROVE  StageInv'
<1>1. sealed' = sealed /\ carried' = carried /\ status' = status /\ plan' = plan
  BY DEF work
<1>2. FilesAre' /\ RefusalsFollow'
  BY <1>1, VerdictsStay DEF StageInv, RefusalsFollow
<1>3. status = Success => Known("validate")'
  BY <1>1, KnownStays DEF StageInv, StageFollows, Running
<1>4. StageFollows'
  BY <1>1, <1>3 DEF StageFollows, Running
<1> QED
  BY <1>2, <1>4 DEF StageInv

LEMMA StageStep == ASSUME StageInv, [SidecarNext]_sidecar PROVE StageInv'
<1>1. ASSUME UNCHANGED sidecar PROVE StageInv'
  <2>1. sealed' = sealed /\ carried' = carried /\ status' = status /\ plan' = plan /\ stage' = stage /\ turn' = turn
    BY <1>1 DEF sidecar, program
  <2>2. Known(stage) => Known(stage)'
    <3>1. PreflightStatus' = PreflightStatus /\ Request' = Request
      BY <2>1, VerdictsStay
    <3> QED
      BY <2>1, <3>1 DEF Known
  <2>3. Known("validate") => Known("validate")'
    BY <2>1, KnownStays
  <2>4. FilesAre' /\ RefusalsFollow'
    BY <2>1, VerdictsStay DEF StageInv, RefusalsFollow
  <2>5. StageFollows'
    BY <2>1, <2>2, <2>3 DEF StageInv, StageFollows, Running
  <2> QED
    BY <2>4, <2>5 DEF StageInv
<1>2. ASSUME Write PROVE StageInv'
  BY <1>2, AfterwardsKeeps DEF Write
<1>3. ASSUME LoadResult PROVE StageInv'
  BY <1>3, AfterwardsKeeps DEF LoadResult
<1>4. ASSUME Tamper PROVE StageInv'
  BY <1>4, AfterwardsKeeps DEF Tamper
<1>5. ASSUME VerifyIntegrity PROVE StageInv'
  BY <1>5, AfterwardsKeeps DEF VerifyIntegrity
<1>6. ASSUME Settled PROVE StageInv'
  BY <1>1, <1>6 DEF Settled
<1> QED
  BY <1>1, <1>2, <1>3, <1>4, <1>5, <1>6, ReadSessionKeeps, ReadStoreKeeps, PreflightKeeps,
     AuthenticateKeeps, RowKeysKeeps, AllocateKeeps, LoadKeeps, MomentsKeeps, CheckMomentsKeeps,
     SolveKeeps, ScoreKeeps, ValidateKeeps DEF SidecarNext

LEMMA AgreementFollows == StageInv => PreflightsAgree
<1> SUFFICES ASSUME StageInv PROVE PreflightsAgree
  OBVIOUS
<1>1. ASSUME sealed = carried, stage = "exited"
      PROVE  /\ status \in {Protocol, Resource} => ~Admits(sealed)
             /\ status = Success => Admits(sealed)
  BY <1>1, KnownIsAdmitted DEF StageInv, RefusalsFollow, StageFollows, Running
<1>2. ASSUME stage = "authenticate"
      PROVE  /\ plan.numbers = Estimate(carried.shape)
             /\ AllocatedBytes(carried.shape, plan.subsets, plan.blocks) + Slack <= plan.numbers.heap
  <2> DEFINE shape == carried.shape
  <2>1. plan = Plan(shape) /\ PreflightStatus = Success /\ IsShape(shape)
    BY <1>2 DEF StageInv, StageFollows, FilesAre, IsFile, Known, Running, PastPlan, PastMagic
  <2>2. InRange(shape)
    BY <2>1 DEF PreflightStatus, Success, Resource
  <2>3. shape.features >= Surface
    BY <2>1, <2>2, InRangeIs
  <2>4. Plan(shape).numbers = Estimate(shape)
    BY <2>1, <2>3, NumbersAgree
  <2>5. AllocatedBytes(shape, Plan(shape).subsets, Plan(shape).blocks) + Slack = Plan(shape).numbers.heap
    BY <2>1, <2>3, HeapIsWhatIsAllocated
  <2>6. Plan(shape).numbers.heap \in Nat
    BY <2>1, <2>3, HeapIsWhatIsAllocated
  <2> HIDE DEF shape
  <2>7. AllocatedBytes(shape, plan.subsets, plan.blocks) + Slack <= plan.numbers.heap
    BY <2>1, <2>5, <2>6
  <2>8. plan.numbers = Estimate(shape)
    BY <2>1, <2>4
  <2> QED
    BY <2>7, <2>8 DEF shape
<1> QED
  BY <1>1, <1>2 DEF PreflightsAgree

(* The two ends agree: at every stage what was found so far is what the     *)
(* caller's own scan asks of the file, and the plan of an admitted store is *)
(* the caller's estimate, number by number, whatever its domains, rows and  *)
(* tags (preflight_session, estimate_prepared_session).                     *)
THEOREM SidecarAgrees == SidecarSpec => []PreflightsAgree
<1>1. StageInv /\ [SidecarNext]_sidecar => StageInv'
  BY StageStep
<1>2. SidecarSpec => []StageInv
  BY StageInit, <1>1, PTL DEF SidecarSpec
<1> QED
  BY AgreementFollows, <1>2, PTL

-----------------------------------------------------------------------------
(* What it writes, record by record.                                        *)

\* Any function on the first numbers is a sequence over something.
LEMMA SequenceOverSome ==
    ASSUME NEW m \in Nat, NEW f, f = [i \in 1 .. m |-> f[i]]
    PROVE  /\ Len(f) = m /\ DOMAIN f = 1 .. m
           /\ \E S : f \in Seq(S) /\ \A T : S \subseteq T => f \in Seq(T)
<1> DEFINE S == {f[i] : i \in 1 .. m}
<1>1. f \in [1 .. m -> S]
  OBVIOUS
<1> HIDE DEF S
<1>2. f \in Seq(S) /\ Len(f) = m
  BY <1>1
<1>3. ASSUME NEW T, S \subseteq T PROVE f \in Seq(T)
  <2>1. f \in [1 .. m -> T]
    BY <1>1, <1>3
  <2> QED
    BY <2>1
<1> QED
  BY <1>1, <1>2, <1>3

LEMMA JoinedIs ==
    ASSUME NEW m \in Nat, NEW f, f = [i \in 1 .. m |-> f[i]],
           NEW n \in Nat, NEW g, g = [i \in 1 .. n |-> g[i]]
    PROVE  /\ Len(f \o g) = m + n /\ DOMAIN (f \o g) = 1 .. (m + n)
           /\ f \o g = [i \in 1 .. (m + n) |-> IF i <= m THEN f[i] ELSE g[i - m]]
           /\ \A i \in 1 .. m : (f \o g)[i] = f[i]
           /\ \A i \in 1 .. n : (f \o g)[m + i] = g[i]
           /\ f \o g = [i \in 1 .. (m + n) |-> (f \o g)[i]]
<1>1. PICK S : f \in Seq(S) /\ \A T : S \subseteq T => f \in Seq(T)
  BY SequenceOverSome
<1>2. PICK U : g \in Seq(U) /\ \A T : U \subseteq T => g \in Seq(T)
  BY SequenceOverSome
<1>3. f \in Seq(S \cup U) /\ g \in Seq(S \cup U) /\ Len(f) = m /\ Len(g) = n
  BY <1>1, <1>2, SequenceOverSome
<1> DEFINE h == f \o g
           T == S \cup U
<1>4. h \in Seq(T) /\ Len(h) = m + n
  BY <1>3
<1>5. /\ \A i \in 1 .. m : h[i] = f[i]
      /\ \A i \in 1 .. n : h[m + i] = g[i]
  BY <1>3
<1> HIDE DEF h
<1>6. DOMAIN h = 1 .. (m + n) /\ h = [i \in 1 .. (m + n) |-> h[i]]
  BY <1>4
<1>7. ASSUME NEW i \in 1 .. (m + n) PROVE h[i] = IF i <= m THEN f[i] ELSE g[i - m]
  <2>1. CASE i <= m
    BY <1>5, <2>1
  <2>2. CASE ~(i <= m)
    <3>1. i - m \in 1 .. n /\ m + (i - m) = i
      BY <2>2
    <3> QED
      BY <1>5, <2>2, <3>1
  <2> QED
    BY <2>1, <2>2
<1>8. h = [i \in 1 .. (m + n) |-> IF i <= m THEN f[i] ELSE g[i - m]]
  BY <1>6, <1>7
<1> QED
  BY <1>4, <1>5, <1>6, <1>8 DEF h

IsList(f, m) == m \in Nat /\ f = [i \in 1 .. m |-> f[i]]

Heads(x, rest, m, all) ==
    /\ all # << >> /\ Len(all) = 1 + m /\ all[1] = x /\ Tail(all) = rest /\ IsList(all, 1 + m)
    /\ \A i \in 1 .. m : all[i + 1] = rest[i]

LEMMA HeadedIs ==
    ASSUME NEW f, NEW m, IsList(f, m), NEW g, NEW n, IsList(g, n), NEW x
    PROVE  Heads(x, f \o g, m + n, (<<x>> \o f) \o g)
<1> DEFINE e == <<x>>
           a == e \o f
           all == a \o g
           h == f \o g
<1> USE DEF IsList
<1>0. e = [i \in 1 .. 1 |-> e[i]] /\ e[1] = x
  OBVIOUS
<1> HIDE DEF e
<1>1. /\ Len(a) = 1 + m /\ a = [i \in 1 .. (1 + m) |-> a[i]] /\ a[1] = x
      /\ \A i \in 1 .. m : a[1 + i] = f[i]
  <2>1. 1 \in Nat /\ 1 \in 1 .. 1
    OBVIOUS
  <2> QED
    BY <1>0, <2>1, JoinedIs
<1> HIDE DEF a
<1> DEFINE p == 1 + m
<1>2. /\ Len(all) = (1 + m) + n /\ DOMAIN all = 1 .. ((1 + m) + n)
      /\ all = [i \in 1 .. ((1 + m) + n) |-> all[i]]
      /\ \A i \in 1 .. (1 + m) : all[i] = a[i]
      /\ \A i \in 1 .. n : all[(1 + m) + i] = g[i]
  <2>1. p \in Nat /\ a = [i \in 1 .. p |-> a[i]]
    BY <1>1
  <2> HIDE DEF p
  <2>2. /\ Len(all) = p + n /\ DOMAIN all = 1 .. (p + n)
        /\ all = [i \in 1 .. (p + n) |-> all[i]]
        /\ \A i \in 1 .. p : all[i] = a[i]
        /\ \A i \in 1 .. n : all[p + i] = g[i]
    <3>1. n \in Nat /\ g = [i \in 1 .. n |-> g[i]]
      OBVIOUS
    <3> HIDE DEF all
    <3>2. all = a \o g
      BY DEF all
    <3> QED
      BY ONLY <2>1, <3>1, <3>2, JoinedIs
  <2> QED
    BY <2>2 DEF p
<1>3. /\ Len(h) = m + n /\ h = [i \in 1 .. (m + n) |-> h[i]]
      /\ \A i \in 1 .. m : h[i] = f[i]
      /\ \A i \in 1 .. n : h[m + i] = g[i]
  BY JoinedIs
<1> HIDE DEF all, h
<1>4. all[1] = x
  <2>1. 1 \in 1 .. (1 + m)
    OBVIOUS
  <2> QED
    BY <1>1, <1>2, <2>1
<1>5. ASSUME NEW i \in 1 .. (m + n) PROVE all[i + 1] = h[i]
  <2>1. CASE i <= m
    <3>1. i \in 1 .. m /\ i + 1 = 1 + i /\ 1 + i \in 1 .. (1 + m)
      BY <2>1
    <3> QED
      BY <1>1, <1>2, <1>3, <3>1
  <2>2. CASE ~(i <= m)
    <3> DEFINE j == i - m
    <3>1. j \in 1 .. n /\ m + j = i /\ (1 + m) + j = i + 1
      BY <2>2
    <3> HIDE DEF j
    <3>2. h[m + j] = g[j]
      BY <1>3, <3>1
    <3>3. all[(1 + m) + j] = g[j]
      BY <1>2, <3>1
    <3> QED
      BY <3>1, <3>2, <3>3
  <2> QED
    BY <2>1, <2>2
<1>6. PICK S : all \in Seq(S)
  <2>1. (1 + m) + n \in Nat
    OBVIOUS
  <2> QED
    BY <1>2, <2>1, SequenceOverSome
<1>7. all # << >>
  BY <1>2
<1>8. Tail(all) = [i \in 1 .. (m + n) |-> all[i + 1]]
  <2> DEFINE t == Tail(all)
  <2>1. t \in Seq(S) /\ Len(t) = Len(all) - 1 /\ \A i \in 1 .. Len(t) : t[i] = all[i + 1]
    BY <1>6, <1>7
  <2>2. Len(all) - 1 = m + n
    BY <1>2
  <2> HIDE DEF t
  <2>3. DOMAIN t = 1 .. (m + n) /\ t = [i \in 1 .. (m + n) |-> t[i]]
    BY <2>1, <2>2
  <2> QED
    BY <2>1, <2>2, <2>3 DEF t
<1>9. Tail(all) = h
  BY <1>3, <1>5, <1>8
<1>10. Len(all) = 1 + (m + n)
  BY <1>2
<1> DEFINE k == m + n
<1>11. Heads(x, h, k, all)
  <2>1. all # << >> /\ Len(all) = 1 + k /\ all[1] = x /\ Tail(all) = h
    BY <1>4, <1>7, <1>9, <1>10
  <2>2. \A i \in 1 .. k : all[i + 1] = h[i]
    BY <1>5
  <2>3. (1 + m) + n = 1 + k /\ 1 + k \in Nat
    OBVIOUS
  <2> HIDE DEF k
  <2>4. IsList(all, 1 + k)
    BY <1>2, <2>3 DEF IsList
  <2> QED
    BY <2>1, <2>2, <2>4 DEF Heads
<1> QED
  BY <1>11 DEF all, a, e, h, k

\* The total of two sequences in a row.
LEMMA TotalOfJoined ==
    ASSUME NEW u \in Seq(Nat), NEW v \in Seq(Nat)
    PROVE  u \o v \in Seq(Nat) /\ Total(u \o v) = Total(u) + Total(v)
<1> DEFINE m == Len(u)
           n == Len(v)
           w == u \o v
           f == RunningTotals(u)
           h == RunningTotals(v)
           g == [i \in 0 .. (m + n) |-> IF i <= m THEN f[i] ELSE f[m] + h[i - m]]
<1>1. /\ m \in Nat /\ n \in Nat /\ w \in Seq(Nat) /\ Len(w) = m + n
      /\ \A i \in 1 .. m : w[i] = u[i]
      /\ \A i \in 1 .. n : w[m + i] = v[i]
  OBVIOUS
<1>2. f[0] = 0 /\ (\A i \in 1 .. m : f[i] = f[i - 1] + u[i]) /\ (\A i \in 0 .. m : f[i] \in Nat) /\ Total(u) = f[m]
  BY RunningTotalsAt
<1>3. h[0] = 0 /\ (\A i \in 1 .. n : h[i] = h[i - 1] + v[i]) /\ (\A i \in 0 .. n : h[i] \in Nat) /\ Total(v) = h[n]
  BY RunningTotalsAt
<1>4. /\ \A i \in 0 .. m : g[i] = f[i]
      /\ \A i \in 0 .. n : g[m + i] = f[m] + h[i]
  <2> HIDE DEF f, h, m, n
  <2>1. ASSUME NEW i \in 0 .. n PROVE g[m + i] = f[m] + h[i]
    <3>1. CASE i = 0
      <4>1. f[m] + h[i] = f[m] /\ m + i = m /\ m \in 0 .. (m + n)
        BY <1>1, <1>2, <1>3, <3>1
      <4> QED
        BY <4>1
    <3>2. CASE i # 0
      <4>1. m + i \in 0 .. (m + n) /\ ~(m + i <= m) /\ (m + i) - m = i
        BY <1>1, <3>2
      <4> QED
        BY <4>1
    <3> QED
      BY <3>1, <3>2
  <2>2. \A i \in 0 .. m : g[i] = f[i]
    BY <1>1
  <2> QED
    BY <2>1, <2>2
<1>5. g[0] = 0
  BY <1>1, <1>2, <1>4
<1> HIDE DEF g, f, h, w, m, n
<1>6. ASSUME NEW i \in 1 .. (m + n) PROVE g[i] = g[i - 1] + w[i]
  <2>1. CASE i <= m
    <3>1. i \in 1 .. m /\ i \in 0 .. m /\ i - 1 \in 0 .. m
      BY <1>1, <2>1
    <3> QED
      BY <1>1, <1>2, <1>4, <3>1
  <2>2. CASE ~(i <= m)
    <3> DEFINE j == i - m
    <3>1. j \in 1 .. n /\ j \in 0 .. n /\ j - 1 \in 0 .. n /\ m + j = i /\ m + (j - 1) = i - 1
      BY <1>1, <2>2
    <3> HIDE DEF j
    <3>2. g[m + j] = f[m] + h[j] /\ g[m + (j - 1)] = f[m] + h[j - 1]
      BY <1>4, <3>1
    <3>3. h[j] = h[j - 1] + v[j] /\ w[m + j] = v[j]
      BY <1>1, <1>3, <3>1
    <3>6. v[j] \in Nat
      BY <3>1 DEF n
    <3>4. f[m] \in Nat /\ h[j - 1] \in Nat /\ v[j] \in Nat
      BY <1>1, <1>2, <1>3, <3>1, <3>6
    <3>5. f[m] + h[j] = (f[m] + h[j - 1]) + v[j]
      BY <3>3, <3>4
    <3> QED
      BY <3>1, <3>2, <3>3, <3>5
  <2> QED
    BY <2>1, <2>2
<1>7. \A i \in 0 .. Len(w) : RunningTotals(w)[i] = g[i]
  <2>1. \A i \in 1 .. Len(w) : g[i] = g[i - 1] + w[i]
    BY <1>1, <1>6
  <2> QED
    BY <1>1, <1>5, <2>1, TotalsAreThese
<1>8. Total(w) = RunningTotals(w)[Len(w)]
  BY <1>1, RunningTotalsAt
<1>9. Total(w) = g[m + n] /\ g[m + n] = f[m] + h[n]
  BY <1>1, <1>4, <1>7, <1>8
<1> QED
  BY <1>1, <1>2, <1>3, <1>9 DEF w

LEMMA TotalOfAffine ==
    ASSUME NEW x \in Seq(Nat), NEW m \in Nat, NEW e \in Nat,
           NEW w, w = [j \in 1 .. Len(x) |-> m * x[j] + e]
    PROVE  w \in Seq(Nat) /\ Len(w) = Len(x) /\ Total(w) = m * Total(x) + Len(x) * e
<1> DEFINE N == Len(x)
           c == [j \in 1 .. N |-> e]
           s == [j \in 1 .. N |-> m * x[j]]
<1>1. N \in Nat /\ \A j \in 1 .. N : x[j] \in Nat
  OBVIOUS
<1>2. ASSUME NEW a \in Nat PROVE m * a \in Nat /\ m * a + e \in Nat
  OBVIOUS
<1>3. c \in [1 .. N -> Nat]
  OBVIOUS
<1>4. s \in [1 .. N -> Nat] /\ w \in [1 .. N -> Nat]
  BY <1>1, <1>2
<1>5. /\ \A j \in 1 .. N : s[j] = m * x[j] /\ c[j] = e
      /\ \A j \in 1 .. N : w[j] = s[j] + c[j]
  OBVIOUS
<1>6. SumOf(c) = N * e
  <2>1. IsFiniteSet(1 .. N) /\ Cardinality(1 .. N) = N
    <3> HIDE DEF N
    <3> QED
      BY <1>1, FS_Interval
  <2> QED
    BY <2>1, SumOfConstant
<1> HIDE DEF N, c, s
<1>7. c \in Seq(Nat) /\ s \in Seq(Nat) /\ w \in Seq(Nat) /\ Len(c) = N /\ Len(s) = N /\ Len(w) = N
  BY <1>1, <1>3, <1>4, TupleOfNumbers
<1>8. Total(c) = N * e
  BY <1>3, <1>6, <1>7, TotalIsSum
<1>9. Total(s) = m * Total(x)
  <2>1. Len(x) = Len(s) /\ \A j \in 1 .. Len(s) : s[j] = m * x[j]
    BY <1>5, <1>7 DEF N
  <2> QED
    BY <1>7, <2>1, TotalOfScaled
<1>10. Total(w) = Total(s) + Total(c)
  <2>1. Len(s) = Len(w) /\ Len(c) = Len(w) /\ \A j \in 1 .. Len(w) : w[j] = s[j] + c[j]
    BY <1>5, <1>7
  <2> QED
    BY <1>7, <2>1, TotalOfSums
<1> QED
  BY <1>7, <1>8, <1>9, <1>10 DEF N

LEMMA SliceIs ==
    ASSUME NEW cells, NEW from, NEW count \in Nat
    PROVE  /\ Slice(cells, from, count) = [c \in 1 .. count |-> Slice(cells, from, count)[c]]
           /\ Len(Slice(cells, from, count)) = count
           /\ \A c \in 1 .. count : Slice(cells, from, count)[c] = cells[from + c - 1]
<1>1. Slice(cells, from, count) = [c \in 1 .. count |-> cells[from + c - 1]]
  BY DEF Slice
<1> DEFINE f == Slice(cells, from, count)
<1>2. f = [c \in 1 .. count |-> f[c]] /\ \A c \in 1 .. count : f[c] = cells[from + c - 1]
  BY <1>1
<1> HIDE DEF f
<1> QED
  BY <1>2, SequenceOverSome DEF f

LEMMA ListsJoined ==
    ASSUME NEW f, NEW m, IsList(f, m), NEW g, NEW n, IsList(g, n)
    PROVE  IsList(f \o g, m + n) /\ Len(f \o g) = m + n
<1>1. m \in Nat /\ f = [i \in 1 .. m |-> f[i]]
  BY DEF IsList
<1>2. n \in Nat /\ g = [i \in 1 .. n |-> g[i]]
  BY DEF IsList
<1>3. Len(f \o g) = m + n /\ f \o g = [i \in 1 .. (m + n) |-> (f \o g)[i]]
  BY ONLY <1>1, <1>2, JoinedIs
<1>4. m + n \in Nat
  BY <1>1, <1>2
<1> QED
  BY <1>3, <1>4 DEF IsList

LEMMA FourSlices ==
    ASSUME NEW f, NEW m, IsList(f, m), NEW g, NEW n, IsList(g, n),
           NEW h, NEW p, IsList(h, p), NEW e, NEW q, IsList(e, q)
    PROVE  Len(((f \o g) \o h) \o e) = m + n + p + q
<1>1. IsList(f \o g, m + n)
  BY ListsJoined
<1>2. IsList((f \o g) \o h, m + n + p)
  BY <1>1, ListsJoined
<1> DEFINE a == (f \o g) \o h
           r == m + n + p
<1>3. Len(a \o e) = r + q
  <2>1. IsList(a, r)
    BY <1>2
  <2> HIDE DEF a, r
  <2> QED
    BY <2>1, ListsJoined
<1> QED
  BY <1>3

LEMMA SliceIsList ==
    ASSUME NEW cells, NEW from, NEW count \in Nat, NEW f, f = Slice(cells, from, count)
    PROVE  IsList(f, count)
BY SliceIs DEF IsList

\* What the child is left with once it has planned and scored.
Planned(shape) ==
    /\ IsShape(shape) /\ shape.features >= Surface
    /\ carried.shape = shape /\ plan = Plan(shape) /\ status = Success

Coefficients == [s \in DOMAIN plan.subsets |-> CoefficientRecord(s)]
ScoreRecords == [b \in DOMAIN plan.blocks |-> ScoreRecord(b)]

LEMMA CoefficientsAre ==
    ASSUME NEW shape, Planned(shape)
    PROVE  LET K == Len(Omitted(shape)) IN
           /\ Coefficients = [s \in 1 .. K |-> Coefficients[s]]
           /\ \A s \in 1 .. K :
                /\ Coefficients[s].prefix = CoefficientPrefix(Subsets(shape), shape, s)
                /\ Len(Coefficients[s].payload) = Records(shape)[s]
                /\ Coefficients[s].prefix.bytes = 8 * Records(shape)[s]
                /\ "width" \in DOMAIN Coefficients[s].prefix.about
<1> DEFINE K == Len(Omitted(shape))
           M == shape.targets
<1>1. plan.subsets = Subsets(shape) /\ DOMAIN Subsets(shape) = 1 .. K /\ M \in Nat
  BY SubsetsAre, SequencesAre DEF Planned, Plan
<1>2. Coefficients = [s \in 1 .. K |-> CoefficientRecord(s)]
  BY <1>1 DEF Coefficients
<1>3. ASSUME NEW s \in 1 .. K
      PROVE  /\ CoefficientRecord(s).prefix = CoefficientPrefix(Subsets(shape), shape, s)
             /\ Len(CoefficientRecord(s).payload) = Records(shape)[s]
             /\ CoefficientRecord(s).prefix.bytes = 8 * Records(shape)[s]
             /\ "width" \in DOMAIN CoefficientRecord(s).prefix.about
  <2> DEFINE w == Subsets(shape)[s].width
             f == Slice(side.means, (s - 1) * Continuous, Continuous)
             g == Slice(side.scales, (s - 1) * Continuous, Continuous)
             h == Slice(side.intercepts, (s - 1) * M, M)
             e == Slice(weights, plan.weightOffset[s], M * w)
             r == CoefficientRecord(s)
  <2>1. w \in Nat /\ M * w \in Nat /\ Continuous = 3
    <3>1. w \in Nat
      BY SubsetsAre DEF Planned
    <3> HIDE DEF w, M
    <3> QED
      BY <1>1, <3>1 DEF Continuous
  <2>2. /\ r.prefix = CoefficientPrefix(Subsets(shape), shape, s)
        /\ r.payload = ((f \o g) \o h) \o e
    BY <1>1 DEF CoefficientRecord, Planned
  <2>3. Records(shape)[s] = 6 + M + M * w
    BY DEF Records, Ranks, WidthOn
  <2>4. Len(r.payload) = 3 + 3 + M + M * w
    <3> DEFINE q == M * w
    <3>1. q \in Nat /\ 3 \in Nat /\ M \in Nat
      BY <1>1, <2>1
    <3>2. /\ f = Slice(side.means, (s - 1) * Continuous, 3)
          /\ g = Slice(side.scales, (s - 1) * Continuous, 3)
          /\ h = Slice(side.intercepts, (s - 1) * M, M)
          /\ e = Slice(weights, plan.weightOffset[s], q)
      BY <2>1
    <3> DEFINE three == 3
    <3> HIDE DEF f, g, h, e, q
    <3>3. IsList(f, three) /\ IsList(g, three) /\ IsList(h, M) /\ IsList(e, q)
      BY <3>1, <3>2, SliceIsList
    <3> HIDE DEF three
    <3>4. Len(((f \o g) \o h) \o e) = three + three + M + q
      BY <3>3, FourSlices
    <3> QED
      BY <2>2, <3>4 DEF q, three
  <2>5. r.prefix = [index |-> s, about |-> Subsets(shape)[s], bytes |-> 8 * CoefficientCells(shape, Subsets(shape)[s])]
    BY <2>2 DEF CoefficientPrefix
  <2>6. CoefficientCells(shape, Subsets(shape)[s]) = 6 + M + M * w
    BY <2>1 DEF CoefficientCells
  <2>7. Subsets(shape)[s] = Subset(shape, Omitted(shape)[s])
    BY SubsetsAre DEF Planned
  <2>8. "width" \in DOMAIN Subsets(shape)[s]
    BY <2>7 DEF Subset
  <2> HIDE DEF r
  <2>9. r.prefix.bytes = 8 * Records(shape)[s] /\ r.prefix.about = Subsets(shape)[s]
    BY <2>3, <2>5, <2>6
  <2>10. Len(r.payload) = Records(shape)[s]
    <3> DEFINE q == M * w
    <3>1. q \in Nat /\ Len(r.payload) = 3 + 3 + M + q /\ Records(shape)[s] = 6 + M + q
      BY <2>1, <2>3, <2>4
    <3> HIDE DEF q
    <3> QED
      BY <1>1, <3>1
  <2> QED
    BY <2>2, <2>8, <2>9, <2>10 DEF r
<1> HIDE DEF K
<1>4. Coefficients = [s \in 1 .. K |-> Coefficients[s]] /\ \A s \in 1 .. K : Coefficients[s] = CoefficientRecord(s)
  BY <1>2
<1> QED
  BY <1>3, <1>4 DEF K

LEMMA ScoreRecordsAre ==
    ASSUME NEW shape, Planned(shape)
    PROVE  LET N == Len(Blocks(Subsets(shape), shape))
           IN /\ N \in Nat
              /\ ScoreRecords = [b \in 1 .. N |-> ScoreRecords[b]]
              /\ \A b \in 1 .. N :
                   /\ ScoreRecords[b].prefix = ScorePrefix(Blocks(Subsets(shape), shape), shape, b)
                   /\ ScoreRecords[b].payload = Slice(scores, plan.scoreOffset[b], BlockCells(shape)[b])
                   /\ Len(ScoreRecords[b].payload) = BlockCells(shape)[b]
                   /\ ScoreRecords[b].prefix.bytes = 8 * BlockCells(shape)[b]
                   /\ BlockCells(shape)[b] \in Nat
                   /\ "width" \notin DOMAIN ScoreRecords[b].prefix.about
<1> DEFINE B == Blocks(Subsets(shape), shape)
           N == Len(B)
           M == shape.targets
<1>1. plan.blocks = B /\ DOMAIN B = 1 .. N /\ N \in Nat /\ M \in Nat
  BY BlocksAre, SequencesAre DEF Planned, Plan
<1>2. ScoreRecords = [b \in 1 .. N |-> ScoreRecord(b)]
  BY <1>1 DEF ScoreRecords
<1>3. ASSUME NEW b \in 1 .. N
      PROVE  /\ ScoreRecord(b).prefix = ScorePrefix(B, shape, b)
             /\ ScoreRecord(b).payload = Slice(scores, plan.scoreOffset[b], BlockCells(shape)[b])
             /\ Len(ScoreRecord(b).payload) = BlockCells(shape)[b]
             /\ ScoreRecord(b).prefix.bytes = 8 * BlockCells(shape)[b]
             /\ BlockCells(shape)[b] \in Nat
             /\ "width" \notin DOMAIN ScoreRecord(b).prefix.about
  <2> DEFINE c == ScoreCells(shape, B[b])
             r == ScoreRecord(b)
  <2>1. r.prefix = ScorePrefix(B, shape, b) /\ r.payload = Slice(scores, plan.scoreOffset[b], c)
    BY <1>1 DEF ScoreRecord, Planned
  <2>2. c = BlockCells(shape)[b]
    BY <1>1 DEF BlockCells, ScoreCells
  <2>3. c \in Nat
    <3>1. B[b].rows = BlockRows(shape)[b] /\ BlockRows(shape) \in Seq(Nat) /\ Len(BlockRows(shape)) = N
      BY <1>1, BlockRowsAre DEF BlockRows, Planned
    <3>2. B[b].rows \in Nat
      <4> DEFINE u == BlockRows(shape)
      <4>1. u \in Seq(Nat) /\ Len(u) = N /\ B[b].rows = u[b]
        BY <3>1
      <4> HIDE DEF u, B, N
      <4> QED
        BY <4>1
    <3>3. c = M * B[b].rows
      BY DEF ScoreCells
    <3> HIDE DEF c, M, B
    <3> QED
      BY <1>1, <3>2, <3>3
  <2> HIDE DEF c
  <2>4. Len(r.payload) = c
    BY <2>1, <2>3, SliceIs
  <2>5. r.prefix = [index |-> b, about |-> B[b], bytes |-> 8 * c]
    BY <2>1 DEF ScorePrefix, c
  <2>6. DOMAIN B[b] = {"subset", "domain", "rows"}
    <3>1. B[b] = [subset |-> ReachedInOrder(shape)[b][1], domain |-> ReachedInOrder(shape)[b][2],
                  rows |-> shape.counts[ReachedInOrder(shape)[b][2] + 1]]
      <4>1. b \in 1 .. Cardinality(Reached(shape))
        BY <1>1, BlocksAre DEF Planned
      <4> QED
        BY <4>1, BlocksAre DEF Planned
    <3> HIDE DEF B
    <3> QED
      BY <3>1
  <2> HIDE DEF r, B
  <2>7. r.prefix.bytes = 8 * c /\ r.prefix.about = B[b]
    BY <2>5
  <2> QED
    BY <2>1, <2>2, <2>3, <2>4, <2>6, <2>7 DEF r
<1> HIDE DEF B, N
<1>4. ScoreRecords = [b \in 1 .. N |-> ScoreRecords[b]] /\ \A b \in 1 .. N : ScoreRecords[b] = ScoreRecord(b)
  BY <1>2
<1> QED
  BY <1>1, <1>3, <1>4 DEF N, B

\* Whatever it is about, a record takes what its entry in this sequence says.
RecordBytes(T) ==
    [r \in DOMAIN T |-> 8 * Len(T[r].payload)
        + (IF "width" \in DOMAIN T[r].prefix.about THEN Header.coefficient ELSE Header.score)]

LEMMA BytesAre ==
    ASSUME NEW records, records # << >>
    PROVE  Bytes(records) = Header.result + Total(RecordBytes(Tail(records)))
  BY DEF Bytes, Over, RecordBytes

LEMMA RecordsJoined ==
    ASSUME NEW shape, Planned(shape)
    PROVE  LET K == Len(Omitted(shape))
               N == Len(Blocks(Subsets(shape), shape))
               T == Coefficients \o ScoreRecords
           IN /\ K \in Nat /\ N \in Nat
              /\ DOMAIN T = 1 .. (K + N)
              /\ \A s \in 1 .. K : T[s] = Coefficients[s]
              /\ \A b \in 1 .. N : T[K + b] = ScoreRecords[b]
              /\ Answer # << >> /\ Len(Answer) = 1 + K + N /\ Answer[1] = HeaderRecord
              /\ IsList(Answer, 1 + K + N)
              /\ Tail(Answer) = T
              /\ \A r \in 1 .. (K + N) : Answer[r + 1] = T[r]
<1> DEFINE K == Len(Omitted(shape))
           N == Len(Blocks(Subsets(shape), shape))
           C == Coefficients
           S == ScoreRecords
           T == C \o S
           h == HeaderRecord
           A == (<<h>> \o C) \o S
<1>1. K \in Nat /\ C = [s \in 1 .. K |-> C[s]]
  BY SequencesAre, CoefficientsAre DEF Planned
<1>2. N \in Nat /\ S = [b \in 1 .. N |-> S[b]]
  BY ScoreRecordsAre
<1>3. Answer = A
  BY DEF Answer, Planned, Coefficients, ScoreRecords
<1> HIDE DEF K, N, C, S, h
<1>4. /\ DOMAIN T = 1 .. (K + N)
      /\ \A s \in 1 .. K : T[s] = C[s]
      /\ \A b \in 1 .. N : T[K + b] = S[b]
  BY ONLY <1>1, <1>2, JoinedIs
<1>5. /\ A # << >> /\ Len(A) = 1 + K + N /\ A[1] = h /\ Tail(A) = T /\ IsList(A, 1 + K + N)
      /\ \A r \in 1 .. (K + N) : A[r + 1] = T[r]
  <2>1. IsList(C, K) /\ IsList(S, N)
    BY <1>1, <1>2 DEF IsList
  <2>2. Heads(h, T, K + N, A)
    BY ONLY <2>1, HeadedIs
  <2>3. 1 + (K + N) = 1 + K + N
    BY <1>1, <1>2
  <2> HIDE DEF A, T
  <2> QED
    BY ONLY <2>1, <2>2, <2>3 DEF Heads
<1> HIDE DEF A, T
<1> QED
  BY <1>1, <1>2, <1>3, <1>4, <1>5 DEF K, N, C, S, T, h

LEMMA AnswerHasItsSize ==
    ASSUME NEW shape, Planned(shape)
    PROVE  Bytes(Answer) = plan.numbers.resultBytes
<1> DEFINE K == Len(Omitted(shape))
           N == Len(Blocks(Subsets(shape), shape))
           T == Coefficients \o ScoreRecords
           x == Records(shape)
           y == BlockCells(shape)
           u == [s \in 1 .. K |-> 8 * x[s] + 48]
           v == [b \in 1 .. N |-> 8 * y[b] + 32]
           w == RecordBytes(T)
<1>0. IsShape(shape) /\ shape.features >= Surface
  BY DEF Planned
<1>1. /\ K \in Nat /\ N \in Nat /\ DOMAIN T = 1 .. (K + N)
      /\ \A s \in 1 .. K : T[s] = Coefficients[s]
      /\ \A b \in 1 .. N : T[K + b] = ScoreRecords[b]
  BY RecordsJoined
<1>2. x \in Seq(Nat) /\ Len(x) = K
  BY <1>0, SequencesAre
<1>3. y \in Seq(Nat) /\ Len(y) = N
  <2>1. \A b \in 1 .. N : y[b] \in Nat
    BY ScoreRecordsAre
  <2>2. y = [b \in 1 .. N |-> y[b]]
    <3>1. y = [b \in DOMAIN Blocks(Subsets(shape), shape) |->
                  shape.targets * Blocks(Subsets(shape), shape)[b].rows]
      BY DEF BlockCells
    <3>2. DOMAIN Blocks(Subsets(shape), shape) = 1 .. N
      BY <1>0, BlocksAre
    <3> QED
      BY <3>1, <3>2
  <2> HIDE DEF y, N
  <2>3. y \in [1 .. N -> Nat]
    BY <2>1, <2>2
  <2> QED
    BY <1>1, <2>3, TupleOfNumbers
<1>4. /\ \A s \in 1 .. K : /\ Len(Coefficients[s].payload) = x[s]
                           /\ "width" \in DOMAIN Coefficients[s].prefix.about
      /\ \A b \in 1 .. N : /\ Len(ScoreRecords[b].payload) = y[b]
                           /\ "width" \notin DOMAIN ScoreRecords[b].prefix.about
  BY CoefficientsAre, ScoreRecordsAre
<1>5. Header.coefficient = 48 /\ Header.score = 32 /\ Header.result = 448
  BY DEF Header
<1>6. plan.numbers.resultBytes
        = Header.result + Header.coefficient * K + 8 * Total(x) + Header.score * N + 8 * Total(y)
  <2> DEFINE bytes == Header.result + Header.coefficient * K + 8 * Total(x) + Header.score * N + 8 * Total(y)
             P == Plan(shape).numbers
  <2>1. \E a, c, d, e, g, h, i :
           P = [memberships |-> a, resultBytes |-> bytes, statistics |-> c, solve |-> d, score |-> e,
                heap |-> g, scanned |-> h, cells |-> i]
    BY <1>0, PlanIs, Zenon
  <2> HIDE DEF P, bytes
  <2>2. P.resultBytes = bytes
    BY <2>1
  <2> QED
    BY <2>2 DEF P, bytes, Planned
<1>7. w = [r \in 1 .. (K + N) |-> 8 * Len(T[r].payload)
                + (IF "width" \in DOMAIN T[r].prefix.about THEN 48 ELSE 32)]
  <2> HIDE DEF T
  <2> QED
    BY <1>1, <1>5 DEF RecordBytes
<1> HIDE DEF K, N, x, y, T, w
<1>8. u \in Seq(Nat) /\ Len(u) = K /\ Total(u) = 8 * Total(x) + K * 48
  <2> DEFINE m == 8
             e == 48
  <2>1. m \in Nat /\ e \in Nat /\ u = [j \in 1 .. Len(x) |-> m * x[j] + e]
    BY <1>2
  <2> HIDE DEF u, m, e
  <2>2. u \in Seq(Nat) /\ Len(u) = Len(x) /\ Total(u) = m * Total(x) + Len(x) * e
    BY <1>2, <2>1, TotalOfAffine
  <2> QED
    BY <1>2, <2>2 DEF m, e
<1>9. v \in Seq(Nat) /\ Len(v) = N /\ Total(v) = 8 * Total(y) + N * 32
  <2> DEFINE m == 8
             e == 32
  <2>1. m \in Nat /\ e \in Nat /\ v = [j \in 1 .. Len(y) |-> m * y[j] + e]
    BY <1>3
  <2> HIDE DEF v, m, e
  <2>2. v \in Seq(Nat) /\ Len(v) = Len(y) /\ Total(v) = m * Total(y) + Len(y) * e
    BY <1>3, <2>1, TotalOfAffine
  <2> QED
    BY <1>3, <2>2 DEF m, e
<1>10. w = u \o v
  <2>1. /\ u = [s \in 1 .. K |-> u[s]] /\ v = [b \in 1 .. N |-> v[b]]
        /\ \A s \in 1 .. K : u[s] = 8 * x[s] + 48
        /\ \A b \in 1 .. N : v[b] = 8 * y[b] + 32
    OBVIOUS
  <2> HIDE DEF u, v
  <2>2. u \o v = [i \in 1 .. (K + N) |-> IF i <= K THEN u[i] ELSE v[i - K]]
    BY ONLY <1>1, <2>1, JoinedIs
  <2>3. ASSUME NEW i \in 1 .. (K + N)
        PROVE  8 * Len(T[i].payload) + (IF "width" \in DOMAIN T[i].prefix.about THEN 48 ELSE 32)
                 = IF i <= K THEN u[i] ELSE v[i - K]
    <3>1. CASE i <= K
      <4>1. i \in 1 .. K
        BY <1>1, <3>1
      <4>2. T[i] = Coefficients[i] /\ Len(T[i].payload) = x[i] /\ "width" \in DOMAIN T[i].prefix.about
        BY <1>1, <1>4, <4>1
      <4> QED
        BY <2>1, <3>1, <4>1, <4>2
    <3>2. CASE ~(i <= K)
      <4> DEFINE b == i - K
      <4>1. b \in 1 .. N /\ K + b = i
        BY <1>1, <3>2
      <4> HIDE DEF b
      <4>2. T[K + b] = ScoreRecords[b]
        BY <1>1, <4>1
      <4>3. Len(T[i].payload) = y[b] /\ "width" \notin DOMAIN T[i].prefix.about
        BY <1>4, <4>1, <4>2
      <4>4. v[b] = 8 * y[b] + 32
        BY <2>1, <4>1
      <4> QED
        BY <3>2, <4>3, <4>4 DEF b
    <3> QED
      BY <3>1, <3>2
  <2>4. w = [i \in 1 .. (K + N) |-> IF i <= K THEN u[i] ELSE v[i - K]]
    BY <1>7, <2>3
  <2> QED
    BY <2>2, <2>4
<1> HIDE DEF u, v
<1>11. Total(w) = Total(u) + Total(v)
  BY <1>8, <1>9, <1>10, TotalOfJoined
<1>12. Bytes(Answer) = Header.result + Total(w)
  BY RecordsJoined, BytesAre DEF w, T
<1>13. Total(x) \in Nat /\ Total(y) \in Nat
  BY <1>2, <1>3, TotalIsNat
<1> QED
  BY <1>1, <1>5, <1>6, <1>8, <1>9, <1>11, <1>12, <1>13

LEMMA AnswerParses ==
    ASSUME NEW shape, Planned(shape)
    PROVE  ParseRecords(Tail(Answer), shape)
<1> DEFINE K == Len(Omitted(shape))
           B == Blocks(Subsets(shape), shape)
           N == Len(B)
           T == Coefficients \o ScoreRecords
           p == [s \in DOMAIN Subsets(shape) |-> CoefficientPrefix(Subsets(shape), shape, s)]
           q == [b \in DOMAIN B |-> ScorePrefix(B, shape, b)]
<1>0. IsShape(shape) /\ shape.features >= Surface
  BY DEF Planned
<1>1. /\ K \in Nat /\ N \in Nat /\ DOMAIN T = 1 .. (K + N) /\ Tail(Answer) = T
      /\ \A s \in 1 .. K : T[s] = Coefficients[s]
      /\ \A b \in 1 .. N : T[K + b] = ScoreRecords[b]
  BY RecordsJoined
<1>2. /\ \A s \in 1 .. K : /\ Coefficients[s].prefix = CoefficientPrefix(Subsets(shape), shape, s)
                           /\ 8 * Len(Coefficients[s].payload) = Coefficients[s].prefix.bytes
      /\ \A b \in 1 .. N : /\ ScoreRecords[b].prefix = ScorePrefix(B, shape, b)
                           /\ 8 * Len(ScoreRecords[b].payload) = ScoreRecords[b].prefix.bytes
  BY CoefficientsAre, ScoreRecordsAre
<1>3. DOMAIN Subsets(shape) = 1 .. K /\ DOMAIN B = 1 .. N
  BY <1>0, SubsetsAre, BlocksAre
<1>4. RecordPrefixes(shape) = p \o q
  BY DEF RecordPrefixes
<1> HIDE DEF K, B, N, T
<1>5. /\ p = [s \in 1 .. K |-> p[s]] /\ q = [b \in 1 .. N |-> q[b]]
      /\ \A s \in 1 .. K : p[s] = CoefficientPrefix(Subsets(shape), shape, s)
      /\ \A b \in 1 .. N : q[b] = ScorePrefix(B, shape, b)
  BY <1>3
<1> HIDE DEF p, q
<1>6. p \o q = [i \in 1 .. (K + N) |-> IF i <= K THEN p[i] ELSE q[i - K]]
  BY ONLY <1>1, <1>5, JoinedIs
<1>7. ASSUME NEW i \in 1 .. (K + N)
      PROVE  /\ T[i].prefix = IF i <= K THEN p[i] ELSE q[i - K]
             /\ 8 * Len(T[i].payload) = T[i].prefix.bytes
  <2>1. CASE i <= K
    <3>1. i \in 1 .. K
      BY <1>1, <2>1
    <3>2. T[i] = Coefficients[i] /\ p[i] = CoefficientPrefix(Subsets(shape), shape, i)
      BY <1>1, <1>5, <3>1
    <3> QED
      BY <1>2, <2>1, <3>1, <3>2
  <2>2. CASE ~(i <= K)
    <3> DEFINE b == i - K
    <3>1. b \in 1 .. N /\ K + b = i
      BY <1>1, <2>2
    <3> HIDE DEF b
    <3>2. T[K + b] = ScoreRecords[b] /\ q[b] = ScorePrefix(B, shape, b)
      BY <1>1, <1>5, <3>1
    <3>3. T[i].prefix = q[b] /\ 8 * Len(T[i].payload) = T[i].prefix.bytes
      BY <1>2, <3>1, <3>2
    <3> QED
      BY <2>2, <3>3 DEF b
  <2> QED
    BY <2>1, <2>2
<1>8. [r \in DOMAIN T |-> T[r].prefix] = RecordPrefixes(shape)
  BY <1>1, <1>4, <1>6, <1>7
<1> QED
  BY <1>1, <1>7, <1>8 DEF ParseRecords

-----------------------------------------------------------------------------
(* Whose fault a failure is.                                                *)

LEMMA AnswerStays ==
    ASSUME UNCHANGED <<sealed, carried, status, parsed, work>>
    PROVE  Answer' = Answer /\ HeaderRecord' = HeaderRecord
<1>1. /\ sealed' = sealed /\ carried' = carried /\ status' = status /\ parsed' = parsed
      /\ plan' = plan /\ weights' = weights /\ scores' = scores /\ side' = side
  BY DEF work
<1>2. HeaderRecord' = HeaderRecord
  BY <1>1 DEF HeaderRecord, Request
<1>3. \A s : CoefficientRecord(s)' = CoefficientRecord(s)
  BY <1>1 DEF CoefficientRecord
<1>4. \A b : ScoreRecord(b)' = ScoreRecord(b)
  BY <1>1 DEF ScoreRecord
<1> QED
  BY <1>1, <1>2, <1>3, <1>4 DEF Answer

LEMMA SuccessIsPlanned ==
    ASSUME StageInv, stage \notin Running, status = Success
    PROVE  Planned(carried.shape) /\ carried = sealed
<1>1. Known("validate") /\ IsShape(carried.shape)
  BY DEF StageInv, StageFollows, FilesAre, IsFile
<1>2. PreflightStatus = Success /\ plan = Plan(carried.shape) /\ Digest(carried) = Request.store
  BY <1>1 DEF Known, PastPlan, PastMagic, PastDigest, Running
<1>3. InRange(carried.shape)
  BY <1>2 DEF PreflightStatus, Success, Resource
<1>4. carried.shape.features >= Surface
  BY <1>1, <1>3, InRangeIs
<1>5. Digest(carried) = Digest(sealed)
  BY <1>2 DEF Request
<1>6. carried = sealed
  BY <1>5 DEF Digest
<1> QED
  BY <1>1, <1>2, <1>4, <1>6 DEF Planned

Landed ==
    /\ exit \in {"success", "failure"}
    /\ exit = "success" => status = Success /\ out = Answer
    /\ out # << >> => out[1] = HeaderRecord
    /\ status # Success /\ out # << >> => out = <<HeaderRecord>>

BlameInv ==
    /\ stage \notin {"loaded", "tampered", "verified"} => verdict.kind = "none"
    /\ stage = "exited" => Landed
    /\ BlameIsRight

LEMMA WriteLands == ASSUME StageInv, Write PROVE Landed'
<1>0. /\ Answer' = Answer /\ HeaderRecord' = HeaderRecord /\ status' = status
      /\ stage = "write" /\ stage \notin Running
  BY AnswerStays DEF Write, Running
<1>1. CASE status # Success
  <2>1. Answer = <<HeaderRecord>>
    BY <1>1 DEF Answer
  <2> DEFINE h == HeaderRecord
             a == <<h>>
  <2>2. \/ out' = a /\ exit' = "failure"
        \/ \E landed \in {0, 1, Len(a) - 1, Len(a)} : out' = SubSeq(a, 1, landed) /\ exit' = "failure"
    BY <1>1, <2>1 DEF Write
  <2> HIDE DEF h
  <2>3. Len(a) = 1 /\ a[1] = h /\ a \in Seq({h})
    OBVIOUS
  <2>5. ASSUME NEW landed \in {0, 1, Len(a) - 1, Len(a)}
        PROVE  SubSeq(a, 1, landed) = << >> \/ SubSeq(a, 1, landed) = a
    <3>1. landed = 0 \/ landed = 1
      BY <2>3
    <3>2. CASE landed = 0
      <4>1. SubSeq(a, 1, 0) = << >>
        BY <2>3
      <4> QED
        BY <3>2, <4>1
    <3>3. CASE landed = 1
      <4> DEFINE b == SubSeq(a, 1, 1)
      <4>1. b \in Seq({h}) /\ Len(b) = 1
        BY <2>3
      <4>2. b[1] = h
        BY <4>1
      <4> HIDE DEF a, b
      <4>3. b = a
        BY <2>3, <4>1, <4>2
      <4> QED
        BY <3>3, <4>3 DEF b
    <3> QED
      BY <3>1, <3>2, <3>3
  <2>4. exit' = "failure" /\ (out' = << >> \/ out' = a)
    BY <2>2, <2>5
  <2> QED
    BY <1>0, <1>1, <2>3, <2>4 DEF Landed, h
<1>2. CASE status = Success
  <2> DEFINE shape == carried.shape
             K == Len(Omitted(shape))
             N == Len(Blocks(Subsets(shape), shape))
             a == Answer
             n == 1 + K + N
  <2>1. Planned(shape)
    BY <1>0, <1>2, SuccessIsPlanned
  <2>2. Answer # << >> /\ Len(a) = n /\ a[1] = HeaderRecord /\ IsList(a, n) /\ K \in Nat /\ N \in Nat
    BY <2>1, RecordsJoined
  <2>3. \/ out' = a /\ exit' = "success"
        \/ \E landed \in {0, 1, Len(a) - 1, Len(a)} : out' = SubSeq(a, 1, landed) /\ exit' = "failure"
    BY <1>2 DEF Write
  <2> HIDE DEF a
  <2>4. PICK S : a \in Seq(S)
    BY <2>2, SequenceOverSome DEF IsList
  <2>5. n \in Nat /\ n >= 1
    BY <2>2
  <2> HIDE DEF n
  <2>6. ASSUME NEW landed \in {0, 1, Len(a) - 1, Len(a)}, SubSeq(a, 1, landed) # << >>
        PROVE  SubSeq(a, 1, landed)[1] = a[1]
    <3>1. landed \in 0 .. Len(a)
      BY <2>2, <2>5
    <3>2. landed # 0
      BY <2>4, <2>6
    <3> QED
      BY <2>2, <2>4, <2>5, <3>1, <3>2
  <2>7. /\ exit' \in {"success", "failure"} /\ (exit' = "success" => out' = a)
        /\ out' # << >> => out'[1] = a[1]
    BY <2>3, <2>6
  <2> QED
    BY <1>0, <1>2, <2>2, <2>7 DEF Landed, a
<1> QED
  BY <1>1, <1>2

LEMMA VerdictIsFair ==
    ASSUME StageInv, stage = "exited", Landed, Admits(sealed)
    PROVE  /\ LoadVerdict.kind = "status" => LoadVerdict.code = status /\ status # Success
           /\ LoadVerdict.kind = "protocol" /\ HeaderOf(carried) = HeaderOf(sealed) =>
                \/ status = Success /\ exit = "failure"
                \/ parsed # {"request", "store"}
<1> DEFINE expected == Estimate(sealed.shape)
           crash == IF exit = "failure" THEN "execution" ELSE "protocol"
           astray == \/ Bytes(out) > expected.resultBytes
                     \/ out[1].store # Digest(sealed)
                     \/ out[1].echo # HeaderOf(sealed)
           complete == /\ exit = "success"
                       /\ out[1].numbers = expected
                       /\ out[1].records = Counts(sealed.shape)
                       /\ Bytes(out) = expected.resultBytes
                       /\ ParseRecords(Tail(out), sealed.shape)
           heard == parsed = {"request", "store"} /\ HeaderOf(carried) = HeaderOf(sealed)
<1>0. stage \notin Running
  BY DEF Running
<1>1. /\ out = << >> => LoadVerdict = Says(crash, Success)
      /\ out # << >> /\ astray => LoadVerdict = Says("protocol", Success)
      /\ out # << >> /\ ~astray /\ out[1].status # Success =>
            LoadVerdict = IF exit = "success" \/ Len(out) # 1
                          THEN Says("protocol", Success) ELSE Says("status", out[1].status)
      /\ out # << >> /\ ~astray /\ out[1].status = Success =>
            LoadVerdict = IF complete THEN Says("accepted", Success) ELSE Says("protocol", Success)
  BY DEF LoadVerdict
<1>2. \A kind, code : Says(kind, code).kind = kind /\ Says(kind, code).code = code
  BY DEF Says
<1>3. out # << >> => /\ out[1].status = status
                     /\ heard => out[1].store = Digest(sealed) /\ out[1].echo = HeaderOf(sealed)
  BY DEF Landed, HeaderRecord, Request
<1>4. exit = "success" => out # << >> /\ status = Success
  BY <1>0, SuccessIsPlanned, RecordsJoined DEF Landed
<1>5. IsShape(sealed.shape) /\ sealed.shape.features >= Surface
  BY InRangeIs DEF StageInv, FilesAre, IsFile, Admits, ScanStore, ParseHeader
<1>6. ASSUME status # Success, out # << >> PROVE Len(out) = 1 /\ ~(Bytes(out) > expected.resultBytes)
  <2> DEFINE h == HeaderRecord
  <2>1. out = <<h>>
    BY <1>6 DEF Landed
  <2> HIDE DEF h
  <2>2. Len(out) = 1 /\ Tail(out) = << >>
    BY <2>1
  <2>3. RecordBytes(<< >>) = << >>
    BY DEF RecordBytes
  <2>4. Bytes(out) = Header.result + 0
    BY <1>6, <2>2, <2>3, BytesAre, TotalEmpty
  <2>5. \E n \in Nat : expected.resultBytes = Header.result + n
    BY <1>5, ResultIsMore
  <2>6. Header.result = 448
    BY DEF Header
  <2> HIDE DEF expected
  <2> QED
    BY <2>2, <2>4, <2>5, <2>6
<1>7. ASSUME exit = "success" PROVE complete
  <2>1. Planned(sealed.shape) /\ out = Answer /\ carried = sealed
    BY <1>0, <1>7, SuccessIsPlanned DEF Landed
  <2>2. Bytes(out) = plan.numbers.resultBytes /\ ParseRecords(Tail(out), sealed.shape)
    BY <2>1, AnswerHasItsSize, AnswerParses
  <2>3. plan = Plan(sealed.shape) /\ plan.numbers = expected
    BY <1>5, <2>1, NumbersAgree DEF Planned
  <2>4. out[1] = HeaderRecord
    BY <2>1, RecordsJoined
  <2>5. plan # << >>
    <3>1. \E a, b, c, d, e : plan = [subsets |-> a, blocks |-> b, weightOffset |-> c, scoreOffset |-> d, numbers |-> e]
      BY <2>3 DEF Plan
    <3>2. "subsets" \in DOMAIN plan
      BY <3>1
    <3>3. DOMAIN << >> = {}
      OBVIOUS
    <3> QED
      BY <3>2, <3>3
  <2>6. plan.subsets = Subsets(sealed.shape) /\ plan.blocks = Blocks(Subsets(sealed.shape), sealed.shape)
    BY <2>3 DEF Plan
  <2>7. status = Success
    BY <2>1 DEF Planned
  <2>8. HeaderRecord.numbers = plan.numbers /\ HeaderRecord.records = <<Len(plan.subsets), Len(plan.blocks)>>
    BY <2>5, <2>7 DEF HeaderRecord
  <2>9. out[1].records = Counts(sealed.shape)
    BY <2>4, <2>6, <2>8 DEF Counts
  <2> QED
    BY <1>7, <2>2, <2>3, <2>4, <2>8, <2>9
<1>8. ASSUME exit = "success" PROVE ~(Bytes(out) > expected.resultBytes)
  <2>1. Bytes(out) = expected.resultBytes
    BY <1>7, <1>8
  <2>2. \E n \in Nat : expected.resultBytes = Header.result + n
    BY <1>5, ResultIsMore
  <2>3. Header.result = 448
    BY DEF Header
  <2> HIDE DEF expected
  <2> QED
    BY <2>1, <2>2, <2>3
<1>9. exit \in {"success", "failure"}
  BY DEF Landed
<1>10. LoadVerdict.kind = "status" => LoadVerdict.code = status /\ status # Success
  <2> HIDE DEF astray, complete, crash
  <2>1. crash # "status"
    BY DEF crash
  <2> QED
    BY <1>1, <1>2, <1>3, <2>1
<1>11. ASSUME LoadVerdict.kind = "protocol", heard, ~(status = Success /\ exit = "failure") PROVE FALSE
  <2>1. out # << >>
    <3>1. CASE out = << >>
      <4>1. exit = "success"
        BY <1>1, <1>2, <1>9, <1>11, <3>1
      <4> QED
        BY <1>4, <3>1, <4>1
    <3> QED
      BY <3>1
  <2>2. ~astray
    <3>1. ~(Bytes(out) > expected.resultBytes)
      BY <1>6, <1>8, <1>9, <1>11, <2>1
    <3> QED
      BY <1>3, <1>11, <2>1, <3>1
  <2>3. CASE status # Success
    BY <1>1, <1>2, <1>3, <1>4, <1>6, <1>11, <2>1, <2>2, <2>3
  <2>4. CASE status = Success
    BY <1>1, <1>2, <1>3, <1>7, <1>9, <1>11, <2>1, <2>2, <2>4
  <2> QED
    BY <2>3, <2>4
<1> QED
  BY <1>10, <1>11

LEMMA SilenceIsNoBlame ==
    ASSUME BlameInv, stage \in Running \cup {"write"}, verdict' = verdict, stage' \in Running \cup {"write"}
    PROVE  BlameInv'
<1>1. verdict.kind = "none"
  BY DEF BlameInv, Running
<1>2. stage' # "exited"
  BY DEF Running
<1>3. BlameIsRight'
  BY <1>1 DEF BlameIsRight
<1> QED
  BY <1>1, <1>2, <1>3 DEF BlameInv

LEMMA BlameStays ==
    ASSUME BlameInv, verdict' = verdict, stage' \in {"loaded", "tampered", "verified"},
           stage \in {"loaded", "tampered", "verified"},
           sealed' = sealed, carried' = carried, status' = status, parsed' = parsed, exit' = exit
    PROVE  BlameInv'
<1>1. BlameIsRight'
  BY DEF BlameInv, BlameIsRight, HeaderOf
<1> QED
  BY <1>1 DEF BlameInv

\* Each stage of the program goes on to a stage of the program, or to the writing.
LEMMA ProgramRuns ==
    ASSUME \/ ReadSession \/ ReadStore \/ Preflight \/ Authenticate \/ RowKeys \/ Allocate
           \/ Load \/ Moments \/ CheckMoments \/ Solve \/ Score \/ Validate
    PROVE  stage \in Running /\ stage' \in Running \cup {"write"} /\ verdict' = verdict
<1> USE DEF Running, Alone, caller, Goto, Repeat, Fail, MayFail
<1>1. ASSUME ReadSession \/ ReadStore \/ Preflight PROVE stage \in Running /\ stage' \in Running \cup {"write"} /\ verdict' = verdict
  BY <1>1 DEF ReadSession, ReadStore, Preflight
<1>2. ASSUME NEW here \in Running, NEW next \in Running \cup {"write"}, NEW v, NEW codes, Stage(here, next, v, codes)
      PROVE  stage \in Running /\ stage' \in Running \cup {"write"} /\ verdict' = verdict
  BY <1>2 DEF Stage
<1>3. ASSUME Authenticate \/ RowKeys \/ Load \/ Validate PROVE stage \in Running /\ stage' \in Running \cup {"write"} /\ verdict' = verdict
  BY <1>2, <1>3 DEF Authenticate, RowKeys, Load, Validate
<1>4. ASSUME Allocate \/ Moments \/ CheckMoments PROVE stage \in Running /\ stage' \in Running \cup {"write"} /\ verdict' = verdict
  BY <1>4 DEF Allocate, Moments, CheckMoments
<1>5. ASSUME Solve \/ Score PROVE stage \in Running /\ stage' \in Running \cup {"write"} /\ verdict' = verdict
  BY <1>5 DEF Solve, Score
<1> QED
  BY <1>1, <1>3, <1>4, <1>5

LEMMA WriteKeepsBlame == ASSUME StageInv, BlameInv, Write PROVE BlameInv'
<1>1. stage = "write" /\ stage' = "exited" /\ verdict' = verdict
  BY DEF Write
<1>2. verdict.kind = "none"
  BY <1>1 DEF BlameInv
<1>3. BlameIsRight'
  BY <1>1, <1>2 DEF BlameIsRight
<1> QED
  BY <1>1, <1>2, <1>3, WriteLands DEF BlameInv

LEMMA LoadResultKeepsBlame == ASSUME StageInv, BlameInv, LoadResult PROVE BlameInv'
<1>1. /\ stage = "exited" /\ Admits(sealed) /\ stage' = "loaded" /\ verdict' = LoadVerdict
      /\ sealed' = sealed /\ carried' = carried /\ status' = status /\ parsed' = parsed /\ exit' = exit
  BY DEF LoadResult
<1>2. Landed
  BY <1>1 DEF BlameInv
<1>3. BlameIsRight'
  BY <1>1, <1>2, VerdictIsFair DEF BlameIsRight, HeaderOf
<1> QED
  BY <1>1, <1>3 DEF BlameInv

LEMMA BlameStep == ASSUME StageInv, BlameInv, [SidecarNext]_sidecar PROVE BlameInv'
<1>1. ASSUME UNCHANGED sidecar PROVE BlameInv'
  <2>1. /\ stage' = stage /\ verdict' = verdict /\ sealed' = sealed /\ carried' = carried /\ exit' = exit
        /\ out' = out /\ UNCHANGED <<sealed, carried, status, parsed, work>>
    BY <1>1 DEF sidecar, program, caller, work
  <2>2. status' = status /\ parsed' = parsed
    BY <2>1
  <2>3. Landed' = Landed
    BY <2>1, <2>2, AnswerStays DEF Landed
  <2>4. BlameIsRight' = BlameIsRight
    BY <2>1, <2>2 DEF BlameIsRight, HeaderOf
  <2> QED
    BY <2>1, <2>3, <2>4 DEF BlameInv
<1>2. ASSUME Tamper PROVE BlameInv'
  BY <1>2, BlameStays DEF Tamper
<1>3. ASSUME VerifyIntegrity PROVE BlameInv'
  <2>1. verdict'.kind \in {"verified", "integrity"} /\ stage' = "verified"
    BY <1>3 DEF VerifyIntegrity, Says
  <2> QED
    BY <2>1 DEF BlameInv, BlameIsRight
<1>4. ASSUME Settled PROVE BlameInv'
  BY <1>1, <1>4 DEF Settled
<1>5. ASSUME \/ ReadSession \/ ReadStore \/ Preflight \/ Authenticate \/ RowKeys \/ Allocate
             \/ Load \/ Moments \/ CheckMoments \/ Solve \/ Score \/ Validate
      PROVE  BlameInv'
  BY <1>5, ProgramRuns, SilenceIsNoBlame
<1> QED
  BY <1>1, <1>2, <1>3, <1>4, <1>5, WriteKeepsBlame, LoadResultKeepsBlame DEF SidecarNext

(* A failure is reported as what it was: the caller raises the status the   *)
(* child ended with, and finds a protocol error in no complete answer of a  *)
(* child that read both headers as they were sent (write_result_header,     *)
(* _load_result).                                                           *)
THEOREM SidecarBlame == SidecarSpec => []BlameIsRight
<1>1. SidecarInit => StageInv /\ BlameInv
  <2> SUFFICES ASSUME SidecarInit PROVE StageInv /\ BlameInv
    OBVIOUS
  <2>1. stage = "session" /\ verdict.kind = "none"
    BY DEF SidecarInit
  <2> QED
    BY <2>1, StageInit DEF BlameInv, BlameIsRight
<1>2. StageInv /\ BlameInv /\ [SidecarNext]_sidecar => (StageInv /\ BlameInv)'
  BY StageStep, BlameStep
<1>3. StageInv /\ BlameInv => BlameIsRight
  BY DEF BlameInv
<1> QED
  BY <1>1, <1>2, <1>3, PTL DEF SidecarSpec

-----------------------------------------------------------------------------
(* Where the cells are: no two of them share a place.                       *)

\* A flat index says which row of a table it is in, and where.
LEMMA FlatIndex ==
    ASSUME NEW w \in Nat \ {0}, NEW t \in Nat, NEW p \in 0 .. (w - 1)
    PROVE  (t * w + p) \div w = t /\ (t * w + p) % w = p
OBVIOUS

LEMMA FlatIndexFits ==
    ASSUME NEW w \in Nat, NEW m \in Nat, NEW t \in Nat, NEW p \in Nat, t < m, p < w
    PROVE  t * w + p \in Nat /\ t * w + p < m * w
<1>1. t * w \in Nat /\ m * w \in Nat
  OBVIOUS
<1>2. (m - t) \in Nat /\ m - t >= 1
  OBVIOUS
<1>3. m * w = t * w + (m - t) * w
  <2>1. m = t + (m - t)
    OBVIOUS
  <2> DEFINE d == m - t
  <2>2. m = t + d /\ d \in Nat
    BY <1>2
  <2> HIDE DEF d
  <2>3. (t + d) * w = t * w + d * w
    BY <2>2
  <2> QED
    BY <2>2, <2>3 DEF d
<1>4. (m - t) * w >= w /\ (m - t) * w \in Nat
  <2> DEFINE d == m - t
  <2>1. d \in Nat /\ d >= 1
    BY <1>2
  <2> HIDE DEF d
  <2>2. d * w >= w /\ d * w \in Nat
    BY <2>1
  <2> QED
    BY <2>2 DEF d
<1> DEFINE a == t * w
           b == m * w
           c == (m - t) * w
<1> HIDE DEF a, b, c
<1>5. a \in Nat /\ b \in Nat /\ c \in Nat /\ b = a + c /\ c >= w
  BY <1>1, <1>3, <1>4 DEF a, b, c
<1>6. a + p \in Nat /\ a + p < b
  BY <1>5
<1> QED
  BY <1>6 DEF a, b

\* Where each stretch begins, if stretches of these lengths follow one another.
Starts(off, w, N) ==
    /\ w \in [1 .. N -> Nat] /\ N \in Nat
    /\ \A k \in 1 .. N : off[k] = Total([j \in 1 .. (k - 1) |-> w[j]])

LEMMA RunningTotalsRise ==
    ASSUME NEW N \in Nat, NEW u, NEW f, Accrues(N, u, f)
    PROVE  \A m, n \in 0 .. N : m <= n => f[m] <= f[n]
<1> SUFFICES ASSUME NEW m \in 0 .. N PROVE \A n \in 0 .. N : m <= n => f[m] <= f[n]
  OBVIOUS
<1> DEFINE Good == {n \in 0 .. N : m <= n => f[m] <= f[n]}
<1>0. /\ \A n \in 0 .. N : f[n] \in Nat
      /\ \A n \in 1 .. N : u[n] \in Nat
      /\ \A n \in 0 .. (N - 1) : f[n + 1] = f[n] + u[n + 1]
  BY DEF Accrues
<1>1. 0 \in Good
  BY <1>0
<1>2. ASSUME NEW n \in 0 .. (N - 1), n \in Good PROVE n + 1 \in Good
  <2>1. n + 1 \in 0 .. N /\ n \in 0 .. N /\ n + 1 \in 1 .. N
    OBVIOUS
  <2>2. f[n] <= f[n + 1]
    <3> DEFINE a == f[n]
               b == f[n + 1]
               e == u[n + 1]
    <3>1. a \in Nat /\ b \in Nat /\ e \in Nat /\ b = a + e
      BY <1>0, <2>1
    <3> HIDE DEF a, b, e
    <3>2. a <= b
      BY <3>1
    <3> QED
      BY <3>2 DEF a, b
  <2>3. CASE m <= n
    BY <1>0, <1>2, <2>1, <2>2, <2>3
  <2>4. CASE ~(m <= n)
    <3>1. m <= n + 1 => m = n + 1
      BY <2>4
    <3> QED
      BY <1>0, <2>1, <3>1
  <2> QED
    BY <2>3, <2>4
<1> HIDE DEF Good
<1>3. \A n \in 0 .. N : n \in Good
  BY <1>1, <1>2, StepByStep
<1> QED
  BY <1>3 DEF Good

LEMMA StretchesFollow ==
    ASSUME NEW off, NEW w, NEW N, Starts(off, w, N)
    PROVE  /\ \A k \in 1 .. N : off[k] \in Nat /\ off[k] + w[k] <= Total(w)
           /\ \A j, k \in 1 .. N : j < k => off[j] + w[j] <= off[k]
<1>1. w \in Seq(Nat) /\ Len(w) = N /\ N \in Nat
  BY TupleOfNumbers DEF Starts
<1>2. PICK u, f : Follows(w, N, u, f)
  BY <1>1, TotalsAsFunctions
<1>3. /\ \A n \in 0 .. N : f[n] \in Nat
      /\ \A n \in 1 .. N : f[n] = f[n - 1] + w[n]
      /\ Total(w) = f[N] /\ f[0] = 0
  <2>1. ASSUME NEW n \in 1 .. N PROVE f[n] = f[n - 1] + w[n]
    <3>1. n - 1 \in 0 .. (N - 1) /\ (n - 1) + 1 = n
      BY <1>1
    <3> QED
      BY <1>2, <3>1 DEF Follows, Accrues
  <2> QED
    BY <1>2, <2>1 DEF Follows, Accrues
<1>4. \A m, n \in 0 .. N : m <= n => f[m] <= f[n]
  BY <1>1, <1>2, RunningTotalsRise DEF Follows
<1>5. ASSUME NEW k \in 1 .. N PROVE off[k] = f[k - 1]
  <2> DEFINE p == k - 1
             v == [j \in 1 .. p |-> w[j]]
  <2>1. p \in Nat /\ p \in 0 .. N /\ 1 .. p \subseteq 1 .. N
    BY <1>1
  <2>2. v \in [1 .. p -> Nat] /\ off[k] = Total(v)
    BY <2>1 DEF Starts
  <2>3. \A n \in 1 .. p : v[n] = w[n]
    OBVIOUS
  <2> HIDE DEF v, p
  <2>4. v \in Seq(Nat) /\ Len(v) = p
    BY <2>1, <2>2, TupleOfNumbers
  <2>5. \A n \in 1 .. Len(v) : f[n] = f[n - 1] + v[n]
    BY <1>3, <2>1, <2>3, <2>4
  <2>6. \A n \in 0 .. Len(v) : RunningTotals(v)[n] = f[n]
    BY <1>3, <2>4, <2>5, TotalsAreThese
  <2>7. Total(v) = RunningTotals(v)[p]
    BY <2>4, RunningTotalsAt
  <2>8. p \in 0 .. Len(v)
    BY <2>1, <2>4
  <2> QED
    BY <2>2, <2>6, <2>7, <2>8 DEF p
<1>6. ASSUME NEW k \in 1 .. N PROVE off[k] \in Nat /\ off[k] + w[k] = f[k]
  <2>1. k - 1 \in 0 .. N /\ k \in 0 .. N
    BY <1>1
  <2> QED
    BY <1>3, <1>5, <2>1
<1>7. ASSUME NEW k \in 1 .. N PROVE f[k] <= f[N]
  BY <1>1, <1>4
<1>8. ASSUME NEW j \in 1 .. N, NEW k \in 1 .. N, j < k PROVE f[j] <= f[k - 1]
  <2>1. j \in 0 .. N /\ k - 1 \in 0 .. N /\ j <= k - 1
    BY <1>1, <1>8
  <2> QED
    BY <1>4, <2>1
<1> QED
  BY <1>3, <1>5, <1>6, <1>7, <1>8

-----------------------------------------------------------------------------
(* Rows and columns in their order.                                         *)

InOrder(s, S) == s = Sorted(S, <)

RankIn(S, x) == Cardinality({y \in S : y < x})

\* In a set of numbers, the rank tells which.
LEMMA RanksTell ==
    ASSUME NEW S, IsFiniteSet(S), S \subseteq Int
    PROVE  /\ Cardinality(S) \in Nat
           /\ \A x \in S : RankIn(S, x) \in 0 .. (Cardinality(S) - 1)
           /\ \A x, y \in S : RankIn(S, x) = RankIn(S, y) => x = y
<1> DEFINE P == [x \in S |-> {y \in S : y < x}]
<1>1. \A x \in S : P[x] \subseteq S /\ x \notin P[x]
  OBVIOUS
<1>2. \A x, y \in S : x # y => x \in P[y] \/ y \in P[x]
  OBVIOUS
<1>3. \A x, y \in S : x \in P[y] => P[x] \subseteq P[y]
  <2> SUFFICES ASSUME NEW x \in S, NEW y \in S, x \in P[y], NEW z \in P[x] PROVE z \in P[y]
    OBVIOUS
  <2>1. x < y /\ z \in S /\ z < x
    OBVIOUS
  <2>2. x \in Int /\ y \in Int /\ z \in Int
    BY <2>1
  <2>3. z < y
    BY <2>1, <2>2
  <2> QED
    BY <2>1, <2>3
<1>4. \A x \in S : RankIn(S, x) = Cardinality(P[x])
  BY DEF RankIn
<1> HIDE DEF P
<1>5. /\ Cardinality(S) \in Nat
      /\ \A x \in S : Cardinality(P[x]) \in 0 .. (Cardinality(S) - 1)
      /\ \A x, y \in S : Cardinality(P[x]) = Cardinality(P[y]) => x = y
  BY <1>1, <1>2, <1>3, RanksAreExact
<1> QED
  BY <1>4, <1>5

\* A set of numbers in order is a list of them by rank.
LEMMA SortedIs ==
    ASSUME NEW S, IsFiniteSet(S), S \subseteq Int, NEW s, InOrder(s, S)
    PROVE  /\ s \in [1 .. Cardinality(S) -> S] /\ s \in Seq(S) /\ Len(s) = Cardinality(S)
           /\ \A k \in 1 .. Cardinality(S) : RankIn(S, s[k]) = k - 1
           /\ \A x \in S : s[RankIn(S, x) + 1] = x
<1> DEFINE N == Cardinality(S)
<1>1. /\ Enumerates(s, S) /\ N \in Nat
      /\ \A k \in 1 .. N : Cardinality({y \in S : y < s[k]}) = k - 1
  BY SortedNumbers, Zenon DEF InOrder
<1>2. s \in [1 .. N -> S]
  BY <1>1 DEF Enumerates
<1>3. \A k \in 1 .. N : RankIn(S, s[k]) = k - 1
  BY <1>1 DEF RankIn
<1> HIDE DEF N
<1>4. s \in Seq(S) /\ Len(s) = N
  BY <1>1, <1>2
<1>5. /\ \A x \in S : RankIn(S, x) \in 0 .. (N - 1)
      /\ \A x, y \in S : RankIn(S, x) = RankIn(S, y) => x = y
  BY RanksTell DEF N
<1>6. ASSUME NEW x \in S PROVE s[RankIn(S, x) + 1] = x
  <2> DEFINE r == RankIn(S, x)
  <2>1. r \in 0 .. (N - 1)
    BY <1>5
  <2> HIDE DEF r
  <2>2. r + 1 \in 1 .. N /\ (r + 1) - 1 = r
    BY <1>1, <2>1
  <2>3. s[r + 1] \in S /\ RankIn(S, s[r + 1]) = r
    BY <1>2, <1>3, <2>2
  <2> QED
    BY <1>5, <2>3 DEF r
<1> QED
  BY <1>2, <1>3, <1>4, <1>6 DEF N

LEMMA SortedIsUnique ==
    ASSUME NEW S, IsFiniteSet(S), S \subseteq Int,
           NEW t \in [1 .. Cardinality(S) -> S],
           \A k \in 1 .. Cardinality(S) : RankIn(S, t[k]) = k - 1
    PROVE  InOrder(t, S)
<1> DEFINE N == Cardinality(S)
<1>1. PICK s : InOrder(s, S)
  BY Zenon DEF InOrder
<1>2. s \in [1 .. N -> S] /\ \A k \in 1 .. N : RankIn(S, s[k]) = k - 1
  BY <1>1, SortedIs
<1>3. \A x, y \in S : RankIn(S, x) = RankIn(S, y) => x = y
  BY RanksTell
<1> HIDE DEF N
<1>4. \A k \in 1 .. N : t[k] = s[k]
  BY <1>2, <1>3 DEF N
<1>5. t = s
  <2>1. t = [k \in 1 .. N |-> t[k]] /\ s = [k \in 1 .. N |-> s[k]]
    BY <1>2 DEF N
  <2>2. [k \in 1 .. N |-> t[k]] = [k \in 1 .. N |-> s[k]]
    BY <1>4, Zenon
  <2> QED
    BY <2>1, <2>2, Zenon
<1> QED
  BY <1>1, <1>5

\* What is greater than all of them comes last.
LEMMA SortedAppends ==
    ASSUME NEW S, IsFiniteSet(S), S \subseteq Int, NEW x \in Int, \A y \in S : y < x,
           NEW s, InOrder(s, S)
    PROVE  InOrder(Append(s, x), S \cup {x})
<1> DEFINE N == Cardinality(S)
           T == S \cup {x}
           t == Append(s, x)
<1>1. /\ s \in [1 .. N -> S] /\ s \in Seq(S) /\ Len(s) = N
      /\ \A k \in 1 .. N : RankIn(S, s[k]) = k - 1
  BY SortedIs
<1>2. x \notin S
  OBVIOUS
<1>3. IsFiniteSet(T) /\ Cardinality(T) = N + 1 /\ T \subseteq Int /\ N \in Nat
  BY <1>2, FS_AddElement, RanksTell
<1>4. /\ t \in Seq(T) /\ Len(t) = N + 1
      /\ \A k \in 1 .. N : t[k] = s[k]
      /\ t[N + 1] = x
  <2> HIDE DEF N
  <2>1. s \in Seq(T) /\ x \in T
    BY <1>1, <1>3
  <2> HIDE DEF T
  <2> QED
    BY <1>1, <1>3, <2>1
<1>5. t \in [1 .. (N + 1) -> T]
  <2> HIDE DEF t, N, T
  <2> QED
    BY <1>3, <1>4
<1>6. ASSUME NEW k \in 1 .. (N + 1) PROVE RankIn(T, t[k]) = k - 1
  <2>1. CASE k = N + 1
    <3>1. t[k] = x
      BY <1>4, <2>1
    <3>2. {y \in T : y < x} = S
      <4>1. ~(x < x)
        OBVIOUS
      <4>2. ASSUME NEW y PROVE (y \in T /\ y < x) <=> y \in S
        BY <4>1
      <4> HIDE DEF T
      <4> QED
        BY <4>2, Zenon
    <3>3. RankIn(T, x) = N
      BY <3>2 DEF RankIn
    <3> HIDE DEF t, T, N
    <3> QED
      BY <1>3, <2>1, <3>1, <3>3
  <2>2. CASE k # N + 1
    <3>1. k \in 1 .. N
      <4> HIDE DEF N
      <4> QED
        BY <1>3, <2>2
    <3>2. t[k] = s[k] /\ s[k] \in S
      BY <1>1, <1>4, <3>1
    <3>3. {y \in T : y < s[k]} = {y \in S : y < s[k]}
      <4> DEFINE z == s[k]
      <4>1. z \in S /\ z < x /\ z \in Int
        BY <3>2
      <4> HIDE DEF z
      <4>2. ~(x < z)
        BY <4>1
      <4>3. ASSUME NEW y PROVE (y \in T /\ y < z) <=> (y \in S /\ y < z)
        BY <4>2
      <4> HIDE DEF T
      <4>4. {y \in T : y < z} = {y \in S : y < z}
        BY <4>3, Zenon
      <4> QED
        BY <4>4 DEF z
    <3>4. RankIn(T, s[k]) = RankIn(S, s[k])
      BY <3>3 DEF RankIn
    <3> QED
      BY <1>1, <3>1, <3>2, <3>4
  <2> QED
    BY <2>1, <2>2
<1> HIDE DEF T, t, N
<1>7. InOrder(t, T)
  BY <1>3, <1>5, <1>6, SortedIsUnique
<1> QED
  BY <1>7 DEF T, t

\* The rows of a domain up to one of them.
RowsTo(rows, n, d) == {r \in 1 .. n : rows[r].domain = d}

LEMMA RowsToAre ==
    ASSUME NEW rows, NEW d, NEW n \in Nat
    PROVE  /\ IsFiniteSet(RowsTo(rows, n, d)) /\ RowsTo(rows, n, d) \subseteq Int
           /\ Cardinality(RowsTo(rows, n, d)) \in Nat
           /\ RowsTo(rows, 0, d) = {}
           /\ RowsTo(rows, n + 1, d) = IF rows[n + 1].domain = d THEN RowsTo(rows, n, d) \cup {n + 1}
                                       ELSE RowsTo(rows, n, d)
<1>1. IsFiniteSet(1 .. n)
  BY FS_Interval
<1>2. RowsTo(rows, n, d) \subseteq 1 .. n
  BY DEF RowsTo
<1>3. IsFiniteSet(RowsTo(rows, n, d)) /\ Cardinality(RowsTo(rows, n, d)) \in Nat
  BY <1>1, <1>2, FS_Subset, FS_CardinalityType
<1>4. RowsTo(rows, 0, d) = {}
  BY DEF RowsTo
<1>5. 1 .. (n + 1) = (1 .. n) \cup {n + 1}
  OBVIOUS
<1>6. RowsTo(rows, n + 1, d) = IF rows[n + 1].domain = d THEN RowsTo(rows, n, d) \cup {n + 1}
                               ELSE RowsTo(rows, n, d)
  BY <1>5 DEF RowsTo
<1> QED
  BY <1>2, <1>3, <1>4, <1>6

\* How many rows of the domain went by is the place among them.
LEMMA PlaceOfRow ==
    ASSUME NEW rows, NEW N \in Nat, DOMAIN rows = 1 .. N, NEW d, NEW k \in 1 .. N, rows[k].domain = d,
           NEW before, before = Cardinality({r \in 1 .. (k - 1) : rows[r].domain = d})
    PROVE  /\ before \in Nat /\ before < Len(RowsOf(rows, d))
           /\ RowsOf(rows, d)[before + 1] = k
<1> DEFINE S == RowsTo(rows, N, d)
<1>1. IsFiniteSet(S) /\ S \subseteq Int
  BY RowsToAre
<1>2. {r \in DOMAIN rows : rows[r].domain = d} = S
  BY DEF RowsTo
<1>3. PICK s : s = RowsOf(rows, d)
  OBVIOUS
<1>4. InOrder(s, S)
  BY <1>2, <1>3, Zenon DEF RowsOf, InOrder
<1>5. {y \in S : y < k} = {r \in 1 .. (k - 1) : rows[r].domain = d}
  BY DEF RowsTo
<1>6. before = RankIn(S, k) /\ k \in S
  BY <1>5 DEF RankIn, RowsTo
<1> HIDE DEF S
<1>7. s \in Seq(S) /\ Len(s) = Cardinality(S) /\ s[RankIn(S, k) + 1] = k
  BY <1>1, <1>4, <1>6, SortedIs
<1>8. RankIn(S, k) \in 0 .. (Cardinality(S) - 1) /\ Cardinality(S) \in Nat
  BY <1>1, <1>6, RanksTell
<1> QED
  BY <1>3, <1>6, <1>7, <1>8

\* The raw columns behind the packed ones, with "a" the active tags in order and n their number.
RawOf(a, n, p) ==
    IF p < 5 THEN p ELSE IF p - 5 < n THEN 5 + a[p - 5 + 1] ELSE 12 + (p - 5) - n

Lists(a, n, tags, F, w) ==
    /\ tags \in SUBSET (0 .. 6) /\ F \in Nat /\ F >= 12 /\ n \in Nat
    /\ a \in [1 .. n -> tags] /\ \A t \in tags : \E k \in 1 .. n : a[k] = t
    /\ w = 5 + n + F - 12

Spans(a, n, tags, F, w) ==
    /\ w \in Nat /\ w > 0
    /\ {RawOf(a, n, p) : p \in 0 .. (w - 1)} = (0 .. 4) \cup {5 + t : t \in tags} \cup (12 .. (F - 1))
    /\ \A p \in 0 .. (w - 1) : /\ p < 3 => RawOf(a, n, p) = p
                               /\ p >= 3 => RawOf(a, n, p) >= 3 /\ RawOf(a, n, p) \in Nat

LEMMA RawColumns ==
    ASSUME NEW tags, NEW F, NEW n, NEW a, NEW w, Lists(a, n, tags, F, w)
    PROVE  Spans(a, n, tags, F, w)
<1> USE DEF Lists
<1>0. w \in Nat /\ w > 0
  OBVIOUS
<1>1. ASSUME NEW p \in 0 .. (w - 1)
      PROVE  /\ RawOf(a, n, p) \in (0 .. 4) \cup {5 + t : t \in tags} \cup (12 .. (F - 1))
             /\ p < 3 => RawOf(a, n, p) = p
             /\ p >= 3 => RawOf(a, n, p) >= 3 /\ RawOf(a, n, p) \in Nat
  <2>1. CASE p < 5
    BY <1>0, <2>1 DEF RawOf
  <2>2. CASE ~(p < 5) /\ p - 5 < n
    <3> DEFINE t == a[p - 5 + 1]
    <3>1. p - 5 + 1 \in 1 .. n
      BY <1>0, <2>2
    <3>2. t \in tags /\ RawOf(a, n, p) = 5 + t
      BY <2>2, <3>1 DEF RawOf
    <3> HIDE DEF t
    <3>3. t \in Nat
      BY <3>2
    <3> QED
      BY <1>0, <2>2, <3>2, <3>3
  <2>3. CASE ~(p < 5) /\ ~(p - 5 < n)
    <3>1. RawOf(a, n, p) = 12 + (p - 5) - n
      BY <2>3 DEF RawOf
    <3>2. 12 + (p - 5) - n \in 12 .. (F - 1)
      BY <1>0, <2>3
    <3> QED
      BY <1>0, <2>3, <3>1, <3>2
  <2> QED
    BY <2>1, <2>2, <2>3
<1>2. ASSUME NEW r \in (0 .. 4) \cup {5 + t : t \in tags} \cup (12 .. (F - 1))
      PROVE  \E p \in 0 .. (w - 1) : RawOf(a, n, p) = r
  <2>1. CASE r \in 0 .. 4
    <3>1. r \in 0 .. (w - 1) /\ RawOf(a, n, r) = r
      BY <2>1 DEF RawOf
    <3> QED
      BY <3>1
  <2>2. CASE r \in {5 + t : t \in tags}
    <3>1. PICK t \in tags : r = 5 + t
      BY <2>2
    <3>2. PICK k \in 1 .. n : a[k] = t
      OBVIOUS
    <3> DEFINE p == k + 4
    <3>3. p \in 0 .. (w - 1) /\ ~(p < 5) /\ p - 5 < n /\ p - 5 + 1 = k
      BY <3>2
    <3> HIDE DEF p
    <3>4. RawOf(a, n, p) = 5 + a[k]
      BY <3>3 DEF RawOf
    <3> QED
      BY <3>1, <3>2, <3>3, <3>4
  <2>3. CASE r \in 12 .. (F - 1)
    <3> DEFINE p == r - 7 + n
    <3>1. p \in 0 .. (w - 1) /\ ~(p < 5) /\ ~(p - 5 < n) /\ 12 + (p - 5) - n = r
      BY <2>3
    <3> HIDE DEF p
    <3>2. RawOf(a, n, p) = r
      BY <3>1 DEF RawOf
    <3> QED
      BY <3>1, <3>2
  <2> QED
    BY <2>1, <2>2, <2>3
<1> DEFINE I == 0 .. (w - 1)
           R == (0 .. 4) \cup {5 + t : t \in tags} \cup (12 .. (F - 1))
<1>3. /\ \A p \in I : RawOf(a, n, p) \in R
      /\ \A r \in R : \E p \in I : RawOf(a, n, p) = r
  BY <1>1, <1>2
<1>4. {RawOf(a, n, p) : p \in I} = R
  <2> HIDE DEF I, R
  <2> QED
    BY <1>3
<1> QED
  BY <1>0, <1>1, <1>4 DEF Spans

LEMMA ActiveColumns ==
    ASSUME NEW shape, NEW tags \in SUBSET (0 .. (TagCount - 1)), shape.features \in Nat, shape.features >= Surface,
           NEW w, w = WidthOf(shape, tags)
    PROVE  /\ w \in Nat /\ w > 0
           /\ {ActiveRaw(tags, p) : p \in 0 .. (w - 1)}
                 = (0 .. (TagOffset - 1)) \cup {TagOffset + t : t \in tags} \cup (Surface .. (shape.features - 1))
           /\ \A p \in 0 .. (w - 1) :
                /\ p >= Continuous <=> ActiveRaw(tags, p) >= Continuous
                /\ p < Continuous => ActiveRaw(tags, p) = p
<1> DEFINE n == Cardinality(tags)
           F == shape.features
<1>1. PICK a : InOrder(a, tags)
  BY Zenon DEF InOrder
<1>2. TagCount - 1 = 6 /\ TagOffset = 5 /\ TagOffset - 1 = 4 /\ Surface = 12 /\ Continuous = 3
  BY DEF TagCount, TagOffset, Surface, Continuous
<1>3. IsFiniteSet(tags) /\ tags \subseteq Int /\ tags \in SUBSET (0 .. 6)
  <2> DEFINE J == 0 .. (TagCount - 1)
  <2>1. 0 \in Int /\ TagCount - 1 \in Int /\ J = 0 .. 6 /\ J \subseteq Int
    BY <1>2
  <2>2. IsFiniteSet(J)
    BY <2>1, FS_Interval
  <2>3. tags \in SUBSET J
    OBVIOUS
  <2> HIDE DEF J
  <2>4. IsFiniteSet(tags)
    BY <2>2, <2>3, FS_Subset
  <2> QED
    BY <2>1, <2>3, <2>4
<1>4. n \in Nat
  BY <1>3, FS_CardinalityType
<1>5. /\ a \in [1 .. n -> tags] /\ Len(a) = n
      /\ \A t \in tags : a[RankIn(tags, t) + 1] = t
      /\ \A t \in tags : RankIn(tags, t) \in 0 .. (n - 1)
  BY <1>1, <1>3, SortedIs, RanksTell
<1>6. \A t \in tags : \E k \in 1 .. n : a[k] = t
  <2> SUFFICES ASSUME NEW t \in tags PROVE \E k \in 1 .. n : a[k] = t
    OBVIOUS
  <2> DEFINE r == RankIn(tags, t)
  <2>1. r \in 0 .. (n - 1) /\ a[r + 1] = t
    BY <1>5
  <2> HIDE DEF r, n
  <2>2. r + 1 \in 1 .. n
    BY <1>4, <2>1
  <2> QED
    BY <2>1, <2>2
<1>7. \A p : ActiveRaw(tags, p) = IF p < TagOffset THEN p
                                  ELSE IF p - TagOffset < Len(a) THEN TagOffset + a[p - TagOffset + 1]
                                  ELSE Surface + (p - TagOffset) - Len(a)
  BY <1>1, Zenon DEF InOrder, ActiveRaw
<1> HIDE DEF n, F
<1>8. \A p : ActiveRaw(tags, p) = RawOf(a, n, p)
  BY <1>2, <1>5, <1>7 DEF RawOf
<1>9. w = 5 + n + F - 12 /\ F \in Nat /\ F >= 12
  BY <1>2 DEF WidthOf, n, F
<1>13. Lists(a, n, tags, F, w)
  BY <1>3, <1>4, <1>5, <1>6, <1>9 DEF Lists
<1>14. Spans(a, n, tags, F, w)
  BY <1>13, RawColumns
<1>10. /\ w \in Nat /\ w > 0
       /\ {RawOf(a, n, p) : p \in 0 .. (w - 1)} = (0 .. 4) \cup {5 + t : t \in tags} \cup (12 .. (F - 1))
       /\ \A p \in 0 .. (w - 1) : /\ p < 3 => RawOf(a, n, p) = p
                                  /\ p >= 3 => RawOf(a, n, p) >= 3 /\ RawOf(a, n, p) \in Nat
  BY <1>14, Zenon DEF Spans
<1>11. {ActiveRaw(tags, p) : p \in 0 .. (w - 1)} = {RawOf(a, n, p) : p \in 0 .. (w - 1)}
  BY <1>8, Zenon
<1>12. ASSUME NEW p \in 0 .. (w - 1)
       PROVE  /\ p >= Continuous <=> ActiveRaw(tags, p) >= Continuous
              /\ p < Continuous => ActiveRaw(tags, p) = p
  <2> DEFINE r == RawOf(a, n, p)
  <2>1. p < 3 => r = p
    BY <1>10
  <2>2. p >= 3 => r >= 3
    BY <1>10
  <2>3. ActiveRaw(tags, p) = r
    BY <1>8
  <2>4. p \in Int
    BY <1>10
  <2> HIDE DEF r
  <2> QED
    BY <1>2, <2>1, <2>2, <2>3, <2>4
<1> QED
  BY <1>2, <1>10, <1>11, <1>12 DEF F

-----------------------------------------------------------------------------
(* The buffers the plan lays out.                                           *)

\* A plan made for a shape that was found in order.
Laid(shape) ==
    /\ IsShape(shape) /\ shape.features >= Surface /\ shape.targets > 0
    /\ \A d \in DOMAIN shape.tags : shape.tags[d] \subseteq 0 .. (TagCount - 1)
    /\ carried.shape = shape /\ plan = Plan(shape)

LEMMA StartOf ==
    ASSUME NEW n \in Nat, NEW q, q = [i \in 1 .. n |-> q[i]], NEW k \in 1 .. n
    PROVE  /\ DOMAIN SubSeq(q, 1, k - 1) = 1 .. (k - 1)
           /\ \A j \in 1 .. (k - 1) : SubSeq(q, 1, k - 1)[j] = q[j]
<1>1. PICK S : q \in Seq(S) /\ Len(q) = n
  BY SequenceOverSome
<1> DEFINE m == k - 1
<1>2. m \in 0 .. n
  OBVIOUS
<1> HIDE DEF m
<1>3. SubSeq(q, 1, m) \in Seq(S) /\ Len(SubSeq(q, 1, m)) = m
  BY <1>1, <1>2
<1>4. \A j \in 1 .. m : SubSeq(q, 1, m)[j] = q[j]
  BY <1>1, <1>2
<1> QED
  BY <1>2, <1>3, <1>4 DEF m

LEMMA WeightsAreLaid ==
    ASSUME NEW shape, Laid(shape)
    PROVE  LET K == Len(Omitted(shape))
           IN /\ K \in Nat \ {0} /\ DOMAIN plan.subsets = 1 .. K /\ Len(plan.subsets) = K
              /\ shape.targets \in Nat
              /\ plan.subsets = Subsets(shape)
              /\ \A s \in 1 .. K : plan.subsets[s].width \in Nat
              /\ Starts(plan.weightOffset, Widths(shape), K)
              /\ Buffers(shape, plan.subsets, plan.blocks).weights = Total(Widths(shape))
<1> DEFINE K == Len(Omitted(shape))
           S == Subsets(shape)
           M == shape.targets
           w == Widths(shape)
<1>1. plan.subsets = S /\ plan.blocks = Blocks(S, shape)
  BY DEF Laid, Plan
<1>2. /\ DOMAIN S = 1 .. K /\ Len(S) = K /\ K \in Nat \ {0} /\ M \in Nat
      /\ \A s \in 1 .. K : S[s].width \in Nat
  BY SubsetsAre, SequencesAre DEF Laid
<1>3. S = [s \in 1 .. K |-> S[s]]
  <2>1. S = [s \in DOMAIN Omitted(shape) |-> Subset(shape, Omitted(shape)[s])]
    BY DEF Subsets
  <2>2. S = [s \in DOMAIN S |-> S[s]]
    BY <2>1, Zenon
  <2> QED
    BY <1>2, <2>2
<1>4. w = [s \in 1 .. K |-> M * S[s].width]
  BY DEF Widths, Ranks, WidthOn
<1>5. w \in [1 .. K -> Nat]
  BY SequencesAre DEF Laid, Ranks
<1>6. ASSUME NEW k \in 1 .. K
      PROVE  plan.weightOffset[k] = Total([j \in 1 .. (k - 1) |-> w[j]])
  <2> DEFINE q == SubSeq(S, 1, k - 1)
  <2>1. plan.weightOffset = [i \in DOMAIN S |-> Offset(S, i, LAMBDA s : WeightCells(shape, s))]
    BY DEF Laid, Plan
  <2>2. plan.weightOffset[k] = Offset(S, k, LAMBDA s : WeightCells(shape, s))
    BY <1>2, <2>1
  <2>3. plan.weightOffset[k] = Total([j \in DOMAIN q |-> M * q[j].width])
    BY <2>2 DEF Offset, Over, WeightCells
  <2>4. DOMAIN q = 1 .. (k - 1) /\ \A j \in 1 .. (k - 1) : q[j] = S[j]
    <3> HIDE DEF S, K
    <3> QED
      BY <1>2, <1>3, StartOf
  <2>5. \A j \in 1 .. (k - 1) : j \in 1 .. K
    BY <1>2
  <2>6. [j \in DOMAIN q |-> M * q[j].width] = [j \in 1 .. (k - 1) |-> w[j]]
    <3> HIDE DEF q, S, K, w
    <3> QED
      BY <1>4, <2>4, <2>5
  <2> QED
    BY <2>3, <2>6
<1>7. Starts(plan.weightOffset, w, K)
  BY <1>2, <1>5, <1>6 DEF Starts
<1>8. Buffers(shape, S, plan.blocks).weights = Total([s \in DOMAIN S |-> M * S[s].width])
  BY DEF Buffers, Over, WeightCells
<1> QED
  BY <1>1, <1>2, <1>4, <1>7, <1>8

LEMMA ScoresAreLaid ==
    ASSUME NEW shape, Laid(shape)
    PROVE  LET N == Len(Blocks(Subsets(shape), shape))
           IN /\ N \in Nat /\ DOMAIN plan.blocks = 1 .. N
              /\ plan.blocks = Blocks(Subsets(shape), shape)
              /\ \A b \in 1 .. N :
                   /\ plan.blocks[b].subset \in 1 .. Len(Omitted(shape))
                   /\ plan.blocks[b].domain \in Domains(shape)
                   /\ plan.blocks[b].rows = shape.counts[plan.blocks[b].domain + 1]
                   /\ plan.blocks[b].rows \in Nat
                   /\ BlockCells(shape)[b] = shape.targets * plan.blocks[b].rows
              /\ Starts(plan.scoreOffset, BlockCells(shape), N)
              /\ Buffers(shape, plan.subsets, plan.blocks).scores = Total(BlockCells(shape))
<1> DEFINE S == Subsets(shape)
           B == Blocks(S, shape)
           N == Len(B)
           M == shape.targets
           w == BlockCells(shape)
<1>1. plan.subsets = S /\ plan.blocks = B
  BY DEF Laid, Plan
<1>2. DOMAIN B = 1 .. N /\ N \in Nat /\ M \in Nat
  BY BlocksAre, SequencesAre DEF Laid
<1>3. ASSUME NEW b \in 1 .. N
      PROVE  /\ B[b].subset \in 1 .. Len(Omitted(shape)) /\ B[b].domain \in Domains(shape)
             /\ B[b].rows = shape.counts[B[b].domain + 1] /\ B[b].rows \in Nat
  <2> DEFINE q == ReachedInOrder(shape)[b]
  <2>1. /\ q \in Reached(shape) /\ B[b].subset = q[1] /\ B[b].domain = q[2]
        /\ B[b].rows = shape.counts[q[2] + 1]
    BY <1>2, BlockFields DEF Laid
  <2>2. q[1] \in Ranks(shape) /\ q[2] \in Domains(shape) /\ shape.counts[q[2] + 1] \in Nat
    BY <2>1, ReachedAre DEF Laid
  <2> QED
    BY <2>1, <2>2 DEF Ranks
<1>4. w = [b \in 1 .. N |-> M * B[b].rows]
  BY <1>2 DEF BlockCells
<1>5. w \in [1 .. N -> Nat]
  <2>1. \A b \in 1 .. N : M * B[b].rows \in Nat
    <3> SUFFICES ASSUME NEW b \in 1 .. N PROVE M * B[b].rows \in Nat
      OBVIOUS
    <3> DEFINE x == B[b].rows
    <3>1. x \in Nat
      BY <1>3
    <3> HIDE DEF x, M
    <3>2. M * x \in Nat
      BY <1>2, <3>1
    <3> QED
      BY <3>2 DEF x
  <2> HIDE DEF w, B, M, N
  <2> QED
    BY <1>4, <2>1
<1>6. ASSUME NEW k \in 1 .. N
      PROVE  plan.scoreOffset[k] = Total([j \in 1 .. (k - 1) |-> w[j]])
  <2> DEFINE q == SubSeq(B, 1, k - 1)
  <2>1. plan.scoreOffset = [i \in DOMAIN B |-> Offset(B, i, LAMBDA c : ScoreCells(shape, c))]
    BY DEF Laid, Plan
  <2>2. plan.scoreOffset[k] = Offset(B, k, LAMBDA c : ScoreCells(shape, c))
    BY <1>2, <2>1
  <2>3. plan.scoreOffset[k] = Total([j \in DOMAIN q |-> M * q[j].rows])
    BY <2>2 DEF Offset, Over, ScoreCells
  <2>4. DOMAIN q = 1 .. (k - 1) /\ \A j \in 1 .. (k - 1) : q[j] = B[j]
    <3>1. B = [b \in 1 .. N |-> B[b]]
      <4>1. B = [b \in DOMAIN ReachedInOrder(shape) |->
                   [subset |-> ReachedInOrder(shape)[b][1], domain |-> ReachedInOrder(shape)[b][2],
                    rows |-> shape.counts[ReachedInOrder(shape)[b][2] + 1]]]
        BY Zenon DEF Blocks, ReachedInOrder, Reached
      <4>2. B = [b \in DOMAIN B |-> B[b]]
        BY <4>1, Zenon
      <4> QED
        BY <1>2, <4>2
    <3> HIDE DEF B, N
    <3> QED
      BY <1>2, <3>1, StartOf
  <2>5. \A j \in 1 .. (k - 1) : j \in 1 .. N
    BY <1>2
  <2>6. [j \in DOMAIN q |-> M * q[j].rows] = [j \in 1 .. (k - 1) |-> w[j]]
    <3> HIDE DEF q, B, N, w
    <3> QED
      BY <1>4, <2>4, <2>5
  <2> QED
    BY <2>3, <2>6
<1>7. Starts(plan.scoreOffset, w, N)
  BY <1>2, <1>5, <1>6 DEF Starts
<1>8. Buffers(shape, S, B).scores = Total([b \in DOMAIN B |-> M * B[b].rows])
  BY DEF Buffers, Over, ScoreCells
<1> QED
  BY <1>1, <1>2, <1>3, <1>4, <1>7, <1>8

\* The sizes of the others, and the columns of a subset.
LEMMA SidesAreLaid ==
    ASSUME NEW shape, Laid(shape)
    PROVE  LET buffers == Buffers(shape, plan.subsets, plan.blocks)
               K == Len(Omitted(shape))
           IN buffers.means = K * 3 /\ buffers.scales = K * 3 /\ buffers.intercepts = K * shape.targets
<1>1. Len(plan.subsets) = Len(Omitted(shape))
  BY WeightsAreLaid
<1> QED
  BY <1>1 DEF Buffers, Continuous

LEMMA ColumnsAreLaid ==
    ASSUME NEW shape, Laid(shape), NEW s \in 1 .. Len(Omitted(shape))
    PROVE  /\ plan.subsets[s].domains \subseteq Domains(shape)
           /\ plan.subsets[s].tags = TagsOf(shape, plan.subsets[s].domains)
           /\ plan.subsets[s].tags \in SUBSET (0 .. (TagCount - 1))
           /\ plan.subsets[s].width = WidthOf(shape, plan.subsets[s].tags)
<1>1. plan.subsets[s] = Subset(shape, Omitted(shape)[s])
  BY WeightsAreLaid, SubsetsAre DEF Laid
<1> DEFINE one == plan.subsets[s]
           trained == Domains(shape) \ Omitted(shape)[s]
<1>2. /\ one.domains = trained /\ one.tags = TagsOf(shape, trained)
      /\ one.width = WidthOf(shape, TagsOf(shape, trained))
  BY <1>1 DEF Subset
<1>3. \A d \in Domains(shape) : d + 1 \in DOMAIN shape.tags
  BY DomainsAre DEF Laid, IsShape
<1>4. TagsOf(shape, trained) \in SUBSET (0 .. (TagCount - 1))
  BY <1>3 DEF TagsOf, Laid
<1> QED
  BY <1>2, <1>4

\* Where a subset's coefficients go: to cells of their own, which say what they are.
LEMMA WeightPlaces ==
    ASSUME NEW shape, Laid(shape), NEW s \in 1 .. Len(Omitted(shape)),
           NEW t \in Targets, NEW p \in 0 .. (plan.subsets[s].width - 1),
           NEW c, c = WeightAt(s, t, p)
    PROVE  /\ plan.weightOffset[s] \in Nat
           /\ c \in plan.weightOffset[s] .. (plan.weightOffset[s] + Widths(shape)[s] - 1)
           /\ c \in 0 .. (Buffers(shape, plan.subsets, plan.blocks).weights - 1)
           /\ (c - plan.weightOffset[s]) \div plan.subsets[s].width = t
           /\ (c - plan.weightOffset[s]) % plan.subsets[s].width = p
<1> DEFINE K == Len(Omitted(shape))
           M == shape.targets
           w == plan.subsets[s].width
           o == plan.weightOffset[s]
           z == Widths(shape)[s]
           n == Buffers(shape, plan.subsets, plan.blocks).weights
<1>1. /\ K \in Nat \ {0} /\ M \in Nat /\ w \in Nat
      /\ Starts(plan.weightOffset, Widths(shape), K) /\ n = Total(Widths(shape))
      /\ plan.subsets = Subsets(shape)
  BY WeightsAreLaid
<1>2. o \in Nat /\ o + z <= n
  BY <1>1, StretchesFollow
<1>3. z = M * w
  BY <1>1 DEF Widths, Ranks, WidthOn
<1>4. n \in Nat
  BY <1>1, TotalIsNat, SequencesAre DEF Laid
<1>5. t \in Nat /\ t < M /\ p \in Nat /\ p < w /\ w > 0
  BY <1>1 DEF Targets, Laid
<1>6. c = o + t * w + p
  BY DEF WeightAt
<1> HIDE DEF M, w, o, z, n
<1> DEFINE i == t * w + p
<1>7. i \in Nat /\ i < z
  BY <1>1, <1>3, <1>5, FlatIndexFits
<1>8. i \div w = t /\ i % w = p
  <2>1. w \in Nat \ {0} /\ p \in 0 .. (w - 1)
    BY <1>1, <1>5
  <2>2. (t * w + p) \div w = t /\ (t * w + p) % w = p
    BY <1>5, <2>1, FlatIndex
  <2> QED
    BY <2>2
<1>9. c = o + i
  <2> DEFINE a == t * w
  <2>1. a \in Nat
    BY <1>1, <1>5
  <2> HIDE DEF a
  <2>2. c = o + a + p /\ i = a + p
    BY <1>6 DEF a
  <2> HIDE DEF i
  <2> QED
    BY <1>2, <1>5, <2>1, <2>2
<1> HIDE DEF i
<1>10. c - o = i /\ c \in o .. (o + z - 1) /\ c \in 0 .. (n - 1)
  <2>1. z \in Nat
    BY <1>1, <1>3
  <2> QED
    BY <1>2, <1>4, <1>7, <1>9, <2>1
<1> QED
  BY <1>2, <1>8, <1>10 DEF w, o, z, n

LEMMA WeightsApart ==
    ASSUME NEW shape, Laid(shape), NEW r \in 1 .. Len(Omitted(shape)), NEW s \in 1 .. Len(Omitted(shape)), r # s,
           NEW a \in plan.weightOffset[r] .. (plan.weightOffset[r] + Widths(shape)[r] - 1),
           NEW b \in plan.weightOffset[s] .. (plan.weightOffset[s] + Widths(shape)[s] - 1)
    PROVE  a # b
<1> DEFINE K == Len(Omitted(shape))
           w == Widths(shape)
           o == plan.weightOffset
<1>1. K \in Nat /\ Starts(o, w, K)
  BY WeightsAreLaid
<1>2. /\ \A k \in 1 .. K : o[k] \in Nat /\ w[k] \in Nat
      /\ \A j, k \in 1 .. K : j < k => o[j] + w[j] <= o[k]
  BY <1>1, StretchesFollow DEF Starts
<1> HIDE DEF w, o
<1>3. CASE r < s
  BY <1>1, <1>2, <1>3 DEF w, o
<1>4. CASE s < r
  BY <1>1, <1>2, <1>4 DEF w, o
<1> QED
  BY <1>1, <1>3, <1>4

\* Those of a table: row s of K rows of m.
LEMMA TablePlaces ==
    ASSUME NEW K \in Nat, NEW m \in Nat, NEW s \in 1 .. K, NEW t \in 0 .. (m - 1), NEW c, c = (s - 1) * m + t
    PROVE  /\ c \in ((s - 1) * m) .. (s * m - 1) /\ c \in 0 .. (K * m - 1)
           /\ c - (s - 1) * m = t /\ c % m = t
           /\ \A r \in 1 .. K : c \in ((r - 1) * m) .. (r * m - 1) => r = s
<1>1. s - 1 \in Nat /\ s - 1 < K /\ t \in Nat /\ t < m /\ m \in Nat \ {0}
  OBVIOUS
<1>2. \A r \in 1 .. K : r * m = (r - 1) * m + m /\ (r - 1) * m \in Nat
  <2> SUFFICES ASSUME NEW r \in 1 .. K PROVE r * m = (r - 1) * m + m /\ (r - 1) * m \in Nat
    OBVIOUS
  <2> DEFINE q == r - 1
  <2>1. q \in Nat /\ r = q + 1
    OBVIOUS
  <2> HIDE DEF q
  <2>2. r * m = q * m + m /\ q * m \in Nat
    BY <2>1
  <2> QED
    BY <2>2 DEF q
<1>3. c \in Nat /\ c < K * m
  <2> DEFINE q == s - 1
  <2> HIDE DEF q
  <2>1. q \in Nat /\ q < K
    BY <1>1 DEF q
  <2>2. q * m + t \in Nat /\ q * m + t < K * m
    BY <1>1, <2>1, FlatIndexFits
  <2> QED
    BY <2>2 DEF q
<1>4. c \div m = s - 1 /\ c % m = t
  <2> DEFINE q == s - 1
  <2> HIDE DEF q
  <2>1. (q * m + t) \div m = q /\ (q * m + t) % m = t
    BY <1>1, FlatIndex DEF q
  <2> QED
    BY <2>1 DEF q
<1>5. ASSUME NEW r \in 1 .. K, c \in ((r - 1) * m) .. (r * m - 1) PROVE r = s
  <2> DEFINE q == r - 1
             e == q * m
  <2>1. e \in Nat /\ r * m = e + m
    BY <1>2
  <2>2. c >= e /\ c < e + m
    BY <1>1, <1>3, <1>5, <2>1
  <2> DEFINE y == c - e
  <2>3. y \in 0 .. (m - 1) /\ c = e + y
    <3> HIDE DEF e
    <3> QED
      BY <1>1, <1>3, <2>1, <2>2
  <2>4. q \in Nat
    OBVIOUS
  <2> HIDE DEF y, q
  <2>5. c = q * m + y
    BY <2>3
  <2>6. c \div m = q
    BY <1>1, <2>3, <2>4, <2>5, FlatIndex
  <2> QED
    BY <1>4, <2>6 DEF q
<1> DEFINE e == (s - 1) * m
           n == K * m
<1>6. e \in Nat /\ s * m = e + m
  BY <1>2
<1>7. n \in Nat
  OBVIOUS
<1>8. c = e + t /\ c < n
  BY <1>3
<1> HIDE DEF e, n
<1>9. c \in e .. (e + m - 1) /\ c \in 0 .. (n - 1) /\ c - e = t
  BY <1>1, <1>6, <1>7, <1>8
<1> QED
  BY <1>4, <1>5, <1>6, <1>9 DEF e, n

-----------------------------------------------------------------------------
(* What solving leaves in them.                                             *)

LEMMA WrittenIs ==
    ASSUME NEW cells, NEW made, NEW c \in DOMAIN cells
    PROVE  /\ c \in DOMAIN made => Written(cells, made)[c] = made[c]
           /\ c \notin DOMAIN made => Written(cells, made)[c] = cells[c]
BY DEF Written

FitOf(s) == Fit(carried, plan.subsets[s].domains)

\* What a solved subset leaves in each buffer.
WeightsRight(s, cells) ==
    \A t \in Targets : \A p \in 0 .. (plan.subsets[s].width - 1) :
        cells[WeightAt(s, t, p)] = Coefficient("weight", FitOf(s), t, ActiveRaw(plan.subsets[s].tags, p))

ScalesRight(kind, s, cells) ==
    \A i \in 0 .. 2 : cells[(s - 1) * 3 + i] = Coefficient(kind, FitOf(s), 0, i)

InterceptsRight(s, cells) ==
    \A t \in Targets : cells[(s - 1) * carried.shape.targets + t] = Coefficient("intercept", FitOf(s), t, 0)

LEMMA SolvedWeights ==
    ASSUME NEW shape, Laid(shape), NEW s \in 1 .. Len(Omitted(shape)),
           Combined(plan.subsets[s].domains) = FitOf(s),
           NEW cells, DOMAIN cells = 0 .. (Buffers(shape, plan.subsets, plan.blocks).weights - 1),
           NEW made, made = Solved(s).weights
    PROVE  /\ WeightsRight(s, Written(cells, made))
           /\ \A r \in 1 .. Len(Omitted(shape)) :
                WeightsRight(r, cells) /\ r # s => WeightsRight(r, Written(cells, made))
<1> DEFINE one == plan.subsets[s]
           Spots == {WeightAt(s, t, p) : t \in Targets, p \in 0 .. (one.width - 1)}
           off == plan.weightOffset[s]
           after == Written(cells, made)
<1>1. made = [c \in Spots |->
                 Coefficient("weight", FitOf(s), (c - off) \div one.width,
                             ActiveRaw(one.tags, (c - off) % one.width))]
  BY DEF Solved
<1> HIDE DEF Spots
<1>2. ASSUME NEW t \in Targets, NEW p \in 0 .. (one.width - 1)
      PROVE  after[WeightAt(s, t, p)] = Coefficient("weight", FitOf(s), t, ActiveRaw(one.tags, p))
  <2> DEFINE c == WeightAt(s, t, p)
  <2>1. c \in Spots
    BY DEF Spots
  <2>2. c \in DOMAIN cells /\ (c - off) \div one.width = t /\ (c - off) % one.width = p
    BY WeightPlaces
  <2> HIDE DEF c
  <2>3. made[c] = Coefficient("weight", FitOf(s), (c - off) \div one.width, ActiveRaw(one.tags, (c - off) % one.width))
        /\ c \in DOMAIN made
    BY <1>1, <2>1
  <2>4. made[c] = Coefficient("weight", FitOf(s), t, ActiveRaw(one.tags, p))
    BY <2>2, <2>3
  <2>5. after[c] = made[c]
    BY ONLY <2>2, <2>3, WrittenIs
  <2> QED
    BY <2>4, <2>5 DEF c
<1>3. ASSUME NEW r \in 1 .. Len(Omitted(shape)), WeightsRight(r, cells), r # s,
             NEW t \in Targets, NEW p \in 0 .. (plan.subsets[r].width - 1)
      PROVE  after[WeightAt(r, t, p)] = cells[WeightAt(r, t, p)]
  <2> DEFINE c == WeightAt(r, t, p)
             R == plan.weightOffset[r] .. (plan.weightOffset[r] + Widths(shape)[r] - 1)
             S == plan.weightOffset[s] .. (plan.weightOffset[s] + Widths(shape)[s] - 1)
  <2>1. c \in R /\ c \in DOMAIN cells
    BY WeightPlaces
  <2>2. \A u \in Targets : \A q \in 0 .. (one.width - 1) : WeightAt(s, u, q) \in S
    BY WeightPlaces
  <2>3. \A a \in R : \A b \in S : a # b
    BY <1>3, WeightsApart
  <2> HIDE DEF c, R, S
  <2>4. c \notin Spots
    BY <2>1, <2>2, <2>3 DEF Spots
  <2>5. c \notin DOMAIN made
    BY <1>1, <2>4
  <2>6. after[c] = cells[c]
    BY ONLY <2>1, <2>5, WrittenIs
  <2> QED
    BY <2>6 DEF c
<1> HIDE DEF after
<1>4. WeightsRight(s, after)
  BY <1>2 DEF WeightsRight
<1>5. \A r \in 1 .. Len(Omitted(shape)) : WeightsRight(r, cells) /\ r # s => WeightsRight(r, after)
  BY <1>3 DEF WeightsRight
<1> QED
  BY <1>4, <1>5 DEF after

LEMMA SolvedScales ==
    ASSUME NEW K \in Nat, NEW s \in 1 .. K, NEW kind,
           Combined(plan.subsets[s].domains) = FitOf(s),
           NEW cells, DOMAIN cells = 0 .. (K * 3 - 1),
           NEW made, made = [c \in Continuously(s) |-> Coefficient(kind, Combined(plan.subsets[s].domains), 0, c % Continuous)]
    PROVE  /\ ScalesRight(kind, s, Written(cells, made))
           /\ \A r \in 1 .. K : ScalesRight(kind, r, cells) /\ r # s => ScalesRight(kind, r, Written(cells, made))
<1> DEFINE after == Written(cells, made)
           three == 3
           Rows3(r) == ((r - 1) * three) .. (r * three - 1)
           At(r, i) == (r - 1) * three + i
<1>0. Continuous = three /\ three \in Nat
  BY DEF Continuous
<1>1. made = [c \in Rows3(s) |-> Coefficient(kind, FitOf(s), 0, c % three)]
  BY <1>0 DEF Continuously
<1> HIDE DEF three
<1>2. \A r \in 1 .. K : \A i \in 0 .. (three - 1) :
         /\ At(r, i) \in Rows3(r) /\ At(r, i) \in 0 .. (K * three - 1) /\ At(r, i) % three = i
         /\ \A q \in 1 .. K : At(r, i) \in Rows3(q) => q = r
  BY <1>0, TablePlaces
<1>3. DOMAIN cells = 0 .. (K * three - 1) /\ 0 .. (three - 1) = 0 .. 2
  BY DEF three
<1> HIDE DEF Rows3, At, after
<1>4. ASSUME NEW i \in 0 .. (three - 1) PROVE after[At(s, i)] = Coefficient(kind, FitOf(s), 0, i)
  <2>1. At(s, i) \in DOMAIN made /\ At(s, i) \in DOMAIN cells /\ made[At(s, i)] = Coefficient(kind, FitOf(s), 0, i)
    BY <1>1, <1>2, <1>3
  <2> QED
    BY <2>1, WrittenIs DEF after
<1>5. ASSUME NEW r \in 1 .. K, r # s, NEW i \in 0 .. (three - 1) PROVE after[At(r, i)] = cells[At(r, i)]
  <2>1. At(r, i) \notin DOMAIN made /\ At(r, i) \in DOMAIN cells
    BY <1>1, <1>2, <1>3, <1>5
  <2> QED
    BY <2>1, WrittenIs DEF after
<1>6. \A r, c : ScalesRight(kind, r, c) <=> \A i \in 0 .. (three - 1) : c[At(r, i)] = Coefficient(kind, FitOf(r), 0, i)
  BY DEF ScalesRight, At, three
<1>7. ScalesRight(kind, s, after)
  BY <1>4, <1>6
<1>8. \A r \in 1 .. K : ScalesRight(kind, r, cells) /\ r # s => ScalesRight(kind, r, after)
  BY <1>5, <1>6
<1> QED
  BY <1>7, <1>8 DEF after

LEMMA SolvedIntercepts ==
    ASSUME NEW shape, Laid(shape), NEW s \in 1 .. Len(Omitted(shape)),
           Combined(plan.subsets[s].domains) = FitOf(s),
           NEW cells, DOMAIN cells = 0 .. (Len(Omitted(shape)) * shape.targets - 1),
           NEW made, made = Solved(s).intercepts
    PROVE  /\ InterceptsRight(s, Written(cells, made))
           /\ \A r \in 1 .. Len(Omitted(shape)) :
                InterceptsRight(r, cells) /\ r # s => InterceptsRight(r, Written(cells, made))
<1> DEFINE after == Written(cells, made)
           K == Len(Omitted(shape))
           M == shape.targets
           Row(r) == ((r - 1) * M) .. (r * M - 1)
           At(r, i) == (r - 1) * M + i
<1>0. K \in Nat /\ M \in Nat /\ Targets = 0 .. (M - 1)
  BY WeightsAreLaid DEF Targets, Laid
<1>1. made = [c \in Row(s) |-> Coefficient("intercept", FitOf(s), c - (s - 1) * M, 0)]
  BY DEF Solved, Laid
<1>6. \A r, c : InterceptsRight(r, c) <=> \A i \in Targets : c[At(r, i)] = Coefficient("intercept", FitOf(r), i, 0)
  BY DEF InterceptsRight, Laid
<1> HIDE DEF M, K
<1>2. \A r \in 1 .. K : \A i \in 0 .. (M - 1) :
         /\ At(r, i) \in Row(r) /\ At(r, i) \in 0 .. (K * M - 1) /\ At(r, i) - (r - 1) * M = i
         /\ \A q \in 1 .. K : At(r, i) \in Row(q) => q = r
  BY <1>0, TablePlaces
<1>3. DOMAIN cells = 0 .. (K * M - 1) /\ s \in 1 .. K
  BY DEF K, M
<1> HIDE DEF after
<1>4. ASSUME NEW i \in Targets PROVE after[At(s, i)] = Coefficient("intercept", FitOf(s), i, 0)
  <2> DEFINE c == At(s, i)
  <2>1. c \in Row(s) /\ c \in DOMAIN cells /\ c - (s - 1) * M = i
    BY <1>0, <1>2, <1>3
  <2> HIDE DEF c, Row
  <2>2. c \in DOMAIN made /\ made[c] = Coefficient("intercept", FitOf(s), i, 0)
    BY <1>1, <2>1
  <2>3. after[c] = made[c]
    BY ONLY <2>1, <2>2, WrittenIs DEF after
  <2> QED
    BY <2>2, <2>3 DEF c
<1> HIDE DEF Row, At
<1>5. ASSUME NEW r \in 1 .. K, r # s, NEW i \in Targets PROVE after[At(r, i)] = cells[At(r, i)]
  <2>1. At(r, i) \notin DOMAIN made /\ At(r, i) \in DOMAIN cells
    BY <1>0, <1>1, <1>2, <1>3, <1>5
  <2> QED
    BY ONLY <2>1, WrittenIs DEF after
<1>7. InterceptsRight(s, after)
  BY <1>4, <1>6
<1>8. \A r \in 1 .. K : InterceptsRight(r, cells) /\ r # s => InterceptsRight(r, after)
  BY <1>5, <1>6
<1> QED
  BY <1>7, <1>8 DEF after, K

LEMMA WrittenKeepsSize ==
    ASSUME NEW cells, NEW made
    PROVE  DOMAIN Written(cells, made) = DOMAIN cells
BY DEF Written

LEMMA PlannedIsLaid ==
    ASSUME StageInv, stage \in PastPlan \/ (stage \notin Running /\ status = Success)
    PROVE  Laid(carried.shape)
<1>1. \E s \in PastPlan : Known(s)
  BY DEF StageInv, StageFollows, PastPlan, PastMagic, Running
<1>2. PreflightStatus = Success /\ plan = Plan(carried.shape)
  BY <1>1 DEF Known
<1>3. IsShape(carried.shape)
  BY DEF StageInv, FilesAre, IsFile
<1>4. InRange(carried.shape) /\ Catalogued(carried.shape)
  BY <1>2 DEF PreflightStatus, Success, Resource, Protocol
<1>5. carried.shape.features >= Surface
  BY <1>3, <1>4, InRangeIs
<1>6. carried.shape.targets > 0
  BY <1>3, <1>4, SidecarAssumption DEF InRange, IsShape
<1>7. \A d \in DOMAIN carried.shape.tags : carried.shape.tags[d] \subseteq 0 .. (TagCount - 1)
  BY <1>4 DEF Catalogued
<1> QED
  BY <1>2, <1>3, <1>5, <1>6, <1>7 DEF Laid

\* What was allocated keeps its size.
SizesHold ==
    LET buffers == Buffers(carried.shape, plan.subsets, plan.blocks)
        K == Len(Omitted(carried.shape))
    IN /\ DOMAIN weights = 0 .. (buffers.weights - 1) /\ DOMAIN scores = 0 .. (buffers.scores - 1)
       /\ DOMAIN side.means = 0 .. (K * 3 - 1) /\ DOMAIN side.scales = 0 .. (K * 3 - 1)
       /\ DOMAIN side.intercepts = 0 .. (K * carried.shape.targets - 1)
       /\ DOMAIN moments = Domains(carried.shape)

\* The rows that went by, in their order.
MomentsRight(n) ==
    \A d \in Domains(carried.shape) : InOrder(moments[d], RowsTo(carried.rows, n, d))

LEMMA AllocatedSizes ==
    ASSUME Laid(carried.shape), Allocate, stage' # "write"
    PROVE  SizesHold' /\ MomentsRight(0)'
<1> DEFINE buffers == Buffers(carried.shape, plan.subsets, plan.blocks)
           K == Len(Omitted(carried.shape))
<1>1. /\ plan' = plan /\ carried' = carried
      /\ moments' = [d \in Domains(carried.shape) |-> << >>]
      /\ weights' = Cells(buffers.weights) /\ scores' = Cells(buffers.scores)
      /\ side' = [means |-> Cells(buffers.means), scales |-> Cells(buffers.scales),
                  intercepts |-> Cells(buffers.intercepts)]
  BY DEF Allocate, Fail, Alone
<1>2. \A n : DOMAIN Cells(n) = 0 .. (n - 1)
  BY DEF Cells
<1>3. buffers.means = K * 3 /\ buffers.scales = K * 3 /\ buffers.intercepts = K * carried.shape.targets
  BY SidesAreLaid
<1>4. SizesHold'
  <2>1. DOMAIN weights' = 0 .. (buffers.weights - 1) /\ DOMAIN scores' = 0 .. (buffers.scores - 1)
    BY <1>1, <1>2
  <2>2. /\ DOMAIN side'.means = 0 .. (K * 3 - 1) /\ DOMAIN side'.scales = 0 .. (K * 3 - 1)
        /\ DOMAIN side'.intercepts = 0 .. (K * carried.shape.targets - 1)
    <3> HIDE DEF buffers, K
    <3> QED
      BY <1>1, <1>2, <1>3
  <2>3. DOMAIN moments' = Domains(carried.shape)
    BY <1>1
  <2> QED
    BY <1>1, <2>1, <2>2, <2>3 DEF SizesHold
<1>5. ASSUME NEW d \in Domains(carried.shape) PROVE InOrder(moments'[d], RowsTo(carried.rows, 0, d))
  <2>1. moments'[d] = << >>
    BY <1>1
  <2>2. RowsTo(carried.rows, 0, d) = {}
    BY RowsToAre
  <2>3. InOrder(<< >>, {})
    <3>1. IsFiniteSet({}) /\ Cardinality({}) = 0
      BY FS_EmptySet
    <3>2. << >> \in [1 .. Cardinality({}) -> {}] /\ {} \subseteq Int
      BY <3>1
    <3>3. \A k \in 1 .. Cardinality({}) : RankIn({}, << >>[k]) = k - 1
      BY <3>1
    <3> QED
      BY <3>1, <3>2, <3>3, SortedIsUnique
  <2> QED
    BY <2>1, <2>2, <2>3
<1>6. MomentsRight(0)'
  BY <1>1, <1>5 DEF MomentsRight
<1> QED
  BY <1>4, <1>6

LEMMA MomentsGrow ==
    ASSUME IsFile(carried), SizesHold, NEW n \in Nat, MomentsRight(n), n + 1 <= Len(carried.rows),
           carried' = carried,
           moments' = [moments EXCEPT ![carried.rows[n + 1].domain] = Append(@, n + 1)]
    PROVE  MomentsRight(n + 1)' /\ DOMAIN moments' = DOMAIN moments
<1> DEFINE rows == carried.rows
<1>1. DOMAIN moments = Domains(carried.shape)
  BY DEF SizesHold
<1>2. ASSUME NEW d \in Domains(carried.shape) PROVE InOrder(moments'[d], RowsTo(rows, n + 1, d))
  <2>1. InOrder(moments[d], RowsTo(rows, n, d))
    BY DEF MomentsRight
  <2>2. /\ IsFiniteSet(RowsTo(rows, n, d)) /\ RowsTo(rows, n, d) \subseteq Int
        /\ RowsTo(rows, n + 1, d) = IF rows[n + 1].domain = d THEN RowsTo(rows, n, d) \cup {n + 1}
                                    ELSE RowsTo(rows, n, d)
    BY RowsToAre
  <2>3. CASE rows[n + 1].domain = d
    <3>1. moments'[d] = Append(moments[d], n + 1)
      BY <1>1, <2>3
    <3>2. \A y \in RowsTo(rows, n, d) : y < n + 1
      BY DEF RowsTo
    <3>3. n + 1 \in Int
      OBVIOUS
    <3>4. InOrder(Append(moments[d], n + 1), RowsTo(rows, n, d) \cup {n + 1})
      BY <2>1, <2>2, <3>2, <3>3, SortedAppends
    <3> QED
      BY <2>2, <2>3, <3>1, <3>4
  <2>4. CASE rows[n + 1].domain # d
    <3>1. moments'[d] = moments[d]
      BY <1>1, <2>4
    <3> QED
      BY <2>1, <2>2, <2>4, <3>1
  <2> QED
    BY <2>3, <2>4
<1>3. MomentsRight(n + 1)'
  BY <1>2 DEF MomentsRight
<1> QED
  BY <1>3

\* All of them: the moments of a subset are the fit to its rows.
LEMMA CombinedIsFit ==
    ASSUME Laid(carried.shape), IsFile(carried), SizesHold, MomentsRight(Len(carried.rows)),
           NEW s \in 1 .. Len(Omitted(carried.shape))
    PROVE  Combined(plan.subsets[s].domains) = FitOf(s)
<1> DEFINE doms == plan.subsets[s].domains
           rows == carried.rows
<1>1. doms \subseteq Domains(carried.shape)
  BY ColumnsAreLaid
<1>2. ASSUME NEW d \in doms PROVE moments[d] = RowsOf(rows, d)
  <2>1. DOMAIN rows = 1 .. Len(rows)
    BY DEF IsFile
  <2>2. {r \in DOMAIN rows : rows[r].domain = d} = RowsTo(rows, Len(rows), d)
    BY <2>1 DEF RowsTo
  <2>3. InOrder(moments[d], RowsTo(rows, Len(rows), d))
    BY <1>1 DEF MomentsRight
  <2> QED
    BY <2>2, <2>3, Zenon DEF InOrder, RowsOf
<1> QED
  BY <1>2 DEF Combined, FitOf, Fit

SubsetRight(s) ==
    /\ WeightsRight(s, weights)
    /\ ScalesRight("mean", s, side.means) /\ ScalesRight("scale", s, side.scales)
    /\ InterceptsRight(s, side.intercepts)

LEMMA RightIsRight ==
    ASSUME carried' = carried, plan' = plan, NEW s,
           WeightsRight(s, weights'),
           ScalesRight("mean", s, side'.means), ScalesRight("scale", s, side'.scales),
           InterceptsRight(s, side'.intercepts)
    PROVE  SubsetRight(s)'
<1>1. Targets' = Targets
  BY DEF Targets
<1>2. \A t, p : WeightAt(s, t, p)' = WeightAt(s, t, p)
  BY DEF WeightAt
<1>3. FitOf(s)' = FitOf(s)
  BY DEF FitOf
<1>4. WeightsRight(s, weights)'
  BY <1>1, <1>2, <1>3 DEF WeightsRight
<1>5. ScalesRight("mean", s, side.means)' /\ ScalesRight("scale", s, side.scales)'
  BY <1>3 DEF ScalesRight
<1>6. InterceptsRight(s, side.intercepts)'
  BY <1>1, <1>3 DEF InterceptsRight
<1> QED
  BY <1>4, <1>5, <1>6 DEF SubsetRight

LEMMA RightStays ==
    ASSUME carried' = carried, plan' = plan, weights' = weights, side' = side, NEW s, SubsetRight(s)
    PROVE  SubsetRight(s)'
BY RightIsRight DEF SubsetRight

LEMMA SizesStay ==
    ASSUME SizesHold, carried' = carried, plan' = plan, DOMAIN weights' = DOMAIN weights,
           DOMAIN scores' = DOMAIN scores, DOMAIN moments' = DOMAIN moments,
           DOMAIN side'.means = DOMAIN side.means, DOMAIN side'.scales = DOMAIN side.scales,
           DOMAIN side'.intercepts = DOMAIN side.intercepts
    PROVE  SizesHold'
BY DEF SizesHold

LEMMA SolveSolves ==
    ASSUME Laid(carried.shape), IsFile(carried), SizesHold, MomentsRight(Len(carried.rows)),
           Solve, stage' # "write", NEW now \in Nat \ {0}, turn = now
    PROVE  /\ now \in 1 .. Len(Omitted(carried.shape))
           /\ stage' = IF now = Len(Omitted(carried.shape)) THEN "score" ELSE "solve"
           /\ turn' = IF now = Len(Omitted(carried.shape)) THEN 1 ELSE now + 1
           /\ SubsetRight(now)'
           /\ \A r \in 1 .. Len(Omitted(carried.shape)) : SubsetRight(r) /\ r # now => SubsetRight(r)'
           /\ SizesHold' /\ moments' = moments /\ scores' = scores /\ plan' = plan
<1> DEFINE K == Len(Omitted(carried.shape))
           made == Solved(now)
           shape == carried.shape
<1>1. /\ now <= Len(plan.subsets) /\ stage = "solve"
      /\ weights' = Written(weights, made.weights)
      /\ side' = [means |-> Written(side.means, made.means),
                  scales |-> Written(side.scales, made.scales),
                  intercepts |-> Written(side.intercepts, made.intercepts)]
      /\ IF now = Len(plan.subsets) THEN Goto("score") ELSE Repeat
      /\ UNCHANGED <<plan, moments, scores>> /\ carried' = carried
  BY DEF Solve, Fail, MayFail, Alone
<1>2. Len(plan.subsets) = K /\ K \in Nat
  BY WeightsAreLaid
<1>3. now \in 1 .. K
  BY <1>1, <1>2
<1>4. Combined(plan.subsets[now].domains) = FitOf(now)
  BY <1>3, CombinedIsFit
<1>5. /\ WeightsRight(now, weights')
      /\ \A r \in 1 .. K : WeightsRight(r, weights) /\ r # now => WeightsRight(r, weights')
  <2>1. DOMAIN weights = 0 .. (Buffers(shape, plan.subsets, plan.blocks).weights - 1)
    BY DEF SizesHold
  <2> QED
    BY <1>1, <1>3, <1>4, <2>1, SolvedWeights
<1>6. /\ made.means = [c \in Continuously(now) |-> Coefficient("mean", Combined(plan.subsets[now].domains), 0, c % Continuous)]
      /\ made.scales = [c \in Continuously(now) |-> Coefficient("scale", Combined(plan.subsets[now].domains), 0, c % Continuous)]
  BY DEF Solved
<1>7. /\ ScalesRight("mean", now, Written(side.means, made.means))
      /\ \A r \in 1 .. K : ScalesRight("mean", r, side.means) /\ r # now => ScalesRight("mean", r, Written(side.means, made.means))
  <2>1. DOMAIN side.means = 0 .. (K * 3 - 1)
    BY DEF SizesHold
  <2> HIDE DEF K, made
  <2> QED
    BY <1>2, <1>3, <1>4, <1>6, <2>1, SolvedScales
<1>8. /\ ScalesRight("scale", now, Written(side.scales, made.scales))
      /\ \A r \in 1 .. K : ScalesRight("scale", r, side.scales) /\ r # now => ScalesRight("scale", r, Written(side.scales, made.scales))
  <2>1. DOMAIN side.scales = 0 .. (K * 3 - 1)
    BY DEF SizesHold
  <2> HIDE DEF K, made
  <2> QED
    BY <1>2, <1>3, <1>4, <1>6, <2>1, SolvedScales
<1>9. /\ InterceptsRight(now, Written(side.intercepts, made.intercepts))
      /\ \A r \in 1 .. K : InterceptsRight(r, side.intercepts) /\ r # now => InterceptsRight(r, Written(side.intercepts, made.intercepts))
  <2>1. DOMAIN side.intercepts = 0 .. (K * shape.targets - 1)
    BY DEF SizesHold
  <2> QED
    BY <1>3, <1>4, <2>1, SolvedIntercepts
<1>10. /\ side'.means = Written(side.means, made.means) /\ side'.scales = Written(side.scales, made.scales)
       /\ side'.intercepts = Written(side.intercepts, made.intercepts)
  <2> HIDE DEF made
  <2> QED
    BY <1>1
<1> HIDE DEF made, K
<1>11. SubsetRight(now)'
  BY <1>1, <1>5, <1>7, <1>8, <1>9, <1>10, RightIsRight
<1>12. ASSUME NEW r \in 1 .. K, SubsetRight(r), r # now PROVE SubsetRight(r)'
  <2>1. /\ WeightsRight(r, weights')
        /\ ScalesRight("mean", r, side'.means) /\ ScalesRight("scale", r, side'.scales)
        /\ InterceptsRight(r, side'.intercepts)
    BY <1>5, <1>7, <1>8, <1>9, <1>10, <1>12 DEF SubsetRight
  <2> QED
    BY <1>1, <2>1, RightIsRight
<1>13. SizesHold'
  BY <1>1, <1>10, SizesStay, WrittenKeepsSize
<1>14. /\ stage' = IF now = K THEN "score" ELSE "solve"
       /\ turn' = IF now = K THEN 1 ELSE now + 1
  BY <1>1, <1>2 DEF Goto, Repeat
<1> QED
  BY <1>1, <1>3, <1>11, <1>12, <1>13, <1>14 DEF K

-----------------------------------------------------------------------------
(* What scoring leaves in them.                                             *)

\* The score of a row under a subset, said of the row and the rows it was fitted to.
TermOf(s, row, target, raw) ==
    [row |-> row, raw |-> raw,
     encoding |-> IF raw >= Continuous THEN << >>
                  ELSE <<Coefficient("mean", FitOf(s), 0, raw), Coefficient("scale", FitOf(s), 0, raw)>>,
     weight |-> Coefficient("weight", FitOf(s), target, raw)]

ScoreMeant(s, row, target) ==
    [terms |-> {TermOf(s, row, target, raw) : raw \in Column(carried, plan.subsets[s].domains)},
     intercept |-> Coefficient("intercept", FitOf(s), target, 0)]

LEMMA ColumnIsActive ==
    ASSUME Laid(carried.shape), TagsAgree(carried), NEW s \in 1 .. Len(Omitted(carried.shape))
    PROVE  Column(carried, plan.subsets[s].domains)
              = {ActiveRaw(plan.subsets[s].tags, p) : p \in 0 .. (plan.subsets[s].width - 1)}
<1> DEFINE shape == carried.shape
           one == plan.subsets[s]
<1>1. /\ one.domains \subseteq Domains(shape) /\ one.tags = TagsOf(shape, one.domains)
      /\ one.tags \in SUBSET (0 .. (TagCount - 1)) /\ one.width = WidthOf(shape, one.tags)
  BY ColumnsAreLaid
<1>2. shape.features \in Nat /\ shape.features >= Surface
  BY DEF Laid, IsShape
<1>3. {ActiveRaw(one.tags, p) : p \in 0 .. (one.width - 1)}
        = (0 .. (TagOffset - 1)) \cup {TagOffset + t : t \in one.tags} \cup (Surface .. (shape.features - 1))
  <2> DEFINE tags == one.tags
             w == one.width
  <2> HIDE DEF one, shape
  <2>1. tags \in SUBSET (0 .. (TagCount - 1)) /\ w = WidthOf(shape, tags)
    BY <1>1
  <2> HIDE DEF tags, w
  <2>2. {ActiveRaw(tags, p) : p \in 0 .. (w - 1)}
        = (0 .. (TagOffset - 1)) \cup {TagOffset + t : t \in tags} \cup (Surface .. (shape.features - 1))
    BY <1>2, <2>1, ActiveColumns
  <2> QED
    BY <2>2 DEF tags, w
<1>4. \A d \in Domains(shape) : ObservedTags(carried.rows, d) = shape.tags[d + 1]
  BY DEF TagsAgree
<1>5. UNION {ObservedTags(carried.rows, d) : d \in one.domains} = one.tags
  <2>1. {ObservedTags(carried.rows, d) : d \in one.domains} = {shape.tags[d + 1] : d \in one.domains}
    BY <1>1, <1>4
  <2> QED
    BY <1>1, <2>1 DEF TagsOf
<1> QED
  BY <1>3, <1>5 DEF Column

LEMMA TermIsMeant ==
    ASSUME Laid(carried.shape), NEW s \in 1 .. Len(Omitted(carried.shape)), SubsetRight(s),
           NEW t \in Targets, NEW row, NEW p \in 0 .. (plan.subsets[s].width - 1)
    PROVE  Term(row, s, t, p) = TermOf(s, row, t, ActiveRaw(plan.subsets[s].tags, p))
<1> DEFINE raw == ActiveRaw(plan.subsets[s].tags, p)
           M(i) == side.means[(s - 1) * Continuous + i]
           S(i) == side.scales[(s - 1) * Continuous + i]
           W == weights[WeightAt(s, t, p)]
<1>1. W = Coefficient("weight", FitOf(s), t, raw)
  BY DEF SubsetRight, WeightsRight
<1>2. Continuous = 3
  BY DEF Continuous
<1>3. \A i \in 0 .. 2 : M(i) = Coefficient("mean", FitOf(s), 0, i) /\ S(i) = Coefficient("scale", FitOf(s), 0, i)
  BY <1>2 DEF SubsetRight, ScalesRight
<1>4. /\ p >= Continuous <=> raw >= Continuous
      /\ p < Continuous => raw = p
  <2> DEFINE tags == plan.subsets[s].tags
             w == plan.subsets[s].width
  <2>1. tags \in SUBSET (0 .. (TagCount - 1)) /\ w = WidthOf(carried.shape, tags)
    BY ColumnsAreLaid
  <2>2. carried.shape.features \in Nat /\ carried.shape.features >= Surface
    BY DEF Laid, IsShape
  <2>3. p \in 0 .. (w - 1)
    OBVIOUS
  <2> HIDE DEF tags, w
  <2>4. /\ p >= Continuous <=> ActiveRaw(tags, p) >= Continuous
        /\ p < Continuous => ActiveRaw(tags, p) = p
    BY <2>1, <2>2, <2>3, ActiveColumns
  <2> QED
    BY <2>4 DEF tags
<1>5. Term(row, s, t, p) = [row |-> row, raw |-> raw,
                            encoding |-> IF p >= Continuous THEN << >> ELSE <<M(p), S(p)>>, weight |-> W]
  BY Zenon DEF Term
<1>6. p \in Nat
  BY WeightsAreLaid
<1> HIDE DEF raw, M, S, W
<1>7. CASE p >= Continuous
  <2>1. TermOf(s, row, t, raw) = [row |-> row, raw |-> raw, encoding |-> << >>, weight |-> Coefficient("weight", FitOf(s), t, raw)]
    BY <1>4, <1>7, Zenon DEF TermOf
  <2>2. Term(row, s, t, p) = [row |-> row, raw |-> raw, encoding |-> << >>, weight |-> W]
    BY <1>5, <1>7, Zenon
  <2> QED
    BY <1>1, <2>1, <2>2 DEF raw
<1>8. CASE ~(p >= Continuous)
  <2>1. p \in 0 .. 2 /\ p < Continuous
    BY <1>2, <1>6, <1>8
  <2>2. raw = p
    BY <1>4, <2>1
  <2>3. M(p) = Coefficient("mean", FitOf(s), 0, raw) /\ S(p) = Coefficient("scale", FitOf(s), 0, raw)
    BY <1>3, <2>1, <2>2
  <2>4. TermOf(s, row, t, raw) = [row |-> row, raw |-> raw, 
            encoding |-> <<Coefficient("mean", FitOf(s), 0, raw), Coefficient("scale", FitOf(s), 0, raw)>>,
            weight |-> Coefficient("weight", FitOf(s), t, raw)]
    BY <1>4, <1>8, Zenon DEF TermOf
  <2>5. Term(row, s, t, p) = [row |-> row, raw |-> raw, encoding |-> <<M(p), S(p)>>, weight |-> W]
    BY <1>5, <1>8, Zenon
  <2>6. Term(row, s, t, p) = TermOf(s, row, t, raw)
    BY <1>1, <2>3, <2>4, <2>5, Zenon
  <2> QED
    BY <2>6 DEF raw
<1> QED
  BY <1>7, <1>8

LEMMA ScoreIsMeant ==
    ASSUME Laid(carried.shape), TagsAgree(carried), NEW s \in 1 .. Len(Omitted(carried.shape)), SubsetRight(s),
           NEW t \in Targets, NEW row
    PROVE  ScoreOf(row, s, t) = ScoreMeant(s, row, t)
<1> DEFINE P == 0 .. (plan.subsets[s].width - 1)
           raw(p) == ActiveRaw(plan.subsets[s].tags, p)
           C == Column(carried, plan.subsets[s].domains)
<1>1. \A p \in P : Term(row, s, t, p) = TermOf(s, row, t, raw(p))
  BY TermIsMeant
<1>2. C = {raw(p) : p \in P}
  BY ColumnIsActive
<1>3. {Term(row, s, t, p) : p \in P} = {TermOf(s, row, t, c) : c \in C}
  <2> HIDE DEF P, raw, C
  <2> QED
    BY <1>1, <1>2
<1>4. side.intercepts[(s - 1) * carried.shape.targets + t] = Coefficient("intercept", FitOf(s), t, 0)
  BY DEF SubsetRight, InterceptsRight
<1> QED
  BY <1>3, <1>4, Zenon DEF ScoreOf, ScoreMeant

\* The cells of a row's scores: each in the stretch of its block, at the row's place in its domain.
Meets(b, row) == b \in DOMAIN plan.blocks /\ row \in DOMAIN carried.rows
                   /\ carried.rows[row].domain = plan.blocks[b].domain

PlaceIn(b, row) == RowsBefore(row, plan.blocks[b].domain)

LEMMA RowPlaces ==
    ASSUME Laid(carried.shape), IsFile(carried), DomainsAgree(carried), NEW b, NEW row, Meets(b, row)
    PROVE  /\ PlaceIn(b, row) \in Nat /\ PlaceIn(b, row) < plan.blocks[b].rows
           /\ RowsOf(carried.rows, plan.blocks[b].domain)[PlaceIn(b, row) + 1] = row
<1> DEFINE d == plan.blocks[b].domain
           rows == carried.rows
           before == PlaceIn(b, row)
<1>1. b \in DOMAIN plan.blocks /\ row \in DOMAIN rows /\ rows[row].domain = d
  BY DEF Meets
<1>2. d \in Domains(carried.shape) /\ plan.blocks[b].rows = carried.shape.counts[d + 1]
  BY <1>1, ScoresAreLaid
<1>3. Len(RowsOf(rows, d)) = plan.blocks[b].rows
  BY <1>2 DEF DomainsAgree
<1>4. DOMAIN rows = 1 .. Len(rows) /\ Len(rows) \in Nat
  BY DEF IsFile
<1>5. before = Cardinality({r \in 1 .. (row - 1) : rows[r].domain = d})
  BY DEF PlaceIn, RowsBefore
<1> DEFINE n == Len(rows)
<1> HIDE DEF d, before, rows, n
<1>6. row \in 1 .. n /\ n \in Nat /\ DOMAIN rows = 1 .. n
  BY <1>1, <1>4 DEF n
<1>7. before \in Nat /\ before < Len(RowsOf(rows, d)) /\ RowsOf(rows, d)[before + 1] = row
  BY <1>1, <1>5, <1>6, PlaceOfRow
<1> QED
  BY <1>3, <1>7 DEF d, before, rows

LEMMA ScorePlaces ==
    ASSUME Laid(carried.shape), IsFile(carried), DomainsAgree(carried), NEW b, NEW row, Meets(b, row),
           NEW t \in Targets, NEW c, c = ScoreAt(b, row, t)
    PROVE  /\ plan.scoreOffset[b] \in Nat
           /\ c \in plan.scoreOffset[b] .. (plan.scoreOffset[b] + BlockCells(carried.shape)[b] - 1)
           /\ c \in 0 .. (Buffers(carried.shape, plan.subsets, plan.blocks).scores - 1)
           /\ (c - plan.scoreOffset[b]) \div carried.shape.targets = PlaceIn(b, row)
           /\ (c - plan.scoreOffset[b]) % carried.shape.targets = t
           /\ c - plan.scoreOffset[b] = PlaceIn(b, row) * carried.shape.targets + t
<1> DEFINE shape == carried.shape
           N == Len(Blocks(Subsets(shape), shape))
           M == shape.targets
           o == plan.scoreOffset[b]
           z == BlockCells(shape)[b]
           n == Buffers(shape, plan.subsets, plan.blocks).scores
           k == PlaceIn(b, row)
           B == plan.blocks[b].rows
<1>1. /\ N \in Nat /\ b \in 1 .. N /\ B \in Nat /\ z = M * B
      /\ Starts(plan.scoreOffset, BlockCells(shape), N) /\ n = Total(BlockCells(shape))
  BY ScoresAreLaid DEF Meets
<1>2. o \in Nat /\ o + z <= n
  BY <1>1, StretchesFollow
<1>3. k \in Nat /\ k < B
  BY RowPlaces
<1>4. M \in Nat /\ t \in Nat /\ t < M /\ M > 0
  BY WeightsAreLaid DEF Targets
<1>5. n \in Nat
  <2>1. BlockCells(shape) \in [1 .. N -> Nat]
    BY <1>1 DEF Starts
  <2>2. BlockCells(shape) \in Seq(Nat)
    BY <1>1, <2>1
  <2> QED
    BY <1>1, <2>2, TotalIsNat
<1>6. c = o + k * M + t
  BY DEF ScoreAt, PlaceIn, Meets
<1> HIDE DEF M, o, z, n, k, B
<1> DEFINE i == k * M + t
<1>7. i \in Nat /\ i < B * M
  BY <1>1, <1>3, <1>4, FlatIndexFits
<1>8. i \div M = k /\ i % M = t
  <2>1. M \in Nat \ {0} /\ t \in 0 .. (M - 1)
    BY <1>4
  <2> QED
    BY <1>3, <2>1, FlatIndex
<1>9. c = o + i /\ i < z /\ z \in Nat
  <2> DEFINE a == k * M
             e == B * M
  <2>1. a \in Nat /\ e = z /\ e \in Nat
    BY <1>1, <1>3, <1>4
  <2>2. i = a + t /\ c = o + a + t /\ i < e
    BY <1>6, <1>7
  <2> HIDE DEF a, e, i
  <2> QED
    BY <1>2, <1>4, <2>1, <2>2
<1>10. i = k * M + t
  OBVIOUS
<1> HIDE DEF i
<1>11. c - o = i /\ c \in o .. (o + z - 1) /\ c \in 0 .. (n - 1)
  BY <1>2, <1>5, <1>7, <1>9
<1> QED
  BY <1>2, <1>8, <1>10, <1>11 DEF M, o, z, n, k

LEMMA ScoresApart ==
    ASSUME Laid(carried.shape), IsFile(carried), DomainsAgree(carried),
           NEW b, NEW row, Meets(b, row), NEW t \in Targets,
           NEW b2, NEW row2, Meets(b2, row2), NEW t2 \in Targets,
           ScoreAt(b, row, t) = ScoreAt(b2, row2, t2)
    PROVE  b = b2 /\ row = row2 /\ t = t2
<1> DEFINE o == plan.scoreOffset
           w == BlockCells(carried.shape)
           c == ScoreAt(b, row, t)
           N == Len(Blocks(Subsets(carried.shape), carried.shape))
<1>1. /\ c \in o[b] .. (o[b] + w[b] - 1) /\ (c - o[b]) \div carried.shape.targets = PlaceIn(b, row)
      /\ (c - o[b]) % carried.shape.targets = t
  BY ScorePlaces
<1>2. /\ c \in o[b2] .. (o[b2] + w[b2] - 1) /\ (c - o[b2]) \div carried.shape.targets = PlaceIn(b2, row2)
      /\ (c - o[b2]) % carried.shape.targets = t2
  BY ScorePlaces
<1>3. N \in Nat /\ b \in 1 .. N /\ b2 \in 1 .. N /\ Starts(o, w, N)
  BY ScoresAreLaid DEF Meets
<1>4. /\ \A k \in 1 .. N : o[k] \in Nat /\ w[k] \in Nat
      /\ \A j, k \in 1 .. N : j < k => o[j] + w[j] <= o[k]
  BY <1>3, StretchesFollow DEF Starts
<1>5. b = b2
  <2> HIDE DEF o, w, c, N
  <2>1. CASE b < b2
    BY <1>1, <1>2, <1>3, <1>4, <2>1
  <2>2. CASE b2 < b
    BY <1>1, <1>2, <1>3, <1>4, <2>2
  <2> QED
    BY <1>3, <2>1, <2>2
<1>6. t = t2 /\ PlaceIn(b, row) = PlaceIn(b, row2)
  BY <1>1, <1>2, <1>5
<1>7. row = row2
  BY <1>5, <1>6, RowPlaces
<1> QED
  BY <1>5, <1>6, <1>7

RowScored(row, cells) ==
    \A b : Meets(b, row) =>
        \A t \in Targets : cells[ScoreAt(b, row, t)] = ScoreMeant(plan.blocks[b].subset, row, t)

LEMMA ScoredIs ==
    ASSUME Laid(carried.shape), IsFile(carried), DomainsAgree(carried), NEW now \in DOMAIN carried.rows
    PROVE  /\ \A b : Meets(b, now) => \A t \in Targets :
                /\ ScoreAt(b, now, t) \in DOMAIN Scored(now)
                /\ Scored(now)[ScoreAt(b, now, t)] = ScoreOf(now, plan.blocks[b].subset, t)
           /\ \A c \in DOMAIN Scored(now) : \E b : Meets(b, now) /\ \E t \in Targets : c = ScoreAt(b, now, t)
<1> DEFINE d == carried.rows[now].domain
           reached == {b \in DOMAIN plan.blocks : plan.blocks[b].domain = d}
           writes == {<<b, t>> : b \in reached, t \in Targets}
           Spots == {ScoreAt(w[1], now, w[2]) : w \in writes}
           At(c) == CHOOSE x \in writes : ScoreAt(x[1], now, x[2]) = c
<1>1. Scored(now) = [c \in Spots |-> ScoreOf(now, plan.blocks[At(c)[1]].subset, At(c)[2])]
  BY DEF Scored
<1>2. \A w \in writes : Meets(w[1], now) /\ w[2] \in Targets /\ w = <<w[1], w[2]>>
  BY DEF Meets
<1>3. \A b : Meets(b, now) => \A t \in Targets : <<b, t>> \in writes
  BY DEF Meets
<1> HIDE DEF writes
<1>4. ASSUME NEW b, Meets(b, now), NEW t \in Targets
      PROVE  /\ ScoreAt(b, now, t) \in DOMAIN Scored(now)
             /\ Scored(now)[ScoreAt(b, now, t)] = ScoreOf(now, plan.blocks[b].subset, t)
  <2> DEFINE c == ScoreAt(b, now, t)
             w == <<b, t>>
  <2>1. w \in writes /\ ScoreAt(w[1], now, w[2]) = c
    BY <1>3, <1>4
  <2> DEFINE x == At(c)
  <2>2. x \in writes /\ ScoreAt(x[1], now, x[2]) = c
    BY <2>1
  <2>3. Meets(x[1], now) /\ x[2] \in Targets
    BY <1>2, <2>2
  <2> HIDE DEF x
  <2>4. x[1] = b /\ x[2] = t
    BY <1>4, <2>2, <2>3, ScoresApart
  <2>5. c \in Spots
    BY <2>1
  <2>6. Scored(now)[c] = ScoreOf(now, plan.blocks[x[1]].subset, x[2])
    <3> HIDE DEF c, w, Spots
    <3> QED
      BY <1>1, <2>5, Zenon DEF x
  <2> QED
    BY <1>1, <2>4, <2>5, <2>6
<1>5. ASSUME NEW c \in DOMAIN Scored(now)
      PROVE  \E b : Meets(b, now) /\ \E t \in Targets : c = ScoreAt(b, now, t)
  <2>1. c \in Spots
    BY <1>1
  <2>2. PICK w \in writes : c = ScoreAt(w[1], now, w[2])
    BY <2>1
  <2> QED
    BY <1>2, <2>2
<1> QED
  BY <1>4, <1>5

LEMMA ScoreScores ==
    ASSUME Laid(carried.shape), IsFile(carried), DomainsAgree(carried), TagsAgree(carried), SizesHold,
           \A s \in 1 .. Len(Omitted(carried.shape)) : SubsetRight(s),
           Score, stage' # "write", NEW now \in Nat \ {0}, turn = now
    PROVE  /\ now \in DOMAIN carried.rows
           /\ stage' = IF now = Len(carried.rows) THEN "validate" ELSE "score"
           /\ turn' = IF now = Len(carried.rows) THEN 1 ELSE now + 1
           /\ RowScored(now, scores')
           /\ \A r \in DOMAIN carried.rows : r # now /\ RowScored(r, scores) => RowScored(r, scores')
           /\ SizesHold' /\ UNCHANGED <<carried, plan, moments, weights, side>>
<1> DEFINE made == Scored(now)
           after == Written(scores, made)
<1>1. /\ now <= Len(carried.rows) /\ scores' = after
      /\ IF now = Len(carried.rows) THEN Goto("validate") ELSE Repeat
      /\ UNCHANGED <<plan, moments, weights, side>> /\ carried' = carried /\ stage = "score"
  BY DEF Score, Fail, MayFail, Alone
<1>2. now \in DOMAIN carried.rows
  BY <1>1 DEF IsFile
<1>3. DOMAIN scores = 0 .. (Buffers(carried.shape, plan.subsets, plan.blocks).scores - 1)
  BY DEF SizesHold
<1>4. ASSUME NEW b, Meets(b, now), NEW t \in Targets
      PROVE  after[ScoreAt(b, now, t)] = ScoreMeant(plan.blocks[b].subset, now, t)
  <2> DEFINE c == ScoreAt(b, now, t)
             s == plan.blocks[b].subset
  <2>1. c \in DOMAIN scores
    BY <1>3, <1>4, ScorePlaces
  <2>2. c \in DOMAIN made /\ made[c] = ScoreOf(now, s, t)
    BY <1>2, <1>4, ScoredIs
  <2>3. s \in 1 .. Len(Omitted(carried.shape))
    BY <1>4, ScoresAreLaid DEF Meets
  <2> HIDE DEF c, s, made
  <2>4. after[c] = made[c]
    BY ONLY <2>1, <2>2, WrittenIs
  <2>5. ScoreOf(now, s, t) = ScoreMeant(s, now, t)
    BY <2>3, ScoreIsMeant
  <2> QED
    BY <2>2, <2>4, <2>5 DEF c, s
<1>5. ASSUME NEW r \in DOMAIN carried.rows, r # now, NEW b, Meets(b, r), NEW t \in Targets
      PROVE  after[ScoreAt(b, r, t)] = scores[ScoreAt(b, r, t)]
  <2> DEFINE c == ScoreAt(b, r, t)
  <2>1. c \in DOMAIN scores
    BY <1>3, <1>5, ScorePlaces
  <2>2. c \notin DOMAIN made
    <3> SUFFICES ASSUME c \in DOMAIN made PROVE FALSE
      OBVIOUS
    <3>1. PICK b2 : Meets(b2, now) /\ \E u \in Targets : c = ScoreAt(b2, now, u)
      BY <1>2, ScoredIs
    <3>2. PICK u \in Targets : c = ScoreAt(b2, now, u)
      BY <3>1
    <3>3. r = now
      BY <1>5, <3>1, <3>2, ScoresApart
    <3> QED
      BY <1>5, <3>3
  <2> HIDE DEF c, made
  <2>3. after[c] = scores[c]
    BY ONLY <2>1, <2>2, WrittenIs
  <2> QED
    BY <2>3 DEF c
<1>6. DOMAIN after = DOMAIN scores
  BY WrittenKeepsSize
<1> HIDE DEF after, made
<1>7. RowScored(now, scores')
  BY <1>1, <1>4 DEF RowScored
<1>8. \A r \in DOMAIN carried.rows : r # now /\ RowScored(r, scores) => RowScored(r, scores')
  BY <1>1, <1>5 DEF RowScored
<1>9. SizesHold'
  BY <1>1, <1>6, SizesStay
<1>10. /\ stage' = IF now = Len(carried.rows) THEN "validate" ELSE "score"
       /\ turn' = IF now = Len(carried.rows) THEN 1 ELSE now + 1
  BY <1>1 DEF Goto, Repeat
<1> QED
  BY <1>1, <1>2, <1>7, <1>8, <1>9, <1>10

-----------------------------------------------------------------------------
(* The program: what stands in the buffers at each stage.                   *)

Prepared == {"load", "moments", "solve", "score", "validate"}

\* What stands in the buffers at each stage.
Filled ==
    /\ stage \in Prepared => SizesHold
    /\ stage = "load" => MomentsRight(0)
    /\ stage = "moments" => turn - 1 <= Len(carried.rows) /\ MomentsRight(turn - 1)
    /\ stage = "solve" => /\ MomentsRight(Len(carried.rows))
                          /\ \A s \in 1 .. Len(Omitted(carried.shape)) : s < turn => SubsetRight(s)
    /\ stage = "score" => /\ \A s \in 1 .. Len(Omitted(carried.shape)) : SubsetRight(s)
                          /\ \A r \in DOMAIN carried.rows : r < turn => RowScored(r, scores)
    /\ stage = "validate" \/ (stage \notin Running /\ status = Success) =>
          \A r \in DOMAIN carried.rows : RowScored(r, scores)

LEMMA RowScoredStays ==
    ASSUME carried' = carried, plan' = plan, NEW row, RowScored(row, scores')
    PROVE  RowScored(row, scores)'
<1>1. \A b : Meets(b, row)' <=> Meets(b, row)
  BY DEF Meets
<1>2. Targets' = Targets /\ \A b, t : ScoreAt(b, row, t)' = ScoreAt(b, row, t)
  BY DEF Targets, ScoreAt, RowsBefore
<1>3. \A s, t : ScoreMeant(s, row, t)' = ScoreMeant(s, row, t)
  BY DEF ScoreMeant, FitOf, TermOf
<1>4. \A b : plan'.blocks[b] = plan.blocks[b]
  OBVIOUS
<1> QED
  BY <1>1, <1>2, <1>3, <1>4 DEF RowScored

LEMMA MomentsStay ==
    ASSUME carried' = carried, moments' = moments, NEW n, MomentsRight(n)
    PROVE  MomentsRight(n)'
BY DEF MomentsRight

LEMMA NothingToFill ==
    ASSUME stage' \notin Prepared, stage' \in Running \/ status' # Success
    PROVE  Filled'
BY DEF Filled, Prepared

LEMMA EarlierFills ==
    ASSUME StageInv, ReadSession \/ ReadStore \/ Preflight \/ Authenticate \/ RowKeys
    PROVE  Filled'
<1> USE DEF Goto, Fail, MayFail
<1>1. ASSUME ReadSession \/ ReadStore \/ Preflight
      PROVE  stage' \in {"store", "preflight", "authenticate"} \/ (stage' = "write" /\ status' # Success)
  BY <1>1 DEF ReadSession, ReadStore, Preflight, Protocol, Internal, Success
<1>2. ASSUME Authenticate \/ RowKeys
      PROVE  stage' \in {"rowKeys", "allocate"} \/ (stage' = "write" /\ status' # Success)
  BY <1>2 DEF Authenticate, RowKeys, Stage, Protocol, Internal, Success
<1>3. \/ stage' \in {"store", "preflight", "authenticate", "rowKeys", "allocate"}
      \/ stage' = "write" /\ status' # Success
  BY <1>1, <1>2
<1> QED
  BY <1>3, NothingToFill DEF Prepared, Running

LEMMA AllocateFills == ASSUME StageInv, Allocate PROVE Filled'
<1>1. CASE stage' = "write"
  <2>1. status' = Allocation
    BY <1>1 DEF Allocate, Goto, Fail
  <2> QED
    BY <1>1, <2>1, NothingToFill DEF Prepared, Allocation, Success
<1>2. CASE stage' # "write"
  <2>1. stage = "allocate" /\ stage' = "load"
    BY <1>2 DEF Allocate, Goto, Fail
  <2>2. Laid(carried.shape)
    BY <2>1, PlannedIsLaid DEF PastPlan, PastMagic, Running
  <2>3. SizesHold' /\ MomentsRight(0)'
    BY <1>2, <2>2, AllocatedSizes
  <2> QED
    BY <2>1, <2>3 DEF Filled, Running
<1> QED
  BY <1>1, <1>2

LEMMA LoadFills == ASSUME StageInv, Filled, Load PROVE Filled'
<1>1. /\ stage = "load" /\ carried' = carried
      /\ \/ stage' = "moments" /\ turn' = 1 /\ UNCHANGED work
         \/ stage' = "write" /\ status' # Success
  BY DEF Load, Stage, Goto, Fail, MayFail, Alone, Protocol, Numeric, Internal, Success
<1>2. CASE stage' = "write" /\ status' # Success
  BY <1>2, NothingToFill DEF Prepared
<1>3. CASE stage' = "moments" /\ turn' = 1 /\ UNCHANGED work
  <2>1. SizesHold /\ MomentsRight(0)
    BY <1>1 DEF Filled, Prepared
  <2>2. plan' = plan /\ moments' = moments /\ weights' = weights /\ scores' = scores /\ side' = side
    BY <1>3 DEF work
  <2>3. SizesHold'
    BY <1>1, <2>1, <2>2, SizesStay
  <2>4. MomentsRight(0)'
    BY <1>1, <2>1, <2>2, MomentsStay
  <2>5. turn' - 1 = 0 /\ 0 <= Len(carried'.rows)
    BY <1>1, <1>3 DEF StageInv, FilesAre, IsFile
  <2>6. MomentsRight(turn - 1)'
    BY <2>4, <2>5
  <2> QED
    BY <1>3, <2>3, <2>5, <2>6 DEF Filled, Running
<1> QED
  BY <1>1, <1>2, <1>3

LEMMA MomentsFills == ASSUME StageInv, Filled, Moments PROVE Filled'
<1>1. CASE stage' = "write"
  <2>1. status' # Success
    BY <1>1 DEF Moments, Repeat, MayFail, Fail, Numeric, Internal, Success
  <2> QED
    BY <1>1, <2>1, NothingToFill DEF Prepared
<1>2. CASE stage' # "write"
  <2>1. /\ stage = "moments" /\ stage' = "moments" /\ turn <= Len(carried.rows) /\ turn' = turn + 1
        /\ moments' = [moments EXCEPT ![carried.rows[turn].domain] = Append(@, turn)]
        /\ UNCHANGED <<carried, plan, weights, scores, side>>
    BY <1>2 DEF Moments, Repeat, MayFail, Fail, Alone
  <2>2. IsFile(carried) /\ turn \in Nat \ {0}
    BY <2>1 DEF StageInv, StageFollows, FilesAre
  <2> DEFINE n == turn - 1
  <2>3. n \in Nat /\ n + 1 = turn /\ n + 1 <= Len(carried.rows) /\ MomentsRight(n) /\ SizesHold
    BY <2>1, <2>2 DEF Filled, Prepared
  <2>4. MomentsRight(n)  /\ moments' = [moments EXCEPT ![carried.rows[n + 1].domain] = Append(@, n + 1)]
    BY <2>1, <2>3
  <2> HIDE DEF n
  <2>5. PICK m \in Nat : m = n
    BY <2>3
  <2>6. MomentsRight(m + 1)' /\ DOMAIN moments' = DOMAIN moments
    BY <2>1, <2>2, <2>3, <2>4, <2>5, MomentsGrow
  <2>7. turn' - 1 = m + 1 /\ turn' - 1 <= Len(carried'.rows)
    BY <2>1, <2>2, <2>3, <2>5
  <2>8. MomentsRight(turn - 1)'
    BY <2>6, <2>7
  <2>9. SizesHold'
    BY <2>1, <2>3, <2>6, SizesStay
  <2> QED
    BY <2>1, <2>7, <2>8, <2>9 DEF Filled, Running
<1> QED
  BY <1>1, <1>2

LEMMA CheckMomentsFills == ASSUME StageInv, Filled, CheckMoments PROVE Filled'
<1>1. CASE stage' = "write"
  <2>1. status' # Success
    BY <1>1 DEF CheckMoments, Goto, Fail, Numeric, Protocol, Success
  <2> QED
    BY <1>1, <2>1, NothingToFill DEF Prepared
<1>2. CASE stage' # "write"
  <2>1. /\ stage = "moments" /\ stage' = "solve" /\ turn > Len(carried.rows) /\ turn' = 1
        /\ carried' = carried /\ UNCHANGED work
    BY <1>2 DEF CheckMoments, Goto, Fail, Alone
  <2>2. plan' = plan /\ moments' = moments /\ weights' = weights /\ scores' = scores /\ side' = side
    BY <2>1 DEF work
  <2>3. IsFile(carried) /\ turn \in Nat \ {0}
    BY <2>1 DEF StageInv, StageFollows, FilesAre
  <2>4. turn - 1 <= Len(carried.rows) /\ MomentsRight(turn - 1) /\ SizesHold
    BY <2>1 DEF Filled, Prepared
  <2>5. turn - 1 = Len(carried.rows)
    BY <2>1, <2>3, <2>4 DEF IsFile
  <2>6. MomentsRight(Len(carried.rows))
    BY <2>4, <2>5
  <2>7. MomentsRight(Len(carried.rows))'
    BY <2>1, <2>2, <2>6 DEF MomentsRight
  <2>8. SizesHold'
    BY <2>1, <2>2, <2>4, SizesStay
  <2>9. \A s \in 1 .. Len(Omitted(carried.shape)) : s < 1 => FALSE
    OBVIOUS
  <2> QED
    BY <2>1, <2>7, <2>8, <2>9 DEF Filled, Running
<1> QED
  BY <1>1, <1>2

LEMMA SolveFills == ASSUME StageInv, Filled, Solve PROVE Filled'
<1>1. CASE stage' = "write"
  <2>1. status' # Success
    BY <1>1 DEF Solve, Goto, Repeat, Fail, MayFail, Numeric, Solving, Internal, Success
  <2> QED
    BY <1>1, <2>1, NothingToFill DEF Prepared
<1>2. CASE stage' # "write"
  <2>0. stage = "solve" /\ carried' = carried
    BY DEF Solve, Alone
  <2>1. Laid(carried.shape) /\ IsFile(carried) /\ turn \in Nat \ {0}
    BY <2>0, PlannedIsLaid DEF StageInv, StageFollows, FilesAre, PastPlan, PastMagic, Running
  <2>2. /\ SizesHold /\ MomentsRight(Len(carried.rows))
        /\ \A s \in 1 .. Len(Omitted(carried.shape)) : s < turn => SubsetRight(s)
    BY <2>0 DEF Filled, Prepared
  <2> DEFINE K == Len(Omitted(carried.shape))
  <2>3. PICK now \in Nat \ {0} : now = turn
    BY <2>1
  <2>4. /\ now \in 1 .. K
        /\ stage' = IF now = K THEN "score" ELSE "solve"
        /\ turn' = IF now = K THEN 1 ELSE now + 1
        /\ SubsetRight(now)'
        /\ \A r \in 1 .. K : SubsetRight(r) /\ r # now => SubsetRight(r)'
        /\ SizesHold' /\ moments' = moments /\ scores' = scores /\ plan' = plan
    BY <1>2, <2>1, <2>2, <2>3, SolveSolves
  <2>5. MomentsRight(Len(carried.rows))'
    BY <2>0, <2>2, <2>4 DEF MomentsRight
  <2>6. \A r \in 1 .. K : r <= now => SubsetRight(r)'
    BY <2>2, <2>3, <2>4
  <2>7. K' = K /\ K \in Nat
    BY <2>0, <2>1, WeightsAreLaid
  <2> HIDE DEF K
  <2>8. CASE now = K
    <3>1. stage' = "score" /\ turn' = 1
      BY <2>4, <2>8
    <3>2. \A r \in 1 .. K : SubsetRight(r)'
      BY <2>6, <2>7, <2>8
    <3>3. \A r \in DOMAIN carried'.rows : r < 1 => FALSE
      BY <2>0, <2>1 DEF IsFile
    <3> QED
      BY <2>4, <2>7, <3>1, <3>2, <3>3 DEF Filled, Running, K
  <2>9. CASE now # K
    <3>1. stage' = "solve" /\ turn' = now + 1
      BY <2>4, <2>9
    <3>2. \A r \in 1 .. K : r < now + 1 => SubsetRight(r)'
      BY <2>3, <2>6, <2>7
    <3> QED
      BY <2>4, <2>5, <2>7, <3>1, <3>2 DEF Filled, Running, K
  <2> QED
    BY <2>8, <2>9
<1> QED
  BY <1>1, <1>2

LEMMA ScoreFills == ASSUME StageInv, Filled, Score PROVE Filled'
<1>1. CASE stage' = "write"
  <2>1. status' # Success
    BY <1>1 DEF Score, Goto, Repeat, Fail, MayFail, Numeric, Internal, Success
  <2> QED
    BY <1>1, <2>1, NothingToFill DEF Prepared
<1>2. CASE stage' # "write"
  <2>0. stage = "score"
    BY DEF Score
  <2>1. /\ Laid(carried.shape) /\ IsFile(carried) /\ turn \in Nat \ {0}
        /\ DomainsAgree(carried) /\ TagsAgree(carried)
    <3>1. Known("score")
      BY <2>0 DEF StageInv, StageFollows, Running
    <3> QED
      BY <2>0, <3>1, PlannedIsLaid DEF StageInv, StageFollows, FilesAre, Known, PastLoad, PastMoments, PastKeys, PastDigest,
         PastPlan, PastMagic, Running
  <2>2. /\ SizesHold
        /\ \A s \in 1 .. Len(Omitted(carried.shape)) : SubsetRight(s)
        /\ \A r \in DOMAIN carried.rows : r < turn => RowScored(r, scores)
    BY <2>0 DEF Filled, Prepared
  <2> DEFINE n == Len(carried.rows)
  <2>3. PICK now \in Nat \ {0} : now = turn
    BY <2>1
  <2>4. /\ now \in DOMAIN carried.rows
        /\ stage' = IF now = n THEN "validate" ELSE "score"
        /\ turn' = IF now = n THEN 1 ELSE now + 1
        /\ RowScored(now, scores')
        /\ \A r \in DOMAIN carried.rows : r # now /\ RowScored(r, scores) => RowScored(r, scores')
        /\ SizesHold' /\ UNCHANGED <<carried, plan, moments, weights, side>>
    BY <1>2, <2>1, <2>2, <2>3, ScoreScores
  <2>5. DOMAIN carried.rows = 1 .. n /\ n \in Nat /\ carried' = carried /\ n' = n
    BY <2>1, <2>4 DEF IsFile
  <2>6. \A r \in 1 .. n : r <= now => RowScored(r, scores')
    BY <2>2, <2>3, <2>4, <2>5
  <2>7. \A r \in 1 .. n : r <= now => RowScored(r, scores)'
    BY <2>4, <2>6, RowScoredStays
  <2>8. \A s : SubsetRight(s) => SubsetRight(s)'
    BY <2>4, RightStays
  <2>9. DOMAIN carried'.rows = 1 .. n
    BY <2>5
  <2> HIDE DEF n
  <2>10. CASE now = n
    <3>1. stage' = "validate"
      BY <2>4, <2>10
    <3>2. \A r \in DOMAIN carried'.rows : RowScored(r, scores)'
      BY <2>5, <2>7, <2>9, <2>10
    <3> QED
      BY <2>4, <3>1, <3>2 DEF Filled
  <2>11. CASE now # n
    <3>1. stage' = "score" /\ turn' = now + 1
      BY <2>4, <2>11
    <3>2. \A r \in DOMAIN carried'.rows : r < now + 1 => RowScored(r, scores)'
      BY <2>3, <2>5, <2>7, <2>9
    <3>3. \A s \in 1 .. Len(Omitted(carried'.shape)) : SubsetRight(s)'
      BY <2>2, <2>5, <2>8
    <3> QED
      BY <2>4, <3>1, <3>2, <3>3 DEF Filled, Running
  <2> QED
    BY <2>10, <2>11
<1> QED
  BY <1>1, <1>2

LEMMA ValidateFills == ASSUME StageInv, Filled, Validate PROVE Filled'
<1>1. /\ stage = "validate" /\ carried' = carried /\ stage' = "write"
      /\ status' # Success \/ UNCHANGED work
  BY DEF Validate, Stage, Goto, Fail, MayFail, Alone
<1>2. CASE status' # Success
  BY <1>1, <1>2, NothingToFill DEF Prepared
<1>3. CASE UNCHANGED work
  <2>1. plan' = plan /\ scores' = scores
    BY <1>3 DEF work
  <2>2. \A r \in DOMAIN carried.rows : RowScored(r, scores)
    BY <1>1 DEF Filled
  <2>3. \A r \in DOMAIN carried'.rows : RowScored(r, scores)'
    BY <1>1, <2>1, <2>2, RowScoredStays
  <2> QED
    BY <1>1, <2>3 DEF Filled, Prepared
<1> QED
  BY <1>1, <1>2, <1>3

LEMMA AfterwardsFills ==
    ASSUME Filled, stage \notin Running, stage' \notin Running,
           carried' = carried, status' = status, UNCHANGED work
    PROVE  Filled'
<1>1. plan' = plan /\ scores' = scores
  BY DEF work
<1>2. stage' \notin Prepared \cup {"solve", "load", "moments", "score", "validate"}
  BY DEF Prepared, Running
<1>3. ASSUME status' = Success PROVE \A r \in DOMAIN carried'.rows : RowScored(r, scores)'
  <2>1. \A r \in DOMAIN carried.rows : RowScored(r, scores)
    BY <1>3 DEF Filled
  <2>2. \A r \in DOMAIN carried.rows : RowScored(r, scores')
    BY <1>1, <2>1
  <2> QED
    BY <1>1, <2>2, RowScoredStays
<1> QED
  BY <1>2, <1>3 DEF Filled

LEMMA StutterFills == ASSUME Filled, UNCHANGED sidecar PROVE Filled'
<1>1. /\ stage' = stage /\ status' = status /\ turn' = turn /\ carried' = carried
      /\ plan' = plan /\ moments' = moments /\ weights' = weights /\ scores' = scores /\ side' = side
  BY DEF sidecar, program
<1>2. SizesHold => SizesHold'
  BY <1>1, SizesStay
<1>3. ASSUME NEW n, MomentsRight(n) PROVE MomentsRight(n)'
  BY <1>1, <1>3, MomentsStay
<1>4. \A s : SubsetRight(s) => SubsetRight(s)'
  BY <1>1, RightStays
<1>5. ASSUME NEW r, RowScored(r, scores) PROVE RowScored(r, scores)'
  BY <1>1, <1>5, RowScoredStays
<1>6. MomentsRight(0) => MomentsRight(0)'
  BY <1>3
<1>7. MomentsRight(turn - 1) => MomentsRight(turn - 1)'
  <2> DEFINE n == turn - 1
  <2>1. PICK m : m = n
    OBVIOUS
  <2>2. MomentsRight(m) => MomentsRight(m)'
    BY <1>3
  <2> QED
    BY <1>1, <2>1, <2>2
<1>8. MomentsRight(Len(carried.rows)) => MomentsRight(Len(carried.rows))'
  <2>1. PICK m : m = Len(carried.rows)
    OBVIOUS
  <2>2. MomentsRight(m) => MomentsRight(m)'
    BY <1>3
  <2> QED
    BY <1>1, <2>1, <2>2
<1> QED
  BY <1>1, <1>2, <1>4, <1>5, <1>6, <1>7, <1>8 DEF Filled

LEMMA FilledStep == ASSUME StageInv, Filled, [SidecarNext]_sidecar PROVE Filled'
<1>1. ASSUME Write \/ LoadResult \/ Tamper \/ VerifyIntegrity PROVE Filled'
  <2>1. stage \notin Running /\ stage' \notin Running /\ carried' = carried /\ status' = status /\ UNCHANGED work
    BY <1>1 DEF Write, LoadResult, Tamper, VerifyIntegrity, Running
  <2> QED
    BY <2>1, AfterwardsFills
<1>2. ASSUME Settled PROVE Filled'
  BY <1>2, StutterFills DEF Settled
<1> QED
  BY <1>1, <1>2, StutterFills, EarlierFills, AllocateFills, LoadFills, MomentsFills, CheckMomentsFills,
     SolveFills, ScoreFills, ValidateFills DEF SidecarNext

LEMMA FilledInit == SidecarInit => Filled
  BY DEF SidecarInit, Filled, Prepared, Running

-----------------------------------------------------------------------------
(* What the caller holds, and why it is what the store determines.          *)

\* What the caller may build on: the answer, as it was sent, under the views of its records.
Complete == carried = sealed /\ status = Success /\ out = Answer

Sealing == \E vs : views = [of |-> vs, sha |-> Digest(out)]

Viewed ==
    /\ [r \in DOMAIN views.of |-> views.of[r].prefix] = RecordPrefixes(sealed.shape)
    /\ \A r \in DOMAIN views.of : views.of[r].at = r

Faithful == Complete /\ mapped = out /\ Viewed

HeldInv ==
    /\ verdict.kind = "accepted" => stage \in {"loaded", "tampered"} /\ Complete /\ Sealing
    /\ Believed => Faithful

LEMMA NothingHeld ==
    ASSUME verdict'.kind \notin {"accepted", "verified"}
    PROVE  HeldInv'
BY DEF HeldInv, Believed

LEMMA AcceptedIs ==
    ASSUME LoadVerdict.kind = "accepted"
    PROVE  exit = "success" /\ ParseRecords(Tail(out), sealed.shape)
<1> DEFINE expected == Estimate(sealed.shape)
           crash == IF exit = "failure" THEN "execution" ELSE "protocol"
           astray == \/ Bytes(out) > expected.resultBytes
                     \/ out[1].store # Digest(sealed)
                     \/ out[1].echo # HeaderOf(sealed)
           complete == /\ exit = "success"
                       /\ out[1].numbers = expected
                       /\ out[1].records = Counts(sealed.shape)
                       /\ Bytes(out) = expected.resultBytes
                       /\ ParseRecords(Tail(out), sealed.shape)
<1>1. /\ out = << >> => LoadVerdict = Says(crash, Success)
      /\ out # << >> /\ astray => LoadVerdict = Says("protocol", Success)
      /\ out # << >> /\ ~astray /\ out[1].status # Success =>
            LoadVerdict = IF exit = "success" \/ Len(out) # 1
                          THEN Says("protocol", Success) ELSE Says("status", out[1].status)
      /\ out # << >> /\ ~astray /\ out[1].status = Success =>
            LoadVerdict = IF complete THEN Says("accepted", Success) ELSE Says("protocol", Success)
  BY DEF LoadVerdict
<1>2. \A kind, code : Says(kind, code).kind = kind
  BY DEF Says
<1>3. crash # "accepted"
  OBVIOUS
<1>4. complete => exit = "success" /\ ParseRecords(Tail(out), sealed.shape)
  OBVIOUS
<1> HIDE DEF astray, complete, crash
<1> QED
  BY <1>1, <1>2, <1>3, <1>4

LEMMA ViewsAre ==
    ASSUME NEW T, NEW shape, ParseRecords(T, shape), NEW vs, vs = ViewsOf(T)
    PROVE  /\ [r \in DOMAIN vs |-> vs[r].prefix] = RecordPrefixes(shape)
           /\ \A r \in DOMAIN vs : vs[r].at = r
<1>1. /\ DOMAIN vs = DOMAIN T
      /\ \A r \in DOMAIN T : vs[r].prefix = T[r].prefix /\ vs[r].at = r
  BY DEF ViewsOf
<1>2. [r \in DOMAIN T |-> T[r].prefix] = RecordPrefixes(shape)
  BY DEF ParseRecords
<1> QED
  BY <1>1, <1>2

LEMMA LoadResultHolds == ASSUME StageInv, BlameInv, LoadResult PROVE HeldInv'
<1>1. /\ stage = "exited" /\ stage' = "loaded" /\ verdict' = LoadVerdict
      /\ UNCHANGED <<sealed, carried, status, parsed, work, out>>
  BY DEF LoadResult
<1>2. CASE LoadVerdict.kind # "accepted"
  <2>1. LoadVerdict.kind # "verified"
    <3> DEFINE crash == IF exit = "failure" THEN "execution" ELSE "protocol"
    <3>1. \A kind, code : Says(kind, code).kind = kind
      BY DEF Says
    <3>2. LoadVerdict \in {Says(crash, Success), Says("protocol", Success), Says("accepted", Success),
                           Says("status", out[1].status)}
      BY DEF LoadVerdict
    <3> QED
      BY <3>1, <3>2
  <2> QED
    BY <1>1, <1>2, <2>1, NothingHeld
<1>3. CASE LoadVerdict.kind = "accepted"
  <2>1. exit = "success" /\ ParseRecords(Tail(out), sealed.shape)
    BY <1>3, AcceptedIs
  <2>2. status = Success /\ out = Answer
    BY <1>1, <2>1 DEF BlameInv, Landed
  <2>3. carried = sealed
    BY <1>1, <2>2, SuccessIsPlanned DEF Running
  <2>4. Complete'
    BY <1>1, <2>2, <2>3, AnswerStays DEF Complete
  <2>5. mapped' = out' /\ views' = [of |-> ViewsOf(Tail(out)), sha |-> Digest(out)]
    BY <1>1, <1>3 DEF LoadResult
  <2>6. Sealing'
    BY <1>1, <2>5 DEF Sealing, Digest
  <2>7. views'.of = ViewsOf(Tail(out))
    BY <2>5
  <2>8. Viewed'
    <3> DEFINE vs == ViewsOf(Tail(out))
    <3>1. /\ [r \in DOMAIN vs |-> vs[r].prefix] = RecordPrefixes(sealed.shape)
          /\ \A r \in DOMAIN vs : vs[r].at = r
      BY <2>1, ViewsAre
    <3> HIDE DEF vs
    <3>2. sealed' = sealed /\ views'.of = vs
      BY <1>1, <2>7 DEF vs
    <3> QED
      BY <3>1, <3>2, Zenon DEF Viewed
  <2> QED
    BY <1>1, <2>4, <2>5, <2>6, <2>8 DEF HeldInv, Faithful
<1> QED
  BY <1>2, <1>3

LEMMA TamperHolds == ASSUME HeldInv, Tamper PROVE HeldInv'
<1>1. /\ stage' = "tampered" /\ verdict.kind = "accepted" /\ verdict' = verdict
      /\ UNCHANGED <<sealed, carried, status, parsed, work, out>>
  BY DEF Tamper
<1>2. Complete'
  BY <1>1, AnswerStays DEF HeldInv, Complete
<1>3. PICK vs : views = [of |-> vs, sha |-> Digest(out)]
  BY <1>1 DEF HeldInv, Sealing
<1>4. Sealing'
  <2>1. \/ views' = views
        \/ \E r, q : views' = [views EXCEPT !.of = [views.of EXCEPT ![r] = [views.of[r] EXCEPT !.at = q]]]
        \/ \E r, q : views' = [views EXCEPT !.of = [views.of EXCEPT ![r] = [views.of[r] EXCEPT !.prefix = views.of[q].prefix]]]
    BY DEF Tamper
  <2>2. views' = views \/ \E new : views' = [views EXCEPT !.of = new]
    BY <2>1
  <2>3. \E new : views' = [of |-> new, sha |-> Digest(out)]
    BY <1>3, <2>2
  <2> QED
    BY <1>1, <2>3 DEF Sealing, Digest
<1> QED
  BY <1>1, <1>2, <1>4 DEF HeldInv, Believed

LEMMA VerifyHolds == ASSUME HeldInv, VerifyIntegrity PROVE HeldInv'
<1>1. /\ verdict.kind = "accepted" /\ verdict' = Says(IF Intact THEN "verified" ELSE "integrity", Success)
      /\ UNCHANGED <<sealed, carried, status, parsed, work, out, mapped, views>>
  BY DEF VerifyIntegrity
<1>2. \A kind, code : Says(kind, code).kind = kind
  BY DEF Says
<1>3. CASE ~Intact
  <2>1. verdict'.kind = "integrity"
    BY <1>1, <1>2, <1>3
  <2> QED
    BY <2>1, NothingHeld
<1>4. CASE Intact
  <2>1. verdict'.kind = "verified"
    BY <1>1, <1>2, <1>4
  <2>2. Complete'
    BY <1>1, AnswerStays DEF HeldInv, Complete
  <2>3. PICK vs : views = [of |-> vs, sha |-> Digest(out)]
    BY <1>1 DEF HeldInv, Sealing
  <2>4. Digest(mapped) = Digest(out)
    <3>1. views.sha = Digest(out)
      BY <2>3
    <3> QED
      BY <1>4, <3>1 DEF Intact
  <2>5. mapped = out
    BY <2>4 DEF Digest
  <2>6. Viewed
    BY <1>4 DEF Intact, Viewed
  <2>7. Viewed'
    BY <1>1, <2>6 DEF Viewed
  <2> QED
    BY <1>1, <2>1, <2>2, <2>5, <2>7 DEF HeldInv, Faithful
<1> QED
  BY <1>3, <1>4

LEMMA HeldStep == ASSUME StageInv, BlameInv, HeldInv, [SidecarNext]_sidecar PROVE HeldInv'
<1>1. ASSUME UNCHANGED sidecar PROVE HeldInv'
  <2>1. /\ stage' = stage /\ verdict' = verdict /\ out' = out /\ mapped' = mapped /\ views' = views
        /\ UNCHANGED <<sealed, carried, status, parsed, work>>
    BY <1>1 DEF sidecar, program, caller, work
  <2>2. Complete' = Complete
    BY <2>1, AnswerStays DEF Complete
  <2>3. Sealing' = Sealing /\ Viewed' = Viewed
    BY <2>1 DEF Sealing, Viewed, Digest
  <2> QED
    BY <2>1, <2>2, <2>3 DEF HeldInv, Faithful, Believed
<1>2. ASSUME Settled PROVE HeldInv'
  BY <1>1, <1>2 DEF Settled
<1>3. ASSUME \/ ReadSession \/ ReadStore \/ Preflight \/ Authenticate \/ RowKeys \/ Allocate
             \/ Load \/ Moments \/ CheckMoments \/ Solve \/ Score \/ Validate \/ Write
      PROVE  HeldInv'
  <2>1. stage \in Running \cup {"write"} /\ verdict' = verdict
    BY <1>3, ProgramRuns DEF Write
  <2>2. verdict.kind = "none"
    BY <2>1 DEF BlameInv, Running
  <2> QED
    BY <2>1, <2>2, NothingHeld
<1> QED
  BY <1>1, <1>2, <1>3, LoadResultHolds, TamperHolds, VerifyHolds DEF SidecarNext

\* The i-th row of a domain is the row before which i - 1 of the domain went by.
IsAt(rows, d, i, row) ==
    /\ row \in DOMAIN rows /\ rows[row].domain = d
    /\ Cardinality({r \in 1 .. (row - 1) : rows[r].domain = d}) = i - 1

LEMMA RowAtPlace ==
    ASSUME NEW rows, NEW N \in Nat, DOMAIN rows = 1 .. N, NEW d,
           NEW n, n = Len(RowsOf(rows, d)), NEW i \in 1 .. n, NEW row, row = RowsOf(rows, d)[i]
    PROVE  IsAt(rows, d, i, row)
<1> DEFINE S == RowsTo(rows, N, d)
           s == RowsOf(rows, d)
<1>1. InOrder(s, S)
  <2>1. S = {r \in DOMAIN rows : rows[r].domain = d}
    BY DEF RowsTo
  <2> QED
    BY <2>1, Zenon DEF InOrder, RowsOf
<1>2. IsFiniteSet(S) /\ S \subseteq Int
  BY RowsToAre
<1> HIDE DEF s
<1>3. /\ s \in [1 .. Cardinality(S) -> S] /\ Len(s) = Cardinality(S)
      /\ \A k \in 1 .. Cardinality(S) : RankIn(S, s[k]) = k - 1
  <2> HIDE DEF S
  <2> QED
    BY <1>1, <1>2, SortedIs
<1>4. n = Cardinality(S) /\ row = s[i]
  BY <1>3 DEF s
<1>5. row \in S /\ RankIn(S, row) = i - 1
  BY <1>3, <1>4
<1>6. row \in 1 .. N /\ rows[row].domain = d
  BY <1>5 DEF RowsTo
<1>7. {y \in S : y < row} = {r \in 1 .. (row - 1) : rows[r].domain = d}
  BY <1>6 DEF RowsTo
<1> QED
  BY <1>5, <1>6, <1>7 DEF RankIn, IsAt

\* Only the views of blocks say of which subset they are.
LEMMA ScoreViewIs ==
    ASSUME NEW shape, Planned(shape), NEW vs,
           [r \in DOMAIN vs |-> vs[r].prefix] = RecordPrefixes(shape),
           NEW r \in DOMAIN vs, "subset" \in DOMAIN vs[r].prefix.about
    PROVE  \E b \in 1 .. Len(Blocks(Subsets(shape), shape)) :
              r = Len(Omitted(shape)) + b /\ vs[r].prefix.about = plan.blocks[b]
<1> DEFINE K == Len(Omitted(shape))
           B == Blocks(Subsets(shape), shape)
           N == Len(B)
           p == [s \in DOMAIN Subsets(shape) |-> CoefficientPrefix(Subsets(shape), shape, s)]
           q == [b \in DOMAIN B |-> ScorePrefix(B, shape, b)]
<1>0. IsShape(shape) /\ shape.features >= Surface
  BY DEF Planned
<1>1. K \in Nat /\ N \in Nat /\ DOMAIN Subsets(shape) = 1 .. K /\ DOMAIN B = 1 .. N
  BY <1>0, RecordsJoined, SubsetsAre, BlocksAre
<1>2. plan.blocks = B
  BY DEF Planned, Plan
<1>3. RecordPrefixes(shape) = p \o q
  BY DEF RecordPrefixes
<1>4. ASSUME NEW s \in 1 .. K PROVE p[s].about = Subset(shape, Omitted(shape)[s])
  <2>1. p[s].about = Subsets(shape)[s]
    BY <1>1 DEF CoefficientPrefix
  <2> QED
    BY <1>0, <2>1, SubsetsAre
<1>5. \A o : DOMAIN Subset(shape, o) = {"domains", "rows", "tags", "width"}
  BY DEF Subset
<1>6. \A b \in 1 .. N : q[b].about = B[b]
  BY <1>1 DEF ScorePrefix
<1>7. p = [s \in 1 .. K |-> p[s]] /\ q = [b \in 1 .. N |-> q[b]]
  BY <1>1
<1> HIDE DEF K, B, N, p, q
<1>8. p \o q = [i \in 1 .. (K + N) |-> IF i <= K THEN p[i] ELSE q[i - K]]
  BY ONLY <1>1, <1>7, JoinedIs
<1>9. r \in 1 .. (K + N) /\ vs[r].prefix = IF r <= K THEN p[r] ELSE q[r - K]
  <2>1. [x \in DOMAIN vs |-> vs[x].prefix] = [i \in 1 .. (K + N) |-> IF i <= K THEN p[i] ELSE q[i - K]]
    BY <1>3, <1>8
  <2> QED
    BY <2>1
<1>10. ~(r <= K)
  <2> SUFFICES ASSUME r <= K PROVE FALSE
    OBVIOUS
  <2>1. r \in 1 .. K /\ vs[r].prefix = p[r]
    BY <1>1, <1>9
  <2>2. vs[r].prefix.about = Subset(shape, Omitted(shape)[r])
    BY <1>4, <2>1
  <2>3. "subset" \in {"domains", "rows", "tags", "width"}
    BY <1>5, <2>2
  <2> QED
    BY <2>3
<1>11. PICK b \in 1 .. N : r = K + b
  <2>1. r - K \in 1 .. N /\ r = K + (r - K)
    BY <1>1, <1>9, <1>10
  <2> QED
    BY <2>1
<1>12. r - K = b
  BY <1>1, <1>11
<1>13. vs[r].prefix.about = plan.blocks[b]
  BY <1>2, <1>6, <1>9, <1>10, <1>12
<1> QED
  BY <1>11, <1>13 DEF K, N, B

LEMMA MeantIsTrue ==
    ASSUME NEW b, NEW i, NEW t
    PROVE  LET s == plan.blocks[b].subset
               d == plan.blocks[b].domain
           IN ScoreMeant(s, RowsOf(carried.rows, d)[i], t)
                = TrueScore(carried, plan.subsets[s].domains, d, i, t)
BY Zenon DEF ScoreMeant, TrueScore, TermOf, FitOf

\* What stands in the answer where a score is looked for.
LEMMA ScoreIsInPlace ==
    ASSUME StageInv, Filled, stage \notin Running, Complete, NEW b \in 1 .. Len(plan.blocks),
           NEW i \in 1 .. plan.blocks[b].rows, NEW t \in Targets
    PROVE  LET d == plan.blocks[b].domain
               place == Len(Omitted(carried.shape)) + b + 1
           IN out[place].payload[(i - 1) * carried.shape.targets + t + 1]
                = ScoreMeant(plan.blocks[b].subset, RowsOf(carried.rows, d)[i], t)
<1> DEFINE shape == carried.shape
           K == Len(Omitted(shape))
           N == Len(plan.blocks)
           M == shape.targets
           z == BlockCells(shape)[b]
           o == plan.scoreOffset[b]
           B == plan.blocks[b].rows
           d == plan.blocks[b].domain
           row == RowsOf(carried.rows, d)[i]
           c == (i - 1) * M + t + 1
<1>1. Planned(shape) /\ Laid(shape) /\ IsFile(carried) /\ DomainsAgree(carried) /\ out = Answer
  <2>1. Known("validate")
    BY DEF StageInv, StageFollows, Complete
  <2> QED
    BY <2>1, SuccessIsPlanned, PlannedIsLaid
       DEF StageInv, FilesAre, Complete, Known, PastLoad, PastKeys, PastDigest, PastPlan, PastMagic, Running
<1>2. /\ N \in Nat /\ N = Len(Blocks(Subsets(shape), shape)) /\ DOMAIN plan.blocks = 1 .. N
      /\ d \in Domains(shape) /\ B = shape.counts[d + 1] /\ B \in Nat /\ z = M * B
  BY <1>1, ScoresAreLaid
<1>3. K \in Nat /\ out[K + b + 1] = ScoreRecords[b]
  <2> DEFINE T == Coefficients \o ScoreRecords
             r == K + b
  <2>1. K \in Nat /\ T[K + b] = ScoreRecords[b] /\ \A x \in 1 .. (K + N) : Answer[x + 1] = T[x]
    BY <1>1, <1>2, RecordsJoined
  <2>2. r \in 1 .. (K + N) /\ r = K + b
    BY <1>2, <2>1
  <2> HIDE DEF T, K, N, r
  <2>3. Answer[r + 1] = ScoreRecords[b]
    BY <2>1, <2>2
  <2> QED
    BY <1>1, <2>1, <2>3 DEF r
<1>4. ScoreRecords[b].payload = Slice(scores, o, z) /\ z \in Nat
  BY <1>1, <1>2, ScoreRecordsAre
<1>5. M \in Nat /\ t \in 0 .. (M - 1)
  BY <1>1 DEF Targets, Laid, IsShape
<1>6. /\ row \in DOMAIN carried.rows /\ carried.rows[row].domain = d
      /\ RowsBefore(row, d) = i - 1
  <2>1. Len(RowsOf(carried.rows, d)) = B
    BY <1>1, <1>2 DEF DomainsAgree
  <2>2. DOMAIN carried.rows = 1 .. Len(carried.rows) /\ Len(carried.rows) \in Nat
    BY <1>1 DEF IsFile
  <2> DEFINE rows == carried.rows
             n == Len(carried.rows)
  <2> HIDE DEF d, row, B, rows, n
  <2>3. IsAt(rows, d, i, row)
    <3>1. row = RowsOf(rows, d)[i] /\ B = Len(RowsOf(rows, d)) /\ n \in Nat /\ DOMAIN rows = 1 .. n /\ i \in 1 .. B
      BY <2>1, <2>2 DEF row, d, rows, n, B
    <3> QED
      BY ONLY <3>1, RowAtPlace
  <2> QED
    BY <2>3 DEF IsAt, RowsBefore, rows
<1>7. Meets(b, row) /\ row \in DOMAIN carried.rows
  BY <1>2, <1>6 DEF Meets
<1>8. scores[ScoreAt(b, row, t)] = ScoreMeant(plan.blocks[b].subset, row, t)
  <2>1. RowScored(row, scores)
    BY <1>6 DEF Filled, Complete
  <2> HIDE DEF row
  <2> QED
    BY <1>7, <2>1 DEF RowScored
<1>9. ScoreAt(b, row, t) = o + (i - 1) * M + t /\ o \in Nat
  <2>1. ScoreAt(b, row, t) = o + RowsBefore(row, d) * M + t
    BY <1>6 DEF ScoreAt
  <2>2. o \in Nat
    <3> DEFINE e == ScoreAt(b, row, t)
    <3> HIDE DEF row, e
    <3>1. e = ScoreAt(b, row, t)
      BY DEF e
    <3> QED
      BY <1>1, <1>7, <3>1, ScorePlaces
  <2> QED
    BY <1>6, <2>1, <2>2
<1> HIDE DEF shape, K, N, M, z, o, B, d, row
<1>10. (i - 1) * M \in Nat /\ c \in 1 .. z /\ o + c - 1 = o + (i - 1) * M + t
  <2>1. (i - 1) \in Nat /\ (i - 1) < B /\ t \in Nat /\ t < M
    BY <1>2, <1>5 DEF B
  <2> DEFINE j == i - 1
  <2>2. j \in Nat /\ j < B
    BY <2>1
  <2> HIDE DEF j
  <2>3. j * M + t \in Nat /\ j * M + t < B * M
    BY <1>2, <1>5, <2>1, <2>2, FlatIndexFits
  <2>4. j * M \in Nat /\ B * M = M * B
    BY <1>2, <1>5, <2>2
  <2>5. c = j * M + t + 1
    BY DEF j
  <2> DEFINE a == j * M
             m == B * M
  <2>6. a \in Nat /\ a + t < m /\ z = m /\ c = a + t + 1 /\ m \in Nat
    BY <1>2, <1>4, <2>3, <2>4, <2>5
  <2> HIDE DEF a, m, c
  <2>7. c \in 1 .. z /\ o + c - 1 = o + a + t
    BY <1>9, <2>1, <2>6
  <2> QED
    BY <2>4, <2>7 DEF a, j, c
<1> HIDE DEF c
<1>11. out[K + b + 1].payload[c] = scores[o + c - 1]
  <2>1. Slice(scores, o, z)[c] = scores[o + c - 1]
    BY <1>4, <1>10, SliceIs
  <2> QED
    BY <1>3, <1>4, <2>1
<1>12. out[K + b + 1].payload[c] = ScoreMeant(plan.blocks[b].subset, row, t)
  BY <1>8, <1>9, <1>10, <1>11
<1> QED
  BY <1>12 DEF K, c, M, row, d, shape

LEMMA FaithfulIsCanonical ==
    ASSUME StageInv, Filled, stage \notin Running, Faithful
    PROVE  AnswersAreCanonical
<1> DEFINE shape == sealed.shape
           K == Len(Omitted(shape))
           N == Len(plan.blocks)
           M == shape.targets
<1>1. /\ carried = sealed /\ mapped = out /\ Complete
      /\ [r \in DOMAIN views.of |-> views.of[r].prefix] = RecordPrefixes(shape)
      /\ \A r \in DOMAIN views.of : views.of[r].at = r
  BY DEF Faithful, Complete, Viewed
<1>2. Planned(shape) /\ plan.subsets = Subsets(shape) /\ plan.blocks = Blocks(Subsets(shape), shape)
  <2>1. Planned(shape)
    BY <1>1, SuccessIsPlanned DEF Complete
  <2>2. plan = Plan(shape)
    BY <2>1 DEF Planned
  <2>3. Plan(shape).subsets = Subsets(shape) /\ Plan(shape).blocks = Blocks(Subsets(shape), shape)
    BY DEF Plan
  <2> QED
    BY <2>1, <2>2, <2>3
<1>3. ASSUME NEW r \in ScoreViews,
             NEW i \in 1 .. views.of[r].prefix.about.rows, NEW t \in 0 .. (M - 1)
      PROVE  LET about == views.of[r].prefix.about
                 doms == Subsets(shape)[about.subset].domains
             IN Payload(views.of[r])[(i - 1) * M + t + 1] = TrueScore(sealed, doms, about.domain, i, t)
  <2>1. r \in DOMAIN views.of /\ "subset" \in DOMAIN views.of[r].prefix.about
    BY <1>3 DEF ScoreViews
  <2>2. PICK b \in 1 .. N : r = K + b /\ views.of[r].prefix.about = plan.blocks[b]
    <3> DEFINE vs == views.of
    <3>1. r \in DOMAIN vs /\ "subset" \in DOMAIN vs[r].prefix.about
      BY <2>1
    <3>2. [x \in DOMAIN vs |-> vs[x].prefix] = RecordPrefixes(shape)
      BY <1>1
    <3> HIDE DEF vs
    <3>3. \E b \in 1 .. Len(Blocks(Subsets(shape), shape)) :
             r = Len(Omitted(shape)) + b /\ vs[r].prefix.about = plan.blocks[b]
      BY <1>2, <3>1, <3>2, ScoreViewIs
    <3> QED
      BY <1>2, <3>3 DEF vs
  <2> DEFINE s == plan.blocks[b].subset
             d == plan.blocks[b].domain
             x == (i - 1) * M + t + 1
  <2>3. i \in 1 .. plan.blocks[b].rows /\ t \in Targets
    BY <1>1, <2>2 DEF Targets
  <2>4. out[K + b + 1].payload[x] = ScoreMeant(s, RowsOf(carried.rows, d)[i], t)
    BY <1>1, <2>3, ScoreIsInPlace
  <2>5. ScoreMeant(s, RowsOf(carried.rows, d)[i], t) = TrueScore(carried, plan.subsets[s].domains, d, i, t)
    BY MeantIsTrue
  <2> HIDE DEF x, K, N
  <2>6. Payload(views.of[r])[x] = out[K + b + 1].payload[x]
    BY <1>1, <2>1, <2>2 DEF Payload
  <2>7. Payload(views.of[r])[x] = TrueScore(sealed, Subsets(shape)[s].domains, d, i, t)
    BY <1>1, <1>2, <2>4, <2>5, <2>6
  <2> QED
    BY <2>2, <2>7 DEF x
<1> QED
  BY <1>1, <1>3, Zenon DEF AnswersAreCanonical

(* What the caller believes, when it loads the answer and when it verifies  *)
(* it later, is what the store it authenticated determines: every score is  *)
(* that row's features under the fit to exactly that subset's rows, in row  *)
(* order (allocate_buffers to write_score_records, _load_result,            *)
(* verify_integrity).                                                       *)
THEOREM SidecarAnswers == SidecarSpec => []AnswersAreCanonical
<1> DEFINE Inv == StageInv /\ BlameInv /\ Filled /\ HeldInv
<1>1. SidecarInit => Inv
  <2> SUFFICES ASSUME SidecarInit PROVE Inv
    OBVIOUS
  <2>1. stage = "session" /\ verdict.kind = "none"
    BY DEF SidecarInit
  <2>2. BlameInv /\ HeldInv
    BY <2>1 DEF BlameInv, BlameIsRight, HeldInv, Believed
  <2> QED
    BY <2>2, StageInit, FilledInit
<1>2. Inv /\ [SidecarNext]_sidecar => Inv'
  BY StageStep, BlameStep, FilledStep, HeldStep
<1>3. Inv => AnswersAreCanonical
  <2> SUFFICES ASSUME Inv PROVE AnswersAreCanonical
    OBVIOUS
  <2>1. CASE Believed
    <3>1. Faithful
      BY <2>1 DEF HeldInv
    <3>2. stage \notin Running
      <4>1. verdict.kind # "none"
        BY <2>1 DEF Believed
      <4>2. stage \in {"loaded", "tampered", "verified"}
        BY <4>1 DEF BlameInv
      <4> QED
        BY <4>2 DEF Running
    <3> QED
      BY <3>1, <3>2, FaithfulIsCanonical
  <2>2. CASE ~Believed
    BY <2>2, Zenon DEF AnswersAreCanonical
  <2> QED
    BY <2>1, <2>2
<1> QED
  BY <1>1, <1>2, <1>3, PTL DEF SidecarSpec

=============================================================================
