--------------------------- MODULE StoreSnapshot ---------------------------
(***************************************************************************)
(* authenticate_prepared_store_file and the AuthenticatedPreparedStore it  *)
(* returns: a private directory, a stream into it and a read-only mapping  *)
(* of the copied store.  The copy is made while writers still race for the *)
(* source (StorePublication); afterwards the threads of one process read   *)
(* the mapping, export views of it and close it.  A call that fails keeps  *)
(* what it could not release, and a later close tries again.               *)
(***************************************************************************)
EXTENDS StorePublication

CONSTANTS Threads,   \* the threads that share the returned store
          MaxMishaps \* bound on the failing operations of this process

ASSUME SnapshotAssumption == MaxMishaps \in Nat

VARIABLES
    life,     \* where the authentication is, then "live" or "closed"
    holds,    \* what has to be released: _temporary_directory, _stream, _mapping
    copied,   \* the data in the private file: "nothing", "part" or "whole"
    mishaps,  \* operations of this process that failed so far
    at,       \* where each thread is in a method of the store
    inside,   \* the thread that holds _lock, if any
    exported  \* the threads that keep a memoryview of the mapping

snapshot     == <<life, holds, copied, mishaps, at, inside, exported>>
snapshotVars == <<vars, snapshot>>

SnapshotInit ==
    /\ Init
    /\ life = "none" /\ holds = {} /\ copied = "nothing" /\ mishaps = 0
    /\ at = [t \in Threads |-> "out"] /\ inside = {} /\ exported = {}

Mishap == mishaps < MaxMishaps /\ mishaps' = mishaps + 1
NoMishap == UNCHANGED mishaps

Moves(from, to) == life = from /\ life' = to

-----------------------------------------------------------------------------
(* authenticate_prepared_store_file.                                         *)

\* The private directory and the empty file in it; without a directory there is
\* nothing to clean up.
CreatePrivate ==
    /\ \/ Moves("none", "created") /\ holds' = {"directory", "stream"} /\ NoMishap
       \/ Moves("none", "abort") /\ holds' = {"directory"} /\ Mishap
       \/ Moves("none", "failed") /\ UNCHANGED holds /\ Mishap
    /\ UNCHANGED <<vars, copied, at, inside, exported>>

\* The destination stream is at its exact end; the source must exist.
StartCopy ==
    /\ \/ Moves("created", "copying") /\ Open /\ NoMishap
       \/ Moves("created", "abort") /\ destination = Nothing /\ UNCHANGED vars /\ NoMishap
       \/ Moves("created", "abort") /\ UNCHANGED vars /\ Mishap
    /\ UNCHANGED <<holds, copied, at, inside, exported>>

\* Header and estimate admitted the file: its payload is appended as it is hashed.
CopyPayload ==
    /\ life = "copying" /\ copied = "nothing"
    /\ copied' = "part"
    /\ UNCHANGED <<vars, life, holds, mishaps, at, inside, exported>>

\* _rollback_destination, which may fail in turn.
RollBack ==
    \/ copied' = "nothing" /\ NoMishap
    \/ UNCHANGED copied /\ Mishap

\* The copy is complete when the scan and the second look at the source are.
FinishCopy ==
    /\ Finish
    /\ \/ Moves("copying", "copied") /\ reader'.at = "accepted" /\ copied' = "whole" /\ NoMishap
       \/ Moves("copying", "abort") /\ reader'.at = "refused" /\ RollBack
    /\ UNCHANGED <<holds, at, inside, exported>>

\* Reading or writing fails: the scan is given up.
CopyFails ==
    /\ Moves("copying", "abort")
    /\ Mishap /\ copied' = "nothing"
    /\ UNCHANGED <<vars, holds, at, inside, exported>>

MapSnapshot ==
    /\ \/ Moves("copied", "live") /\ holds' = holds \cup {"mapping"} /\ NoMishap
       \/ Moves("copied", "abort") /\ UNCHANGED holds /\ Mishap
    /\ UNCHANGED <<vars, copied, at, inside, exported>>

\* Best effort: what goes wrong here is not reported.
Abort ==
    /\ Moves("abort", "failed")
    /\ \/ holds' = {} /\ NoMishap
       \/ holds' \in SUBSET holds /\ Mishap
    /\ UNCHANGED <<vars, copied, at, inside, exported>>

\* The caller authenticates once more, after a failure or with the store closed.
Retry ==
    /\ Again
    /\ Moves("failed", "none") \/ Moves("closed", "none")
    /\ holds' = {} /\ copied' = "nothing"
    /\ UNCHANGED <<mishaps, at, inside, exported>>

-----------------------------------------------------------------------------
(* The methods of AuthenticatedPreparedStore.  Each runs under _lock; one    *)
(* that finds no mapping raises and changes nothing.                         *)

Returned == life \in {"live", "closed"}
Readable == "mapping" \in holds

\* sha256_and_size: chunk after chunk, the lock is held throughout.
BeginHash(t) ==
    /\ Returned /\ Readable
    /\ at[t] = "out" /\ inside = {}
    /\ at' = [at EXCEPT ![t] = "hash"] /\ inside' = {t}
    /\ UNCHANGED <<vars, life, holds, copied, mishaps, exported>>

EndHash(t) ==
    /\ at[t] = "hash"
    /\ at' = [at EXCEPT ![t] = "out"] /\ inside' = {}
    /\ UNCHANGED <<vars, life, holds, copied, mishaps, exported>>

\* iter_row_keys: the lock is taken for one read at a time, so the generator may
\* find the store closed when it is resumed.  row_keys reads the same way,
\* domain_indices and target_row once.
BeginKeys(t) ==
    /\ Returned /\ Readable
    /\ at[t] = "out" /\ inside = {}
    /\ at' = [at EXCEPT ![t] = "keys"]
    /\ UNCHANGED <<vars, life, holds, copied, mishaps, inside, exported>>

EndKeys(t) ==
    /\ at[t] = "keys" /\ inside = {}
    /\ at' = [at EXCEPT ![t] = "out"]
    /\ UNCHANGED <<vars, life, holds, copied, mishaps, inside, exported>>

\* A caller wraps the mapping property in a memoryview, and releases it.
Export(t) ==
    /\ Returned /\ Readable
    /\ at[t] = "out" /\ inside = {} /\ t \notin exported
    /\ exported' = exported \cup {t}
    /\ UNCHANGED <<vars, life, holds, copied, mishaps, at, inside>>

ReleaseView(t) ==
    /\ t \in exported
    /\ exported' = exported \ {t}
    /\ UNCHANGED <<vars, life, holds, copied, mishaps, at, inside>>

\* Mutant of BeginClose: a mapping that cannot be closed is treated like a stream
\* or a directory that cannot, and the rest is released all the same.
CloseWhatCloses(t) ==
    /\ life = "live"
    /\ at[t] = "out" /\ inside = {}
    /\ holds' = IF exported = {} THEN holds \ {"mapping"} ELSE holds
    /\ at' = [at EXCEPT ![t] = "closeStream"] /\ inside' = {t}
    /\ UNCHANGED <<vars, life, copied, mishaps, exported>>

\* The mapping goes first.  While a view of it is exported it cannot be closed:
\* the call raises and everything stays for a later one.
BeginClose(t) ==
    /\ life = "live"
    /\ at[t] = "out" /\ inside = {}
    /\ exported = {} \/ ~Readable
    /\ holds' = holds \ {"mapping"}
    /\ at' = [at EXCEPT ![t] = "closeStream"] /\ inside' = {t}
    /\ UNCHANGED <<vars, life, copied, mishaps, exported>>

Releases(part) ==
    \/ holds' = holds \ {part} /\ NoMishap
    \/ part \in holds /\ UNCHANGED holds /\ Mishap

CloseStream(t) ==
    /\ at[t] = "closeStream"
    /\ Releases("stream")
    /\ at' = [at EXCEPT ![t] = "closeDirectory"]
    /\ UNCHANGED <<vars, life, copied, inside, exported>>

\* _closed is what is left of the three; an error is raised after that.
CloseDirectory(t) ==
    /\ at[t] = "closeDirectory"
    /\ Releases("directory")
    /\ life' = IF holds' = {} THEN "closed" ELSE "live"
    /\ at' = [at EXCEPT ![t] = "out"] /\ inside' = {}
    /\ UNCHANGED <<vars, copied, exported>>

-----------------------------------------------------------------------------

Authentication ==
    \/ CreatePrivate \/ StartCopy \/ CopyPayload \/ FinishCopy \/ CopyFails
    \/ MapSnapshot \/ Abort \/ Retry

Method(t) ==
    \/ BeginHash(t) \/ EndHash(t) \/ BeginKeys(t) \/ EndKeys(t)
    \/ Export(t) \/ ReleaseView(t)
    \/ BeginClose(t) \/ CloseStream(t) \/ CloseDirectory(t)

Publishing == (\E w \in Writers : Normal(w) \/ Failing(w)) /\ UNCHANGED snapshot

SnapshotNext == Publishing \/ Authentication \/ \E t \in Threads : Method(t)

SnapshotSpec == SnapshotInit /\ [][SnapshotNext]_snapshotVars

-----------------------------------------------------------------------------
(* Properties. *)

SnapshotTypeOK ==
    /\ life \in {"none", "created", "copying", "copied", "live", "abort", "failed", "closed"}
    /\ holds \subseteq {"directory", "stream", "mapping"}
    /\ copied \in {"nothing", "part", "whole"}
    /\ mishaps \in 0 .. MaxMishaps
    /\ at \in [Threads -> {"out", "hash", "keys", "closeStream", "closeDirectory"}]
    /\ inside \subseteq Threads /\ exported \subseteq Threads

\* What a reader of a returned store has under it stays: a mapping is of a whole
\* authenticated copy, whatever became of the source; its file and directory are
\* not released before it, however often and by whom close is called and whatever
\* fails in it; and no close takes the mapping from a running read or from a view
\* somebody exported.  A store that says it is closed holds nothing.
SnapshotOutlivesItsReaders ==
    /\ Readable => copied = "whole" /\ {"directory", "stream"} \subseteq holds
    /\ exported # {} => Readable
    /\ \A t \in Threads : at[t] = "hash" => Readable
    /\ life = "closed" => holds = {}
=============================================================================
