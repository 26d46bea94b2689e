-------------------------- MODULE StorePublication --------------------------
(***************************************************************************)
(* Publishing a prepared store under a new name.  Every writer fills a     *)
(* stage of its own, links it to the destination (a link never replaces),  *)
(* looks again, and drops the stage name; readers authenticate whatever    *)
(* file the destination names against a receipt they hold.  Writers are    *)
(* processes: they interleave at every file operation, any operation may   *)
(* fail (a link or an unlink also after it took effect) and any process    *)
(* may die.  A file is identified by the writer that made it.              *)
(***************************************************************************)
EXTENDS Naturals, FiniteSets

CONSTANTS Writers,  \* concurrent or retried calls for one destination
          Foreign,  \* a file somebody else left at the destination
          Nothing,  \* the destination does not exist
          MaxFaults \* bound on the failing operations

ASSUME PublicationAssumption ==
    /\ Foreign \notin Writers /\ Nothing \notin Writers \cup {Foreign}
    /\ MaxFaults \in Nat

VARIABLES
    destination, \* the file the destination names
    staged,      \* the writers whose stage name exists
    content,     \* "none", "partial" or "complete": the data of a writer's file
    changes,     \* renewals of st_ctime by links and unlinks, after the data
    pc,          \* the operation a writer is at
    linked,      \* linked, for each writer
    faults,      \* operations that failed so far
    reader       \* the authentication: its place, the file it opened, st_ctime

store  == <<destination, staged, content, changes>>
writer == <<pc, linked, faults>>
vars   == <<store, writer, reader>>

Places == {"inspect", "mkstemp", "write", "publish", "link", "verify", "look", "withdraw",
           "unlink", "sync", "cleanup", "receipt", "error", "dead"}
Ended  == {"receipt", "error", "dead"}

TypeOK ==
    /\ destination \in Writers \cup {Foreign, Nothing}
    /\ staged \subseteq Writers /\ linked \subseteq Writers
    /\ content \in [Writers -> {"none", "partial", "complete"}]
    /\ changes \in [Writers -> 0 .. 3]
    /\ pc \in [Writers -> Places]
    /\ faults \in 0 .. MaxFaults
    /\ reader \in [at : {"idle", "scan", "accepted", "refused"}, sure : BOOLEAN,
                   file : Writers \cup {Foreign, Nothing}, ctime : 0 .. 3]

Idle == [at |-> "idle", sure |-> FALSE, file |-> Nothing, ctime |-> 0]

Init ==
    /\ destination \in {Nothing, Foreign}
    /\ staged = {} /\ linked = {} /\ faults = 0
    /\ content = [w \in Writers |-> "none"]
    /\ changes = [w \in Writers |-> 0]
    /\ pc = [w \in Writers |-> "inspect"]
    /\ reader = Idle

Goes(w, from, to) == pc[w] = from /\ pc' = [pc EXCEPT ![w] = to]
Fault == faults < MaxFaults /\ faults' = faults + 1
Touched(w) == changes' = [changes EXCEPT ![w] = @ + 1]

-----------------------------------------------------------------------------
(* write_prepared_store_file_from_sections.                                  *)

\* The destination must be a new absent path; nothing exists yet to clean up.
Inspect(w) ==
    /\ \/ destination = Nothing /\ Goes(w, "inspect", "mkstemp")
       \/ destination # Nothing /\ Goes(w, "inspect", "error")
    /\ UNCHANGED <<store, linked, faults, reader>>

\* Mutant of MakeStage: the file is published first and filled in place.
PublishEmpty(w) ==
    /\ Goes(w, "mkstemp", "publish")
    /\ staged' = staged \cup {w}
    /\ content' = [content EXCEPT ![w] = "partial"]
    /\ UNCHANGED <<destination, changes, linked, faults, reader>>

MakeStage(w) ==
    /\ Goes(w, "mkstemp", "write")
    /\ staged' = staged \cup {w}
    /\ content' = [content EXCEPT ![w] = "partial"]
    /\ UNCHANGED <<destination, changes, linked, faults, reader>>

\* Sections, header, fsync and the scan of what was written.
WriteStage(w) ==
    /\ Goes(w, "write", "publish")
    /\ content' = [content EXCEPT ![w] = "complete"]
    /\ UNCHANGED <<destination, staged, changes, linked, faults, reader>>

\* _publish_new_stage: directory and stage are still the ones of the start.
CheckStage(w) ==
    /\ Goes(w, "publish", "link")
    /\ UNCHANGED <<store, linked, faults, reader>>

Appears(w) == destination' = w /\ Touched(w)

\* Mutant of Link: a rename, which replaces what it finds.
Rename(w) ==
    /\ Goes(w, "link", "verify")
    /\ Appears(w)
    /\ linked' = linked \cup {w}
    /\ UNCHANGED <<staged, content, faults, reader>>

Link(w) ==
    /\ destination = Nothing
    /\ Goes(w, "link", "verify")
    /\ Appears(w)
    /\ linked' = linked \cup {w}
    /\ UNCHANGED <<staged, content, faults, reader>>

\* FileExistsError: another writer was faster.
LinkRefused(w) ==
    /\ destination # Nothing
    /\ Goes(w, "link", "cleanup")
    /\ UNCHANGED <<store, linked, faults, reader>>

\* The link took effect and the call raised: linked is still False.
LinkRaises(w) ==
    /\ destination = Nothing
    /\ Goes(w, "link", "cleanup")
    /\ Appears(w)
    /\ Fault
    /\ UNCHANGED <<staged, content, linked, reader>>

\* Stage and destination are one owner-only file, and the directory is synced.
Verify(w) ==
    /\ Goes(w, "verify", "unlink")
    /\ UNCHANGED <<store, linked, faults, reader>>

MayWithdraw(w) == destination = w

\* The rollback of a publication: only its own file, found by a second lstat,
\* and an OSError ends it silently.
Look(w) ==
    /\ \/ w \in linked /\ MayWithdraw(w) /\ Goes(w, "look", "withdraw")
       \/ ~(w \in linked /\ MayWithdraw(w)) /\ Goes(w, "look", "cleanup")
    /\ UNCHANGED <<store, linked, faults, reader>>

Withdraw(w) ==
    /\ Goes(w, "withdraw", "cleanup")
    /\ destination' = Nothing
    /\ Touched(w)
    /\ UNCHANGED <<staged, content, linked, faults, reader>>

UnlinkStage(w) ==
    /\ Goes(w, "unlink", "sync")
    /\ staged' = staged \ {w}
    /\ Touched(w)
    /\ UNCHANGED <<destination, content, linked, faults, reader>>

\* Mutant of Sync: the receipt is returned with the stage still in place.
ReceiptBeforeUnlink(w) ==
    /\ pc[w] \in {"unlink", "sync"}
    /\ pc' = [pc EXCEPT ![w] = "receipt"]
    /\ UNCHANGED <<store, linked, faults, reader>>

Sync(w) ==
    /\ Goes(w, "sync", "receipt")
    /\ UNCHANGED <<store, linked, faults, reader>>

\* The handler: stage.unlink(missing_ok=True), then the error is raised again.
Cleanup(w) ==
    /\ Goes(w, "cleanup", "error")
    /\ \/ w \in staged /\ staged' = staged \ {w} /\ Touched(w)
       \/ w \notin staged /\ UNCHANGED <<staged, changes>>
    /\ UNCHANGED <<destination, content, linked, faults, reader>>

\* Any operation may fail without effect.
Handler(place) ==
    CASE place \in {"inspect", "mkstemp"}      -> "error"
      [] place = "verify"                      -> "look"
      [] place = "cleanup"                     -> "error"
      [] OTHER                                 -> "cleanup"

OperationFails(w) ==
    /\ pc[w] \notin Ended
    /\ pc' = [pc EXCEPT ![w] = Handler(pc[w])]
    /\ Fault
    /\ UNCHANGED <<store, linked, reader>>

\* The stage is gone and stage.unlink raised all the same.
UnlinkRaises(w) ==
    /\ Goes(w, "unlink", "cleanup")
    /\ staged' = staged \ {w}
    /\ Touched(w)
    /\ Fault
    /\ UNCHANGED <<destination, content, linked, reader>>

\* The process dies.
Die(w) ==
    /\ pc[w] \notin Ended
    /\ pc' = [pc EXCEPT ![w] = "dead"]
    /\ Fault
    /\ UNCHANGED <<store, linked, reader>>

-----------------------------------------------------------------------------
(* copy_authenticated_prepared_store with the receipt of the published data. *)

Ctime(file) == IF file \in Writers THEN changes[file] ELSE 0

\* lstat, open and fstat agree.  The reader is sure of the file if the call that
\* made it has returned the receipt.
Open ==
    /\ reader.at = "idle" /\ destination # Nothing
    /\ reader' = [at |-> "scan", file |-> destination, ctime |-> Ctime(destination),
                  sure |-> destination \in Writers /\ pc[destination] = "receipt"]
    /\ UNCHANGED <<store, writer>>

Authentic(file) == file \in Writers /\ content[file] = "complete"

\* Bytes and digest are right, and the descriptor and the path still show the
\* file, and the times, of the beginning.
Finish ==
    /\ reader.at = "scan"
    /\ LET stable == destination = reader.file /\ Ctime(reader.file) = reader.ctime
       IN reader' = [reader EXCEPT !.at = IF Authentic(reader.file) /\ stable
                                          THEN "accepted" ELSE "refused"]
    /\ UNCHANGED <<store, writer>>

Again ==
    /\ reader.at \in {"accepted", "refused"}
    /\ reader' = Idle
    /\ UNCHANGED <<store, writer>>

-----------------------------------------------------------------------------

Normal(w) ==
    \/ Inspect(w) \/ MakeStage(w) \/ WriteStage(w) \/ CheckStage(w)
    \/ Link(w) \/ LinkRefused(w) \/ Verify(w) \/ Look(w) \/ Withdraw(w)
    \/ UnlinkStage(w) \/ Sync(w) \/ Cleanup(w)

Failing(w) == LinkRaises(w) \/ OperationFails(w) \/ UnlinkRaises(w) \/ Die(w)

Next ==
    \/ \E w \in Writers : Normal(w) \/ Failing(w)
    \/ Open \/ Finish \/ Again

Spec == Init /\ [][Next]_vars

-----------------------------------------------------------------------------
(* Properties.                                                               *)

\* A destination that exists is a whole store, whoever crashed where: neither a
\* stage in progress nor the zero header it starts with is ever published.
PublishedIsComplete ==
    destination \in Writers => content[destination] = "complete"

\* A file at the destination is never replaced, and never removed by a writer
\* that did not publish it; one whose receipt was returned is never removed.
NeverTakenAway ==
    [][destination # Nothing =>
          \/ destination' = destination
          \/ /\ destination' = Nothing
             /\ destination \in Writers
             /\ pc[destination] = "withdraw" /\ pc'[destination] = "cleanup"]_vars

\* A returned receipt is final: the destination is the caller's own store, its
\* stage is gone, and nothing renews its times any more, so an authentication
\* with that receipt is never refused.
ReceiptIsFinal ==
    /\ \A w \in Writers : pc[w] = "receipt" => destination = w /\ w \notin staged
    /\ reader.sure => reader.at # "refused"
=============================================================================
