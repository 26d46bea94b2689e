---------------------------- MODULE AdapterCall ----------------------------
(***************************************************************************)
(* What one call of a native adapter keeps, whichever of the two sidecars  *)
(* it runs, and the waits both adapters share.  The main thread runs       *)
(* against the child and the drain threads of ChildPipes; a wait with a    *)
(* time limit may expire at any time.                                      *)
(***************************************************************************)
EXTENDS ChildPipes

VARIABLES
    adapter,    \* "prepared" or "ridge"
    pc,         \* the statement of the main thread
    outcome,    \* "none", or how the call ends (as soon as it is decided)
    timedOut,   \* timed_out
    late,       \* some wait expired before what it waited for
    seen,       \* blocks of the response file at its first fstat
    trouble,    \* ridge only: drain_join_error or stream_cleanup_error
    requestFd,  \* "none", "open" or "closed"
    responseFd, \* "none", "open" or "closed"
    owner,      \* prepared only: who closes the response: "adapter" or "result"
    workspace   \* "none", "present" or "removed"

call      == <<pc, outcome, timedOut, late, seen, trouble>>
resources == <<requestFd, responseFd, owner, workspace>>
vars      == <<adapter, pipeVars, call, resources>>

CallInit ==
    /\ PipesInit
    /\ pc = "prepare" /\ outcome = "none"
    /\ timedOut = FALSE /\ late = FALSE /\ seen = 0 /\ trouble = "none"
    /\ requestFd = "none" /\ responseFd = "none" /\ owner = "adapter" /\ workspace = "none"

Go(step) == pc' = step /\ UNCHANGED outcome

SendKill == killed' = (killed \/ child = "running")

DrainTrouble == overflow \/ outError \/ errError

-----------------------------------------------------------------------------
(* Waiting for the child and for the drains.                                 *)

Poll ==
    /\ pc = "poll"
    /\ \/ child = "dead" /\ UNCHANGED killed
       \/ child = "running" /\ DrainTrouble /\ SendKill
    /\ Go("reap")
    /\ UNCHANGED <<plan, child, rc, made, errTodo, pipes, outDrain, errDrain, faults,
                   timedOut, late, seen, trouble, resources>>

\* Mutant of Deadline: the limit starts again with every poll and never passes.
DeadlineRestarted == FALSE

\* The deadline passes while the child runs and no drain has complained.
Deadline ==
    /\ pc = "poll" /\ child = "running" /\ ~DrainTrouble
    /\ timedOut' = TRUE /\ late' = TRUE
    /\ SendKill /\ Go("reap")
    /\ UNCHANGED <<plan, child, rc, made, errTodo, pipes, outDrain, errDrain, faults,
                   seen, trouble, resources>>

JoinDrains(done, next) ==
    /\ \/ Drained /\ Go(done) /\ UNCHANGED late
       \/ ~Drained /\ Go(next) /\ late' = TRUE
    /\ UNCHANGED <<pipeVars, timedOut, seen, trouble, resources>>

-----------------------------------------------------------------------------
(* Header and exit status must tell the same story.                          *)

\* Mutant of HeaderVerdict: the exit status is not compared with the header.
HeaderVerdictAlone(header, status, size) ==
    CASE header = "foreign" -> "protocol"
      [] header = "failure" -> IF size = 1 THEN "status" ELSE "protocol"
      [] header = "success" -> IF size = Size THEN "result" ELSE "protocol"

HeaderVerdict(header, status, size) ==
    CASE header = "foreign" -> "protocol"
      [] header = "failure" -> IF status # 0 /\ size = 1 THEN "status" ELSE "protocol"
      [] header = "success" -> IF status = 0 /\ size = Size THEN "result" ELSE "protocol"
=============================================================================
