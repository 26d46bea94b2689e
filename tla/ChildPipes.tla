----------------------------- MODULE ChildPipes -----------------------------
(***************************************************************************)
(* A sidecar process, its two output pipes and the two threads that drain  *)
(* them: the part the native adapters share.  The process writes blocks of *)
(* a binary answer to stdout and diagnostics to stderr and exits; SIGKILL  *)
(* ends it some time after it was sent.  The stdout drain copies at most   *)
(* Size blocks to the response file and flags anything beyond; the stderr  *)
(* drain keeps a bounded text.  Data is counted in blocks: one block is    *)
(* the header of the answer, Size blocks are the exact successful answer.  *)
(***************************************************************************)
EXTENDS Integers

CONSTANTS Size,      \* blocks of the expected successful answer: response_limit
          MaxMade,   \* bound on the blocks a child writes to stdout
          MaxErr,    \* blocks a talkative conforming child writes to stderr
          PipeCap,   \* capacity of a pipe
          Chunk,     \* blocks one read of the stdout drain collects
          MaxFaults  \* bound on failing calls, interrupts and crashes

ASSUME AnswerAssumption == Size \in Nat /\ Size > 1
ASSUME ChildAssumption  == MaxMade \in Nat /\ MaxMade >= Size /\ MaxErr \in Nat \ {0}
ASSUME PipeAssumption   == PipeCap \in Nat \ {0} /\ Chunk \in Nat \ {0}
ASSUME FaultAssumption  == MaxFaults \in Nat

VARIABLES
    answer,    \* what the header announces: "success", "failure" or "foreign";
               \* "unread" leaves it open until the adapter looks
    conforms,  \* the child follows the session protocol to the letter
    child,     \* "unborn", "running" or "dead"
    rc,        \* its exit status: 0, 1, or 2 for death by a signal
    killed,    \* SIGKILL was sent to its process group
    made,      \* blocks written to stdout
    errTodo,   \* blocks still to be written to stderr
    outPipe,   \* blocks in the stdout pipe
    errPipe,   \* blocks in the stderr pipe
    outOpen,   \* this process holds the read end of the stdout pipe
    errOpen,   \* and that of the stderr pipe
    outPc,     \* the stdout drain: "off", "read", "write", "flush" or "done"
    held,      \* blocks its current read has collected
    total,     \* blocks it has seen
    disk,      \* blocks in the response file
    overflow,  \* stdout_overflow
    outError,  \* stdout_drain.error is set
    errPc,     \* the stderr drain: "off", "read" or "done"
    errError,  \* stderr_drain.error is set
    faults     \* failures injected so far

plan     == <<answer, conforms>>
process  == <<child, rc, killed, made, errTodo>>
outDrain == <<outPc, held, total, disk, overflow, outError>>
errDrain == <<errPc, errError>>
pipes    == <<outPipe, errPipe, outOpen, errOpen>>
pipeVars == <<plan, process, pipes, outDrain, errDrain, faults>>

PipesTypeOK ==
    /\ answer \in {"success", "failure", "foreign", "unread"} /\ conforms \in BOOLEAN
    /\ child \in {"unborn", "running", "dead"} /\ rc \in 0 .. 2 /\ killed \in BOOLEAN
    /\ made \in 0 .. MaxMade /\ errTodo \in 0 .. MaxErr
    /\ outPipe \in 0 .. PipeCap /\ errPipe \in 0 .. PipeCap
    /\ outOpen \in BOOLEAN /\ errOpen \in BOOLEAN
    /\ outPc \in {"off", "read", "write", "flush", "done"}
    /\ held \in 0 .. Chunk /\ total \in 0 .. MaxMade /\ disk \in 0 .. Size
    /\ overflow \in BOOLEAN /\ outError \in BOOLEAN
    /\ errPc \in {"off", "read", "done"} /\ errError \in BOOLEAN
    /\ faults \in 0 .. MaxFaults

PipesInit ==
    /\ conforms \in BOOLEAN
    /\ answer \in IF conforms THEN {"success", "failure"} ELSE {"unread"}
    /\ child = "unborn" /\ rc = 0 /\ killed = FALSE /\ made = 0
    /\ errTodo \in IF conforms THEN {0, MaxErr} ELSE {1}
    /\ outPipe = 0 /\ errPipe = 0 /\ outOpen = FALSE /\ errOpen = FALSE
    /\ outPc = "off" /\ held = 0 /\ total = 0 /\ disk = 0
    /\ overflow = FALSE /\ outError = FALSE
    /\ errPc = "off" /\ errError = FALSE
    /\ faults = 0

Fault   == faults < MaxFaults /\ faults' = faults + 1
NoFault == UNCHANGED faults

-----------------------------------------------------------------------------
(* The child. *)

\* What the adapter may find in the header of a response.
Headers == IF conforms THEN {answer} ELSE {"success", "failure", "foreign"}

Whole == IF answer = "success" THEN Size ELSE 1

ChildWritesOut ==
    /\ child = "running" /\ outOpen /\ outPipe < PipeCap
    /\ made < IF conforms THEN Whole ELSE MaxMade
    /\ made' = made + 1 /\ outPipe' = outPipe + 1
    /\ UNCHANGED <<plan, child, rc, killed, errTodo, errPipe, outOpen, errOpen,
                   outDrain, errDrain, faults>>

ChildWritesErr ==
    /\ child = "running" /\ errOpen /\ errPipe < PipeCap
    /\ errTodo > 0
    /\ errTodo' = errTodo - 1 /\ errPipe' = errPipe + 1
    /\ UNCHANGED <<plan, child, rc, killed, made, outPipe, outOpen, errOpen,
                   outDrain, errDrain, faults>>

Dies(status) ==
    /\ child = "running"
    /\ child' = "dead" /\ rc' = status
    /\ UNCHANGED <<plan, killed, made, errTodo, pipes, outDrain, errDrain>>

\* A conforming child exits with 0 exactly after a whole successful answer.
ChildExits ==
    /\ \E status \in {0, 1} :
        /\ conforms => /\ made = Whole /\ errTodo = 0
                       /\ status = IF answer = "success" THEN 0 ELSE 1
        /\ Dies(status)
    /\ NoFault

\* It writes to a pipe nobody reads any more.
ChildBreaks ==
    /\ (~outOpen /\ made < MaxMade) \/ (~errOpen /\ errTodo > 0)
    /\ \E status \in {1, 2} : Dies(status)
    /\ NoFault

ChildCrashes == Fault /\ Dies(2)

SignalArrives == killed /\ Dies(2) /\ NoFault

Child == ChildWritesOut \/ ChildWritesErr \/ ChildExits \/ ChildBreaks

-----------------------------------------------------------------------------
(* The drain threads: _PipeDrain.run. *)

\* A read returns once the chunk is full or no writer is left.
Eof(pipe) == child = "dead" /\ pipe = 0

\* Mutant of Capped: the drain stores whatever arrives.
CappedNever(blocks) == blocks

\* accepted = chunk[: max(0, limit - total)]
Capped(blocks) == IF blocks > Size THEN Size ELSE blocks

OutFill ==
    /\ outPc = "read" /\ outOpen /\ outPipe > 0 /\ held < Chunk
    /\ outPipe' = outPipe - 1 /\ held' = held + 1
    /\ UNCHANGED <<plan, process, errPipe, outOpen, errOpen,
                   outPc, total, disk, overflow, outError, errDrain, faults>>

OutChunk ==
    /\ outPc = "read" /\ held > 0
    /\ held = Chunk \/ Eof(outPipe)
    /\ outPc' = "write"
    /\ UNCHANGED <<plan, process, pipes, held, total, disk, overflow, outError,
                   errDrain, faults>>

\* The thread ends and closes its pipe; an error is kept for the main thread.
OutEnds(error) ==
    /\ outPc' = "done" /\ outOpen' = FALSE
    /\ outError' = error

\* The response stream is buffered: the file may lag behind what was written.
\* The count and the overflow flag follow the write at once; in the code the
\* main thread may look in between, as it may before the write.
OutWrite ==
    /\ outPc = "write"
    /\ disk' \in disk .. Capped(total + held)
    /\ held' = 0
    /\ \/ /\ total' = total + held /\ overflow' = (overflow \/ total + held > Size)
          /\ outPc' = "read" /\ NoFault /\ UNCHANGED <<outOpen, outError>>
       \/ Fault /\ OutEnds(TRUE) /\ UNCHANGED <<total, overflow>>
    /\ UNCHANGED <<plan, process, outPipe, errPipe, errOpen, errDrain>>

OutEof ==
    /\ outPc = "read" /\ outOpen /\ held = 0 /\ Eof(outPipe)
    /\ outPc' = "flush"
    /\ UNCHANGED <<plan, process, pipes, held, total, disk, overflow, outError,
                   errDrain, faults>>

OutFlush ==
    /\ outPc = "flush"
    /\ \/ disk' = Capped(total) /\ OutEnds(outError) /\ NoFault
       \/ disk' \in disk .. Capped(total) /\ OutEnds(TRUE) /\ Fault
    /\ UNCHANGED <<plan, process, outPipe, errPipe, errOpen, held, total, overflow, errDrain>>

\* Mutant of OutReadEnds: closing the pipe does not end the thread.
OutReadEndsNever == FALSE

\* A read of a pipe the main thread has closed fails, with what it had collected.
OutReadEnds ==
    /\ outPc = "read" /\ ~outOpen /\ held' = 0
    /\ OutEnds(TRUE)
    /\ UNCHANGED <<plan, process, outPipe, errPipe, errOpen, total, disk, overflow,
                   errDrain, faults>>

\* A failing read.
OutReadFails ==
    /\ outPc = "read" /\ outOpen /\ Fault
    /\ OutEnds(TRUE) /\ held' = 0
    /\ UNCHANGED <<plan, process, outPipe, errPipe, errOpen, total, disk, overflow, errDrain>>

\* Mutant of ErrRead: stderr is read when stdout is finished.
ErrReadAfterOut ==
    /\ errPc = "read" /\ errOpen /\ errPipe > 0 /\ outPc = "done"
    /\ errPipe' = errPipe - 1
    /\ UNCHANGED <<plan, process, outPipe, outOpen, errOpen, outDrain, errDrain, faults>>

\* The stderr drain keeps the first bytes and reads on: an overflow stops nothing.
ErrRead ==
    /\ errPc = "read" /\ errOpen /\ errPipe > 0
    /\ errPipe' = errPipe - 1
    /\ UNCHANGED <<plan, process, outPipe, outOpen, errOpen, outDrain, errDrain, faults>>

ErrEnds ==
    /\ errPc = "read"
    /\ \/ errOpen /\ Eof(errPipe) /\ UNCHANGED errError
       \/ ~errOpen /\ errError' = TRUE
    /\ errPc' = "done" /\ errOpen' = FALSE
    /\ UNCHANGED <<plan, process, outPipe, errPipe, outOpen, outDrain, faults>>

ErrReadFails ==
    /\ errPc = "read" /\ errOpen /\ Fault
    /\ errPc' = "done" /\ errOpen' = FALSE /\ errError' = TRUE
    /\ UNCHANGED <<plan, process, outPipe, errPipe, outOpen, outDrain>>

\* What the threads go on doing by themselves.
OutStep == OutFill \/ OutChunk \/ OutWrite \/ OutEof \/ OutFlush \/ OutReadEnds
ErrStep == ErrRead \/ ErrEnds
DrainFails == OutReadFails \/ ErrReadFails

Drained == outPc = "done" /\ errPc = "done"
=============================================================================
