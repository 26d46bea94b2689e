---------------------------- MODULE RidgeSession ----------------------------
(***************************************************************************)
(* One NativeRidgeAdapter.solve: a temporary directory, the authenticated  *)
(* snapshot and the request, one child, bounded capture of its output and  *)
(* the verdict on what it answered.  Nothing outlives the call.  A step    *)
(* that raises records the exception in outcome and goes on to what the    *)
(* handlers on its way still do.                                           *)
(***************************************************************************)
EXTENDS AdapterCall

Leaves(how) == pc' = "leave" /\ outcome' = how

\* Everything the drain threads and the child are, left alone.
Others == <<plan, process, pipes, outDrain, errDrain>>

-----------------------------------------------------------------------------
(* Before the child.                                                         *)

\* Shapes, work and sizes are admitted before anything exists; then the private
\* directory is created and secured.
RidgeAdmit ==
    /\ pc = "prepare"
    /\ \/ workspace' = "present" /\ Go("snapshot") /\ NoFault
       \/ workspace' = "none" /\ pc' = "ended" /\ outcome' \in {"input", "execution"} /\ Fault
       \/ workspace' = "present" /\ Leaves("integrity") /\ Fault
    /\ UNCHANGED <<Others, timedOut, late, seen, trouble, requestFd, responseFd, owner>>

\* The binary is authenticated while it is copied, from one descriptor, and the
\* path is looked at again: a copy of anything else is unlinked.
RidgeSnapshot ==
    /\ pc = "snapshot"
    /\ \/ Go("request") /\ NoFault
       \/ Leaves("integrity") /\ Fault
    /\ UNCHANGED <<Others, timedOut, late, seen, trouble, resources>>

\* The request is serialized; a number that is no finite float is the caller's
\* error and leaves the call as it is.
RidgeRequest ==
    /\ pc = "request"
    /\ \/ Go("launch") /\ NoFault
       \/ \E error \in {"integrity", "execution", "input"} : Leaves(error) /\ Fault
    /\ UNCHANGED <<Others, timedOut, late, seen, trouble, resources>>

\* The response file, the request, the buffered duplicate, the child: what fails
\* closes what was opened before it.
RidgeLaunch ==
    /\ pc = "launch"
    /\ \/ /\ child' = "running" /\ outOpen' = TRUE /\ errOpen' = TRUE
          /\ requestFd' = "open" /\ responseFd' = "open"
          /\ Go("startDrains") /\ NoFault
       \/ /\ responseFd' \in {"none", "closed"}
          /\ requestFd' \in {"none", responseFd'}
          /\ Leaves("execution") /\ Fault /\ UNCHANGED <<child, outOpen, errOpen>>
    /\ UNCHANGED <<plan, rc, killed, made, errTodo, outPipe, errPipe, outDrain, errDrain,
                   timedOut, late, seen, trouble, owner, workspace>>

RidgeStartDrains ==
    /\ pc = "startDrains"
    /\ \/ /\ outPc' = "read" /\ errPc' = "read"
          /\ Go("poll") /\ NoFault /\ UNCHANGED killed
       \/ /\ outPc' \in {"off", "read"} /\ UNCHANGED errPc
          /\ SendKill /\ pc' = "startFailed" /\ outcome' = "execution" /\ Fault
    /\ UNCHANGED <<plan, child, rc, made, errTodo, pipes, held, total, disk, overflow,
                   outError, errError, timedOut, late, seen, trouble, resources>>

\* The killed child is waited for, at most one second; the request is closed.
AwaitKilled ==
    /\ pc = "startFailed"
    /\ late' = (late \/ child = "running")
    /\ requestFd' = "closed"
    /\ Go("startClose")
    /\ UNCHANGED <<Others, faults, timedOut, seen, trouble, responseFd, owner, workspace>>

\* os.close(pipe.fileno()) for either pipe, whatever thread is reading it.  The
\* drain that has finished has closed its file, and fileno then raises the
\* ValueError nothing here expects.
CloseAfterFailedStart ==
    /\ pc = "startClose"
    /\ \/ /\ outPc # "done"
          /\ outOpen' = FALSE /\ errOpen' = FALSE /\ Go("startJoin")
       \/ /\ outPc = "done"
          /\ Leaves("unwrapped") /\ UNCHANGED <<outOpen, errOpen>>
    /\ UNCHANGED <<plan, process, outPipe, errPipe, outDrain, errDrain, faults,
                   timedOut, late, seen, trouble, resources>>

JoinStarted ==
    /\ pc = "startJoin"
    /\ late' = (late \/ outPc \notin {"off", "done"})
    /\ responseFd' = "closed"
    /\ Leaves(outcome)
    /\ UNCHANGED <<Others, faults, timedOut, seen, trouble, requestFd, owner, workspace>>

-----------------------------------------------------------------------------
(* _execute_bounded: wait for the child, then for the drains.                *)

\* loop_error: whatever interrupts the waiting kills the child first.
InterruptWait ==
    /\ pc \in {"poll", "reap"}
    /\ Fault /\ SendKill /\ pc' = "join" /\ outcome' = "interrupted"
    /\ UNCHANGED <<plan, child, rc, made, errTodo, pipes, outDrain, errDrain,
                   timedOut, late, seen, trouble, resources>>

\* wait_failed is an error whatever the second wait finds.
RidgeReap ==
    /\ pc = "reap"
    /\ pc' = "join"
    /\ \/ child = "dead" /\ UNCHANGED <<outcome, killed, late>>
       \/ child = "running" /\ late' = TRUE /\ SendKill /\ outcome' = "execution"
    /\ UNCHANGED <<plan, child, rc, made, errTodo, pipes, outDrain, errDrain, faults,
                   timedOut, seen, trouble, resources>>

\* The consumed request is closed, which may fail, before the drains are joined.
RidgeJoin ==
    /\ pc = "join"
    /\ requestFd' = "closed"
    /\ \/ NoFault /\ UNCHANGED trouble
       \/ Fault /\ outcome # "interrupted" /\ trouble' = "failed"
    /\ \/ Drained /\ Go("verdict") /\ UNCHANGED late
       \/ ~Drained /\ Go("closePipes") /\ late' = TRUE
    /\ UNCHANGED <<Others, timedOut, seen, responseFd, owner, workspace>>

\* The pipes are closed by number, stdout first; the drain that has finished makes
\* this fail before the other pipe is closed or its thread joined again.
RidgeClosePipes ==
    /\ pc = "closePipes"
    /\ outOpen' = FALSE /\ errOpen' = (errOpen /\ outPc = "done")
    /\ \/ "done" \notin {outPc, errPc} /\ Go("rejoin") /\ UNCHANGED trouble
       \/ "done" \in {outPc, errPc} /\ Go("verdict") /\ trouble' = "failed"
    /\ SendKill
    /\ UNCHANGED <<plan, child, rc, made, errTodo, outPipe, errPipe, outDrain, errDrain,
                   faults, timedOut, late, seen, resources>>

\* A drain that outlives this join as well is an error.
RidgeRejoin ==
    /\ pc = "rejoin"
    /\ late' = (late \/ ~Drained)
    /\ trouble' = IF Drained THEN trouble ELSE "failed"
    /\ Go("verdict")
    /\ UNCHANGED <<pipeVars, timedOut, seen, resources>>

\* An interrupt while the drains are joined ends the joining only.
InterruptJoin ==
    /\ pc \in {"join", "closePipes", "rejoin"}
    /\ Fault /\ Go("verdict") /\ trouble' = "interrupted"
    /\ requestFd' = "closed"
    /\ UNCHANGED <<Others, timedOut, late, seen, responseFd, owner, workspace>>

\* The first complaint, in the order of the code, or "none".
Complaint(cleanup) ==
    IF outcome = "interrupted" THEN "interrupted"
    ELSE IF outcome = "execution" \/ timedOut THEN "execution"
    ELSE IF overflow THEN "protocol"
    ELSE IF cleanup = "interrupted" THEN "interrupted"
    ELSE IF cleanup = "failed" \/ outError \/ errError THEN "execution"
    ELSE "none"

\* The response stream is closed, which may fail too, and the descriptor under it
\* stays open for the reading only.
RidgeVerdict ==
    /\ pc = "verdict"
    /\ \E cleanup \in {trouble, "failed"} :
        /\ IF cleanup = trouble THEN NoFault ELSE trouble = "none" /\ Fault
        /\ \/ Complaint(cleanup) = "none" /\ Go("stat") /\ UNCHANGED responseFd
           \/ /\ Complaint(cleanup) # "none" /\ Leaves(Complaint(cleanup))
              /\ responseFd' = "closed"
    /\ UNCHANGED <<plan, process, pipes, outDrain, errDrain, timedOut, late, seen, trouble,
                   requestFd, owner, workspace>>

-----------------------------------------------------------------------------
(* _read_response, and the finally clause around it.                         *)

Closing(how) == Leaves(how) /\ responseFd' = "closed"

RidgeStat ==
    /\ pc = "stat"
    /\ seen' = disk
    /\ \/ disk > 0 /\ Go("check") /\ NoFault /\ UNCHANGED responseFd
       \/ disk = 0 /\ Closing("protocol") /\ NoFault
       \/ Closing("protocol") /\ Fault
    /\ UNCHANGED <<Others, timedOut, late, trouble, requestFd, owner, workspace>>

\* A structured failure is deferred: it too is raised only for a stable file.
RidgeCheck ==
    /\ pc = "check"
    /\ answer' \in Headers
    /\ \/ /\ HeaderVerdict(answer', rc, seen) # "protocol"
          /\ Go("restat") /\ UNCHANGED responseFd
       \/ HeaderVerdict(answer', rc, seen) = "protocol" /\ Closing("protocol")
    /\ UNCHANGED <<conforms, process, pipes, outDrain, errDrain, faults,
                   timedOut, late, seen, trouble, requestFd, owner, workspace>>

\* The coefficients may still not be finite, and closing the descriptor may spoil
\* a success; it does not replace an error.
RidgeRestat ==
    /\ pc = "restat"
    /\ \/ disk = seen /\ Closing(HeaderVerdict(answer, rc, seen)) /\ NoFault
       \/ /\ disk # seen \/ (~conforms /\ answer = "success")
          /\ Closing("protocol") /\ NoFault
       \/ Closing("protocol") /\ Fault
    /\ UNCHANGED <<Others, timedOut, late, seen, trouble, requestFd, owner, workspace>>

InterruptRead ==
    /\ pc \in {"stat", "check", "restat"}
    /\ Closing("interrupted") /\ Fault
    /\ UNCHANGED <<Others, timedOut, late, seen, trouble, requestFd, owner, workspace>>

\* TemporaryDirectory removes the workspace; a failure to do so takes the place of
\* whatever the call was about to end with.
Leave ==
    /\ pc = "leave"
    /\ pc' = "ended"
    /\ \/ workspace' = "removed" /\ UNCHANGED outcome /\ NoFault
       \/ UNCHANGED workspace /\ outcome' = "execution" /\ Fault
    /\ UNCHANGED <<Others, timedOut, late, seen, trouble, requestFd, responseFd, owner>>

RidgeMain == RidgeAdmit \/ RidgeSnapshot \/ RidgeRequest \/ RidgeLaunch \/ RidgeStartDrains
                 \/ AwaitKilled \/ CloseAfterFailedStart \/ JoinStarted \/ Poll \/ RidgeReap
                 \/ RidgeJoin \/ RidgeClosePipes \/ RidgeRejoin \/ RidgeVerdict
                 \/ RidgeStat \/ RidgeCheck \/ RidgeRestat \/ Leave

RidgeInterrupt == InterruptWait \/ InterruptJoin \/ InterruptRead
=============================================================================
