-------------------------- MODULE PreparedSession --------------------------
(***************************************************************************)
(* One NativePreparedSessionAdapter.run: a private workspace and request,  *)
(* one child, bounded capture of its output, the verdict on header and     *)
(* exit status, and the hand-over of the response file and the workspace   *)
(* to the result.                                                          *)
(***************************************************************************)
EXTENDS AdapterCall

Fails(error) == pc' = "finally" /\ outcome' = error

-----------------------------------------------------------------------------
(* Before the child: nothing is launched unless binary and store are         *)
(* authenticated and the request is complete.                                *)

\* The private directory is secured and the binary authenticated while it is
\* copied, from one descriptor; the path is looked at again afterwards.
PreparedSnapshot ==
    /\ pc = "prepare"
    /\ workspace' = "present"
    /\ \/ Go("copyStore") /\ NoFault
       \/ \E error \in {"integrity", "execution"} : Fails(error) /\ Fault
    /\ UNCHANGED <<plan, process, pipes, outDrain, errDrain, timedOut, late, seen, trouble,
                   requestFd, responseFd, owner>>

\* _create_private_file leaves no descriptor behind when it fails (which is also
\* how _finish_request fails).
NoPrivateFile ==
    /\ \E error \in {"integrity", "execution"} : Fails(error)
    /\ Fault

\* The store is authenticated while it is appended to the request, and what the
\* session will cost is admitted before the nonce is drawn.
CopyStore ==
    /\ pc = "copyStore"
    /\ \/ requestFd' = "open" /\ Go("finishRequest") /\ NoFault
       \/ requestFd' = "none" /\ NoPrivateFile
       \/ requestFd' = "open" /\ Fails("integrity") /\ Fault
    /\ UNCHANGED <<plan, process, pipes, outDrain, errDrain, timedOut, late, seen, trouble,
                   responseFd, owner, workspace>>

\* The header is written last and the exact length checked; then the response.
FinishRequest ==
    /\ pc = "finishRequest"
    /\ \/ responseFd' = "open" /\ Go("launch") /\ NoFault
       \/ responseFd' = "none" /\ NoPrivateFile
    /\ UNCHANGED <<plan, process, pipes, outDrain, errDrain, timedOut, late, seen, trouble,
                   requestFd, owner, workspace>>

Launch ==
    /\ pc = "launch"
    /\ \/ /\ child' = "running" /\ outOpen' = TRUE /\ errOpen' = TRUE
          /\ Go("startDrains") /\ NoFault
       \/ Fails("execution") /\ Fault /\ UNCHANGED <<child, outOpen, errOpen>>
    /\ UNCHANGED <<plan, rc, killed, made, errTodo, outPipe, errPipe, outDrain, errDrain,
                   timedOut, late, seen, trouble, resources>>

\* Mutant of StartDrains: a failing start leaves the child alone.
StartDrainsNoKill ==
    /\ pc = "startDrains"
    /\ \/ /\ outPc' = "read" /\ errPc' = "read"
          /\ Go("poll") /\ NoFault
       \/ /\ outPc' \in {"off", "read"} /\ UNCHANGED errPc
          /\ Fails("execution") /\ Fault
    /\ UNCHANGED <<plan, process, pipes, held, total, disk, overflow,
                   outError, errError, timedOut, late, seen, trouble, resources>>

\* thread.start may fail for either thread; the child is killed, not awaited.
StartDrains ==
    /\ pc = "startDrains"
    /\ \/ /\ outPc' = "read" /\ errPc' = "read"
          /\ Go("poll") /\ NoFault /\ UNCHANGED killed
       \/ /\ outPc' \in {"off", "read"} /\ UNCHANGED errPc
          /\ SendKill /\ Fails("execution") /\ Fault
    /\ UNCHANGED <<plan, child, rc, made, errTodo, pipes, held, total, disk, overflow,
                   outError, errError, timedOut, late, seen, trouble, resources>>

-----------------------------------------------------------------------------
(* _execute_bounded: wait for the child, then for the drains.                *)

\* process.wait(1.0); a child that cannot be reaped is abandoned.
Reap ==
    /\ pc = "reap"
    /\ \/ child = "dead" /\ Go("join") /\ UNCHANGED <<killed, late>>
       \/ child = "running" /\ late' = TRUE /\ SendKill /\ Fails("execution")
    /\ UNCHANGED <<plan, child, rc, made, errTodo, pipes, outDrain, errDrain, faults,
                   timedOut, seen, trouble, resources>>

Join == pc = "join" /\ JoinDrains("verdict", "closePipes")

\* The group is killed again and the pipes are closed under the drains; close
\* waits for a read that is under way.
ClosePipes ==
    /\ pc = "closePipes"
    /\ outPc = "read" => held = 0
    /\ outOpen' = FALSE /\ errOpen' = FALSE
    /\ Go("rejoin")
    /\ UNCHANGED <<plan, process, outPipe, errPipe, outDrain, errDrain, faults,
                   timedOut, late, seen, trouble, resources>>

\* After the second join the threads are not looked at again.
Rejoin == pc = "rejoin" /\ JoinDrains("verdict", "verdict")

CaptureVerdict ==
    /\ pc = "verdict"
    /\ \/ timedOut /\ Fails("execution")
       \/ ~timedOut /\ overflow /\ Fails("protocol")
       \/ ~timedOut /\ ~overflow /\ (outError \/ errError) /\ Fails("execution")
       \/ ~timedOut /\ ~DrainTrouble /\ Go("stat")
    /\ UNCHANGED <<pipeVars, timedOut, late, seen, trouble, resources>>

-----------------------------------------------------------------------------
(* _load_result: header and exit status must tell the same story.            *)

Stat ==
    /\ pc = "stat"
    /\ seen' = disk
    /\ \/ disk = 0 /\ rc # 0 /\ Fails("execution") /\ NoFault
       \/ disk = 0 /\ rc = 0 /\ Fails("protocol") /\ NoFault
       \/ disk > 0 /\ Go("check") /\ NoFault
       \/ \E error \in {"execution", "protocol"} : Fails(error) /\ Fault
    /\ UNCHANGED <<plan, process, pipes, outDrain, errDrain, timedOut, late, trouble, resources>>

Check ==
    /\ pc = "check"
    /\ answer' \in Headers
    /\ IF HeaderVerdict(answer', rc, seen) = "result"
       THEN Go("restat") ELSE Fails(HeaderVerdict(answer', rc, seen))
    /\ UNCHANGED <<conforms, process, pipes, outDrain, errDrain, faults,
                   timedOut, late, seen, trouble, resources>>

\* Mutant of Restat: ownership is transferred before the last check.
RestatTransfersEarly ==
    /\ pc = "restat"
    /\ owner' = "result"
    /\ \/ disk = seen /\ Go("handOver") /\ NoFault
       \/ disk # seen /\ Fails("protocol") /\ NoFault
       \/ Fails("execution") /\ Fault
    /\ UNCHANGED <<plan, process, pipes, outDrain, errDrain, timedOut, late, seen, trouble,
                   requestFd, responseFd, workspace>>

\* The file is hashed, then its size and times are compared with the first look.
Restat ==
    /\ pc = "restat"
    /\ \/ disk = seen /\ owner' = "result" /\ Go("handOver") /\ NoFault
       \/ UNCHANGED owner /\ disk # seen /\ Fails("protocol") /\ NoFault
       \/ UNCHANGED owner /\ Fails("execution") /\ Fault
    /\ UNCHANGED <<plan, process, pipes, outDrain, errDrain, timedOut, late, seen, trouble,
                   requestFd, responseFd, workspace>>

\* The response and the workspace now belong to the result.  If the request does
\* not close, the result is dropped and its destructor releases both.
HandOver ==
    /\ pc = "handOver"
    /\ \/ /\ requestFd' = "closed" /\ pc' = "ended" /\ outcome' = "result"
          /\ NoFault /\ UNCHANGED <<responseFd, workspace>>
       \/ /\ requestFd' \in {"open", "closed"}
          /\ responseFd' = "closed" /\ workspace' = "removed"
          /\ Fails("execution") /\ Fault
    /\ UNCHANGED <<plan, process, pipes, outDrain, errDrain, timedOut, late, seen, trouble, owner>>

\* The finally clause: what the adapter still owns.
Finally ==
    /\ pc = "finally"
    /\ requestFd' = IF requestFd = "open" THEN "closed" ELSE requestFd
    /\ responseFd' = IF responseFd = "open" /\ owner = "adapter" THEN "closed" ELSE responseFd
    /\ workspace' = IF owner = "adapter" THEN "removed" ELSE workspace
    /\ Go("ended")
    /\ UNCHANGED <<pipeVars, timedOut, late, seen, trouble, owner>>

\* A KeyboardInterrupt while the child or its file is waited for: only the
\* finally clause runs.
Interrupt ==
    /\ pc \in {"poll", "reap", "join", "rejoin", "stat", "check"}
    /\ Fails("interrupted") /\ Fault
    /\ UNCHANGED <<plan, process, pipes, outDrain, errDrain, timedOut, late, seen, trouble, resources>>

PreparedMain == PreparedSnapshot \/ CopyStore \/ FinishRequest \/ Launch \/ StartDrains
                    \/ Poll \/ Reap \/ Join \/ ClosePipes \/ Rejoin \/ CaptureVerdict \/ Stat \/ Check \/ Restat \/ HandOver
                    \/ Finally
=============================================================================
