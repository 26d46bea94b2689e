--------------------------- MODULE NativeSessions ---------------------------
(***************************************************************************)
(* One call of either native adapter, beside its child and the two drain   *)
(* threads: the prepared session hands its response over to a result, the  *)
(* dense ridge solver leaves nothing behind.                               *)
(***************************************************************************)
EXTENDS PreparedSession, RidgeSession

Init == CallInit /\ adapter \in {"prepared", "ridge"}

Errors == {"integrity", "execution", "protocol", "status", "input", "interrupted", "unwrapped"}

TypeOK ==
    /\ PipesTypeOK
    /\ adapter \in {"prepared", "ridge"}
    /\ pc \in {"prepare", "snapshot", "request", "copyStore", "finishRequest", "launch",
               "startDrains", "startFailed", "startClose", "startJoin",
               "poll", "reap", "join", "closePipes", "rejoin", "verdict",
               "stat", "check", "restat", "handOver", "finally", "leave", "ended"}
    /\ outcome \in {"none", "result"} \cup Errors
    /\ timedOut \in BOOLEAN /\ late \in BOOLEAN
    /\ seen \in 0 .. Size
    /\ trouble \in {"none", "failed", "interrupted"}
    /\ requestFd \in {"none", "open", "closed"} /\ responseFd \in {"none", "open", "closed"}
    /\ owner \in {"adapter", "result"} /\ workspace \in {"none", "present", "removed"}

Ended == pc = "ended" /\ UNCHANGED vars

Main ==
    /\ UNCHANGED adapter
    /\ \/ adapter = "prepared" /\ PreparedMain
       \/ adapter = "ridge" /\ RidgeMain

Interrupted ==
    /\ UNCHANGED adapter
    /\ \/ adapter = "prepared" /\ Interrupt
       \/ adapter = "ridge" /\ RidgeInterrupt

Expires == Deadline /\ UNCHANGED adapter

Beside(step) == step /\ UNCHANGED <<adapter, call, resources>>

Next ==
    \/ Main
    \/ Expires
    \/ Interrupted
    \/ Ended
    \/ Beside(Child \/ ChildCrashes \/ SignalArrives \/ DrainFails)
    \/ Beside(OutStep)
    \/ Beside(ErrStep)

\* The threads of this process run on and SIGKILL arrives; a conforming child
\* computes a bounded job.  The deadline is not assumed to pass.
Spec == Init /\ [][Next]_vars
FairSpec ==
    /\ Spec
    /\ WF_vars(Main)
    /\ WF_vars(Beside(OutStep))
    /\ WF_vars(Beside(ErrStep))
    /\ WF_vars(Beside(SignalArrives))
    /\ WF_vars(conforms /\ Beside(ChildWritesOut \/ ChildExits \/ ChildBreaks))
    /\ WF_vars(conforms /\ Beside(ChildWritesErr))

-----------------------------------------------------------------------------
(* Properties. *)

\* A result is returned only for a dead child that announced success, exited
\* with 0 and left exactly the expected file; a structured failure only for one
\* that announced it and exited otherwise.  Neither is ever taken from a child
\* the deadline had given up.  The ridge adapter never truncates an answer.
AnswersMatchChild ==
    /\ outcome \in {"result", "status"} => child = "dead" /\ ~timedOut
    /\ outcome = "result" => answer = "success" /\ rc = 0 /\ disk = Size /\ made >= Size
    /\ outcome = "result" /\ adapter = "ridge" => made = Size /\ Drained
    /\ outcome = "status" => answer = "failure" /\ rc # 0 /\ disk > 0

\* However a call ends, its child has ended or was sent SIGKILL: the launch, the
\* drains and the reaping may all go wrong.  Only an interrupt of the prepared
\* adapter leaves the child to itself.
ChildNeverOrphaned ==
    pc = "ended" /\ (adapter = "prepared" => outcome # "interrupted")
        => child # "running" \/ killed

\* What the prepared adapter opened survives the call exactly when a result that
\* owns it is returned; what the ridge adapter opened never does, except for a
\* workspace that could not be removed and the response descriptor of a drain
\* start that failed as nothing there expects, which the failing removal may hide.
HandOverIsExact ==
    pc = "ended" =>
        /\ requestFd # "open"
        /\ adapter = "prepared" => /\ responseFd = "open" <=> outcome = "result"
                                   /\ workspace = "present" <=> outcome = "result"
        /\ adapter = "ridge" =>
              /\ responseFd = "open" => \/ outcome = "unwrapped"
                                        \/ outcome = "execution" /\ workspace = "present"
              /\ workspace = "present" => outcome = "execution"

\* A drain thread that outlived both joins cannot change the file of a result
\* that was already returned.
AcceptedNeverChanges == [][outcome = "result" => disk' = disk]_vars

\* An answer longer than the admitted size is rejected, as the protocol's trust
\* boundary says of overlong streams and bounded-output overflow.
OverlongIsRejected == outcome = "result" => made = Size

\* Whatever fails while the drain threads are started is reported as an error of
\* this adapter: every expected filesystem call it owns is wrapped close to its
\* trust boundary, says the comment in NativeRidgeAdapter.solve.
FailureIsWrapped == outcome # "unwrapped"

\* A hung child, a stuck pipe or a slow drain delay a call by its limits only.
EventuallyAnswers == WF_vars(Expires) => <>(pc = "ended")

\* With nothing failing and no wait expiring, a conforming child is heard to the
\* end, whatever it writes to stderr meanwhile, and reported for what it said.
Due == IF answer = "success" THEN "result" ELSE "status"
Delivers == conforms /\ [](~late /\ faults = 0) => <>(pc = "ended" /\ outcome = Due)

\* The daemon threads do not outlive their child for ever: neither a pipe left
\* open nor an interrupted call keeps them, if only a child nobody killed is one
\* that ends by itself.
DrainsFinish ==
    pc = "ended" /\ (adapter = "prepared" /\ outcome = "interrupted" => conforms)
        ~> outPc \in {"off", "done"} /\ errPc \in {"off", "done"}
=============================================================================
