------------------------ MODULE NativeSessionsProofs ------------------------
(***************************************************************************)
(* The safety properties of NativeSessions, for every size of an answer,   *)
(* of the pipes and of the reads, and for any number of failures.  The     *)
(* inductive invariant has a part for the drains, one for the child, and   *)
(* one table of the main thread's program counter for either adapter.      *)
(***************************************************************************)
EXTENDS NativeSessions, TLAPS

-----------------------------------------------------------------------------
(* The inductive invariant. *)

\* What was seen, is held and is in the pipe is what was written, unless the
\* drain gave up.
Conserved ==
    /\ total + held + outPipe <= made
    /\ ~outError => total + held + outPipe = made

\* The file never runs ahead of what was seen, and never beyond the limit.
Bounded ==
    /\ disk <= made
    /\ outPc # "done" => disk <= Capped(total)
    /\ ~overflow => total <= Size

\* A drain that has come to the end of the stream has the whole of it.
Finished ==
    /\ outPc \in {"flush", "done"} /\ ~outError =>
          held = 0 /\ outPipe = 0 /\ child = "dead"
    /\ outPc = "done" /\ ~outError => disk = Capped(total)

DrainInv == Conserved /\ Bounded /\ Finished

\* The child is out of the way, or about to be.
Settled == child # "running" \/ killed

\* Where the main thread is before there is a child, and after it was reaped.
Before == {"prepare", "snapshot", "request", "copyStore", "finishRequest", "launch"}
Joining == {"join", "closePipes", "rejoin", "verdict"}
Reading == {"stat", "check", "restat"}
Waiting == {"startDrains", "poll", "reap"}

\* An answer or a structured failure that is on its way out.
Accepted ==
    /\ outcome = "result" => /\ child = "dead" /\ ~timedOut /\ answer = "success" /\ rc = 0
                             /\ disk = Size
                             /\ adapter = "ridge" => made = Size /\ Drained
    /\ outcome = "status" => /\ child = "dead" /\ ~timedOut /\ answer = "failure" /\ rc # 0
                             /\ disk > 0
    /\ outcome \in {"result", "status", "unwrapped"} => pc \in {"finally", "leave", "ended"}

\* A conforming child's header is known beforehand.
Announced == conforms => answer \in {"success", "failure"}

\* The drains are threads of this call.
NotStarted == pc \in Before \cup {"startDrains"} => outPc = "off"

PreparedControl ==
    /\ pc \in (Before \ {"snapshot", "request"}) \cup Waiting \cup Joining \cup Reading
                  \cup {"handOver", "finally", "ended"}
    /\ outcome = "none" <=> pc \notin {"finally", "ended"}
    /\ pc \in Before => child = "unborn"
    /\ pc \in Joining \cup Reading \cup {"handOver"} => child = "dead"
    /\ pc \in {"finally", "ended"} /\ outcome # "interrupted" => Settled
    /\ pc \in Reading \cup {"handOver"} => ~timedOut
    /\ pc \in {"restat", "handOver"} => answer = "success" /\ rc = 0 /\ seen = Size
    /\ pc = "handOver" => disk = Size

PreparedResources ==
    /\ pc = "prepare" => workspace = "none"
    /\ pc \in {"prepare", "copyStore"} => requestFd = "none"
    /\ pc \in Before \cup Waiting \cup Joining \cup Reading => owner = "adapter"
    /\ pc \notin {"prepare", "finally", "ended"} => workspace = "present"
    /\ pc \in Waiting \cup Joining \cup Reading \cup {"launch", "handOver"} =>
          responseFd = "open"
    /\ pc = "finally" => /\ outcome # "result"
                         /\ owner = "result" => responseFd # "open" /\ workspace # "present"
    /\ pc = "ended" => /\ requestFd # "open"
                       /\ responseFd = "open" <=> outcome = "result"
                       /\ workspace = "present" <=> outcome = "result"

RidgeControl ==
    /\ pc \in (Before \ {"copyStore", "finishRequest"}) \cup Waiting \cup Joining \cup Reading
                  \cup {"startFailed", "startClose", "startJoin", "leave", "ended"}
    /\ pc \in Before \cup Waiting \cup Reading => outcome = "none"
    /\ pc \in Before => child = "unborn"
    /\ pc \notin Before \cup Waiting => Settled
    /\ pc \in {"startFailed", "startClose", "startJoin"} => outcome = "execution"
    /\ pc \in Joining => /\ outcome \in {"none", "interrupted", "execution"}
                         /\ outcome = "none" => child = "dead"
    /\ pc = "verdict" /\ outcome = "none" /\ trouble = "none" => Drained
    /\ pc \in Reading => child = "dead" /\ ~timedOut /\ Drained /\ ~overflow /\ ~outError
    /\ pc = "restat" => \/ answer = "success" /\ rc = 0 /\ seen = Size
                        \/ answer = "failure" /\ rc # 0 /\ seen = 1

RidgeResources ==
    /\ pc \notin {"prepare", "ended"} => workspace = "present"
    /\ pc \in Before => requestFd = "none" /\ responseFd = "none"
    /\ pc \in Waiting \cup Joining \cup Reading \cup {"startFailed", "startClose"} =>
          responseFd = "open"
    /\ pc \notin Before \cup Waiting \cup {"startFailed", "join"} => requestFd # "open"
    /\ pc \in {"leave", "ended"} /\ responseFd = "open" =>
          \/ outcome = "unwrapped"
          \/ pc = "ended" /\ outcome = "execution" /\ workspace = "present"
    /\ pc = "ended" /\ workspace = "present" => outcome = "execution"

IInv ==
    /\ TypeOK
    /\ DrainInv
    /\ seen <= disk
    /\ Accepted
    /\ NotStarted
    /\ Announced
    /\ adapter = "prepared" => PreparedControl /\ PreparedResources
    /\ adapter = "ridge" => RidgeControl /\ RidgeResources

-----------------------------------------------------------------------------
(* The child and the drains, beside the main thread. *)

\* What the main thread may rely on whatever the child and the drains do.
Beneath ==
    /\ child = "dead" => child' = "dead" /\ rc' = rc /\ made' = made
    /\ child = "unborn" => child' = "unborn"
    /\ UNCHANGED <<killed, answer, conforms>>
    /\ disk <= disk'
    /\ Drained => Drained' /\ overflow' = overflow /\ outError' = outError
    /\ outPc = "off" => outPc' = "off"

LEMMA CappedBounds ==
    ASSUME NEW n \in Nat
    PROVE  /\ Capped(n) \in Nat /\ Capped(n) <= n /\ Capped(n) <= Size
           /\ n <= Size => Capped(n) = n
           /\ \A m \in Nat : n <= m => Capped(n) <= Capped(m)
BY AnswerAssumption DEF Capped

LEMMA ChildStep ==
    ASSUME PipesTypeOK, DrainInv, Child \/ ChildCrashes \/ SignalArrives
    PROVE  PipesTypeOK' /\ DrainInv' /\ Beneath
<1> USE DEF plan, process, outDrain, errDrain, pipes, NoFault, Fault
<1>1. CASE ChildWritesOut
  <2> USE <1>1 DEF ChildWritesOut, Whole
  <2>1. PipesTypeOK'
    BY AnswerAssumption, ChildAssumption, PipeAssumption, FaultAssumption, CappedBounds
       DEF PipesTypeOK, Conserved, DrainInv
  <2>2. Conserved'
    BY DEF PipesTypeOK, DrainInv, Conserved
  <2>3. Bounded'
    BY CappedBounds DEF PipesTypeOK, DrainInv, Conserved, Bounded
  <2>4. Finished'
    BY DEF PipesTypeOK, DrainInv, Finished
  <2>5. Beneath
    BY CappedBounds DEF PipesTypeOK, DrainInv, Bounded, Beneath, Drained
  <2>6. QED
    BY <2>1, <2>2, <2>3, <2>4, <2>5 DEF DrainInv
<1>2. CASE ChildWritesErr
  <2> USE <1>2 DEF ChildWritesErr
  <2>1. PipesTypeOK'
    BY AnswerAssumption, ChildAssumption, PipeAssumption, FaultAssumption, CappedBounds
       DEF PipesTypeOK, Conserved, DrainInv
  <2>2. Conserved'
    BY DEF PipesTypeOK, DrainInv, Conserved
  <2>3. Bounded'
    BY CappedBounds DEF PipesTypeOK, DrainInv, Conserved, Bounded
  <2>4. Finished'
    BY DEF PipesTypeOK, DrainInv, Finished
  <2>5. Beneath
    BY CappedBounds DEF PipesTypeOK, DrainInv, Bounded, Beneath, Drained
  <2>6. QED
    BY <2>1, <2>2, <2>3, <2>4, <2>5 DEF DrainInv
<1>3. CASE ChildExits
  <2> USE <1>3 DEF ChildExits, Dies
  <2>1. PipesTypeOK'
    BY AnswerAssumption, ChildAssumption, PipeAssumption, FaultAssumption, CappedBounds
       DEF PipesTypeOK, Conserved, DrainInv
  <2>2. Conserved'
    BY DEF PipesTypeOK, DrainInv, Conserved
  <2>3. Bounded'
    BY CappedBounds DEF PipesTypeOK, DrainInv, Conserved, Bounded
  <2>4. Finished'
    BY DEF PipesTypeOK, DrainInv, Finished
  <2>5. Beneath
    BY CappedBounds DEF PipesTypeOK, DrainInv, Bounded, Beneath, Drained
  <2>6. QED
    BY <2>1, <2>2, <2>3, <2>4, <2>5 DEF DrainInv
<1>4. CASE ChildBreaks
  <2> USE <1>4 DEF ChildBreaks, Dies
  <2>1. PipesTypeOK'
    BY AnswerAssumption, ChildAssumption, PipeAssumption, FaultAssumption, CappedBounds
       DEF PipesTypeOK, Conserved, DrainInv
  <2>2. Conserved'
    BY DEF PipesTypeOK, DrainInv, Conserved
  <2>3. Bounded'
    BY CappedBounds DEF PipesTypeOK, DrainInv, Conserved, Bounded
  <2>4. Finished'
    BY DEF PipesTypeOK, DrainInv, Finished
  <2>5. Beneath
    BY CappedBounds DEF PipesTypeOK, DrainInv, Bounded, Beneath, Drained
  <2>6. QED
    BY <2>1, <2>2, <2>3, <2>4, <2>5 DEF DrainInv
<1>5. CASE ChildCrashes
  <2> USE <1>5 DEF ChildCrashes, Dies
  <2>1. PipesTypeOK'
    BY AnswerAssumption, ChildAssumption, PipeAssumption, FaultAssumption, CappedBounds
       DEF PipesTypeOK, Conserved, DrainInv
  <2>2. Conserved'
    BY DEF PipesTypeOK, DrainInv, Conserved
  <2>3. Bounded'
    BY CappedBounds DEF PipesTypeOK, DrainInv, Conserved, Bounded
  <2>4. Finished'
    BY DEF PipesTypeOK, DrainInv, Finished
  <2>5. Beneath
    BY CappedBounds DEF PipesTypeOK, DrainInv, Bounded, Beneath, Drained
  <2>6. QED
    BY <2>1, <2>2, <2>3, <2>4, <2>5 DEF DrainInv
<1>6. CASE SignalArrives
  <2> USE <1>6 DEF SignalArrives, Dies
  <2>1. PipesTypeOK'
    BY AnswerAssumption, ChildAssumption, PipeAssumption, FaultAssumption, CappedBounds
       DEF PipesTypeOK, Conserved, DrainInv
  <2>2. Conserved'
    BY DEF PipesTypeOK, DrainInv, Conserved
  <2>3. Bounded'
    BY CappedBounds DEF PipesTypeOK, DrainInv, Conserved, Bounded
  <2>4. Finished'
    BY DEF PipesTypeOK, DrainInv, Finished
  <2>5. Beneath
    BY CappedBounds DEF PipesTypeOK, DrainInv, Bounded, Beneath, Drained
  <2>6. QED
    BY <2>1, <2>2, <2>3, <2>4, <2>5 DEF DrainInv
<1>7. QED
  BY <1>1, <1>2, <1>3, <1>4, <1>5, <1>6 DEF Child

LEMMA OutDrainStep ==
    ASSUME PipesTypeOK, DrainInv, OutStep \/ OutReadFails
    PROVE  PipesTypeOK' /\ DrainInv' /\ Beneath
<1> USE DEF plan, process, outDrain, errDrain, pipes, NoFault, Fault
<1>1. CASE OutFill
  <2> USE <1>1 DEF OutFill
  <2>1. PipesTypeOK'
    BY AnswerAssumption, ChildAssumption, PipeAssumption, FaultAssumption, CappedBounds
       DEF PipesTypeOK, Conserved, DrainInv
  <2>2. Conserved'
    BY DEF PipesTypeOK, DrainInv, Conserved
  <2>3. Bounded'
    BY CappedBounds DEF PipesTypeOK, DrainInv, Conserved, Bounded
  <2>4. Finished'
    BY DEF PipesTypeOK, DrainInv, Finished
  <2>5. Beneath
    BY CappedBounds DEF PipesTypeOK, DrainInv, Bounded, Beneath, Drained
  <2>6. QED
    BY <2>1, <2>2, <2>3, <2>4, <2>5 DEF DrainInv
<1>2. CASE OutChunk
  <2> USE <1>2 DEF OutChunk
  <2>1. PipesTypeOK'
    BY AnswerAssumption, ChildAssumption, PipeAssumption, FaultAssumption, CappedBounds
       DEF PipesTypeOK, Conserved, DrainInv
  <2>2. Conserved'
    BY DEF PipesTypeOK, DrainInv, Conserved
  <2>3. Bounded'
    BY CappedBounds DEF PipesTypeOK, DrainInv, Conserved, Bounded
  <2>4. Finished'
    BY DEF PipesTypeOK, DrainInv, Finished
  <2>5. Beneath
    BY CappedBounds DEF PipesTypeOK, DrainInv, Bounded, Beneath, Drained
  <2>6. QED
    BY <2>1, <2>2, <2>3, <2>4, <2>5 DEF DrainInv
<1>3. CASE OutWrite
  <2> USE <1>3 DEF OutWrite, OutEnds
  <2>1. outOpen' \in BOOLEAN /\ outError' \in BOOLEAN /\ overflow' \in BOOLEAN
    BY DEF PipesTypeOK
  <2>2. PipesTypeOK'
    BY <2>1, AnswerAssumption, ChildAssumption, PipeAssumption, FaultAssumption, CappedBounds
       DEF PipesTypeOK, Conserved, DrainInv
  <2>3. Conserved'
    BY DEF PipesTypeOK, DrainInv, Conserved
  <2>4. Bounded'
    <3>1. /\ total + held \in Nat /\ total + held <= made /\ disk' \in Int
          /\ disk' <= Capped(total + held) /\ made' = made
      BY CappedBounds DEF PipesTypeOK, DrainInv, Conserved
    <3>2. (disk <= made)'
      BY <3>1, CappedBounds DEF PipesTypeOK
    <3>3. (outPc # "done" => disk <= Capped(total))'
      BY <3>1
    <3>4. ASSUME ~overflow' PROVE total' <= Size
      <4>1. CASE total' = total + held /\ overflow' = (overflow \/ total + held > Size)
        <5>1. ~(total + held > Size)
          BY <3>4, <4>1
        <5>2. QED
          BY <3>1, <4>1, <5>1, AnswerAssumption
      <4>2. CASE UNCHANGED <<total, overflow>>
        BY <3>4, <4>2 DEF DrainInv, Bounded
      <4>3. QED
        BY <4>1, <4>2
    <3>5. QED
      BY <3>2, <3>3, <3>4 DEF Bounded
  <2>5. Finished'
    BY DEF PipesTypeOK, DrainInv, Finished
  <2>6. Beneath
    BY CappedBounds DEF PipesTypeOK, DrainInv, Bounded, Beneath, Drained
  <2>7. QED
    BY <2>2, <2>3, <2>4, <2>5, <2>6 DEF DrainInv
<1>4. CASE OutEof
  <2> USE <1>4 DEF OutEof, Eof
  <2>1. PipesTypeOK'
    BY AnswerAssumption, ChildAssumption, PipeAssumption, FaultAssumption, CappedBounds
       DEF PipesTypeOK, Conserved, DrainInv
  <2>2. Conserved'
    BY DEF PipesTypeOK, DrainInv, Conserved
  <2>3. Bounded'
    BY CappedBounds DEF PipesTypeOK, DrainInv, Conserved, Bounded
  <2>4. Finished'
    BY DEF PipesTypeOK, DrainInv, Finished
  <2>5. Beneath
    BY CappedBounds DEF PipesTypeOK, DrainInv, Bounded, Beneath, Drained
  <2>6. QED
    BY <2>1, <2>2, <2>3, <2>4, <2>5 DEF DrainInv
<1>5. CASE OutFlush
  <2> USE <1>5 DEF OutFlush, OutEnds
  <2>1. outOpen' \in BOOLEAN /\ outError' \in BOOLEAN /\ overflow' \in BOOLEAN
    BY DEF PipesTypeOK
  <2>2. PipesTypeOK'
    BY <2>1, AnswerAssumption, ChildAssumption, PipeAssumption, FaultAssumption, CappedBounds
       DEF PipesTypeOK, Conserved, DrainInv
  <2>3. Conserved'
    BY DEF PipesTypeOK, DrainInv, Conserved
  <2>4. Bounded'
    BY CappedBounds DEF PipesTypeOK, DrainInv, Conserved, Bounded
  <2>5. Finished'
    BY DEF PipesTypeOK, DrainInv, Finished
  <2>6. Beneath
    BY CappedBounds DEF PipesTypeOK, DrainInv, Bounded, Beneath, Drained
  <2>7. QED
    BY <2>2, <2>3, <2>4, <2>5, <2>6 DEF DrainInv
<1>6. CASE OutReadEnds
  <2> USE <1>6 DEF OutReadEnds, OutEnds
  <2>1. outOpen' \in BOOLEAN /\ outError' \in BOOLEAN /\ overflow' \in BOOLEAN
    BY DEF PipesTypeOK
  <2>2. PipesTypeOK'
    BY <2>1, AnswerAssumption, ChildAssumption, PipeAssumption, FaultAssumption, CappedBounds
       DEF PipesTypeOK, Conserved, DrainInv
  <2>3. Conserved'
    BY DEF PipesTypeOK, DrainInv, Conserved
  <2>4. Bounded'
    BY CappedBounds DEF PipesTypeOK, DrainInv, Conserved, Bounded
  <2>5. Finished'
    BY DEF PipesTypeOK, DrainInv, Finished
  <2>6. Beneath
    BY CappedBounds DEF PipesTypeOK, DrainInv, Bounded, Beneath, Drained
  <2>7. QED
    BY <2>2, <2>3, <2>4, <2>5, <2>6 DEF DrainInv
<1>7. CASE OutReadFails
  <2> USE <1>7 DEF OutReadFails, OutEnds
  <2>1. outOpen' \in BOOLEAN /\ outError' \in BOOLEAN /\ overflow' \in BOOLEAN
    BY DEF PipesTypeOK
  <2>2. PipesTypeOK'
    BY <2>1, AnswerAssumption, ChildAssumption, PipeAssumption, FaultAssumption, CappedBounds
       DEF PipesTypeOK, Conserved, DrainInv
  <2>3. Conserved'
    BY DEF PipesTypeOK, DrainInv, Conserved
  <2>4. Bounded'
    BY CappedBounds DEF PipesTypeOK, DrainInv, Conserved, Bounded
  <2>5. Finished'
    BY DEF PipesTypeOK, DrainInv, Finished
  <2>6. Beneath
    BY CappedBounds DEF PipesTypeOK, DrainInv, Bounded, Beneath, Drained
  <2>7. QED
    BY <2>2, <2>3, <2>4, <2>5, <2>6 DEF DrainInv
<1>8. QED
  BY <1>1, <1>2, <1>3, <1>4, <1>5, <1>6, <1>7 DEF OutStep

LEMMA ErrDrainStep ==
    ASSUME PipesTypeOK, DrainInv, ErrStep \/ ErrReadFails
    PROVE  PipesTypeOK' /\ DrainInv' /\ Beneath
<1> USE DEF plan, process, outDrain, errDrain, pipes, NoFault, Fault
<1>1. CASE ErrRead
  <2> USE <1>1 DEF ErrRead
  <2>1. PipesTypeOK'
    BY AnswerAssumption, ChildAssumption, PipeAssumption, FaultAssumption, CappedBounds
       DEF PipesTypeOK, Conserved, DrainInv
  <2>2. Conserved'
    BY DEF PipesTypeOK, DrainInv, Conserved
  <2>3. Bounded'
    BY CappedBounds DEF PipesTypeOK, DrainInv, Conserved, Bounded
  <2>4. Finished'
    BY DEF PipesTypeOK, DrainInv, Finished
  <2>5. Beneath
    BY CappedBounds DEF PipesTypeOK, DrainInv, Bounded, Beneath, Drained
  <2>6. QED
    BY <2>1, <2>2, <2>3, <2>4, <2>5 DEF DrainInv
<1>2. CASE ErrEnds
  <2> USE <1>2 DEF ErrEnds
  <2>1. errOpen' \in BOOLEAN /\ errError' \in BOOLEAN
    BY DEF PipesTypeOK
  <2>2. PipesTypeOK'
    BY <2>1, AnswerAssumption, ChildAssumption, PipeAssumption, FaultAssumption, CappedBounds
       DEF PipesTypeOK, Conserved, DrainInv
  <2>3. Conserved'
    BY DEF PipesTypeOK, DrainInv, Conserved
  <2>4. Bounded'
    BY CappedBounds DEF PipesTypeOK, DrainInv, Conserved, Bounded
  <2>5. Finished'
    BY DEF PipesTypeOK, DrainInv, Finished
  <2>6. Beneath
    BY CappedBounds DEF PipesTypeOK, DrainInv, Bounded, Beneath, Drained
  <2>7. QED
    BY <2>2, <2>3, <2>4, <2>5, <2>6 DEF DrainInv
<1>3. CASE ErrReadFails
  <2> USE <1>3 DEF ErrReadFails
  <2>1. errOpen' \in BOOLEAN /\ errError' \in BOOLEAN
    BY DEF PipesTypeOK
  <2>2. PipesTypeOK'
    BY <2>1, AnswerAssumption, ChildAssumption, PipeAssumption, FaultAssumption, CappedBounds
       DEF PipesTypeOK, Conserved, DrainInv
  <2>3. Conserved'
    BY DEF PipesTypeOK, DrainInv, Conserved
  <2>4. Bounded'
    BY CappedBounds DEF PipesTypeOK, DrainInv, Conserved, Bounded
  <2>5. Finished'
    BY DEF PipesTypeOK, DrainInv, Finished
  <2>6. Beneath
    BY CappedBounds DEF PipesTypeOK, DrainInv, Bounded, Beneath, Drained
  <2>7. QED
    BY <2>2, <2>3, <2>4, <2>5, <2>6 DEF DrainInv
<1>4. QED
  BY <1>1, <1>2, <1>3 DEF ErrStep

\* Nothing the main thread has established is undone beside it.
LEMMA BesideKeeps ==
    ASSUME IInv, Beneath, PipesTypeOK', DrainInv', UNCHANGED <<adapter, call, resources>>
    PROVE  IInv'
<1> USE DEF IInv, Beneath, call, resources
<1>1. TypeOK'
  BY DEF TypeOK
<1>2. seen' <= disk'
  BY DEF TypeOK, PipesTypeOK
<1>3. Accepted'
  BY DEF Accepted, Drained, TypeOK, PipesTypeOK
<1>4. NotStarted'
  BY DEF NotStarted
<1>14. Announced'
  BY DEF Announced
<1>5. Settled => Settled'
  BY DEF Settled, TypeOK, PipesTypeOK
<1>6. disk = Size => disk' = Size
  BY AnswerAssumption DEF TypeOK, PipesTypeOK
<1>7. UNCHANGED <<adapter, pc, outcome, timedOut, seen, answer, trouble>>
  OBVIOUS
<1>8. child = "dead" => child' = "dead" /\ rc' = rc
  OBVIOUS
<1>9. PreparedControl => PreparedControl'
  <2> SUFFICES ASSUME PreparedControl PROVE PreparedControl'
    OBVIOUS
  <2>1. (pc \in Reading \cup {"handOver"} => ~timedOut)'
    BY <1>7 DEF PreparedControl
  <2>2. (pc \in {"restat", "handOver"} => answer = "success" /\ rc = 0 /\ seen = Size)'
    BY <1>7, <1>8 DEF PreparedControl, Reading
  <2>3. (pc = "handOver" => disk = Size)'
    BY <1>6, <1>7 DEF PreparedControl
  <2>4. (outcome = "none" <=> pc \notin {"finally", "ended"})'
    BY <1>7 DEF PreparedControl
  <2>5. (pc \in Before => child = "unborn")'
    BY <1>7 DEF PreparedControl
  <2>6. (pc \in Joining \cup Reading \cup {"handOver"} => child = "dead")'
    BY <1>7, <1>8 DEF PreparedControl
  <2>7. QED
    BY <1>5, <1>7, <2>1, <2>2, <2>3, <2>4, <2>5, <2>6 DEF PreparedControl
<1>10. PreparedResources => PreparedResources'
  BY DEF PreparedResources
<1>11. RidgeControl => RidgeControl'
  <2> SUFFICES ASSUME RidgeControl PROVE RidgeControl'
    OBVIOUS
  <2>1. (pc = "restat" => \/ answer = "success" /\ rc = 0 /\ seen = Size
                          \/ answer = "failure" /\ rc # 0 /\ seen = 1)'
    BY <1>7, <1>8 DEF RidgeControl, Reading
  <2>2. (pc = "verdict" /\ outcome = "none" /\ trouble = "none" => Drained)'
    BY <1>7 DEF RidgeControl
  <2>3. (pc \in Reading => child = "dead" /\ ~timedOut /\ Drained /\ ~overflow /\ ~outError)'
    BY <1>7, <1>8 DEF RidgeControl
  <2>4. QED
    BY <1>5, <1>7, <1>8, <2>1, <2>2, <2>3 DEF RidgeControl
<1>12. RidgeResources => RidgeResources'
  BY DEF RidgeResources
<1>13. QED
  BY <1>1, <1>2, <1>3, <1>4, <1>14, <1>7, <1>9, <1>10, <1>11, <1>12
-----------------------------------------------------------------------------
(* The main thread. *)

\* The main thread never touches what the drains have counted.
MainLeaves ==
    /\ UNCHANGED <<made, outPipe, held, total, disk, overflow, outError>>
    /\ child = "dead" => child' = "dead"
    /\ outPc' = outPc \/ (outPc = "off" /\ outPc' = "read")

\* The type invariant in parts.
Switches ==
    /\ conforms \in BOOLEAN /\ killed \in BOOLEAN /\ outOpen \in BOOLEAN /\ errOpen \in BOOLEAN
    /\ overflow \in BOOLEAN /\ outError \in BOOLEAN /\ errError \in BOOLEAN
Places ==
    /\ pc \in Before \cup Waiting \cup Joining \cup Reading
               \cup {"startFailed", "startClose", "startJoin", "handOver", "finally",
                     "leave", "ended"}
    /\ outcome \in {"none", "result"} \cup Errors
Clocks == timedOut \in BOOLEAN /\ late \in BOOLEAN
Belongings ==
    /\ trouble \in {"none", "failed", "interrupted"}
    /\ requestFd \in {"none", "open", "closed"} /\ responseFd \in {"none", "open", "closed"}
    /\ owner \in {"adapter", "result"} /\ workspace \in {"none", "present", "removed"}

LEMMA TypeInParts ==
    (TypeOK <=> /\ PipesTypeOK /\ adapter \in {"prepared", "ridge"} /\ seen \in 0 .. Size
                /\ Places /\ Clocks /\ Belongings)'
BY DEF TypeOK, Places, Clocks, Belongings, Before, Waiting, Joining, Reading

\* What the header and the exit status together may mean.
LEMMA Verdicts ==
    ASSUME NEW header \in {"success", "failure", "foreign"}, NEW status, NEW size
    PROVE  /\ HeaderVerdict(header, status, size) \in {"result", "status", "protocol"}
           /\ HeaderVerdict(header, status, size) = "result" =>
                 header = "success" /\ status = 0 /\ size = Size
           /\ HeaderVerdict(header, status, size) = "status" =>
                 header = "failure" /\ status # 0 /\ size = 1
BY DEF HeaderVerdict

\* What no complaint of the ridge adapter means.
LEMMA Complaints ==
    ASSUME TypeOK, NEW cleanup \in {"none", "failed", "interrupted"}
    PROVE  /\ Complaint(cleanup) \in {"none", "interrupted", "execution", "protocol"}
           /\ Complaint(cleanup) = "none" =>
                 /\ outcome \notin {"interrupted", "execution"} /\ cleanup = "none"
                 /\ ~timedOut /\ ~overflow /\ ~outError /\ ~errError
BY DEF Complaint, TypeOK, PipesTypeOK

LEMMA MainLeavesData ==
    ASSUME DrainInv, MainLeaves
    PROVE  DrainInv'
BY DEF DrainInv, Conserved, Bounded, Finished, MainLeaves

\* Every statement of the prepared adapter, and what may go wrong at it.
LEMMA PreparedKeeps ==
    ASSUME IInv, adapter = "prepared", UNCHANGED adapter,
           PreparedMain \/ Interrupt \/ Deadline
    PROVE  IInv' /\ MainLeaves
<1> USE DEF plan, process, pipes, outDrain, errDrain, pipeVars, resources, NoFault, Fault, Go,
         Fails
<1>0. TypeOK /\ PipesTypeOK /\ PreparedControl /\ PreparedResources /\ Accepted /\ NotStarted
     /\ Announced /\ DrainInv /\ seen <= disk
  BY DEF IInv, TypeOK
<1>a. TypeOK /\ seen <= disk /\ adapter = "prepared"
  BY DEF IInv
<1>1. CASE PreparedSnapshot
  <2> USE <1>1 DEF PreparedSnapshot
  <2>1. Switches'
    BY <1>0 DEF PipesTypeOK, Switches
  <2>2. PipesTypeOK'
    BY <1>0, <2>1, FaultAssumption DEF PipesTypeOK, Switches
  <2>3. Places' /\ Clocks'
    BY <1>0 DEF TypeOK, Places, Clocks, Errors, Before, Waiting, Joining, Reading
  <2>4. Belongings' /\ seen' \in 0 .. Size /\ seen' <= disk'
    BY <1>0 DEF TypeOK, PipesTypeOK, Belongings
  <2>5. MainLeaves
    BY <1>0 DEF MainLeaves, NotStarted, Before, PreparedControl
  <2>6. Accepted' /\ NotStarted' /\ Announced'
    BY <1>0 DEF Accepted, NotStarted, Announced, Before, Drained, PreparedControl
  <2>7. PreparedControl'
    BY <1>0 DEF PreparedControl, Before, Waiting, Joining, Reading, Settled, TypeOK, PipesTypeOK
  <2>8. PreparedResources'
    BY <1>0 DEF PreparedResources, PreparedControl, Before, Waiting, Joining, Reading, TypeOK
  <2>9. QED
    BY <1>0, <2>2, <2>3, <2>4, <2>5, <2>6, <2>7, <2>8, MainLeavesData, TypeInParts DEF IInv
<1>2. CASE CopyStore
  <2> USE <1>2 DEF CopyStore, NoPrivateFile
  <2>1. Switches'
    BY <1>0 DEF PipesTypeOK, Switches
  <2>2. PipesTypeOK'
    BY <1>0, <2>1, FaultAssumption DEF PipesTypeOK, Switches
  <2>3. Places' /\ Clocks'
    BY <1>0 DEF TypeOK, Places, Clocks, Errors, Before, Waiting, Joining, Reading
  <2>4. Belongings' /\ seen' \in 0 .. Size /\ seen' <= disk'
    BY <1>0 DEF TypeOK, PipesTypeOK, Belongings
  <2>5. MainLeaves
    BY <1>0 DEF MainLeaves, NotStarted, Before, PreparedControl
  <2>6. Accepted' /\ NotStarted' /\ Announced'
    BY <1>0 DEF Accepted, NotStarted, Announced, Before, Drained, PreparedControl
  <2>7. PreparedControl'
    BY <1>0 DEF PreparedControl, Before, Waiting, Joining, Reading, Settled, TypeOK, PipesTypeOK
  <2>8. PreparedResources'
    BY <1>0 DEF PreparedResources, PreparedControl, Before, Waiting, Joining, Reading, TypeOK
  <2>9. QED
    BY <1>0, <2>2, <2>3, <2>4, <2>5, <2>6, <2>7, <2>8, MainLeavesData, TypeInParts DEF IInv
<1>3. CASE FinishRequest
  <2> USE <1>3 DEF FinishRequest, NoPrivateFile
  <2>1. Switches'
    BY <1>0 DEF PipesTypeOK, Switches
  <2>2. PipesTypeOK'
    BY <1>0, <2>1, FaultAssumption DEF PipesTypeOK, Switches
  <2>3. Places' /\ Clocks'
    BY <1>0 DEF TypeOK, Places, Clocks, Errors, Before, Waiting, Joining, Reading
  <2>4. Belongings' /\ seen' \in 0 .. Size /\ seen' <= disk'
    BY <1>0 DEF TypeOK, PipesTypeOK, Belongings
  <2>5. MainLeaves
    BY <1>0 DEF MainLeaves, NotStarted, Before, PreparedControl
  <2>6. Accepted' /\ NotStarted' /\ Announced'
    BY <1>0 DEF Accepted, NotStarted, Announced, Before, Drained, PreparedControl
  <2>7. PreparedControl'
    BY <1>0 DEF PreparedControl, Before, Waiting, Joining, Reading, Settled, TypeOK, PipesTypeOK
  <2>8. PreparedResources'
    BY <1>0 DEF PreparedResources, PreparedControl, Before, Waiting, Joining, Reading, TypeOK
  <2>9. QED
    BY <1>0, <2>2, <2>3, <2>4, <2>5, <2>6, <2>7, <2>8, MainLeavesData, TypeInParts DEF IInv
<1>4. CASE Launch
  <2> USE <1>4 DEF Launch
  <2>1. Switches'
    BY <1>0 DEF PipesTypeOK, Switches
  <2>2. PipesTypeOK'
    BY <1>0, <2>1, FaultAssumption DEF PipesTypeOK, Switches
  <2>3. Places' /\ Clocks'
    BY <1>0 DEF TypeOK, Places, Clocks, Errors, Before, Waiting, Joining, Reading
  <2>4. Belongings' /\ seen' \in 0 .. Size /\ seen' <= disk'
    BY <1>0 DEF TypeOK, PipesTypeOK, Belongings
  <2>5. MainLeaves
    BY <1>0 DEF MainLeaves, NotStarted, Before, PreparedControl
  <2>6. Accepted' /\ NotStarted' /\ Announced'
    BY <1>0 DEF Accepted, NotStarted, Announced, Before, Drained, PreparedControl
  <2>7. PreparedControl'
    BY <1>0 DEF PreparedControl, Before, Waiting, Joining, Reading, Settled, TypeOK, PipesTypeOK
  <2>8. PreparedResources'
    BY <1>0 DEF PreparedResources, PreparedControl, Before, Waiting, Joining, Reading, TypeOK
  <2>9. QED
    BY <1>0, <2>2, <2>3, <2>4, <2>5, <2>6, <2>7, <2>8, MainLeavesData, TypeInParts DEF IInv
<1>5. CASE StartDrains
  <2> USE <1>5 DEF StartDrains, SendKill
  <2>1. Switches'
    BY <1>0 DEF PipesTypeOK, Switches
  <2>2. PipesTypeOK'
    BY <1>0, <2>1, FaultAssumption DEF PipesTypeOK, Switches
  <2>3. Places' /\ Clocks'
    BY <1>0 DEF TypeOK, Places, Clocks, Errors, Before, Waiting, Joining, Reading
  <2>4. Belongings' /\ seen' \in 0 .. Size /\ seen' <= disk'
    BY <1>0 DEF TypeOK, PipesTypeOK, Belongings
  <2>5. MainLeaves
    BY <1>0 DEF MainLeaves, NotStarted, Before, PreparedControl
  <2>6. Accepted' /\ NotStarted' /\ Announced'
    BY <1>0 DEF Accepted, NotStarted, Announced, Before, Drained, PreparedControl
  <2>7. PreparedControl'
    BY <1>0 DEF PreparedControl, Before, Waiting, Joining, Reading, Settled, TypeOK, PipesTypeOK
  <2>8. PreparedResources'
    BY <1>0 DEF PreparedResources, PreparedControl, Before, Waiting, Joining, Reading, TypeOK
  <2>9. QED
    BY <1>0, <2>2, <2>3, <2>4, <2>5, <2>6, <2>7, <2>8, MainLeavesData, TypeInParts DEF IInv
<1>6. CASE Poll
  <2> USE <1>6 DEF Poll, SendKill
  <2>1. Switches'
    BY <1>0 DEF PipesTypeOK, Switches
  <2>2. PipesTypeOK'
    BY <1>0, <2>1, FaultAssumption DEF PipesTypeOK, Switches
  <2>3. Places' /\ Clocks'
    BY <1>0 DEF TypeOK, Places, Clocks, Errors, Before, Waiting, Joining, Reading
  <2>4. Belongings' /\ seen' \in 0 .. Size /\ seen' <= disk'
    BY <1>0 DEF TypeOK, PipesTypeOK, Belongings
  <2>5. MainLeaves
    BY <1>0 DEF MainLeaves, NotStarted, Before, PreparedControl
  <2>6. Accepted' /\ NotStarted' /\ Announced'
    BY <1>0 DEF Accepted, NotStarted, Announced, Before, Drained, PreparedControl
  <2>7. PreparedControl'
    BY <1>0 DEF PreparedControl, Before, Waiting, Joining, Reading, Settled, TypeOK, PipesTypeOK
  <2>8. PreparedResources'
    BY <1>0 DEF PreparedResources, PreparedControl, Before, Waiting, Joining, Reading, TypeOK
  <2>9. QED
    BY <1>0, <2>2, <2>3, <2>4, <2>5, <2>6, <2>7, <2>8, MainLeavesData, TypeInParts DEF IInv
<1>7. CASE Reap
  <2> USE <1>7 DEF Reap, SendKill
  <2>1. Switches'
    BY <1>0 DEF PipesTypeOK, Switches
  <2>2. PipesTypeOK'
    BY <1>0, <2>1, FaultAssumption DEF PipesTypeOK, Switches
  <2>3. Places' /\ Clocks'
    BY <1>0 DEF TypeOK, Places, Clocks, Errors, Before, Waiting, Joining, Reading
  <2>4. Belongings' /\ seen' \in 0 .. Size /\ seen' <= disk'
    BY <1>0 DEF TypeOK, PipesTypeOK, Belongings
  <2>5. MainLeaves
    BY <1>0 DEF MainLeaves, NotStarted, Before, PreparedControl
  <2>6. Accepted' /\ NotStarted' /\ Announced'
    BY <1>0 DEF Accepted, NotStarted, Announced, Before, Drained, PreparedControl
  <2>7. PreparedControl'
    BY <1>0 DEF PreparedControl, Before, Waiting, Joining, Reading, Settled, TypeOK, PipesTypeOK
  <2>8. PreparedResources'
    BY <1>0 DEF PreparedResources, PreparedControl, Before, Waiting, Joining, Reading, TypeOK
  <2>9. QED
    BY <1>0, <2>2, <2>3, <2>4, <2>5, <2>6, <2>7, <2>8, MainLeavesData, TypeInParts DEF IInv
<1>8. CASE Join
  <2> USE <1>8 DEF Join, JoinDrains
  <2>1. Switches'
    BY <1>0 DEF PipesTypeOK, Switches
  <2>2. PipesTypeOK'
    BY <1>0, <2>1, FaultAssumption DEF PipesTypeOK, Switches
  <2>3. Places' /\ Clocks'
    BY <1>0 DEF TypeOK, Places, Clocks, Errors, Before, Waiting, Joining, Reading
  <2>4. Belongings' /\ seen' \in 0 .. Size /\ seen' <= disk'
    BY <1>0 DEF TypeOK, PipesTypeOK, Belongings
  <2>5. MainLeaves
    BY <1>0 DEF MainLeaves, NotStarted, Before, PreparedControl
  <2>6. Accepted' /\ NotStarted' /\ Announced'
    BY <1>0 DEF Accepted, NotStarted, Announced, Before, Drained, PreparedControl
  <2>7. PreparedControl'
    BY <1>0 DEF PreparedControl, Before, Waiting, Joining, Reading, Settled, TypeOK, PipesTypeOK
  <2>8. PreparedResources'
    BY <1>0 DEF PreparedResources, PreparedControl, Before, Waiting, Joining, Reading, TypeOK
  <2>9. QED
    BY <1>0, <2>2, <2>3, <2>4, <2>5, <2>6, <2>7, <2>8, MainLeavesData, TypeInParts DEF IInv
<1>9. CASE ClosePipes
  <2> USE <1>9 DEF ClosePipes
  <2>1. Switches'
    BY <1>0 DEF PipesTypeOK, Switches
  <2>2. PipesTypeOK'
    BY <1>0, <2>1, FaultAssumption DEF PipesTypeOK, Switches
  <2>3. Places' /\ Clocks'
    BY <1>0 DEF TypeOK, Places, Clocks, Errors, Before, Waiting, Joining, Reading
  <2>4. Belongings' /\ seen' \in 0 .. Size /\ seen' <= disk'
    BY <1>0 DEF TypeOK, PipesTypeOK, Belongings
  <2>5. MainLeaves
    BY <1>0 DEF MainLeaves, NotStarted, Before, PreparedControl
  <2>6. Accepted' /\ NotStarted' /\ Announced'
    BY <1>0 DEF Accepted, NotStarted, Announced, Before, Drained, PreparedControl
  <2>7. PreparedControl'
    BY <1>0 DEF PreparedControl, Before, Waiting, Joining, Reading, Settled, TypeOK, PipesTypeOK
  <2>8. PreparedResources'
    BY <1>0 DEF PreparedResources, PreparedControl, Before, Waiting, Joining, Reading, TypeOK
  <2>9. QED
    BY <1>0, <2>2, <2>3, <2>4, <2>5, <2>6, <2>7, <2>8, MainLeavesData, TypeInParts DEF IInv
<1>10. CASE Rejoin
  <2> USE <1>10 DEF Rejoin, JoinDrains
  <2>1. Switches'
    BY <1>0 DEF PipesTypeOK, Switches
  <2>2. PipesTypeOK'
    BY <1>0, <2>1, FaultAssumption DEF PipesTypeOK, Switches
  <2>3. Places' /\ Clocks'
    BY <1>0 DEF TypeOK, Places, Clocks, Errors, Before, Waiting, Joining, Reading
  <2>4. Belongings' /\ seen' \in 0 .. Size /\ seen' <= disk'
    BY <1>0 DEF TypeOK, PipesTypeOK, Belongings
  <2>5. MainLeaves
    BY <1>0 DEF MainLeaves, NotStarted, Before, PreparedControl
  <2>6. Accepted' /\ NotStarted' /\ Announced'
    BY <1>0 DEF Accepted, NotStarted, Announced, Before, Drained, PreparedControl
  <2>7. PreparedControl'
    BY <1>0 DEF PreparedControl, Before, Waiting, Joining, Reading, Settled, TypeOK, PipesTypeOK
  <2>8. PreparedResources'
    BY <1>0 DEF PreparedResources, PreparedControl, Before, Waiting, Joining, Reading, TypeOK
  <2>9. QED
    BY <1>0, <2>2, <2>3, <2>4, <2>5, <2>6, <2>7, <2>8, MainLeavesData, TypeInParts DEF IInv
<1>11. CASE CaptureVerdict
  <2> USE <1>11 DEF CaptureVerdict
  <2>1. Switches'
    BY <1>0 DEF PipesTypeOK, Switches
  <2>2. PipesTypeOK'
    BY <1>0, <2>1, FaultAssumption DEF PipesTypeOK, Switches
  <2>3. Places' /\ Clocks'
    BY <1>0 DEF TypeOK, Places, Clocks, Errors, Before, Waiting, Joining, Reading
  <2>4. Belongings' /\ seen' \in 0 .. Size /\ seen' <= disk'
    BY <1>0 DEF TypeOK, PipesTypeOK, Belongings
  <2>5. MainLeaves
    BY <1>0 DEF MainLeaves, NotStarted, Before, PreparedControl
  <2>6. Accepted' /\ NotStarted' /\ Announced'
    BY <1>0 DEF Accepted, NotStarted, Announced, Before, Drained, PreparedControl
  <2>7. PreparedControl'
    BY <1>0 DEF PreparedControl, Before, Waiting, Joining, Reading, Settled, TypeOK, PipesTypeOK
  <2>8. PreparedResources'
    BY <1>0 DEF PreparedResources, PreparedControl, Before, Waiting, Joining, Reading, TypeOK
  <2>9. QED
    BY <1>0, <2>2, <2>3, <2>4, <2>5, <2>6, <2>7, <2>8, MainLeavesData, TypeInParts DEF IInv
<1>12. CASE Stat
  <2> USE <1>12 DEF Stat
  <2>1. Switches'
    BY <1>0 DEF PipesTypeOK, Switches
  <2>2. PipesTypeOK'
    BY <1>0, <2>1, FaultAssumption DEF PipesTypeOK, Switches
  <2>3. Places' /\ Clocks'
    BY <1>0 DEF TypeOK, Places, Clocks, Errors, Before, Waiting, Joining, Reading
  <2>4. Belongings' /\ seen' \in 0 .. Size /\ seen' <= disk'
    BY <1>0 DEF TypeOK, PipesTypeOK, Belongings
  <2>5. MainLeaves
    BY <1>0 DEF MainLeaves, NotStarted, Before, PreparedControl
  <2>6. Accepted' /\ NotStarted' /\ Announced'
    BY <1>0 DEF Accepted, NotStarted, Announced, Before, Drained, PreparedControl
  <2>7. PreparedControl'
    BY <1>0 DEF PreparedControl, Before, Waiting, Joining, Reading, Settled, TypeOK, PipesTypeOK
  <2>8. PreparedResources'
    BY <1>0 DEF PreparedResources, PreparedControl, Before, Waiting, Joining, Reading, TypeOK
  <2>9. QED
    BY <1>0, <2>2, <2>3, <2>4, <2>5, <2>6, <2>7, <2>8, MainLeavesData, TypeInParts DEF IInv
<1>13. CASE Check
  <2> USE <1>13 DEF Check
  <2>1. answer' \in {"success", "failure", "foreign"}
    BY <1>0 DEF Headers, Announced
  <2>2. Announced'
    BY <1>0 DEF Headers, Announced
  <2> DEFINE verdict == HeaderVerdict(answer', rc, seen)
  <2>3. /\ verdict \in {"result", "status", "protocol"}
        /\ verdict = "result" => answer' = "success" /\ rc = 0 /\ seen = Size
        /\ verdict = "status" => answer' = "failure" /\ rc # 0 /\ seen = 1
    BY <2>1, Verdicts
  <2>4. \/ verdict = "result" /\ pc' = "restat" /\ outcome' = outcome
        \/ verdict # "result" /\ pc' = "finally" /\ outcome' = verdict
    BY DEF Check, Go, Fails
  <2> HIDE DEF verdict
  <2>5. Switches'
    BY <1>0 DEF PipesTypeOK, Switches
  <2>6. PipesTypeOK'
    BY <1>0, <2>1, <2>5 DEF PipesTypeOK, Switches
  <2>7. TypeOK'
    BY <1>a, <2>3, <2>4, <2>6, TypeInParts
       DEF TypeOK, Places, Clocks, Belongings, Errors, Joining, Reading, Waiting
  <2>8. MainLeaves /\ seen' <= disk'
    BY <1>0 DEF MainLeaves
  <2>9. outcome = "none" /\ ~timedOut /\ child = "dead"
    BY <1>0 DEF PreparedControl, Joining, Reading
  <2>10. Accepted' /\ NotStarted'
    BY <1>0, <1>a, <2>3, <2>4, <2>9 DEF Accepted, NotStarted, Before, TypeOK, PipesTypeOK
  <2>11. PreparedControl'
    BY <1>0, <2>3, <2>4, <2>9
       DEF PreparedControl, Before, Waiting, Joining, Reading, Settled
  <2>12. PreparedResources'
    BY <1>0, <2>3, <2>4 DEF PreparedResources, Before, Waiting, Joining, Reading
  <2>13. QED
    BY <1>a, <2>2, <2>7, <2>8, <2>10, <2>11, <2>12, <1>0, MainLeavesData DEF IInv
<1>14. CASE Restat
  <2> USE <1>14 DEF Restat
  <2>1. Switches'
    BY <1>0 DEF PipesTypeOK, Switches
  <2>2. PipesTypeOK'
    BY <1>0, <2>1, FaultAssumption DEF PipesTypeOK, Switches
  <2>3. Places' /\ Clocks'
    BY <1>0 DEF TypeOK, Places, Clocks, Errors, Before, Waiting, Joining, Reading
  <2>4. Belongings' /\ seen' \in 0 .. Size /\ seen' <= disk'
    BY <1>0 DEF TypeOK, PipesTypeOK, Belongings
  <2>5. MainLeaves
    BY <1>0 DEF MainLeaves, NotStarted, Before, PreparedControl
  <2>6. Accepted' /\ NotStarted' /\ Announced'
    BY <1>0 DEF Accepted, NotStarted, Announced, Before, Drained, PreparedControl
  <2>7. PreparedControl'
    BY <1>0 DEF PreparedControl, Before, Waiting, Joining, Reading, Settled, TypeOK, PipesTypeOK
  <2>8. PreparedResources'
    BY <1>0 DEF PreparedResources, PreparedControl, Before, Waiting, Joining, Reading, TypeOK
  <2>9. QED
    BY <1>0, <2>2, <2>3, <2>4, <2>5, <2>6, <2>7, <2>8, MainLeavesData, TypeInParts DEF IInv
<1>15. CASE HandOver
  <2> USE <1>15 DEF HandOver
  <2>1. Switches'
    BY <1>0 DEF PipesTypeOK, Switches
  <2>2. PipesTypeOK'
    BY <1>0, <2>1, FaultAssumption DEF PipesTypeOK, Switches
  <2>3. Places' /\ Clocks'
    BY <1>0 DEF TypeOK, Places, Clocks, Errors, Before, Waiting, Joining, Reading
  <2>4. Belongings' /\ seen' \in 0 .. Size /\ seen' <= disk'
    BY <1>0 DEF TypeOK, PipesTypeOK, Belongings
  <2>5. MainLeaves
    BY <1>0 DEF MainLeaves, NotStarted, Before, PreparedControl
  <2>6. Accepted' /\ NotStarted' /\ Announced'
    BY <1>0 DEF Accepted, NotStarted, Announced, Before, Drained, PreparedControl
  <2>7. PreparedControl'
    BY <1>0 DEF PreparedControl, Before, Waiting, Joining, Reading, Settled, TypeOK, PipesTypeOK
  <2>8. PreparedResources'
    BY <1>0 DEF PreparedResources, PreparedControl, Before, Waiting, Joining, Reading, TypeOK
  <2>9. QED
    BY <1>0, <2>2, <2>3, <2>4, <2>5, <2>6, <2>7, <2>8, MainLeavesData, TypeInParts DEF IInv
<1>16. CASE Finally
  <2> USE <1>16 DEF Finally
  <2>1. Switches'
    BY <1>0 DEF PipesTypeOK, Switches
  <2>2. PipesTypeOK'
    BY <1>0, <2>1, FaultAssumption DEF PipesTypeOK, Switches
  <2>3. Places' /\ Clocks'
    BY <1>0 DEF TypeOK, Places, Clocks, Errors, Before, Waiting, Joining, Reading
  <2>4. Belongings' /\ seen' \in 0 .. Size /\ seen' <= disk'
    BY <1>0 DEF TypeOK, PipesTypeOK, Belongings
  <2>5. MainLeaves
    BY <1>0 DEF MainLeaves, NotStarted, Before, PreparedControl
  <2>6. Accepted' /\ NotStarted' /\ Announced'
    BY <1>0 DEF Accepted, NotStarted, Announced, Before, Drained, PreparedControl
  <2>7. PreparedControl'
    BY <1>0 DEF PreparedControl, Before, Waiting, Joining, Reading, Settled, TypeOK, PipesTypeOK
  <2>8. PreparedResources'
    BY <1>0 DEF PreparedResources, PreparedControl, Before, Waiting, Joining, Reading, TypeOK
  <2>9. QED
    BY <1>0, <2>2, <2>3, <2>4, <2>5, <2>6, <2>7, <2>8, MainLeavesData, TypeInParts DEF IInv
<1>17. CASE Interrupt
  <2> USE <1>17 DEF Interrupt
  <2>1. Switches'
    BY <1>0 DEF PipesTypeOK, Switches
  <2>2. PipesTypeOK'
    BY <1>0, <2>1, FaultAssumption DEF PipesTypeOK, Switches
  <2>3. Places' /\ Clocks'
    BY <1>0 DEF TypeOK, Places, Clocks, Errors, Before, Waiting, Joining, Reading
  <2>4. Belongings' /\ seen' \in 0 .. Size /\ seen' <= disk'
    BY <1>0 DEF TypeOK, PipesTypeOK, Belongings
  <2>5. MainLeaves
    BY <1>0 DEF MainLeaves, NotStarted, Before, PreparedControl
  <2>6. Accepted' /\ NotStarted' /\ Announced'
    BY <1>0 DEF Accepted, NotStarted, Announced, Before, Drained, PreparedControl
  <2>7. PreparedControl'
    BY <1>0 DEF PreparedControl, Before, Waiting, Joining, Reading, Settled, TypeOK, PipesTypeOK
  <2>8. PreparedResources'
    BY <1>0 DEF PreparedResources, PreparedControl, Before, Waiting, Joining, Reading, TypeOK
  <2>9. QED
    BY <1>0, <2>2, <2>3, <2>4, <2>5, <2>6, <2>7, <2>8, MainLeavesData, TypeInParts DEF IInv
<1>18. CASE Deadline
  <2> USE <1>18 DEF Deadline, SendKill
  <2>1. Switches'
    BY <1>0 DEF PipesTypeOK, Switches
  <2>2. PipesTypeOK'
    BY <1>0, <2>1, FaultAssumption DEF PipesTypeOK, Switches
  <2>3. Places' /\ Clocks'
    BY <1>0 DEF TypeOK, Places, Clocks, Errors, Before, Waiting, Joining, Reading
  <2>4. Belongings' /\ seen' \in 0 .. Size /\ seen' <= disk'
    BY <1>0 DEF TypeOK, PipesTypeOK, Belongings
  <2>5. MainLeaves
    BY <1>0 DEF MainLeaves, NotStarted, Before, PreparedControl
  <2>6. Accepted' /\ NotStarted' /\ Announced'
    BY <1>0 DEF Accepted, NotStarted, Announced, Before, Drained, PreparedControl
  <2>7. PreparedControl'
    BY <1>0 DEF PreparedControl, Before, Waiting, Joining, Reading, Settled, TypeOK, PipesTypeOK
  <2>8. PreparedResources'
    BY <1>0 DEF PreparedResources, PreparedControl, Before, Waiting, Joining, Reading, TypeOK
  <2>9. QED
    BY <1>0, <2>2, <2>3, <2>4, <2>5, <2>6, <2>7, <2>8, MainLeavesData, TypeInParts DEF IInv
<1>19. QED
  BY <1>1, <1>2, <1>3, <1>4, <1>5, <1>6, <1>7, <1>8, <1>9, <1>10, <1>11, <1>12, <1>13, <1>14,
     <1>15, <1>16, <1>17, <1>18 DEF PreparedMain

\* Every statement of the ridge adapter, and what may go wrong at it.
LEMMA RidgeKeeps ==
    ASSUME IInv, adapter = "ridge", UNCHANGED adapter,
           RidgeMain \/ RidgeInterrupt \/ Deadline
    PROVE  IInv' /\ MainLeaves
<1> USE DEF plan, process, pipes, outDrain, errDrain, pipeVars, resources, NoFault, Fault, Go,
         Leaves, Others
<1>0. TypeOK /\ PipesTypeOK /\ RidgeControl /\ RidgeResources /\ Accepted /\ NotStarted
     /\ Announced /\ DrainInv /\ seen <= disk
  BY DEF IInv, TypeOK
<1>a. TypeOK /\ seen <= disk /\ adapter = "ridge"
  BY DEF IInv
<1>1. CASE RidgeAdmit
  <2> USE <1>1 DEF RidgeAdmit
  <2>1. Switches'
    BY <1>0 DEF PipesTypeOK, Switches
  <2>2. PipesTypeOK'
    BY <1>0, <2>1, FaultAssumption DEF PipesTypeOK, Switches
  <2>3. Places' /\ Clocks'
    BY <1>0 DEF TypeOK, Places, Clocks, Errors, Before, Waiting, Joining, Reading
  <2>4. Belongings' /\ seen' \in 0 .. Size /\ seen' <= disk'
    BY <1>0 DEF TypeOK, PipesTypeOK, Belongings
  <2>5. MainLeaves
    BY <1>0 DEF MainLeaves, NotStarted, Before, RidgeControl
  <2>6. Accepted' /\ NotStarted' /\ Announced'
    BY <1>0 DEF Accepted, NotStarted, Announced, Before, Drained, RidgeControl
  <2>7. RidgeControl'
    BY <1>0
       DEF RidgeControl, Before, Waiting, Joining, Reading, Settled, Drained, TypeOK, PipesTypeOK
  <2>8. RidgeResources'
    BY <1>0 DEF RidgeResources, RidgeControl, Before, Waiting, Joining, Reading, TypeOK
  <2>9. QED
    BY <1>0, <2>2, <2>3, <2>4, <2>5, <2>6, <2>7, <2>8, MainLeavesData, TypeInParts DEF IInv
<1>2. CASE RidgeSnapshot
  <2> USE <1>2 DEF RidgeSnapshot
  <2>1. Switches'
    BY <1>0 DEF PipesTypeOK, Switches
  <2>2. PipesTypeOK'
    BY <1>0, <2>1, FaultAssumption DEF PipesTypeOK, Switches
  <2>3. Places' /\ Clocks'
    BY <1>0 DEF TypeOK, Places, Clocks, Errors, Before, Waiting, Joining, Reading
  <2>4. Belongings' /\ seen' \in 0 .. Size /\ seen' <= disk'
    BY <1>0 DEF TypeOK, PipesTypeOK, Belongings
  <2>5. MainLeaves
    BY <1>0 DEF MainLeaves, NotStarted, Before, RidgeControl
  <2>6. Accepted' /\ NotStarted' /\ Announced'
    BY <1>0 DEF Accepted, NotStarted, Announced, Before, Drained, RidgeControl
  <2>7. RidgeControl'
    BY <1>0
       DEF RidgeControl, Before, Waiting, Joining, Reading, Settled, Drained, TypeOK, PipesTypeOK
  <2>8. RidgeResources'
    BY <1>0 DEF RidgeResources, RidgeControl, Before, Waiting, Joining, Reading, TypeOK
  <2>9. QED
    BY <1>0, <2>2, <2>3, <2>4, <2>5, <2>6, <2>7, <2>8, MainLeavesData, TypeInParts DEF IInv
<1>3. CASE RidgeRequest
  <2> USE <1>3 DEF RidgeRequest
  <2>1. Switches'
    BY <1>0 DEF PipesTypeOK, Switches
  <2>2. PipesTypeOK'
    BY <1>0, <2>1, FaultAssumption DEF PipesTypeOK, Switches
  <2>3. Places' /\ Clocks'
    BY <1>0 DEF TypeOK, Places, Clocks, Errors, Before, Waiting, Joining, Reading
  <2>4. Belongings' /\ seen' \in 0 .. Size /\ seen' <= disk'
    BY <1>0 DEF TypeOK, PipesTypeOK, Belongings
  <2>5. MainLeaves
    BY <1>0 DEF MainLeaves, NotStarted, Before, RidgeControl
  <2>6. Accepted' /\ NotStarted' /\ Announced'
    BY <1>0 DEF Accepted, NotStarted, Announced, Before, Drained, RidgeControl
  <2>7. RidgeControl'
    BY <1>0
       DEF RidgeControl, Before, Waiting, Joining, Reading, Settled, Drained, TypeOK, PipesTypeOK
  <2>8. RidgeResources'
    BY <1>0 DEF RidgeResources, RidgeControl, Before, Waiting, Joining, Reading, TypeOK
  <2>9. QED
    BY <1>0, <2>2, <2>3, <2>4, <2>5, <2>6, <2>7, <2>8, MainLeavesData, TypeInParts DEF IInv
<1>4. CASE RidgeLaunch
  <2> USE <1>4 DEF RidgeLaunch
  <2>1. Switches'
    BY <1>0 DEF PipesTypeOK, Switches
  <2>2. PipesTypeOK'
    BY <1>0, <2>1, FaultAssumption DEF PipesTypeOK, Switches
  <2>3. Places' /\ Clocks'
    BY <1>0 DEF TypeOK, Places, Clocks, Errors, Before, Waiting, Joining, Reading
  <2>4. Belongings' /\ seen' \in 0 .. Size /\ seen' <= disk'
    BY <1>0 DEF TypeOK, PipesTypeOK, Belongings
  <2>5. MainLeaves
    BY <1>0 DEF MainLeaves, NotStarted, Before, RidgeControl
  <2>6. Accepted' /\ NotStarted' /\ Announced'
    BY <1>0 DEF Accepted, NotStarted, Announced, Before, Drained, RidgeControl
  <2>7. RidgeControl'
    BY <1>0
       DEF RidgeControl, Before, Waiting, Joining, Reading, Settled, Drained, TypeOK, PipesTypeOK
  <2>8. RidgeResources'
    BY <1>0 DEF RidgeResources, RidgeControl, Before, Waiting, Joining, Reading, TypeOK
  <2>9. QED
    BY <1>0, <2>2, <2>3, <2>4, <2>5, <2>6, <2>7, <2>8, MainLeavesData, TypeInParts DEF IInv
<1>5. CASE RidgeStartDrains
  <2> USE <1>5 DEF RidgeStartDrains, SendKill
  <2>1. Switches'
    BY <1>0 DEF PipesTypeOK, Switches
  <2>2. PipesTypeOK'
    BY <1>0, <2>1, FaultAssumption DEF PipesTypeOK, Switches
  <2>3. Places' /\ Clocks'
    BY <1>0 DEF TypeOK, Places, Clocks, Errors, Before, Waiting, Joining, Reading
  <2>4. Belongings' /\ seen' \in 0 .. Size /\ seen' <= disk'
    BY <1>0 DEF TypeOK, PipesTypeOK, Belongings
  <2>5. MainLeaves
    BY <1>0 DEF MainLeaves, NotStarted, Before, RidgeControl
  <2>6. Accepted' /\ NotStarted' /\ Announced'
    BY <1>0 DEF Accepted, NotStarted, Announced, Before, Drained, RidgeControl
  <2>7. RidgeControl'
    BY <1>0
       DEF RidgeControl, Before, Waiting, Joining, Reading, Settled, Drained, TypeOK, PipesTypeOK
  <2>8. RidgeResources'
    BY <1>0 DEF RidgeResources, RidgeControl, Before, Waiting, Joining, Reading, TypeOK
  <2>9. QED
    BY <1>0, <2>2, <2>3, <2>4, <2>5, <2>6, <2>7, <2>8, MainLeavesData, TypeInParts DEF IInv
<1>6. CASE AwaitKilled
  <2> USE <1>6 DEF AwaitKilled
  <2>1. Switches'
    BY <1>0 DEF PipesTypeOK, Switches
  <2>2. PipesTypeOK'
    BY <1>0, <2>1, FaultAssumption DEF PipesTypeOK, Switches
  <2>3. Places' /\ Clocks'
    BY <1>0 DEF TypeOK, Places, Clocks, Errors, Before, Waiting, Joining, Reading
  <2>4. Belongings' /\ seen' \in 0 .. Size /\ seen' <= disk'
    BY <1>0 DEF TypeOK, PipesTypeOK, Belongings
  <2>5. MainLeaves
    BY <1>0 DEF MainLeaves, NotStarted, Before, RidgeControl
  <2>6. Accepted' /\ NotStarted' /\ Announced'
    BY <1>0 DEF Accepted, NotStarted, Announced, Before, Drained, RidgeControl
  <2>7. RidgeControl'
    BY <1>0
       DEF RidgeControl, Before, Waiting, Joining, Reading, Settled, Drained, TypeOK, PipesTypeOK
  <2>8. RidgeResources'
    BY <1>0 DEF RidgeResources, RidgeControl, Before, Waiting, Joining, Reading, TypeOK
  <2>9. QED
    BY <1>0, <2>2, <2>3, <2>4, <2>5, <2>6, <2>7, <2>8, MainLeavesData, TypeInParts DEF IInv
<1>7. CASE CloseAfterFailedStart
  <2> USE <1>7 DEF CloseAfterFailedStart
  <2>1. Switches'
    BY <1>0 DEF PipesTypeOK, Switches
  <2>2. PipesTypeOK'
    BY <1>0, <2>1, FaultAssumption DEF PipesTypeOK, Switches
  <2>3. Places' /\ Clocks'
    BY <1>0 DEF TypeOK, Places, Clocks, Errors, Before, Waiting, Joining, Reading
  <2>4. Belongings' /\ seen' \in 0 .. Size /\ seen' <= disk'
    BY <1>0 DEF TypeOK, PipesTypeOK, Belongings
  <2>5. MainLeaves
    BY <1>0 DEF MainLeaves, NotStarted, Before, RidgeControl
  <2>6. Accepted' /\ NotStarted' /\ Announced'
    BY <1>0 DEF Accepted, NotStarted, Announced, Before, Drained, RidgeControl
  <2>7. RidgeControl'
    BY <1>0
       DEF RidgeControl, Before, Waiting, Joining, Reading, Settled, Drained, TypeOK, PipesTypeOK
  <2>8. RidgeResources'
    BY <1>0 DEF RidgeResources, RidgeControl, Before, Waiting, Joining, Reading, TypeOK
  <2>9. QED
    BY <1>0, <2>2, <2>3, <2>4, <2>5, <2>6, <2>7, <2>8, MainLeavesData, TypeInParts DEF IInv
<1>8. CASE JoinStarted
  <2> USE <1>8 DEF JoinStarted
  <2>1. Switches'
    BY <1>0 DEF PipesTypeOK, Switches
  <2>2. PipesTypeOK'
    BY <1>0, <2>1, FaultAssumption DEF PipesTypeOK, Switches
  <2>3. Places' /\ Clocks'
    BY <1>0 DEF TypeOK, Places, Clocks, Errors, Before, Waiting, Joining, Reading
  <2>4. Belongings' /\ seen' \in 0 .. Size /\ seen' <= disk'
    BY <1>0 DEF TypeOK, PipesTypeOK, Belongings
  <2>5. MainLeaves
    BY <1>0 DEF MainLeaves, NotStarted, Before, RidgeControl
  <2>6. Accepted' /\ NotStarted' /\ Announced'
    BY <1>0 DEF Accepted, NotStarted, Announced, Before, Drained, RidgeControl
  <2>7. RidgeControl'
    BY <1>0
       DEF RidgeControl, Before, Waiting, Joining, Reading, Settled, Drained, TypeOK, PipesTypeOK
  <2>8. RidgeResources'
    BY <1>0 DEF RidgeResources, RidgeControl, Before, Waiting, Joining, Reading, TypeOK
  <2>9. QED
    BY <1>0, <2>2, <2>3, <2>4, <2>5, <2>6, <2>7, <2>8, MainLeavesData, TypeInParts DEF IInv
<1>9. CASE Poll
  <2> USE <1>9 DEF Poll, SendKill
  <2>1. Switches'
    BY <1>0 DEF PipesTypeOK, Switches
  <2>2. PipesTypeOK'
    BY <1>0, <2>1, FaultAssumption DEF PipesTypeOK, Switches
  <2>3. Places' /\ Clocks'
    BY <1>0 DEF TypeOK, Places, Clocks, Errors, Before, Waiting, Joining, Reading
  <2>4. Belongings' /\ seen' \in 0 .. Size /\ seen' <= disk'
    BY <1>0 DEF TypeOK, PipesTypeOK, Belongings
  <2>5. MainLeaves
    BY <1>0 DEF MainLeaves, NotStarted, Before, RidgeControl
  <2>6. Accepted' /\ NotStarted' /\ Announced'
    BY <1>0 DEF Accepted, NotStarted, Announced, Before, Drained, RidgeControl
  <2>7. RidgeControl'
    BY <1>0
       DEF RidgeControl, Before, Waiting, Joining, Reading, Settled, Drained, TypeOK, PipesTypeOK
  <2>8. RidgeResources'
    BY <1>0 DEF RidgeResources, RidgeControl, Before, Waiting, Joining, Reading, TypeOK
  <2>9. QED
    BY <1>0, <2>2, <2>3, <2>4, <2>5, <2>6, <2>7, <2>8, MainLeavesData, TypeInParts DEF IInv
<1>10. CASE RidgeReap
  <2> USE <1>10 DEF RidgeReap, SendKill
  <2>1. Switches'
    BY <1>0 DEF PipesTypeOK, Switches
  <2>2. PipesTypeOK'
    BY <1>0, <2>1, FaultAssumption DEF PipesTypeOK, Switches
  <2>3. Places' /\ Clocks'
    BY <1>0 DEF TypeOK, Places, Clocks, Errors, Before, Waiting, Joining, Reading
  <2>4. Belongings' /\ seen' \in 0 .. Size /\ seen' <= disk'
    BY <1>0 DEF TypeOK, PipesTypeOK, Belongings
  <2>5. MainLeaves
    BY <1>0 DEF MainLeaves, NotStarted, Before, RidgeControl
  <2>6. Accepted' /\ NotStarted' /\ Announced'
    BY <1>0 DEF Accepted, NotStarted, Announced, Before, Drained, RidgeControl
  <2>7. RidgeControl'
    BY <1>0
       DEF RidgeControl, Before, Waiting, Joining, Reading, Settled, Drained, TypeOK, PipesTypeOK
  <2>8. RidgeResources'
    BY <1>0 DEF RidgeResources, RidgeControl, Before, Waiting, Joining, Reading, TypeOK
  <2>9. QED
    BY <1>0, <2>2, <2>3, <2>4, <2>5, <2>6, <2>7, <2>8, MainLeavesData, TypeInParts DEF IInv
<1>11. CASE RidgeJoin
  <2> USE <1>11 DEF RidgeJoin
  <2>1. Switches'
    BY <1>0 DEF PipesTypeOK, Switches
  <2>2. PipesTypeOK'
    BY <1>0, <2>1, FaultAssumption DEF PipesTypeOK, Switches
  <2>3. Places' /\ Clocks'
    BY <1>0 DEF TypeOK, Places, Clocks, Errors, Before, Waiting, Joining, Reading
  <2>4. Belongings' /\ seen' \in 0 .. Size /\ seen' <= disk'
    BY <1>0 DEF TypeOK, PipesTypeOK, Belongings
  <2>5. MainLeaves
    BY <1>0 DEF MainLeaves, NotStarted, Before, RidgeControl
  <2>6. Accepted' /\ NotStarted' /\ Announced'
    BY <1>0 DEF Accepted, NotStarted, Announced, Before, Drained, RidgeControl
  <2>7. RidgeControl'
    BY <1>0
       DEF RidgeControl, Before, Waiting, Joining, Reading, Settled, Drained, TypeOK, PipesTypeOK
  <2>8. RidgeResources'
    BY <1>0 DEF RidgeResources, RidgeControl, Before, Waiting, Joining, Reading, TypeOK
  <2>9. QED
    BY <1>0, <2>2, <2>3, <2>4, <2>5, <2>6, <2>7, <2>8, MainLeavesData, TypeInParts DEF IInv
<1>12. CASE RidgeClosePipes
  <2> USE <1>12 DEF RidgeClosePipes, SendKill
  <2>1. Switches'
    BY <1>0 DEF PipesTypeOK, Switches
  <2>2. PipesTypeOK'
    BY <1>0, <2>1, FaultAssumption DEF PipesTypeOK, Switches
  <2>3. Places' /\ Clocks'
    BY <1>0 DEF TypeOK, Places, Clocks, Errors, Before, Waiting, Joining, Reading
  <2>4. Belongings' /\ seen' \in 0 .. Size /\ seen' <= disk'
    BY <1>0 DEF TypeOK, PipesTypeOK, Belongings
  <2>5. MainLeaves
    BY <1>0 DEF MainLeaves, NotStarted, Before, RidgeControl
  <2>6. Accepted' /\ NotStarted' /\ Announced'
    BY <1>0 DEF Accepted, NotStarted, Announced, Before, Drained, RidgeControl
  <2>7. RidgeControl'
    BY <1>0
       DEF RidgeControl, Before, Waiting, Joining, Reading, Settled, Drained, TypeOK, PipesTypeOK
  <2>8. RidgeResources'
    BY <1>0 DEF RidgeResources, RidgeControl, Before, Waiting, Joining, Reading, TypeOK
  <2>9. QED
    BY <1>0, <2>2, <2>3, <2>4, <2>5, <2>6, <2>7, <2>8, MainLeavesData, TypeInParts DEF IInv
<1>13. CASE RidgeRejoin
  <2> USE <1>13 DEF RidgeRejoin
  <2>1. Switches'
    BY <1>0 DEF PipesTypeOK, Switches
  <2>2. PipesTypeOK'
    BY <1>0, <2>1, FaultAssumption DEF PipesTypeOK, Switches
  <2>3. Places' /\ Clocks'
    BY <1>0 DEF TypeOK, Places, Clocks, Errors, Before, Waiting, Joining, Reading
  <2>4. Belongings' /\ seen' \in 0 .. Size /\ seen' <= disk'
    BY <1>0 DEF TypeOK, PipesTypeOK, Belongings
  <2>5. MainLeaves
    BY <1>0 DEF MainLeaves, NotStarted, Before, RidgeControl
  <2>6. Accepted' /\ NotStarted' /\ Announced'
    BY <1>0 DEF Accepted, NotStarted, Announced, Before, Drained, RidgeControl
  <2>7. RidgeControl'
    BY <1>0
       DEF RidgeControl, Before, Waiting, Joining, Reading, Settled, Drained, TypeOK, PipesTypeOK
  <2>8. RidgeResources'
    BY <1>0 DEF RidgeResources, RidgeControl, Before, Waiting, Joining, Reading, TypeOK
  <2>9. QED
    BY <1>0, <2>2, <2>3, <2>4, <2>5, <2>6, <2>7, <2>8, MainLeavesData, TypeInParts DEF IInv
<1>14. CASE RidgeVerdict
  <2>0. /\ pc = "verdict" /\ MainLeaves /\ PipesTypeOK' /\ seen' = seen
        /\ UNCHANGED <<answer, conforms, child, rc, killed, outPc, errPc, overflow, outError>>
    BY <1>0, <1>14, FaultAssumption DEF RidgeVerdict, PipesTypeOK, MainLeaves
  <2>1. UNCHANGED <<timedOut, late, trouble, requestFd, owner, workspace, disk, made>>
    BY <1>14 DEF RidgeVerdict
  <2>2. PICK cleanup \in {trouble, "failed"} :
            \/ Complaint(cleanup) = "none" /\ pc' = "stat" /\ outcome' = outcome
               /\ responseFd' = responseFd
            \/ Complaint(cleanup) # "none" /\ pc' = "leave" /\ outcome' = Complaint(cleanup)
               /\ responseFd' = "closed"
    BY <1>14 DEF RidgeVerdict, Leaves
  <2>3. cleanup \in {"none", "failed", "interrupted"}
    BY <1>a DEF TypeOK
  <2> DEFINE complaint == Complaint(cleanup)
  <2>4. /\ complaint \in {"none", "interrupted", "execution", "protocol"}
        /\ complaint = "none" => /\ outcome \notin {"interrupted", "execution"}
                                 /\ cleanup = "none"
                                 /\ ~timedOut /\ ~overflow /\ ~outError /\ ~errError
    BY <1>a, <2>3, Complaints
  <2>5. \/ complaint = "none" /\ pc' = "stat" /\ outcome' = outcome /\ responseFd' = responseFd
        \/ complaint # "none" /\ pc' = "leave" /\ outcome' = complaint /\ responseFd' = "closed"
    BY <2>2
  <2> HIDE DEF complaint
  <2>6. complaint = "none" => /\ outcome = "none" /\ child = "dead" /\ Drained
                              /\ ~timedOut /\ ~overflow /\ ~outError
    BY <1>0, <2>0, <2>2, <2>4 DEF RidgeControl, Joining
  <2>7. TypeOK' /\ seen' <= disk'
    BY <1>a, <2>0, <2>1, <2>4, <2>5, TypeInParts
       DEF TypeOK, Places, Clocks, Belongings, Errors, Joining, Reading, Waiting
  <2>8. Accepted' /\ NotStarted' /\ Announced'
    BY <1>0, <2>0, <2>1, <2>4, <2>5, <2>6 DEF Accepted, NotStarted, Announced, Before
  <2>9. RidgeControl'
    BY <1>0, <2>0, <2>1, <2>4, <2>5, <2>6
       DEF RidgeControl, Before, Waiting, Joining, Reading, Settled, Drained
  <2>10. RidgeResources'
    BY <1>0, <2>0, <2>1, <2>4, <2>5 DEF RidgeResources, Before, Waiting, Joining, Reading
  <2>11. QED
    BY <1>0, <1>a, <2>0, <2>7, <2>8, <2>9, <2>10, MainLeavesData DEF IInv
<1>15. CASE RidgeStat
  <2> USE <1>15 DEF RidgeStat, Closing
  <2>1. Switches'
    BY <1>0 DEF PipesTypeOK, Switches
  <2>2. PipesTypeOK'
    BY <1>0, <2>1, FaultAssumption DEF PipesTypeOK, Switches
  <2>3. Places' /\ Clocks'
    BY <1>0 DEF TypeOK, Places, Clocks, Errors, Before, Waiting, Joining, Reading
  <2>4. Belongings' /\ seen' \in 0 .. Size /\ seen' <= disk'
    BY <1>0 DEF TypeOK, PipesTypeOK, Belongings
  <2>5. MainLeaves
    BY <1>0 DEF MainLeaves, NotStarted, Before, RidgeControl
  <2>6. Accepted' /\ NotStarted' /\ Announced'
    BY <1>0 DEF Accepted, NotStarted, Announced, Before, Drained, RidgeControl
  <2>7. RidgeControl'
    BY <1>0
       DEF RidgeControl, Before, Waiting, Joining, Reading, Settled, Drained, TypeOK, PipesTypeOK
  <2>8. RidgeResources'
    BY <1>0 DEF RidgeResources, RidgeControl, Before, Waiting, Joining, Reading, TypeOK
  <2>9. QED
    BY <1>0, <2>2, <2>3, <2>4, <2>5, <2>6, <2>7, <2>8, MainLeavesData, TypeInParts DEF IInv
<1>16. CASE RidgeCheck
  <2> USE <1>16 DEF RidgeCheck
  <2>1. answer' \in {"success", "failure", "foreign"}
    BY <1>0 DEF Headers, Announced
  <2>2. Announced'
    BY <1>0 DEF Headers, Announced
  <2> DEFINE verdict == HeaderVerdict(answer', rc, seen)
  <2>3. /\ verdict \in {"result", "status", "protocol"}
        /\ verdict = "result" => answer' = "success" /\ rc = 0 /\ seen = Size
        /\ verdict = "status" => answer' = "failure" /\ rc # 0 /\ seen = 1
    BY <2>1, Verdicts
  <2>4. \/ verdict # "protocol" /\ pc' = "restat" /\ outcome' = outcome
            /\ responseFd' = responseFd
        \/ pc' = "leave" /\ outcome' = "protocol" /\ responseFd' = "closed"
    BY DEF Closing
  <2> HIDE DEF verdict
  <2>5. Switches'
    BY <1>0 DEF PipesTypeOK, Switches
  <2>6. PipesTypeOK'
    BY <1>0, <2>1, <2>5 DEF PipesTypeOK, Switches
  <2>7. TypeOK'
    BY <1>a, <2>4, <2>6, TypeInParts
       DEF TypeOK, Places, Clocks, Belongings, Errors, Joining, Reading, Waiting
  <2>8. MainLeaves /\ seen' <= disk'
    BY <1>0 DEF MainLeaves
  <2>9. outcome = "none" /\ ~timedOut /\ child = "dead" /\ Drained' /\ ~overflow /\ ~outError
    BY <1>0 DEF RidgeControl, Joining, Reading, Drained
  <2>10. Accepted' /\ NotStarted'
    BY <1>0, <2>4, <2>9 DEF Accepted, NotStarted, Before
  <2>11. RidgeControl'
    <3>1. (pc = "restat" => \/ answer = "success" /\ rc = 0 /\ seen = Size
                            \/ answer = "failure" /\ rc # 0 /\ seen = 1)'
      BY <2>3, <2>4
    <3>2. QED
      BY <1>0, <2>4, <2>9, <3>1 DEF RidgeControl, Before, Waiting, Joining, Reading, Settled
  <2>12. RidgeResources'
    BY <1>0, <2>4 DEF RidgeResources, Before, Waiting, Joining, Reading
  <2>13. QED
    BY <1>a, <2>2, <2>7, <2>8, <2>10, <2>11, <2>12, <1>0, MainLeavesData DEF IInv
<1>17. CASE RidgeRestat
  <2> DEFINE verdict == HeaderVerdict(answer, rc, seen)
  <2>0. /\ pc = "restat" /\ MainLeaves /\ PipesTypeOK' /\ seen' = seen
        /\ UNCHANGED <<answer, conforms, child, rc, killed, outPc, errPc, overflow, outError>>
    BY <1>0, <1>17, FaultAssumption DEF RidgeRestat, PipesTypeOK, MainLeaves
  <2>1. UNCHANGED <<timedOut, late, trouble, requestFd, owner, workspace, disk, made>>
    BY <1>17 DEF RidgeRestat
  <2>2. /\ pc' = "leave" /\ responseFd' = "closed"
        /\ outcome' = "protocol" \/ (disk = seen /\ outcome' = verdict)
    BY <1>17 DEF RidgeRestat, Closing, Leaves
  <2>3. \/ answer = "success" /\ rc = 0 /\ seen = Size
        \/ answer = "failure" /\ rc # 0 /\ seen = 1
    BY <1>0, <2>0 DEF RidgeControl
  <2>4. \/ verdict = "result" /\ answer = "success" /\ rc = 0 /\ seen = Size
        \/ verdict = "status" /\ answer = "failure" /\ rc # 0 /\ seen = 1
    BY <2>3 DEF HeaderVerdict
  <2> HIDE DEF verdict
  <2>5. child = "dead" /\ ~timedOut /\ Drained /\ ~overflow /\ ~outError
    BY <1>0, <2>0 DEF RidgeControl, Reading
  <2>6. disk = Size => made = Size
    BY <1>0, <2>5, AnswerAssumption, CappedBounds
       DEF DrainInv, Conserved, Bounded, Finished, Drained, PipesTypeOK
  <2>7. TypeOK' /\ seen' <= disk'
    BY <1>a, <2>0, <2>1, <2>2, <2>4, TypeInParts
       DEF TypeOK, Places, Clocks, Belongings, Errors
  <2>8. Accepted' /\ NotStarted' /\ Announced'
    BY <1>0, <2>0, <2>1, <2>2, <2>4, <2>5, <2>6
       DEF Accepted, NotStarted, Announced, Before, Drained
  <2>9. RidgeControl'
    BY <1>0, <2>0, <2>1, <2>2, <2>4, <2>5
       DEF RidgeControl, Before, Waiting, Joining, Reading, Settled
  <2>10. RidgeResources'
    BY <1>0, <2>0, <2>1, <2>2, <2>4 DEF RidgeResources, Before, Waiting, Joining, Reading
  <2>11. QED
    BY <1>0, <1>a, <2>0, <2>7, <2>8, <2>9, <2>10, MainLeavesData DEF IInv
<1>18. CASE Leave
  <2> USE <1>18 DEF Leave
  <2>1. Switches'
    BY <1>0 DEF PipesTypeOK, Switches
  <2>2. PipesTypeOK'
    BY <1>0, <2>1, FaultAssumption DEF PipesTypeOK, Switches
  <2>3. Places' /\ Clocks'
    BY <1>0 DEF TypeOK, Places, Clocks, Errors, Before, Waiting, Joining, Reading
  <2>4. Belongings' /\ seen' \in 0 .. Size /\ seen' <= disk'
    BY <1>0 DEF TypeOK, PipesTypeOK, Belongings
  <2>5. MainLeaves
    BY <1>0 DEF MainLeaves, NotStarted, Before, RidgeControl
  <2>6. Accepted' /\ NotStarted' /\ Announced'
    BY <1>0 DEF Accepted, NotStarted, Announced, Before, Drained, RidgeControl
  <2>7. RidgeControl'
    BY <1>0
       DEF RidgeControl, Before, Waiting, Joining, Reading, Settled, Drained, TypeOK, PipesTypeOK
  <2>8. RidgeResources'
    BY <1>0 DEF RidgeResources, RidgeControl, Before, Waiting, Joining, Reading, TypeOK
  <2>9. QED
    BY <1>0, <2>2, <2>3, <2>4, <2>5, <2>6, <2>7, <2>8, MainLeavesData, TypeInParts DEF IInv
<1>19. CASE InterruptWait
  <2> USE <1>19 DEF InterruptWait, SendKill
  <2>1. Switches'
    BY <1>0 DEF PipesTypeOK, Switches
  <2>2. PipesTypeOK'
    BY <1>0, <2>1, FaultAssumption DEF PipesTypeOK, Switches
  <2>3. Places' /\ Clocks'
    BY <1>0 DEF TypeOK, Places, Clocks, Errors, Before, Waiting, Joining, Reading
  <2>4. Belongings' /\ seen' \in 0 .. Size /\ seen' <= disk'
    BY <1>0 DEF TypeOK, PipesTypeOK, Belongings
  <2>5. MainLeaves
    BY <1>0 DEF MainLeaves, NotStarted, Before, RidgeControl
  <2>6. Accepted' /\ NotStarted' /\ Announced'
    BY <1>0 DEF Accepted, NotStarted, Announced, Before, Drained, RidgeControl
  <2>7. RidgeControl'
    BY <1>0
       DEF RidgeControl, Before, Waiting, Joining, Reading, Settled, Drained, TypeOK, PipesTypeOK
  <2>8. RidgeResources'
    BY <1>0 DEF RidgeResources, RidgeControl, Before, Waiting, Joining, Reading, TypeOK
  <2>9. QED
    BY <1>0, <2>2, <2>3, <2>4, <2>5, <2>6, <2>7, <2>8, MainLeavesData, TypeInParts DEF IInv
<1>20. CASE InterruptJoin
  <2> USE <1>20 DEF InterruptJoin
  <2>1. Switches'
    BY <1>0 DEF PipesTypeOK, Switches
  <2>2. PipesTypeOK'
    BY <1>0, <2>1, FaultAssumption DEF PipesTypeOK, Switches
  <2>3. Places' /\ Clocks'
    BY <1>0 DEF TypeOK, Places, Clocks, Errors, Before, Waiting, Joining, Reading
  <2>4. Belongings' /\ seen' \in 0 .. Size /\ seen' <= disk'
    BY <1>0 DEF TypeOK, PipesTypeOK, Belongings
  <2>5. MainLeaves
    BY <1>0 DEF MainLeaves, NotStarted, Before, RidgeControl
  <2>6. Accepted' /\ NotStarted' /\ Announced'
    BY <1>0 DEF Accepted, NotStarted, Announced, Before, Drained, RidgeControl
  <2>7. RidgeControl'
    BY <1>0
       DEF RidgeControl, Before, Waiting, Joining, Reading, Settled, Drained, TypeOK, PipesTypeOK
  <2>8. RidgeResources'
    BY <1>0 DEF RidgeResources, RidgeControl, Before, Waiting, Joining, Reading, TypeOK
  <2>9. QED
    BY <1>0, <2>2, <2>3, <2>4, <2>5, <2>6, <2>7, <2>8, MainLeavesData, TypeInParts DEF IInv
<1>21. CASE InterruptRead
  <2> USE <1>21 DEF InterruptRead, Closing
  <2>1. Switches'
    BY <1>0 DEF PipesTypeOK, Switches
  <2>2. PipesTypeOK'
    BY <1>0, <2>1, FaultAssumption DEF PipesTypeOK, Switches
  <2>3. Places' /\ Clocks'
    BY <1>0 DEF TypeOK, Places, Clocks, Errors, Before, Waiting, Joining, Reading
  <2>4. Belongings' /\ seen' \in 0 .. Size /\ seen' <= disk'
    BY <1>0 DEF TypeOK, PipesTypeOK, Belongings
  <2>5. MainLeaves
    BY <1>0 DEF MainLeaves, NotStarted, Before, RidgeControl
  <2>6. Accepted' /\ NotStarted' /\ Announced'
    BY <1>0 DEF Accepted, NotStarted, Announced, Before, Drained, RidgeControl
  <2>7. RidgeControl'
    BY <1>0
       DEF RidgeControl, Before, Waiting, Joining, Reading, Settled, Drained, TypeOK, PipesTypeOK
  <2>8. RidgeResources'
    BY <1>0 DEF RidgeResources, RidgeControl, Before, Waiting, Joining, Reading, TypeOK
  <2>9. QED
    BY <1>0, <2>2, <2>3, <2>4, <2>5, <2>6, <2>7, <2>8, MainLeavesData, TypeInParts DEF IInv
<1>22. CASE Deadline
  <2> USE <1>22 DEF Deadline, SendKill
  <2>1. Switches'
    BY <1>0 DEF PipesTypeOK, Switches
  <2>2. PipesTypeOK'
    BY <1>0, <2>1, FaultAssumption DEF PipesTypeOK, Switches
  <2>3. Places' /\ Clocks'
    BY <1>0 DEF TypeOK, Places, Clocks, Errors, Before, Waiting, Joining, Reading
  <2>4. Belongings' /\ seen' \in 0 .. Size /\ seen' <= disk'
    BY <1>0 DEF TypeOK, PipesTypeOK, Belongings
  <2>5. MainLeaves
    BY <1>0 DEF MainLeaves, NotStarted, Before, RidgeControl
  <2>6. Accepted' /\ NotStarted' /\ Announced'
    BY <1>0 DEF Accepted, NotStarted, Announced, Before, Drained, RidgeControl
  <2>7. RidgeControl'
    BY <1>0
       DEF RidgeControl, Before, Waiting, Joining, Reading, Settled, Drained, TypeOK, PipesTypeOK
  <2>8. RidgeResources'
    BY <1>0 DEF RidgeResources, RidgeControl, Before, Waiting, Joining, Reading, TypeOK
  <2>9. QED
    BY <1>0, <2>2, <2>3, <2>4, <2>5, <2>6, <2>7, <2>8, MainLeavesData, TypeInParts DEF IInv
<1>23. QED
  BY <1>1, <1>2, <1>3, <1>4, <1>5, <1>6, <1>7, <1>8, <1>9, <1>10, <1>11, <1>12, <1>13, <1>14,
     <1>15, <1>16, <1>17, <1>18, <1>19, <1>20, <1>21, <1>22 DEF RidgeMain, RidgeInterrupt

-----------------------------------------------------------------------------
(* The theorems. *)

LEMMA InitInv == Init => IInv
<1> SUFFICES ASSUME Init PROVE IInv
  OBVIOUS
<1> USE DEF Init, CallInit, PipesInit
<1>1. Switches
  BY DEF Switches
<1>2. PipesTypeOK
  BY <1>1, AnswerAssumption, ChildAssumption, PipeAssumption, FaultAssumption
     DEF PipesTypeOK, Switches
<1>3. TypeOK
  <2>1. timedOut \in BOOLEAN /\ late \in BOOLEAN
    OBVIOUS
  <2>2. seen \in 0 .. Size
    BY AnswerAssumption
  <2>3. QED
    BY <1>2, <2>1, <2>2 DEF TypeOK
<1>4. DrainInv
  BY AnswerAssumption DEF DrainInv, Conserved, Bounded, Finished, Capped
<1>5. Accepted /\ NotStarted /\ Announced /\ seen <= disk
  BY DEF Accepted, NotStarted, Announced
<1>6. PreparedControl /\ PreparedResources
  BY DEF PreparedControl, PreparedResources, Before, Waiting, Joining, Reading
<1>7. RidgeControl /\ RidgeResources
  BY DEF RidgeControl, RidgeResources, Before, Waiting, Joining, Reading
<1>8. QED
  BY <1>3, <1>4, <1>5, <1>6, <1>7 DEF IInv

LEMMA NextInv == IInv /\ [Next]_vars => IInv'
<1> SUFFICES ASSUME IInv, [Next]_vars PROVE IInv'
  OBVIOUS
<1>1. TypeOK /\ PipesTypeOK /\ DrainInv
  BY DEF IInv, TypeOK
<1>2. CASE Main
  BY <1>2, PreparedKeeps, RidgeKeeps DEF Main
<1>3. CASE Expires
  BY <1>1, <1>3, PreparedKeeps, RidgeKeeps DEF Expires, TypeOK
<1>4. CASE Interrupted
  BY <1>4, PreparedKeeps, RidgeKeeps DEF Interrupted
<1>5. CASE Ended \/ UNCHANGED vars
  <2>1. /\ UNCHANGED <<adapter, call, resources>> /\ UNCHANGED pipeVars
    BY <1>5 DEF Ended, vars
  <2>2. PipesTypeOK' /\ DrainInv' /\ Beneath
    <3> USE <2>1 DEF pipeVars, plan, process, pipes, outDrain, errDrain
    <3>1. PipesTypeOK'
      BY <1>1 DEF PipesTypeOK
    <3>2. DrainInv'
      BY <1>1 DEF DrainInv, Conserved, Bounded, Finished, Capped
    <3>3. Beneath
      BY <1>1 DEF Beneath, PipesTypeOK, Drained
    <3>4. QED
      BY <3>1, <3>2, <3>3
  <2>3. QED
    BY <2>1, <2>2, BesideKeeps
<1>6. CASE Beside(Child \/ ChildCrashes \/ SignalArrives \/ DrainFails)
  <2>1. UNCHANGED <<adapter, call, resources>>
    BY <1>6 DEF Beside
  <2>2. CASE Child \/ ChildCrashes \/ SignalArrives
    BY <1>1, <2>1, <2>2, ChildStep, BesideKeeps
  <2>3. CASE DrainFails
    BY <1>1, <2>1, <2>3, OutDrainStep, ErrDrainStep, BesideKeeps DEF DrainFails
  <2>4. QED
    BY <1>6, <2>2, <2>3 DEF Beside
<1>7. CASE Beside(OutStep)
  BY <1>1, <1>7, OutDrainStep, BesideKeeps DEF Beside
<1>8. CASE Beside(ErrStep)
  BY <1>1, <1>8, ErrDrainStep, BesideKeeps DEF Beside
<1>9. QED
  BY <1>2, <1>3, <1>4, <1>5, <1>6, <1>7, <1>8 DEF Next

\* Whatever the child, the drains and the deadline do beside the statements of
\* either adapter, the inductive invariant holds throughout a call.
THEOREM SessionInductive == Spec => []IInv
<1>1. Init => IInv
  BY InitInv
<1>2. IInv /\ [Next]_vars => IInv'
  BY NextInv
<1>3. QED
  BY <1>1, <1>2, PTL DEF Spec

\* Every variable of a native call keeps its range.
THEOREM SessionTypes == Spec => []TypeOK
<1>1. IInv => TypeOK
  BY DEF IInv
<1>2. QED
  BY <1>1, SessionInductive, PTL

\* A result or a structured failure is only what a dead child announced, exited
\* with and wrote in full: _capture and _load_result of either adapter.
THEOREM OnlyTheChildsAnswer == Spec => []AnswersMatchChild
<1>1. IInv => AnswersMatchChild
  BY AnswerAssumption
     DEF IInv, AnswersMatchChild, Accepted, DrainInv, Bounded, TypeOK, PipesTypeOK
<1>2. QED
  BY <1>1, SessionInductive, PTL

\* Whichever of the launch, the drains and the reaping goes wrong, the child has
\* ended or was sent SIGKILL when the call ends, unless an interrupt of the
\* prepared adapter left it to itself.
THEOREM NoChildIsLeft == Spec => []ChildNeverOrphaned
<1>1. IInv => ChildNeverOrphaned
  BY DEF IInv, TypeOK, ChildNeverOrphaned, Settled, PreparedControl, RidgeControl, Before, Waiting
<1>2. QED
  BY <1>1, SessionInductive, PTL

\* The descriptors and the workspace of a call are released or belong to its
\* result, exactly as the finally clauses and the hand-over intend.
THEOREM NothingLeaks == Spec => []HandOverIsExact
<1>1. IInv => HandOverIsExact
  BY DEF IInv, TypeOK, HandOverIsExact, PreparedResources, RidgeResources,
         Before, Waiting, Joining, Reading
<1>2. QED
  BY <1>1, SessionInductive, PTL

\* No drain that outlived the joins writes to the file of an accepted result: the
\* file is full, and what it takes beyond the limit is dropped.
THEOREM ResultsStayPut == Spec => AcceptedNeverChanges
<1>1. IInv /\ IInv' /\ [Next]_vars => [outcome = "result" => disk' = disk]_vars
  <2> SUFFICES ASSUME IInv, IInv', [Next]_vars, outcome = "result" PROVE disk' = disk
    BY DEF vars
  <2>1. disk = Size /\ (outcome' = "result" => disk' = Size)
    BY DEF IInv, Accepted
  <2>2. CASE Main \/ Expires \/ Interrupted
    <3>1. adapter \in {"prepared", "ridge"}
      BY DEF IInv, TypeOK
    <3>2. MainLeaves
      BY <2>2, <3>1, PreparedKeeps, RidgeKeeps DEF Main, Expires, Interrupted
    <3>3. QED
      BY <3>2 DEF MainLeaves
  <2>3. CASE UNCHANGED call
    BY <2>1, <2>3 DEF call
  <2>4. CASE UNCHANGED vars
    BY <2>4 DEF vars, pipeVars, outDrain
  <2>5. QED
    BY <2>2, <2>3, <2>4 DEF Next, Ended, Beside, vars
<1>2. QED
  BY <1>1, SessionInductive, PTL DEF AcceptedNeverChanges, Spec
=============================================================================
