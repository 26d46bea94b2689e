--------------------------- MODULE BundleContract ---------------------------
(***************************************************************************)
(* What replace_text_bundle promises, as its docstring and its error       *)
(* messages put it: documents become visible one at a time in input order, *)
(* are taken back in the reverse order, and the result of the call says    *)
(* which of the two whole states the destinations are in, or names those   *)
(* whose restoration was given up.                                         *)
(***************************************************************************)
EXTENDS Integers

CONSTANT N \* number of documents in the bundle

VARIABLES
    vis,    \* which document each destination shows
    mode,   \* "publishing", or "restoring" after an exception
    lost,   \* destinations whose restoration is not verified
    result  \* "running" until the call returns or raises

vars == <<vis, mode, lost, result>>

Documents == 1 .. N

AllNew == \A i \in Documents : vis[i] = "new"
AllOld == \A i \in Documents : vis[i] = "old"

Init ==
    /\ vis = [i \in Documents |-> "old"]
    /\ mode = "publishing" /\ lost = {} /\ result = "running"

\* The rename itself may be what raises, so publishing can turn into restoring.
Publish(i) ==
    /\ result = "running" /\ mode = "publishing"
    /\ vis[i] = "old"
    /\ \A j \in Documents : j < i => vis[j] = "new"
    /\ vis' = [vis EXCEPT ![i] = "new"]
    /\ mode' \in {"publishing", "restoring"}
    /\ UNCHANGED <<lost, result>>

Abort ==
    /\ result = "running" /\ mode = "publishing"
    /\ mode' = "restoring"
    /\ UNCHANGED <<vis, lost, result>>

\* Later documents go first; one whose restoration was given up no longer counts.
Restore(i) ==
    /\ result = "running" /\ mode = "restoring"
    /\ \A j \in Documents : j > i => vis[j] = "old" \/ j \in lost
    /\ vis' \in {vis, [vis EXCEPT ![i] = "old"]}
    /\ lost' \in {lost, lost \cup {i}}
    /\ UNCHANGED <<mode, result>>

Answers(r) ==
    CASE r \in {"ok", "committed"} -> mode = "publishing" /\ AllNew
      [] r = "failed"     -> mode = "restoring" /\ AllOld /\ lost = {}
      [] r = "incomplete" -> mode = "restoring" /\ \A i \in Documents : vis[i] = "old" \/ i \in lost
      [] OTHER            -> TRUE

Return ==
    /\ result = "running"
    /\ result' \in {"ok", "committed", "failed", "incomplete", "interrupted", "crashed"}
    /\ Answers(result')
    /\ UNCHANGED <<vis, mode, lost>>

Next == Abort \/ Return \/ \E i \in Documents : Publish(i) \/ Restore(i)

Spec == Init /\ [][Next]_vars /\ WF_vars(Next)
=============================================================================
