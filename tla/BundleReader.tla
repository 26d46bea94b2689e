---------------------------- MODULE BundleReader ----------------------------
(***************************************************************************)
(* A route command loads a predictor and the policy bound to it while a    *)
(* train command replaces the pair.  The two loads are separate reads; the *)
(* policy carries the hash of its predictor and the loader refuses a pair  *)
(* that does not match.                                                    *)
(***************************************************************************)
EXTENDS BundleRefines

ASSUME PairAssumption == N >= 2

VARIABLES
    rpc,       \* where the reader is
    predictor, \* the version of the predictor it loaded
    policy,    \* the version of the policy it loaded
    coexisted, \* the pairs that were on disk together at some time of this read
    calm       \* the call had settled cleanly when this read began

readerVars == <<rpc, predictor, policy, coexisted, calm>>

Predictor == 1
Policy    == 2
Version(inode) ==
    CASE inode = "absent" -> "none"
      [] inode = "new"    -> "new"
      [] OTHER            -> "old"
Visible == [i \in Slots |-> Version(dest[i])]
OnDisk == <<Visible[Predictor], Visible[Policy]>>

\* The call left one whole pair: it never ran, or it said so.
WholePair ==
    \/ outcome \in {"ok", "committed"}
    \/ outcome = "failed" /\ existed = Slots

ReaderInit ==
    /\ Init
    /\ rpc = "idle" /\ predictor = "none" /\ policy = "none"
    /\ coexisted = {} /\ calm = FALSE

StartRead ==
    /\ rpc \in {"idle", "accepted", "rejected"}
    /\ rpc' = "predictor"
    /\ predictor' = "none" /\ policy' = "none"
    /\ coexisted' = {OnDisk} /\ calm' = WholePair
    /\ UNCHANGED vars

\* BilinearPredictorArtifact.load: a missing file ends the command.
LoadPredictor ==
    /\ rpc = "predictor"
    /\ predictor' = Visible[Predictor]
    /\ rpc' = IF predictor' = "none" THEN "rejected" ELSE "policy"
    /\ UNCHANGED <<vars, policy, coexisted, calm>>

\* Mutant of Bound: any policy goes with any predictor.
BoundAlways(pred, pol) == TRUE

\* The policy names the hash of the one predictor it was tuned for.
Bound(pred, pol) == pol = pred

\* LambdaPolicyArtifact.load, then validate_predictor.
LoadPolicy ==
    /\ rpc = "policy"
    /\ policy' = Visible[Policy]
    /\ rpc' = IF policy' # "none" /\ Bound(predictor, policy')
              THEN "accepted" ELSE "rejected"
    /\ UNCHANGED <<vars, predictor, coexisted, calm>>

Read == StartRead \/ LoadPredictor \/ LoadPolicy

Write ==
    /\ Next
    /\ coexisted' = coexisted \cup {<<Version(dest'[Predictor]), Version(dest'[Policy])>>}
    /\ UNCHANGED <<rpc, predictor, policy, calm>>

ReaderNext == Read \/ Write

\* The call runs on beside any number of reads.
ReaderSpec ==
    /\ ReaderInit /\ [][ReaderNext]_<<vars, readerVars>>
    /\ WF_<<vars, readerVars>>(Call /\ Write)

-----------------------------------------------------------------------------
\* The pair a reader routes with was on disk as a pair at some moment of its
\* two loads, however the loads interleave with commit and rollback.
AcceptedPairCoexisted ==
    rpc = "accepted" => <<predictor, policy>> \in coexisted

\* Once the call has answered cleanly, no reader that starts afterwards is
\* refused: the documents left behind always belong together.
SettledPairLoads ==
    calm => rpc # "rejected"
=============================================================================
