---------------------------- MODULE BundleRefines ----------------------------
(***************************************************************************)
(* The step-by-step replacement implements its contract: which document a  *)
(* destination shows is decided by the inode behind its name.              *)
(***************************************************************************)
EXTENDS AtomicBundle

Shown(inode) == IF inode = "new" THEN "new" ELSE "old"

Contract == INSTANCE BundleContract WITH
    vis    <- [i \in Slots |-> Shown(dest[i])],
    mode   <- IF failed THEN "restoring" ELSE "publishing",
    lost   <- unverified,
    result <- IF outcome = "none" THEN "running" ELSE outcome

\* The call publishes in order, takes back in reverse order, answers truthfully
\* and always answers: all faults, interrupts and crashes included.
ImplementsContract == Contract!Spec

\* The part of the contract that forbids steps.
ContractSafety == Contract!Init /\ [][Contract!Next]_Contract!vars
=============================================================================
