-------------------------- MODULE MCStoreSnapshot --------------------------
(***************************************************************************)
(* Writers are interchangeable, and so are the threads that share a store. *)
(***************************************************************************)
EXTENDS StoreSnapshot, TLC

MCSymmetry == Permutations(Writers) \cup Permutations(Threads)
=============================================================================
