---------------------------- MODULE MCDedupChan ----------------------------
(***************************************************************************)
(* Three handles, so that two clones of one receiver run next to another   *)
(* subscription, two items, and a queue that is full with one of them.     *)
(***************************************************************************)
EXTENDS DedupChan, TLC

ChanSymmetry == Permutations(Item) \cup Permutations(Receiver)
=============================================================================
