---------------------------- MODULE MCFollowGraph ---------------------------
(***************************************************************************)
(* Identity 1 owns the database.  It follows 2 three times and unfollows 2 *)
(* twice in between, two of these at one timestamp; 2 follows 3 and stops, *)
(* 3 follows 1, and 1 follows 3.                                           *)
(***************************************************************************)
EXTENDS FollowGraph, TLC

F(a, b, un, rank, t) ==
  [author |-> a, followee |-> b, unfollow |-> un, order |-> rank, ts |-> t]

MCEvent ==
  << F(1, 2, FALSE, 1, 1), F(1, 2, TRUE, 2, 2), F(1, 2, FALSE, 3, 2),
     F(1, 2, TRUE, 4, 3), F(1, 2, FALSE, 5, 4), F(1, 2, FALSE, 6, 5),
     F(2, 3, FALSE, 7, 6), F(2, 3, TRUE, 8, 7), F(3, 1, FALSE, 9, 8),
     F(1, 3, FALSE, 10, 9) >>
=============================================================================
