------------------------ MODULE MCPayloadAccounting -------------------------
(***************************************************************************)
(* Two authors.  Posts 1 and 4 share hash 1 (4 is invalid, so it releases  *)
(* its reference by itself), 3 deletes 1, and 2 is a post whose bytes,     *)
(* hash 2, the non-post 3 shares and guards, although 3 turns out invalid. *)
(* The allowance of a turn is for one payload.                             *)
(***************************************************************************)
EXTENDS PayloadAccounting, TLC

H(a, hash, aux, del, ok, post) ==
  [author |-> a, content_hash |-> hash, parent_aux |-> aux, parent_prev |-> None,
   delete_parent_aux |-> del, size |-> "normal", valid |-> ok,
   kind |-> IF post THEN "SOCIAL_POST" ELSE "other", text |-> TRUE,
   remote_post |-> post]

Universe ==
  (1 :> H(1, 1, None, FALSE, TRUE, TRUE)) @@
  (2 :> H(2, 2, None, FALSE, TRUE, TRUE)) @@
  (3 :> H(1, 2, 1, TRUE, FALSE, FALSE)) @@
  (4 :> H(2, 1, None, FALSE, FALSE, TRUE))

MCHeader == [e \in EventIds |-> ("order" :> e) @@ Universe[e]]
MCContentLen == (1 :> 1) @@ (2 :> 1)
=============================================================================
