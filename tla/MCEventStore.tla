---------------------------- MODULE MCEventStore ----------------------------
(***************************************************************************)
(* A small universe of headers for EventStore.  Author A writes a post r,  *)
(* two events d1 and d2 that both delete r (d2, an edit whose content is   *)
(* invalid, names d1 as its previous event and is the lesser in            *)
(* EventOrder), and x, which deletes d2.  Author B's b, which is not a     *)
(* post, names A's root as the parent it would delete, so that parent      *)
(* never resolves; B's blank post c deletes b and the edit g deletes c.    *)
(* Hashes are shared across events and authors.                            *)
(***************************************************************************)
EXTENDS EventStore, TLC

CONSTANTS r, d1, d2, x, b, c, g, A, B, h0, h1, h2

H(a, hash, aux, prev, del, rank, size, ok, kind, text, remote) ==
  [author |-> a, content_hash |-> hash, parent_aux |-> aux, parent_prev |-> prev,
   delete_parent_aux |-> del, order |-> rank, size |-> size, valid |-> ok,
   kind |-> kind, text |-> text, remote_post |-> remote]

MCEventIds == {r, d1, d2, x, b, c, g}
MCAuthors == {A, B}
MCHashes == {h0, h1, h2}

MCHeader ==
  (r  :> H(A, h1, None, None, FALSE, 1, "normal", TRUE, "SOCIAL_POST", TRUE, TRUE)) @@
  (d1 :> H(A, h0, r, r, TRUE, 3, "empty", TRUE, "other", FALSE, FALSE)) @@
  (d2 :> H(A, h1, r, d1, TRUE, 2, "normal", FALSE, "SOCIAL_POST", TRUE, TRUE)) @@
  (x  :> H(A, h2, d2, d1, TRUE, 4, "oversized", TRUE, "other", FALSE, FALSE)) @@
  (b  :> H(B, h1, r, None, TRUE, 5, "normal", TRUE, "other", FALSE, FALSE)) @@
  (c  :> H(B, h1, b, None, TRUE, 6, "normal", TRUE, "SOCIAL_POST", FALSE, TRUE)) @@
  (g  :> H(B, h1, c, None, TRUE, 7, "normal", TRUE, "SOCIAL_POST", TRUE, FALSE))
=============================================================================
