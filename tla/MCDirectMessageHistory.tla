----------------------- MODULE MCDirectMessageHistory -----------------------
(* Instances of DirectMessageHistory: pages of one message. *)
EXTENDS DirectMessageHistory
=============================================================================
