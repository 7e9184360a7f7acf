----------------------- MODULE MCMissingEventFetcher -----------------------
(***************************************************************************)
(* Two or three authors and a channel and a page for one of them, so that  *)
(* lag and further pages happen; two events each, so that a fetched event  *)
(* can name another missing one.                                           *)
(***************************************************************************)
EXTENDS MissingEventFetcher
=============================================================================
