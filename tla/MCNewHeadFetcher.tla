-------------------------- MODULE MCNewHeadFetcher --------------------------
(***************************************************************************)
(* A queue of one author, a channel of one message and a page of one       *)
(* author, so that each of them is full in most behaviours.  At first the   *)
(* web of trust is empty: a publication admits the other author.            *)
(***************************************************************************)
EXTENDS NewHeadFetcher

MCInit == FetcherInit /\ wot = {}
MCFetcherSpec == MCInit /\ [][FetcherNext]_fetcherVars /\ FetcherFairness
=============================================================================
