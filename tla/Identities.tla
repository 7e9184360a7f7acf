----------------------------- MODULE Identities ------------------------------
(* The identities that the follow graph and the fetcher of new heads are about. *)

CONSTANTS
  Ids,           \* identities, numbered in the order of RostraId
  SelfId         \* the identity this database and its client belong to

ASSUME SelfAssumption == SelfId \in Ids
=============================================================================
