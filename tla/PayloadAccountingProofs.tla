----------------------- MODULE PayloadAccountingProofs -----------------------
(***************************************************************************)
(* Proofs about EventStore and PayloadAccounting, for any headers, hashes, *)
(* payload lengths and any allowance.  First the tables of the store: they *)
(* are functions of the headers that were inserted and of what happened to *)
(* their payloads.  Then the accounting that counts them: it is exact at   *)
(* every moment of its rebuild, no check of the maintenance worker ever    *)
(* fails, and the collector takes only bytes that nothing needs.           *)
(***************************************************************************)
EXTENDS PayloadAccounting, FiniteSetTheorems, WellFoundedInduction, TLAPS

-----------------------------------------------------------------------------
(* Facts about headers and lifecycle states *)

\* What a signed header can say: the accessors stay within their domains and no
\* event is its own parent.
LEMMA HeaderFacts ==
  \A e \in EventIds :
    /\ author(e) \in Authors
    /\ content_hash(e) \in Hashes
    /\ order(e) \in Nat
    /\ all_parents(e) \subseteq EventIds
    /\ e \notin all_parents(e)
BY HeaderAssumption, NoneAssumption, HashAssumption
   DEF HeaderType, author, content_hash, order, all_parents, parent_aux, parent_prev

\* A parent that is deleted is the aux parent.
LEMMA DeletesAux ==
  ASSUME NEW e \in EventIds, NEW p \in EventIds, DeletesParent(e, p)
  PROVE  p \in all_parents(e)
BY NoneAssumption DEF DeletesParent, all_parents

\* Every lifecycle state has its own usage bucket, none of them the total.
LEMMA BucketFacts ==
  /\ \A s \in ContentStates : BucketOf(s) \in Buckets \ {"total"}
  /\ \A s, t \in ContentStates : BucketOf(s) = BucketOf(t) => s = t
<1>1. /\ BucketOf("NoRow") = "current" /\ BucketOf("Missing") = "missing"
      /\ BucketOf("Deleted") = "deleted" /\ BucketOf("Pruned") = "pruned"
      /\ BucketOf("Invalid") = "invalid"
  BY DEF BucketOf
<1> QED  BY <1>1 DEF ContentStates, Buckets

\* Which states a transaction can leave a new event in.
LEMMA StateFacts ==
  ASSUME NEW e \in EventIds
  PROVE  /\ HeaderState(e) \in ContentStates
         /\ AfterContent(HeaderState(e), e) \in ContentStates
         /\ AfterContent("Missing", e) \in {"NoRow", "Invalid"}
BY DEF HeaderState, AfterContent, ContentStates

-----------------------------------------------------------------------------
(* Type correctness *)

\* Forgotten attempts keep their types.
LEMMA ForgottenTypeOK ==
  ASSUME TypeOK, NEW S
  PROVE  /\ Forgotten(next_fetch_attempt, S) \in [EventIds -> Times]
         /\ Forgotten(fetch_attempt_count, S) \in [EventIds -> 0 .. MaxAttempts]
BY BoundAssumption DEF TypeOK, Forgotten, Times

\* Inserting a header (insert_event_tx and what follows it) keeps the types.
LEMMA InsertTypeOK ==
  ASSUME TypeOK, NEW e \in EventIds, NEW s \in ContentStates, Insert(e, s)
  PROVE  TypeOK'
<1>1. \A p \in DeletedParents(e) : p \in EventIds /\ p \in events /\ author(p) = author(e)
  BY HeaderFacts DEF DeletedParents, IsPresent
<1>2. /\ events' \subseteq EventIds
      /\ events_missing' \subseteq Keys
      /\ events_heads' \subseteq Keys
  BY HeaderFacts DEF TypeOK, Insert, Keys, MissingParents, NewHeads
<1>3. missing_deleted_by' \in [Keys -> EventIds \cup {None}]
  BY DEF TypeOK, Insert, NewMissingDeletedBy, merge_deleted_by
<1>4. /\ content_state' \in [EventIds -> ContentStates]
      /\ deleted_by' \in [EventIds -> EventIds \cup {None}]
  BY HeaderFacts DEF TypeOK, Insert, NewDeletedBy, merge_deleted_by, ContentStates, Keys
<1>5. /\ next_fetch_attempt' \in [EventIds -> Times]
      /\ fetch_attempt_count' \in [EventIds -> 0 .. MaxAttempts]
  BY ForgottenTypeOK DEF Insert
<1>6. events_content_missing' \subseteq Times \X EventIds
  BY BoundAssumption DEF TypeOK, Insert, NewSchedule, Times
<1>7. content_store' \subseteq Hashes
  BY HeaderFacts DEF TypeOK, Insert
<1>8. content_rc' \in [Hashes -> Nat]
  <2> SUFFICES ASSUME NEW h \in Hashes
               PROVE  NewRefCount(e, s)[h] \in Nat
    BY DEF Insert, NewRefCount
  <2>1. content_rc[h] \in Nat
    BY DEF TypeOK
  <2>2. (\E p \in ReleasedParents(e) : content_hash(p) = h) => content_rc[h] # 0
    BY DEF ReleasedParents, Insert, InsertFails
  <2> QED  BY <2>1, <2>2 DEF NewRefCount
<1>9. ids_data_usage' \in [Authors -> [Buckets -> Nat]]
  <2> SUFFICES ASSUME NEW a \in Authors, a = author(e), NEW b \in Buckets
               PROVE  NewUsage(e, s)[a][b] \in Nat
    BY DEF Insert, NewUsage, TypeOK
  <2>1. ids_data_usage[a][b] \in Nat
    BY DEF TypeOK
  <2>2. ASSUME NEW p \in DeletedParents(e), content_state[p] # "Deleted",
               BucketOf(content_state[p]) = b
        PROVE  ids_data_usage[a][b] # 0
    BY <1>1, <2>2 DEF Insert, InsertFails
  <2> QED  BY <2>1, <2>2 DEF NewUsage
<1>10. projections' \in [EventIds -> Int]
  BY DEF TypeOK, Insert
<1> QED
  BY <1>2, <1>3, <1>4, <1>5, <1>6, <1>7, <1>8, <1>9, <1>10 DEF TypeOK, Insert

\* Processing the content of a Missing event keeps the types.
LEMMA ProcessMissingTypeOK ==
  ASSUME TypeOK, NEW e \in EventIds, ProcessMissing(e)
  PROVE  TypeOK'
<1> DEFINE s == AfterContent("Missing", e)
<1>1. s \in {"NoRow", "Invalid"} /\ s \in ContentStates
  BY StateFacts DEF ContentStates
<1>2. ids_data_usage' \in [Authors -> [Buckets -> Nat]]
  BY HeaderFacts DEF TypeOK, ProcessMissing, MoveUsage
<1>3. content_rc' \in [Hashes -> Nat]
  BY HeaderFacts DEF TypeOK, ProcessMissing
<1>4. content_state' \in [EventIds -> ContentStates] /\ content_store' \subseteq Hashes
  BY <1>1, HeaderFacts DEF TypeOK, ProcessMissing
<1>5. projections' \in [EventIds -> Int] /\ events_content_missing' \subseteq Times \X EventIds
  BY DEF TypeOK, ProcessMissing
<1> QED  BY <1>2, <1>3, <1>4, <1>5, ForgottenTypeOK DEF TypeOK, ProcessMissing, graphVars

\* Quota pruning keeps the types.
LEMMA PruneTypeOK ==
  ASSUME TypeOK, NEW e \in EventIds, prune_quota_payload(e)
  PROVE  TypeOK'
<1>1. ids_data_usage' \in [Authors -> [Buckets -> Nat]]
  <2>1. BucketOf(content_state[e]) \in Buckets
    BY BucketFacts DEF TypeOK
  <2> QED  BY <2>1, HeaderFacts DEF TypeOK, prune_quota_payload, MoveUsage
<1>2. content_rc' \in [Hashes -> Nat]
  BY HeaderFacts DEF TypeOK, prune_quota_payload
<1>3. content_state' \in [EventIds -> ContentStates]
  BY DEF TypeOK, prune_quota_payload, ContentStates
<1>4. /\ projections' \in [EventIds -> Int]
      /\ events_content_missing' \subseteq Times \X EventIds
      /\ events_quota_pruned' \subseteq EventIds
  BY DEF TypeOK, prune_quota_payload
<1> QED  BY <1>1, <1>2, <1>3, <1>4, ForgottenTypeOK DEF TypeOK, prune_quota_payload, graphVars

\* Failed and deferred fetches keep the types.
LEMMA RescheduleTypeOK ==
  ASSUME TypeOK, NEW e \in EventIds, NEW t \in Times, NEW u \in Times,
         record_failed_content_fetch(e, t, u) \/ defer_content_fetch(e, t, u)
  PROVE  TypeOK'
<1>1. fetch_attempt_count' \in [EventIds -> 0 .. MaxAttempts]
  BY BoundAssumption DEF TypeOK, record_failed_content_fetch, defer_content_fetch
<1>2. Reschedule(e, t, u)
  BY DEF record_failed_content_fetch, defer_content_fetch
<1> QED
  BY <1>1, <1>2 DEF TypeOK, Reschedule, graphVars, stateVars, payloadVars

\* The steps of the specification, with the two kinds of insertion, the two
\* kinds of content processing and the two kinds of rescheduling merged.
LEMMA StepCases ==
  ASSUME [Next]_vars
  PROVE  \/ \E e \in EventIds : \E s \in {HeaderState(e), AfterContent(HeaderState(e), e)} :
              Insert(e, s)
         \/ \E e \in EventIds : ProcessMissing(e)
         \/ \E e \in EventIds : prune_quota_payload(e)
         \/ \E e \in EventIds, t, u \in Times :
              record_failed_content_fetch(e, t, u) \/ defer_content_fetch(e, t, u)
         \/ \E e \in EventIds : process_event_again(e)
         \/ \E h \in Hashes : collect_payload(h)
         \/ UNCHANGED vars
BY DEF Next, process_event, process_event_with_content, process_event_content,
       try_materialize_stored_payload

\* Every transaction keeps the types.
LEMMA TypeStep == ASSUME TypeOK, [Next]_vars PROVE TypeOK'
<1>1. ASSUME NEW e \in EventIds,
             NEW s \in {HeaderState(e), AfterContent(HeaderState(e), e)}, Insert(e, s)
      PROVE  TypeOK'
  BY <1>1, InsertTypeOK, StateFacts
<1>2. ASSUME NEW e \in EventIds, process_event_again(e) PROVE TypeOK'
  BY <1>2 DEF TypeOK, process_event_again, graphVars, stateVars, payloadVars
<1>3. ASSUME NEW h \in Hashes, collect_payload(h) PROVE TypeOK'
  BY <1>3 DEF TypeOK, collect_payload, graphVars, stateVars, fetchVars
<1>4. ASSUME UNCHANGED vars PROVE TypeOK'
  BY <1>4 DEF TypeOK, vars, graphVars, stateVars, fetchVars, payloadVars
<1> QED
  BY <1>1, <1>2, <1>3, <1>4, StepCases, ProcessMissingTypeOK, PruneTypeOK, RescheduleTypeOK

\* Every reachable database is well typed; in particular reference counts and
\* usage buckets never go below zero, so no checked subtraction ever underflows.
THEOREM TypeCorrect == Spec => []TypeOK
<1>1. Init => TypeOK
  BY BoundAssumption DEF Init, TypeOK, Times, ContentStates
<1>2. TypeOK /\ [Next]_vars => TypeOK'
  BY TypeStep
<1> QED  BY <1>1, <1>2, PTL DEF Spec

-----------------------------------------------------------------------------
(* The event graph: heads, missing parents, deletion attribution *)

GraphInv ==
  TypeOK /\ HeadsAreFrontier /\ MissingAreUnresolvedParents /\ DeletionConverges

\* An event starts in Deleted exactly when a deleter was waiting for it.
LEMMA StartsDeleted ==
  ASSUME NEW e \in EventIds
  PROVE  /\ HeaderState(e) = "Deleted" <=> is_deleted(e)
         /\ AfterContent(HeaderState(e), e) = "Deleted" <=> is_deleted(e)
BY DEF HeaderState, AfterContent

\* insert_event_tx: the new event replaces its parents in the frontier, unless it was
\* missing and so has a child.
LEMMA InsertHeads ==
  ASSUME GraphInv, NEW e \in EventIds, NEW s \in ContentStates, Insert(e, s)
  PROVE  HeadsAreFrontier'
<1> USE HeaderFacts
<1>1. was_missing(e) <=> \E c \in events : author(c) = author(e) /\ e \in all_parents(c)
  BY DEF GraphInv, TypeOK, MissingAreUnresolvedParents, Keys, IsPresent, Insert, was_missing
<1>2. ASSUME NEW a \in Authors, NEW f \in EventIds
      PROVE <<a, f>> \in events_heads' <=>
              /\ f \in events' /\ author(f) = a
              /\ ~ \E c \in events' : author(c) = a /\ f \in all_parents(c)
  <2>1. <<a, f>> \in events_heads <=>
              /\ f \in events /\ author(f) = a
              /\ ~ \E c \in events : author(c) = a /\ f \in all_parents(c)
    BY DEF GraphInv, HeadsAreFrontier
  <2>2. <<a, f>> \in events_heads' <=>
              /\ \/ <<a, f>> \in events_heads
                 \/ ~ was_missing(e) /\ a = author(e) /\ f = e
              /\ ~ (a = author(e) /\ f \in all_parents(e))
    BY DEF Insert, NewHeads
  <2>3. events' = events \cup {e} /\ e \notin events
    BY DEF Insert
  <2> QED  BY <1>1, <2>1, <2>2, <2>3
<1>3. events_heads' \subseteq Keys /\ events' \subseteq EventIds
  BY InsertTypeOK DEF GraphInv, TypeOK
<1> QED  BY <1>2, <1>3 DEF HeadsAreFrontier, Keys

\* insert_event_tx: absent parents become missing rows, and the event stops being one.
LEMMA InsertMissing ==
  ASSUME GraphInv, NEW e \in EventIds, NEW s \in ContentStates, Insert(e, s)
  PROVE  MissingAreUnresolvedParents'
<1> USE HeaderFacts
<1>1. ASSUME NEW a \in Authors, NEW f \in EventIds
      PROVE <<a, f>> \in events_missing' <=>
              /\ ~ (f \in events' /\ author(f) = a)
              /\ \E c \in events' : author(c) = a /\ f \in all_parents(c)
  <2>1. <<a, f>> \in events_missing <=>
              /\ ~ (f \in events /\ author(f) = a)
              /\ \E c \in events : author(c) = a /\ f \in all_parents(c)
    BY DEF GraphInv, MissingAreUnresolvedParents, IsPresent, Keys
  <2>2. <<a, f>> \in events_missing' <=>
              \/ <<a, f>> \in events_missing /\ ~ (a = author(e) /\ f = e)
              \/ /\ a = author(e) /\ f \in all_parents(e)
                 /\ ~ (f \in events /\ author(f) = a)
    BY DEF Insert, MissingParents, IsPresent
  <2>3. events' = events \cup {e} /\ e \notin events
    BY DEF Insert
  <2> QED  BY <2>1, <2>2, <2>3
<1>2. events_missing' \subseteq Keys
  BY InsertTypeOK DEF GraphInv, TypeOK
<1> QED  BY <1>1, <1>2 DEF MissingAreUnresolvedParents, Keys, IsPresent

\* One more deleter: merging it into the attribution of a set of deleters gives
\* the attribution of the larger set.
LEMMA MergeAttributed ==
  ASSUME NEW S \in SUBSET EventIds, NEW e \in EventIds, NEW d, Attributed(d, S)
  PROVE  Attributed(merge_deleted_by(d, e), S \cup {e})
BY HeaderFacts, NoneAssumption DEF Attributed, merge_deleted_by

\* insert_event_tx: deletions and their attribution agree with the deleters that
\* are inserted, for present and for missing parents.
LEMMA InsertDeletion ==
  ASSUME GraphInv, NEW e \in EventIds, NEW s \in ContentStates, Insert(e, s),
         s = "Deleted" <=> is_deleted(e)
  PROVE  DeletionConverges'
<1> USE HeaderFacts
<1>1. events' = events \cup {e} /\ e \notin events /\ events \subseteq EventIds
  BY DEF Insert, GraphInv, TypeOK
<1>2. ASSUME NEW a \in Authors, NEW p \in EventIds
      PROVE  Deleters(a, p)' = IF a = author(e) /\ DeletesParent(e, p)
                               THEN Deleters(a, p) \cup {e} ELSE Deleters(a, p)
  BY <1>1 DEF Deleters
<1>3. Attributed(missing_deleted_by[<<author(e), e>>], Deleters(author(e), e))
  BY <1>1 DEF GraphInv, DeletionConverges, IsPresent
<1>4. ~ DeletesParent(e, e)
  BY DeletesAux
<1>5. ASSUME NEW f \in events'
      PROVE  /\ content_state'[f] = "Deleted" <=> Deleters(author(f), f)' # {}
             /\ Attributed(deleted_by'[f], Deleters(author(f), f)')
  <2>1. CASE f = e
    <3>1. Deleters(author(e), e)' = Deleters(author(e), e)
      BY <1>2, <1>4
    <3>2. content_state'[e] = s /\ deleted_by'[e] = missing_deleted_by[<<author(e), e>>]
      BY DEF Insert, NewDeletedBy
    <3>3. s = "Deleted" <=> Deleters(author(e), e) # {}
      BY <1>3, NoneAssumption, <1>1 DEF is_deleted, Attributed, Deleters
    <3> QED  BY <2>1, <3>1, <3>2, <3>3, <1>3
  <2>2. CASE f # e /\ f \in DeletedParents(e)
    <3>1. f \in events /\ f \in EventIds /\ author(f) = author(e) /\ DeletesParent(e, f)
      BY <2>2, <1>1 DEF DeletedParents, IsPresent
    <3>2. content_state'[f] = "Deleted" /\ deleted_by'[f] = merge_deleted_by(deleted_by[f], e)
      BY <2>2, <3>1 DEF Insert, NewDeletedBy
    <3>3. Attributed(deleted_by[f], Deleters(author(f), f))
      BY <3>1 DEF GraphInv, DeletionConverges
    <3>4. Deleters(author(f), f)' = Deleters(author(f), f) \cup {e}
      BY <3>1, <1>2
    <3>5. Deleters(author(f), f) \in SUBSET EventIds
      BY <1>1 DEF Deleters
    <3> QED  BY <3>2, <3>3, <3>4, <3>5, MergeAttributed
  <2>3. CASE f # e /\ f \notin DeletedParents(e)
    <3>1. f \in events /\ f \in EventIds
      BY <2>3, <1>1
    <3>2. content_state'[f] = content_state[f] /\ deleted_by'[f] = deleted_by[f]
      BY <2>3, <3>1 DEF Insert, NewDeletedBy
    <3>3. Deleters(author(f), f)' = Deleters(author(f), f)
      BY <2>3, <3>1, <1>2, DeletesAux DEF DeletedParents, IsPresent
    <3> QED  BY <3>1, <3>2, <3>3 DEF GraphInv, DeletionConverges
  <2> QED  BY <2>1, <2>2, <2>3
<1>6. ASSUME NEW a \in Authors, NEW p \in EventIds
      PROVE  IF IsPresent(a, p)' THEN missing_deleted_by'[<<a, p>>] = None
             ELSE Attributed(missing_deleted_by'[<<a, p>>], Deleters(a, p)')
  <2> DEFINE k == <<a, p>>
  <2>0. k \in Keys /\ k[1] = a /\ k[2] = p
    BY DEF Keys
  <2>1. CASE a = author(e) /\ p = e
    <3>1. missing_deleted_by'[k] = None
      BY <2>0, <2>1 DEF Insert, NewMissingDeletedBy
    <3> QED  BY <3>1, <2>1, <1>1 DEF IsPresent
  <2>2. CASE ~ (a = author(e) /\ p = e) /\ a = author(e) /\ p \in MissingParents(e)
             /\ DeletesParent(e, p)
    <3>1. missing_deleted_by'[k] = merge_deleted_by(missing_deleted_by[k], e)
      BY <2>0, <2>2 DEF Insert, NewMissingDeletedBy
    <3>2. ~ IsPresent(a, p) /\ ~ IsPresent(a, p)'
      BY <2>2, <1>1 DEF MissingParents, IsPresent
    <3>3. Attributed(missing_deleted_by[k], Deleters(a, p))
      BY <3>2 DEF GraphInv, DeletionConverges
    <3>4. Deleters(a, p) \in SUBSET EventIds
      BY <1>1 DEF Deleters
    <3> QED  BY <3>1, <3>2, <3>3, <3>4, <2>2, <1>2, MergeAttributed
  <2>3. CASE ~ (a = author(e) /\ p = e)
             /\ ~ (a = author(e) /\ p \in MissingParents(e) /\ DeletesParent(e, p))
    <3>1. missing_deleted_by'[k] = missing_deleted_by[k]
      BY <2>0, <2>3 DEF Insert, NewMissingDeletedBy
    <3>2. IsPresent(a, p)' <=> IsPresent(a, p)
      BY <2>3, <1>1 DEF IsPresent
    <3>3. ~ IsPresent(a, p) => Deleters(a, p)' = Deleters(a, p)
      BY <2>3, <1>2, DeletesAux DEF MissingParents
    <3> QED  BY <3>1, <3>2, <3>3 DEF GraphInv, DeletionConverges
  <2> QED  BY <2>1, <2>2, <2>3
<1> QED  BY <1>5, <1>6 DEF DeletionConverges

\* Steps that leave the graph alone move no content into or out of Deleted.
LEMMA OtherStepsGraph ==
  ASSUME GraphInv, UNCHANGED graphVars, UNCHANGED deleted_by,
         \A f \in events : content_state'[f] = "Deleted" <=> content_state[f] = "Deleted"
  PROVE  /\ HeadsAreFrontier' /\ MissingAreUnresolvedParents' /\ DeletionConverges'
BY DEF GraphInv, HeadsAreFrontier, MissingAreUnresolvedParents, DeletionConverges,
       graphVars, IsPresent, Deleters


\* An empty database is correct.
LEMMA GraphInit == Init => GraphInv
<1> SUFFICES ASSUME Init PROVE GraphInv
  OBVIOUS
<1>1. TypeOK
  BY BoundAssumption DEF Init, TypeOK, Times, ContentStates
<1>2. HeadsAreFrontier /\ MissingAreUnresolvedParents
  BY DEF Init, HeadsAreFrontier, MissingAreUnresolvedParents
<1>3. \A a \in Authors, q \in EventIds :
        ~ IsPresent(a, q) /\ Deleters(a, q) = {} /\ missing_deleted_by[<<a, q>>] = None
  BY DEF Init, IsPresent, Deleters, Keys
<1>4. DeletionConverges
  BY <1>3 DEF DeletionConverges, Attributed, Init
<1> QED  BY <1>1, <1>2, <1>4 DEF GraphInv

\* Every transaction keeps heads, missing rows and deletions correct.
LEMMA GraphStep == ASSUME GraphInv, [Next]_vars PROVE GraphInv'
<1>0. TypeOK /\ TypeOK'
  BY TypeStep DEF GraphInv
<1>1. ASSUME NEW e \in EventIds,
             NEW s \in {HeaderState(e), AfterContent(HeaderState(e), e)}, Insert(e, s)
      PROVE  HeadsAreFrontier' /\ MissingAreUnresolvedParents' /\ DeletionConverges'
  BY <1>1, InsertHeads, InsertMissing, InsertDeletion, StateFacts, StartsDeleted
<1>2. ASSUME NEW e \in EventIds, ProcessMissing(e)
      PROVE  HeadsAreFrontier' /\ MissingAreUnresolvedParents' /\ DeletionConverges'
  <2>1. \A f \in events : content_state'[f] = "Deleted" <=> content_state[f] = "Deleted"
    BY <1>0, <1>2, StateFacts DEF TypeOK, ProcessMissing, can_insert_event_content
  <2> QED  BY <1>2, <2>1, OtherStepsGraph DEF ProcessMissing
<1>3. ASSUME NEW e \in EventIds, prune_quota_payload(e)
      PROVE  HeadsAreFrontier' /\ MissingAreUnresolvedParents' /\ DeletionConverges'
  <2>1. \A f \in events : content_state'[f] = "Deleted" <=> content_state[f] = "Deleted"
    BY <1>0, <1>3 DEF TypeOK, prune_quota_payload, Referencing
  <2> QED  BY <1>3, <2>1, OtherStepsGraph DEF prune_quota_payload
<1>4. ASSUME UNCHANGED graphVars, UNCHANGED stateVars
      PROVE  HeadsAreFrontier' /\ MissingAreUnresolvedParents' /\ DeletionConverges'
  BY <1>4, OtherStepsGraph DEF stateVars
<1>5. ASSUME NEW e \in EventIds, NEW t \in Times, NEW u \in Times,
             record_failed_content_fetch(e, t, u) \/ defer_content_fetch(e, t, u)
      PROVE  UNCHANGED graphVars /\ UNCHANGED stateVars
  BY <1>5 DEF record_failed_content_fetch, defer_content_fetch, Reschedule
<1>6. ASSUME NEW e \in EventIds, process_event_again(e)
      PROVE  UNCHANGED graphVars /\ UNCHANGED stateVars
  BY <1>6 DEF process_event_again
<1>7. ASSUME NEW h \in Hashes, collect_payload(h)
      PROVE  UNCHANGED graphVars /\ UNCHANGED stateVars
  BY <1>7 DEF collect_payload
<1>8. UNCHANGED vars => UNCHANGED graphVars /\ UNCHANGED stateVars
  BY DEF vars
<1> QED
  BY <1>0, <1>1, <1>2, <1>3, <1>4, <1>5, <1>6, <1>7, <1>8, StepCases DEF GraphInv

\* The heads, the missing parents and every deletion and its attribution are
\* functions of the set of inserted headers: nodes that received the same headers
\* agree on them, whatever the order and the repetitions of delivery.
THEOREM GraphCorrect ==
  Spec => []GraphExact
<1>1. Init => GraphInv
  BY GraphInit
<1>2. GraphInv /\ [Next]_vars => GraphInv'
  BY GraphStep
<1>3. GraphInv => GraphExact
  BY DEF GraphInv, GraphExact
<1> QED  BY <1>1, <1>2, <1>3, PTL DEF Spec

\* An attribution is determined by the deleters: EventOrder has no ties.
LEMMA AttributionUnique ==
  ASSUME NEW S \in SUBSET EventIds, NEW c, NEW d, Attributed(c, S), Attributed(d, S)
  PROVE  c = d
BY HeaderFacts, OrderAssumption DEF Attributed, order

\* Deleted is final, and the other lifecycle states only move forward; only a
\* social post ever gives up its projections.
THEOREM LifecycleCorrect == Spec => LifecycleForward
<1>1. TypeOK /\ [Next]_vars => [LifecycleStep]_vars
  <2> SUFFICES ASSUME TypeOK, [Next]_vars, NEW f \in events
               PROVE  /\ \/ content_state'[f] \in {content_state[f], "Deleted"}
                         \/ content_state[f] = "NoRow" /\ content_state'[f] = "Pruned"
                         \/ content_state[f] = "Missing"
                      /\ projections'[f] < projections[f] => IsPost(f)
    BY DEF LifecycleStep
  <2>0. f \in EventIds /\ projections[f] \in Int
    BY DEF TypeOK
  <2>1. ASSUME NEW e \in EventIds, NEW s, Insert(e, s)
        PROVE  /\ content_state'[f] \in {content_state[f], "Deleted"}
               /\ projections'[f] < projections[f] => IsPost(f)
    <3>1. projections'[f] = projections[f]
            + (IF f = e /\ s = "NoRow" /\ Projects(e) THEN 1 ELSE 0)
            - (IF f \in RevertedParents(e) THEN 1 ELSE 0)
      BY <2>0, <2>1 DEF Insert
    <3>2. f \in RevertedParents(e) => IsPost(f)
      BY DEF RevertedParents
    <3>3. content_state'[f] \in {content_state[f], "Deleted"}
      BY <2>0, <2>1 DEF Insert
    <3> QED  BY <2>0, <3>1, <3>2, <3>3
  <2>2. ASSUME NEW e \in EventIds, ProcessMissing(e)
        PROVE  /\ content_state'[f] = content_state[f] \/ content_state[f] = "Missing"
               /\ ~ (projections'[f] < projections[f])
    BY <2>0, <2>2 DEF ProcessMissing, can_insert_event_content, TypeOK
  <2>3. ASSUME NEW e \in EventIds, prune_quota_payload(e)
        PROVE  /\ \/ content_state'[f] = content_state[f]
                  \/ content_state[f] = "NoRow" /\ content_state'[f] = "Pruned"
                  \/ content_state[f] = "Missing"
               /\ projections'[f] < projections[f] => IsPost(f)
    BY <2>0, <2>3, KindAssumption DEF prune_quota_payload, TypeOK, Referencing, IsPost
  <2>4. ASSUME \/ \E e \in EventIds, t, u \in Times :
                    record_failed_content_fetch(e, t, u) \/ defer_content_fetch(e, t, u)
               \/ \E e \in EventIds : process_event_again(e)
               \/ \E h \in Hashes : collect_payload(h)
               \/ UNCHANGED vars
        PROVE  content_state' = content_state /\ ~ (projections'[f] < projections[f])
    BY <2>0, <2>4 DEF record_failed_content_fetch, defer_content_fetch, Reschedule,
                process_event_again, collect_payload, vars, stateVars
  <2> QED  BY <2>1, <2>2, <2>3, <2>4, StepCases
<1> QED  BY <1>1, TypeCorrect, PTL DEF Spec, LifecycleForward

-----------------------------------------------------------------------------
(* References, usage buckets, schedule, bytes and side effects *)

\* Only content worth fetching is Missing.
MissingIsNormal ==
  \A e \in events : content_state[e] = "Missing" => Header[e].size = "normal"

PayloadInv ==
  /\ TypeOK
  /\ RefCountExact
  /\ UsageExact
  /\ ScheduleMirrorsMissing
  /\ ProcessedHasBytes
  /\ SideEffectsOnce
  /\ QuotaDecisionsStick
  /\ MissingIsNormal

\* The events that hold a reference on h, and those of author a in bucket b.
Holders(h) == {e \in events : Referencing(content_state[e]) /\ content_hash(e) = h}
InBucket(a, b) == {e \in events : author(e) = a /\ BucketOf(content_state[e]) = b}
OfAuthor(a) == {e \in events : author(e) = a}

\* Cardinalities of the finite sets of events that the counters count.
LEMMA CountFacts ==
  ASSUME NEW S \in SUBSET EventIds, NEW x
  PROVE  /\ IsFiniteSet(S)
         /\ Cardinality(S) \in Nat
         /\ x \notin S => Cardinality(S \cup {x}) = Cardinality(S) + 1
         /\ x \in S => Cardinality(S \ {x}) = Cardinality(S) - 1
         /\ x \in S => Cardinality(S) # 0
<1>1. IsFiniteSet(S)
  BY FiniteAssumption, FS_Subset
<1>2. Cardinality(S) \in Nat
  BY <1>1, FS_CardinalityType
<1>3. x \notin S => Cardinality(S \cup {x}) = Cardinality(S) + 1
  BY <1>1, FS_AddElement
<1>4. x \in S => Cardinality(S \ {x}) = Cardinality(S) - 1
  BY <1>1, FS_RemoveElement
<1>5. x \in S => Cardinality(S) # 0
  BY <1>1, FS_EmptySet
<1> QED  BY <1>1, <1>2, <1>3, <1>4, <1>5

\* At most one parent, the aux parent, is deleted by an insertion.
LEMMA OneDeletedParent ==
  ASSUME TypeOK, NEW e \in EventIds, NEW p \in DeletedParents(e)
  PROVE  /\ p \in events /\ p \in EventIds /\ author(p) = author(e)
         /\ DeletedParents(e) = {p}
         /\ e \notin events => p # e
BY DEF DeletedParents, IsPresent, DeletesParent, TypeOK

\* Inserting a header changes reference counts by the references it adds and releases.
LEMMA InsertRefCount ==
  ASSUME PayloadInv, NEW e \in EventIds, NEW s \in ContentStates, Insert(e, s)
  PROVE  RefCountExact'
<1> USE HeaderFacts
<1> SUFFICES ASSUME NEW h \in Hashes PROVE content_rc'[h] = Cardinality(Holders(h)')
  BY DEF RefCountExact, Holders
<1> DEFINE R == Holders(h)
           gain == Referencing(s) /\ content_hash(e) = h
<1>1. /\ TypeOK /\ e \notin events /\ events' = events \cup {e}
      /\ R \in SUBSET EventIds /\ e \notin R
      /\ content_rc[h] = Cardinality(R)
  BY DEF PayloadInv, TypeOK, RefCountExact, Insert, Holders
<1>2. content_rc'[h] = content_rc[h] + (IF gain THEN 1 ELSE 0)
        - (IF \E p \in ReleasedParents(e) : content_hash(p) = h THEN 1 ELSE 0)
  BY DEF Insert, NewRefCount
<1>3. \A f \in events' : content_state'[f] =
        IF f = e THEN s ELSE IF f \in DeletedParents(e) THEN "Deleted" ELSE content_state[f]
  BY <1>1 DEF Insert, TypeOK
<1>4. ~ Referencing("Deleted")
  BY DEF Referencing
<1>5. CASE \E p \in ReleasedParents(e) : content_hash(p) = h
  <2>1. PICK p \in ReleasedParents(e) : content_hash(p) = h
    BY <1>5
  <2>2. p \in DeletedParents(e) /\ p \in R /\ p # e
    BY <1>1, <2>1, OneDeletedParent DEF ReleasedParents, Holders
  <2>3. DeletedParents(e) = {p}
    BY <1>1, <2>2, OneDeletedParent
  <2>4. Holders(h)' = (R \ {p}) \cup IF gain THEN {e} ELSE {}
    BY <1>1, <1>3, <1>4, <2>2, <2>3 DEF Holders
  <2>5. Cardinality(R \ {p}) = Cardinality(R) - 1 /\ Cardinality(R) \in Nat
    BY <1>1, <2>2, CountFacts
  <2>6. Cardinality((R \ {p}) \cup {e}) = Cardinality(R \ {p}) + 1
    <3>1. (R \ {p}) \in SUBSET EventIds /\ e \notin (R \ {p})
      BY <1>1
    <3> QED  BY <3>1, CountFacts
  <2>7. ~ gain => Holders(h)' = R \ {p}
    BY <2>4
  <2>8. gain => Holders(h)' = (R \ {p}) \cup {e}
    BY <2>4
  <2>9. CASE gain
    <3>1. content_rc'[h] = content_rc[h] + 1 - 1
      BY <1>2, <1>5, <2>9
    <3>2. Cardinality(Holders(h)') = Cardinality((R \ {p}) \cup {e})
      BY <2>8, <2>9
    <3> QED  BY <1>1, <2>5, <2>6, <3>1, <3>2
  <2>10. CASE ~ gain
    <3>1. content_rc'[h] = content_rc[h] + 0 - 1
      BY <1>2, <1>5, <2>10
    <3>2. Cardinality(Holders(h)') = Cardinality(R \ {p})
      BY <2>7, <2>10
    <3> QED  BY <1>1, <2>5, <3>1, <3>2
  <2> QED  BY <2>9, <2>10
<1>6. CASE ~ \E p \in ReleasedParents(e) : content_hash(p) = h
  <2>1. \A f \in R : f \notin DeletedParents(e)
    BY <1>6 DEF ReleasedParents, Holders
  <2>2. Holders(h)' = R \cup IF gain THEN {e} ELSE {}
    BY <1>1, <1>3, <1>4, <2>1 DEF Holders
  <2>3. Cardinality(R \cup {e}) = Cardinality(R) + 1 /\ Cardinality(R) \in Nat
    BY <1>1, CountFacts
  <2>4. /\ gain => Holders(h)' = R \cup {e}
        /\ ~ gain => Holders(h)' = R
    BY <2>2
  <2>5. CASE gain
    <3>1. content_rc'[h] = content_rc[h] + 1 - 0
      BY <1>2, <1>6, <2>5
    <3>2. Cardinality(Holders(h)') = Cardinality(R \cup {e})
      BY <2>4, <2>5
    <3> QED  BY <1>1, <2>3, <3>1, <3>2
  <2>6. CASE ~ gain
    <3>1. content_rc'[h] = content_rc[h] + 0 - 0
      BY <1>2, <1>6, <2>6
    <3> QED  BY <1>1, <2>3, <2>4, <2>6, <3>1
  <2> QED  BY <2>5, <2>6
<1> QED  BY <1>5, <1>6

\* Inserting a header moves usage between the buckets of the states it changes.
LEMMA InsertUsage ==
  ASSUME PayloadInv, NEW e \in EventIds, NEW s \in ContentStates, Insert(e, s)
  PROVE  UsageExact'
<1> USE HeaderFacts
<1>1. /\ TypeOK /\ e \notin events /\ events' = events \cup {e} /\ events \subseteq EventIds
  BY DEF PayloadInv, TypeOK, Insert
<1>2. \A f \in events' : content_state'[f] =
        IF f = e THEN s ELSE IF f \in DeletedParents(e) THEN "Deleted" ELSE content_state[f]
  BY <1>1 DEF Insert, TypeOK
<1>3. BucketOf("Deleted") = "deleted"
  BY DEF BucketOf
<1>4. ASSUME NEW a \in Authors, a # author(e)
      PROVE  /\ ids_data_usage'[a] = ids_data_usage[a]
             /\ OfAuthor(a)' = OfAuthor(a)
             /\ \A b \in Buckets : InBucket(a, b)' = InBucket(a, b)
  <2>1. ids_data_usage'[a] = ids_data_usage[a]
    BY <1>4 DEF Insert, NewUsage
  <2>2. \A f \in events : author(f) = a => content_state'[f] = content_state[f]
    BY <1>1, <1>2, <1>4, OneDeletedParent
  <2> QED  BY <1>1, <1>4, <2>1, <2>2 DEF OfAuthor, InBucket
<1>5. ASSUME NEW b \in Buckets \ {"total"}
      PROVE  ids_data_usage'[author(e)][b] = Cardinality(InBucket(author(e), b)')
  <2> DEFINE U == InBucket(author(e), b)
             enters == BucketOf(s) = b
             moved == {p \in DeletedParents(e) : content_state[p] # "Deleted"}
  <2>1. U \in SUBSET EventIds /\ e \notin U /\ ids_data_usage[author(e)][b] = Cardinality(U)
    BY <1>1 DEF InBucket, PayloadInv, UsageExact
  <2>2. ids_data_usage'[author(e)][b] = ids_data_usage[author(e)][b]
          + ((IF enters THEN 1 ELSE 0) + (IF b = "deleted" /\ moved # {} THEN 1 ELSE 0))
          - (IF \E p \in moved : BucketOf(content_state[p]) = b THEN 1 ELSE 0)
    BY <1>5 DEF Insert, NewUsage
  <2>3. CASE moved = {}
    <3>1. \A f \in events : content_state'[f] = content_state[f]
      BY <1>1, <1>2, <2>3
    <3>2. /\ enters => InBucket(author(e), b)' = U \cup {e}
          /\ ~ enters => InBucket(author(e), b)' = U
      BY <1>1, <1>2, <3>1 DEF InBucket
    <3>3. Cardinality(U \cup {e}) = Cardinality(U) + 1 /\ Cardinality(U) \in Nat
      BY <2>1, CountFacts
    <3>4. /\ ~ (b = "deleted" /\ moved # {})
          /\ ~ \E p \in moved : BucketOf(content_state[p]) = b
      BY <2>3
    <3>5. CASE enters
      <4>1. ids_data_usage'[author(e)][b] = ids_data_usage[author(e)][b] + (1 + 0) - 0
        BY <2>2, <3>4, <3>5
      <4>2. Cardinality(InBucket(author(e), b)') = Cardinality(U \cup {e})
        BY <3>2, <3>5
      <4> QED  BY <2>1, <3>3, <4>1, <4>2
    <3>6. CASE ~ enters
      <4>1. ids_data_usage'[author(e)][b] = ids_data_usage[author(e)][b] + (0 + 0) - 0
        BY <2>2, <3>4, <3>6
      <4> QED  BY <2>1, <3>2, <3>3, <3>6, <4>1
    <3> QED  BY <3>5, <3>6
  <2>4. CASE moved # {}
    <3>1. PICK p \in DeletedParents(e) : content_state[p] # "Deleted"
      BY <2>4
    <3>2. /\ p \in events /\ p \in EventIds /\ author(p) = author(e) /\ p # e
          /\ DeletedParents(e) = {p} /\ moved = {p}
      BY <1>1, <3>1, OneDeletedParent
    <3>3. BucketOf(content_state[p]) # "deleted" /\ BucketOf(content_state[p]) \in Buckets
      BY <1>1, <1>3, <3>1, <3>2, BucketFacts DEF TypeOK, ContentStates
    <3>4. \A f \in events' : content_state'[f] =
            IF f = e THEN s ELSE IF f = p THEN "Deleted" ELSE content_state[f]
      BY <1>2, <3>2
    <3> DEFINE leaves == BucketOf(content_state[p]) = b
               V == IF leaves THEN U \ {p} ELSE IF b = "deleted" THEN U \cup {p} ELSE U
    <3>5. V \in SUBSET EventIds /\ e \notin V
      BY <2>1, <3>2
    <3>6. InBucket(author(e), b)' = V \cup IF enters THEN {e} ELSE {}
      BY <1>1, <1>3, <3>2, <3>3, <3>4 DEF InBucket
    <3>7. Cardinality(V) = Cardinality(U) + (IF b = "deleted" THEN 1 ELSE 0)
                             - (IF leaves THEN 1 ELSE 0)
      <4>1. leaves => p \in U /\ b # "deleted"
        BY <3>2, <3>3 DEF InBucket
      <4>2. b = "deleted" => p \notin U
        BY <3>3 DEF InBucket
      <4>3. /\ p \in U => Cardinality(U \ {p}) = Cardinality(U) - 1
            /\ p \notin U => Cardinality(U \cup {p}) = Cardinality(U) + 1
            /\ Cardinality(U) \in Nat
        BY <2>1, CountFacts
      <4> HIDE DEF U
      <4> QED  BY <4>1, <4>2, <4>3
    <3>8. Cardinality(V \cup {e}) = Cardinality(V) + 1 /\ Cardinality(V) \in Nat
      BY <3>5, CountFacts
    <3>9. /\ (b = "deleted" /\ moved # {}) <=> b = "deleted"
          /\ (\E q \in moved : BucketOf(content_state[q]) = b) <=> leaves
      BY <3>2
    <3>10. /\ enters => InBucket(author(e), b)' = V \cup {e}
           /\ ~ enters => InBucket(author(e), b)' = V
      BY <3>6
    <3>11. Cardinality(U) \in Nat
      BY <2>1, CountFacts
    <3> DEFINE m == (IF b = "deleted" THEN 1 ELSE 0)
               l == (IF leaves THEN 1 ELSE 0)
    <3>12. m \in Nat /\ l \in Nat
      OBVIOUS
    <3>13. CASE enters
      <4>1. ids_data_usage'[author(e)][b] = ids_data_usage[author(e)][b] + (1 + m) - l
        BY <2>2, <3>9, <3>13
      <4>2. Cardinality(InBucket(author(e), b)') = Cardinality(U) + m - l + 1
        <5>1. Cardinality(InBucket(author(e), b)') = Cardinality(V \cup {e})
          BY <3>10, <3>13
        <5> QED  BY <3>7, <3>8, <5>1
      <4> HIDE DEF m, l, U
      <4> QED  BY <2>1, <3>11, <3>12, <4>1, <4>2
    <3>14. CASE ~ enters
      <4>1. ids_data_usage'[author(e)][b] = ids_data_usage[author(e)][b] + (0 + m) - l
        BY <2>2, <3>9, <3>14
      <4>2. Cardinality(InBucket(author(e), b)') = Cardinality(U) + m - l
        <5>1. Cardinality(InBucket(author(e), b)') = Cardinality(V)
          BY <3>10, <3>14
        <5> QED  BY <3>7, <5>1
      <4> HIDE DEF m, l, U
      <4> QED  BY <2>1, <3>11, <3>12, <4>1, <4>2
    <3> QED  BY <3>13, <3>14
  <2> QED  BY <2>3, <2>4
<1>6. ids_data_usage'[author(e)]["total"] = Cardinality(OfAuthor(author(e))')
  <2> DEFINE U == OfAuthor(author(e))
  <2>1. U \in SUBSET EventIds /\ e \notin U
        /\ ids_data_usage[author(e)]["total"] = Cardinality(U)
    BY <1>1 DEF OfAuthor, PayloadInv, UsageExact
  <2>2. OfAuthor(author(e))' = U \cup {e}
    BY <1>1 DEF OfAuthor
  <2>3. Cardinality(U \cup {e}) = Cardinality(U) + 1 /\ Cardinality(U) \in Nat
    BY <2>1, CountFacts
  <2>4. \A p \in DeletedParents(e) : BucketOf(content_state[p]) # "total"
    BY <1>1, BucketFacts, OneDeletedParent DEF TypeOK
  <2>5. ids_data_usage'[author(e)]["total"] = ids_data_usage[author(e)]["total"] + 1
    BY <2>1, <2>3, <2>4 DEF Insert, NewUsage, Buckets
  <2>6. Cardinality(OfAuthor(author(e))') = Cardinality(U \cup {e})
    BY <2>2
  <2> QED  BY <2>1, <2>3, <2>5, <2>6
<1>7. ASSUME NEW a \in Authors, a # author(e)
      PROVE  /\ ids_data_usage'[a]["total"] = Cardinality(OfAuthor(a)')
             /\ \A b \in Buckets \ {"total"} :
                  ids_data_usage'[a][b] = Cardinality(InBucket(a, b)')
  BY <1>4, <1>7 DEF PayloadInv, UsageExact, OfAuthor, InBucket
<1>8. ASSUME NEW a \in Authors
      PROVE  /\ ids_data_usage'[a]["total"] = Cardinality(OfAuthor(a)')
             /\ \A b \in Buckets \ {"total"} :
                  ids_data_usage'[a][b] = Cardinality(InBucket(a, b)')
  <2>1. CASE a = author(e)
    BY <1>5, <1>6, <2>1
  <2> QED  BY <1>7, <2>1
<1> QED  BY <1>8 DEF UsageExact, OfAuthor, InBucket

\* The remaining tables after an insertion.
LEMMA InsertOthers ==
  ASSUME PayloadInv, NEW e \in EventIds,
         NEW s \in {HeaderState(e), AfterContent(HeaderState(e), e)}, Insert(e, s)
  PROVE  /\ ScheduleMirrorsMissing' /\ ProcessedHasBytes' /\ SideEffectsOnce'
         /\ QuotaDecisionsStick' /\ MissingIsNormal'
<1> USE HeaderFacts
<1>1. /\ TypeOK /\ e \notin events /\ events' = events \cup {e} /\ events \subseteq EventIds
      /\ s \in ContentStates
  BY StateFacts DEF PayloadInv, TypeOK, Insert
<1>2. \A f \in EventIds : content_state'[f] =
        IF f = e THEN s ELSE IF f \in DeletedParents(e) THEN "Deleted" ELSE content_state[f]
  BY DEF Insert
<1>3. /\ s = "Missing" => Header[e].size = "normal"
      /\ e \in events_quota_pruned => s \in {"Pruned", "Deleted"}
  <2>1. Header[e].size \in Sizes
    BY HeaderAssumption DEF HeaderType
  <2> QED  BY <2>1 DEF HeaderState, AfterContent, Sizes
<1>4. ScheduleMirrorsMissing'
  <2>1. \A t, f : <<t, f>> \in events_content_missing <=>
                    f \in events /\ content_state[f] = "Missing" /\ t = next_fetch_attempt[f]
    BY DEF PayloadInv, ScheduleMirrorsMissing
  <2>2. \A t, f : <<t, f>> \in events_content_missing' <=>
          \/ /\ <<t, f>> \in events_content_missing
             /\ ~ (/\ f \in DeletedParents(e) /\ content_state[f] = "Missing"
                   /\ t = next_fetch_attempt[f])
          \/ s = "Missing" /\ t = 0 /\ f = e
    BY DEF Insert, NewSchedule
  <2>3. \A f \in EventIds : next_fetch_attempt'[f] =
          IF f \in DeletedParents(e) \cup {e} THEN 0 ELSE next_fetch_attempt[f]
    BY DEF Insert, Forgotten
  <2>4. \A t, f : <<t, f>> \in events_content_missing' <=>
                    f \in events' /\ content_state'[f] = "Missing" /\ t = next_fetch_attempt'[f]
    <3> SUFFICES ASSUME NEW t, NEW f
                 PROVE  <<t, f>> \in events_content_missing' <=>
                    f \in events' /\ content_state'[f] = "Missing" /\ t = next_fetch_attempt'[f]
      OBVIOUS
    <3>1. CASE f = e
      BY <1>1, <1>2, <2>1, <2>2, <2>3, <3>1
    <3>2. CASE f # e /\ f \in events
      <4>1. f \in EventIds
        BY <1>1, <3>2
      <4> QED  BY <1>1, <1>2, <2>1, <2>2, <2>3, <3>2, <4>1
    <3>3. CASE f \notin events'
      BY <1>1, <2>1, <2>2, <3>3
    <3> QED  BY <1>1, <3>1, <3>2, <3>3
  <2>5. events_content_missing' \subseteq Times \X EventIds
    BY <1>1, InsertTypeOK DEF TypeOK
  <2> QED  BY <2>4, <2>5 DEF ScheduleMirrorsMissing
<1>5. ProcessedHasBytes'
  BY <1>1, <1>2 DEF PayloadInv, ProcessedHasBytes, Insert
<1>6. SideEffectsOnce'
  <2> SUFFICES ASSUME NEW f \in EventIds
               PROVE  IF f \in events' /\ Projects(f) /\ content_state'[f] = "NoRow"
                      THEN projections'[f] = 1
                      ELSE \/ projections'[f] = 0
                           \/ /\ f \in events' /\ Projects(f) /\ content_state'[f] = "Deleted"
                              /\ ~ IsPost(f) /\ projections'[f] = 1
    BY DEF SideEffectsOnce
  <2>1. IF f \in events /\ Projects(f) /\ content_state[f] = "NoRow"
        THEN projections[f] = 1
        ELSE \/ projections[f] = 0
             \/ /\ f \in events /\ Projects(f) /\ content_state[f] = "Deleted"
                /\ ~ IsPost(f) /\ projections[f] = 1
    BY DEF PayloadInv, SideEffectsOnce
  <2>2. projections'[f] = projections[f]
          + (IF f = e /\ s = "NoRow" /\ Projects(e) THEN 1 ELSE 0)
          - (IF f \in RevertedParents(e) THEN 1 ELSE 0)
    BY DEF Insert
  <2>3. f \in DeletedParents(e) => f \in events /\ f # e
    BY <1>1, OneDeletedParent
  <2>4. f \in RevertedParents(e) <=> /\ f \in DeletedParents(e)
                                    /\ content_state[f] = "NoRow" /\ IsPost(f) /\ Projects(f)
    BY <2>3 DEF RevertedParents, PayloadInv, ProcessedHasBytes
  <2>5. content_state'[f] =
          IF f = e THEN s ELSE IF f \in DeletedParents(e) THEN "Deleted" ELSE content_state[f]
    BY <1>2
  <2>6. CASE f = e
    BY <1>1, <2>1, <2>2, <2>3, <2>4, <2>5, <2>6
  <2>7. CASE f # e
    BY <1>1, <2>1, <2>2, <2>3, <2>4, <2>5, <2>7
  <2> QED  BY <2>6, <2>7
<1>7. QuotaDecisionsStick' /\ MissingIsNormal'
  BY <1>1, <1>2, <1>3 DEF PayloadInv, QuotaDecisionsStick, MissingIsNormal, Insert
<1> QED  BY <1>4, <1>5, <1>6, <1>7

\* One inserted event changes its lifecycle state from s to t: the counters
\* follow when the reference is kept or released and the bucket moved.
LEMMA MoveCounts ==
  ASSUME PayloadInv, NEW e \in events, UNCHANGED events, NEW t \in ContentStates,
         content_state[e] # t,
         content_state' = [content_state EXCEPT ![e] = t],
         Referencing(content_state[e]),
         content_rc' = IF Referencing(t) THEN content_rc
                       ELSE [content_rc EXCEPT ![content_hash(e)] = @ - 1],
         ids_data_usage' = MoveUsage(e, BucketOf(content_state[e]), BucketOf(t))
  PROVE  RefCountExact' /\ UsageExact'
<1> USE HeaderFacts
<1>1. TypeOK /\ events \subseteq EventIds /\ e \in EventIds
  BY DEF PayloadInv, TypeOK
<1>2. \A f \in events : content_state'[f] = IF f = e THEN t ELSE content_state[f]
  BY <1>1 DEF TypeOK
<1>3. /\ BucketOf(content_state[e]) \in Buckets \ {"total"}
      /\ BucketOf(t) \in Buckets \ {"total"}
      /\ BucketOf(content_state[e]) # BucketOf(t)
  BY <1>1, BucketFacts DEF TypeOK
<1>4. RefCountExact'
  <2> SUFFICES ASSUME NEW h \in Hashes PROVE content_rc'[h] = Cardinality(Holders(h)')
    BY DEF RefCountExact, Holders
  <2> DEFINE R == Holders(h)
  <2>1. R \in SUBSET EventIds /\ content_rc[h] = Cardinality(R)
    BY <1>1 DEF Holders, PayloadInv, RefCountExact
  <2>2. CASE ~ Referencing(t) /\ content_hash(e) = h
    <3>1. Holders(h)' = R \ {e} /\ e \in R
      BY <1>2, <2>2 DEF Holders
    <3>2. content_rc'[h] = content_rc[h] - 1
      BY <1>1, <2>2 DEF TypeOK
    <3>3. Cardinality(R \ {e}) = Cardinality(R) - 1
      BY <2>1, <3>1, CountFacts
    <3>4. Cardinality(Holders(h)') = Cardinality(R \ {e})
      BY <3>1
    <3> QED  BY <2>1, <3>2, <3>3, <3>4
  <2>3. CASE Referencing(t) \/ content_hash(e) # h
    <3>1. Holders(h)' = R
      BY <1>2, <2>3 DEF Holders
    <3>2. content_rc'[h] = content_rc[h]
      BY <1>1, <2>3 DEF TypeOK
    <3>3. Cardinality(Holders(h)') = Cardinality(R)
      BY <3>1
    <3> QED  BY <2>1, <3>2, <3>3
  <2> QED  BY <2>2, <2>3
<1>5. UsageExact'
  <2>1. ASSUME NEW a \in Authors, NEW b \in Buckets \ {"total"}
        PROVE  ids_data_usage'[a][b] = Cardinality(InBucket(a, b)')
    <3> DEFINE U == InBucket(a, b)
    <3>1. U \in SUBSET EventIds /\ ids_data_usage[a][b] = Cardinality(U)
      BY <1>1 DEF InBucket, PayloadInv, UsageExact
    <3>2. CASE a = author(e) /\ b = BucketOf(content_state[e])
      <4>1. InBucket(a, b)' = U \ {e} /\ e \in U
        BY <1>2, <1>3, <3>2 DEF InBucket
      <4>2. ids_data_usage'[a][b] = ids_data_usage[a][b] - 1
        BY <1>1, <3>2 DEF MoveUsage, TypeOK
      <4>3. Cardinality(U \ {e}) = Cardinality(U) - 1
        BY <3>1, <4>1, CountFacts
      <4>4. Cardinality(InBucket(a, b)') = Cardinality(U \ {e})
        BY <4>1
      <4> QED  BY <3>1, <4>2, <4>3, <4>4
    <3>3. CASE a = author(e) /\ b = BucketOf(t)
      <4>1. InBucket(a, b)' = U \cup {e} /\ e \notin U
        BY <1>2, <1>3, <3>3 DEF InBucket
      <4>2. ids_data_usage'[a][b] = ids_data_usage[a][b] + 1
        BY <1>1, <1>3, <3>3 DEF MoveUsage, TypeOK
      <4>3. Cardinality(U \cup {e}) = Cardinality(U) + 1
        BY <3>1, <4>1, CountFacts
      <4>4. Cardinality(InBucket(a, b)') = Cardinality(U \cup {e})
        BY <4>1
      <4> QED  BY <3>1, <4>2, <4>3, <4>4
    <3>4. CASE a # author(e) \/ b \notin {BucketOf(content_state[e]), BucketOf(t)}
      <4>1. InBucket(a, b)' = U
        BY <1>2, <3>4 DEF InBucket
      <4>2. ids_data_usage'[a][b] = ids_data_usage[a][b]
        BY <1>1, <3>4 DEF MoveUsage, TypeOK
      <4>3. Cardinality(InBucket(a, b)') = Cardinality(U)
        BY <4>1
      <4> QED  BY <3>1, <4>2, <4>3
    <3> QED  BY <3>2, <3>3, <3>4
  <2>2. ASSUME NEW a \in Authors
        PROVE  ids_data_usage'[a]["total"] = Cardinality(OfAuthor(a)')
    <3>1. OfAuthor(a)' = OfAuthor(a)
      BY DEF OfAuthor
    <3>2. ids_data_usage'[a]["total"] = ids_data_usage[a]["total"]
      BY <1>1, <1>3 DEF MoveUsage, TypeOK, Buckets
    <3>3. Cardinality(OfAuthor(a)') = Cardinality(OfAuthor(a))
      BY <3>1
    <3>4. ids_data_usage[a]["total"] = Cardinality(OfAuthor(a))
      BY DEF PayloadInv, UsageExact, OfAuthor
    <3> QED  BY <3>2, <3>3, <3>4
  <2> QED  BY <2>1, <2>2 DEF UsageExact, InBucket, OfAuthor
<1> QED  BY <1>4, <1>5

\* Processing Missing content keeps counts, schedule, bytes and side effects right.
LEMMA ProcessMissingPayload ==
  ASSUME PayloadInv, NEW e \in EventIds, ProcessMissing(e)
  PROVE  /\ RefCountExact' /\ UsageExact' /\ ScheduleMirrorsMissing' /\ ProcessedHasBytes'
         /\ SideEffectsOnce' /\ QuotaDecisionsStick' /\ MissingIsNormal'
<1> USE HeaderFacts
<1> DEFINE s == AfterContent("Missing", e)
<1>1. /\ TypeOK /\ events' = events /\ events \subseteq EventIds /\ e \in events
      /\ content_state[e] = "Missing"
      /\ s \in {"NoRow", "Invalid"}
      /\ content_state' = [content_state EXCEPT ![e] = s]
  BY StateFacts DEF PayloadInv, TypeOK, ProcessMissing, can_insert_event_content, graphVars
<1>2. \A f \in EventIds : content_state'[f] = IF f = e THEN s ELSE content_state[f]
  BY <1>1 DEF TypeOK
<1>3. RefCountExact' /\ UsageExact'
  <2>1. s \in ContentStates /\ s # "Missing"
    BY <1>1 DEF ContentStates
  <2>2. /\ Referencing("Missing") /\ BucketOf("Missing") = "missing"
        /\ Referencing(s) <=> s # "Invalid"
    BY <1>1 DEF Referencing, BucketOf
  <2>3. /\ content_rc' = IF Referencing(s) THEN content_rc
                         ELSE [content_rc EXCEPT ![content_hash(e)] = @ - 1]
        /\ ids_data_usage' = MoveUsage(e, BucketOf(content_state[e]), BucketOf(s))
    BY <1>1, <2>2 DEF ProcessMissing
  <2> HIDE DEF s
  <2> QED  BY <1>1, <2>1, <2>2, <2>3, MoveCounts
<1>4. ScheduleMirrorsMissing'
  <2>1. events_content_missing' = events_content_missing \ {<<next_fetch_attempt[e], e>>}
    BY DEF ProcessMissing
  <2>2. \A f \in EventIds : f # e => next_fetch_attempt'[f] = next_fetch_attempt[f]
    BY DEF ProcessMissing, Forgotten
  <2> QED  BY <1>1, <1>2, <2>1, <2>2 DEF PayloadInv, ScheduleMirrorsMissing
<1>5. ProcessedHasBytes'
  BY <1>1, <1>2 DEF PayloadInv, ProcessedHasBytes, ProcessMissing
<1>6. SideEffectsOnce'
  BY <1>1, <1>2 DEF PayloadInv, SideEffectsOnce, MissingIsNormal, ProcessMissing, TypeOK
<1>7. QuotaDecisionsStick' /\ MissingIsNormal'
  <2>1. events_quota_pruned' = events_quota_pruned
    BY DEF ProcessMissing
  <2> QED  BY <1>1, <1>2, <2>1 DEF PayloadInv, QuotaDecisionsStick, MissingIsNormal
<1> QED  BY <1>3, <1>4, <1>5, <1>6, <1>7

\* Quota pruning keeps counts, schedule, bytes and side effects right.
LEMMA PrunePayload ==
  ASSUME PayloadInv, NEW e \in EventIds, prune_quota_payload(e)
  PROVE  /\ RefCountExact' /\ UsageExact' /\ ScheduleMirrorsMissing' /\ ProcessedHasBytes'
         /\ SideEffectsOnce' /\ QuotaDecisionsStick' /\ MissingIsNormal'
<1> USE HeaderFacts
<1>1. /\ TypeOK /\ events' = events /\ events \subseteq EventIds /\ e \in events
      /\ Referencing(content_state[e]) /\ content_state[e] \in {"NoRow", "Missing"}
      /\ content_state' = [content_state EXCEPT ![e] = "Pruned"]
  BY DEF PayloadInv, TypeOK, prune_quota_payload, graphVars, Referencing
<1>2. \A f \in EventIds : content_state'[f] = IF f = e THEN "Pruned" ELSE content_state[f]
  BY <1>1 DEF TypeOK
<1>3. RefCountExact' /\ UsageExact'
  <2>1. /\ "Pruned" \in ContentStates /\ ~ Referencing("Pruned")
        /\ BucketOf("Pruned") = "pruned"
    BY DEF ContentStates, Referencing, BucketOf
  <2>2. /\ content_rc' = [content_rc EXCEPT ![content_hash(e)] = @ - 1]
        /\ ids_data_usage' = MoveUsage(e, BucketOf(content_state[e]), "pruned")
    BY DEF prune_quota_payload
  <2> QED  BY <1>1, <2>1, <2>2, MoveCounts
<1>4. ScheduleMirrorsMissing'
  <2>1. events_content_missing' = events_content_missing
             \ IF content_state[e] = "Missing" THEN {<<next_fetch_attempt[e], e>>} ELSE {}
    BY DEF prune_quota_payload
  <2>2. \A f \in EventIds : f # e => next_fetch_attempt'[f] = next_fetch_attempt[f]
    BY DEF prune_quota_payload, Forgotten
  <2> QED  BY <1>1, <1>2, <2>1, <2>2 DEF PayloadInv, ScheduleMirrorsMissing
<1>5. ProcessedHasBytes'
  BY <1>1, <1>2 DEF PayloadInv, ProcessedHasBytes, prune_quota_payload
<1>6. SideEffectsOnce'
  <2>1. IsPost(e)
    BY <1>1, KindAssumption DEF prune_quota_payload, IsPost
  <2> QED  BY <1>1, <1>2, <2>1 DEF PayloadInv, SideEffectsOnce, prune_quota_payload, TypeOK
<1>7. QuotaDecisionsStick' /\ MissingIsNormal'
  <2>1. events_quota_pruned' = events_quota_pruned \cup {e}
    BY DEF prune_quota_payload
  <2> QED  BY <1>1, <1>2, <2>1 DEF PayloadInv, QuotaDecisionsStick, MissingIsNormal
<1> QED  BY <1>3, <1>4, <1>5, <1>6, <1>7

\* Steps of the fetch schedule, redeliveries and collections.
LEMMA OtherStepsPayload ==
  ASSUME PayloadInv, UNCHANGED <<events, content_state, content_rc, ids_data_usage,
                                 events_quota_pruned, projections>>,
         ScheduleMirrorsMissing', ProcessedHasBytes'
  PROVE  /\ RefCountExact' /\ UsageExact' /\ ScheduleMirrorsMissing' /\ ProcessedHasBytes'
         /\ SideEffectsOnce' /\ QuotaDecisionsStick' /\ MissingIsNormal'
BY DEF PayloadInv, RefCountExact, UsageExact, SideEffectsOnce, QuotaDecisionsStick,
       MissingIsNormal

\* An empty database has nothing to count.
LEMMA PayloadInit == Init => PayloadInv
<1> SUFFICES ASSUME Init PROVE PayloadInv
  OBVIOUS
<1>1. TypeOK
  BY BoundAssumption DEF Init, TypeOK, Times, ContentStates
<1>2. \A h, a, b : Holders(h) = {} /\ InBucket(a, b) = {} /\ OfAuthor(a) = {}
  BY DEF Init, Holders, InBucket, OfAuthor
<1>3. Cardinality({}) = 0
  BY FS_EmptySet
<1>4. RefCountExact
  BY <1>2, <1>3 DEF RefCountExact, Holders, Init
<1>5. UsageExact
  BY <1>2, <1>3 DEF UsageExact, InBucket, OfAuthor, Init, Buckets
<1>6. /\ ScheduleMirrorsMissing /\ ProcessedHasBytes /\ SideEffectsOnce
      /\ QuotaDecisionsStick /\ MissingIsNormal
  BY DEF Init, ScheduleMirrorsMissing, ProcessedHasBytes, SideEffectsOnce,
         QuotaDecisionsStick, MissingIsNormal
<1> QED  BY <1>1, <1>4, <1>5, <1>6 DEF PayloadInv

\* Every transaction keeps the payload tables right.
LEMMA PayloadStep == ASSUME PayloadInv, [Next]_vars PROVE PayloadInv'
<1> DEFINE Rest == /\ RefCountExact /\ UsageExact /\ ScheduleMirrorsMissing
                   /\ ProcessedHasBytes /\ SideEffectsOnce /\ QuotaDecisionsStick
                   /\ MissingIsNormal
<1>0. TypeOK /\ TypeOK'
  BY TypeStep DEF PayloadInv
<1>1. ASSUME NEW e \in EventIds,
             NEW s \in {HeaderState(e), AfterContent(HeaderState(e), e)}, Insert(e, s)
      PROVE  Rest'
  <2>1. s \in ContentStates
    BY StateFacts
  <2> QED  BY <1>1, <2>1, InsertRefCount, InsertUsage, InsertOthers
<1>2. ASSUME NEW e \in EventIds, NEW t \in Times, NEW u \in Times, Reschedule(e, t, u)
      PROVE  Rest'
  <2>1. ScheduleMirrorsMissing'
    <3>1. /\ e \in events /\ content_state[e] = "Missing" /\ t = next_fetch_attempt[e]
          /\ events' = events /\ content_state' = content_state
          /\ events_content_missing' = (events_content_missing \ {<<t, e>>}) \cup {<<u, e>>}
      BY <1>2 DEF Reschedule, graphVars, stateVars
    <3>2. \A f \in EventIds : next_fetch_attempt'[f] = IF f = e THEN u ELSE next_fetch_attempt[f]
      BY <1>0, <1>2 DEF Reschedule, TypeOK
    <3> QED  BY <1>0, <3>1, <3>2 DEF PayloadInv, ScheduleMirrorsMissing, TypeOK
  <2>2. ProcessedHasBytes'
    BY <1>2 DEF Reschedule, PayloadInv, ProcessedHasBytes, graphVars, stateVars, payloadVars
  <2> QED
    BY <1>2, <2>1, <2>2, OtherStepsPayload DEF Reschedule, graphVars, stateVars, payloadVars
<1>3. ASSUME NEW e \in EventIds, process_event_again(e) PROVE Rest'
  <2>1. ScheduleMirrorsMissing' /\ ProcessedHasBytes'
    BY <1>3 DEF process_event_again, PayloadInv, ScheduleMirrorsMissing, ProcessedHasBytes,
                graphVars, stateVars, payloadVars
  <2> QED
    BY <1>3, <2>1, OtherStepsPayload DEF process_event_again, graphVars, stateVars, payloadVars
<1>4. ASSUME NEW h \in Hashes, collect_payload(h) PROVE Rest'
  <2>1. ProcessedHasBytes'
    <3> SUFFICES ASSUME NEW e \in events', content_state'[e] = "NoRow"
                 PROVE  content_hash(e) \in content_store'
      BY DEF ProcessedHasBytes
    <3>1. e \in events /\ content_state[e] = "NoRow" /\ content_hash(e) \in content_store
      BY <1>4 DEF collect_payload, graphVars, stateVars, PayloadInv, ProcessedHasBytes
    <3>2. e \in Holders(content_hash(e))
      BY <3>1 DEF Holders, Referencing
    <3>3. content_rc[content_hash(e)] # 0
      <4>1. Holders(content_hash(e)) \in SUBSET EventIds /\ content_hash(e) \in Hashes
        BY <1>0, <3>1, HeaderFacts DEF Holders, TypeOK
      <4>2. content_rc[content_hash(e)] = Cardinality(Holders(content_hash(e)))
        BY <4>1 DEF PayloadInv, RefCountExact, Holders
      <4> QED  BY <3>2, <4>1, <4>2, CountFacts
    <3> QED  BY <1>4, <3>1, <3>3 DEF collect_payload
  <2>2. ScheduleMirrorsMissing'
    BY <1>4 DEF collect_payload, PayloadInv, ScheduleMirrorsMissing, graphVars, stateVars,
                fetchVars
  <2> QED  BY <1>4, <2>1, <2>2, OtherStepsPayload DEF collect_payload, graphVars, stateVars
<1>5. ASSUME UNCHANGED vars PROVE Rest'
  <2>1. ScheduleMirrorsMissing' /\ ProcessedHasBytes'
    BY <1>5 DEF vars, PayloadInv, ScheduleMirrorsMissing, ProcessedHasBytes,
                graphVars, stateVars, fetchVars, payloadVars
  <2> QED
    BY <1>5, <2>1, OtherStepsPayload DEF vars, graphVars, stateVars, payloadVars
<1>6. Rest'
  BY <1>1, <1>2, <1>3, <1>4, <1>5, StepCases, ProcessMissingPayload, PrunePayload
     DEF record_failed_content_fetch, defer_content_fetch
<1> QED  BY <1>0, <1>6 DEF PayloadInv

\* References, usage, the fetch schedule, the bytes of Processed content and its
\* side effects are exact in every reachable database, for every set of headers.
THEOREM PayloadCorrect ==
  Spec => []ContentExact
<1>1. Init => PayloadInv
  BY PayloadInit
<1>2. PayloadInv /\ [Next]_vars => PayloadInv'
  BY PayloadStep
<1>3. PayloadInv => ContentExact
  BY DEF PayloadInv, ContentExact
<1> QED  BY <1>1, <1>2, <1>3, PTL DEF Spec

\* No delivery is ever rolled back by the integrity checks of the transactions:
\* the invariants above leave them nothing to find.
THEOREM NoRollback == Spec => []NeverRolledBack
<1>1. GraphInv /\ PayloadInv => NeverRolledBack
  <2> SUFFICES ASSUME GraphInv, PayloadInv PROVE NeverRolledBack
    OBVIOUS
  <2>1. ASSUME NEW e \in events, Referencing(content_state[e])
        PROVE  content_rc[content_hash(e)] > 0
    <3>1. /\ Holders(content_hash(e)) \in SUBSET EventIds /\ e \in Holders(content_hash(e))
          /\ content_hash(e) \in Hashes
      BY <2>1, HeaderFacts DEF Holders, PayloadInv, TypeOK
    <3>2. content_rc[content_hash(e)] = Cardinality(Holders(content_hash(e)))
      BY <3>1 DEF PayloadInv, RefCountExact, Holders
    <3>3. /\ Cardinality(Holders(content_hash(e))) \in Nat
          /\ Cardinality(Holders(content_hash(e))) # 0
      BY <3>1, CountFacts
    <3> QED  BY <3>2, <3>3
  <2>2. ASSUME NEW e \in events
        PROVE  ids_data_usage[author(e)][BucketOf(content_state[e])] > 0
    <3> DEFINE U == InBucket(author(e), BucketOf(content_state[e]))
    <3>1. /\ U \in SUBSET EventIds /\ e \in U /\ author(e) \in Authors
          /\ BucketOf(content_state[e]) \in Buckets \ {"total"}
      BY HeaderFacts, BucketFacts DEF InBucket, PayloadInv, TypeOK
    <3>2. ids_data_usage[author(e)][BucketOf(content_state[e])] = Cardinality(U)
      BY <3>1 DEF PayloadInv, UsageExact, InBucket
    <3>3. Cardinality(U) \in Nat /\ Cardinality(U) # 0
      BY <3>1, CountFacts
    <3> HIDE DEF U
    <3> QED  BY <3>2, <3>3
  <2>3. ASSUME NEW e \in EventIds \ events PROVE ~ InsertFails(e)
    <3>1. ASSUME NEW p \in DeletedParents(e)
          PROVE  /\ ~ (content_state[p] = "Deleted" /\ deleted_by[p] \notin events)
                 /\ ~ (Referencing(content_state[p]) /\ content_rc[content_hash(p)] = 0)
                 /\ ids_data_usage[author(p)][BucketOf(content_state[p])] # 0
      <4>1. p \in events
        BY OneDeletedParent DEF GraphInv
      <4>2. content_state[p] = "Deleted" => deleted_by[p] \in events
        BY <4>1 DEF GraphInv, DeletionConverges, Attributed, Deleters
      <4> QED  BY <4>1, <4>2, <2>1, <2>2
    <3>2. ASSUME NEW p \in MissingParents(e), missing_deleted_by[<<author(e), p>>] # None
          PROVE  missing_deleted_by[<<author(e), p>>] \in events
      <4>1. ~ IsPresent(author(e), p) /\ p \in EventIds /\ author(e) \in Authors
        BY HeaderFacts DEF MissingParents
      <4> QED  BY <3>2, <4>1 DEF GraphInv, DeletionConverges, Attributed, Deleters
    <3> QED  BY <3>1, <3>2 DEF InsertFails
  <2>4. ProcessedHasBytes
    BY DEF PayloadInv
  <2> QED  BY <2>1, <2>2, <2>3, <2>4 DEF NeverRolledBack, ProcessedHasBytes
<1>2. Init => GraphInv /\ PayloadInv
  BY GraphInit, PayloadInit
<1>3. GraphInv /\ PayloadInv /\ [Next]_vars => GraphInv' /\ PayloadInv'
  BY GraphStep, PayloadStep
<1> QED  BY <1>1, <1>2, <1>3, PTL DEF Spec

-----------------------------------------------------------------------------
(* Sums *)

\* A set of natural numbers has a least one.
LEMMA NatLeast ==
  ASSUME NEW T, T \subseteq Nat, T # {}
  PROVE  \E x \in T : \A y \in T : x =< y
<1> DEFINE R == OpToRel(<, Nat)
<1>1. IsWellFoundedOn(R, Nat)
  BY NatLessThanWellFounded
<1>2. PICK x \in T : \A y \in T : ~ (<<y, x>> \in R)
  BY <1>1, WFMin, Zenon
<1>3. ASSUME NEW y \in T PROVE x =< y
  <2>1. <<y, x>> \in Nat \X Nat
    OBVIOUS
  <2>2. y < x => <<y, x>> \in R
    BY <2>1 DEF OpToRel
  <2>3. ~ (y < x)
    BY <1>2, <2>2, Zenon
  <2> QED
    BY <2>3
<1> QED
  BY <1>3

\* One pair for each unit of f[i], for i in s: the sum of f is their number.
Units(f, s) == {p \in s \X Nat : 1 =< p[2] /\ p[2] =< f[p[1]]}

LEMMA UnitsOfOne ==
  ASSUME NEW f, NEW x, f[x] \in Nat
  PROVE  IsFiniteSet(Units(f, {x})) /\ Cardinality(Units(f, {x})) = f[x]
<1>1. f[x] \in Nat
  OBVIOUS
<1>2. Units(f, {x}) = {x} \X (1 .. f[x])
  <2>1. \A p \in {x} \X Nat : p[1] = x /\ p[2] \in Nat
    OBVIOUS
  <2>2. \A n \in Nat : n \in 1 .. f[x] <=> 1 =< n /\ n =< f[x]
    BY <1>1
  <2>3. ASSUME NEW p \in Units(f, {x}) PROVE p \in {x} \X (1 .. f[x])
    BY <2>1, <2>2 DEF Units
  <2>4. ASSUME NEW p \in {x} \X (1 .. f[x]) PROVE p \in Units(f, {x})
    <3>1. p[1] = x /\ p[2] \in 1 .. f[x] /\ p = <<p[1], p[2]>>
      OBVIOUS
    <3>2. p[2] \in Nat
      BY <1>1, <3>1
    <3>3. p \in {x} \X Nat
      BY <3>1, <3>2
    <3> QED
      BY <2>2, <3>1, <3>2, <3>3 DEF Units
  <2> QED
    BY <2>3, <2>4
<1>3. IsFiniteSet({x}) /\ Cardinality({x}) = 1
  BY FS_Singleton
<1>4. IsFiniteSet(1 .. f[x]) /\ Cardinality(1 .. f[x]) = f[x]
  BY <1>1, FS_Interval
<1>5. IsFiniteSet({x} \X (1 .. f[x])) /\ Cardinality({x} \X (1 .. f[x])) = 1 * f[x]
  BY <1>3, <1>4, FS_Product
<1>6. 1 * f[x] = f[x]
  BY <1>1
<1> QED
  BY <1>2, <1>5, <1>6, Zenon

LEMMA UnitsFinite ==
  ASSUME NEW S, IsFiniteSet(S), NEW f, \A i \in S : f[i] \in Nat, NEW s \in SUBSET S
  PROVE  IsFiniteSet(Units(f, s))
<1> DEFINE bad == {u \in SUBSET S : ~ IsFiniteSet(Units(f, u))}
           T == {Cardinality(u) : u \in bad}
<1> SUFFICES ASSUME bad # {} PROVE FALSE
  OBVIOUS
<1>1. \A u \in SUBSET S : IsFiniteSet(u) /\ Cardinality(u) \in Nat
  BY FS_Subset, FS_CardinalityType
<1>2. T \subseteq Nat /\ T # {}
  BY <1>1
<1>3. PICK n \in T : \A m \in T : n =< m
  <2> HIDE DEF T
  <2> QED
    BY <1>2, NatLeast
<1>4. PICK u \in bad : n = Cardinality(u)
  BY <1>3
<1>5. u \in SUBSET S /\ ~ IsFiniteSet(Units(f, u))
  BY <1>4
<1>6. u # {}
  <2>1. Units(f, {}) = {}
    BY DEF Units
  <2> QED
    BY <1>5, <2>1, FS_EmptySet
<1>7. PICK x \in u : TRUE
  BY <1>6
<1>8. u \ {x} \in SUBSET S /\ Cardinality(u \ {x}) = Cardinality(u) - 1
  BY <1>1, <1>5, <1>7, FS_RemoveElement
<1>9. IsFiniteSet(Units(f, u \ {x}))
  <2>1. Cardinality(u \ {x}) \notin T
    <3>1. n \in Nat /\ n - 1 < n /\ Cardinality(u \ {x}) = n - 1
      BY <1>1, <1>4, <1>5, <1>8
    <3> HIDE DEF T
    <3> QED
      BY <1>3, <3>1
  <2> QED
    BY <1>8, <2>1
<1>10. x \in S
  BY <1>5, <1>7
<1>11. IsFiniteSet(Units(f, {x}))
  BY <1>10, UnitsOfOne
<1>12. Units(f, u) = Units(f, {x}) \cup Units(f, u \ {x})
  BY <1>7 DEF Units
<1>13. IsFiniteSet(Units(f, {x}) \cup Units(f, u \ {x}))
  BY <1>9, <1>11, FS_Union, Zenon
<1> QED
  BY <1>5, <1>12, <1>13, Zenon

UnitCount(f, s) == Cardinality(Units(f, s))

\* The number of units, one part after another.
LEMMA UnitsCount ==
  ASSUME NEW s, IsFiniteSet(s), NEW f, \A i \in s : f[i] \in Nat,
         NEW c, NEW d, c \subseteq s, d = s \ c
  PROVE  /\ UnitCount(f, s) \in Nat /\ UnitCount(f, c) \in Nat /\ UnitCount(f, d) \in Nat
         /\ UnitCount(f, s) = UnitCount(f, c) + UnitCount(f, d)
<1>1. s \in SUBSET s /\ c \in SUBSET s /\ d \in SUBSET s
  OBVIOUS
<1> DEFINE A == Units(f, c)
           B == Units(f, d)
<1>2. IsFiniteSet(Units(f, s)) /\ IsFiniteSet(A) /\ IsFiniteSet(B)
  BY <1>1, UnitsFinite
<1>3. Units(f, s) = A \cup B /\ A \cap B = {}
  BY DEF Units
<1> HIDE DEF A, B
<1>4. Cardinality(Units(f, s)) \in Nat /\ Cardinality(A) \in Nat /\ Cardinality(B) \in Nat
  BY <1>2, FS_CardinalityType
<1>5. Cardinality(A \cup B) = Cardinality(A) + Cardinality(B) - Cardinality(A \cap B)
  BY <1>2, FS_Union
<1>6. Cardinality(A \cap B) = 0
  BY <1>3, FS_EmptySet, Zenon
<1>7. Cardinality(Units(f, s)) = Cardinality(A \cup B)
  BY <1>3, Zenon
<1> QED
  BY <1>4, <1>5, <1>6, <1>7 DEF A, B, UnitCount

\* SumFunction adds f[x] for one x after another; it counts the units of f.
LEMMA SumIsCount ==
  ASSUME NEW S, IsFiniteSet(S), NEW f \in [S -> Nat]
  PROVE  SumFunction(f) = Cardinality(Units(f, S))
<1> DEFINE pick(s) == CHOOSE x \in s : TRUE
           Rec(g) == g = [s \in SUBSET S |->
                            IF s = {} THEN 0 ELSE f[pick(s)] + g[s \ {pick(s)}]]
           w == [s \in SUBSET S |-> Cardinality(Units(f, s))]
           g == CHOOSE h : Rec(h)
<1>1. DOMAIN f = S
  OBVIOUS
<1>2. SumFunction(f) = g[S]
  BY <1>1 DEF SumFunction, SumFunctionOnSet, FoldFunctionOnSet, MapThenFoldSet
<1>3. ASSUME NEW s \in SUBSET S, s # {}
      PROVE  /\ pick(s) \in s /\ s \ {pick(s)} \in SUBSET S
             /\ f[pick(s)] \in Nat
             /\ Cardinality(Units(f, s)) = f[pick(s)] + Cardinality(Units(f, s \ {pick(s)}))
  <2>1. pick(s) \in s
    BY <1>3
  <2> DEFINE x == pick(s)
             d == s \ {x}
  <2>2. x \in S /\ {x} \subseteq s /\ s \subseteq S /\ d \in SUBSET S
    BY <2>1
  <2> HIDE DEF x
  <2>3. Cardinality(Units(f, {x})) = f[x]
    BY <2>2, UnitsOfOne
  <2>4. d = s \ {x}
    OBVIOUS
  <2> HIDE DEF d
  <2>5. UnitCount(f, d) \in Nat /\ UnitCount(f, s) = UnitCount(f, {x}) + UnitCount(f, d)
    <3>1. IsFiniteSet(s) /\ \A i \in s : f[i] \in Nat
      BY FS_Subset
    <3> QED
      BY <2>2, <2>4, <3>1, UnitsCount
  <2> QED
    BY <2>1, <2>2, <2>3, <2>5 DEF d, x, UnitCount
<1>4. Cardinality(Units(f, {})) = 0
  <2>1. Units(f, {}) = {}
    BY DEF Units
  <2> QED
    BY <2>1, FS_EmptySet
<1>5. Rec(w)
  <2> HIDE DEF pick
  <2>1. ASSUME NEW s \in SUBSET S
        PROVE  Cardinality(Units(f, s)) = IF s = {} THEN 0 ELSE f[pick(s)] + w[s \ {pick(s)}]
    <3>1. CASE s = {}
      BY <1>4, <3>1
    <3>2. CASE s # {}
      <4>1. w[s \ {pick(s)}] = Cardinality(Units(f, s \ {pick(s)}))
        BY <1>3, <3>2
      <4> QED
        BY <1>3, <3>2, <4>1
    <3> QED
      BY <3>1, <3>2
  <2> QED
    BY <2>1
<1>6. Rec(g)
  <2> HIDE DEF w, Rec
  <2> QED
    BY <1>5
<1> DEFINE bad == {s \in SUBSET S : g[s] # w[s]}
           T == {Cardinality(s) : s \in bad}
<1>7. \A s \in SUBSET S : w[s] = Cardinality(Units(f, s))
  OBVIOUS
<1>8. \A s \in SUBSET S : g[s] = IF s = {} THEN 0 ELSE f[pick(s)] + g[s \ {pick(s)}]
  <2> HIDE DEF g, pick
  <2> QED
    BY <1>6
<1> HIDE DEF g, w, pick, Rec
<1>9. bad = {}
  <2> SUFFICES ASSUME bad # {} PROVE FALSE
    OBVIOUS
  <2>1. \A u \in SUBSET S : IsFiniteSet(u) /\ Cardinality(u) \in Nat
    BY FS_Subset, FS_CardinalityType
  <2>2. T \subseteq Nat /\ T # {}
    BY <2>1
  <2>3. PICK n \in T : \A m \in T : n =< m
    <3> HIDE DEF T
    <3> QED
      BY <2>2, NatLeast
  <2>4. PICK s \in bad : n = Cardinality(s)
    BY <2>3
  <2>5. s \in SUBSET S /\ g[s] # w[s]
    BY <2>4
  <2>6. s # {}
    BY <1>4, <1>7, <1>8, <2>5
  <2>7. pick(s) \in s /\ s \ {pick(s)} \in SUBSET S
    BY <1>3, <2>5, <2>6
  <2>8. Cardinality(s \ {pick(s)}) = Cardinality(s) - 1
    BY <2>1, <2>5, <2>7, FS_RemoveElement
  <2>9. Cardinality(s \ {pick(s)}) \notin T
    BY <2>1, <2>3, <2>4, <2>5, <2>7, <2>8
  <2>10. g[s \ {pick(s)}] = w[s \ {pick(s)}]
    BY <2>7, <2>9
  <2> QED
    BY <1>3, <1>7, <1>8, <2>5, <2>6, <2>7, <2>10
<1> QED
  BY <1>2, <1>7, <1>9

\* The sum of f over a set: LogicalBytes and StoredBytes are two of these.
Weigh(f, s) == SumFunction([i \in s |-> f[i]])

LEMMA WeighIsCount ==
  ASSUME NEW U, NEW f \in [U -> Nat], NEW s \in SUBSET U, IsFiniteSet(s)
  PROVE  Weigh(f, s) = UnitCount(f, s)
<1> DEFINE r == [i \in s |-> f[i]]
<1>1. r \in [s -> Nat] /\ \A i \in s : r[i] = f[i]
  OBVIOUS
<1> HIDE DEF r
<1>2. SumFunction(r) = Cardinality(Units(r, s))
  BY <1>1, SumIsCount
<1>3. Units(r, s) = Units(f, s)
  <2>1. \A p \in s \X Nat : r[p[1]] = f[p[1]]
    BY <1>1
  <2> QED
    BY <2>1 DEF Units
<1> QED
  BY <1>2, <1>3 DEF Weigh, UnitCount, r

\* How sums behave: over one part and the rest, over nothing, over one member.
LEMMA WeighFacts ==
  ASSUME NEW U, NEW f \in [U -> Nat], NEW s \in SUBSET U, IsFiniteSet(s)
  PROVE  /\ Weigh(f, s) \in Nat
         /\ \A x \in s : Weigh(f, {x}) = f[x]
         /\ Weigh(f, {}) = 0
<1> DEFINE r == [i \in s |-> f[i]]
<1>1. r \in [s -> Nat] /\ \A i \in s : r[i] = f[i]
  OBVIOUS
<1> HIDE DEF r
<1>2. ASSUME NEW c \in SUBSET s PROVE Weigh(f, c) = Cardinality(Units(r, c))
  <2>1. c \in SUBSET U /\ IsFiniteSet(c)
    BY FS_Subset
  <2>2. Units(r, c) = Units(f, c)
    <3>1. \A p \in c \X Nat : r[p[1]] = f[p[1]]
      BY <1>1
    <3> QED
      BY <3>1 DEF Units
  <2> QED
    BY <2>1, <2>2, WeighIsCount DEF UnitCount
<1>3. s \in SUBSET s
  OBVIOUS
<1>4. Weigh(f, s) \in Nat
  BY <1>1, <1>2, <1>3, UnitsFinite, FS_CardinalityType
<1>5. ASSUME NEW x \in s PROVE Weigh(f, {x}) = f[x]
  <2>1. {x} \in SUBSET s
    OBVIOUS
  <2>2. Cardinality(Units(r, {x})) = r[x]
    BY <1>1, UnitsOfOne
  <2> QED
    BY <1>1, <1>2, <2>1, <2>2
<1>6. Weigh(f, {}) = 0
  <2>1. {} \in SUBSET s
    OBVIOUS
  <2>2. Units(r, {}) = {}
    BY DEF Units
  <2> QED
    BY <1>2, <2>1, <2>2, FS_EmptySet
<1> QED
  BY <1>3, <1>4, <1>5, <1>6

LEMMA WeighSplit ==
  ASSUME NEW U, NEW f \in [U -> Nat], NEW s \in SUBSET U, IsFiniteSet(s),
         NEW c, NEW d, c \subseteq s, d = s \ c
  PROVE  /\ Weigh(f, s) \in Nat /\ Weigh(f, c) \in Nat /\ Weigh(f, d) \in Nat
         /\ Weigh(f, s) = Weigh(f, c) + Weigh(f, d)
<1>2. /\ c \in SUBSET U /\ IsFiniteSet(c)
      /\ d \in SUBSET U /\ IsFiniteSet(d)
  BY FS_Subset
<1>3. Weigh(f, s) = UnitCount(f, s) /\ Weigh(f, c) = UnitCount(f, c) /\ Weigh(f, d) = UnitCount(f, d)
  BY <1>2, WeighIsCount
<1>4. \A i \in s : f[i] \in Nat
  OBVIOUS
<1>5. /\ UnitCount(f, s) \in Nat /\ UnitCount(f, c) \in Nat /\ UnitCount(f, d) \in Nat
      /\ UnitCount(f, s) = UnitCount(f, c) + UnitCount(f, d)
  BY <1>4, UnitsCount
<1> QED
  BY <1>3, <1>5

\* Sums depend only on the summands, and members that weigh nothing add nothing.
LEMMA WeighSame ==
  ASSUME NEW s, NEW f, NEW g, \A i \in s : f[i] = g[i]
  PROVE  Weigh(f, s) = Weigh(g, s)
BY DEF Weigh

LEMMA WeighNothing ==
  ASSUME NEW U, NEW f \in [U -> Nat], NEW s \in SUBSET U, IsFiniteSet(s),
         NEW c, c \subseteq s, \A i \in s : i \notin c => f[i] = 0
  PROVE  Weigh(f, s) = Weigh(f, c)
<1> DEFINE d == s \ c
<1>1. d \in SUBSET U /\ IsFiniteSet(d) /\ d = s \ c /\ \A i \in d : f[i] = 0
  BY FS_Subset
<1> HIDE DEF d
<1>2. Weigh(f, d) = Cardinality(Units(f, d))
  BY <1>1, WeighIsCount DEF UnitCount
<1>3. Units(f, d) = {}
  <2>1. \A p \in d \X Nat : f[p[1]] = 0 /\ p[2] \in Nat
    BY <1>1
  <2> QED
    BY <2>1 DEF Units
<1>4. Weigh(f, d) = 0
  BY <1>2, <1>3, FS_EmptySet
<1>5. Weigh(f, c) \in Nat /\ Weigh(f, s) = Weigh(f, c) + Weigh(f, d)
  BY <1>1, WeighSplit
<1> QED
  BY <1>4, <1>5

\* A sum is kept up to date by the difference where the summands change.
LEMMA WeighPatch ==
  ASSUME NEW U, NEW f \in [U -> Nat], NEW g \in [U -> Nat], NEW s \in SUBSET U, IsFiniteSet(s),
         NEW c, c \subseteq s, \A i \in s : i \notin c => f[i] = g[i]
  PROVE  Weigh(g, s) = Weigh(f, s) - Weigh(f, c) + Weigh(g, c)
<1> DEFINE d == s \ c
<1>0. d = s \ c /\ \A i \in d : f[i] = g[i]
  OBVIOUS
<1> HIDE DEF d
<1>1. Weigh(f, d) = Weigh(g, d)
  BY <1>0, WeighSame
<1>2. Weigh(f, c) \in Nat /\ Weigh(f, d) \in Nat /\ Weigh(f, s) = Weigh(f, c) + Weigh(f, d)
  BY <1>0, WeighSplit
<1>3. Weigh(g, c) \in Nat /\ Weigh(g, d) \in Nat /\ Weigh(g, s) = Weigh(g, c) + Weigh(g, d)
  BY <1>0, WeighSplit
<1> QED
  BY <1>1, <1>2, <1>3

\* So is a count.
LEMMA CountSplit ==
  ASSUME NEW s, IsFiniteSet(s), NEW c, NEW d, c \subseteq s, d = s \ c
  PROVE  /\ Cardinality(s) \in Nat /\ Cardinality(c) \in Nat /\ Cardinality(d) \in Nat
         /\ Cardinality(s) = Cardinality(c) + Cardinality(d)
<1>1. IsFiniteSet(c) /\ IsFiniteSet(d)
  BY FS_Subset
<1>2. Cardinality(s) \in Nat /\ Cardinality(c) \in Nat /\ Cardinality(d) \in Nat
  BY <1>1, FS_CardinalityType
<1>3. s = c \cup d /\ c \cap d = {}
  OBVIOUS
<1>4. Cardinality(c \cup d) = Cardinality(c) + Cardinality(d) - Cardinality(c \cap d)
  BY <1>1, FS_Union
<1>5. Cardinality(c \cap d) = 0 /\ Cardinality(s) = Cardinality(c \cup d)
  BY <1>3, FS_EmptySet, Zenon
<1> QED
  BY <1>2, <1>4, <1>5

-----------------------------------------------------------------------------
(* The accounting, over the rows the scan has covered *)

LogicalFun == [i \in EventIds |-> Logical(i)]
StoredFun == [h \in Hashes |-> StoredLen(h)]

CountedIds == {i \in EventIds : EventCounted(i)}
CountedOf(a) == {i \in CountedIds : author(i) = a}
CountedHashes == {h \in Hashes : HashCounted(h)}

\* What AccountingExact says, over the covered rows that exist and those that may
\* still come: the latter count for nothing.
Ledger ==
  /\ \A h \in Hashes :
       references[h] = Cardinality({i \in CountedIds : HoldsReference(i, h)})
  /\ \A h \in Hashes :
       /\ h \in protected_history <=> \E e \in CountedIds : Guards(e, h)
       /\ h \in hash_rows <=> \E e \in CountedIds : e \in events /\ content_hash(e) = h
  /\ logical_current_bytes = Weigh(LogicalFun, CountedIds)
  /\ \A a \in Authors : author_bytes[a] = Weigh(LogicalFun, CountedOf(a))
  /\ unique_stored_bytes = Weigh(StoredFun, CountedHashes)

LEMMA FunTypes ==
  /\ LogicalFun \in [EventIds -> Nat] /\ \A i \in EventIds : LogicalFun[i] = Logical(i)
  /\ StoredFun \in [Hashes -> Nat] /\ \A h \in Hashes : StoredFun[h] = StoredLen(h)
<1>1. \A i \in EventIds : Logical(i) \in Nat
  BY HeaderFacts, LenAssumption DEF Logical
<1>2. \A h \in Hashes : StoredLen(h) \in Nat
  BY LenAssumption DEF StoredLen
<1> QED
  BY <1>1, <1>2 DEF LogicalFun, StoredFun

LEMMA SumForms ==
  /\ \A S \in SUBSET EventIds : LogicalBytes(S) = Weigh(LogicalFun, S)
  /\ \A S \in SUBSET Hashes : StoredBytes(S) = Weigh(StoredFun, S)
<1>1. ASSUME NEW S \in SUBSET EventIds PROVE LogicalBytes(S) = Weigh(LogicalFun, S)
  <2>1. [i \in S |-> Logical(i)] = [i \in S |-> LogicalFun[i]]
    BY FunTypes
  <2> QED
    BY <2>1 DEF LogicalBytes, Weigh
<1>2. ASSUME NEW S \in SUBSET Hashes PROVE StoredBytes(S) = Weigh(StoredFun, S)
  <2>1. [i \in S |-> StoredLen(i)] = [i \in S |-> StoredFun[i]]
    BY FunTypes
  <2> QED
    BY <2>1 DEF StoredBytes, Weigh
<1> QED
  BY <1>1, <1>2

LEMMA Finite ==
  /\ \A S \in SUBSET EventIds : IsFiniteSet(S)
  /\ \A S \in SUBSET Hashes : IsFiniteSet(S)
BY FiniteAssumption, KeyAssumption, FS_Subset

LEMMA LedgerForm == TypeOK => (AccountingExact <=> Ledger)
<1> SUFFICES ASSUME TypeOK PROVE AccountingExact <=> Ledger
  OBVIOUS
<1> DEFINE covered == {e \in events : EventCounted(e)}
<1>1. events \subseteq EventIds /\ content_store \subseteq Hashes
  BY DEF TypeOK
<1>2. covered = {i \in CountedIds : i \in events}
  BY <1>1 DEF CountedIds
<1>3. \A h \in Hashes : {e \in covered : HoldsReference(e, h)} = {i \in CountedIds : HoldsReference(i, h)}
  BY <1>2 DEF HoldsReference
<1>4. \A h \in Hashes : /\ (\E e \in covered : Guards(e, h)) <=> \E e \in CountedIds : Guards(e, h)
                        /\ (\E e \in covered : content_hash(e) = h) <=>
                             \E e \in CountedIds : e \in events /\ content_hash(e) = h
  BY <1>2 DEF Guards
<1>5. ASSUME NEW s \in SUBSET EventIds, NEW c, c = {i \in s : i \in events}
      PROVE  LogicalBytes(c) = Weigh(LogicalFun, s)
  <2>1. c \subseteq s /\ IsFiniteSet(s) /\ c \in SUBSET EventIds
    BY <1>5, Finite
  <2>2. \A i \in s : i \notin c => LogicalFun[i] = 0
    BY <1>5, FunTypes DEF Logical
  <2>3. Weigh(LogicalFun, s) = Weigh(LogicalFun, c)
    BY <2>1, <2>2, FunTypes, WeighNothing
  <2> QED
    BY <2>1, <2>3, SumForms
<1>6. LogicalBytes(covered) = Weigh(LogicalFun, CountedIds)
  <2>1. CountedIds \in SUBSET EventIds
    BY DEF CountedIds
  <2> HIDE DEF covered
  <2> QED
    BY <1>2, <1>5, <2>1
<1>7. ASSUME NEW a \in Authors
      PROVE  LogicalBytes({e \in covered : author(e) = a}) = Weigh(LogicalFun, CountedOf(a))
  <2> DEFINE c == {e \in covered : author(e) = a}
  <2>1. CountedOf(a) \in SUBSET EventIds /\ c = {i \in CountedOf(a) : i \in events}
    BY <1>2 DEF CountedOf, CountedIds
  <2> HIDE DEF c
  <2>2. LogicalBytes(c) = Weigh(LogicalFun, CountedOf(a))
    BY <1>5, <2>1
  <2> QED
    BY <2>2 DEF c
<1>8. StoredBytes({h \in content_store : HashCounted(h)}) = Weigh(StoredFun, CountedHashes)
  <2> DEFINE c == {h \in content_store : HashCounted(h)}
             s == CountedHashes
  <2>1. c \subseteq s /\ c \in SUBSET Hashes /\ s \in SUBSET Hashes /\ IsFiniteSet(s)
    BY <1>1, Finite DEF CountedHashes
  <2>2. \A h \in s : h \notin c => StoredFun[h] = 0
    BY FunTypes DEF StoredLen, CountedHashes
  <2> HIDE DEF c, s
  <2>3. Weigh(StoredFun, s) = Weigh(StoredFun, c)
    BY <2>1, <2>2, FunTypes, WeighNothing
  <2>4. StoredBytes(c) = Weigh(StoredFun, s)
    BY <2>1, <2>3, SumForms
  <2> QED
    BY <2>4 DEF c, s
<1> HIDE DEF covered
<1>9. AccountingExact <=>
        /\ \A h \in Hashes :
             /\ references[h] = Cardinality({e \in covered : HoldsReference(e, h)})
             /\ h \in protected_history <=> \E e \in covered : Guards(e, h)
             /\ h \in hash_rows <=> \E e \in covered : content_hash(e) = h
        /\ logical_current_bytes = LogicalBytes(covered)
        /\ \A a \in Authors :
             author_bytes[a] = LogicalBytes({e \in covered : author(e) = a})
        /\ unique_stored_bytes = StoredBytes({h \in content_store : HashCounted(h)})
  BY DEF AccountingExact, covered
<1> QED
  BY <1>3, <1>4, <1>6, <1>7, <1>8, <1>9 DEF Ledger


\* The same after a step.
LEMMA FormsNext ==
  /\ TypeOK' => (AccountingExact' <=> Ledger')
  /\ LogicalFun' \in [EventIds -> Nat] /\ \A i \in EventIds : LogicalFun'[i] = Logical(i)'
  /\ StoredFun' \in [Hashes -> Nat] /\ \A h \in Hashes : StoredFun'[h] = StoredLen(h)'
<1>1. TypeOK' => (AccountingExact' <=> Ledger')
  BY LedgerForm, PTL
<1>2. \A i \in EventIds : Logical(i)' \in Nat
  BY HeaderFacts, LenAssumption DEF Logical
<1>3. \A h \in Hashes : StoredLen(h)' \in Nat
  BY LenAssumption DEF StoredLen
<1> QED
  BY <1>1, <1>2, <1>3 DEF LogicalFun, StoredFun

-----------------------------------------------------------------------------
(* The reducers *)

\* What a reducer of e leaves alone.
Touches(e) ==
  /\ events \subseteq events' /\ events' \subseteq events \cup {e}
  /\ \A i \in EventIds : i \notin TouchedIds(e) =>
       (i \in events' <=> i \in events) /\ content_state'[i] = content_state[i]
  /\ content_store \subseteq content_store'
  /\ \A h \in content_store' : h \notin content_store =>
       h = content_hash(e) /\ e \in events' /\ content_state'[e] = "NoRow"
  /\ \A h \in Hashes : h \notin TouchedHashes(e) => content_rc'[h] = content_rc[h]

LEMMA InsertTouches ==
  ASSUME TypeOK, NEW e \in EventIds, NEW s, Insert(e, s)
  PROVE  Touches(e) /\ events_quota_pruned' = events_quota_pruned
<1>1. \A p \in DeletedParents(e) : p \in TouchedIds(e) /\ p \in events
  BY NoneAssumption DEF DeletedParents, IsPresent, DeletesParent, TouchedIds, TypeOK
<1>2. e \in TouchedIds(e)
  BY NoneAssumption DEF TouchedIds
<1>3. events' = events \cup {e} /\ events_quota_pruned' = events_quota_pruned
  BY DEF Insert
<1>4. \A i \in EventIds : i \notin TouchedIds(e) =>
        (i \in events' <=> i \in events) /\ content_state'[i] = content_state[i]
  BY <1>1, <1>2, <1>3 DEF Insert
<1>5. content_state'[e] = s
  BY DEF Insert
<1>6. content_store \subseteq content_store' /\ \A h \in content_store' : h \notin content_store =>
        h = content_hash(e) /\ e \in events' /\ content_state'[e] = "NoRow"
  BY <1>3, <1>5 DEF Insert
<1>7. ASSUME NEW h \in Hashes, h \notin TouchedHashes(e) PROVE content_rc'[h] = content_rc[h]
  <2>1. content_hash(e) # h
    BY <1>7 DEF TouchedHashes
  <2>2. ~ \E p \in ReleasedParents(e) : content_hash(p) = h
    BY <1>1, <1>7 DEF TouchedHashes, ReleasedParents
  <2>3. content_rc'[h] = content_rc[h] + 0 - 0 /\ content_rc[h] \in Nat
    BY <2>1, <2>2 DEF Insert, NewRefCount, TypeOK
  <2> QED
    BY <2>3
<1> QED
  BY <1>3, <1>4, <1>6, <1>7 DEF Touches

LEMMA ProcessTouches ==
  ASSUME TypeOK, NEW e \in EventIds, ProcessMissing(e)
  PROVE  Touches(e) /\ events_quota_pruned' = events_quota_pruned
<1>1. e \in TouchedIds(e) /\ content_hash(e) \in TouchedHashes(e) /\ content_hash(e) \in Hashes
  BY NoneAssumption, HeaderFacts DEF TouchedIds, TouchedHashes
<1> DEFINE s == AfterContent("Missing", e)
<1>2. /\ events' = events /\ e \in events /\ content_state' = [content_state EXCEPT ![e] = s]
      /\ events_quota_pruned' = events_quota_pruned
      /\ content_store' = content_store \cup IF s = "NoRow" THEN {content_hash(e)} ELSE {}
      /\ content_rc' = IF s = "Invalid" THEN [content_rc EXCEPT ![content_hash(e)] = @ - 1]
                       ELSE content_rc
  BY DEF ProcessMissing, graphVars, can_insert_event_content
<1> HIDE DEF s
<1>3. \A i \in EventIds : content_state'[i] = IF i = e THEN s ELSE content_state[i]
  BY <1>2 DEF TypeOK
<1>4. \A h \in Hashes : h # content_hash(e) => content_rc'[h] = content_rc[h]
  BY <1>1, <1>2 DEF TypeOK
<1>5. content_store \subseteq content_store' /\ \A h \in content_store' : h \notin content_store =>
        h = content_hash(e) /\ e \in events' /\ content_state'[e] = "NoRow"
  BY <1>2, <1>3
<1> QED
  BY <1>1, <1>2, <1>3, <1>4, <1>5 DEF Touches

LEMMA PruneTouches ==
  ASSUME TypeOK, NEW e \in EventIds, prune_quota_payload(e)
  PROVE  Touches(e) /\ events_quota_pruned' = events_quota_pruned \cup {e}
<1>1. e \in TouchedIds(e) /\ content_hash(e) \in TouchedHashes(e) /\ content_hash(e) \in Hashes
  BY NoneAssumption, HeaderFacts DEF TouchedIds, TouchedHashes
<1>2. /\ events' = events /\ content_state' = [content_state EXCEPT ![e] = "Pruned"]
      /\ events_quota_pruned' = events_quota_pruned \cup {e}
      /\ content_store' = content_store
      /\ content_rc' = [content_rc EXCEPT ![content_hash(e)] = @ - 1]
  BY DEF prune_quota_payload, graphVars
<1>3. \A i \in EventIds : i # e => content_state'[i] = content_state[i]
  BY <1>2 DEF TypeOK
<1>4. \A h \in Hashes : h # content_hash(e) => content_rc'[h] = content_rc[h]
  BY <1>1, <1>2 DEF TypeOK
<1> QED
  BY <1>1, <1>2, <1>3, <1>4 DEF Touches

LEMMA DeliverTouches ==
  ASSUME TypeOK, NEW e \in EventIds, Deliver(e)
  PROVE  Touches(e) /\ events_quota_pruned' = events_quota_pruned
<1>1. CASE process_event(e)
  BY <1>1, InsertTouches DEF process_event
<1>2. CASE process_event_with_content(e)
  BY <1>2, InsertTouches DEF process_event_with_content
<1>3. CASE process_event_again(e)
  BY <1>3 DEF process_event_again, graphVars, stateVars, payloadVars, Touches
<1>4. CASE process_event_content(e)
  BY <1>4, ProcessTouches DEF process_event_content
<1>5. CASE try_materialize_stored_payload(e)
  BY <1>5, ProcessTouches DEF try_materialize_stored_payload
<1> QED
  BY <1>1, <1>2, <1>3, <1>4, <1>5 DEF Deliver


LEMMA TouchedTypes ==
  ASSUME NEW e \in EventIds
  PROVE  /\ TouchedIds(e) \subseteq EventIds /\ TouchedHashes(e) \subseteq Hashes
         /\ e \in TouchedIds(e) /\ content_hash(e) \in TouchedHashes(e)
<1>1. Header[e] \in HeaderType
  BY HeaderAssumption
<1>2. parent_aux(e) \in EventIds \cup {None}
  BY <1>1 DEF HeaderType, parent_aux
<1>3. TouchedIds(e) \subseteq EventIds /\ e \in TouchedIds(e)
  BY <1>2, NoneAssumption DEF TouchedIds
<1>4. TouchedHashes(e) \subseteq Hashes /\ content_hash(e) \in TouchedHashes(e)
  BY <1>3, HeaderFacts DEF TouchedHashes
<1> QED
  BY <1>3, <1>4

\* payload_after_tx keeps the ledger: it settles the covered rows that the reducer
\* changed, and no other covered row changed.
LEMMA LedgerReduced ==
  ASSUME TypeOK, TypeOK', Ledger, NEW e \in EventIds, NEW nominated,
         Touches(e), payload_after(e, nominated)
  PROVE  Ledger'
<1> DEFINE counted == {i \in TouchedIds(e) : EventCounted(i)}
           new == counted \cap events'
           stored == {h \in TouchedHashes(e) : HashCounted(h)}
<1>1. UNCHANGED <<stage, cursor>>
  BY DEF payload_after
<1>2. /\ TouchedIds(e) \subseteq EventIds /\ TouchedHashes(e) \subseteq Hashes
      /\ e \in TouchedIds(e)
  BY TouchedTypes
<1>3. /\ CountedIds' = CountedIds /\ CountedHashes' = CountedHashes
      /\ \A a : CountedOf(a)' = CountedOf(a)
  BY <1>1 DEF CountedIds, CountedHashes, CountedOf, EventCounted, HashCounted
<1>4. counted \subseteq CountedIds /\ \A i \in CountedIds : i \in TouchedIds(e) => i \in counted
  BY <1>2 DEF CountedIds
<1>5. stored \subseteq CountedHashes /\ \A h \in CountedHashes : h \in TouchedHashes(e) => h \in stored
  BY <1>2 DEF CountedHashes
<1>6. \A i \in EventIds : i \notin TouchedIds(e) =>
        (i \in events' <=> i \in events) /\ content_state'[i] = content_state[i]
  BY DEF Touches
<1>7. CountedIds \in SUBSET EventIds /\ CountedHashes \in SUBSET Hashes
      /\ \A a : CountedOf(a) \in SUBSET EventIds
  BY DEF CountedIds, CountedHashes, CountedOf
<1>8. /\ references' = [h \in Hashes |->
           references[h] - Cardinality({i \in counted : HoldsReference(i, h)})
                         + Cardinality({i \in counted : HoldsReference(i, h)'})]
      /\ hash_rows' = hash_rows \cup {content_hash(i) : i \in new}
      /\ protected_history' = protected_history
           \cup {content_hash(i) : i \in {j \in new : ~ Header[j].remote_post}}
      /\ author_bytes' = [a \in Authors |->
           author_bytes[a] - LogicalBytes({i \in counted : author(i) = a})
             + SumFunction([i \in {j \in counted : author(j) = a} |-> Logical(i)'])]
      /\ logical_current_bytes' = logical_current_bytes
           - LogicalBytes(counted) + SumFunction([i \in counted |-> Logical(i)'])
      /\ unique_stored_bytes' = unique_stored_bytes
           - StoredBytes(stored) + SumFunction([h \in stored |-> StoredLen(h)'])
  BY DEF payload_after
<1> HIDE DEF counted, stored
<1>9. ASSUME NEW h \in Hashes
      PROVE  references'[h] = Cardinality({i \in CountedIds : HoldsReference(i, h)'})
  <2> DEFINE A == {i \in CountedIds : HoldsReference(i, h)}
             B == {i \in CountedIds : HoldsReference(i, h)'}
             a == {i \in counted : HoldsReference(i, h)}
             b == {i \in counted : HoldsReference(i, h)'}
             r == A \ a
  <2>1. IsFiniteSet(A) /\ IsFiniteSet(B)
    <3>1. A \in SUBSET EventIds /\ B \in SUBSET EventIds
      BY <1>7
    <3> HIDE DEF A, B
    <3> QED
      BY <3>1, Finite
  <2>2. \A i \in CountedIds : i \notin counted => (HoldsReference(i, h) <=> HoldsReference(i, h)')
    BY <1>4, <1>6, <1>7 DEF HoldsReference
  <2>3. a \subseteq A /\ r = A \ a
    BY <1>4
  <2>4. b \subseteq B /\ r = B \ b
    BY <1>4, <2>2
  <2>5. references[h] = Cardinality(A)
    BY DEF Ledger
  <2>6. references'[h] = references[h] - Cardinality(a) + Cardinality(b)
    BY <1>8
  <2> HIDE DEF A, B, a, b, r
  <2>7. /\ Cardinality(a) \in Nat /\ Cardinality(r) \in Nat
        /\ Cardinality(A) = Cardinality(a) + Cardinality(r)
    BY <2>1, <2>3, CountSplit
  <2>8. Cardinality(b) \in Nat /\ Cardinality(B) = Cardinality(b) + Cardinality(r)
    BY <2>1, <2>4, CountSplit
  <2> QED
    BY <2>5, <2>6, <2>7, <2>8 DEF B
<1>10. ASSUME NEW h \in Hashes
       PROVE  /\ h \in protected_history' <=> \E i \in CountedIds : Guards(i, h)'
              /\ h \in hash_rows' <=> \E i \in CountedIds : i \in events' /\ content_hash(i) = h
  <2>1. \A i \in CountedIds : i \in events' <=> i \in events \/ i \in new
    BY <1>4, <1>6, <1>7 DEF Touches
  <2>2. \A i \in new : i \in CountedIds /\ i \in events'
    BY <1>4
  <2>3. /\ h \in protected_history <=> \E i \in CountedIds : Guards(i, h)
        /\ h \in hash_rows <=> \E i \in CountedIds : i \in events /\ content_hash(i) = h
    BY DEF Ledger
  <2>4. /\ h \in protected_history' <=>
             h \in protected_history \/ \E i \in new : ~ Header[i].remote_post /\ content_hash(i) = h
        /\ h \in hash_rows' <=> h \in hash_rows \/ \E i \in new : content_hash(i) = h
    BY <1>8
  <2> HIDE DEF new
  <2>5. h \in hash_rows' <=> \E i \in CountedIds : i \in events' /\ content_hash(i) = h
    BY <2>1, <2>2, <2>3, <2>4
  <2>6. h \in protected_history' <=> \E i \in CountedIds : Guards(i, h)'
    BY <2>1, <2>2, <2>3, <2>4 DEF Guards, content_hash
  <2> QED
    BY <2>5, <2>6
<1>11. \A i \in EventIds : i \notin TouchedIds(e) => LogicalFun[i] = LogicalFun'[i]
  BY <1>6, FunTypes, FormsNext DEF Logical
<1>12. ASSUME NEW s \in SUBSET CountedIds, NEW c, c = {i \in s : i \in counted}
       PROVE  Weigh(LogicalFun', s) =
                Weigh(LogicalFun, s) - LogicalBytes(c) + SumFunction([i \in c |-> Logical(i)'])
  <2>1. /\ s \in SUBSET EventIds /\ c \subseteq s /\ c \in SUBSET EventIds
        /\ \A i \in s : i \notin c => LogicalFun[i] = LogicalFun'[i]
    BY <1>4, <1>7, <1>11, <1>12
  <2>2. IsFiniteSet(s)
    BY <2>1, Finite
  <2>3. Weigh(LogicalFun', s) = Weigh(LogicalFun, s) - Weigh(LogicalFun, c) + Weigh(LogicalFun', c)
    BY <2>1, <2>2, FunTypes, FormsNext, WeighPatch
  <2>4. [i \in c |-> Logical(i)'] = [i \in c |-> LogicalFun'[i]]
    BY <2>1, FormsNext
  <2>5. SumFunction([i \in c |-> Logical(i)']) = Weigh(LogicalFun', c)
    BY <2>4 DEF Weigh
  <2> QED
    BY <2>1, <2>3, <2>5, SumForms
<1>13. logical_current_bytes' = Weigh(LogicalFun', CountedIds)
  <2>1. counted = {i \in CountedIds : i \in counted}
    BY <1>4
  <2> QED
    BY <1>8, <1>12, <2>1 DEF Ledger
<1>14. ASSUME NEW a \in Authors PROVE author_bytes'[a] = Weigh(LogicalFun', CountedOf(a))
  <2> DEFINE own == {i \in counted : author(i) = a}
  <2>1. CountedOf(a) \in SUBSET CountedIds /\ own = {i \in CountedOf(a) : i \in counted}
    BY <1>4 DEF CountedOf
  <2>2. author_bytes'[a] = author_bytes[a] - LogicalBytes(own) + SumFunction([i \in own |-> Logical(i)'])
    BY <1>8
  <2> HIDE DEF own
  <2> QED
    BY <1>12, <2>1, <2>2 DEF Ledger
<1>15. unique_stored_bytes' = Weigh(StoredFun', CountedHashes)
  <2>1. \A h \in CountedHashes : h \notin stored => StoredFun[h] = StoredFun'[h]
    <3>1. \A h \in Hashes : h \notin TouchedHashes(e) => (h \in content_store' <=> h \in content_store)
      BY DEF Touches, TouchedHashes
    <3> QED
      BY <1>5, <1>7, <3>1, FunTypes, FormsNext DEF StoredLen
  <2>2. IsFiniteSet(CountedHashes)
    BY <1>7, Finite
  <2>3. Weigh(StoredFun', CountedHashes) =
          Weigh(StoredFun, CountedHashes) - Weigh(StoredFun, stored) + Weigh(StoredFun', stored)
    BY <1>5, <1>7, <2>1, <2>2, FunTypes, FormsNext, WeighPatch
  <2>4. stored \in SUBSET Hashes
    BY <1>5, <1>7
  <2>5. [h \in stored |-> StoredLen(h)'] = [h \in stored |-> StoredFun'[h]]
    BY <2>4, FormsNext
  <2>6. SumFunction([h \in stored |-> StoredLen(h)']) = Weigh(StoredFun', stored)
    BY <2>5 DEF Weigh
  <2> QED
    BY <1>8, <2>3, <2>4, <2>6, SumForms DEF Ledger
<1> QED
  BY <1>3, <1>9, <1>10, <1>13, <1>14, <1>15 DEF Ledger
-----------------------------------------------------------------------------
(* The rebuild *)

Covered == {e \in events : EventCounted(e)}
CoveredOf(a) == {e \in Covered : author(e) = a}
StoredRows == {h \in content_store : HashCounted(h)}

\* AccountingExact, with its sums over fixed functions.
CoveredLedger ==
  /\ \A h \in Hashes :
       /\ references[h] = Cardinality({e \in Covered : HoldsReference(e, h)})
       /\ h \in protected_history <=> \E e \in Covered : Guards(e, h)
       /\ h \in hash_rows <=> \E e \in Covered : content_hash(e) = h
  /\ logical_current_bytes = Weigh(LogicalFun, Covered)
  /\ \A a \in Authors : author_bytes[a] = Weigh(LogicalFun, CoveredOf(a))
  /\ unique_stored_bytes = Weigh(StoredFun, StoredRows)

LEMMA CoveredForm == TypeOK => (AccountingExact <=> CoveredLedger)
<1> SUFFICES ASSUME TypeOK PROVE AccountingExact <=> CoveredLedger
  OBVIOUS
<1>1. Covered \in SUBSET EventIds /\ StoredRows \in SUBSET Hashes
      /\ \A a \in Authors : CoveredOf(a) \in SUBSET EventIds
  BY DEF TypeOK, Covered, StoredRows, CoveredOf
<1>2. /\ LogicalBytes(Covered) = Weigh(LogicalFun, Covered)
      /\ \A a \in Authors : LogicalBytes(CoveredOf(a)) = Weigh(LogicalFun, CoveredOf(a))
      /\ StoredBytes(StoredRows) = Weigh(StoredFun, StoredRows)
  BY <1>1, SumForms
<1>3. AccountingExact <=>
        /\ \A h \in Hashes :
             /\ references[h] = Cardinality({e \in Covered : HoldsReference(e, h)})
             /\ h \in protected_history <=> \E e \in Covered : Guards(e, h)
             /\ h \in hash_rows <=> \E e \in Covered : content_hash(e) = h
        /\ logical_current_bytes = LogicalBytes(Covered)
        /\ \A a \in Authors : author_bytes[a] = LogicalBytes(CoveredOf(a))
        /\ unique_stored_bytes = StoredBytes(StoredRows)
  BY DEF AccountingExact, Covered, CoveredOf, StoredRows
<1> QED
  BY <1>2, <1>3 DEF CoveredLedger

LEMMA CoveredFormNext == TypeOK' => (AccountingExact' <=> CoveredLedger')
BY CoveredForm, PTL

\* One more row adds what it weighs.
LEMMA WeighAdd ==
  ASSUME NEW U, NEW f \in [U -> Nat], NEW s \in SUBSET U, NEW x \in U, x \notin s,
         NEW t, t = s \cup {x}, IsFiniteSet(t)
  PROVE  Weigh(f, t) = Weigh(f, s) + f[x]
<1> DEFINE c == {x}
<1>1. c \subseteq t /\ s = t \ c /\ t \in SUBSET U /\ x \in t
  OBVIOUS
<1>2. Weigh(f, c) = f[x]
  BY <1>1, WeighFacts
<1> HIDE DEF c
<1>3. /\ Weigh(f, c) \in Nat /\ Weigh(f, s) \in Nat
      /\ Weigh(f, t) = Weigh(f, c) + Weigh(f, s)
  BY <1>1, WeighSplit
<1> QED
  BY <1>2, <1>3

\* Min of a set of keys.
LEMMA MinFacts ==
  ASSUME NEW T, T \subseteq Nat, T # {}
  PROVE  Min(T) \in T /\ \A y \in T : Min(T) =< y
BY NatLeast DEF Min

LEMMA RowsTypes ==
  ASSUME TypeOK, AccountingTypeOK, NEW k
  PROVE  /\ Rows(k) \subseteq Nat
         /\ k = Events => Rows(k) = events
         /\ k = Content => Rows(k) = content_store
         /\ k \in {Content, HashRows, RefCounts} => Rows(k) \subseteq Hashes
         /\ k \in {AuthorUsage, ExpectedAuthors} => Rows(k) \subseteq Authors
<1>1. \A e \in events : author(e) \in Authors
  BY HeaderFacts DEF TypeOK
<1>2. Events = 1 /\ Content = 2 /\ HashRows = 3 /\ RefCounts = 4 /\ AuthorUsage = 5
      /\ ExpectedAuthors = 6
  BY DEF Events, Content, HashRows, RefCounts, AuthorUsage, ExpectedAuthors
<1>3. k \in {Content, HashRows, RefCounts} => Rows(k) \subseteq Hashes
  BY <1>2 DEF Rows, TypeOK, AccountingTypeOK
<1>4. k \in {AuthorUsage, ExpectedAuthors} => Rows(k) \subseteq Authors
  BY <1>1, <1>2 DEF Rows
<1>5. k = Events => Rows(k) = events
  BY <1>2 DEF Rows
<1>6. k = Content => Rows(k) = content_store
  BY <1>2 DEF Rows
<1>7. k \notin {Events, Content, HashRows, RefCounts, AuthorUsage, ExpectedAuthors} => Rows(k) = {}
  BY DEF Rows
<1>8. events \subseteq Nat /\ Hashes \subseteq Nat /\ Authors \subseteq Nat
  BY KeyAssumption DEF TypeOK
<1>9. Rows(k) \subseteq Nat
  <2>1. CASE k = Events
    BY <1>5, <1>8, <2>1
  <2>2. CASE k \in {Content, HashRows, RefCounts}
    BY <1>3, <1>8, <2>2
  <2>3. CASE k \in {AuthorUsage, ExpectedAuthors}
    BY <1>4, <1>8, <2>3
  <2>4. CASE k \notin {Events, Content, HashRows, RefCounts, AuthorUsage, ExpectedAuthors}
    BY <1>7, <2>4
  <2> QED
    BY <2>1, <2>2, <2>3, <2>4
<1> QED
  BY <1>3, <1>4, <1>5, <1>6, <1>9

\* Where a step of the scan goes: it skips stages that have no row left, and takes
\* the least row of the first that has.
LEMMA StageFacts ==
  ASSUME TypeOK, AccountingTypeOK
  PROVE  /\ StageNow \in stage .. Ready
         /\ \A k \in stage .. Ready : k < StageNow => Remaining(k) = {}
         /\ StageNow # Ready => /\ NextKey \in Remaining(StageNow)
                                /\ \A r \in Remaining(StageNow) : NextKey =< r
<1> DEFINE T == {k \in stage .. Ready : k = Ready \/ Remaining(k) # {}}
<1>1. stage \in Nat /\ Ready \in Nat /\ Ready \in stage .. Ready
  BY DEF AccountingTypeOK, Events, Ready
<1>2. T \subseteq Nat /\ T # {}
  BY <1>1
<1>3. StageNow \in T /\ \A k \in T : StageNow =< k
  BY <1>2, MinFacts DEF StageNow
<1>4. StageNow \in stage .. Ready /\ (StageNow # Ready => Remaining(StageNow) # {})
  BY <1>3
<1>5. ASSUME NEW k \in stage .. Ready, k < StageNow PROVE Remaining(k) = {}
  <2>1. k \in Nat /\ StageNow \in Nat
    BY <1>1, <1>4
  <2>2. ~ (StageNow =< k)
    BY <1>5, <2>1
  <2> QED
    BY <1>3, <2>2
<1>6. ASSUME StageNow # Ready
      PROVE  NextKey \in Remaining(StageNow) /\ \A r \in Remaining(StageNow) : NextKey =< r
  <2>1. Remaining(StageNow) \subseteq Nat
    BY RowsTypes DEF Remaining
  <2> QED
    BY <1>4, <1>6, <2>1, MinFacts DEF NextKey
<1> QED
  BY <1>4, <1>5, <1>6

\* Past the events stage every event is covered, past the content stage all bytes.
LEMMA ScanFacts ==
  ASSUME TypeOK, AccountingTypeOK
  PROVE  /\ StageNow # Events => Covered = events
         /\ StageNow \notin {Events, Content} => StoredRows = content_store
         /\ StageNow = Events => stage = Events
         /\ StageNow = Content => stage \in {Events, Content}
<1>1. stage \in Nat /\ 1 =< stage /\ stage =< 7 /\ cursor \in Nat
  BY DEF AccountingTypeOK, Events, Ready
<1>2. StageNow \in stage .. 7 /\ \A k \in stage .. 7 : k < StageNow => Remaining(k) = {}
  BY StageFacts DEF Ready
<1>3. events \subseteq Nat /\ content_store \subseteq Nat
  BY KeyAssumption DEF TypeOK
<1>4. ASSUME StageNow # 1 PROVE Covered = events
  <2>1. CASE stage # 1
    BY <2>1 DEF Covered, EventCounted, Events
  <2>2. CASE stage = 1
    <3>1. Remaining(1) = {}
      BY <1>2, <1>4, <2>2
    <3>2. \A e \in events : ~ (cursor < e)
      BY <3>1, RowsTypes DEF Remaining, Events
    <3>3. \A e \in events : e =< cursor
      BY <1>1, <1>3, <3>2
    <3> QED
      BY <3>3 DEF Covered, EventCounted
  <2> QED
    BY <2>1, <2>2
<1>5. ASSUME StageNow \notin {1, 2} PROVE StoredRows = content_store
  <2>1. CASE stage > 2
    BY <2>1 DEF StoredRows, HashCounted, Content
  <2>2. CASE stage =< 2
    <3>1. Remaining(2) = {}
      BY <1>1, <1>2, <1>5, <2>2
    <3>2. \A h \in content_store : ~ (2 > stage \/ cursor < h)
      BY <3>1, RowsTypes DEF Remaining, Content
    <3>3. \A h \in content_store : stage = 2 /\ h =< cursor
      BY <1>1, <1>3, <2>2, <3>2
    <3> QED
      BY <3>3 DEF StoredRows, HashCounted, Content
  <2> QED
    BY <1>1, <2>1, <2>2
<1> QED
  BY <1>1, <1>2, <1>4, <1>5 DEF Events, Content
\* A step that leaves the event tables alone leaves what the rows weigh alone.
LEMMA SameTables ==
  ASSUME UNCHANGED <<events, content_state>>
  PROVE  /\ LogicalFun' = LogicalFun
         /\ \A i, h : /\ HoldsReference(i, h)' <=> HoldsReference(i, h)
                      /\ Guards(i, h)' <=> Guards(i, h)
<1>1. \A i : Logical(i)' = Logical(i)
  BY DEF Logical
<1> QED
  BY <1>1 DEF LogicalFun, HoldsReference, Guards

\* The scan keeps the accounting exact for the rows it has covered.
LEMMA LedgerRebuilt ==
  ASSUME TypeOK, AccountingTypeOK, CoveredLedger, rebuild_payload_accounting
  PROVE  CoveredLedger'
<1>1. /\ stage # Ready /\ stage' = StageNow /\ UNCHANGED vars
      /\ cursor' = IF StageNow = Ready THEN 0 ELSE NextKey
  BY DEF rebuild_payload_accounting
<1>2. UNCHANGED <<events, content_state, content_store>>
  BY <1>1 DEF vars, graphVars, stateVars, payloadVars
<1>3. /\ LogicalFun' = LogicalFun
      /\ \A i, h : /\ HoldsReference(i, h)' <=> HoldsReference(i, h)
                   /\ Guards(i, h)' <=> Guards(i, h)
  BY <1>2, SameTables
<1>4. StoredFun' = StoredFun
  BY <1>2 DEF StoredFun, StoredLen
<1>5. events \subseteq EventIds /\ EventIds \subseteq Nat /\ content_store \subseteq Hashes
      /\ Hashes \subseteq Nat
  BY KeyAssumption DEF TypeOK
<1>6. stage \in Nat /\ 1 =< stage /\ stage =< 7 /\ cursor \in Nat /\ StageNow \in stage .. 7
  BY StageFacts DEF AccountingTypeOK, Events, Ready
<1>7. CASE StageNow = Events
  <2>1. stage = 1 /\ stage' = 1
    BY <1>1, <1>7, ScanFacts DEF Events
  <2> DEFINE i == NextKey
  <2>2. /\ cursor' = i
        /\ i \in events /\ cursor < i /\ \A r \in events : cursor < r => i =< r
    <3>1. i \in Remaining(1) /\ \A r \in Remaining(1) : i =< r
      BY <1>7, StageFacts DEF Events, Ready
    <3>2. \A r : r \in Remaining(1) <=> r \in events /\ cursor < r
      BY <2>1, RowsTypes DEF Remaining, Events
    <3> QED
      BY <1>1, <1>7, <3>1, <3>2 DEF Events, Ready
  <2>3. VisitEvent(i)
    BY <1>7 DEF rebuild_payload_accounting, Events, Content
  <2> HIDE DEF i
  <2>4. i \in EventIds /\ author(i) \in Authors /\ content_hash(i) \in Hashes
    BY <1>5, <2>2, HeaderFacts
  <2>5. i \notin Covered /\ Covered' = Covered \cup {i}
    <3>1. \A r \in events : r \in Nat
      BY <1>5
    <3>2. \A r \in events : r \in Covered <=> r =< cursor
      BY <2>1 DEF Covered, EventCounted, Events
    <3>3. \A r : r \in Covered' <=> r \in events /\ r =< i
      BY <1>2, <2>1, <2>2 DEF Covered, EventCounted, Events
    <3>4. \A r \in events : r =< i <=> r =< cursor \/ r = i
      BY <1>6, <2>2, <3>1
    <3>5. i \notin Covered
      BY <1>6, <2>2, <3>1, <3>2
    <3>6. \A r \in Covered : r \in events
      BY DEF Covered
    <3>7. \A r : r \in Covered' <=> r \in Covered \/ r = i
      BY <2>2, <3>2, <3>3, <3>4, <3>6
    <3> QED
      BY <3>5, <3>7
  <2>6. Covered \in SUBSET EventIds /\ Covered' \in SUBSET EventIds
    BY <1>5, <2>4, <2>5 DEF Covered
  <2>7. ASSUME NEW h \in Hashes
        PROVE  references'[h] = Cardinality({e \in Covered' : HoldsReference(e, h)'})
    <3> DEFINE A == {e \in Covered : HoldsReference(e, h)}
               B == {e \in Covered' : HoldsReference(e, h)'}
    <3>1. A \in SUBSET EventIds /\ i \notin A
      BY <2>5, <2>6
    <3>2. references[h] = Cardinality(A)
      BY DEF CoveredLedger
    <3>3. references'[h] = references[h] + IF HoldsReference(i, h) THEN 1 ELSE 0
      BY <2>3 DEF VisitEvent
    <3>4. HoldsReference(i, h) => B = A \cup {i}
      BY <1>3, <2>5
    <3>5. ~ HoldsReference(i, h) => B = A
      BY <1>3, <2>5
    <3> HIDE DEF A, B
    <3>6. Cardinality(A) \in Nat /\ Cardinality(A \cup {i}) = Cardinality(A) + 1
      BY <3>1, CountFacts
    <3>7. CASE HoldsReference(i, h)
      <4>1. Cardinality(B) = Cardinality(A \cup {i})
        BY <3>4, <3>7, Zenon
      <4> QED
        BY <3>2, <3>3, <3>6, <3>7, <4>1 DEF B
    <3>8. CASE ~ HoldsReference(i, h)
      <4>1. Cardinality(B) = Cardinality(A)
        BY <3>5, <3>8, Zenon
      <4> QED
        BY <3>2, <3>3, <3>6, <3>8, <4>1 DEF B
    <3> QED
      BY <3>7, <3>8
  <2>8. ASSUME NEW h \in Hashes
        PROVE  /\ h \in protected_history' <=> \E e \in Covered' : Guards(e, h)'
               /\ h \in hash_rows' <=> \E e \in Covered' : content_hash(e) = h
    <3>1. /\ h \in protected_history' <=>
               h \in protected_history \/ (~ Header[i].remote_post /\ content_hash(i) = h)
          /\ h \in hash_rows' <=> h \in hash_rows \/ content_hash(i) = h
      BY <2>3 DEF VisitEvent
    <3>2. Guards(i, h) <=> ~ Header[i].remote_post /\ content_hash(i) = h
      BY <2>2 DEF Guards
    <3>3. /\ h \in protected_history <=> \E e \in Covered : Guards(e, h)
          /\ h \in hash_rows <=> \E e \in Covered : content_hash(e) = h
      BY DEF CoveredLedger
    <3> QED
      BY <1>3, <2>5, <3>1, <3>2, <3>3
  <2>9. LogicalFun[i] = Logical(i) /\ LogicalFun \in [EventIds -> Nat]
    BY <2>4, FunTypes
  <2>10. logical_current_bytes' = Weigh(LogicalFun, Covered')
    <3>1. Weigh(LogicalFun, Covered') = Weigh(LogicalFun, Covered) + LogicalFun[i]
      <4> DEFINE t == Covered'
      <4>1. t = Covered \cup {i} /\ IsFiniteSet(t)
        BY <2>5, <2>6, Finite
      <4> HIDE DEF t
      <4>2. Weigh(LogicalFun, t) = Weigh(LogicalFun, Covered) + LogicalFun[i]
        BY <2>4, <2>5, <2>6, <2>9, <4>1, WeighAdd
      <4> QED
        BY <4>2 DEF t
    <3>2. logical_current_bytes' = logical_current_bytes + Logical(i)
      BY <2>3 DEF VisitEvent
    <3> QED
      BY <2>9, <3>1, <3>2 DEF CoveredLedger
  <2>11. ASSUME NEW a \in Authors PROVE author_bytes'[a] = Weigh(LogicalFun, CoveredOf(a)')
    <3> DEFINE s == CoveredOf(a)
               t == CoveredOf(a)'
    <3>1. s \in SUBSET EventIds /\ t \in SUBSET EventIds /\ i \notin s /\ IsFiniteSet(t)
      <4>1. s \in SUBSET EventIds /\ t \in SUBSET EventIds /\ i \notin s
        BY <2>5, <2>6 DEF CoveredOf
      <4> HIDE DEF s, t
      <4> QED
        BY <4>1, Finite
    <3>2. author(i) = a => t = s \cup {i}
      BY <2>5 DEF CoveredOf
    <3>3. author(i) # a => t = s
      BY <2>5 DEF CoveredOf
    <3>4. author_bytes[a] = Weigh(LogicalFun, s)
      BY DEF CoveredLedger
    <3>5. author_bytes' = [author_bytes EXCEPT ![author(i)] = @ + Logical(i)]
          /\ author_bytes \in [Authors -> Nat]
      BY <2>3 DEF VisitEvent, AccountingTypeOK
    <3>6. author_bytes'[a] = IF author(i) = a THEN author_bytes[a] + Logical(i) ELSE author_bytes[a]
      BY <2>4, <3>5
    <3> HIDE DEF s, t
    <3>7. CASE author(i) = a
      <4>1. Weigh(LogicalFun, t) = Weigh(LogicalFun, s) + LogicalFun[i]
        BY <2>4, <2>9, <3>1, <3>2, <3>7, WeighAdd
      <4> QED
        BY <2>9, <3>4, <3>6, <3>7, <4>1 DEF t
    <3>8. CASE author(i) # a
      BY <3>3, <3>4, <3>6, <3>8 DEF t
    <3> QED
      BY <3>7, <3>8
  <2>12. unique_stored_bytes' = Weigh(StoredFun, StoredRows')
    <3>1. StoredRows = {} /\ StoredRows' = {}
      BY <2>1 DEF StoredRows, HashCounted, Content
    <3> QED
      BY <2>3, <3>1 DEF CoveredLedger, VisitEvent
  <2> QED
    BY <1>3, <1>4, <2>7, <2>8, <2>10, <2>11, <2>12 DEF CoveredLedger
<1>8. CASE StageNow # Events
  <2>1. Covered = events /\ Covered' = events /\ \A a : CoveredOf(a)' = CoveredOf(a)
    <3>1. Covered = events
      BY <1>8, ScanFacts
    <3>2. Covered' = events'
      BY <1>1, <1>8 DEF Covered, EventCounted
    <3> QED
      BY <1>2, <3>1, <3>2 DEF CoveredOf
  <2>2. UNCHANGED <<references, hash_rows, protected_history, author_bytes, logical_current_bytes>>
    BY <1>8 DEF rebuild_payload_accounting, VisitContent, VisitChecked
  <2>3. ASSUME NEW h \in Hashes
        PROVE  /\ references'[h] = Cardinality({e \in Covered' : HoldsReference(e, h)'})
               /\ h \in protected_history' <=> \E e \in Covered' : Guards(e, h)'
               /\ h \in hash_rows' <=> \E e \in Covered' : content_hash(e) = h
    <3>1. {e \in Covered' : HoldsReference(e, h)'} = {e \in Covered : HoldsReference(e, h)}
      BY <1>3, <2>1
    <3>2. /\ references[h] = Cardinality({e \in Covered : HoldsReference(e, h)})
          /\ h \in protected_history <=> \E e \in Covered : Guards(e, h)
          /\ h \in hash_rows <=> \E e \in Covered : content_hash(e) = h
      BY DEF CoveredLedger
    <3> QED
      BY <1>3, <2>1, <2>2, <3>1, <3>2
  <2>4. /\ logical_current_bytes' = Weigh(LogicalFun, Covered')
        /\ \A a \in Authors : author_bytes'[a] = Weigh(LogicalFun, CoveredOf(a)')
    BY <2>1, <2>2 DEF CoveredLedger
  <2>5. unique_stored_bytes' = Weigh(StoredFun, StoredRows')
    <3>1. CASE StageNow = Content
      <4> DEFINE h == NextKey
      <4>1. stage \in {1, 2} /\ stage' = 2
        BY <1>1, <3>1, ScanFacts DEF Events, Content
      <4>2. \A r : r \in Remaining(2) <=> r \in content_store /\ (2 > stage \/ cursor < r)
        BY RowsTypes DEF Remaining, Content
      <4>3. /\ cursor' = h /\ h \in content_store /\ (2 > stage \/ cursor < h)
            /\ \A r \in content_store : (2 > stage \/ cursor < r) => h =< r
        BY <1>1, <3>1, <4>2, StageFacts DEF Content, Ready
      <4>4. unique_stored_bytes' = unique_stored_bytes + ContentLen[h]
        BY <3>1 DEF rebuild_payload_accounting, VisitContent, Events, Content
      <4> HIDE DEF h
      <4>5. h \notin StoredRows /\ StoredRows' = StoredRows \cup {h}
        <5>1. \A r \in content_store : r \in Nat
          BY <1>5
        <5>2. \A r \in content_store : r \in StoredRows <=> stage = 2 /\ r =< cursor
          BY <4>1 DEF StoredRows, HashCounted, Content
        <5>3. \A r : r \in StoredRows' <=> r \in content_store /\ r =< h
          BY <1>2, <4>1, <4>3 DEF StoredRows, HashCounted, Content
        <5>4. \A r \in content_store : r =< h <=> (stage = 2 /\ r =< cursor) \/ r = h
          BY <1>6, <4>1, <4>3, <5>1
        <5>5. h \notin StoredRows
          BY <1>6, <4>1, <4>3, <5>1, <5>2
        <5>6. \A r \in StoredRows : r \in content_store
          BY DEF StoredRows
        <5>7. \A r : r \in StoredRows' <=> r \in StoredRows \/ r = h
          BY <4>3, <5>2, <5>3, <5>4, <5>6
        <5> QED
          BY <5>5, <5>7
      <4> DEFINE t == StoredRows'
      <4>6. /\ StoredRows \in SUBSET Hashes /\ h \in Hashes /\ IsFiniteSet(t)
            /\ t = StoredRows \cup {h}
        BY <1>5, <4>3, <4>5, Finite DEF StoredRows
      <4>7. StoredFun[h] = ContentLen[h] /\ StoredFun \in [Hashes -> Nat]
        BY <4>3, <4>6, FunTypes DEF StoredLen
      <4> HIDE DEF t
      <4>8. Weigh(StoredFun, t) = Weigh(StoredFun, StoredRows) + StoredFun[h]
        BY <4>5, <4>6, <4>7, WeighAdd
      <4> QED
        BY <4>4, <4>7, <4>8 DEF CoveredLedger, t
    <3>2. CASE StageNow # Content
      <4>1. StoredRows = content_store
        BY <1>8, <3>2, ScanFacts
      <4>2. stage' > 2
        BY <1>1, <1>6, <1>8, <3>2 DEF Events, Content
      <4>3. StoredRows' = content_store
        BY <1>2, <4>2 DEF StoredRows, HashCounted, Content
      <4>4. UNCHANGED unique_stored_bytes
        BY <1>8, <3>2 DEF rebuild_payload_accounting, VisitChecked
      <4> QED
        BY <4>1, <4>3, <4>4 DEF CoveredLedger
    <3> QED
      BY <3>1, <3>2
  <2> QED
    BY <1>3, <1>4, <2>3, <2>4, <2>5 DEF CoveredLedger
<1> QED
  BY <1>7, <1>8
-----------------------------------------------------------------------------
(* The inductive invariant *)

\* Every quota decision is about an inserted remote post.
DecisionsKept == \A e \in events_quota_pruned : e \in events /\ Header[e].remote_post

\* A quota hash belongs to an inserted event; the decisions recovery has passed are
\* all among the quota hashes; and a quota hash whose bytes nothing needs is queued.
ProvenanceKept ==
  /\ \A h \in content_quota_hashes : \E e \in events : content_hash(e) = h
  /\ \A e \in events_quota_pruned :
       recovery = RecoveryReady \/ e =< recovery => content_hash(e) \in content_quota_hashes
  /\ \A h \in content_quota_hashes :
       h \in content_store /\ content_rc[h] = 0 /\ (~ \E e \in events : Guards(e, h))
         => h \in content_quota_gc

AccInv ==
  /\ PayloadInv /\ AccountingTypeOK /\ AccountingExact
  /\ DecisionsKept /\ ProvenanceKept

\* Once every event is covered, references are the reference counts, and a hash is
\* without one exactly when no event is Processed or Missing with it.
LEMMA CoveredReferences ==
  ASSUME PayloadInv, CoveredLedger, Covered = events, NEW h \in Hashes
  PROVE  /\ HashValid(h)
         /\ references[h] = 0 <=> ~ \E e \in events : HoldsReference(e, h)
         /\ h \in protected_history <=> \E e \in events : Guards(e, h)
         /\ h \in hash_rows <=> \E e \in events : content_hash(e) = h
<1> DEFINE A == {e \in events : HoldsReference(e, h)}
<1>1. references[h] = Cardinality(A)
  BY DEF CoveredLedger
<1>2. content_rc[h] = Cardinality({e \in events : Referencing(content_state[e]) /\ content_hash(e) = h})
  BY DEF PayloadInv, RefCountExact
<1>3. A = {e \in events : Referencing(content_state[e]) /\ content_hash(e) = h}
  BY DEF HoldsReference
<1>4. HashValid(h)
  BY <1>1, <1>2, <1>3, Zenon DEF HashValid
<1>5. A \in SUBSET EventIds
  BY DEF PayloadInv, TypeOK
<1> HIDE DEF A
<1>6. Cardinality(A) = 0 <=> A = {}
  BY <1>5, Finite, FS_EmptySet
<1>7. A = {} <=> ~ \E e \in events : HoldsReference(e, h)
  BY DEF A
<1> QED
  BY <1>1, <1>4, <1>6, <1>7 DEF CoveredLedger

\* A referenced hash has a reference count.
HeldCounted ==
  \A e \in events : Referencing(content_state[e]) => content_rc[content_hash(e)] # 0

LEMMA HeldIsCounted == PayloadInv => HeldCounted
<1> SUFFICES ASSUME PayloadInv, NEW e \in events, Referencing(content_state[e])
             PROVE  content_rc[content_hash(e)] # 0
  BY DEF HeldCounted
<1> DEFINE h == content_hash(e)
           A == {i \in events : Referencing(content_state[i]) /\ content_hash(i) = h}
<1>1. e \in EventIds /\ h \in Hashes /\ A \in SUBSET EventIds /\ e \in A
  BY HeaderFacts DEF PayloadInv, TypeOK
<1>2. content_rc[h] = Cardinality(A)
  BY <1>1 DEF PayloadInv, RefCountExact
<1> HIDE DEF A, h
<1>3. Cardinality(A) # 0
  BY <1>1, CountFacts
<1> QED
  BY <1>2, <1>3 DEF h

\* The counters are what the ledger says, so none goes below zero.
CountersNatural ==
  /\ references = [h \in Hashes |-> references[h]]
  /\ author_bytes = [a \in Authors |-> author_bytes[a]]
  => /\ references \in [Hashes -> Nat] /\ author_bytes \in [Authors -> Nat]
     /\ logical_current_bytes \in Nat /\ unique_stored_bytes \in Nat

LEMMA CounterTypes == TypeOK /\ CoveredLedger => CountersNatural
<1> SUFFICES ASSUME TypeOK, CoveredLedger,
                    references = [h \in Hashes |-> references[h]],
                    author_bytes = [a \in Authors |-> author_bytes[a]]
             PROVE  /\ references \in [Hashes -> Nat] /\ author_bytes \in [Authors -> Nat]
                    /\ logical_current_bytes \in Nat /\ unique_stored_bytes \in Nat
  BY DEF CountersNatural
<1>1. Covered \in SUBSET EventIds /\ StoredRows \in SUBSET Hashes
  BY DEF TypeOK, Covered, StoredRows
<1>2. ASSUME NEW h \in Hashes PROVE references[h] \in Nat
  <2> DEFINE A == {e \in Covered : HoldsReference(e, h)}
  <2>1. A \in SUBSET EventIds /\ references[h] = Cardinality(A)
    BY <1>1 DEF CoveredLedger
  <2> HIDE DEF A
  <2> QED
    BY <2>1, CountFacts
<1>3. ASSUME NEW a \in Authors PROVE author_bytes[a] \in Nat
  <2>1. CoveredOf(a) \in SUBSET EventIds
    BY <1>1 DEF CoveredOf
  <2>2. author_bytes[a] = Weigh(LogicalFun, CoveredOf(a))
    BY DEF CoveredLedger
  <2> QED
    BY <2>1, <2>2, Finite, FunTypes, WeighFacts
<1>4. Weigh(LogicalFun, Covered) \in Nat /\ Weigh(StoredFun, StoredRows) \in Nat
  BY <1>1, Finite, FunTypes, WeighFacts
<1> QED
  BY <1>2, <1>3, <1>4 DEF CoveredLedger

-----------------------------------------------------------------------------
(* Collection *)

\* The nomination the collector looks at, and what it does with it.
LEMMA CollectFacts ==
  ASSUME AccInv, collect_quota_payload_step
  PROVE  \/ UNCHANGED <<vars, acctVars, content_quota_hashes, content_quota_gc, gc_bytes,
                         recovery, upgraded>> /\ gc_after' \in Nat
         \/ \E h \in content_quota_gc :
              /\ h \in Hashes /\ stage = Ready
              /\ content_quota_gc' = content_quota_gc \ {h}
              /\ content_store' = content_store \ IF Collectable(h) THEN {h} ELSE {}
              /\ LET bytes == IF Collectable(h) THEN StoredLen(h) ELSE 0 IN
                 /\ bytes =< gc_bytes /\ gc_bytes' = gc_bytes - bytes
                 /\ unique_stored_bytes' = unique_stored_bytes - bytes
              /\ gc_after' = h
              /\ UNCHANGED <<graphVars, stateVars, fetchVars, content_rc,
                   ids_data_usage, events_quota_pruned, projections,
                   stage, cursor, hash_rows, references, protected_history,
                   author_bytes, logical_current_bytes, content_quota_hashes, recovery,
                   upgraded>>
<1> DEFINE queue == {h \in content_quota_gc : gc_after < h}
           h == Min(queue)
           bytes == IF Collectable(h) THEN StoredLen(h) ELSE 0
<1>1. content_quota_gc \subseteq Hashes /\ Hashes \subseteq Nat
  BY KeyAssumption DEF AccInv, AccountingTypeOK
<1>2. CASE queue = {}
  BY <1>2 DEF collect_quota_payload_step
<1>3. CASE queue # {}
  <2>1. h \in queue
    <3>1. queue \subseteq Nat
      BY <1>1
    <3> HIDE DEF queue
    <3> QED
      BY <1>3, <3>1, MinFacts
  <2>2. h \in content_quota_gc /\ h \in Hashes /\ h \in Nat
    BY <1>1, <2>1
  <2>3. /\ stage = Ready /\ gc_after' = h
        /\ IF AboveAllowance(bytes)
           THEN UNCHANGED <<vars, acctVars, content_quota_gc, gc_bytes>>
           ELSE /\ content_quota_gc' = content_quota_gc \ {h}
                /\ content_store' = content_store \ IF Collectable(h) THEN {h} ELSE {}
                /\ unique_stored_bytes' = unique_stored_bytes - bytes
                /\ gc_bytes' = gc_bytes - bytes
                /\ UNCHANGED <<graphVars, stateVars, fetchVars, content_rc,
                     ids_data_usage, events_quota_pruned, projections,
                     stage, cursor, hash_rows, references, protected_history,
                     author_bytes, logical_current_bytes>>
        /\ UNCHANGED <<content_quota_hashes, recovery, upgraded>>
    BY <1>3 DEF collect_quota_payload_step
  <2>4. bytes \in Nat /\ gc_bytes \in Nat
    BY <2>2, LenAssumption, GcAssumption DEF StoredLen, AccInv, AccountingTypeOK
  <2> HIDE DEF queue, h
  <2>5. ~ AboveAllowance(bytes) => bytes =< gc_bytes
    BY <2>4 DEF AboveAllowance
  <2> QED
    BY <2>2, <2>3, <2>5
<1> QED
  BY <1>2, <1>3

\* What is collected, nothing holds or guards.
LEMMA CollectableIsFree ==
  ASSUME AccInv, stage = Ready, NEW h \in Hashes
  PROVE  /\ HashValid(h)
         /\ Collectable(h) <=> ~ \E e \in events : HoldsReference(e, h) \/ Guards(e, h)
         /\ h \in content_quota_hashes => h \in hash_rows
<1>1. CoveredLedger
  BY CoveredForm DEF AccInv, PayloadInv
<1>2. Covered = events
  BY DEF Covered, EventCounted, Events, Ready
<1> QED
  BY <1>1, <1>2, CoveredReferences DEF AccInv, Collectable, ProvenanceKept

LEMMA LedgerCollected ==
  ASSUME AccInv, TypeOK', NEW h \in Hashes, stage = Ready, UNCHANGED <<events, content_state>>,
         content_store' = content_store \ {h},
         unique_stored_bytes' = unique_stored_bytes - StoredLen(h),
         UNCHANGED <<stage, cursor, hash_rows, references, protected_history, author_bytes,
                     logical_current_bytes>>
  PROVE  CoveredLedger'
<1>1. CoveredLedger /\ TypeOK
  BY CoveredForm DEF AccInv, PayloadInv
<1>2. Covered' = Covered /\ \A a : CoveredOf(a)' = CoveredOf(a)
  BY DEF Covered, CoveredOf, EventCounted
<1>3. /\ LogicalFun' = LogicalFun
      /\ \A i, g : /\ HoldsReference(i, g)' <=> HoldsReference(i, g)
                   /\ Guards(i, g)' <=> Guards(i, g)
  BY SameTables
<1>4. StoredRows = content_store /\ StoredRows' = content_store'
  BY DEF StoredRows, HashCounted, Content, Ready
<1>5. unique_stored_bytes' = Weigh(StoredFun', StoredRows')
  <2> DEFINE t == content_store
             s == content_store'
  <2>1. t \in SUBSET Hashes /\ s \in SUBSET Hashes /\ IsFiniteSet(t) /\ IsFiniteSet(s)
    BY <1>1, Finite DEF TypeOK
  <2>2. \A i \in s : StoredFun'[i] = StoredFun[i]
    BY <2>1, FunTypes, FormsNext DEF StoredLen
  <2>3. StoredFun[h] = StoredLen(h) /\ StoredFun \in [Hashes -> Nat]
    BY FunTypes
  <2>4. h \in t => t = s \cup {h} /\ h \notin s
    OBVIOUS
  <2>5. h \notin t => s = t /\ StoredLen(h) = 0
    BY DEF StoredLen
  <2> HIDE DEF s, t
  <2>6. Weigh(StoredFun', s) = Weigh(StoredFun, s) /\ Weigh(StoredFun, s) \in Nat
        /\ Weigh(StoredFun, t) \in Nat
    BY <2>1, <2>2, <2>3, WeighSame, WeighFacts
  <2>7. h \in t => Weigh(StoredFun, t) = Weigh(StoredFun, s) + StoredFun[h]
    BY <2>1, <2>3, <2>4, WeighAdd
  <2>8. unique_stored_bytes = Weigh(StoredFun, t)
    BY <1>1, <1>4 DEF CoveredLedger, t
  <2>9. unique_stored_bytes' = Weigh(StoredFun, s)
    BY <2>3, <2>5, <2>6, <2>7, <2>8
  <2> QED
    BY <1>4, <2>6, <2>9 DEF s
<1>6. ASSUME NEW g \in Hashes
      PROVE  /\ references'[g] = Cardinality({e \in Covered' : HoldsReference(e, g)'})
             /\ g \in protected_history' <=> \E e \in Covered' : Guards(e, g)'
             /\ g \in hash_rows' <=> \E e \in Covered' : content_hash(e) = g
  <2>1. {e \in Covered' : HoldsReference(e, g)'} = {e \in Covered : HoldsReference(e, g)}
    BY <1>2, <1>3
  <2> QED
    BY <1>1, <1>2, <1>3, <2>1 DEF CoveredLedger
<1> QED
  BY <1>1, <1>2, <1>3, <1>5, <1>6 DEF CoveredLedger
-----------------------------------------------------------------------------
(* Every step *)

LEMMA FactsNext ==
  /\ TypeOK' /\ CoveredLedger' => CountersNatural'
  /\ PayloadInv' => HeldCounted'
<1>1. TypeOK' /\ CoveredLedger' => CountersNatural'
  BY CounterTypes, PTL
<1>2. PayloadInv' => HeldCounted'
  BY HeldIsCounted, PTL
<1> QED
  BY <1>1, <1>2

\* The reducers: deliveries, and a prune, which nominates the hash it releases.
LEMMA ReducerStep ==
  ASSUME AccInv, PayloadInv', NEW e \in EventIds, NEW nominated, Touches(e),
         payload_after(e, nominated),
         \/ events_quota_pruned' = events_quota_pruned /\ nominated = {}
         \/ /\ events_quota_pruned' = events_quota_pruned \cup {e}
            /\ nominated = {content_hash(e)} /\ e \in events /\ Header[e].remote_post
  PROVE  AccInv'
<1>1. TypeOK /\ TypeOK' /\ Ledger
  BY LedgerForm DEF AccInv, PayloadInv
<1>2. Ledger'
  BY <1>1, LedgerReduced
<1>3. AccountingExact' /\ CoveredLedger'
  BY <1>1, <1>2, FormsNext, CoveredFormNext
<1>4. /\ hash_rows \subseteq Hashes /\ protected_history \subseteq Hashes
      /\ content_quota_hashes \subseteq Hashes /\ content_quota_gc \subseteq content_quota_hashes
      /\ stage \in Events .. Ready /\ cursor \in Nat /\ recovery \in Nat \cup {RecoveryReady}
      /\ gc_after \in Nat /\ gc_bytes \in 0 .. GcBytes /\ upgraded \in BOOLEAN
  BY DEF AccInv, AccountingTypeOK
<1>5. /\ references' = [h \in Hashes |-> references'[h]]
      /\ author_bytes' = [a \in Authors |-> author_bytes'[a]]
  BY DEF payload_after
<1>6. /\ references' \in [Hashes -> Nat] /\ author_bytes' \in [Authors -> Nat]
      /\ logical_current_bytes' \in Nat /\ unique_stored_bytes' \in Nat
  BY <1>1, <1>3, <1>5, FactsNext DEF CountersNatural
<1>7. /\ content_quota_hashes' = content_quota_hashes \cup nominated
      /\ content_quota_gc' = content_quota_gc \cup nominated \cup Renominated(e)
      /\ UNCHANGED <<stage, cursor, recovery, gc_after, gc_bytes, upgraded>>
  BY DEF payload_after
<1>8. nominated \subseteq Hashes
  BY HeaderFacts
<1>9. hash_rows' \subseteq Hashes /\ protected_history' \subseteq Hashes
  <2>1. \A i \in TouchedIds(e) : content_hash(i) \in Hashes
    BY TouchedTypes, HeaderFacts
  <2> QED
    BY <1>4, <2>1 DEF payload_after
<1>10. AccountingTypeOK'
  <2>1. content_quota_gc' \subseteq content_quota_hashes'
    BY <1>4, <1>7 DEF Renominated
  <2>2. content_quota_hashes' \subseteq Hashes
    BY <1>4, <1>7, <1>8
  <2> QED
    BY <1>4, <1>6, <1>7, <1>9, <2>1, <2>2 DEF AccountingTypeOK
<1>11. events \subseteq events' /\ events' \subseteq EventIds
  BY <1>1 DEF Touches, TypeOK
<1>12. DecisionsKept'
  BY <1>11 DEF AccInv, DecisionsKept
<1>13. \A h \in content_quota_hashes' : \E i \in events' : content_hash(i) = h
  BY <1>7, <1>11 DEF AccInv, ProvenanceKept
<1>14. \A i \in events_quota_pruned' :
         recovery' = RecoveryReady \/ i =< recovery' => content_hash(i) \in content_quota_hashes'
  BY <1>7 DEF AccInv, ProvenanceKept
<1>15. ASSUME NEW h \in content_quota_hashes', h \in content_store', content_rc'[h] = 0,
              ~ \E i \in events' : Guards(i, h)'
       PROVE  h \in content_quota_gc'
  <2>1. h \in Hashes
    BY <1>10, <1>15 DEF AccountingTypeOK
  <2>2. ~ \E i \in events : Guards(i, h)
    BY <1>11, <1>15 DEF Guards, content_hash
  <2>3. h \in content_store
    <3> SUFFICES ASSUME h \notin content_store PROVE FALSE
      OBVIOUS
    <3>1. h = content_hash(e) /\ e \in events' /\ content_state'[e] = "NoRow"
      BY <1>15 DEF Touches
    <3> QED
      BY <1>15, <3>1, FactsNext DEF HeldCounted, Referencing, content_hash
  <2>4. CASE h \in TouchedHashes(e)
    BY <1>7, <1>15, <2>4 DEF Renominated
  <2>5. CASE h \notin TouchedHashes(e)
    <3>1. content_rc[h] = 0
      BY <1>15, <2>1, <2>5 DEF Touches
    <3>2. h \in content_quota_hashes
      BY <1>7, <1>15, <2>5, TouchedTypes
    <3> QED
      BY <1>7, <2>2, <2>3, <3>1, <3>2 DEF AccInv, ProvenanceKept
  <2> QED
    BY <2>4, <2>5
<1>16. ProvenanceKept'
  BY <1>13, <1>14, <1>15 DEF ProvenanceKept
<1> QED
  BY <1>3, <1>10, <1>12, <1>16 DEF AccInv

\* Steps that change neither the tables nor their accounting.
LEMMA IdleStep ==
  ASSUME AccInv, PayloadInv', AccountingTypeOK',
         UNCHANGED <<events, content_state, content_store, content_rc, events_quota_pruned>>,
         UNCHANGED acctVars
  PROVE  AccountingExact' /\ DecisionsKept'
<1>1. TypeOK /\ TypeOK' /\ CoveredLedger
  BY CoveredForm DEF AccInv, PayloadInv
<1>2. /\ LogicalFun' = LogicalFun
      /\ \A i, g : /\ HoldsReference(i, g)' <=> HoldsReference(i, g)
                   /\ Guards(i, g)' <=> Guards(i, g)
  BY SameTables
<1>3. StoredFun' = StoredFun
  BY DEF StoredFun, StoredLen
<1>4. Covered' = Covered /\ (\A a : CoveredOf(a)' = CoveredOf(a)) /\ StoredRows' = StoredRows
  BY DEF Covered, CoveredOf, StoredRows, EventCounted, HashCounted, acctVars
<1>5. ASSUME NEW g \in Hashes
      PROVE  /\ references'[g] = Cardinality({e \in Covered' : HoldsReference(e, g)'})
             /\ g \in protected_history' <=> \E e \in Covered' : Guards(e, g)'
             /\ g \in hash_rows' <=> \E e \in Covered' : content_hash(e) = g
  <2>1. {e \in Covered' : HoldsReference(e, g)'} = {e \in Covered : HoldsReference(e, g)}
    BY <1>2, <1>4
  <2> QED
    BY <1>1, <1>2, <1>4, <2>1 DEF CoveredLedger, acctVars
<1>6. CoveredLedger'
  BY <1>1, <1>2, <1>3, <1>4, <1>5 DEF CoveredLedger, acctVars
<1> QED
  BY <1>1, <1>6, CoveredFormNext DEF AccInv, DecisionsKept

\* The provenance does not depend on the accounting.
LEMMA IdleProvenance ==
  ASSUME AccInv,
         UNCHANGED <<events, content_store, content_rc, events_quota_pruned,
                     content_quota_hashes, content_quota_gc, recovery>>
  PROVE  ProvenanceKept'
<1>1. \A i, h : Guards(i, h)' <=> Guards(i, h)
  BY DEF Guards
<1> QED
  BY <1>1 DEF AccInv, ProvenanceKept

\* Every step is one that the event store allows, or leaves its tables alone.
LEMMA StepRefines ==
  ASSUME AccInv, [AccountingNext]_accountingVars
  PROVE  [Next]_vars
<1>1. CASE UNCHANGED accountingVars
  BY <1>1 DEF accountingVars
<1>2. ASSUME NEW e \in EventIds, Deliver(e) PROVE [Next]_vars
  BY <1>2 DEF Deliver, Next
<1>3. ASSUME NEW e \in EventIds, Prune(e) PROVE [Next]_vars
  BY <1>3 DEF Prune, Next
<1>4. ASSUME NEW e \in EventIds, NEW t \in Times, NEW u \in Times, Retry(e, t, u)
      PROVE  [Next]_vars
  BY <1>4 DEF Retry, Next
<1>5. CASE rebuild_payload_accounting
  BY <1>5 DEF rebuild_payload_accounting
<1>6. CASE rebuild_quota_payload_nominations
  BY <1>6 DEF rebuild_quota_payload_nominations
<1>7. CASE collect_quota_payload_step
  <2>1. CASE UNCHANGED vars
    BY <2>1
  <2>2. CASE ~ UNCHANGED vars
    <3>1. PICK h \in content_quota_gc :
            /\ h \in Hashes /\ stage = Ready
            /\ content_store' = content_store \ IF Collectable(h) THEN {h} ELSE {}
            /\ UNCHANGED <<graphVars, stateVars, fetchVars, content_rc,
                 ids_data_usage, events_quota_pruned, projections>>
      BY <1>7, <2>2, CollectFacts
    <3>2. Collectable(h) /\ h \in content_store
      <4>1. content_store' # content_store
        BY <2>2, <3>1 DEF vars, payloadVars
      <4> QED
        BY <3>1, <4>1
    <3>3. content_rc[h] = 0
      BY <3>1, <3>2, CollectableIsFree DEF Collectable, HashValid
    <3>4. collect_payload(h)
      BY <3>1, <3>2, <3>3 DEF collect_payload
    <3> QED
      BY <3>1, <3>4 DEF Next
  <2> QED
    BY <2>1, <2>2
<1>8. CASE turn
  BY <1>8 DEF turn
<1>9. CASE upgrade
  BY <1>9 DEF upgrade
<1> QED
  BY <1>1, <1>2, <1>3, <1>4, <1>5, <1>6, <1>7, <1>8, <1>9 DEF AccountingNext

LEMMA AccInit == AccountingInit => AccInv
<1> SUFFICES ASSUME AccountingInit PROVE AccInv
  OBVIOUS
<1>1. PayloadInv /\ events = {} /\ content_store = {} /\ events_quota_pruned = {}
  BY PayloadInit DEF AccountingInit, Init
<1>2. AccountingTypeOK
  <2>1. stage \in Events .. Ready /\ cursor \in Nat /\ gc_bytes \in 0 .. GcBytes
    BY GcAssumption DEF AccountingInit, Events, Ready
  <2>2. /\ references \in [Hashes -> Nat] /\ author_bytes \in [Authors -> Nat]
        /\ logical_current_bytes \in Nat /\ unique_stored_bytes \in Nat
        /\ recovery \in Nat \cup {RecoveryReady} /\ gc_after \in Nat
    BY DEF AccountingInit
  <2>3. upgraded \in BOOLEAN /\ hash_rows = {} /\ protected_history = {}
        /\ content_quota_hashes = {} /\ content_quota_gc = {}
    BY DEF AccountingInit
  <2> QED
    BY <2>1, <2>2, <2>3 DEF AccountingTypeOK
<1>3. CoveredLedger
  <2>1. Covered = {} /\ StoredRows = {} /\ \A a : CoveredOf(a) = {}
    BY <1>1 DEF Covered, StoredRows, CoveredOf
  <2>2. Weigh(LogicalFun, {}) = 0 /\ Weigh(StoredFun, {}) = 0
    <3>1. {} \in SUBSET EventIds /\ {} \in SUBSET Hashes /\ IsFiniteSet({})
      BY FS_EmptySet
    <3> QED
      BY <3>1, FunTypes, WeighFacts
  <2>3. ASSUME NEW h \in Hashes
        PROVE  /\ references[h] = Cardinality({e \in Covered : HoldsReference(e, h)})
               /\ h \notin protected_history /\ h \notin hash_rows
    <3>1. {e \in Covered : HoldsReference(e, h)} = {}
      BY <2>1
    <3>2. Cardinality({e \in Covered : HoldsReference(e, h)}) = 0
      BY <3>1, FS_EmptySet
    <3> QED
      BY <3>2 DEF AccountingInit
  <2>4. logical_current_bytes = 0 /\ unique_stored_bytes = 0 /\ \A a \in Authors : author_bytes[a] = 0
    BY DEF AccountingInit
  <2> QED
    BY <2>1, <2>2, <2>3, <2>4 DEF CoveredLedger
<1>4. DecisionsKept /\ ProvenanceKept
  BY <1>1 DEF AccountingInit, DecisionsKept, ProvenanceKept
<1> QED
  BY <1>1, <1>2, <1>3, <1>4, CoveredForm DEF AccInv, PayloadInv

LEMMA AccStep ==
  ASSUME AccInv, [AccountingNext]_accountingVars
  PROVE  AccInv'
<1>0. PayloadInv'
  BY StepRefines, PayloadStep DEF AccInv
<1>1. TypeOK /\ TypeOK' /\ CoveredLedger /\ AccountingTypeOK
  BY <1>0, CoveredForm DEF AccInv, PayloadInv
<1> DEFINE same == UNCHANGED <<events, content_state, content_store, content_rc, events_quota_pruned>>
<1>2. UNCHANGED vars => same
  BY DEF vars, graphVars, stateVars, payloadVars
<1>3. ASSUME NEW e \in EventIds, Deliver(e) PROVE AccInv'
  <2>1. Touches(e) /\ events_quota_pruned' = events_quota_pruned
    BY <1>1, <1>3, DeliverTouches
  <2>2. payload_after(e, {})
    BY <1>3 DEF Deliver
  <2> QED
    BY <1>0, <2>1, <2>2, ReducerStep
<1>4. ASSUME NEW e \in EventIds, Prune(e) PROVE AccInv'
  <2>1. prune_quota_payload(e) /\ payload_after(e, {content_hash(e)})
    BY <1>4 DEF Prune
  <2>2. Touches(e) /\ events_quota_pruned' = events_quota_pruned \cup {e}
    BY <1>1, <2>1, PruneTouches
  <2>3. e \in events /\ Header[e].remote_post
    BY <2>1 DEF prune_quota_payload
  <2> DEFINE n == {content_hash(e)}
  <2>4. payload_after(e, n) /\ n = {content_hash(e)}
    BY <2>1
  <2> HIDE DEF n
  <2> QED
    BY <1>0, <2>2, <2>3, <2>4, ReducerStep
<1>5. ASSUME NEW e \in EventIds, NEW t \in Times, NEW u \in Times, Retry(e, t, u)
      PROVE  AccInv'
  <2>1. same /\ UNCHANGED acctVars /\ UNCHANGED gcVars
    BY <1>5 DEF Retry, record_failed_content_fetch, defer_content_fetch, Reschedule, graphVars,
                stateVars, payloadVars
  <2>2. AccountingTypeOK'
    BY <1>1, <2>1 DEF AccountingTypeOK, acctVars, gcVars
  <2> QED
    BY <1>0, <2>1, <2>2, IdleStep, IdleProvenance DEF AccInv, gcVars
<1>6. CASE rebuild_payload_accounting
  <2>1. CoveredLedger'
    BY <1>1, <1>6, LedgerRebuilt
  <2>2. same /\ UNCHANGED gcVars
    BY <1>2, <1>6 DEF rebuild_payload_accounting
  <2>3. stage' \in Events .. Ready /\ cursor' \in Nat
    <3>1. stage' = StageNow /\ cursor' = IF StageNow = Ready THEN 0 ELSE NextKey
      BY <1>6 DEF rebuild_payload_accounting
    <3>2. StageNow \in stage .. Ready /\ stage \in Events .. Ready
      BY <1>1, StageFacts DEF AccountingTypeOK
    <3>3. StageNow # Ready => NextKey \in Nat
      <4>1. StageNow # Ready => NextKey \in Remaining(StageNow)
        BY <1>1, StageFacts
      <4>2. Remaining(StageNow) \subseteq Nat
        BY <1>1, RowsTypes DEF Remaining
      <4> QED
        BY <4>1, <4>2
    <3>4. StageNow \in Events .. Ready
      BY <3>2 DEF Events, Ready
    <3> QED
      BY <3>1, <3>3, <3>4
  <2>4. hash_rows' \subseteq Hashes /\ protected_history' \subseteq Hashes
        /\ references' = [h \in Hashes |-> references'[h]]
        /\ author_bytes' = [a \in Authors |-> author_bytes'[a]]
    <3>1. CASE StageNow = Events
      <4>1. VisitEvent(NextKey)
        BY <1>6, <3>1 DEF rebuild_payload_accounting, Events, Content
      <4>2. NextKey \in EventIds
        BY <1>1, <3>1, StageFacts, RowsTypes DEF Remaining, TypeOK, Events, Ready
      <4>3. content_hash(NextKey) \in Hashes
        BY <4>2, HeaderFacts
      <4> HIDE DEF same
      <4>4. hash_rows' \subseteq Hashes /\ protected_history' \subseteq Hashes
        BY <1>1, <4>1, <4>3 DEF VisitEvent, AccountingTypeOK
      <4>5. references' = [h \in Hashes |-> references'[h]]
        BY <4>1 DEF VisitEvent
      <4>6. author_bytes' = [a \in Authors |-> author_bytes'[a]]
        <5>1. author_bytes \in [Authors -> Nat] /\ DOMAIN author_bytes' = DOMAIN author_bytes
          BY <1>1, <4>1 DEF VisitEvent, AccountingTypeOK
        <5>2. author_bytes' = [a \in DOMAIN author_bytes' |-> author_bytes'[a]]
          BY <4>1 DEF VisitEvent
        <5> QED
          BY <5>1, <5>2
      <4> QED
        BY <4>4, <4>5, <4>6
    <3>2. CASE StageNow # Events
      <4>1. UNCHANGED <<references, hash_rows, protected_history, author_bytes>>
        BY <1>6, <3>2 DEF rebuild_payload_accounting, VisitContent, VisitChecked
      <4> QED
        BY <1>1, <4>1 DEF AccountingTypeOK
    <3> QED
      BY <3>1, <3>2
  <2>5. /\ references' \in [Hashes -> Nat] /\ author_bytes' \in [Authors -> Nat]
        /\ logical_current_bytes' \in Nat /\ unique_stored_bytes' \in Nat
    BY <1>1, <2>1, <2>4, FactsNext DEF CountersNatural
  <2>6. AccountingTypeOK'
    BY <1>1, <2>2, <2>3, <2>4, <2>5 DEF AccountingTypeOK, gcVars
  <2>7. AccountingExact' /\ DecisionsKept'
    BY <1>1, <2>1, <2>2, CoveredFormNext DEF AccInv, DecisionsKept
  <2> QED
    BY <1>0, <2>2, <2>6, <2>7, IdleProvenance DEF AccInv, gcVars
<1>7. CASE rebuild_quota_payload_nominations
  <2>1. same /\ UNCHANGED acctVars /\ UNCHANGED <<gc_after, gc_bytes, upgraded>>
        /\ recovery \in Nat /\ events_quota_pruned \subseteq events /\ events \subseteq EventIds
    BY <1>1, <1>2, <1>7 DEF rebuild_quota_payload_nominations, AccountingTypeOK, AccInv,
                            DecisionsKept, TypeOK
  <2>2. EventIds \subseteq Nat /\ RecoveryReady \notin Nat
    BY KeyAssumption DEF RecoveryReady
  <2>3. \A i, h : Guards(i, h)' <=> Guards(i, h)
    BY <2>1 DEF Guards
  <2>4. \A i : i \in Unscanned <=> i \in events_quota_pruned /\ recovery < i
    BY <2>1, <2>2 DEF Unscanned
  <2>5. CASE Unscanned = {}
    <3>1. recovery' = RecoveryReady /\ UNCHANGED <<content_quota_hashes, content_quota_gc>>
      BY <1>7, <2>5 DEF rebuild_quota_payload_nominations
    <3>2. AccountingTypeOK'
      BY <1>1, <2>1, <3>1 DEF AccountingTypeOK, acctVars
    <3>3. \A e \in events_quota_pruned : e =< recovery
      BY <2>1, <2>2, <2>4, <2>5
    <3>4. ProvenanceKept'
      BY <2>1, <2>3, <3>1, <3>3 DEF AccInv, ProvenanceKept
    <3> QED
      BY <1>0, <2>1, <3>2, <3>4, IdleStep DEF AccInv
  <2>6. CASE Unscanned # {}
    <3> DEFINE e == Min(Unscanned)
    <3>1. e \in Unscanned /\ \A i \in Unscanned : e =< i
      BY <2>1, <2>2, <2>4, <2>6, MinFacts
    <3>2. /\ recovery' = e
          /\ content_quota_hashes' = content_quota_hashes \cup {content_hash(e)}
          /\ content_quota_gc' = content_quota_gc \cup {content_hash(e)}
      BY <1>7, <2>6 DEF rebuild_quota_payload_nominations
    <3> HIDE DEF e
    <3>3. /\ e \in events_quota_pruned /\ e \in events /\ e \in EventIds /\ e \in Nat
          /\ content_hash(e) \in Hashes
      BY <2>1, <2>2, <2>4, <3>1, HeaderFacts
    <3>4. AccountingTypeOK'
      BY <1>1, <2>1, <3>2, <3>3 DEF AccountingTypeOK, acctVars
    <3>5. \A h \in content_quota_hashes' : \E i \in events' : content_hash(i) = h
      BY <2>1, <3>2, <3>3 DEF AccInv, ProvenanceKept
    <3>6. ASSUME NEW i \in events_quota_pruned', recovery' = RecoveryReady \/ i =< recovery'
          PROVE  content_hash(i) \in content_quota_hashes'
      <4>1. i \in events_quota_pruned /\ i \in Nat /\ i =< e
        BY <2>1, <2>2, <3>2, <3>3, <3>6
      <4>2. CASE i =< recovery
        BY <3>2, <4>1, <4>2 DEF AccInv, ProvenanceKept
      <4>3. CASE ~ (i =< recovery)
        <5>1. i \in Unscanned
          BY <2>1, <2>4, <4>1, <4>3
        <5>2. i = e
          BY <3>1, <3>3, <4>1, <5>1
        <5> QED
          BY <3>2, <5>2
      <4> QED
        BY <4>2, <4>3
    <3>7. \A h \in content_quota_hashes' :
            h \in content_store' /\ content_rc'[h] = 0 /\ (~ \E i \in events' : Guards(i, h)')
              => h \in content_quota_gc'
      BY <2>1, <2>3, <3>2 DEF AccInv, ProvenanceKept
    <3>8. ProvenanceKept'
      BY <3>5, <3>6, <3>7 DEF ProvenanceKept
    <3> QED
      BY <1>0, <2>1, <3>4, <3>8, IdleStep DEF AccInv
  <2> QED
    BY <2>5, <2>6
<1>8. CASE collect_quota_payload_step
  <2>1. CASE UNCHANGED <<vars, acctVars, content_quota_hashes, content_quota_gc, gc_bytes,
                         recovery, upgraded>> /\ gc_after' \in Nat
    <3>1. same
      BY <1>2, <2>1
    <3>2. AccountingTypeOK'
      BY <1>1, <2>1 DEF AccountingTypeOK, acctVars
    <3> QED
      BY <1>0, <2>1, <3>1, <3>2, IdleStep, IdleProvenance DEF AccInv
  <2>2. ASSUME NEW h \in content_quota_gc, h \in Hashes, stage = Ready,
               content_quota_gc' = content_quota_gc \ {h},
               content_store' = content_store \ IF Collectable(h) THEN {h} ELSE {},
               LET bytes == IF Collectable(h) THEN StoredLen(h) ELSE 0 IN
                 /\ bytes =< gc_bytes /\ gc_bytes' = gc_bytes - bytes
                 /\ unique_stored_bytes' = unique_stored_bytes - bytes,
               gc_after' = h,
               UNCHANGED <<graphVars, stateVars, fetchVars, content_rc,
                   ids_data_usage, events_quota_pruned, projections,
                   stage, cursor, hash_rows, references, protected_history,
                   author_bytes, logical_current_bytes, content_quota_hashes, recovery,
                   upgraded>>
        PROVE  AccInv'
    <3>1. /\ HashValid(h)
          /\ Collectable(h) <=> ~ \E e \in events : HoldsReference(e, h) \/ Guards(e, h)
      BY <2>2, CollectableIsFree
    <3>2. UNCHANGED <<events, content_state>>
      BY <2>2 DEF graphVars, stateVars
    <3>3. unique_stored_bytes \in Nat /\ gc_bytes \in 0 .. GcBytes /\ StoredLen(h) \in Nat
          /\ h \in Nat /\ GcBytes \in Nat
      BY <1>1, <2>2, LenAssumption, KeyAssumption, GcAssumption DEF AccountingTypeOK, StoredLen
    <3>4. CoveredLedger'
      <4>1. CASE Collectable(h)
        BY <1>1, <2>2, <3>2, <4>1, LedgerCollected
      <4>2. CASE ~ Collectable(h)
        <5>1. content_store' = content_store /\ unique_stored_bytes' = unique_stored_bytes
              /\ gc_bytes' = gc_bytes
          BY <2>2, <3>3, <4>2
        <5>2. AccountingTypeOK'
          BY <1>1, <2>2, <3>3, <5>1 DEF AccountingTypeOK
        <5>3. same /\ UNCHANGED acctVars
          BY <2>2, <3>2, <5>1 DEF acctVars
        <5> QED
          BY <1>0, <1>1, <5>2, <5>3, IdleStep, CoveredFormNext
      <4> QED
        BY <4>1, <4>2
    <3>5. unique_stored_bytes' \in Nat
      BY <1>1, <2>2, <3>4, FactsNext DEF CountersNatural, AccountingTypeOK
    <3>6. gc_bytes' \in 0 .. GcBytes
      BY <2>2, <3>3
    <3>7. AccountingTypeOK'
      BY <1>1, <2>2, <3>3, <3>5, <3>6 DEF AccountingTypeOK
    <3>8. \A i, g : Guards(i, g)' <=> Guards(i, g)
      BY <3>2 DEF Guards
    <3>9. ASSUME NEW g \in content_quota_hashes', g \in content_store', content_rc'[g] = 0,
                 ~ \E i \in events' : Guards(i, g)'
          PROVE  g \in content_quota_gc'
      <4>1. g \in content_quota_gc
        BY <2>2, <3>2, <3>8, <3>9 DEF AccInv, ProvenanceKept
      <4>2. ASSUME g = h PROVE FALSE
        <5>1. ~ Collectable(h)
          BY <2>2, <3>9, <4>2
        <5>2. references[h] = 0
          BY <2>2, <3>1, <3>9, <4>2 DEF HashValid
        <5>3. h \in protected_history
          BY <5>1, <5>2 DEF Collectable
        <5>4. Covered = events
          BY <2>2 DEF Covered, EventCounted, Events, Ready
        <5>5. \E i \in events : Guards(i, h)
          BY <1>1, <2>2, <5>3, <5>4 DEF CoveredLedger
        <5> QED
          BY <3>2, <3>8, <3>9, <4>2, <5>5
      <4> QED
        BY <2>2, <4>1, <4>2
    <3>10. ProvenanceKept'
      <4>1. \A g \in content_quota_hashes' : \E i \in events' : content_hash(i) = g
        BY <2>2, <3>2 DEF AccInv, ProvenanceKept
      <4>2. \A i \in events_quota_pruned' :
              recovery' = RecoveryReady \/ i =< recovery' => content_hash(i) \in content_quota_hashes'
        BY <2>2 DEF AccInv, ProvenanceKept
      <4> QED
        BY <3>9, <4>1, <4>2 DEF ProvenanceKept
    <3>11. DecisionsKept'
      BY <2>2, <3>2 DEF AccInv, DecisionsKept
    <3> QED
      BY <1>0, <1>1, <3>4, <3>7, <3>10, <3>11, CoveredFormNext DEF AccInv
  <2> HIDE DEF same
  <2> QED
    BY <1>8, <2>1, <2>2, CollectFacts
<1>9. CASE turn
  <2>1. same /\ UNCHANGED acctVars
        /\ UNCHANGED <<content_quota_hashes, content_quota_gc, recovery, gc_after, upgraded>>
        /\ gc_bytes' = GcBytes
    BY <1>2, <1>9 DEF turn
  <2>2. AccountingTypeOK'
    BY <1>1, <2>1, GcAssumption DEF AccountingTypeOK, acctVars
  <2> QED
    BY <1>0, <2>1, <2>2, IdleStep, IdleProvenance DEF AccInv
<1>10. CASE upgrade
  <2>1. same /\ UNCHANGED acctVars /\ upgraded' = TRUE /\ content_quota_hashes' = {}
        /\ content_quota_gc' = {} /\ recovery' = 0 /\ gc_after' = 0 /\ gc_bytes' = GcBytes
    BY <1>2, <1>10 DEF upgrade
  <2>2. AccountingTypeOK'
    BY <1>1, <2>1, GcAssumption DEF AccountingTypeOK, acctVars
  <2>3. \A i \in events_quota_pruned' : ~ (recovery' = RecoveryReady \/ i =< recovery')
    <3>1. \A i \in events_quota_pruned : i \in Nat \ {0}
      BY <1>1, KeyAssumption DEF TypeOK
    <3> QED
      BY <2>1, <3>1 DEF RecoveryReady
  <2>4. ProvenanceKept'
    BY <2>1, <2>3 DEF ProvenanceKept
  <2> QED
    BY <1>0, <2>1, <2>2, <2>4, IdleStep DEF AccInv
<1>11. CASE UNCHANGED accountingVars
  <2>1. same /\ UNCHANGED acctVars /\ UNCHANGED gcVars
    BY <1>2, <1>11 DEF accountingVars
  <2>2. AccountingTypeOK'
    BY <1>1, <2>1 DEF AccountingTypeOK, acctVars, gcVars
  <2> QED
    BY <1>0, <2>1, <2>2, IdleStep, IdleProvenance DEF AccInv, gcVars
<1> HIDE DEF same
<1> QED
  BY <1>3, <1>4, <1>5, <1>6, <1>7, <1>8, <1>9, <1>10, <1>11 DEF AccountingNext

-----------------------------------------------------------------------------
(* What the invariant gives *)

\* Once every event is covered, the bytes of an author are those of its usage row.
LEMMA CoveredAuthors ==
  ASSUME TypeOK, CoveredLedger, Covered = events, NEW a \in Authors
  PROVE  AuthorValid(a)
<1> DEFINE own == {e \in events : author(e) = a}
<1>1. own = CoveredOf(a) /\ own \in SUBSET EventIds
  BY DEF CoveredOf, TypeOK
<1>2. author_bytes[a] = Weigh(LogicalFun, CoveredOf(a))
  BY DEF CoveredLedger
<1> HIDE DEF own
<1>3. LogicalBytes(own) = Weigh(LogicalFun, own)
  BY <1>1, SumForms
<1>4. author_bytes[a] = LogicalBytes(own)
  BY <1>1, <1>2, <1>3, Zenon
<1> QED
  BY <1>4 DEF AuthorValid, current_content_size, own

\* No check of the scan, of recovery or of the collector fails.
LEMMA ChecksHold == AccInv => MaintenanceNeverFails
<1> SUFFICES ASSUME AccInv PROVE MaintenanceNeverFails
  OBVIOUS
<1>1. PayloadInv /\ TypeOK /\ AccountingTypeOK /\ CoveredLedger
  BY CoveredForm DEF AccInv, PayloadInv
<1>2. ASSUME stage # Ready PROVE RowValid
  <2>1. CASE StageNow = Events
    <3>1. NextKey \in events
      BY <1>1, <2>1, StageFacts, RowsTypes DEF Remaining, Events, Ready
    <3>2. content_state[NextKey] = "NoRow" => content_hash(NextKey) \in content_store
      BY <1>1, <3>1 DEF PayloadInv, ProcessedHasBytes
    <3> QED
      BY <2>1, <3>2 DEF RowValid, Events, Content, HashRows, RefCounts, AuthorUsage,
                        ExpectedAuthors
  <2>2. CASE StageNow \in {Content, HashRows, RefCounts}
    <3>1. NextKey \in Hashes
      BY <1>1, <2>2, StageFacts, RowsTypes DEF Remaining, Content, HashRows, RefCounts, Ready
    <3>2. Covered = events
      BY <1>1, <2>2, ScanFacts DEF Events, Content, HashRows, RefCounts
    <3>3. HashValid(NextKey)
      BY <1>1, <3>1, <3>2, CoveredReferences
    <3> QED
      BY <2>2, <3>3 DEF RowValid, Events, Content, HashRows, RefCounts, AuthorUsage,
                        ExpectedAuthors
  <2>3. CASE StageNow \in {AuthorUsage, ExpectedAuthors}
    <3>1. NextKey \in Authors
      BY <1>1, <2>3, StageFacts, RowsTypes DEF Remaining, AuthorUsage, ExpectedAuthors, Ready
    <3>2. Covered = events
      BY <1>1, <2>3, ScanFacts DEF Events, AuthorUsage, ExpectedAuthors
    <3>3. AuthorValid(NextKey)
      BY <1>1, <3>1, <3>2, CoveredAuthors
    <3> QED
      BY <2>3, <3>3 DEF RowValid, Events, Content, HashRows, RefCounts, AuthorUsage,
                        ExpectedAuthors
  <2>4. CASE StageNow \notin {Events, Content, HashRows, RefCounts, AuthorUsage, ExpectedAuthors}
    BY <2>4 DEF RowValid
  <2> QED
    BY <2>1, <2>2, <2>3, <2>4
<1>3. ASSUME Unscanned # {} PROVE DecisionValid(Min(Unscanned))
  <2>1. Unscanned \subseteq events_quota_pruned
    BY DEF Unscanned
  <2>2. Unscanned \subseteq Nat
    BY <1>1, <2>1, KeyAssumption DEF TypeOK
  <2>3. Min(Unscanned) \in events_quota_pruned
    BY <1>3, <2>1, <2>2, MinFacts
  <2> QED
    BY <1>1, <2>3 DEF AccInv, DecisionsKept, DecisionValid, PayloadInv, QuotaDecisionsStick
<1>4. ASSUME stage = Ready
      PROVE  /\ \A h \in Hashes : HashValid(h)
             /\ \A a \in Authors : AuthorValid(a)
             /\ content_quota_gc \subseteq hash_rows
  <2>1. content_quota_gc \subseteq content_quota_hashes /\ content_quota_hashes \subseteq Hashes
    BY <1>1 DEF AccountingTypeOK
  <2>2. Covered = events
    BY <1>4 DEF Covered, EventCounted, Events, Ready
  <2>3. \A a \in Authors : AuthorValid(a)
    BY <1>1, <2>2, CoveredAuthors
  <2> QED
    BY <1>4, <2>1, <2>3, CollectableIsFree
<1> QED
  BY <1>2, <1>3, <1>4 DEF MaintenanceNeverFails

\* Garbage that recovery has passed waits in the queue.
LEMMA GarbageWaits == AccInv => GarbageStaysNominated
<1> SUFFICES ASSUME AccInv, recovery = RecoveryReady, NEW h \in Hashes, QuotaGarbage(h)
             PROVE  h \in content_quota_gc
  BY DEF GarbageStaysNominated
<1>1. PICK e \in events_quota_pruned : content_hash(e) = h
  BY DEF QuotaGarbage
<1>2. h \in content_quota_hashes
  BY <1>1 DEF AccInv, ProvenanceKept
<1> QED
  BY <1>2 DEF AccInv, ProvenanceKept, QuotaGarbage

LEMMA AccAlways == AccountingSpec => []AccInv
<1>1. AccountingInit => AccInv
  BY AccInit
<1>2. AccInv /\ [AccountingNext]_accountingVars => AccInv'
  BY AccStep
<1> QED
  BY <1>1, <1>2, PTL DEF AccountingSpec

\* At every step of a rebuild that runs beside deliveries, deletions, prunes and
\* collection, the accounting is exact for the rows the scan has covered, no check of
\* the maintenance worker fails, and no quota garbage leaves the collector's queue.
THEOREM AccountingCorrect == AccountingSpec => []AccountingSound
<1>1. AccInv => AccountingSound
  BY ChecksHold, GarbageWaits DEF AccInv, AccountingSound
<1> QED
  BY <1>1, AccAlways, PTL

\* Payload maintenance implements the event store: no step of it does to the event
\* tables what the store's own transactions would not, so all that is proved of Spec
\* holds under a rebuild and under the collector.
THEOREM AccountingImplementsStore == AccountingSpec => Spec
<1>1. AccountingInit => Init
  BY DEF AccountingInit
<1>2. AccInv /\ [AccountingNext]_accountingVars => [Next]_vars
  BY StepRefines
<1> QED
  BY <1>1, <1>2, AccAlways, PTL DEF AccountingSpec, Spec

\* The collector never removes bytes that a Processed or Missing event refers to, or
\* that a local or non-post header guards.
THEOREM CollectionCorrect == AccountingSpec => CollectionSafe
<1> DEFINE Step == \A h \in content_store \ content_store' :
                     ~ \E e \in events : HoldsReference(e, h) \/ Guards(e, h)
<1>1. AccInv /\ [AccountingNext]_accountingVars => [Step]_accountingVars
  <2> SUFFICES ASSUME AccInv, AccountingNext,
                      NEW h \in content_store, h \notin content_store'
               PROVE  ~ \E e \in events : HoldsReference(e, h) \/ Guards(e, h)
    OBVIOUS
  <2>1. TypeOK
    BY DEF AccInv, PayloadInv
  <2>2. UNCHANGED vars => FALSE
    BY DEF vars, payloadVars
  <2>3. \A e \in EventIds : ~ Deliver(e)
    BY <2>1, DeliverTouches DEF Touches
  <2>4. \A e \in EventIds : ~ Prune(e)
    BY <2>1, PruneTouches DEF Prune, Touches
  <2>5. \A e \in EventIds, t, u \in Times : ~ Retry(e, t, u)
    BY DEF Retry, record_failed_content_fetch, defer_content_fetch, Reschedule, payloadVars
  <2>6. collect_quota_payload_step
    BY <2>2, <2>3, <2>4, <2>5 DEF AccountingNext, rebuild_payload_accounting,
       rebuild_quota_payload_nominations, turn, upgrade
  <2>7. PICK g \in content_quota_gc :
          /\ g \in Hashes /\ stage = Ready
          /\ content_store' = content_store \ IF Collectable(g) THEN {g} ELSE {}
    BY <2>2, <2>6, CollectFacts
  <2>8. g = h /\ Collectable(h)
    BY <2>7
  <2> QED
    BY <2>7, <2>8, CollectableIsFree
<1> QED
  BY <1>1, AccAlways, PTL DEF AccountingSpec, CollectionSafe
=============================================================================
