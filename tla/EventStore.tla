----------------------------- MODULE EventStore -----------------------------
(***************************************************************************)
(* The event and content tables of the client database of rostra           *)
(* (crates/rostra-client-db).  Every peer delivers the signed events of an *)
(* author's graph in any order, any number of times, with or without the   *)
(* content bytes; each write transaction below is one action, because the  *)
(* database's single writer lock spans the transaction and its commit.     *)
(*                                                                         *)
(* Data is abstract: an event id stands for its signed header, a content   *)
(* hash for its bytes.  What the headers say (author, parents, deletion    *)
(* flag, content hash and length class) is the constant Header.            *)
(***************************************************************************)
EXTENDS Integers, FiniteSets

CONSTANTS
  EventIds,     \* ids of the events that exist anywhere
  Authors,      \* identities
  Hashes,       \* content hashes
  Header,       \* the signed header of every event, see HeaderType
  None,         \* Option::None of an event id
  MaxTime,      \* bound: timestamps of the fetch schedule are 0..MaxTime
  MaxAttempts   \* bound: where fetch_attempt_count saturates (u16::MAX)

Sizes == {"empty", "normal", "oversized"}

\* Event kinds, as far as undoing their projections tells them apart.
Kinds == {"SOCIAL_POST", "other"}

HeaderType ==
  [author : Authors, content_hash : Hashes,
   parent_aux : EventIds \cup {None}, parent_prev : EventIds \cup {None},
   delete_parent_aux : BOOLEAN,
   order : Nat,          \* rank of EventOrder (timestamp, ShortEventId)
   size : Sizes,         \* content_len: 0, below or from MAX_CONTENT_LEN on
   valid : BOOLEAN,      \* whether the content passes kind-specific validation
   kind : Kinds,
   text : BOOLEAN,       \* whether the text of a SOCIAL_POST is more than blanks
   remote_post : BOOLEAN]\* a SOCIAL_POST of somebody else: quota may prune it

ASSUME NoneAssumption == None \notin EventIds
ASSUME FiniteAssumption == IsFiniteSet(EventIds)
ASSUME HeaderAssumption == Header \in [EventIds -> HeaderType]
ASSUME KindAssumption ==
  \A e \in EventIds : Header[e].remote_post => Header[e].kind = "SOCIAL_POST"
ASSUME BoundAssumption == MaxTime \in Nat /\ MaxAttempts \in Nat
\* An id is the hash of the header, so no event names itself as a parent.
ASSUME HashAssumption ==
  \A e \in EventIds : Header[e].parent_aux # e /\ Header[e].parent_prev # e
\* (timestamp, id) orders events totally.
ASSUME OrderAssumption ==
  \A e, f \in EventIds : Header[e].order = Header[f].order => e = f

VARIABLES
  events,               \* ids in the events table
  events_missing,       \* <<author, id>> rows: named as a parent, not here
  missing_deleted_by,   \* deleted_by of each events_missing row
  events_heads,         \* <<author, id>> rows
  content_state,        \* events_content_state: "NoRow" is Processed if present
  deleted_by,           \* attribution of a Deleted state
  next_fetch_attempt,   \* fields of a Missing state
  fetch_attempt_count,
  events_content_missing, \* <<time, id>> rows: the fetch schedule
  content_store,        \* hashes whose bytes are stored
  content_rc,           \* reference counts; 0 is the absent row
  ids_data_usage,       \* payload counts per author and bucket
  events_quota_pruned,  \* events with a quota decision
  projections           \* times an event's side effects are applied, net

graphVars == <<events, events_missing, missing_deleted_by, events_heads>>
stateVars == <<content_state, deleted_by>>
fetchVars == <<next_fetch_attempt, fetch_attempt_count, events_content_missing>>
payloadVars == <<content_store, content_rc, ids_data_usage>>
vars == <<graphVars, stateVars, fetchVars, payloadVars,
          events_quota_pruned, projections>>

Times == 0 .. MaxTime
ContentStates == {"NoRow", "Missing", "Deleted", "Pruned", "Invalid"}
Buckets == {"total", "missing", "current", "deleted", "pruned", "invalid"}
Keys == Authors \X EventIds

author(e) == Header[e].author
content_hash(e) == Header[e].content_hash
parent_aux(e) == Header[e].parent_aux
parent_prev(e) == Header[e].parent_prev
order(e) == Header[e].order
all_parents(e) == {parent_aux(e), parent_prev(e)} \ {None}

\* Only the aux parent can be deleted, whatever parent_prev says.
DeletesParent(e, p) == Header[e].delete_parent_aux /\ parent_aux(e) = p

\* The usage bucket a lifecycle state is counted in.
BucketOf(s) ==
  CASE s = "NoRow"   -> "current" [] s = "Missing" -> "missing"
    [] s = "Deleted" -> "deleted" [] s = "Pruned"  -> "pruned"
    [] s = "Invalid" -> "invalid"

\* States whose event holds one reference on its content hash.
Referencing(s) == s \in {"NoRow", "Missing"}

-----------------------------------------------------------------------------
(* insert_event_tx *)

\* A parent resolves only to an event of the same author.
IsPresent(a, p) == p \in events /\ author(p) = a

MissingParents(e) == {p \in all_parents(e) : ~ IsPresent(author(e), p)}

\* The parent whose content this event deletes, if it is here.
DeletedParents(e) ==
  {p \in all_parents(e) : IsPresent(author(e), p) /\ DeletesParent(e, p)}

\* MUTANT: the last deleter to arrive wins.
merge_deleted_by_LastWins(current, e) == e

\* Deletion attribution selects the greatest (timestamp, id) deleter.
merge_deleted_by(current, e) ==
  IF current = None \/ order(current) < order(e) THEN e ELSE current

\* MUTANT: only Processed content releases its reference on deletion.
ReleasedParents_ProcessedOnly(e) ==
  {p \in DeletedParents(e) : content_state[p] = "NoRow"}

\* Deleted parents that still held a reference: the others released theirs on
\* entering Deleted, Pruned or Invalid.
ReleasedParents(e) == {p \in DeletedParents(e) : Referencing(content_state[p])}

IsPost(e) == Header[e].kind = "SOCIAL_POST"

\* social_post_projection_plan: a deleting post has projections of its own only
\* as an edit, that is with a parent to replace and a text that is not blank.
Projects(e) ==
  /\ Header[e].size # "empty"
  /\ IsPost(e) /\ Header[e].delete_parent_aux => parent_aux(e) # None /\ Header[e].text

\* MUTANT: reverting forgets the plan that applying follows.
RevertedParents_NoPlan(e) ==
  {p \in DeletedParents(e) : /\ content_state[p] = "NoRow"
                             /\ IsPost(p) /\ Header[p].size # "empty"
                             /\ content_hash(p) \in content_store}

\* Deleted parents whose side effects are reverted: only a Processed event
\* applied any, the revert needs its bytes, and only a SOCIAL_POST has one
\* (process_event_content_reverted_tx); other kinds keep their projections.
RevertedParents(e) ==
  {p \in DeletedParents(e) : /\ content_state[p] = "NoRow"
                             /\ IsPost(p) /\ Projects(p)
                             /\ content_hash(p) \in content_store}

was_missing(e) == <<author(e), e>> \in events_missing
is_deleted(e) == missing_deleted_by[<<author(e), e>>] # None

\* The lifecycle state in which the header alone leaves its event: a deleter
\* came first, a quota decision was restored, too large, empty, or to fetch.
HeaderState(e) ==
  IF is_deleted(e) THEN "Deleted"
  ELSE IF e \in events_quota_pruned \/ Header[e].size = "oversized" THEN "Pruned"
  ELSE IF Header[e].size = "empty" THEN "NoRow"
  ELSE "Missing"

\* process_event_content_inner_tx: only Missing content is processed.
AfterContent(s, e) ==
  IF s # "Missing" THEN s ELSE IF Header[e].valid THEN "NoRow" ELSE "Invalid"

\* Errors that roll the transaction back: a deleter that is not in the events
\* table, a reference count or a usage bucket that would go below zero.
InsertFails(e) ==
  \/ \E p \in DeletedParents(e) :
        \/ content_state[p] = "Deleted" /\ deleted_by[p] \notin events
        \/ Referencing(content_state[p]) /\ content_rc[content_hash(p)] = 0
        \/ /\ content_state[p] # "Deleted"
           /\ ids_data_usage[author(p)][BucketOf(content_state[p])] = 0
  \/ \E p \in MissingParents(e) :
        LET d == missing_deleted_by[<<author(e), p>>]
        IN  DeletesParent(e, p) /\ d # None /\ d \notin events

NewMissingDeletedBy(e) ==
  [k \in Keys |->
     IF k = <<author(e), e>> THEN None
     ELSE IF k[1] = author(e) /\ k[2] \in MissingParents(e) /\ DeletesParent(e, k[2])
          THEN merge_deleted_by(missing_deleted_by[k], e)
     ELSE missing_deleted_by[k]]

\* A head is an event without a known child of its author.
NewHeads(e) ==
  (events_heads \cup IF was_missing(e) THEN {} ELSE {<<author(e), e>>})
     \ {<<author(e), p>> : p \in all_parents(e)}

NewDeletedBy(e) ==
  [p \in EventIds |->
     IF p = e THEN missing_deleted_by[<<author(e), e>>]
     ELSE IF p \in DeletedParents(e) THEN merge_deleted_by(deleted_by[p], e)
     ELSE deleted_by[p]]

\* MUTANT: a reference is counted only once the content is processed.
NewRefCount_ProcessedOnly(e, s) ==
  [h \in Hashes |->
     content_rc[h]
       + (IF s = "NoRow" /\ content_hash(e) = h THEN 1 ELSE 0)
       - (IF \E p \in ReleasedParents(e) : content_hash(p) = h THEN 1 ELSE 0)]

NewRefCount(e, s) ==
  [h \in Hashes |->
     content_rc[h]
       + (IF Referencing(s) /\ content_hash(e) = h THEN 1 ELSE 0)
       - (IF \E p \in ReleasedParents(e) : content_hash(p) = h THEN 1 ELSE 0)]

\* The payload of e enters its bucket, that of the deleted parent changes its.
NewUsage(e, s) ==
  LET moved == {p \in DeletedParents(e) : content_state[p] # "Deleted"}
      gain(b) == (IF b \in {"total", BucketOf(s)} THEN 1 ELSE 0)
                   + (IF b = "deleted" /\ moved # {} THEN 1 ELSE 0)
      loss(b) == IF \E p \in moved : BucketOf(content_state[p]) = b THEN 1 ELSE 0
  IN  [a \in Authors |->
         IF a = author(e)
         THEN [b \in Buckets |-> ids_data_usage[a][b] + gain(b) - loss(b)]
         ELSE ids_data_usage[a]]

\* Removing the schedule row of a deleted Missing parent, and scheduling an
\* event the transaction leaves Missing (ensure_missing_scheduled_tx).
NewSchedule(e, s) ==
  (events_content_missing
     \ {<<next_fetch_attempt[p], p>> :
          p \in {q \in DeletedParents(e) : content_state[q] = "Missing"}})
  \cup IF s = "Missing" THEN {<<0, e>>} ELSE {}

\* The attempts are fields of the Missing row, which is replaced.
Forgotten(f, S) == [p \in EventIds |-> IF p \in S THEN 0 ELSE f[p]]

\* Insertion of a new header in a transaction that leaves it in state s.
Insert(e, s) ==
  /\ e \notin events
  /\ ~ InsertFails(e)
  /\ events' = events \cup {e}
  /\ events_missing' = (events_missing \ {<<author(e), e>>})
                         \cup {<<author(e), p>> : p \in MissingParents(e)}
  /\ missing_deleted_by' = NewMissingDeletedBy(e)
  /\ events_heads' = NewHeads(e)
  /\ content_state' = [p \in EventIds |->
       IF p = e THEN s
       ELSE IF p \in DeletedParents(e) THEN "Deleted" ELSE content_state[p]]
  /\ deleted_by' = NewDeletedBy(e)
  /\ next_fetch_attempt' = Forgotten(next_fetch_attempt, DeletedParents(e) \cup {e})
  /\ fetch_attempt_count' = Forgotten(fetch_attempt_count, DeletedParents(e) \cup {e})
  /\ events_content_missing' = NewSchedule(e, s)
  /\ content_store' =
       content_store \cup IF s = "NoRow" THEN {content_hash(e)} ELSE {}
  /\ content_rc' = NewRefCount(e, s)
  /\ ids_data_usage' = NewUsage(e, s)
  /\ projections' = [p \in EventIds |->
       projections[p]
         + (IF p = e /\ s = "NoRow" /\ Projects(e) THEN 1 ELSE 0)
         - (IF p \in RevertedParents(e) THEN 1 ELSE 0)]
  /\ UNCHANGED events_quota_pruned

-----------------------------------------------------------------------------
(* Transactions *)

\* try_process_event on a new header.
process_event(e) == Insert(e, HeaderState(e))

\* try_process_event_with_content on a new header: both in one transaction.
process_event_with_content(e) == Insert(e, AfterContent(HeaderState(e), e))

\* The header is already here: only the schedule row is (re)asserted.
process_event_again(e) ==
  /\ e \in events
  /\ events_content_missing' = events_content_missing \cup
       IF content_state[e] = "Missing" THEN {<<next_fetch_attempt[e], e>>} ELSE {}
  /\ UNCHANGED <<graphVars, stateVars, next_fetch_attempt, fetch_attempt_count,
                 payloadVars, events_quota_pruned, projections>>

MoveUsage(e, from, to) ==
  [ids_data_usage EXCEPT ![author(e)] =
     [b \in Buckets |-> IF b = from THEN @[b] - 1
                        ELSE IF b = to THEN @[b] + 1 ELSE @[b]]]

\* MUTANT: any state row, not only Missing, lets content in.
can_insert_event_content_AnyRow(e) == e \in events /\ content_state[e] # "NoRow"

\* Content is processed at most once, and never in a terminal state.
can_insert_event_content(e) == e \in events /\ content_state[e] = "Missing"

\* process_event_content_inner_tx on a header that is Missing.
ProcessMissing(e) ==
  LET s == AfterContent("Missing", e) IN
  /\ can_insert_event_content(e)
  /\ ids_data_usage[author(e)]["missing"] > 0
  /\ s = "Invalid" => content_rc[content_hash(e)] > 0
  /\ content_state' = [content_state EXCEPT ![e] = s]
  /\ events_content_missing' =
       events_content_missing \ {<<next_fetch_attempt[e], e>>}
  /\ content_store' = content_store \cup IF s = "NoRow" THEN {content_hash(e)} ELSE {}
  /\ content_rc' = IF s = "Invalid"
                   THEN [content_rc EXCEPT ![content_hash(e)] = @ - 1]
                   ELSE content_rc
  /\ ids_data_usage' = MoveUsage(e, "missing", BucketOf(s))
  /\ projections' = IF s = "NoRow" /\ Projects(e) THEN [projections EXCEPT ![e] = @ + 1]
                    ELSE projections
  /\ next_fetch_attempt' = Forgotten(next_fetch_attempt, {e})
  /\ fetch_attempt_count' = Forgotten(fetch_attempt_count, {e})
  /\ UNCHANGED <<graphVars, deleted_by, events_quota_pruned>>

\* Content delivered for a header that is here; in any state other than
\* Missing it changes none of these tables.
process_event_content(e) == ProcessMissing(e)

\* Content reused from the shared store, without a fetch.
try_materialize_stored_payload(e) ==
  /\ content_hash(e) \in content_store
  /\ ProcessMissing(e)

\* A fetch failed, or was put off for lack of capacity.  observed is the
\* schedule entry the fetcher acted on; a stale one changes nothing.
Reschedule(e, observed, next) ==
  /\ e \in events /\ content_state[e] = "Missing"
  /\ observed = next_fetch_attempt[e]
  /\ observed < next
  /\ events_content_missing' =
       (events_content_missing \ {<<observed, e>>}) \cup {<<next, e>>}
  /\ next_fetch_attempt' = [next_fetch_attempt EXCEPT ![e] = next]
  /\ UNCHANGED <<graphVars, stateVars, payloadVars, events_quota_pruned, projections>>

record_failed_content_fetch(e, observed, next) ==
  /\ Reschedule(e, observed, next)
  /\ fetch_attempt_count' = [fetch_attempt_count EXCEPT
       ![e] = IF @ < MaxAttempts THEN @ + 1 ELSE @]

defer_content_fetch(e, observed, next) ==
  /\ Reschedule(e, observed, next)
  /\ UNCHANGED fetch_attempt_count

\* prune_quota_payload_tx: a selected Processed or Missing remote post gives up
\* its reference; a Processed one reverts its side effects from the bytes.
prune_quota_payload(e) ==
  /\ e \in events /\ Referencing(content_state[e])
  /\ Header[e].remote_post /\ Header[e].size # "empty"
  /\ e \notin events_quota_pruned
  /\ content_state[e] = "NoRow" => content_hash(e) \in content_store
  /\ content_rc[content_hash(e)] > 0
  /\ ids_data_usage[author(e)][BucketOf(content_state[e])] > 0
  /\ content_state' = [content_state EXCEPT ![e] = "Pruned"]
  /\ events_content_missing' = events_content_missing
       \ IF content_state[e] = "Missing" THEN {<<next_fetch_attempt[e], e>>} ELSE {}
  /\ content_rc' = [content_rc EXCEPT ![content_hash(e)] = @ - 1]
  /\ ids_data_usage' = MoveUsage(e, BucketOf(content_state[e]), "pruned")
  /\ events_quota_pruned' = events_quota_pruned \cup {e}
  /\ projections' = IF content_state[e] = "NoRow" /\ Projects(e)
                    THEN [projections EXCEPT ![e] = @ - 1] ELSE projections
  /\ next_fetch_attempt' = Forgotten(next_fetch_attempt, {e})
  /\ fetch_attempt_count' = Forgotten(fetch_attempt_count, {e})
  /\ UNCHANGED <<graphVars, deleted_by, content_store>>

\* Removal of unreferenced bytes by the quota collector.  Which unreferenced
\* hashes it may take, and when, is the subject of PayloadAccounting.
collect_payload(h) ==
  /\ h \in content_store
  /\ content_rc[h] = 0
  /\ content_store' = content_store \ {h}
  /\ UNCHANGED <<graphVars, stateVars, fetchVars, content_rc, ids_data_usage,
                 events_quota_pruned, projections>>

-----------------------------------------------------------------------------

\* A fresh database, or one about to replay headers after its quota decisions
\* were restored.
Init ==
  /\ events = {}
  /\ events_missing = {}
  /\ missing_deleted_by = [k \in Keys |-> None]
  /\ events_heads = {}
  /\ content_state = [e \in EventIds |-> "NoRow"]
  /\ deleted_by = [e \in EventIds |-> None]
  /\ next_fetch_attempt = [e \in EventIds |-> 0]
  /\ fetch_attempt_count = [e \in EventIds |-> 0]
  /\ events_content_missing = {}
  /\ content_store = {}
  /\ content_rc = [h \in Hashes |-> 0]
  /\ ids_data_usage = [a \in Authors |-> [b \in Buckets |-> 0]]
  /\ events_quota_pruned \in
       SUBSET {e \in EventIds : Header[e].remote_post /\ Header[e].size = "normal"}
  /\ projections = [e \in EventIds |-> 0]

Next ==
  \/ \E e \in EventIds :
       \/ process_event(e)
       \/ process_event_with_content(e)
       \/ process_event_again(e)
       \/ process_event_content(e)
       \/ try_materialize_stored_payload(e)
       \/ prune_quota_payload(e)
       \/ \E observed, next \in Times :
            \/ record_failed_content_fetch(e, observed, next)
            \/ defer_content_fetch(e, observed, next)
  \/ \E h \in Hashes : collect_payload(h)

\* The promise of the event store, which PayloadAccounting implements: under a
\* rebuild of the accounting and bounded collection, every committed step of
\* ingestion and of the collector is still one of the steps above, and bytes
\* are only collected when no event refers to them (collect_quota_payload_step_tx).
Spec == Init /\ [][Next]_vars

-----------------------------------------------------------------------------
(* Properties.  Each relates a table the transactions maintain step by step   *)
(* to what the set of inserted headers says it should be, so it also says     *)
(* that the table does not depend on the order of delivery.                   *)

\* No count that a transaction decrements goes below zero (content_rc and the
\* usage buckets are unsigned), and every table has its type.
TypeOK ==
  /\ events \subseteq EventIds
  /\ events_missing \subseteq Keys
  /\ missing_deleted_by \in [Keys -> EventIds \cup {None}]
  /\ events_heads \subseteq Keys
  /\ content_state \in [EventIds -> ContentStates]
  /\ deleted_by \in [EventIds -> EventIds \cup {None}]
  /\ next_fetch_attempt \in [EventIds -> Times]
  /\ fetch_attempt_count \in [EventIds -> 0 .. MaxAttempts]
  /\ events_content_missing \subseteq Times \X EventIds
  /\ content_store \subseteq Hashes
  /\ content_rc \in [Hashes -> Nat]
  /\ ids_data_usage \in [Authors -> [Buckets -> Nat]]
  /\ events_quota_pruned \subseteq EventIds
  /\ projections \in [EventIds -> Int]

\* events_heads holds exactly the events of each author that no inserted event
\* of the same author names as a parent (insert_event_tx adds and removes rows).
HeadsAreFrontier ==
  events_heads =
    {<<author(e), e>> : e \in {f \in events :
       ~ \E c \in events : author(c) = author(f) /\ f \in all_parents(c)}}

\* events_missing holds exactly the parents that inserted events of an author
\* name and that are not inserted as events of that author: what the missing
\* event fetcher has to ask for, nothing forgotten and nothing left over.
MissingAreUnresolvedParents ==
  events_missing =
    {k \in Keys : /\ ~ IsPresent(k[1], k[2])
                  /\ \E c \in events : author(c) = k[1] /\ k[2] \in all_parents(c)}

Deleters(a, p) == {c \in events : author(c) = a /\ DeletesParent(c, p)}

\* d is the greatest deleter in S, or None when there is none.
Attributed(d, S) ==
  IF S = {} THEN d = None ELSE d \in S /\ \A c \in S : order(c) =< order(d)

\* Content is Deleted exactly when a deleter by the same author is inserted,
\* and is attributed to the greatest one, whether the deleters came before the
\* event or after it and in whatever order (merge_deleted_by_tx).
DeletionConverges ==
  /\ \A e \in events :
       /\ content_state[e] = "Deleted" <=> Deleters(author(e), e) # {}
       /\ Attributed(deleted_by[e], Deleters(author(e), e))
  /\ \A a \in Authors, p \in EventIds :
       IF IsPresent(a, p) THEN missing_deleted_by[<<a, p>>] = None
       ELSE Attributed(missing_deleted_by[<<a, p>>], Deleters(a, p))

\* What the tables of the graph say depends only on the set of inserted headers.
GraphExact == HeadsAreFrontier /\ MissingAreUnresolvedParents /\ DeletionConverges

\* The stored reference count of a hash is the number of inserted events that
\* are Processed or Missing with it: no transition releases a reference twice
\* or keeps one (increment_content_rc_tx, decrement_content_rc_tx).
RefCountExact ==
  \A h \in Hashes :
    content_rc[h] = Cardinality({e \in events :
      Referencing(content_state[e]) /\ content_hash(e) = h})

\* Per author, each usage bucket counts the payloads in that lifecycle state and
\* the total counts all of them (the track_*_tx calls).
UsageExact ==
  \A a \in Authors :
    /\ ids_data_usage[a]["total"] = Cardinality({e \in events : author(e) = a})
    /\ \A b \in Buckets \ {"total"} :
         ids_data_usage[a][b] = Cardinality({e \in events :
           author(e) = a /\ BucketOf(content_state[e]) = b})

\* The fetch schedule has one row per Missing event, at the time its state
\* records, and no other row: no Missing content is forgotten by the fetcher and
\* no terminal content is fetched.
ScheduleMirrorsMissing ==
  events_content_missing =
    {<<next_fetch_attempt[e], e>> : e \in {f \in events : content_state[f] = "Missing"}}

\* Processed content can be read: its bytes are in the shared store, however
\* many events share the hash and whatever the collector removed.
ProcessedHasBytes ==
  \A e \in events : content_state[e] = "NoRow" => content_hash(e) \in content_store

\* Side effects are applied once for Processed content that has any: content
\* delivered twice does not apply them twice.  A deletion or a quota prune of a
\* social post takes back what was applied, and no more (a blank deleting post
\* applies and reverts nothing).  Deleted content of another kind keeps what it
\* applied, if it was Processed at all before its deleter came.
SideEffectsOnce ==
  \A e \in EventIds :
    IF e \in events /\ Projects(e) /\ content_state[e] = "NoRow"
    THEN projections[e] = 1
    ELSE \/ projections[e] = 0
         \/ /\ e \in events /\ Projects(e) /\ content_state[e] = "Deleted"
            /\ ~ IsPost(e)
            /\ projections[e] = 1

\* No transaction ever meets the errors its checks guard against (a count below
\* zero, an unknown deleter, bytes that quota pruning needs for its revert): a
\* delivery or a prune is never rolled back for them, so the headers it carries
\* are never lost.
NeverRolledBack ==
  /\ \A e \in EventIds \ events : ~ InsertFails(e)
  /\ \A e \in events : Referencing(content_state[e]) =>
       /\ content_rc[content_hash(e)] > 0
       /\ ids_data_usage[author(e)][BucketOf(content_state[e])] > 0
       /\ content_state[e] = "NoRow" => content_hash(e) \in content_store

\* A quota decision, taken here or restored before a replay, is final: content
\* that was pruned for it is never fetched or materialised again.
QuotaDecisionsStick ==
  \A e \in events \cap events_quota_pruned : content_state[e] \in {"Pruned", "Deleted"}

\* Whatever order headers, payloads, deletions, fetch failures, quota decisions and
\* collections come in, every table about content agrees with the content states.
ContentExact ==
  /\ RefCountExact /\ UsageExact /\ ScheduleMirrorsMissing
  /\ ProcessedHasBytes /\ SideEffectsOnce /\ QuotaDecisionsStick

\* Deleted is final, Pruned and Invalid only become Deleted, and Processed
\* content never becomes Missing again.  No step takes back the projections of
\* an event that is not a social post.
LifecycleStep ==
  \A e \in events :
    LET s == content_state[e]  t == content_state'[e] IN
    /\ \/ t \in {s, "Deleted"}
       \/ s = "NoRow" /\ t = "Pruned"
       \/ s = "Missing"
    /\ projections'[e] < projections[e] => IsPost(e)
LifecycleForward == [][LifecycleStep]_vars
=============================================================================
