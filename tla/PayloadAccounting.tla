------------------------- MODULE PayloadAccounting --------------------------
(***************************************************************************)
(* Payload accounting and quota-scoped reclamation of rostra's client      *)
(* database (payload_accounting.rs), on top of the event tables of         *)
(* EventStore.  The accounting tables are disposable: a resumable scan     *)
(* rebuilds them one row per transaction while deliveries, deletions and   *)
(* quota pruning keep changing what it scans.  Every reducer therefore     *)
(* settles what it did to the rows the scan already covered               *)
(* (payload_before_tx ... payload_after_tx); the rest is left to the scan. *)
(*                                                                         *)
(* Ids, hashes and authors are the byte strings that order the tables, so  *)
(* here they are positive numbers; 0 is the cursor None.                   *)
(***************************************************************************)
EXTENDS EventStore, FiniteSetsExt

CONSTANTS
  ContentLen,  \* length of the bytes behind each hash
  GcBytes      \* RuntimeLimits.gc_bytes: bytes the worker may remove per turn

ASSUME KeyAssumption ==
  /\ EventIds \subseteq Nat \ {0}
  /\ Hashes \subseteq Nat \ {0} /\ IsFiniteSet(Hashes)
  /\ Authors \subseteq Nat \ {0}
ASSUME LenAssumption == ContentLen \in [Hashes -> Nat]
ASSUME GcAssumption == GcBytes \in Nat \ {0}

VARIABLES
  stage,           \* AccountingStage, as the number of a stage below
  cursor,          \* last row the stage visited
  hash_rows,       \* rows of content_accounting_hashes
  references,      \* HashAccounting.references
  protected_history, \* hashes with HashAccounting.protected_history
  author_bytes,    \* content_accounting_authors; 0 also for an absent row
  logical_current_bytes, unique_stored_bytes,  \* PayloadUsage
  content_quota_hashes,  \* hashes a quota decision released, for good
  content_quota_gc,      \* nominations waiting for the collector
  recovery,        \* QuotaRecovery: cursor of the scan, or RecoveryReady
  gc_after,        \* RuntimeCursor.gc_after of the maintenance worker
  gc_bytes,        \* what is left of its allowance in this turn
  upgraded         \* whether the tables were created for an older database

acctVars == <<stage, cursor, hash_rows, references, protected_history,
              author_bytes, logical_current_bytes, unique_stored_bytes>>
gcVars == <<content_quota_hashes, content_quota_gc, recovery, gc_after,
            gc_bytes, upgraded>>
accountingVars == <<vars, acctVars, gcVars>>

Events == 1
Content == 2
HashRows == 3
RefCounts == 4
AuthorUsage == 5
ExpectedAuthors == 6
Ready == 7
RecoveryReady == -1

-----------------------------------------------------------------------------
(* Contributions *)

\* Whether event i holds one reference on h.
HoldsReference(i, h) ==
  i \in events /\ Referencing(content_state[i]) /\ content_hash(i) = h

\* The processed length of event i.
Logical(i) ==
  IF i \in events /\ content_state[i] = "NoRow" THEN ContentLen[content_hash(i)] ELSE 0

\* A local or non-SocialPost header guards its hash for as long as it is kept.
Guards(i, h) == i \in events /\ ~ Header[i].remote_post /\ content_hash(i) = h

StoredLen(h) == IF h \in content_store THEN ContentLen[h] ELSE 0

LogicalBytes(S) == SumFunction([i \in S |-> Logical(i)])
StoredBytes(S) == SumFunction([h \in S |-> StoredLen(h)])

current_content_size(a) == LogicalBytes({e \in events : author(e) = a})

\* MUTANT: the row under the cursor is taken for one still to be scanned.
EventCounted_OffByOne(i) == stage # Events \/ i < cursor

EventCounted(i) == stage # Events \/ i =< cursor
HashCounted(h) == stage > Content \/ (stage = Content /\ h =< cursor)

\* The events a reducer of e can change, and the hashes whose bytes it can
\* change (payload_before_tx).
TouchedIds(e) == {e, parent_aux(e)} \ {None}

TouchedHashes(e) ==
  {content_hash(e)} \cup {content_hash(p) : p \in TouchedIds(e) \cap events}

\* Quota hashes whose last reference is gone at the end of a reducer of e.
Renominated(e) ==
  {h \in TouchedHashes(e) : h \in content_quota_hashes' /\ content_rc'[h] = 0}

\* payload_after_tx: the difference the reducer of e made to covered rows.
payload_after(e, nominated) ==
  LET counted == {i \in TouchedIds(e) : EventCounted(i)}
      new == counted \cap events'
      stored == {h \in TouchedHashes(e) : HashCounted(h)}
  IN
  /\ references' = [h \in Hashes |->
       references[h] - Cardinality({i \in counted : HoldsReference(i, h)})
                     + Cardinality({i \in counted : HoldsReference(i, h)'})]
  /\ hash_rows' = hash_rows \cup {content_hash(i) : i \in new}
  /\ protected_history' = protected_history
       \cup {content_hash(i) : i \in {j \in new : ~ Header[j].remote_post}}
  /\ author_bytes' = [a \in Authors |->
       LET own == {i \in counted : author(i) = a} IN
       author_bytes[a] - LogicalBytes(own) + SumFunction([i \in own |-> Logical(i)'])]
  /\ logical_current_bytes' = logical_current_bytes
       - LogicalBytes(counted) + SumFunction([i \in counted |-> Logical(i)'])
  /\ unique_stored_bytes' = unique_stored_bytes
       - StoredBytes(stored) + SumFunction([h \in stored |-> StoredLen(h)'])
  /\ content_quota_hashes' = content_quota_hashes \cup nominated
  /\ content_quota_gc' = content_quota_gc \cup nominated \cup Renominated(e)
  /\ UNCHANGED <<stage, cursor, recovery, gc_after, gc_bytes, upgraded>>

-----------------------------------------------------------------------------
(* The reducers of EventStore with their accounting *)

Deliver(e) ==
  /\ \/ process_event(e)
     \/ process_event_with_content(e)
     \/ process_event_again(e)
     \/ process_event_content(e)
     \/ try_materialize_stored_payload(e)
  /\ payload_after(e, {})

\* Pruning needs ready accounting, and nominates the hash it releases.
Prune(e) ==
  /\ stage = Ready
  /\ prune_quota_payload(e)
  /\ payload_after(e, {content_hash(e)})

\* Rescheduling a fetch is outside of the accounting.
Retry(e, observed, next) ==
  /\ \/ record_failed_content_fetch(e, observed, next)
     \/ defer_content_fetch(e, observed, next)
  /\ UNCHANGED <<acctVars, gcVars>>

-----------------------------------------------------------------------------
(* rebuild_payload_accounting_tx, with a limit of one row as the worker calls it *)

\* The keys of the table a stage scans.
Rows(k) ==
  CASE k = Events          -> events
    [] k = Content         -> content_store
    [] k = HashRows        -> hash_rows
    [] k = RefCounts       -> {h \in Hashes : content_rc[h] > 0}
    [] k = AuthorUsage     -> {author(e) : e \in events}
    [] k = ExpectedAuthors -> {author(e) : e \in {i \in events : EventCounted(i)}}
    [] OTHER               -> {}

Remaining(k) == {r \in Rows(k) : k > stage \/ cursor < r}

\* Exhausted stages are left in the same transaction.
StageNow == Min({k \in stage .. Ready : k = Ready \/ Remaining(k) # {}})
NextKey == Min(Remaining(StageNow))

HashValid(h) == references[h] = content_rc[h]
AuthorValid(a) == author_bytes[a] = current_content_size(a)

\* The checks one step of the scan makes of the row it visits.
RowValid ==
  CASE StageNow = Events -> content_state[NextKey] = "NoRow"
                              => content_hash(NextKey) \in content_store
    [] StageNow \in {Content, HashRows, RefCounts} -> HashValid(NextKey)
    [] StageNow \in {AuthorUsage, ExpectedAuthors} -> AuthorValid(NextKey)
    [] OTHER -> TRUE

VisitEvent(i) ==
  /\ references' = [h \in Hashes |->
       references[h] + IF HoldsReference(i, h) THEN 1 ELSE 0]
  /\ hash_rows' = hash_rows \cup {content_hash(i)}
  /\ protected_history' = protected_history \cup
       IF Header[i].remote_post THEN {} ELSE {content_hash(i)}
  /\ author_bytes' = [author_bytes EXCEPT ![author(i)] = @ + Logical(i)]
  /\ logical_current_bytes' = logical_current_bytes + Logical(i)
  /\ UNCHANGED unique_stored_bytes

VisitContent(h) ==
  /\ unique_stored_bytes' = unique_stored_bytes + ContentLen[h]
  /\ UNCHANGED <<references, hash_rows, protected_history, author_bytes,
                 logical_current_bytes>>

VisitChecked ==
  UNCHANGED <<references, hash_rows, protected_history, author_bytes,
              logical_current_bytes, unique_stored_bytes>>

rebuild_payload_accounting ==
  /\ stage # Ready
  /\ RowValid
  /\ stage' = StageNow
  /\ cursor' = IF StageNow = Ready THEN 0 ELSE NextKey
  /\ \/ StageNow = Events /\ VisitEvent(NextKey)
     \/ StageNow = Content /\ VisitContent(NextKey)
     \/ StageNow \notin {Events, Content} /\ VisitChecked
  /\ UNCHANGED <<vars, gcVars>>

-----------------------------------------------------------------------------
(* Nominations and collection *)

Unscanned == IF recovery = RecoveryReady THEN {}
             ELSE {e \in events_quota_pruned : recovery < e}

\* The checks one step of the recovery scan makes of the decision it visits.
DecisionValid(e) ==
  e \in events /\ content_state[e] \in {"Pruned", "Deleted"} /\ Header[e].remote_post

\* rebuild_quota_payload_nominations_tx, one row
rebuild_quota_payload_nominations ==
  /\ recovery # RecoveryReady
  /\ IF Unscanned = {}
     THEN /\ recovery' = RecoveryReady
          /\ UNCHANGED <<content_quota_hashes, content_quota_gc>>
     ELSE LET e == Min(Unscanned) IN
          /\ DecisionValid(e)
          /\ recovery' = e
          /\ content_quota_hashes' = content_quota_hashes \cup {content_hash(e)}
          /\ content_quota_gc' = content_quota_gc \cup {content_hash(e)}
  /\ UNCHANGED <<vars, acctVars, gc_after, gc_bytes, upgraded>>

\* MUTANT: the collector looks at reference counts and not at guards.
Collectable_Unguarded(h) == references[h] = 0

\* MUTANT: the collector looks at guards and not at references.
Collectable_Referenced(h) == h \notin protected_history

\* No reference, counting Missing events, and no guarding header.
Collectable(h) == references[h] = 0 /\ h \notin protected_history

\* MUTANT: a payload of exactly the allowance does not fit.
AboveAllowance_OffByOne(bytes) == gc_bytes =< bytes

AboveAllowance(bytes) == gc_bytes < bytes

\* collect_quota_payload_step_tx from the worker's frontier: a blocked
\* nomination is consumed, one above the allowance stays.
collect_quota_payload_step ==
  LET queue == {h \in content_quota_gc : gc_after < h} IN
  /\ stage = Ready
  /\ recovery = RecoveryReady
  /\ IF queue = {}
     THEN /\ gc_after' = 0
          /\ UNCHANGED <<vars, acctVars, content_quota_gc, gc_bytes>>
     ELSE LET h == Min(queue)
              bytes == IF Collectable(h) THEN StoredLen(h) ELSE 0
          IN
          /\ HashValid(h) /\ h \in hash_rows
          /\ gc_after' = h
          /\ IF AboveAllowance(bytes)
             THEN UNCHANGED <<vars, acctVars, content_quota_gc, gc_bytes>>
             ELSE /\ content_quota_gc' = content_quota_gc \ {h}
                  /\ content_store' = content_store \ IF Collectable(h) THEN {h} ELSE {}
                  /\ unique_stored_bytes' = unique_stored_bytes - bytes
                  /\ gc_bytes' = gc_bytes - bytes
                  /\ UNCHANGED <<graphVars, stateVars, fetchVars, content_rc,
                       ids_data_usage, events_quota_pruned, projections,
                       stage, cursor, hash_rows, references, protected_history,
                       author_bytes, logical_current_bytes>>
  /\ UNCHANGED <<content_quota_hashes, recovery, upgraded>>

\* PayloadRuntime::turn starts with a fresh allowance.
turn ==
  /\ gc_bytes # GcBytes
  /\ gc_bytes' = GcBytes
  /\ UNCHANGED <<vars, acctVars, content_quota_hashes, content_quota_gc, recovery,
                 gc_after, upgraded>>

\* init_tables_tx on a database of an older schema: its quota decisions are
\* kept, the provenance tables start empty, the worker with the process.
upgrade ==
  /\ ~ upgraded
  /\ upgraded' = TRUE
  /\ content_quota_hashes' = {}
  /\ content_quota_gc' = {}
  /\ recovery' = 0
  /\ gc_after' = 0
  /\ gc_bytes' = GcBytes
  /\ UNCHANGED <<vars, acctVars>>

-----------------------------------------------------------------------------

AccountingInit ==
  /\ Init
  /\ events_quota_pruned = {}
  /\ stage = Events
  /\ cursor = 0
  /\ hash_rows = {}
  /\ references = [h \in Hashes |-> 0]
  /\ protected_history = {}
  /\ author_bytes = [a \in Authors |-> 0]
  /\ logical_current_bytes = 0
  /\ unique_stored_bytes = 0
  /\ content_quota_hashes = {}
  /\ content_quota_gc = {}
  /\ recovery = 0
  /\ gc_after = 0
  /\ gc_bytes = GcBytes
  /\ upgraded = FALSE

AccountingNext ==
  \/ \E e \in EventIds :
       \/ Deliver(e)
       \/ Prune(e)
       \/ \E observed, next \in Times : Retry(e, observed, next)
  \/ rebuild_payload_accounting
  \/ rebuild_quota_payload_nominations
  \/ collect_quota_payload_step
  \/ turn
  \/ upgrade

\* The maintenance worker keeps taking its phases in turn (PayloadRuntime::run).
AccountingFairness ==
  /\ WF_accountingVars(rebuild_payload_accounting)
  /\ WF_accountingVars(rebuild_quota_payload_nominations)
  /\ WF_accountingVars(collect_quota_payload_step)
  /\ WF_accountingVars(turn)

AccountingSpec ==
  AccountingInit /\ [][AccountingNext]_accountingVars /\ AccountingFairness
-----------------------------------------------------------------------------
(* Properties *)

\* Every nomination is for a hash with a quota decision, the allowance of a turn
\* is never overdrawn, and every variable has its type.
AccountingTypeOK ==
  /\ stage \in Events .. Ready
  /\ cursor \in Nat
  /\ hash_rows \subseteq Hashes
  /\ references \in [Hashes -> Nat]
  /\ protected_history \subseteq Hashes
  /\ author_bytes \in [Authors -> Nat]
  /\ logical_current_bytes \in Nat
  /\ unique_stored_bytes \in Nat
  /\ content_quota_hashes \subseteq Hashes
  /\ content_quota_gc \subseteq content_quota_hashes
  /\ recovery \in Nat \cup {RecoveryReady}
  /\ gc_after \in Nat
  /\ gc_bytes \in 0 .. GcBytes
  /\ upgraded \in BOOLEAN

\* At every moment of the rebuild, however it interleaves with ingestion, the
\* accounting is exact for the rows the scan has covered, and so for all rows
\* once it is Ready: nothing is counted twice, and nothing is missed by being
\* inserted behind the cursor or changed in front of it.
AccountingExact ==
  LET covered == {e \in events : EventCounted(e)} IN
  /\ \A h \in Hashes :
       /\ references[h] = Cardinality({e \in covered : HoldsReference(e, h)})
       /\ h \in protected_history <=> \E e \in covered : Guards(e, h)
       /\ h \in hash_rows <=> \E e \in covered : content_hash(e) = h
  /\ logical_current_bytes = LogicalBytes(covered)
  /\ \A a \in Authors :
       author_bytes[a] = LogicalBytes({e \in covered : author(e) = a})
  /\ unique_stored_bytes = StoredBytes({h \in content_store : HashCounted(h)})

\* No check ever fails (PayloadAccountingInvariant): not those of the rows the scan
\* visits, of the decisions recovery visits or of the collector, which would stop
\* the worker for good, nor those that every reducer makes of the hashes and authors
\* it touched once the accounting is Ready, which would roll the delivery back.
MaintenanceNeverFails ==
  /\ stage # Ready => RowValid
  /\ Unscanned # {} => DecisionValid(Min(Unscanned))
  /\ stage = Ready => /\ \A h \in Hashes : HashValid(h)
                      /\ \A a \in Authors : AuthorValid(a)
                      /\ content_quota_gc \subseteq hash_rows

\* The bytes the collector removes belong to no Processed or Missing event and
\* to no local or non-post header, which replay could need again.
CollectionSafe ==
  [][\A h \in content_store \ content_store' :
       ~ \E e \in events : HoldsReference(e, h) \/ Guards(e, h)]_accountingVars

\* Bytes that only quota decisions released, and that nothing guards.
QuotaGarbage(h) ==
  /\ h \in content_store /\ content_rc[h] = 0
  /\ \E e \in events_quota_pruned : content_hash(e) = h
  /\ ~ \E e \in events : Guards(e, h)

\* Once recovery is done, quota garbage is always in the collector's queue: a
\* nomination consumed while another event still used the bytes is made again by
\* whatever transaction releases the last reference.
GarbageStaysNominated ==
  recovery = RecoveryReady => \A h \in Hashes : QuotaGarbage(h) => h \in content_quota_gc

\* The accounting is exact, no check on it fails and no garbage leaves the queue, at
\* every step of a rebuild that runs beside all other transactions.
AccountingSound ==
  AccountingTypeOK /\ AccountingExact /\ MaintenanceNeverFails /\ GarbageStaysNominated

\* The rebuild ends and stays ended, whatever is delivered meanwhile.
RebuildCompletes == <>[](stage = Ready)

\* Quota garbage within the worker's allowance is reclaimed, unless a new event
\* comes to use it, even if redeliveries keep nominating other hashes.
GarbageReclaimed ==
  \A h \in Hashes : ContentLen[h] =< GcBytes => []<>(~ QuotaGarbage(h))

\* The maintenance worker gets both done.
MaintenanceEnds == RebuildCompletes /\ GarbageReclaimed
=============================================================================
