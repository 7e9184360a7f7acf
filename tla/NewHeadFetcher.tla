--------------------------- MODULE NewHeadFetcher ---------------------------
(***************************************************************************)
(* The task that downloads the events of new heads of the web of trust     *)
(* (rostra-client/src/task/new_head_fetcher.rs): its main loop, its bounded *)
(* work queue and its workers, next to the transactions that write heads   *)
(* and publish webs of trust.                                              *)
(*                                                                         *)
(* heads[a] counts the changes of a's durable head set: a worker that      *)
(* reads n sees the heads of the first n changes.  Locks, awaits and       *)
(* channel operations separate the steps of the tasks.                     *)
(***************************************************************************)
EXTENDS Identities, Integers, Sequences, FiniteSets

CONSTANTS
  Workers,       \* NUM_WORKERS tasks
  MaxPending,    \* MAX_PENDING_AUTHORS: bound of the queue, and size of a page
  Capacity,      \* what the broadcast channel of new heads retains
  MaxHeads,      \* bound: changes of one author's heads
  MaxWotChanges  \* bound: publications of the web of trust

ASSUME IdsAssumption == Ids \subseteq Nat \ {0}
ASSUME FiniteIdsAssumption == IsFiniteSet(Ids)
ASSUME WorkersAssumption == Workers # {}
ASSUME QueueAssumption == MaxPending \in Nat \ {0} /\ Capacity \in Nat \ {0}
ASSUME FetcherBoundAssumption == MaxHeads \in Nat /\ MaxWotChanges \in Nat

VARIABLES
  heads,           \* events_heads: changes of each author's head set
  hook,            \* author of a committed head still to be broadcast, or 0
  inbox,           \* new_heads_rx
  lagged,          \* whether the receiver lost messages
  wot,             \* value of the web of trust channel, without oneself
  wot_changed,     \* whether the main task has yet to see it
  wot_changes,     \* publications so far
  main,            \* where the main task is
  previous_wot,
  admitted,        \* newly admitted authors still to be looked at
  reconcile_cursor,  \* 0 is None
  reconciliation_pending,
  reconcile_again,
  page,            \* what is left of the page of authors being reconciled
  reached_end,     \* whether it is the last page
  page_wot,        \* snapshot of the web of trust taken for the page
  unsent,          \* the main task has queued an author and not yet notified
  pending,         \* WorkQueueInner
  in_progress,
  space_available, \* permit of the Notify
  worker,          \* where each worker is
  lease,           \* its author, or 0
  observed,        \* the head change it has read
  notified,        \* whether its receiver has an unseen notification
  attempted        \* history: latest head change a worker tried to download

dbVars == <<heads, hook, wot, wot_changes>>
channelVars == <<inbox, lagged, wot_changed>>
scanVars == <<reconcile_cursor, reconciliation_pending, reconcile_again,
              page, reached_end, page_wot>>
mainVars == <<main, previous_wot, admitted, scanVars, unsent>>
workerVars == <<worker, lease, observed, attempted>>
fetcherVars == <<dbVars, channelVars, mainVars, pending, in_progress,
                 space_available, workerVars, notified>>

MainStates == {"start", "select", "admit", "read", "snapshot", "enqueue", "stopped"}
WorkerStates == {"take", "wait", "lookup", "fetch", "drop", "notify", "failed", "aborted"}

\* WotData::contains
InWot(w, a) == a = SelfId \/ a \in w

-----------------------------------------------------------------------------
(* The database's writers *)

\* A transaction inserts an event that no known event names as a parent.
write_head(a) ==
  /\ hook = 0
  /\ heads[a] < MaxHeads
  /\ heads' = [heads EXCEPT ![a] = @ + 1]
  /\ hook' = a
  /\ UNCHANGED <<wot, wot_changes, channelVars, mainVars, pending, in_progress,
                 space_available, workerVars, notified>>

\* Its hook broadcasts the head; a full channel forgets the oldest one.
broadcast ==
  /\ hook # 0
  /\ hook' = 0
  /\ inbox' = Append(IF Len(inbox) < Capacity THEN inbox ELSE Tail(inbox), hook)
  /\ lagged' = (lagged \/ Len(inbox) >= Capacity)
  /\ UNCHANGED <<heads, wot, wot_changes, wot_changed, mainVars, pending,
                 in_progress, space_available, workerVars, notified>>

\* A follow or unfollow publishes a web of trust, perhaps the same as before.
publish_wot(w) ==
  /\ wot_changes < MaxWotChanges
  /\ wot' = w
  /\ wot_changed' = TRUE
  /\ wot_changes' = wot_changes + 1
  /\ UNCHANGED <<heads, hook, inbox, lagged, mainVars, pending, in_progress,
                 space_available, workerVars, notified>>

-----------------------------------------------------------------------------
(* WorkQueue::try_enqueue *)

\* The queue is full.  An author that is pending already is not refused.
Refused(a) == a \notin pending /\ MaxPending =< Cardinality(pending)

\* Under the lock; the notification is sent after unlocking.
Enqueue(a) ==
  /\ ~ Refused(a)
  /\ pending' = pending \cup {a}
  /\ unsent' = (a \notin pending)

NotEnqueued == UNCHANGED <<pending, unsent>>

\* WorkQueue::notify: every worker's receiver sees a new version.
notify ==
  /\ unsent
  /\ unsent' = FALSE
  /\ notified' = [w \in Workers |-> TRUE]
  /\ UNCHANGED <<dbVars, channelVars, main, previous_wot, admitted, scanVars,
                 pending, in_progress, space_available, workerVars>>

-----------------------------------------------------------------------------
(* The main task *)

\* Subscribed to the channels, it takes the baseline and scans durable heads.
start ==
  /\ main = "start"
  /\ main' = "read"
  /\ previous_wot' = wot
  /\ UNCHANGED <<dbVars, channelVars, admitted, scanVars, unsent, pending,
                 in_progress, space_available, workerVars, notified>>

\* Start a scan of durable heads, unless one is waiting for space: then scan
\* again when it is done.
Reconcile ==
  /\ reconcile_again' = (reconcile_again \/ reconciliation_pending)
  /\ main' = IF reconciliation_pending THEN "select" ELSE "read"
  /\ reconcile_cursor' = IF reconciliation_pending THEN reconcile_cursor ELSE 0

\* recv() = Err(Lagged)
recv_lagged ==
  /\ main = "select" /\ ~ unsent
  /\ lagged
  /\ lagged' = FALSE
  /\ Reconcile
  /\ UNCHANGED <<dbVars, inbox, wot_changed, previous_wot, admitted,
                 reconciliation_pending, page, reached_end, page_wot, unsent,
                 pending, in_progress, space_available, workerVars, notified>>

\* MUTANT: a head that finds the queue full is dropped.
QueueFull_Drop == UNCHANGED <<reconcile_again, reconcile_cursor, reconciliation_pending>>

\* A head found the queue full: durable heads are scanned when there is space.
QueueFull ==
  /\ reconcile_again' = (reconcile_again \/ reconciliation_pending)
  /\ reconcile_cursor' = IF reconciliation_pending THEN reconcile_cursor ELSE 0
  /\ reconciliation_pending' = TRUE

\* recv() = Ok((author, head))
recv ==
  /\ main = "select" /\ ~ unsent
  /\ ~ lagged /\ inbox # << >>
  /\ inbox' = Tail(inbox)
  /\ LET a == Head(inbox) IN
     \/ /\ ~ InWot(wot, a)
        /\ NotEnqueued
        /\ UNCHANGED scanVars
     \/ /\ InWot(wot, a)
        /\ Enqueue(a)
        /\ UNCHANGED scanVars
     \/ /\ InWot(wot, a) /\ Refused(a)
        /\ QueueFull
        /\ NotEnqueued
        /\ UNCHANGED <<page, reached_end, page_wot>>
  /\ UNCHANGED <<dbVars, lagged, wot_changed, main, previous_wot, admitted,
                 in_progress, space_available, workerVars, notified>>

\* wot.changed(): first the newly admitted authors, then a scan.
changed ==
  /\ main = "select" /\ ~ unsent
  /\ wot_changed
  /\ wot_changed' = FALSE
  /\ admitted' = {a \in wot : ~ InWot(previous_wot, a)}
  /\ previous_wot' = wot
  /\ main' = "admit"
  /\ UNCHANGED <<dbVars, inbox, lagged, scanVars, unsent, pending, in_progress,
                 space_available, workerVars, notified>>

\* One newly admitted author with a head is queued; a full queue ends the loop.
admit(a) ==
  /\ main = "admit" /\ ~ unsent
  /\ a \in admitted
  /\ \/ /\ heads[a] = 0
        /\ NotEnqueued
        /\ admitted' = admitted \ {a}
     \/ /\ heads[a] # 0
        /\ Enqueue(a)
        /\ admitted' = admitted \ {a}
     \/ /\ heads[a] # 0 /\ Refused(a)
        /\ NotEnqueued
        /\ admitted' = {}
  /\ UNCHANGED <<dbVars, channelVars, main, previous_wot, scanVars, in_progress,
                 space_available, workerVars, notified>>

admitted_all ==
  /\ main = "admit" /\ ~ unsent
  /\ admitted = {}
  /\ Reconcile
  /\ UNCHANGED <<dbVars, channelVars, previous_wot, admitted,
                 reconciliation_pending, page, reached_end, page_wot, unsent,
                 pending, in_progress, space_available, workerVars, notified>>

\* space_available.notified(), if reconciliation_pending: the scan goes on.
notified_space ==
  /\ main = "select" /\ ~ unsent
  /\ reconciliation_pending
  /\ space_available
  /\ space_available' = FALSE
  /\ main' = "read"
  /\ UNCHANGED <<dbVars, channelVars, previous_wot, admitted, scanVars, unsent,
                 pending, in_progress, workerVars, notified>>

\* Authors with heads after the cursor.
Candidates == {a \in Ids : heads[a] # 0 /\ reconcile_cursor < a}

\* get_ids_with_heads(cursor, MAX_PENDING_AUTHORS)
read_page ==
  /\ main = "read"
  /\ page' = {a \in Candidates : Cardinality({b \in Candidates : b < a}) < MaxPending}
  /\ reached_end' = (Cardinality(Candidates) < MaxPending)
  /\ main' = "snapshot"
  /\ UNCHANGED <<dbVars, channelVars, previous_wot, admitted, reconcile_cursor,
                 reconciliation_pending, reconcile_again, page_wot, unsent,
                 pending, in_progress, space_available, workerVars, notified>>

snapshot ==
  /\ main = "snapshot"
  /\ page_wot' = wot
  /\ main' = "enqueue"
  /\ UNCHANGED <<dbVars, channelVars, previous_wot, admitted, reconcile_cursor,
                 reconciliation_pending, reconcile_again, page, reached_end, unsent,
                 pending, in_progress, space_available, workerVars, notified>>

\* The locals of reconcile_current_heads go out of scope.
EndPage == page' = {} /\ reached_end' = FALSE /\ page_wot' = {}

\* enqueue_reconciled_authors: the next author of the page.  Refused, it stays
\* in front of the cursor and the scan waits for space.
enqueue_reconciled(a) ==
  /\ main = "enqueue" /\ ~ unsent
  /\ a \in page /\ \A b \in page : a =< b
  /\ \/ /\ ~ InWot(page_wot, a)
        /\ NotEnqueued
        /\ page' = page \ {a}
        /\ reconcile_cursor' = a
        /\ UNCHANGED <<reconciliation_pending, main, reached_end, page_wot>>
     \/ /\ InWot(page_wot, a)
        /\ Enqueue(a)
        /\ page' = page \ {a}
        /\ reconcile_cursor' = a
        /\ UNCHANGED <<reconciliation_pending, main, reached_end, page_wot>>
     \/ /\ InWot(page_wot, a) /\ Refused(a)
        /\ NotEnqueued
        /\ EndPage
        /\ reconciliation_pending' = TRUE
        /\ main' = "select"
        /\ UNCHANGED reconcile_cursor
  /\ UNCHANGED <<dbVars, channelVars, previous_wot, admitted, reconcile_again,
                 in_progress, space_available, workerVars, notified>>

\* The page is done: the next page, another scan if one was asked for while
\* this one waited (only then is reconcile_again set), or the end.
page_done ==
  /\ main = "enqueue" /\ ~ unsent
  /\ page = {}
  /\ \/ /\ ~ reached_end
        /\ main' = "read"
        /\ UNCHANGED <<reconcile_cursor, reconcile_again, reconciliation_pending>>
     \/ /\ reached_end /\ reconcile_again
        /\ main' = "read"
        /\ reconcile_again' = FALSE
        /\ reconciliation_pending' = FALSE
        /\ reconcile_cursor' = 0
     \/ /\ reached_end /\ ~ reconcile_again
        /\ main' = "select"
        /\ reconciliation_pending' = FALSE
        /\ reconcile_cursor' = 0
        /\ UNCHANGED reconcile_again
  /\ EndPage
  /\ UNCHANGED <<dbVars, channelVars, previous_wot, admitted, unsent, pending,
                 in_progress, space_available, workerVars, notified>>

\* workers.join_next(): a failed worker stops the task, which aborts the others.
join_next ==
  /\ main = "select" /\ ~ unsent
  /\ \E w \in Workers : worker[w] = "failed"
  /\ main' = "stopped"
  /\ worker' = [w \in Workers |-> "aborted"]
  /\ lease' = [w \in Workers |-> 0]
  /\ observed' = [w \in Workers |-> 0]
  /\ in_progress' = {}
  /\ UNCHANGED <<dbVars, channelVars, previous_wot, admitted, scanVars, unsent,
                 pending, space_available, attempted, notified>>

-----------------------------------------------------------------------------
(* The workers *)

\* MUTANT: an author another worker is busy with is taken.
Eligible_Busy == pending

\* Pending authors that no worker is busy with.
Eligible == pending \ in_progress

take_work(w) ==
  /\ worker[w] = "take"
  /\ \/ /\ Eligible = {}
        /\ worker' = [worker EXCEPT ![w] = "wait"]
        /\ UNCHANGED <<pending, in_progress, lease>>
     \/ \E a \in Eligible :
          /\ \A b \in Eligible : a =< b
          /\ worker' = [worker EXCEPT ![w] = "lookup"]
          /\ lease' = [lease EXCEPT ![w] = a]
          /\ pending' = pending \ {a}
          /\ in_progress' = in_progress \cup {a}
  /\ UNCHANGED <<dbVars, channelVars, mainVars, space_available, observed,
                 attempted, notified>>

\* notify_rx.changed()
wait(w) ==
  /\ worker[w] = "wait"
  /\ notified[w]
  /\ notified' = [notified EXCEPT ![w] = FALSE]
  /\ worker' = [worker EXCEPT ![w] = "take"]
  /\ UNCHANGED <<dbVars, channelVars, mainVars, pending, in_progress,
                 space_available, lease, observed, attempted>>

get_heads(w) ==
  /\ worker[w] = "lookup"
  /\ worker' = [worker EXCEPT ![w] = "fetch"]
  /\ observed' = [observed EXCEPT ![w] = heads[lease[w]]]
  /\ UNCHANGED <<dbVars, channelVars, mainVars, pending, in_progress,
                 space_available, lease, attempted, notified>>

\* Every observed head was asked for, from every peer that may have its events;
\* whether one had them, and a payload put off by admission, make no difference.
fetch_events_for_heads(w) ==
  /\ worker[w] = "fetch"
  /\ worker' = [worker EXCEPT ![w] = "drop"]
  /\ attempted' = [attempted EXCEPT ![lease[w]] =
       IF @ < observed[w] THEN observed[w] ELSE @]
  /\ UNCHANGED <<dbVars, channelVars, mainVars, pending, in_progress,
                 space_available, lease, observed, notified>>

\* WorkLease::drop, complete_work: under the lock.
complete_work(w) ==
  /\ worker[w] = "drop"
  /\ worker' = [worker EXCEPT ![w] = "notify"]
  /\ in_progress' = in_progress \ {lease[w]}
  /\ lease' = [lease EXCEPT ![w] = 0]
  /\ observed' = [observed EXCEPT ![w] = 0]
  /\ UNCHANGED <<dbVars, channelVars, mainVars, pending, space_available,
                 attempted, notified>>

\* MUTANT: only the other workers are told; a scan that waits for space is not.
Wakeup_WorkersOnly ==
  /\ notified' = [w \in Workers |-> TRUE]
  /\ UNCHANGED space_available

\* The worker's lease ends, which may make a skipped author eligible.
Wakeup ==
  /\ notified' = [w \in Workers |-> TRUE]
  /\ space_available' = TRUE

complete_notify(w) ==
  /\ worker[w] = "notify"
  /\ worker' = [worker EXCEPT ![w] = "take"]
  /\ Wakeup
  /\ UNCHANGED <<dbVars, channelVars, mainVars, pending, in_progress, lease,
                 observed, attempted>>

\* Ingestion failed: the lease is dropped on the way out.
fail(w) ==
  /\ worker[w] = "fetch"
  /\ worker' = [worker EXCEPT ![w] = "failed"]
  /\ in_progress' = in_progress \ {lease[w]}
  /\ lease' = [lease EXCEPT ![w] = 0]
  /\ observed' = [observed EXCEPT ![w] = 0]
  /\ Wakeup
  /\ UNCHANGED <<dbVars, channelVars, mainVars, pending, attempted>>

-----------------------------------------------------------------------------

\* The process starts on a database with any durable heads and web of trust.
FetcherInit ==
  /\ heads \in [Ids -> 0 .. MaxHeads]
  /\ hook = 0
  /\ inbox = << >>
  /\ lagged = FALSE
  /\ wot \in SUBSET (Ids \ {SelfId})
  /\ wot_changed = FALSE
  /\ wot_changes = 0
  /\ main = "start"
  /\ previous_wot = {}
  /\ admitted = {}
  /\ reconcile_cursor = 0
  /\ reconciliation_pending = FALSE
  /\ reconcile_again = FALSE
  /\ page = {}
  /\ reached_end = FALSE
  /\ page_wot = {}
  /\ unsent = FALSE
  /\ pending = {}
  /\ in_progress = {}
  /\ space_available = FALSE
  /\ worker = [w \in Workers |-> "take"]
  /\ lease = [w \in Workers |-> 0]
  /\ observed = [w \in Workers |-> 0]
  /\ notified = [w \in Workers |-> FALSE]
  /\ attempted = [a \in Ids |-> 0]

Write ==
  \/ \E a \in Ids : write_head(a)
  \/ \E w \in SUBSET (Ids \ {SelfId}) : publish_wot(w)

Main ==
  \/ start \/ notify \/ recv_lagged \/ recv \/ changed \/ admitted_all
  \/ notified_space \/ read_page \/ snapshot \/ page_done \/ join_next
  \/ \E a \in Ids : admit(a) \/ enqueue_reconciled(a)

Work(w) ==
  \/ take_work(w) \/ wait(w) \/ get_heads(w) \/ fetch_events_for_heads(w)
  \/ complete_work(w) \/ complete_notify(w)

FetcherNext ==
  \/ Write \/ broadcast \/ Main
  \/ \E w \in Workers : Work(w) \/ fail(w)

\* The runtime keeps polling ready tasks, and a download ends.
FetcherFairness ==
  /\ WF_fetcherVars(broadcast)
  /\ WF_fetcherVars(Main)
  /\ \A w \in Workers : WF_fetcherVars(Work(w))

FetcherSpec == FetcherInit /\ [][FetcherNext]_fetcherVars /\ FetcherFairness

-----------------------------------------------------------------------------
(* Properties *)

\* The queue never holds more than MAX_PENDING_AUTHORS authors, and every other
\* variable has its type.
FetcherTypeOK ==
  /\ heads \in [Ids -> 0 .. MaxHeads]
  /\ hook \in Ids \cup {0}
  /\ inbox \in Seq(Ids) /\ Len(inbox) =< Capacity
  /\ lagged \in BOOLEAN
  /\ wot \subseteq Ids /\ previous_wot \subseteq Ids /\ page_wot \subseteq Ids
  /\ admitted \subseteq Ids
  /\ wot_changed \in BOOLEAN
  /\ wot_changes \in 0 .. MaxWotChanges
  /\ main \in MainStates
  /\ reconcile_cursor \in Ids \cup {0}
  /\ reconciliation_pending \in BOOLEAN /\ reconcile_again \in BOOLEAN
  /\ page \subseteq Ids
  /\ reached_end \in BOOLEAN /\ unsent \in BOOLEAN /\ space_available \in BOOLEAN
  /\ pending \subseteq Ids /\ Cardinality(pending) =< MaxPending
  /\ in_progress \subseteq Ids
  /\ worker \in [Workers -> WorkerStates]
  /\ lease \in [Workers -> Ids \cup {0}]
  /\ observed \in [Workers -> 0 .. MaxHeads]
  /\ notified \in [Workers -> BOOLEAN]
  /\ attempted \in [Ids -> 0 .. MaxHeads]

\* No two workers download the events of one author at a time, and an author is
\* in progress exactly as long as a worker has it (WorkQueue, WorkLease).
OneWorkerPerAuthor ==
  /\ \A v, w \in Workers : lease[v] = lease[w] /\ lease[v] # 0 => v = w
  /\ in_progress = {lease[w] : w \in Workers} \ {0}

\* While an author can be taken, some worker is awake or about to be woken: the
\* workers never all sleep over work (try_enqueue, complete_work).
NoLostWakeup ==
  \/ Eligible = {} \/ unsent \/ main = "stopped"
  \/ \E w \in Workers : worker[w] # "wait" \/ notified[w]

\* Workers neither share an author nor sleep over one.
WorkQueueSound == OneWorkerPerAuthor /\ NoLostWakeup

\* The channels still have to tell the main task something about a.
Announced(a) == hook = a \/ lagged \/ wot_changed \/ \E i \in DOMAIN inbox : inbox[i] = a

\* A worker has a, or will have it, and will see its latest head.
Queued(a) ==
  \/ a \in pending
  \/ \E w \in Workers :
       /\ lease[w] = a
       /\ worker[w] = "lookup" \/ (worker[w] = "fetch" /\ observed[w] = heads[a])

\* A scan that runs, or that waits for space, will come to a.
WillBeScanned(a) ==
  \/ main \in {"start", "admit"} \/ reconcile_again
  \/ main = "select" /\ reconciliation_pending /\ reconcile_cursor < a
  \/ main = "read" /\ reconcile_cursor < a
  \/ /\ main \in {"snapshot", "enqueue"}
     /\ a \in page \/ (~ reached_end /\ reconcile_cursor < a /\ \A b \in page : b < a)
     /\ main = "enqueue" => InWot(page_wot, a)

Stopping == main = "stopped" \/ \E w \in Workers : worker[w] = "failed"

\* However messages are lost, the queue fills up and the web of trust changes,
\* a head of the web of trust that no worker tried to download is never
\* forgotten: it is announced, queued or in front of the reconciliation scan,
\* unless a worker failed, which stops the task.
NothingForgotten ==
  \A a \in Ids :
    InWot(wot, a) /\ attempted[a] < heads[a]
      => Announced(a) \/ Queued(a) \/ WillBeScanned(a) \/ Stopping

\* The download catches up with the heads of every author in the web of trust, unless
\* the task stops on a database failure.  Writers are bounded by MaxHeads, so that every
\* head is tried in the end, whichever notifications were lost.
HeadsAttempted ==
  \A a \in Ids : []<>(heads[a] =< attempted[a] \/ ~ InWot(wot, a) \/ main = "stopped")
=============================================================================
