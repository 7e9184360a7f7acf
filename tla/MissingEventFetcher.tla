------------------------ MODULE MissingEventFetcher ------------------------
(***************************************************************************)
(* The task that asks peers for parents the database knows only by name    *)
(* (rostra-client/src/task/missing_event_fetcher.rs), woken through a       *)
(* DedupChan of authors, next to the transactions that insert events.      *)
(*                                                                         *)
(* The events of an author are numbered such that parents come first.  The *)
(* deadline counts down in units of the initial retry delay.               *)
(***************************************************************************)
EXTENDS DedupChan

CONSTANTS
  Run,        \* the handle of the task's receiver
  Event,      \* events of one author, numbered
  PageSize,   \* RECONCILE_PAGE_SIZE
  MaxDelay    \* MAX_RETRY_DELAY, in units of INITIAL_RETRY_DELAY

\* Items are authors, in the order of RostraId.  Nothing else receives, and the
\* database keeps the only channel, with number 0.
ASSUME AuthorAssumption == Item \subseteq Nat \ {0} /\ Event \subseteq Nat /\ IsFiniteSet(Item)
ASSUME RunAssumption == Receiver = {Run} /\ MaxChannels = 1 /\ Capacities # {}
ASSUME RetryAssumption == PageSize \in Nat \ {0} /\ MaxDelay \in Nat \ {0}

VARIABLES
  events,      \* of each author and event: "unknown", "missing" or "present"
  hooks,       \* committed transactions of an author still to notify
  at,          \* where the task is
  trigger,     \* what it woke up for
  high_water,  \* locals of reconcile_missing_events; 0 is None
  cursor,
  page,
  author,      \* whose missing events are being fetched
  wanted,      \* events_missing of the author, when it was read
  had_missing_events,
  delay,       \* MissingRetryPolicy
  deadline     \* time left until the deadline, or NoDeadline

dbVars == <<events, hooks>>
scanVars == <<high_water, cursor, page>>
fetchVars == <<author, wanted, had_missing_events>>
retryVars == <<delay, deadline>>
taskVars == <<at, trigger, scanVars, fetchVars, retryVars>>
missingVars == <<chanVars, dbVars, taskVars>>

NoDeadline == -1
InitialDelay == 1

TaskStates == {"reconcile", "page", "authors", "fetch", "peers", "select", "notified", "stopped"}
Triggers == {"Startup", "Lag", "RetryDeadline", "Notification"}

\* events_missing
Missing(a) == {e \in Event : events[a][e] = "missing"}

-----------------------------------------------------------------------------
(* The database *)

\* A transaction inserts event e of author a with the parents P: those that are
\* not there are recorded as missing, and the hook will notify.
Insert(a, e, P) ==
  LET missing_parents == {p \in P : events[a][p] # "present"} IN
  /\ events[a][e] # "present"
  /\ \A p \in P : p < e
  /\ Cardinality(P) =< 2
  /\ events' = [events EXCEPT ![a] = [x \in Event |->
       IF x = e THEN "present"
       ELSE IF x \in missing_parents THEN "missing" ELSE @[x]]]
  /\ hooks' = [hooks EXCEPT ![a] = IF missing_parents = {} THEN @ ELSE @ + 1]

\* Another task delivers an event.
process_event(a, e, P) ==
  /\ Insert(a, e, P)
  /\ UNCHANGED <<chanVars, taskVars>>

\* A commit hook runs.
notify(a) ==
  /\ hooks[a] > 0
  /\ hooks' = [hooks EXCEPT ![a] = @ - 1]
  /\ send(a)
  /\ UNCHANGED <<events, taskVars>>

-----------------------------------------------------------------------------
(* MissingRetryPolicy *)

\* reconcile() = Empty
ReconciledEmpty ==
  /\ delay' = InitialDelay
  /\ deadline' = NoDeadline

\* MUTANT: lag moves a deadline that is set.
ReconciledWork_LagPostpones ==
  LET retried == trigger = "RetryDeadline"
      doubled == IF 2 * delay < MaxDelay THEN 2 * delay ELSE MaxDelay
  IN /\ delay' = IF retried THEN doubled ELSE delay
     /\ deadline' = delay'

\* reconcile() = WorkObserved
ReconciledWork ==
  LET retried == trigger = "RetryDeadline"
      doubled == IF 2 * delay < MaxDelay THEN 2 * delay ELSE MaxDelay
  IN /\ delay' = IF retried THEN doubled ELSE delay
     /\ deadline' = IF retried \/ deadline = NoDeadline THEN delay' ELSE deadline

\* MUTANT: work that a notification brought is not retried.
observe_notification_work_Never == UNCHANGED retryVars

observe_notification_work ==
  /\ delay' = IF deadline = NoDeadline THEN InitialDelay ELSE delay
  /\ deadline' = IF deadline = NoDeadline THEN InitialDelay ELSE deadline

\* Time passes.
tick ==
  /\ deadline > 0
  /\ deadline' = deadline - 1
  /\ UNCHANGED <<chanVars, dbVars, at, trigger, scanVars, fetchVars, delay>>

-----------------------------------------------------------------------------
(* MissingEventFetcher::run *)

\* wait_for_retry_or_notification
wait ==
  /\ at = "select"
  /\ recv(Run) \/ sleep(Run)
  /\ UNCHANGED <<dbVars, taskVars>>

wake_notification(a) ==
  /\ at = "select"
  /\ take(Run, a)
  /\ at' = "notified"
  /\ trigger' = "Notification"
  /\ author' = a
  /\ UNCHANGED <<dbVars, scanVars, wanted, had_missing_events, retryVars>>

wake_lagging ==
  /\ at = "select"
  /\ lagging(Run)
  /\ at' = "reconcile"
  /\ trigger' = "Lag"
  /\ UNCHANGED <<dbVars, scanVars, fetchVars, retryVars>>

\* sleep_until(deadline) returns first; the recv() is dropped.
wake_retry ==
  /\ at = "select"
  /\ deadline = 0
  /\ cancel(Run)
  /\ at' = "reconcile"
  /\ trigger' = "RetryDeadline"
  /\ UNCHANGED <<dbVars, scanVars, fetchVars, retryVars>>

\* Notification: whether there is work is read before fetching.
read_had_missing ==
  /\ at = "notified"
  /\ had_missing_events' = (Missing(author) # {})
  /\ at' = "fetch"
  /\ UNCHANGED <<chanVars, dbVars, trigger, scanVars, author, wanted, retryVars>>

-----------------------------------------------------------------------------
(* reconcile_missing_events *)

Authors == {a \in Item : Missing(a) # {}}

\* get_last_id_with_missing_events
read_high_water ==
  /\ at = "reconcile"
  /\ cursor' = 0
  /\ \/ /\ Authors = {}
        /\ ReconciledEmpty
        /\ at' = "select"
        /\ UNCHANGED high_water
     \/ \E a \in Authors :
        /\ \A b \in Authors : b =< a
        /\ high_water' = a
        /\ at' = "page"
        /\ UNCHANGED retryVars
  /\ UNCHANGED <<chanVars, dbVars, trigger, page, fetchVars>>

\* The locals of reconcile_missing_events go out of scope.
EndScan == high_water' = 0 /\ cursor' = 0

\* The part of a page up to the high water mark.
UpToMark(authors) == {a \in authors : a =< high_water}

\* get_ids_with_missing_events, up to the high water mark
read_page ==
  /\ at = "page"
  /\ LET rest == {a \in Authors : cursor < a}
         first == {a \in rest : Cardinality({b \in rest : b < a}) < PageSize}
         authors == UpToMark(first)
     IN \/ /\ authors # {}
           /\ page' = authors
           /\ at' = "authors"
           /\ UNCHANGED <<high_water, cursor, retryVars>>
        \/ /\ authors = {}
           /\ ReconciledWork
           /\ EndScan
           /\ at' = "select"
           /\ UNCHANGED page
  /\ UNCHANGED <<chanVars, dbVars, trigger, fetchVars>>

\* The next author of the page; the last one becomes the cursor.
next_author ==
  /\ at = "authors" /\ page # {}
  /\ \E a \in page :
       /\ \A b \in page : a =< b
       /\ author' = a
       /\ page' = page \ {a}
       /\ cursor' = a
  /\ at' = "fetch"
  /\ UNCHANGED <<chanVars, dbVars, trigger, high_water, wanted, had_missing_events, retryVars>>

\* MUTANT: the scan ends with the page.
LastPage_Always == TRUE

LastPage == cursor = high_water

page_done ==
  /\ at = "authors" /\ page = {}
  /\ \/ /\ LastPage
        /\ ReconciledWork
        /\ EndScan
        /\ at' = "select"
     \/ /\ ~ LastPage
        /\ at' = "page"
        /\ UNCHANGED <<high_water, cursor, retryVars>>
  /\ UNCHANGED <<chanVars, dbVars, trigger, page, fetchVars>>

-----------------------------------------------------------------------------
(* fetch_missing_events *)

\* Back to the caller: the scan, or the notification.
FetchDone ==
  /\ wanted' = {}
  /\ author' = 0
  /\ had_missing_events' = FALSE
  /\ at' = IF trigger = "Notification" THEN "select" ELSE "authors"
  /\ IF had_missing_events THEN observe_notification_work ELSE UNCHANGED retryVars

\* get_missing_events_for_id
read_missing ==
  /\ at = "fetch"
  /\ \/ /\ Missing(author) = {}
        /\ FetchDone
     \/ /\ Missing(author) # {}
        /\ wanted' = Missing(author)
        /\ at' = "peers"
        /\ UNCHANGED <<author, had_missing_events, retryVars>>
  /\ UNCHANGED <<chanVars, dbVars, trigger, scanVars>>

\* A peer has an event that is still wanted: it is verified and inserted.
get_event(e, P) ==
  /\ at = "peers"
  /\ e \in wanted
  /\ Insert(author, e, P)
  /\ UNCHANGED <<chanVars, taskVars>>

\* Every peer was asked, or none could be reached.
peers_asked ==
  /\ at = "peers"
  /\ FetchDone
  /\ UNCHANGED <<chanVars, dbVars, trigger, scanVars>>

\* Storing an event failed: the task ends, and its receiver with it.
ingestion_failed ==
  /\ at = "peers"
  /\ drop(Run)
  /\ at' = "stopped"
  /\ UNCHANGED <<dbVars, trigger, scanVars, fetchVars, retryVars>>

-----------------------------------------------------------------------------

\* The task is subscribed and reconciles before it waits.  The process starts
\* on a database with any missing events, whose children may be other events.
MissingInit ==
  /\ \E c \in Capacities :
       channels = [k \in Key |-> [set |-> {}, queue |-> << >>, lagged |-> FALSE, capacity |-> c]]
  /\ rx = [r \in Receiver |-> [key |-> 0, at |-> "out", changed |-> FALSE]]
  /\ open = TRUE
  /\ owed = [k \in Key |-> {}]
  /\ events \in [Item -> [Event -> {"unknown", "missing", "present"}]]
  /\ hooks = [a \in Item |-> 0]
  /\ at = "reconcile"
  /\ trigger = "Startup"
  /\ high_water = 0 /\ cursor = 0 /\ page = {}
  /\ author = 0 /\ wanted = {} /\ had_missing_events = FALSE
  /\ delay = InitialDelay
  /\ deadline = NoDeadline

Writers == \E a \in Item, e \in Event, P \in SUBSET Event : process_event(a, e, P)

Task ==
  \/ wait \/ wake_lagging \/ wake_retry \/ read_had_missing \/ read_high_water
  \/ read_page \/ next_author \/ page_done \/ read_missing \/ peers_asked
  \/ \E a \in Item : wake_notification(a)

Peers ==
  \/ \E e \in Event, P \in SUBSET Event : get_event(e, P)
  \/ ingestion_failed

MissingNext ==
  \/ Writers \/ Task \/ Peers \/ tick
  \/ \E a \in Item : notify(a)

\* Hooks run, the runtime polls the task when it is ready, requests to peers
\* end, and time passes.
MissingFairness ==
  /\ WF_missingVars(\E a \in Item : notify(a))
  /\ WF_missingVars(Task)
  /\ WF_missingVars(tick)

MissingSpec == MissingInit /\ [][MissingNext]_missingVars /\ MissingFairness

-----------------------------------------------------------------------------
(* Properties *)

\* Delays stay between INITIAL_RETRY_DELAY and MAX_RETRY_DELAY, and every other
\* variable has its type.
MissingTypeOK ==
  /\ ChanTypeOK
  /\ events \in [Item -> [Event -> {"unknown", "missing", "present"}]]
  /\ hooks \in [Item -> Nat]
  /\ at \in TaskStates /\ trigger \in Triggers
  /\ high_water \in Item \cup {0} /\ cursor \in Item \cup {0} /\ page \subseteq Item
  /\ author \in Item \cup {0} /\ wanted \subseteq Event /\ had_missing_events \in BOOLEAN
  /\ delay \in InitialDelay .. MaxDelay
  /\ deadline \in NoDeadline .. MaxDelay

\* Something will make the task look at a's missing events: a notification, a
\* lag report, the retry deadline, or what it is doing now.
Covered(a) ==
  \/ hooks[a] > 0
  \/ a \in channels[0].set \/ channels[0].lagged
  \/ deadline # NoDeadline
  \/ at \in {"reconcile", "page", "authors"}
  \/ (at \in {"fetch", "peers"} /\ trigger # "Notification")
  \/ (at = "notified" /\ author = a)
  \/ (at \in {"fetch", "peers"} /\ had_missing_events)

\* No missing event is abandoned, whatever notifications are merged or lost and
\* however the table changes under a scan, unless the task stopped on a
\* database failure.
NoneAbandoned ==
  \A a \in Item : Missing(a) # {} /\ at # "stopped" => Covered(a)

\* Notifications, lag and fetches never put the retry off: a deadline that is
\* set only comes closer, until it has passed and the retry itself sets the next.
RetryNotPostponed ==
  [][deadline # NoDeadline /\ deadline' # NoDeadline /\ deadline < deadline'
       => deadline = 0 /\ trigger = "RetryDeadline"]_missingVars

\* Work that turns up when nothing was missing is retried after the initial
\* delay: the back-off of earlier work does not slow it down.
FreshDeadline ==
  [][deadline = NoDeadline /\ deadline' # NoDeadline => deadline' = InitialDelay]_missingVars

\* A scan never comes back to an author: new authors in front of it do not keep
\* it from ending.
ScanAdvances ==
  [][at = "authors" /\ at' = "fetch" => cursor < cursor' /\ cursor' =< high_water]_missingVars

\* Neither retries nor scans are put off by what goes on meanwhile.
ScheduleKept == RetryNotPostponed /\ FreshDeadline /\ ScanAdvances

\* Peers are asked for the missing events of an author again and again for as
\* long as there are any, unless the task stops on a database failure.
RetriedForever ==
  \A a \in Item :
    []<>(Missing(a) = {} \/ (at = "peers" /\ author = a) \/ at = "stopped")
=============================================================================
