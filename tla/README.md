# A TLA+ development of rostra

rostra is a peer-to-peer social network. Every identity signs its own events;
each node keeps a database of the events it has seen, fetches what it lacks
from peers, and derives timelines, follows, scores and messages from it. There
is no server to order anything: events, their contents, deletions, follows and
votes arrive in any order, more than once, or never. What makes the program
correct is that its tables depend on *what* has arrived and not on *how*, that
nothing it has to fetch is forgotten, and that the bookkeeping of shared bytes
is exact while several tasks change it.

A web interface shows all this; its page script is the other half of the
program. It has no server-side state to rely on either: a page is patched by
answers, pushed messages, timers and the reader, in whatever order they come.

This directory models that core and the page script in TLA+, checks it with TLC
and proves the central results with TLAPS.

## 1. Inventory

### Components

| Component (source) | State | Operations | What makes it correct |
|---|---|---|---|
| Event graph and content lifecycle (`rostra-client-db`: `process_event_ops.rs`, `tx_ops.rs`, `lib.rs`, `events_content_missing_ops.rs`, `quota_pruning.rs`) | `events`, `events_missing`, `events_heads`, `events_content_state`, `events_content_missing`, `content_store`, `content_rc`, `ids_data_usage`, `events_quota_pruned` | insert a header, process content, fail or defer a fetch, prune for quota, collect bytes | tables are functions of the inserted headers; deletion converges; counts are exact; side effects are applied once |
| Payload accounting and quota collection (`payload_accounting.rs`) | per-hash and per-author accounting, global usage, nominations, the cursors of rebuild, recovery and collection | settle a reducer's effect, rebuild one row, recover nominations, collect one payload | exact for what the scan has covered; bytes in use are never removed; garbage is removed |
| Follow graph and web of trust (`tx_ops.rs`, `process_event_content_ops.rs`, `lib.rs`) | `ids_followees`, `ids_followers`, `ids_follow_events`, `ids_unfollowed`, watch channels | follow, unfollow, publish after commit | follow epochs do not depend on the order of arrival; channels are current |
| New-head fetcher (`task/new_head_fetcher.rs`) | work queue, leases, scan cursor, broadcast and watch receivers | main select loop, paged reconciliation, workers | no head is forgotten; one worker per author; no lost wake-up |
| Deduplicating channel (`rostra-util-dedup-chan`) | per subscription a queue, a set and a lag flag; receivers' watches | subscribe, clone, drop, send, recv | no silent loss, no sleeping over work |
| Missing-event fetcher (`task/missing_event_fetcher.rs`) | retry delay and deadline, scan cursor | start-up, notification, lag and retry branches, fetch from peers | no missing event is abandoned; retries are neither postponed nor unbounded |
| Payload admission and reservations (`payload_admission.rs`, `payload_reservation.rs`, ...) | in-memory ledger of reserved and buffered bytes | reserve, buffer, admit, release | reservations and buffers add up; no release of another's bytes |
| Payload demand, pressure, retention index (`payload_demand*.rs`, `payload_pressure.rs`, `retention_index.rs`) | candidates by retention rank | choose what to prune | pressure ends; protected payloads are kept |
| Payload maintenance runtime (`payload_runtime.rs`) | phase, cursors, allowances | one bounded step per turn | every phase gets its turn |
| Social projections (`process_event_content_ops.rs`, `social*.rs`) | receipts, reply and reaction counts, replacement lineage, mentions | apply and revert the side effects of a content | equal to a function of the processed contents |
| Votes and news ranking (`news.rs`, `news_score_updater.rs`) | winning vote per voter and target, score sums, rank tables | record, replace, rescore | sums equal the sum over winners |
| Latest-value projections (`tx_ops.rs`) | profiles, node announcements, shoutbox | insert the later value | the greatest in event order wins |
| Conversation page (`assets/app.js`: `directMessageHistory`; `routes/messages.rs`) | list of messages, older link, live cursor, flags of the two requests | wakeup, refresh, load older, hide and show | a message feed: nothing twice, nothing skipped, arrivals shown |
| Post composer (`app.js`: `textAutocomplete`, `shoutboxComposer`, insertion; `emoji-init.js`; `text-field-edit`) | text and cursor, query, results, timer, searches, the Enter key | type, move, choose, send, insert | Enter picks or sends, never both; suggestions are current; a choice replaces the trigger only |
| Timeline page (`app.js`: dialogs, keyboard navigation, copy buttons, tag select, emoji pop-up) | open dialogs, focus, selection, history entry, widget status | open, replace, close, j/k/l/r/n, click | page not left inert; focus returns; one selection |
| Media and notifications (`app.js`; `routes/media.rs`) | dialog with handlers, previews, uploads, pastes, notification list | attach, paste, preview, upload, dismiss | previews unwind; pastes and notifications end |
| Live updates (`routes/timeline.rs`: `handle_get_updates`; `app.js`: `websocket`, `badgeCounts`) | broadcast receivers, counts, socket, badges, title | arrivals, ticks, messages, close | badges never overstate and catch up with what arrives once subscribed |
| Emoji database (`emoji-picker-element/database.js`, `picker.js`; `app.js`: `_initEmojiDb`) | IndexedDB store with its eTag, cached connection, close listeners, `_ready`, `_lazyUpdate` | open, load, update, close, search | data not older than its eTag, but for HTTP caches; shared connection; composer gets its cache |
| Direct messages (`dm*.rs`) | conversations, pending envelopes | receive, decrypt, index | every envelope ends up read or pending |
| Migrations and total replay (`migration_ops.rs`) | schema version, stash | stash, install, replay | a stop in between is repaired by the next start |
| Missing-content fetcher (`missing_event_content_fetcher.rs`) | in-flight fetches | take due rows, fetch, complete | every due row is tried |
| Head merger, broadcaster, polling tasks (`task/head_*.rs`, `poll_*.rs`) | observed heads, subscriptions | merge own heads, announce, poll | heads reach every follower |
| Request handler and peer protocol (`request_handler.rs`, `rostra-p2p`) | connections | serve RPCs | served data is what the tables hold |
| Connection cache and discovery, clients and identities, session store, bots, HTTP routes, command line | mostly I/O around the above | | |

### How they interact

Tasks call the database; a write transaction holds redb's single writer lock
from its first read to its commit. Hooks registered in the transaction
(`WriteTransactionCtx::on_commit`) run after the commit and publish to three
kinds of channels: a bounded broadcast of new heads, watch channels of
followees, followers and web of trust, and deduplicating channels of authors
with missing events and of posts to rescore. The channels lose and merge
messages, so each task that listens also reconciles with the tables it could
have read instead. The payload worker runs one bounded maintenance step at a
time between other writers.

The web interface reads the database for each request and pushes counts,
shouts and a bare wakeup for conversations over a websocket (`/updates`). In
the page, Alpine components react to answers merged into the document, to the
socket, to timers and to keys. Handlers run one at a time, but a handler with
an `await` is interrupted by any other; dialogs, the textarea, the emoji
connection and the notification list are shared between components.

### What is hard

- **Order of delivery**: deletions before their targets, unfollows before the
  follows they end, content before or after its header, several deleters.
- **Sharing**: contents are stored by hash; events of different authors in
  different lifecycle states use the same bytes.
- **Scans over moving tables**: accounting rebuild, nomination recovery and the
  fetchers' reconciliations are interrupted by writers behind and in front of
  their cursors.
- **Lossy notifications**: lag, merging, full queues, wake-ups between a look
  and a wait, `select!` dropping a `recv()`.
- **Restart**: notifications and queues are lost, tables are not.
- **Asynchronous pages**: two requests that fill one list, answers to a query
  that has changed, a dialog replaced while it is open, a connection closed by
  one component while another reads over it, handlers saved and put back by
  previews on top of each other.
- **Arithmetic at the edge**: unsigned counters that must not go below zero,
  limits that are included or not, a delay that doubles.

`PROJECT.json` lists these hazards line by line, with the properties that would
catch each one.

## 2. Modules

    EventStore                                      MCEventStore
        +-- PayloadAccounting (refines EventStore)  MCPayloadAccounting
    Identities
        +-- FollowGraph                             MCFollowGraph
        +-- NewHeadFetcher                          MCNewHeadFetcher
    DedupChan                                       MCDedupChan
        +-- MissingEventFetcher                     MCMissingEventFetcher
    MessageFeed  <~~ DirectMessageHistory           MCDirectMessageHistory
    FuzzyMatch --- PostComposer                     MCPostComposer
    PageDialogs, TimelineNavigation, PageWidgets
        +-- Page                                    MCPage
    Notifications --- MediaUpload \
    LiveUpdates ------------------+-- PageServices  MCPageServices
    EmojiSearch --- EmojiDatabase                   MCEmojiDatabase

A branch is an `EXTENDS`, `<~~` a refinement by `INSTANCE ... WITH`. The theorems
about a module M are in MProofs; those about DedupChan in
MissingEventFetcherProofs and those about EventStore in PayloadAccountingProofs,
which build on them as the modules do on each other. NewHeadFetcherProofs also
has those about FollowGraph, which publishes the web of trust the fetcher
follows.
Definitions keep the names of the functions and fields they stand for; those
ending in a suffix like `merge_deleted_by_LastWins` are deliberately wrong
variants, used to show that a property would notice.

### EventStore

One action per write transaction: `process_event` (header only),
`process_event_with_content` (header and content in one transaction),
`process_event_again` (a duplicate), `process_event_content`,
`try_materialize_stored_payload` (bytes already there for another event),
`record_failed_content_fetch`, `defer_content_fetch`, `prune_quota_payload` and
`collect_payload`. `Insert` is the whole of `insert_event_tx` and of the work
`process_event_inner_tx_with_source` does after it, in its order: parents,
heads, missing rows, deletion, content state, reference count, usage, schedule.

Abstractions:

- An event id stands for its header and a hash for its bytes; hash claims are
  honest (signatures and hashes are verified before a transaction). Whether
  content is valid for its kind is a constant of the event.
- The fields of a Missing row go with the row: they are reset when the event
  leaves that state.
- `ids_data_usage` counts payloads per bucket; the sizes kept next to the counts
  move in the same calls. `last_fetch_attempt` is informational and left out.
- A fetch completion that observes an outdated schedule changes nothing and is
  a stuttering step. An admission that refuses a payload is a transaction that
  did not happen, or happened without the content.
- Which payload is pruned, and when, is free, apart from the eligibility the
  code checks; clocks and grace periods only restrict that further.
- `Init` allows quota decisions for events that are not there: a total replay
  restores decisions before it replays the events.
- `projections` counts how often the side effects of an event are applied, net
  of reverts. Only a SOCIAL_POST has a revert (`process_event_content_reverted_tx`);
  a deleted content of any other kind keeps what it applied, as
  SPEC-event-content-lifecycle.md says. A post that deletes its parent applies
  and reverts side effects only as an edit (`Projects`). What a revert never
  touches, the replacement lineage, the materialisation feed and singleton
  rows, is left out.

### PayloadAccounting

Extends EventStore: each of its transactions is followed, in the same step, by
`payload_after`, which settles the accounting of what the scan has already
covered. The maintenance worker adds `rebuild_payload_accounting` (one row of
one of six stages), `rebuild_quota_payload_nominations`,
`collect_quota_payload_step` with the byte allowance of a `turn`, and `upgrade`,
which creates the provenance tables, empty, on an older database. Rows are
visited in key order, so ids, hashes and authors are numbers. The checks of
`payload_after_tx` against negative contributions are not guards of the model
but follow from `AccountingExact`; the checks of the maintenance steps,
and those a reducer makes once the accounting is ready, are
`MaintenanceNeverFails`, a part of `AccountingSound`.

`EventStore!Spec` is checked as a property of this module: with the collector's
own reference counts in place of EventStore's freely chosen `collect_payload`,
every step is still a step of EventStore or leaves its tables alone.

### FollowGraph

`process` inserts one follow or unfollow, in any order, at most once each
(EventStore's `SideEffectsOnce`, a part of `ContentExact`), and notes the hooks; `publish` runs them, each
channel getting the value read inside the transaction; `reopen` is a restart
between commit and hooks, which rebuilds the channels from the tables.

### NewHeadFetcher

The main task's `select!` arms, the paged scan of durable heads, the coalescing
queue with its lock, notifications and leases, and the workers, with a step per
critical section, await and channel operation; next to them the writers of
heads and webs of trust. `heads[a]` counts changes of a's head set, and the
history variable `attempted` says which change a worker last tried to download:
a download that fails counts, since this task does not retry. Locals are reset
where their scope ends. `reconcile_again` is only ever set while a scan waits
for space, so the check at the end of a scan and the one at the end of a
resumed scan are one action. `Init` is a start on any durable state.

### DedupChan and MissingEventFetcher

DedupChan has the map of channels, their queues, sets and lag flags, and of each
receiver its place in `recv()` and whether its watch has an unseen version.
Sending is one step (the sender holds the map's lock); receiving has a step per
critical section between two awaits, and `cancel` for a `select!` that drops it.
`owed` is a history variable.

MissingEventFetcher uses channel 0 of it: the hooks of inserting transactions
`send`, the task's wake-ups are conjunctions with `take`, `lagging` and `cancel`.
Events of an author are numbered parents first, so each is inserted once and may
name missing parents; storing a fetched event can therefore record new missing
events, as in the code. The deadline counts down in units of the initial delay.
`run` holds the database itself, so the sender outlives it and the `Closed` arm
is never taken; dropping the client aborts the task, which is the end of a
behaviour here, and the next start is another `Init`.

### MessageFeed and DirectMessageHistory

MessageFeed is the abstract specification: messages arrive, a reader's page
appends arrivals at the bottom in their order and reveals older ones on top.
DirectMessageHistory is the component with its flags (`loadingOlder`,
`loadingNew`, `refreshPending`, `destroyed`), the two requests, the answers the
route computes from the database at the time it reads it, the merge that drops
messages already on the page, typesetting and the wakeups of the socket. A
handler is one step up to its next `await` on the network, on typesetting or on
a frame. Failures come as a rejected request and as an error page, which
`ajax:missing` keeps from the document but does not reject.

### FuzzyMatch and PostComposer

FuzzyMatch has the matcher and the ranking as functions. PostComposer has the
text as a sequence of tokens, so that an inserted item can be cut in two or end
in something that looks like a trigger; the debounce timer and the profile
searches outlive the query they were started for, as in the code. `surface`
says whether the form is the shoutbox, whose Enter sends on key up. Everything
else that writes into the textarea (media and link dialogs, the emoji picker,
the answer to a sent shout, which empties it without an input event) is an
action too.

### Page: PageDialogs, TimelineNavigation, PageWidgets

PageDialogs models the `-active` class, the modal stack of the browser and the
observer that brings the second in line with the first; focus and its return;
the enlarged image with its load and resize callbacks; keyboard help; Escape.
The observer only ever shows the first `-active` dialog of the document, and the
page has the image first, then the preview and the media list: an answer that
comes while an image is enlarged waits until it is closed, and while only a
later dialog is open an earlier one comes on top of it. An upload or a link
(`Write`) may end after its dialog was closed, replaced or covered; `Insert` then
closes what is there and goes to the target of the media list at that moment, the
composer or an inline reply.
TimelineNavigation has the selected post, its mark, unfolding and the history
entry. Page composes the two: a focus that goes to a text field clears the
selection, keys are ignored while typing or behind a dialog. PageWidgets (copy
buttons, tag select, emoji pop-up) share nothing with the rest or each other,
so a behaviour of Page uses the timeline or one of them. A tag typed into the
tag select goes through `innerHTML` (`app.js:658`): `Parsed` says which value the
parser makes of it, for instance of a tag that ends in a quote, and the next look
for it compares the tag as typed. What is written behind the quote, attributes of
its own, is not modelled.

### PageServices: Notifications, MediaUpload, LiveUpdates

MediaUpload keeps, of the media dialog, what previews save and put back (title,
both handlers, the file input), pasted images that wait for the dialog of their
form, uploads with their shared progress bar, and object URLs. Its errors are
Notifications. LiveUpdates is the task behind `/updates` with its two broadcast
channels that drop the oldest, the tick for unread messages, the socket and the
badges with the title. Posts and shouts are committed whether or not a page is
subscribed; the counts start from those the page was rendered with, so what comes
in between is `missed`. PageServices puts media and live updates side by side.

### EmojiSearch and EmojiDatabase

EmojiDatabase has the objects of class `Database` with their runs of `_init`,
`_ready` and `_lazyUpdate`, the connection cached per tab with its close
listeners, the store with its eTag, the picker that shuts its object down when
it leaves the page, and the composer that loads all groups and retries.
Continuations of a settled promise run before any other event of their tab
(`Quiet`). What a tab's code works on is one value, `World`; `openDatabase`,
`CheckReady`, `closeDatabase` and the rest are functions from worlds to worlds, so
that a handler is their composition. EmojiSearch is the indexed search as functions. Favourites, skin
tones, shortcodes, custom emojis and the rendering of the picker, a third-party
component, are left out.

The data are served with `public, max-age=3600` under a URL without a version
(`routes.rs:144-171`) and fetched with the default cache mode, so a GET or a HEAD
may be answered with any earlier version (`Answers`); the hour is not timed, which
only allows more. `aged` keeps the versions an update was given that way. Left
out: the branches for an answer without an eTag (`database.js:825-832`, `844-848`),
which only the development mode's `ServeDir` could need (`lib.rs:425-432`), and a
transaction that is aborted while no request is pending, whose promise never
settles (`dbPromise` has no `onabort`, `database.js:123-140`): a transaction here
completes or fails.

## 3. Runs

| Run | Instance | Distinct states | Shows |
|---|---|---|---|
| `event_store` | seven headers of two authors: a post, two deleters of it (one naming the other), a deleter of a deleter, a foreign event naming the post that is not a post itself, a blank post that deletes it and an edit of that; shared hashes; empty, oversized and invalid content; times 0..1 | 12,148 | `GraphExact` (heads, missing parents, deletions), `ContentExact` (reference counts, usage, schedule, bytes, side effects, quota decisions), `NeverRolledBack`, `LifecycleForward` |
| `payload_accounting` | four events, two hashes, an allowance of one payload per turn, times 0..1 | 19,994 | `AccountingSound` (exact counts, no failing check, garbage stays nominated), `CollectionSafe`, refinement of `EventStore!Spec`, `MaintenanceEnds` |
| `follow_graph` | ten follows and unfollows of three identities, two with equal timestamps | 4,732 | `FollowTablesExact` (convergence, history, reverse table), `PublishedIsCurrent` |
| `new_head_fetcher` | two authors, two workers, queue, page and channel of one, one web-of-trust change after an empty one | 935,589 | `WorkQueueSound` (one worker per author, no lost wake-up), `NothingForgotten`, `HeadsAttempted` |
| `dedup_chan` | three handles, two channels, two items, capacities 1 and 2 | 42,270 | `ChannelSound` (set and queue agree, no silent loss, nobody sleeps over work), `ItemsLeaveByRecv` |
| `missing_event_fetcher` | three authors with two events, channel and page of one, delays 1 to 3 | 751,747 | `NoneAbandoned`, `ScheduleKept` (retries not put off, fresh deadlines, scans advance), `RetriedForever` |
| `dm_history` | four messages, one of them outgoing, pages of one, one failure | 344,491 | `NoDuplicates`, `NothingSkipped`, refinement `ImplementsFeed`, `ArrivalsShown` |
| `dm_retry` | two messages, one failure | violation | `RetryOnWakeup`, see Findings |
| `composer` | one letter and the two triggers, two emojis whose ranks change with the query, four edits, one profile search in flight, one insertion | 3,360,448 | `PickOrSend`, `MenuCurrent` (selection in range, emojis match the text), `ChoiceReplacesTrigger` |
| `page` | two posts, one a parent; the server's dialogs, the enlarged image and keyboard help; four clicks; two tags, four checkboxes, and typed tags that are known, new, parsed to another one, and too long | 395,150 | `DialogsMatchClass`, `SelectionConsistent`, `NoSelectionWhileTyping`, `WidgetsTruthful` (copy status, tag label, picker can close), `FocusReturns` |
| `page_services` | two forms, two files, two attempts, one orphaned timer; channels of one, two arrivals, two messages on the wire | 157,632 | `PreviewsUnwind`, `ProgressOfLast`, `NotificationsGo`, `PasteEnds`, `BadgesCatchUp` |
| `emoji_database` | one tab with a composer and a picker, two versions of the data, one group the composer reads, one fault, the picker leaves once, four objects | 184,261 | `TagNotAhead`, `ConnectionShared`, `CacheComplete`, `SearchFindsAll`, `ComposerLoads` |

**Why the bounds are enough.** The interesting cases of EventStore are pairs:
an event and its deleter, two deleters, two events with one hash, a parent that
is there for one author and not for another; the instance has each of them in
every order, and the theorems below remove the bound. For queues, pages and
channels, size one makes "full", "second page" and "lagged" frequent. A delay
of up to 3 reaches the cap after a step that is not a power of two. Ten follow
events include three epochs of one pair, so that an unfollow can close an epoch
before, after and in between its follows. Two requests share a conversation, two
previews a dialog, two objects a connection: four messages, two files and four
objects (the composer's, the picker's, and those made after a failure and a
return) let each overtake the other. One group of emojis is enough for a connection
to close between `ready()` and the read; `CachesComplete` is proved for any number. Four edits reach a trigger, a query, its
shortening and a cursor moved away. `MaxTime`, `MaxAttempts`, `MaxHeads`,
`MaxWotChanges`, `MaxChannels`, `MaxFailures`, `MaxProfiles`, `MaxEdits`,
`MaxFetches`, `MaxInserts`, `MaxClicks`, `MaxFiles`, `MaxTimers`, `MaxWire`,
`MaxArrivals`, `MaxOptions`, `MaxFaults`, `MaxLeaves` and `MaxObjects` bound behaviour; each
appears in the guard of an action. `MaxAttempts` of MediaUpload is the code's
own limit, made small. In EmojiDatabase the picker comes back only while its
object is still shutting down (otherwise it is a new picker), and searches are
made when nothing is loading: they read the store and change nothing.

**Deadlock.** Where all inputs are bounded a quiet system may stop: the runs of
NewHeadFetcher, DedupChan, MissingEventFetcher, Page, PageServices and
EmojiDatabase say `CHECK_DEADLOCK FALSE`.

**Fairness.** PayloadAccounting assumes that the maintenance worker keeps
running its turns, as the loop in `payload_runtime.rs` does. The fetchers assume
that hooks of a committed transaction run, that the runtime polls ready tasks
and workers, that a request to a peer ends (it has a timeout) and, for the
missing-event fetcher, that time passes: weak fairness of each task as a whole.
No fairness between the arms of their `select!` is assumed: the inputs of the
liveness instances are finite, so none can be chosen for ever. The task behind
`/updates` has a tick that is ready for ever, so there the random choice of
`select!` is used: an arm that is ready again and again is taken (strong
fairness of `ReceivePost` and `ReceiveShout`). In the page, timers fire,
requests are answered or fail, and continuations run (weak fairness); readers,
peers, writers and failures are under no fairness.

## 4. Findings

**`dm_retry`.** `refreshNew()` promises to keep the cursor "for retry on another
wakeup or visibility change" (`app.js:1224`), and `tests/messages.js:87` says
that it "retries only on another wakeup". A request answered with an error
page does not reject: `ajax:missing` is prevented, the promise resolves, the old
cursor still has `data-more="true"`, and the loop asks again at once, for as
long as the server answers with errors.

Met while modelling, without a line of the repository that says otherwise:

- Two images pasted before the media dialog is there are previewed on top of
  each other; cancelling the second leaves its Upload button with the first,
  which is no longer shown (`PreviewsUnwind` holds: both buttons still belong to
  one preview; its picture is not on the page).
- A late upload is inserted into the target of the dialog that is there when it
  ends. An image pasted while a dialog of the same form is left from before is
  previewed in it, and lost when the answer replaces it.
- A profile search that ends after the trigger has become an emoji's shows
  profiles in the emoji menu; choosing one inserts the word `undefined`.
  `MenuCurrent` is therefore about emojis only.
- Posts and shouts committed between the rendering of a page and its
  subscription are counted by neither (`timeline.rs:411`); `BadgesCatchUp` says
  that nothing else is missed without a lag or a close.
- A cache that forwards a HEAD and answers the GET makes an update store old
  data under the new eTag, which is then not replaced before the next version;
  `TagNotAhead` excepts exactly that.
- A tag such as `work"` gets the checkbox `work`, a second one if there is one
  already or it is typed again; `TagsLabelled` says that this is the only way to
  two checkboxes of one value.
- An IndexedDB open that is rejected stays in `databaseCache`, so every retry of
  the composer awaits the same rejection: `ComposerLoads` excepts it. Errors of
  a single group are swallowed and leave the composer's cache incomplete:
  `CacheComplete` excepts tabs that lost a connection.

## 5. Proofs

All of these hold for every value of the constants.

**PayloadAccountingProofs**, first the store. `TypeCorrect`; `GraphCorrect` (`GraphExact`: heads, missing
rows and deletion attribution are functions of the inserted headers);
`LifecycleCorrect`; `PayloadCorrect` (`ContentExact`); `NoRollback`. The argument
has two layers. `GraphInv` is inductive by itself: types, `HeadsAreFrontier`,
`MissingAreUnresolvedParents` and `DeletionConverges` together, because whether
an arriving event starts as deleted is read off its missing row. `PayloadInv`
adds the counting invariants; its heart is that one insertion changes the set
counted for a hash or bucket by at most the new event and one deleted parent
(`OneDeletedParent`), which `CountFacts` turns into arithmetic. Assumptions:
finitely many events, no event is its own parent, the event order is total.

Then the accounting. `AccountingCorrect` (`AccountingSound`: the ledgers
of bytes and counts are exact, no check that a reducer, the scan or the collector
makes can fail, and garbage stays nominated), `AccountingImplementsStore` (the
maintenance worker beside the store is still EventStore), `CollectionCorrect`
(`CollectionSafe`). `AccInv` is EventStore's `PayloadInv`, which holds because
every step of the accounting is a step or a stutter of EventStore
(`StepRefines`), with `AccountingExact`, `DecisionsKept` (a quota decision is
about an inserted remote post) and `ProvenanceKept` (the decisions behind the
recovery cursor are among the quota hashes, and one whose bytes nothing needs is
queued for collection). The
counters are sums over sets. Induction over a set being out of reach, a sum is
shown to be the number of its units, by a least counterexample; after that each
change of a ledger is a change of one cardinality (`LedgerReduced` for the
reducers, `LedgerRebuilt` for the scan, `LedgerCollected` for the collector).
Assumption: finitely many hashes; a hash has 32 bytes.

**NewHeadFetcherProofs**, first the follow graph. `FollowTablesCorrect` (`FollowTablesExact`: whatever the
order of arrival, the row of a pair is what its latest event says) and
`WatchersCurrent` (`PublishedIsCurrent`). `TableInv` describes what the code keeps
between two events, in any order of arrival: the boundary of a pair is its latest
unfollow (`BoundaryExact`), the history has the follows after it (`HistoryExact`),
and a row is what that history says (`RowsExact`), so that an unfollow that
arrives late can still find what it closes. `ChannelInv` says that the channels
no hook is about to update are current.

Then the fetcher. `FetcherTypeCorrect`, `NoHeadForgotten`,
`AuthorsExclusive`, `WorkersWake` and, from the last two, `WorkQueueCorrect`,
along the inductive invariant `FetcherInv`: the three properties, types,
`LeaseShape` (a worker has a lease in exactly the states between taking and
dropping it) and `ScanShape` (the rest of a page is in front of the cursor; a
snapshot of the web of trust is current or a change is still to be seen). The
latter is what makes the check against a stale snapshot harmless.

**MissingEventFetcherProofs.** First the channel: `NothingLostSilently`,
`ReceiversWake`, `NoPanic`, together `ChannelCorrect`; `StaysConnected` and
`LeaveByRecv`; from `ChanInv`, which adds `HandleShape` to the properties. The
lemmas `SendSound` and `TakeSound` say what one channel's `send` and pop do; the
rest is bookkeeping about receivers. Then the fetcher: `MissingTypeCorrect`,
`NoMissingAbandoned`, `RetryKeepsItsTime`, `DeadlineStartsFresh`, `ScansAdvance`,
the last three together `ScheduleIsKept`; from `MissingInv`. Its channel part is
not proved again: every step of the fetcher is one of DedupChan
(`MissingIsChan`), so `ChanStep` applies. `RetryShape` says that the delay is the
initial one whenever no deadline is set and that a scan for a retry runs with a
deadline that has passed; without it, an expired deadline could be confused with
one that lag pushed back.

**DirectMessageHistoryProofs.** `MessagesOnce` (`NoDuplicates`), `MessagesKept`
(`NothingSkipped`) and `PageImplementsFeed`, the refinement of MessageFeed.
`DMInv` adds to the two properties that the two requests take turns with their
guards (`TurnsTaken`) and what each answer in flight still has in common with the
page (`LiveAnswer`, `OlderAnswer`): an answer is computed on the server at one
moment and inserted at a later one, and the properties alone do not say what lies
between. Assumption: finitely many messages.

**PostComposerProofs.** `EnterSendsOrPicks` (`PickOrSend`), `MenuIsCurrent`
(`MenuCurrent`) and `ChoiceIsExact` (`ChoiceReplacesTrigger`), for any text.
`Armed` is why a held Enter cannot both pick and send: while it repeats no menu
can come up, because the keys that open one end the repetition, a line break
and an inserted medium end in a character that is no trigger, and the rest happens
on forms that do not send. `EmojisFollow` strengthens the menu property to a timer
of another kind. `TriggerFound` says that `lastIndexOf` finds the trigger
`handleInput` matched. How emojis are scored and sorted plays no part, so
`fuzzyMatch` is never opened. Assumptions: the letters of a word are none of the
symbols the triggers and insertions are made of; finitely many emojis.

**PageServicesProofs.** `PreviewsCorrect` (`PreviewsUnwind`), `ProgressCorrect`
(`ProgressOfLast`) and `NotificationsOnce` (the safety half of
`NotificationsGo`). A button knows only the preview below its own, so the
invariant exhibits the whole stack: `PreviewStack` says that there is a sequence
of all previews, each once, along which the links lead from the dialog's button
to the server's handler. `StackPush` and `StackPop` keep it. `FilesOnce` (a file
waits, is previewed or is sent) is what forbids a second upload, and
`InputOwned` why a cancelled preview may empty the input.

**PageProofs.** `DialogsCorrect` (`DialogsMatchClass`), `FocusIsReturned`
(`FocusReturns`), `SelectionCorrect` (`SelectionConsistent`),
`TypingClearsSelection` (`NoSelectionWhileTyping`) and `WidgetsCorrect`
(`WidgetsTruthful`), from `PageInv`, one part for each of the three modules. Of the
dialogs, `Sound` is kept by every operation (no dialog is open twice, the active one
is open, the focus is in the dialog on top or nowhere), and the observer restores
the rest. The focus returns because what `showModal()` and `rostraDialogFocus`
remember of a dialog that came up alone is the element it came from, or the
textarea an earlier dialog wrote into (`GivesBack`); that holds while one dialog
replaces another, and `Handover` is what each operation owes the observer for it.
That an element which is remembered is there or marked as gone (`Present`) keeps a
new element from being taken for an old one. Of the selection, `NavInv` says that a
selection which is not in the document is gone for good. Of the copy buttons,
`CopyInv` ties the timer, the status and the object in the map to the last click.
Of the tag select, `TagsType` says that ticked checkboxes exist; a checkbox is made
only when its value as typed is not there, so a second one of a value comes from a
tag that is parsed to something else.
Assumptions: the items are finitely many positive numbers, their order that of the
document; no two tags of the page are the same.

**EmojiDatabaseProofs.** `TagsCorrect` (`TagNotAhead`), `ConnectionsCorrect`
(`ConnectionShared`) and `CachesComplete` (`CacheComplete`), for any tabs, objects,
versions and groups, any number of faults and departures of the picker, from
`EmojiInv`. None of the three is inductive. For the eTag, `RunTags` says what a run
has fetched so far: its data was asked for after its eTag, so that it is at least as
new or a cache's, and neither is newer than the server. For the connection, `CacheShape` and `ListenersShape` say that what is
cached is a connection of the tab, that an object holds none that was rejected or is
still being opened, and that listeners are objects of their tab. The composer's cache
needs most: `ready()` looks at `_db` and `_ready` again after each wait, and any other
object of the tab may have closed the connection in between. `ReadyShape` says that
in a tab that lost no connection every object keeps its `_ready`, that the run behind
it has its database from the moment it was opened, and that one that ended well left
data in the store, which only a lost connection takes away; `ComposerShape` says that
the run a composer awaits is that one and which groups it has read. The argument about
steps is one relation, `Advances`: a tab that lost a connection has lost it for good,
and in the other tabs `_ready` and a run that ended well stay. Every operation on a
world keeps `WorldInv` and advances (`OpenDatabaseInv`, `InitOpenedInv`,
`CheckReadyInv`, `CloseDatabaseInv`, `ConnsStep`, `RunStep`), operations compose by
`AdvancesTwice`, and whoever does nothing in a step keeps its shape (`ComposerKept`,
`PickerKept`). Assumptions: the picker's tab is a tab, and the server has at least
one version of the data; what a version contains plays no part.

**Model-checked only.** Liveness (`MaintenanceEnds`, `HeadsAttempted`,
`RetriedForever`, `ArrivalsShown`, `NotificationsGo` beyond `ShownOnce`,
`PasteEnds`, `BadgesCatchUp`, `ComposerLoads`) is out of the prover's reach, which
has no support for fairness and `ENABLED`.
`FuzzyMatch` and `EmojiSearch` fold over sequences: what they compute would need
induction over data, and with it `SearchFindsAll`.

## 6. Not modelled

Signatures, hashes, encodings, encryption and transport are taken as correct:
they are the constants of the models or out of a model checker's reach. HTTP
routes, command line, discovery and static assets are I/O. Of the page script,
layout, scrolling, autoplay and external media frames are left out; of
the vendored libraries (`alpinejs`, `alpine-ajax`, `mathjax`, `prismjs`, the
rendering half of `emoji-picker-element`) only what the page's own code relies
on is there, as external definitions. The other components without a module
are in the plan.

## 7. Plan

1. **Payload admission and reservations**, composed with PayloadAccounting: the
   ledger of reservations and buffers (generations, replacement, drops), the
   admission checks of a transaction, the runtime's round robin.
2. **Missing-content fetcher** on EventStore's schedule and admission.
3. **Social projections**: receipts, replies, reactions, replacement lineage;
   votes and news scores; latest values. Abstract specification: a function of
   the processed contents.
4. **Head protocol**: merger, broadcaster, polling, request handler.
5. **Migrations and replay** with stops between the steps; **MultiClient**
   loading and retiring; the **connection cache**; the bots' publish-once table;
   the session store.
