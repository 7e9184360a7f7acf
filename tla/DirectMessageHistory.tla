------------------------ MODULE DirectMessageHistory ------------------------
(***************************************************************************)
(* The conversation page: the Alpine component directMessageHistory of       *)
(* app.js, with the thread route (routes/messages.rs) it talks to.           *)
(*                                                                           *)
(* The browser runs one handler at a time; a handler is one step up to its   *)
(* next await on the network, on typesetting or on a frame.  Continuations   *)
(* that only wait for other promises of the component (loadOlder for         *)
(* liveRequest, $nextTick) run before the browser takes another event and    *)
(* are part of the step that releases them.                                  *)
(*                                                                           *)
(* Left out: scroll positions, the conversation list, sending.  A reply to   *)
(* the composer replaces the whole component, which is destroy here.         *)
(***************************************************************************)
EXTENDS Naturals, FiniteSets, Sequences, SequencesExt

CONSTANTS
  Msg,              \* messages of the conversation, by place in history
  Outgoing,         \* those written on this side; they have no sequence number
  PageSize,         \* THREAD_PAGE_SIZE
  MaxFailures       \* bound: how many requests fail

ASSUME MsgAssumption ==
  IsFiniteSet(Msg) /\ Msg \subseteq Nat \ {0} /\ Outgoing \subseteq Msg
ASSUME PageAssumption == PageSize \in Nat \ {0} /\ MaxFailures \in Nat

VARIABLES
  stored,           \* messages in the database
  arrived,          \* the incoming ones, by sequence number
  changed,          \* a wakeup is on its way through the websocket
  socket,           \* the websocket is open
  dom,              \* #direct-message-history, from top to bottom
  link,             \* before_... of the "Older messages" link; 0: there is none
  cursor,           \* #direct-message-live-cursor: data-after-sequence, data-more
  loadingOlder, loadingNew, refreshPending, destroyed,
  hidden,           \* document.hidden
  live,             \* where refreshNew is: "idle", "sent", "answered", "render"
  older,            \* where loadOlder is: and "waiting" for liveRequest
  reply,            \* the answers to the two requests, once the server has them
  failures,         \* how many requests failed so far
  failed            \* the last refresh failed and nobody asked for another one

feed == <<stored, arrived, changed, socket>>
page == <<dom, link, cursor>>
flags == <<loadingOlder, loadingNew, refreshPending, destroyed, hidden>>
calls == <<live, older, reply, failures, failed>>
dmVars == <<feed, page, flags, calls>>

NoReply == [entries |-> << >>, link |-> 0, cursor |-> [after |-> 0, more |-> FALSE]]

-----------------------------------------------------------------------------
(* routes/messages.rs and dm_view.rs: what the server answers *)

\* The members of S in the order of history: each after those before it.
InOrder(S) ==
  [i \in 1 .. Cardinality(S) |->
    CHOOSE m \in S : Cardinality({k \in S : k < m}) = i - 1]

\* The n last of S in history.
Newest(S, n) == {m \in S : Cardinality({k \in S : m < k}) < n}

\* dm_history_with_sequences and the link to the page before
HistoryBefore(b) ==
  LET rows == {m \in stored : b = 0 \/ m < b}
      shown == Newest(rows, PageSize)
  IN [NoReply EXCEPT !.entries = InOrder(shown),
        !.link = IF rows # shown THEN CHOOSE m \in shown : \A k \in shown : m =< k ELSE 0]

\* MUTANT: a full page moves the cursor to the latest arrival.
IncomingAfter_Latest(after) ==
  LET last == IF Len(arrived) < after + PageSize THEN Len(arrived) ELSE after + PageSize
      rows == SubSeq(arrived, after + 1, last)
  IN [NoReply EXCEPT !.entries = rows,
        !.cursor = [after |-> Len(arrived), more |-> Len(rows) = PageSize]]

\* dm_incoming_after and the new live cursor
IncomingAfter(after) ==
  LET last == IF Len(arrived) < after + PageSize THEN Len(arrived) ELSE after + PageSize
      rows == SubSeq(arrived, after + 1, last)
  IN [NoReply EXCEPT !.entries = rows,
        !.cursor = [after |-> last, more |-> Len(rows) = PageSize]]

\* A message is stored; incoming ones get the next sequence number and wake the
\* page up.
Arrive(m) ==
  /\ m \notin stored
  /\ stored' = stored \cup {m}
  /\ IF m \in Outgoing THEN UNCHANGED <<arrived, changed>>
     ELSE arrived' = Append(arrived, m) /\ changed' = socket
  /\ UNCHANGED <<socket, page, flags, calls>>

\* The page is rendered: latest sequence number first, then the newest history,
\* in two reads between which messages arrive.  init() asks for the rest.
Init ==
  \E S \in SUBSET Msg : \E n \in 0 .. Cardinality(S \ Outgoing) :
    /\ stored = S
    /\ arrived \in {s \in [1 .. Cardinality(S \ Outgoing) -> S \ Outgoing] : IsInjective(s)}
    /\ dom = HistoryBefore(0).entries
    /\ link = HistoryBefore(0).link
    /\ cursor = [after |-> n, more |-> FALSE]
    /\ changed = TRUE /\ socket = TRUE      \* the first wakeup of /updates
    /\ hidden \in BOOLEAN
    /\ loadingOlder = FALSE /\ destroyed = FALSE
    /\ refreshPending = hidden /\ loadingNew = ~ hidden
    /\ live = IF hidden THEN "idle" ELSE "sent"
    /\ older = "idle"
    /\ reply = [live |-> NoReply, older |-> NoReply]
    /\ failures = 0 /\ failed = FALSE

-----------------------------------------------------------------------------
(* directMessageHistory: refreshing at the bottom *)

\* MUTANT: a wakeup does not wait for the older page.
Busy_NewOnly == loadingNew

Busy == loadingOlder \/ loadingNew

\* queueRefresh(), in a step that leaves destroyed and the flags of loadOlder at
\* the given values; refreshNew runs up to its request.
QueueRefresh(hide, busy) ==
  /\ failed' = FALSE
  /\ IF destroyed \/ hide \/ busy
     THEN refreshPending' = TRUE /\ UNCHANGED <<loadingNew, live>>
     ELSE refreshPending' = FALSE /\ loadingNew' = TRUE /\ live' = "sent"

\* @messages:changed.window
Wakeup ==
  /\ socket /\ changed
  /\ changed' = FALSE
  /\ QueueRefresh(hidden, Busy)
  /\ UNCHANGED <<stored, arrived, socket, page, loadingOlder, destroyed, hidden, older, reply, failures>>

\* @visibilitychange.document
VisibilityChange ==
  /\ hidden' = ~ hidden
  /\ QueueRefresh(~ hidden, Busy)
  /\ UNCHANGED <<feed, page, loadingOlder, destroyed, older, reply, failures>>

\* loadOlder continues once the live request is done; it is still the page's link.
ResumeOlder ==
  IF older = "waiting" /\ ~ destroyed
  THEN older' = "sent" /\ loadingOlder' = TRUE
  ELSE older' = (IF older = "waiting" THEN "idle" ELSE older) /\ UNCHANGED loadingOlder

\* refreshNew leaves its loop; the promise liveRequest is resolved.
EndRefresh(pending) ==
  /\ refreshPending' = pending
  /\ loadingNew' = FALSE /\ live' = "idle"
  /\ ResumeOlder

\* refreshPending ||= data-more
MorePending(c) == refreshPending \/ c.more

\* appendNew() is done: around the loop once more, or out of it.
EndAppend(c) ==
  IF MorePending(c) /\ ~ destroyed /\ ~ hidden
  THEN refreshPending' = FALSE /\ live' = "sent" /\ UNCHANGED <<loadingNew, older, loadingOlder>>
  ELSE EndRefresh(MorePending(c))

\* The server reads the database.
ServeLive ==
  /\ live = "sent"
  /\ live' = "answered"
  /\ reply' = [reply EXCEPT !.live = IncomingAfter(cursor.after)]
  /\ UNCHANGED <<feed, page, flags, older, failures, failed>>

\* MUTANT: messages on the page are not looked for.
beforeOlderMerge_Keep(entries) == entries

\* beforeOlderMerge(): messages on the page already are taken out of the answer.
beforeOlderMerge(entries) ==
  LET new == {i \in DOMAIN entries : entries[i] \notin Range(dom)}
  IN [j \in 1 .. Cardinality(new) |-> entries[InOrder(new)[j]]]

\* x-merge:dynamic of #direct-message-history
Merge(entries) == IF loadingNew THEN dom \o entries ELSE entries \o dom

\* The answer is merged; new messages are typeset before the loop goes on.
LiveMerged ==
  /\ live = "answered"
  /\ LET r == reply.live  new == beforeOlderMerge(r.entries) IN
     IF destroyed
     THEN EndAppend(cursor) /\ UNCHANGED page
     ELSE /\ dom' = Merge(new) /\ cursor' = r.cursor /\ UNCHANGED link
          /\ IF new # << >>
             THEN live' = "render" /\ UNCHANGED <<refreshPending, loadingNew, older, loadingOlder>>
             ELSE EndAppend(r.cursor)
  /\ reply' = [reply EXCEPT !.live = NoReply]
  /\ UNCHANGED <<feed, destroyed, hidden, failures, failed>>

LiveRendered ==
  /\ live = "render"
  /\ EndAppend(cursor)
  /\ UNCHANGED <<feed, page, destroyed, hidden, reply, failures, failed>>

\* The request is rejected (no connection, broken body), or typesetting is: the
\* catch clause leaves the loop.
LiveRejected ==
  /\ live \in {"sent", "render"} /\ failures < MaxFailures
  /\ failures' = failures + 1
  /\ failed' = TRUE
  /\ EndRefresh(TRUE)
  /\ UNCHANGED <<feed, page, destroyed, hidden, reply>>

\* The server answers with an error page.  It has neither target: ajax:missing is
\* prevented, nothing is merged and $ajax resolves.
LiveErrorPage ==
  /\ live = "sent" /\ failures < MaxFailures
  /\ failures' = failures + 1
  /\ failed' = ~ refreshPending
  /\ EndAppend(cursor)
  /\ UNCHANGED <<feed, page, destroyed, hidden, reply>>

-----------------------------------------------------------------------------
(* directMessageHistory: loading older messages at the top *)

\* loadOlder(), by a click or by the observer of the link
LoadOlder ==
  /\ link # 0 /\ ~ destroyed
  /\ IF loadingNew THEN older = "idle" /\ older' = "waiting" /\ UNCHANGED loadingOlder
     ELSE ~ loadingOlder /\ older' = "sent" /\ loadingOlder' = TRUE
  /\ UNCHANGED <<feed, page, loadingNew, refreshPending, destroyed, hidden, live, reply, failures, failed>>

ServeOlder ==
  /\ older = "sent"
  /\ older' = "answered"
  /\ reply' = [reply EXCEPT !.older = HistoryBefore(link)]
  /\ UNCHANGED <<feed, page, flags, live, failures, failed>>

\* MUTANT: a refresh that was put off stays put off.
EndOlder_NoRefresh ==
  /\ older' = "idle" /\ loadingOlder' = FALSE
  /\ UNCHANGED <<refreshPending, loadingNew, live, failed>>

\* The finally clause: a refresh that was put off is made up for.
EndOlder ==
  /\ older' = "idle" /\ loadingOlder' = FALSE
  /\ IF refreshPending THEN QueueRefresh(hidden, loadingNew)
     ELSE UNCHANGED <<refreshPending, loadingNew, live, failed>>

\* The answer is merged, then typeset; a page that is gone takes nothing.
OlderMerged ==
  /\ older = "answered"
  /\ older' = "render"
  /\ reply' = [reply EXCEPT !.older = NoReply]
  /\ IF destroyed THEN UNCHANGED page
     ELSE /\ dom' = Merge(beforeOlderMerge(reply.older.entries))
          /\ link' = reply.older.link
          /\ UNCHANGED cursor
  /\ UNCHANGED <<feed, flags, live, failures, failed>>

OlderRendered ==
  /\ older = "render"
  /\ EndOlder
  /\ UNCHANGED <<feed, page, destroyed, hidden, reply, failures>>

\* The request is rejected or answered with an error page; the link stays.
OlderFailed ==
  /\ older = "sent" /\ failures < MaxFailures
  /\ failures' = failures + 1
  /\ EndOlder
  /\ UNCHANGED <<feed, page, destroyed, hidden, reply>>

-----------------------------------------------------------------------------

\* destroy(): the component leaves the page.
Destroy ==
  /\ ~ destroyed
  /\ destroyed' = TRUE
  /\ UNCHANGED <<feed, page, loadingOlder, loadingNew, refreshPending, hidden, calls>>

\* The websocket is gone; it is not opened again.
SocketClosed ==
  /\ socket
  /\ socket' = FALSE /\ changed' = FALSE
  /\ UNCHANGED <<stored, arrived, page, flags, calls>>

LiveStep == ServeLive \/ LiveMerged \/ LiveRendered \/ LiveRejected \/ LiveErrorPage
OlderStep == ServeOlder \/ OlderMerged \/ OlderRendered \/ OlderFailed

Next ==
  \/ \E m \in Msg : Arrive(m)
  \/ Wakeup \/ VisibilityChange \/ LoadOlder
  \/ ServeLive \/ LiveMerged \/ LiveRendered \/ LiveRejected \/ LiveErrorPage
  \/ ServeOlder \/ OlderMerged \/ OlderRendered \/ OlderFailed
  \/ Destroy \/ SocketClosed

\* Requests and frames end, and what the websocket carries arrives.
Fairness == WF_dmVars(LiveStep) /\ WF_dmVars(OlderStep) /\ WF_dmVars(Wakeup)

Spec == Init /\ [][Next]_dmVars /\ Fairness

-----------------------------------------------------------------------------
(* Properties *)

Feed == INSTANCE MessageFeed WITH shown <- dom, seen <- cursor.after, bound <- link

\* The page is a message feed: arrivals at the bottom in their order, older pages
\* on top, although both are merged into one list by asynchronous answers.
ImplementsFeed == Feed!FeedSpec

\* beforeOlderMerge(): "Keep the already-rendered message rather than appending/
\* prepending a duplicate."
NoDuplicates == Feed!NoDuplicates

\* Pages, cursors and arrivals during a read never lose an incoming message: what
\* the cursor has passed is on the page or can still be revealed above it.
NothingSkipped == Feed!NothingSkipped

\* On a page that stays open and ends up visible and connected, with no request
\* failing, every incoming message shows up, without another notification.
ArrivalsShown ==
  [](failures = 0) /\ <>[](~ hidden /\ ~ destroyed /\ socket)
    => \A m \in Msg \ Outgoing : (m \in stored) ~> (m \in Range(dom) \/ m < link)

\* refreshNew(): "Keep the cursor for retry on another wakeup or visibility
\* change.": a request that failed is not repeated without one.
RetryOnWakeup == failed => live # "sent"
=============================================================================
