----------------------------- MODULE LiveUpdates -----------------------------
(***************************************************************************)
(* Badge counts that follow what arrives (timeline.rs and app.js): the task  *)
(* behind /updates counts posts and shouts from two broadcast channels, asks *)
(* for the unread messages on every tick, and sends all counts after each    *)
(* turn of its loop; the page takes them over and keeps its title.  The      *)
(* channels lose the oldest when the task lags, and a socket that closes is  *)
(* not opened again.  Counts start from those the page was rendered with, so *)
(* what arrives between rendering and the subscription is never counted.  A  *)
(* post is described by the counts it raises.                                *)
(***************************************************************************)
EXTENDS Naturals, Sequences, SequencesExt

CONSTANTS
  Capacity,           \* of a broadcast channel (100)
  MaxWire,            \* bound: messages on the socket
  MaxArrivals,        \* bound: posts, shouts and direct messages
  TitleCap            \* the highest count a title shows (9)

ASSUME LiveAssumption ==
  Capacity \in Nat \ {0} /\ MaxWire \in Nat \ {0} /\ MaxArrivals \in Nat /\ TitleCap \in Nat

Post == {"own", "network", "followee", "mention", "reply"}
Shout == {"own", "shout"}

VARIABLES
  conn,               \* "new": the page is rendered; "open": subscribed; "closed"
  onShoutbox,         \* the page is the shoutbox
  posts, shouts,      \* the channels: [queue, lagged]
  unread,             \* unread direct messages
  counts,             \* of the task
  wire,               \* sent to the page
  badges, title,      \* on the page
  shoutsShown,        \* shouts appended to it
  truth, missed,      \* what has arrived since this page; while nobody was subscribed
  lost                \* a channel lagged

liveVars == <<conn, onShoutbox, posts, shouts, unread, counts, wire, badges, title,
              shoutsShown, truth, missed, lost>>

Zero == [followees |-> 0, network |-> 0, notifications |-> 0, shoutbox |-> 0, messages |-> 0]

\* The title for a number of notifications; TitleCap + 1 stands for "9+".
Title(n) == IF n > TitleCap THEN TitleCap + 1 ELSE n

\* What a post, or a shout, adds to the counts
WithPost(c, p) ==
  [c EXCEPT !.network = IF p = "own" THEN @ ELSE @ + 1,
            !.followees = IF p \in {"followee", "reply"} THEN @ + 1 ELSE @,
            !.notifications = IF p \in {"mention", "reply"} THEN @ + 1 ELSE @]

WithShout(c, s) == [c EXCEPT !.shoutbox = IF onShoutbox \/ s = "own" THEN @ ELSE @ + 1]

LiveInit ==
  /\ conn = "new" /\ onShoutbox \in BOOLEAN
  /\ posts = [queue |-> << >>, lagged |-> FALSE] /\ shouts = posts
  /\ unread = 0 /\ wire = << >> /\ shoutsShown = 0 /\ missed = Zero /\ lost = FALSE
  /\ \E n \in 0 .. 1 : counts = [Zero EXCEPT !.notifications = n]
  /\ badges = counts /\ title = Title(counts.notifications) /\ truth = counts

\* A broadcast channel loses its oldest entry.
Sent(channel, x) ==
  IF Len(channel.queue) < Capacity THEN [channel EXCEPT !.queue = Append(@, x)]
  ELSE [queue |-> Append(Tail(channel.queue), x), lagged |-> TRUE]

Arrived == truth.network + truth.shoutbox + shoutsShown + Len(posts.queue) + Len(shouts.queue)

\* The websocket: connect(url), and handle_get_updates subscribes, with the counts of
\* the page.
connect ==
  /\ conn = "new" /\ conn' = "open"
  /\ UNCHANGED <<onShoutbox, posts, shouts, unread, counts, wire, badges, title, shoutsShown, truth, missed, lost>>

\* A post is committed; the hook sends it to those that are subscribed by then.
PostArrives(p) ==
  /\ Arrived < MaxArrivals
  /\ truth' = WithPost(truth, p)
  /\ IF conn = "open"
     THEN posts' = Sent(posts, p) /\ lost' = (lost \/ posts'.lagged) /\ UNCHANGED missed
     ELSE missed' = WithPost(missed, p) /\ UNCHANGED <<posts, lost>>
  /\ UNCHANGED <<conn, onShoutbox, shouts, unread, counts, wire, badges, title, shoutsShown>>

ShoutArrives(s) ==
  /\ Arrived < MaxArrivals
  /\ truth' = WithShout(truth, s)
  /\ IF conn = "open"
     THEN shouts' = Sent(shouts, s) /\ lost' = (lost \/ shouts'.lagged) /\ UNCHANGED missed
     ELSE missed' = WithShout(missed, s) /\ UNCHANGED <<shouts, lost>>
  /\ UNCHANGED <<conn, onShoutbox, posts, unread, counts, wire, badges, title, shoutsShown>>

\* Messages are received, and read on another page.
UnreadChanges(n) ==
  /\ n # unread /\ unread' = n
  /\ UNCHANGED <<conn, onShoutbox, posts, shouts, counts, wire, badges, title, shoutsShown, truth, missed, lost>>

\* A turn of the loop ends: all badges are sent.
SendBadges(w, c) == counts' = c /\ wire' = Append(w, [kind |-> "badges", counts |-> c])

CanSend == conn = "open" /\ Len(wire) < MaxWire

ReceivePost ==
  /\ CanSend /\ (posts.lagged \/ posts.queue # << >>)
  /\ IF posts.lagged
     THEN posts' = [posts EXCEPT !.lagged = FALSE] /\ UNCHANGED <<counts, wire>>
     ELSE LET p == Head(posts.queue) IN
          /\ posts' = [posts EXCEPT !.queue = Tail(@)]
          /\ IF p = "own" THEN UNCHANGED <<counts, wire>>
             ELSE SendBadges(wire, WithPost(counts, p))
  /\ UNCHANGED <<conn, onShoutbox, shouts, unread, badges, title, shoutsShown, truth, missed, lost>>

ReceiveShout ==
  /\ CanSend /\ (shouts.lagged \/ shouts.queue # << >>)
  /\ IF shouts.lagged
     THEN shouts' = [shouts EXCEPT !.lagged = FALSE] /\ UNCHANGED <<counts, wire>>
     ELSE LET s == Head(shouts.queue) IN
          /\ shouts' = [shouts EXCEPT !.queue = Tail(@)]
          /\ SendBadges(IF onShoutbox THEN Append(wire, [kind |-> "append"]) ELSE wire, WithShout(counts, s))
  /\ UNCHANGED <<conn, onShoutbox, posts, unread, badges, title, shoutsShown, truth, missed, lost>>

\* message_badge_refresh, every two seconds; a tick that changes nothing sends the
\* same counts once more and is left out.
Tick ==
  /\ CanSend /\ counts.messages # unread
  /\ SendBadges(wire, [counts EXCEPT !.messages = unread])
  /\ UNCHANGED <<conn, onShoutbox, posts, shouts, unread, badges, title, shoutsShown, truth, missed, lost>>

\* MUTANT: the title is only set for a count that grew from zero.
Retitle_First(old, new) == IF old = 0 THEN Title(new) ELSE title

\* $watch("notifications")
Retitle(old, new) == IF new # old THEN Title(new) ELSE title

\* onmessage: a shout is appended to the list, badges are dispatched to onUpdate.
OnMessage ==
  /\ conn = "open" /\ wire # << >> /\ wire' = Tail(wire)
  /\ IF Head(wire).kind = "append"
     THEN shoutsShown' = shoutsShown + 1 /\ UNCHANGED <<badges, title>>
     ELSE /\ badges' = Head(wire).counts
          /\ title' = Retitle(badges.notifications, badges'.notifications)
          /\ UNCHANGED shoutsShown
  /\ UNCHANGED <<conn, onShoutbox, posts, shouts, unread, counts, truth, missed, lost>>

\* onclose, or destroy: "Don't reconnect - WebSocket is optional"
OnClose ==
  /\ conn = "open" /\ conn' = "closed" /\ wire' = << >>
  /\ UNCHANGED <<onShoutbox, posts, shouts, unread, counts, badges, title, shoutsShown, truth, missed, lost>>

LiveNext ==
  \/ connect \/ ReceivePost \/ ReceiveShout \/ Tick \/ OnMessage \/ OnClose
  \/ \E p \in Post : PostArrives(p)
  \/ \E s \in Shout : ShoutArrives(s)
  \/ \E n \in 0 .. 1 : UnreadChanges(n)

\* The page takes what it is sent, and select! chooses among its ready branches at
\* random, so a branch that is ready again and again is taken.
LiveFairness ==
  /\ SF_liveVars(ReceivePost) /\ SF_liveVars(ReceiveShout) /\ WF_liveVars(OnMessage)

-----------------------------------------------------------------------------
(* Properties *)

\* The counts of the badges and of what nobody was subscribed for
Counted == [b \in DOMAIN Zero |-> IF b = "messages" THEN 0 ELSE badges[b] + missed[b]]

\* The badges on a page never say more than has arrived, never go back while posts
\* come in, and with the socket open and no lag they and the title catch up with all
\* but what arrived between the rendering of the page and the subscription: a lag or a
\* close is the only other way to miss something.
BadgesCatchUp ==
  /\ [](/\ \A b \in DOMAIN Zero \ {"messages"} : badges[b] + missed[b] <= truth[b]
        /\ title = Title(badges.notifications))
  /\ [][badges'.network >= badges.network /\ badges'.notifications >= badges.notifications]_liveVars
  /\ [](<>(lost \/ conn # "open" \/ Counted = truth))
=============================================================================
