----------------------------- MODULE DedupChan -----------------------------
(***************************************************************************)
(* The deduplicating work channel (rostra-util-dedup-chan/src/lib.rs).     *)
(*                                                                         *)
(* A Sender keeps a numbered channel per subscription; clones of a         *)
(* Receiver share the queue of their channel.  A send is one step, since   *)
(* it holds the lock of the map of channels; the steps of recv() are the   *)
(* critical sections between its awaits.  Of the version counter that      *)
(* wakes receivers only whether a receiver has seen it is kept.            *)
(***************************************************************************)
EXTENDS Integers, Sequences, FiniteSets

CONSTANTS
  Item,          \* what is sent
  Receiver,      \* handles of receivers
  Capacities,    \* capacities that subscriptions ask for
  MaxChannels    \* bound: numbers of channels

ASSUME ChanAssumption == Capacities \subseteq Nat /\ MaxChannels \in Nat

VARIABLES
  channels,  \* Sender: number -> Channel
  rx,        \* Receiver: its channel, where it is in recv(), its watch
  open,      \* whether a Sender exists
  owed       \* history: what was sent to a channel, and neither delivered nor
             \* covered by a Lagging error since

chanVars == <<channels, rx, open, owed>>

Key == 0 .. MaxChannels - 1
NoKey == -1

Channel == [set : SUBSET Item, queue : Seq(Item), lagged : BOOLEAN, capacity : Capacities]
Handle == [key : Key \cup {NoKey}, at : {"out", "first", "wait"}, changed : BOOLEAN]

NoHandle == [key |-> NoKey, at |-> "out", changed |-> FALSE]

\* The receivers of a channel.
Receivers(k) == {r \in Receiver : rx[r].key = k}

-----------------------------------------------------------------------------
(* Subscriptions *)

\* MUTANT: numbers are given by the size of the map.
IsNextKey_Count(k) == k = Cardinality(DOMAIN channels)

\* The number after the last one in the map.
IsNextKey(k) ==
  /\ \A j \in DOMAIN channels : j < k
  /\ k = 0 \/ k - 1 \in DOMAIN channels

\* Sender::subscribe.  An unused handle gets a channel of its own.
subscribe(r, capacity, next_key) ==
  /\ open
  /\ rx[r] = NoHandle
  /\ IsNextKey(next_key)
  /\ channels' = [k \in DOMAIN channels \cup {next_key} |->
       IF k = next_key
       THEN [set |-> {}, queue |-> << >>, lagged |-> FALSE, capacity |-> capacity]
       ELSE channels[k]]
  /\ rx' = [rx EXCEPT ![r] = [key |-> next_key, at |-> "out", changed |-> FALSE]]
  /\ owed' = [owed EXCEPT ![next_key] = {}]
  /\ UNCHANGED open

\* Receiver::clone; recv() borrows the receiver, so it is not in there.
clone(r, c) ==
  /\ rx[r].key # NoKey /\ rx[r].at = "out"
  /\ rx[c] = NoHandle
  /\ rx' = [rx EXCEPT ![c] = rx[r]]
  /\ UNCHANGED <<channels, open, owed>>

\* A receiver is dropped, and a recv() it was in with it.
drop(r) ==
  /\ rx[r].key # NoKey
  /\ rx' = [rx EXCEPT ![r] = NoHandle]
  /\ UNCHANGED <<channels, open, owed>>

\* The last Sender is dropped.
drop_sender ==
  /\ open
  /\ open' = FALSE
  /\ UNCHANGED <<channels, rx, owed>>

-----------------------------------------------------------------------------
(* Sending *)

\* Channel::send on the locked queue.
ChannelSend(c, v) ==
  IF v \in c.set THEN c
  ELSE IF c.capacity =< Len(c.queue) THEN [c EXCEPT !.lagged = TRUE]
  ELSE [c EXCEPT !.set = @ \cup {v}, !.queue = Append(@, v)]

\* Whether Channel::send wakes the receivers.
Bumps(c, v) == v \notin c.set

\* Channels whose last receiver is gone are removed by the next send.
Closed(k) == Receivers(k) = {}

\* Sender::send
send(v) ==
  /\ open
  /\ channels' = [k \in {j \in DOMAIN channels : ~ Closed(j)} |-> ChannelSend(channels[k], v)]
  /\ rx' = [r \in Receiver |->
       IF rx[r].key \in DOMAIN channels /\ Bumps(channels[rx[r].key], v)
       THEN [rx[r] EXCEPT !.changed = TRUE] ELSE rx[r]]
  /\ owed' = [k \in Key |->
       IF k \notin DOMAIN channels THEN owed[k]
       ELSE IF Closed(k) THEN {} ELSE owed[k] \cup {v}]
  /\ UNCHANGED open

-----------------------------------------------------------------------------
(* Receiver::recv *)

\* recv() is called.
recv(r) ==
  /\ rx[r].key # NoKey /\ rx[r].at = "out"
  /\ rx' = [rx EXCEPT ![r].at = "first"]
  /\ UNCHANGED <<channels, open, owed>>

\* It looks at the queue at once, and then whenever changed() returns.
Looks(r) == rx[r].at = "first" \/ (rx[r].at = "wait" /\ rx[r].changed)

\* changed() marks the version it saw as seen.
Seen(r, at) ==
  rx' = [rx EXCEPT ![r].at = at, ![r].changed = @ /\ rx[r].at = "first"]

\* recv() = Ok(v)
take(r, v) ==
  /\ Looks(r)
  /\ LET k == rx[r].key  c == channels[k] IN
     /\ c.queue # << >> /\ v = Head(c.queue)
     /\ channels' = [channels EXCEPT ![k] =
          [c EXCEPT !.queue = Tail(@), !.set = @ \ {v}]]
     /\ owed' = [owed EXCEPT ![k] = @ \ {v}]
  /\ Seen(r, "out")
  /\ UNCHANGED open

\* recv() = Err(Lagging), once the queue is empty
lagging(r) ==
  /\ Looks(r)
  /\ LET k == rx[r].key  c == channels[k] IN
     /\ c.queue = << >> /\ c.lagged
     /\ channels' = [channels EXCEPT ![k] = [c EXCEPT !.lagged = FALSE]]
     /\ owed' = [owed EXCEPT ![k] = {}]
  /\ Seen(r, "out")
  /\ UNCHANGED open

\* MUTANT: an unreported lag does not keep a receiver from waiting.
sleep_IgnoresLag(r) ==
  /\ Looks(r)
  /\ channels[rx[r].key].queue = << >>
  /\ Seen(r, "wait")
  /\ UNCHANGED <<channels, open, owed>>

\* Nothing there: wait for changed().
sleep(r) ==
  /\ Looks(r)
  /\ channels[rx[r].key].queue = << >> /\ ~ channels[rx[r].key].lagged
  /\ Seen(r, "wait")
  /\ UNCHANGED <<channels, open, owed>>

\* recv() = Err(Closed): changed() fails when no version is unseen.
closed(r) ==
  /\ rx[r].at = "wait" /\ ~ rx[r].changed /\ ~ open
  /\ rx' = [rx EXCEPT ![r].at = "out"]
  /\ UNCHANGED <<channels, open, owed>>

\* A select! drops the recv() it has called, polled or not.
cancel(r) ==
  /\ rx[r].at # "out"
  /\ rx' = [rx EXCEPT ![r].at = "out"]
  /\ UNCHANGED <<channels, open, owed>>

-----------------------------------------------------------------------------

ChanInit ==
  /\ channels = [k \in {} |-> {}]
  /\ rx = [r \in Receiver |-> NoHandle]
  /\ open = TRUE
  /\ owed = [k \in Key |-> {}]

Subscriptions ==
  \/ \E r \in Receiver, c \in Capacities, k \in Key : subscribe(r, c, k)
  \/ \E r, c \in Receiver : clone(r, c)
  \/ \E r \in Receiver : drop(r)
  \/ drop_sender

Receive(r) ==
  \/ recv(r) \/ lagging(r) \/ sleep(r) \/ closed(r) \/ cancel(r)
  \/ \E v \in Item : take(r, v)

ChanNext ==
  \/ Subscriptions
  \/ \E v \in Item : send(v)
  \/ \E r \in Receiver : Receive(r)

ChanSpec == ChanInit /\ [][ChanNext]_chanVars

-----------------------------------------------------------------------------
(* Properties *)

\* No queue outgrows the capacity its subscription asked for, and every variable
\* has its type.
ChanTypeOK ==
  /\ DOMAIN channels \subseteq Key
  /\ \A k \in DOMAIN channels :
       channels[k] \in Channel /\ Len(channels[k].queue) =< channels[k].capacity
  /\ rx \in [Receiver -> Handle]
  /\ open \in BOOLEAN
  /\ owed \in [Key -> SUBSET Item]

\* The set of a channel is what its queue holds, each item once: recv() never
\* panics on "Must have a set element" and a pending item is not queued twice.
SetMirrorsQueue ==
  \A k \in DOMAIN channels :
    LET q == channels[k].queue IN
    /\ channels[k].set = {q[i] : i \in DOMAIN q}
    /\ \A i, j \in DOMAIN q : q[i] = q[j] => i = j

\* A send is never lost silently: what was sent to a channel is queued there
\* until a receiver takes it, or the channel owes its receivers a Lagging error.
SentOrLagging ==
  \A k \in DOMAIN channels :
    channels[k].lagged \/ owed[k] \subseteq channels[k].set

\* No receiver sleeps in changed() over an item or an unreported lag, although
\* clones take each other's items and duplicates wake nobody.
NobodySleepsOverWork ==
  \A r \in Receiver :
    rx[r].at = "wait" /\ ~ rx[r].changed
      => channels[rx[r].key].queue = << >> /\ ~ channels[rx[r].key].lagged

\* A channel keeps what it is sent, each item once, and tells its receivers.
ChannelSound == SetMirrorsQueue /\ SentOrLagging /\ NobodySleepsOverWork

\* Numbers of removed channels are used again, but never that of a channel that
\* still has a receiver: every receiver's channel is one the Sender sends to.
ReceiversConnected ==
  \A r \in Receiver : rx[r].key # NoKey => rx[r].key \in DOMAIN channels

\* While a channel has receivers, an item leaves it only through a recv() that
\* returns it, one at a time and in the order of sending: no subscription, clone,
\* cancelled recv() or removal of another channel takes one away.
ItemsLeaveByRecv ==
  [][\A k \in DOMAIN channels :
       Receivers(k) # {} =>
         /\ k \in DOMAIN channels'
         /\ \/ channels[k].set \subseteq channels'[k].set
            \/ /\ channels[k].set = channels'[k].set \cup {Head(channels[k].queue)}
               /\ \E r \in Receivers(k) : Looks(r) /\ rx'[r].at = "out"]_chanVars
=============================================================================
