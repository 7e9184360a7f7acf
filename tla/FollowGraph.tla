----------------------------- MODULE FollowGraph ----------------------------
(***************************************************************************)
(* The follow graph of rostra's client database: the tables ids_followees, *)
(* ids_followers, ids_follow_events and ids_unfollowed that follow and     *)
(* unfollow events maintain (tx_ops.rs), and the watch channels that       *)
(* publish the own followees, followers and web of trust after a commit.   *)
(*                                                                         *)
(* The content of each event is processed at most once (EventStore), in    *)
(* the order in which it happens to be delivered.  An unfollow closes the  *)
(* epoch of the follows before it in EventOrder, whenever it arrives.      *)
(***************************************************************************)
EXTENDS Identities, Integers, FiniteSets

CONSTANTS
  FollowEvents,  \* ids of the follow and unfollow events
  Event          \* what each event says, see EventType

\* order is the rank of EventOrder (timestamp, ShortEventId), from 1 on.
EventType ==
  [author : Ids, followee : Ids, unfollow : BOOLEAN, order : Nat \ {0}, ts : Nat]

ASSUME FollowEventAssumption == Event \in [FollowEvents -> EventType]
ASSUME FollowOrderAssumption ==
  \A e, f \in FollowEvents :
    /\ Event[e].order = Event[f].order => e = f
    /\ Event[e].order < Event[f].order => Event[e].ts =< Event[f].ts

VARIABLES
  processed,          \* events whose content was processed
  ids_followees,      \* <<author, followee>> -> latest follow and first_ts, or NoFollow
  ids_followers,      \* <<followee, author>> rows
  ids_follow_events,  \* ids of the follows kept as history of the open epochs
  ids_unfollowed,     \* <<author, followee>> -> order of the latest unfollow, 0 if none
  hooks,              \* watch channels the committed transaction has yet to update
  published           \* value of each watch channel

followVars == <<processed, ids_followees, ids_followers, ids_follow_events,
                ids_unfollowed, hooks, published>>

Pairs == Ids \X Ids
Channels == {"followees", "followers", "wot"}
NoFollow == [latest |-> 0, latest_ts |-> 0, first_ts |-> 0]

order(e) == Event[e].order
pair(e) == <<Event[e].author, Event[e].followee>>

-----------------------------------------------------------------------------
(* Readers of the tables *)

read_followees(followees, a) == {b \in Ids : followees[<<a, b>>] # NoFollow}

\* Followees with their records, and those of followees, without oneself.
compute_wot(followees) ==
  [direct |-> [b \in read_followees(followees, SelfId) |-> followees[<<SelfId, b>>]],
   extended |-> {c \in Ids \ {SelfId} :
                   /\ c \notin read_followees(followees, SelfId)
                   /\ \E b \in read_followees(followees, SelfId) :
                        c \in read_followees(followees, b)}]

Snapshot(followees, followers) ==
  [followees |-> [b \in read_followees(followees, SelfId) |-> followees[<<SelfId, b>>]],
   followers |-> {a \in Ids : <<SelfId, a>> \in followers},
   wot |-> compute_wot(followees)]

\* The timestamp of the first follow of pair k after the boundary, or otherwise.
first_follow_ts_after(k, boundary, history, otherwise) ==
  LET later == {e \in history : pair(e) = k /\ boundary < order(e)} IN
  IF later = {} THEN otherwise
  ELSE LET first == CHOOSE e \in later : \A f \in later : order(e) =< order(f)
       IN  Event[first].ts

-----------------------------------------------------------------------------
(* process_event_content_inserted_tx on a follow or unfollow *)

\* MUTANT: the web of trust is published for the own follows only.
NotifiedChannels_SelfOnly(e) ==
  (IF Event[e].author = SelfId THEN {"followees", "wot"} ELSE {})
  \cup (IF Event[e].followee = SelfId THEN {"followers"} ELSE {})

\* The channels an update of e's author and followee concerns.
NotifiedChannels(e) ==
  (IF Event[e].author = SelfId THEN {"followees", "wot"}
   ELSE IF ids_followees'[<<SelfId, Event[e].author>>] # NoFollow THEN {"wot"} ELSE {})
  \cup (IF Event[e].followee = SelfId THEN {"followers"} ELSE {})

\* MUTANT: a late follow of the open epoch does not move its start.
FollowRecord_KeepFirst(e, history) ==
  LET k == pair(e)  old == ids_followees[k] IN
  IF order(e) =< old.latest THEN old
  ELSE [latest |-> order(e), latest_ts |-> Event[e].ts,
        first_ts |-> first_follow_ts_after(k, ids_unfollowed[k], history, Event[e].ts)]

\* The followee row after follow e: the latest follow of the epoch wins, and the
\* epoch starts with its first follow, which may arrive later.
FollowRecord(e, history) ==
  LET k == pair(e)
      old == ids_followees[k]
      first(ts) == first_follow_ts_after(k, ids_unfollowed[k], history, ts)
  IN  IF order(e) =< old.latest
      THEN [old EXCEPT !.first_ts = first(old.latest_ts)]
      ELSE [latest |-> order(e), latest_ts |-> Event[e].ts, first_ts |-> first(Event[e].ts)]

\* The follow is from an epoch that an unfollow has closed.
ClosedEpoch(e) == order(e) =< ids_unfollowed[pair(e)]

insert_follow(e) ==
  LET history == ids_follow_events \cup {e}
      new == FollowRecord(e, history)
  IN
  /\ ids_follow_events' = IF ClosedEpoch(e) THEN ids_follow_events ELSE history
  /\ ids_followees' = IF ClosedEpoch(e) THEN ids_followees
                      ELSE [ids_followees EXCEPT ![pair(e)] = new]
  /\ ids_followers' = ids_followers \cup
       IF ClosedEpoch(e) \/ order(e) =< ids_followees[pair(e)].latest THEN {}
       ELSE {<<Event[e].followee, Event[e].author>>}
  /\ hooks' = IF ClosedEpoch(e) \/ new = ids_followees[pair(e)] THEN {}
              ELSE NotifiedChannels(e)
  /\ UNCHANGED ids_unfollowed

\* The followee row after unfollow e: it survives if its follow is later, with
\* the start of its own epoch.
UnfollowRecord(e, history) ==
  LET old == ids_followees[pair(e)] IN
  IF order(e) < old.latest
  THEN [old EXCEPT !.first_ts =
          first_follow_ts_after(pair(e), order(e), history, old.latest_ts)]
  ELSE NoFollow

\* The history without the follows of the pair up to e.
prune_follow_events_through(e) ==
  {f \in ids_follow_events : pair(f) = pair(e) => order(e) < order(f)}

EndsFollow(e) == ids_followees[pair(e)].latest =< order(e)

\* Only an unfollow later than every other one moves the epoch boundary.
insert_unfollow(e) ==
  LET k == pair(e)
      stale == order(e) =< ids_unfollowed[k]
      history == prune_follow_events_through(e)
  IN
  /\ ids_unfollowed' = IF stale THEN ids_unfollowed
                       ELSE [ids_unfollowed EXCEPT ![k] = order(e)]
  /\ ids_follow_events' = IF stale THEN ids_follow_events ELSE history
  /\ ids_followees' = IF stale THEN ids_followees
                      ELSE [ids_followees EXCEPT ![k] = UnfollowRecord(e, history)]
  /\ ids_followers' = ids_followers
       \ IF stale \/ ~ EndsFollow(e) THEN {} ELSE {<<k[2], k[1]>>}
  /\ hooks' = IF stale THEN {} ELSE NotifiedChannels(e)

\* One write transaction.  The writer lock is held until its hooks have run.
process(e) ==
  /\ hooks = {}
  /\ e \notin processed
  /\ processed' = processed \cup {e}
  /\ IF Event[e].unfollow THEN insert_unfollow(e) ELSE insert_follow(e)
  /\ UNCHANGED published

\* The post-commit hooks, with the values the transaction computed.
publish ==
  /\ hooks # {}
  /\ published' = [c \in Channels |->
       IF c \in hooks THEN Snapshot(ids_followees, ids_followers)[c] ELSE published[c]]
  /\ hooks' = {}
  /\ UNCHANGED <<processed, ids_followees, ids_followers, ids_follow_events, ids_unfollowed>>

\* The process stops, perhaps between a commit and its hooks, and opens the
\* database again.
reopen ==
  /\ hooks' = {}
  /\ published' = Snapshot(ids_followees, ids_followers)
  /\ UNCHANGED <<processed, ids_followees, ids_followers, ids_follow_events, ids_unfollowed>>

-----------------------------------------------------------------------------

FollowInit ==
  /\ processed = {}
  /\ ids_followees = [k \in Pairs |-> NoFollow]
  /\ ids_followers = {}
  /\ ids_follow_events = {}
  /\ ids_unfollowed = [k \in Pairs |-> 0]
  /\ hooks = {}
  /\ published = Snapshot(ids_followees, ids_followers)

FollowNext == (\E e \in FollowEvents : process(e)) \/ publish \/ reopen

FollowSpec == FollowInit /\ [][FollowNext]_followVars

-----------------------------------------------------------------------------
(* Properties *)

Unfollows(k) == {e \in processed : pair(e) = k /\ Event[e].unfollow}

\* The follows of k after every processed unfollow.
OpenEpoch(k) ==
  {e \in processed : /\ pair(e) = k /\ ~ Event[e].unfollow
                     /\ \A u \in Unfollows(k) : order(u) < order(e)}

\* The follow tables depend on which events were processed and not on the order
\* of processing: someone is followed exactly when a follow is later than every
\* unfollow, with the selector of the latest follow and the start of the first
\* one since the latest unfollow (insert_follow_tx, insert_unfollow_tx).
FollowConverges ==
  \A k \in Pairs :
    LET epoch == OpenEpoch(k)  row == ids_followees[k] IN
    IF epoch = {} THEN row = NoFollow
    ELSE /\ \E e \in epoch : row.latest = order(e)
         /\ \E e \in epoch : row.first_ts = Event[e].ts
         /\ \A e \in epoch : order(e) =< row.latest /\ row.first_ts =< Event[e].ts

\* The history keeps the follows of the open epochs and nothing of closed ones,
\* so that it does not grow with every follow and unfollow.
HistoryIsOpenEpochs ==
  ids_follow_events = UNION {OpenEpoch(k) : k \in Pairs}

\* The reverse table has a row exactly where the forward table has one.
FollowersMirrorFollowees ==
  ids_followers = {<<k[2], k[1]>> : k \in {p \in Pairs : ids_followees[p] # NoFollow}}

\* The three tables of follows agree with the set of processed events.
FollowTablesExact == FollowConverges /\ HistoryIsOpenEpochs /\ FollowersMirrorFollowees

\* Whenever no transaction is between its commit and its hooks, the watch
\* channels hold what the tables say: no change of one's own follows, of a
\* followee's follows or of one's followers goes unpublished.
PublishedIsCurrent == hooks = {} => published = Snapshot(ids_followees, ids_followers)
=============================================================================
