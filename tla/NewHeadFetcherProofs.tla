------------------------ MODULE NewHeadFetcherProofs ------------------------
(***************************************************************************)
(* Proofs about FollowGraph, for any identities and any set of follow and  *)
(* unfollow events, however they are ordered and delivered; then about     *)
(* NewHeadFetcher, which follows its webs of trust, for any number of      *)
(* authors and workers and any size of the queue, its pages and the        *)
(* broadcast channel.                                                      *)
(***************************************************************************)
EXTENDS FollowGraph, NewHeadFetcher, FiniteSetTheorems, WellFoundedInduction, TLAPS

FolloweeRow == [latest : Nat, latest_ts : Nat, first_ts : Nat]

FollowTypeOK ==
  /\ processed \subseteq FollowEvents
  /\ ids_followees \in [Pairs -> FolloweeRow]
  /\ ids_followers \subseteq Pairs
  /\ ids_follow_events \subseteq FollowEvents
  /\ ids_unfollowed \in [Pairs -> Nat]
  /\ hooks \subseteq Channels

\* The row of ids_unfollowed is the order of the latest processed unfollow.
BoundaryExact ==
  \A k \in Pairs :
    /\ \A u \in Unfollows(k) : order(u) =< ids_unfollowed[k]
    /\ ids_unfollowed[k] = 0 \/ \E u \in Unfollows(k) : order(u) = ids_unfollowed[k]

\* The history is what the boundaries leave of the processed follows.
HistoryExact ==
  ids_follow_events =
    {e \in processed : ~ Event[e].unfollow /\ ids_unfollowed[pair(e)] < order(e)}

\* The history of one pair.
History(k, history) == {e \in history : pair(e) = k}

\* A followee row that says what a history of its pair says: the latest follow with
\* its timestamp, and the earliest timestamp.
RowOf(row, H) ==
  IF H = {} THEN row = NoFollow
  ELSE /\ \E e \in H : /\ row.latest = order(e) /\ row.latest_ts = Event[e].ts
                       /\ \A f \in H : order(f) =< order(e)
       /\ \E e \in H : row.first_ts = Event[e].ts
       /\ \A f \in H : row.first_ts =< Event[f].ts

RowsExact == \A k \in Pairs : RowOf(ids_followees[k], History(k, ids_follow_events))

TableInv ==
  FollowTypeOK /\ BoundaryExact /\ HistoryExact /\ RowsExact /\ FollowersMirrorFollowees

-----------------------------------------------------------------------------
(* Operators *)

\* A set of natural numbers has a least one.
LEMMA NatLeast ==
  ASSUME NEW T, T \subseteq Nat, T # {}
  PROVE  \E x \in T : \A y \in T : x =< y
<1> DEFINE R == OpToRel(<, Nat)
<1>1. IsWellFoundedOn(R, Nat)
  BY NatLessThanWellFounded
<1>2. PICK x \in T : \A y \in T : ~ (<<y, x>> \in R)
  BY <1>1, WFMin, Zenon
<1>3. ASSUME NEW y \in T PROVE x =< y
  <2>1. <<y, x>> \in Nat \X Nat
    OBVIOUS
  <2>2. y < x => <<y, x>> \in R
    BY <2>1 DEF OpToRel
  <2>3. ~ (y < x)
    BY <1>2, <2>2, Zenon
  <2> QED
    BY <2>3
<1> QED
  BY <1>3

\* What an event says, one field at a time.
LEMMA EventFields ==
  ASSUME NEW e \in FollowEvents
  PROVE  /\ Event[e].author \in Ids /\ Event[e].followee \in Ids
         /\ Event[e].unfollow \in BOOLEAN /\ Event[e].ts \in Nat
         /\ order(e) \in Nat /\ order(e) > 0
         /\ pair(e) \in Pairs
         /\ pair(e)[1] = Event[e].author /\ pair(e)[2] = Event[e].followee
<1>1. Event[e] \in EventType
  BY FollowEventAssumption
<1> QED
  BY <1>1 DEF EventType, order, pair, Pairs

\* Events of one order are one event, and timestamps follow the order.
LEMMA OrderFacts ==
  ASSUME NEW e \in FollowEvents, NEW f \in FollowEvents
  PROVE  /\ order(e) = order(f) => e = f
         /\ order(e) =< order(f) => Event[e].ts =< Event[f].ts
<1>1. /\ order(e) \in Nat /\ order(f) \in Nat
      /\ Event[e].ts \in Nat /\ Event[f].ts \in Nat
  BY EventFields
<1>2. order(e) = order(f) => e = f
  BY FollowOrderAssumption DEF order
<1>3. order(e) < order(f) => Event[e].ts =< Event[f].ts
  BY FollowOrderAssumption DEF order
<1> QED
  BY <1>1, <1>2, <1>3

\* first_follow_ts_after returns the least timestamp of the later follows.
LEMMA FirstFollow ==
  ASSUME NEW k, NEW b \in Nat, NEW H \in SUBSET FollowEvents, NEW t,
         NEW L, L = {e \in H : pair(e) = k /\ b < order(e)}, L # {}
  PROVE  /\ \E e \in L : first_follow_ts_after(k, b, H, t) = Event[e].ts
         /\ \A f \in L : first_follow_ts_after(k, b, H, t) =< Event[f].ts
<1> DEFINE later == {e \in H : pair(e) = k /\ b < order(e)}
           first == CHOOSE e \in later : \A f \in later : order(e) =< order(f)
<1>1. \E e \in later : \A f \in later : order(e) =< order(f)
  <2> DEFINE T == {order(e) : e \in later}
  <2>1. T \subseteq Nat /\ T # {}
    BY EventFields
  <2>2. PICK x \in T : \A y \in T : x =< y
    BY <2>1, NatLeast
  <2> QED
    BY <2>2
<1>2. first \in later /\ \A f \in later : order(first) =< order(f)
  BY <1>1
<1>3. first_follow_ts_after(k, b, H, t) = Event[first].ts
  BY DEF first_follow_ts_after
<1>4. \A f \in later : Event[first].ts =< Event[f].ts
  BY <1>2, OrderFacts
<1> QED
  BY <1>2, <1>3, <1>4

-----------------------------------------------------------------------------
(* The transactions *)

\* The tables after follow e of a closed epoch, or after a stale unfollow: what they
\* say of the processed events does not change.
LEMMA StaleStep ==
  ASSUME TableInv, NEW e \in FollowEvents, e \notin processed,
         processed' = processed \cup {e},
         order(e) =< ids_unfollowed[pair(e)],
         UNCHANGED <<ids_followees, ids_followers, ids_follow_events, ids_unfollowed>>,
         hooks' \subseteq Channels
  PROVE  TableInv'
<1> USE DEF TableInv
<1>1. FollowTypeOK'
  BY DEF FollowTypeOK
<1>2. order(e) \in Nat /\ order(e) > 0 /\ pair(e) \in Pairs
  BY EventFields
<1>3. BoundaryExact'
  <2> SUFFICES ASSUME NEW k \in Pairs
               PROVE  /\ \A u \in Unfollows(k)' : order(u) =< ids_unfollowed[k]
                      /\ ids_unfollowed[k] = 0 \/ \E u \in Unfollows(k)' : order(u) = ids_unfollowed[k]
    BY DEF BoundaryExact, order
  <2>1. Unfollows(k) \subseteq Unfollows(k)' /\ \A u \in Unfollows(k)' : u \in Unfollows(k) \/ (u = e /\ pair(e) = k)
    BY DEF Unfollows
  <2> QED
    BY <2>1 DEF BoundaryExact
<1>4. HistoryExact'
  BY <1>2 DEF HistoryExact, FollowTypeOK
<1>5. RowsExact' /\ FollowersMirrorFollowees'
  BY DEF RowsExact, FollowersMirrorFollowees, History, RowOf
<1> QED
  BY <1>1, <1>3, <1>4, <1>5

\* A row of a follow is not NoFollow, and NoFollow means an empty history.
LEMMA RowKind ==
  ASSUME NEW H, H \subseteq FollowEvents, NEW row \in FolloweeRow, RowOf(row, H)
  PROVE  /\ row = NoFollow <=> H = {}
         /\ row.latest = 0 <=> H = {}
<1>1. CASE H = {}
  BY <1>1 DEF RowOf, NoFollow
<1>2. CASE H # {}
  <2>1. PICK e \in H : row.latest = order(e)
    BY <1>2 DEF RowOf
  <2>2. row.latest > 0
    BY <2>1, EventFields
  <2> QED
    BY <1>2, <2>2 DEF NoFollow, FolloweeRow
<1> QED
  BY <1>1, <1>2

\* The mirror of a changed row: ids_followers gains or loses exactly its reverse.
LEMMA MirrorStep ==
  ASSUME FollowersMirrorFollowees, FollowTypeOK, NEW k \in Pairs, NEW row,
         ids_followees' = [ids_followees EXCEPT ![k] = row],
         ids_followers' = IF row = NoFollow THEN ids_followers \ {<<k[2], k[1]>>}
                          ELSE ids_followers \cup {<<k[2], k[1]>>}
  PROVE  FollowersMirrorFollowees'
<1> DEFINE rev(p) == <<p[2], p[1]>>
<1>1. \A p, q \in Pairs : rev(p) = rev(q) => p = q
  BY DEF Pairs
<1>2. \A p \in Pairs : ids_followees'[p] = IF p = k THEN row ELSE ids_followees[p]
  BY DEF FollowTypeOK
<1>3. ids_followers = {rev(p) : p \in {q \in Pairs : ids_followees[q] # NoFollow}}
  BY DEF FollowersMirrorFollowees
<1>4. ids_followers' = {rev(p) : p \in {q \in Pairs : ids_followees'[q] # NoFollow}}
  <2>1. CASE row = NoFollow
    BY <1>1, <1>2, <1>3, <2>1
  <2>2. CASE row # NoFollow
    BY <1>1, <1>2, <1>3, <2>2
  <2> QED
    BY <2>1, <2>2
<1> QED
  BY <1>4 DEF FollowersMirrorFollowees

\* insert_follow_tx on a follow of the open epoch keeps the tables exact.
LEMMA FollowStep ==
  ASSUME TableInv, NEW e \in FollowEvents, e \notin processed, hooks = {},
         processed' = processed \cup {e},
         ~ Event[e].unfollow, ~ ClosedEpoch(e), insert_follow(e)
  PROVE  TableInv'
<1> DEFINE k == pair(e)
           H == ids_follow_events
           G == ids_follow_events \cup {e}
           old == ids_followees[k]
           new == FollowRecord(e, G)
           first(t) == first_follow_ts_after(k, ids_unfollowed[k], G, t)
<1>1. /\ k \in Pairs /\ order(e) \in Nat /\ order(e) > 0 /\ Event[e].ts \in Nat
      /\ ids_unfollowed[k] \in Nat /\ old \in FolloweeRow
      /\ H \subseteq FollowEvents /\ G \subseteq FollowEvents
      /\ k[1] = Event[e].author /\ k[2] = Event[e].followee
  BY EventFields DEF TableInv, FollowTypeOK
<1>2. ids_unfollowed[k] < order(e)
  BY <1>1 DEF ClosedEpoch
<1>3. /\ ids_follow_events' = G
      /\ ids_followees' = [ids_followees EXCEPT ![k] = new]
      /\ ids_followers' = ids_followers \cup
           IF order(e) =< old.latest THEN {} ELSE {<<k[2], k[1]>>}
      /\ ids_unfollowed' = ids_unfollowed
      /\ hooks' = IF new = old THEN {} ELSE NotifiedChannels(e)
  BY <1>1 DEF insert_follow
<1>4. RowOf(old, History(k, H))
  BY <1>1 DEF TableInv, RowsExact
<1>5. {f \in G : pair(f) = k /\ ids_unfollowed[k] < order(f)} = History(k, G)
  BY <1>2 DEF TableInv, HistoryExact, History
<1>6. e \in History(k, G) /\ History(k, G) = History(k, H) \cup {e}
  BY DEF History
<1>7. ASSUME NEW t
      PROVE  /\ \E f \in History(k, G) : first(t) = Event[f].ts
             /\ \A f \in History(k, G) : first(t) =< Event[f].ts
             /\ first(t) \in Nat
  <2>1. /\ \E f \in History(k, G) : first(t) = Event[f].ts
        /\ \A f \in History(k, G) : first(t) =< Event[f].ts
    <3>1. History(k, G) # {} /\ G \in SUBSET FollowEvents
      BY <1>1, <1>6
    <3> HIDE DEF k, G
    <3> QED
      BY <1>1, <1>5, <3>1, FirstFollow
  <2> QED
    BY <2>1, <1>1, EventFields DEF History
<1>8. /\ order(e) =< old.latest => new = [old EXCEPT !.first_ts = first(old.latest_ts)]
      /\ ~ (order(e) =< old.latest) =>
           new = [latest |-> order(e), latest_ts |-> Event[e].ts, first_ts |-> first(Event[e].ts)]
  BY DEF FollowRecord
<1> HIDE DEF first, new
<1>9. /\ new \in FolloweeRow
      /\ order(e) =< old.latest => new.latest = old.latest /\ new.latest_ts = old.latest_ts
      /\ ~ (order(e) =< old.latest) => new.latest = order(e) /\ new.latest_ts = Event[e].ts
      /\ \E t : new.first_ts = first(t)
  <2>1. first(old.latest_ts) \in Nat /\ first(Event[e].ts) \in Nat
    BY <1>7
  <2> QED
    BY <1>1, <1>8, <2>1 DEF FolloweeRow
<1>10. RowOf(new, History(k, G))
  <2>1. \E f \in History(k, G) : /\ new.latest = order(f) /\ new.latest_ts = Event[f].ts
                                  /\ \A g \in History(k, G) : order(g) =< order(f)
    <3>1. CASE order(e) =< old.latest
      <4>1. History(k, H) # {}
        BY <3>1, <1>1, <1>4, RowKind DEF History
      <4>2. PICK f \in History(k, H) : /\ old.latest = order(f) /\ old.latest_ts = Event[f].ts
                                        /\ \A g \in History(k, H) : order(g) =< order(f)
        BY <4>1, <1>4 DEF RowOf
      <4> QED
        BY <3>1, <4>2, <1>6, <1>9
    <3>2. CASE ~ (order(e) =< old.latest)
      <4>1. \A g \in History(k, H) : order(g) =< old.latest /\ order(g) \in Nat
        BY <1>1, <1>4, EventFields DEF RowOf, History
      <4>2. \A g \in History(k, G) : order(g) =< order(e)
        BY <4>1, <3>2, <1>1, <1>6 DEF FolloweeRow
      <4> QED
        BY <3>2, <4>2, <1>6, <1>9
    <3> QED
      BY <3>1, <3>2
  <2> QED
    BY <2>1, <1>6, <1>7, <1>9 DEF RowOf
<1>11. new # NoFollow
  BY <1>9, <1>10, <1>6, <1>1, RowKind DEF History
<1>12. order(e) =< old.latest => <<k[2], k[1]>> \in ids_followers
  <2>1. order(e) =< old.latest => old # NoFollow
    BY <1>1 DEF NoFollow
  <2> QED
    BY <2>1, <1>1 DEF TableInv, FollowersMirrorFollowees
<1>13. FollowersMirrorFollowees'
  <2>1. ids_followers' = IF new = NoFollow THEN ids_followers \ {<<k[2], k[1]>>}
                         ELSE ids_followers \cup {<<k[2], k[1]>>}
    BY <1>3, <1>11, <1>12
  <2> QED
    BY <2>1, <1>1, <1>3, MirrorStep DEF TableInv
<1>14. FollowTypeOK'
  BY <1>1, <1>3, <1>9 DEF TableInv, FollowTypeOK, Pairs, NotifiedChannels, Channels
<1>15. BoundaryExact'
  <2> SUFFICES ASSUME NEW p \in Pairs
               PROVE  /\ \A u \in Unfollows(p)' : order(u) =< ids_unfollowed[p]
                      /\ ids_unfollowed[p] = 0 \/ \E u \in Unfollows(p)' : order(u) = ids_unfollowed[p]
    BY <1>3 DEF BoundaryExact, order
  <2>1. Unfollows(p)' = Unfollows(p)
    BY DEF Unfollows
  <2> QED
    BY <2>1 DEF TableInv, BoundaryExact
<1>16. HistoryExact'
  BY <1>2, <1>3 DEF TableInv, HistoryExact
<1>17. RowsExact'
  <2> SUFFICES ASSUME NEW p \in Pairs
               PROVE  RowOf(ids_followees[p], History(p, ids_follow_events))'
    BY DEF RowsExact
  <2>1. CASE p = k
    BY <2>1, <1>1, <1>3, <1>10 DEF TableInv, FollowTypeOK, RowOf, History
  <2>2. CASE p # k
    <3>1. ids_followees'[p] = ids_followees[p] /\ History(p, G) = History(p, H)
      BY <2>2, <1>3 DEF TableInv, FollowTypeOK, History
    <3> QED
      BY <3>1, <1>3 DEF TableInv, RowsExact, RowOf, History
  <2> QED
    BY <2>1, <2>2
<1> QED
  BY <1>13, <1>14, <1>15, <1>16, <1>17 DEF TableInv

\* insert_unfollow_tx on an unfollow that moves the boundary keeps them exact.
LEMMA UnfollowStep ==
  ASSUME TableInv, NEW e \in FollowEvents, e \notin processed, hooks = {},
         processed' = processed \cup {e},
         Event[e].unfollow, ids_unfollowed[pair(e)] < order(e), insert_unfollow(e)
  PROVE  TableInv'
<1> DEFINE k == pair(e)
           H == ids_follow_events
           G == prune_follow_events_through(e)
           old == ids_followees[k]
           new == UnfollowRecord(e, G)
           first(t) == first_follow_ts_after(k, order(e), G, t)
<1>1. /\ k \in Pairs /\ order(e) \in Nat /\ order(e) > 0
      /\ ids_unfollowed[k] \in Nat /\ old \in FolloweeRow
      /\ H \subseteq FollowEvents /\ G \subseteq H
      /\ k[1] = Event[e].author /\ k[2] = Event[e].followee
  BY EventFields DEF TableInv, FollowTypeOK, prune_follow_events_through
<1>2. ~ (order(e) =< ids_unfollowed[k])
  BY <1>1
<1>3. /\ ids_follow_events' = G
      /\ ids_followees' = [ids_followees EXCEPT ![k] = new]
      /\ ids_followers' = ids_followers \ IF ~ EndsFollow(e) THEN {} ELSE {<<k[2], k[1]>>}
      /\ ids_unfollowed' = [ids_unfollowed EXCEPT ![k] = order(e)]
      /\ hooks' = NotifiedChannels(e)
  BY <1>2 DEF insert_unfollow
<1>4. RowOf(old, History(k, H))
  BY <1>1 DEF TableInv, RowsExact
<1>5. /\ History(k, G) = {f \in History(k, H) : order(e) < order(f)}
      /\ {f \in G : pair(f) = k /\ order(e) < order(f)} = History(k, G)
  BY DEF prune_follow_events_through, History
<1>6. \A f \in History(k, H) : order(f) \in Nat /\ order(f) =< old.latest
  BY <1>1, <1>4, EventFields DEF RowOf, History
<1>7. /\ new \in FolloweeRow /\ RowOf(new, History(k, G))
      /\ ids_followers' = IF new = NoFollow THEN ids_followers \ {<<k[2], k[1]>>}
                          ELSE ids_followers \cup {<<k[2], k[1]>>}
  <2>1. CASE order(e) < old.latest
    <3>1. PICK f \in History(k, H) : /\ old.latest = order(f) /\ old.latest_ts = Event[f].ts
                                      /\ \A g \in History(k, H) : order(g) =< order(f)
      <4>1. History(k, H) # {}
        BY <1>1, <1>4, <2>1, RowKind DEF History
      <4> QED
        BY <4>1, <1>4 DEF RowOf
    <3>2. f \in History(k, G)
      BY <3>1, <1>5, <2>1
    <3>3. /\ \E g \in History(k, G) : first(old.latest_ts) = Event[g].ts
          /\ \A g \in History(k, G) : first(old.latest_ts) =< Event[g].ts
      <4>1. /\ History(k, G) # {} /\ G \in SUBSET FollowEvents
            /\ History(k, G) = {f_1 \in G : pair(f_1) = k /\ order(e) < order(f_1)}
        BY <1>1, <1>5, <3>2
      <4> HIDE DEF k, G, old
      <4> QED
        BY <1>1, <4>1, FirstFollow
    <3>4. first(old.latest_ts) \in Nat
      BY <3>3, <1>1, EventFields DEF History
    <3>5. new = [old EXCEPT !.first_ts = first(old.latest_ts)]
      BY <2>1 DEF UnfollowRecord
    <3> HIDE DEF first, new
    <3>6. /\ new \in FolloweeRow /\ new.latest = old.latest /\ new.latest_ts = old.latest_ts
          /\ new.first_ts = first(old.latest_ts)
      BY <3>4, <3>5, <1>1 DEF FolloweeRow
    <3>7. RowOf(new, History(k, G))
      BY <3>1, <3>2, <3>3, <3>6, <1>5 DEF RowOf
    <3>8. new # NoFollow /\ old # NoFollow
      BY <3>6, <1>1, <2>1 DEF NoFollow, FolloweeRow
    <3>9. /\ ~ EndsFollow(e) /\ <<k[2], k[1]>> \in ids_followers
      BY <3>8, <1>1, <2>1 DEF TableInv, FollowersMirrorFollowees, EndsFollow, FolloweeRow
    <3> QED
      BY <3>6, <3>7, <3>8, <3>9, <1>3
  <2>2. CASE ~ (order(e) < old.latest)
    <3>1. new = NoFollow /\ new \in FolloweeRow
      BY <2>2 DEF UnfollowRecord, NoFollow, FolloweeRow
    <3>2. History(k, G) = {}
      BY <1>1, <1>5, <1>6, <2>2 DEF FolloweeRow
    <3>3. EndsFollow(e)
      BY <1>1, <2>2 DEF EndsFollow, FolloweeRow
    <3> QED
      BY <3>1, <3>2, <3>3, <1>3 DEF RowOf
  <2> QED
    BY <2>1, <2>2
<1> HIDE DEF new, first
<1>8. FollowersMirrorFollowees'
  BY <1>7, <1>1, <1>3, MirrorStep DEF TableInv
<1>9. FollowTypeOK'
  <2>1. ids_followers' \subseteq Pairs
    BY <1>1, <1>7 DEF TableInv, FollowTypeOK, Pairs
  <2>2. hooks' \subseteq Channels
    BY <1>3 DEF NotifiedChannels, Channels
  <2> QED
    BY <1>1, <1>3, <1>7, <2>1, <2>2 DEF TableInv, FollowTypeOK
<1>10. \A p \in Pairs : ids_unfollowed'[p] = IF p = k THEN order(e) ELSE ids_unfollowed[p]
  BY <1>1, <1>3 DEF TableInv, FollowTypeOK
<1>11. BoundaryExact'
  <2> SUFFICES ASSUME NEW p \in Pairs
               PROVE  /\ \A u \in Unfollows(p)' : order(u) =< ids_unfollowed'[p]
                      /\ \/ ids_unfollowed'[p] = 0
                         \/ \E u \in Unfollows(p)' : order(u) = ids_unfollowed'[p]
    BY DEF BoundaryExact, order
  <2>1. Unfollows(p)' = Unfollows(p) \cup IF p = k THEN {e} ELSE {}
    BY DEF Unfollows
  <2>2. \A u \in Unfollows(p) : order(u) \in Nat /\ order(u) =< ids_unfollowed[p]
    BY EventFields DEF TableInv, FollowTypeOK, BoundaryExact, Unfollows
  <2>3. CASE p = k
    BY <2>1, <2>2, <2>3, <1>1, <1>10
  <2>4. CASE p # k
    BY <2>1, <2>4, <1>10 DEF TableInv, BoundaryExact
  <2> QED
    BY <2>3, <2>4
<1>12. HistoryExact'
  <2>1. \A f \in processed : f \in FollowEvents /\ pair(f) \in Pairs /\ order(f) \in Nat
    BY EventFields DEF TableInv, FollowTypeOK
  <2>2. \A f \in processed : ids_unfollowed'[pair(f)] < order(f) <=>
          ids_unfollowed[pair(f)] < order(f) /\ (pair(f) = k => order(e) < order(f))
    BY <2>1, <1>1, <1>10
  <2> QED
    BY <2>2, <1>3 DEF TableInv, HistoryExact, prune_follow_events_through
<1>13. RowsExact'
  <2> SUFFICES ASSUME NEW p \in Pairs
               PROVE  RowOf(ids_followees[p], History(p, ids_follow_events))'
    BY DEF RowsExact
  <2>1. CASE p = k
    BY <2>1, <1>1, <1>3, <1>7 DEF TableInv, FollowTypeOK, RowOf, History
  <2>2. CASE p # k
    <3>1. ids_followees'[p] = ids_followees[p] /\ History(p, G) = History(p, H)
      BY <2>2, <1>3 DEF TableInv, FollowTypeOK, History, prune_follow_events_through
    <3> QED
      BY <3>1, <1>3 DEF TableInv, RowsExact, RowOf, History
  <2> QED
    BY <2>1, <2>2
<1> QED
  BY <1>8, <1>9, <1>11, <1>12, <1>13 DEF TableInv

-----------------------------------------------------------------------------
(* The tables *)

LEMMA ProcessStep ==
  ASSUME TableInv, NEW e \in FollowEvents, process(e)
  PROVE  TableInv'
<1>1. /\ hooks = {} /\ e \notin processed /\ processed' = processed \cup {e}
      /\ IF Event[e].unfollow THEN insert_unfollow(e) ELSE insert_follow(e)
  BY DEF process
<1>2. order(e) \in Nat /\ ids_unfollowed[pair(e)] \in Nat /\ Event[e].unfollow \in BOOLEAN
  BY EventFields DEF TableInv, FollowTypeOK
<1>3. CASE order(e) =< ids_unfollowed[pair(e)]
  <2>1. /\ UNCHANGED <<ids_followees, ids_followers, ids_follow_events, ids_unfollowed>>
        /\ hooks' = {}
    BY <1>1, <1>2, <1>3 DEF insert_unfollow, insert_follow, ClosedEpoch
  <2> QED
    BY <1>1, <1>3, <2>1, StaleStep
<1>4. CASE ~ (order(e) =< ids_unfollowed[pair(e)]) /\ Event[e].unfollow
  BY <1>1, <1>2, <1>4, UnfollowStep
<1>5. CASE ~ (order(e) =< ids_unfollowed[pair(e)]) /\ ~ Event[e].unfollow
  BY <1>1, <1>5, FollowStep DEF ClosedEpoch
<1> QED
  BY <1>2, <1>3, <1>4, <1>5

LEMMA TablesInductive ==
  /\ FollowInit => TableInv
  /\ TableInv /\ [FollowNext]_followVars => TableInv'
<1>1. FollowInit => TableInv
  <2> SUFFICES ASSUME FollowInit PROVE TableInv
    OBVIOUS
  <2>1. FollowTypeOK
    BY DEF FollowInit, FollowTypeOK, FolloweeRow, NoFollow
  <2>2. BoundaryExact /\ HistoryExact
    BY DEF FollowInit, BoundaryExact, HistoryExact, Unfollows
  <2>3. RowsExact /\ FollowersMirrorFollowees
    BY DEF FollowInit, RowsExact, RowOf, History, FollowersMirrorFollowees
  <2> QED
    BY <2>1, <2>2, <2>3 DEF TableInv
<1>2. ASSUME TableInv,
             UNCHANGED <<processed, ids_followees, ids_followers, ids_follow_events, ids_unfollowed>>,
             hooks' \subseteq Channels
      PROVE  TableInv'
  <2>1. FollowTypeOK' /\ HistoryExact' /\ FollowersMirrorFollowees'
    BY <1>2 DEF TableInv, FollowTypeOK, HistoryExact, FollowersMirrorFollowees
  <2>2. BoundaryExact'
    BY <1>2 DEF TableInv, BoundaryExact, Unfollows
  <2>3. RowsExact'
    BY <1>2 DEF TableInv, RowsExact, RowOf, History
  <2> QED
    BY <2>1, <2>2, <2>3 DEF TableInv
<1>3. ASSUME TableInv, [FollowNext]_followVars PROVE TableInv'
  <2>1. CASE \E e \in FollowEvents : process(e)
    BY <1>3, <2>1, ProcessStep
  <2>2. CASE publish \/ reopen
    BY <1>2, <1>3, <2>2 DEF publish, reopen
  <2>3. CASE UNCHANGED followVars
    BY <1>2, <1>3, <2>3 DEF followVars, TableInv, FollowTypeOK
  <2> QED
    BY <1>3, <2>1, <2>2, <2>3 DEF FollowNext
<1> QED
  BY <1>1, <1>3

\* The tables in the words of the property: in terms of the processed events alone.
LEMMA TablesImply ==
  ASSUME TableInv
  PROVE  FollowTablesExact
<1>1. \A k \in Pairs : OpenEpoch(k) = History(k, ids_follow_events)
  <2> SUFFICES ASSUME NEW k \in Pairs
               PROVE  OpenEpoch(k) = History(k, ids_follow_events)
    OBVIOUS
  <2>1. ASSUME NEW e \in processed, pair(e) = k
        PROVE  (\A u \in Unfollows(k) : order(u) < order(e)) <=> ids_unfollowed[k] < order(e)
    <3>1. order(e) \in Nat /\ order(e) > 0 /\ ids_unfollowed[k] \in Nat
      BY EventFields DEF TableInv, FollowTypeOK
    <3>2. \A u \in Unfollows(k) : order(u) \in Nat /\ order(u) =< ids_unfollowed[k]
      BY EventFields DEF TableInv, FollowTypeOK, BoundaryExact, Unfollows
    <3>3. ids_unfollowed[k] = 0 \/ \E u \in Unfollows(k) : order(u) = ids_unfollowed[k]
      BY DEF TableInv, BoundaryExact
    <3> QED
      BY <3>1, <3>2, <3>3
  <2> QED
    BY <2>1 DEF OpenEpoch, History, TableInv, HistoryExact
<1>2. FollowConverges
  <2> SUFFICES ASSUME NEW k \in Pairs
               PROVE  IF OpenEpoch(k) = {} THEN ids_followees[k] = NoFollow
                      ELSE /\ \E e \in OpenEpoch(k) : ids_followees[k].latest = order(e)
                           /\ \E e \in OpenEpoch(k) : ids_followees[k].first_ts = Event[e].ts
                           /\ \A e \in OpenEpoch(k) : /\ order(e) =< ids_followees[k].latest
                                                       /\ ids_followees[k].first_ts =< Event[e].ts
    BY DEF FollowConverges
  <2>1. RowOf(ids_followees[k], OpenEpoch(k))
    BY <1>1 DEF TableInv, RowsExact
  <2> QED
    BY <2>1 DEF RowOf
<1>3. HistoryIsOpenEpochs
  <2>1. \A e \in ids_follow_events : pair(e) \in Pairs
    BY EventFields DEF TableInv, FollowTypeOK
  <2> QED
    BY <1>1, <2>1 DEF HistoryIsOpenEpochs, History
<1> QED
  BY <1>2, <1>3 DEF FollowTablesExact, TableInv

\* Whatever follows and unfollows are processed in whatever order, ids_followees,
\* ids_followers and ids_follow_events are functions of the set of processed events
\* (insert_follow_tx, insert_unfollow_tx).
THEOREM FollowTablesCorrect == FollowSpec => []FollowTablesExact
<1>1. FollowSpec => []TableInv
  BY TablesInductive, PTL DEF FollowSpec
<1>2. TableInv => FollowTablesExact
  BY TablesImply
<1> QED
  BY <1>1, <1>2, PTL

-----------------------------------------------------------------------------
(* The watch channels *)

Now(c) == Snapshot(ids_followees, ids_followers)[c]

\* The channels that no hook is about to update are current already.
ChannelInv ==
  /\ published = [c \in Channels |-> published[c]]
  /\ \A c \in Channels \ hooks : published[c] = Now(c)

LEMMA SnapshotChannels ==
  ASSUME NEW fe, NEW fr, NEW f, f = [c \in Channels |-> f[c]],
         \A c \in Channels : f[c] = Snapshot(fe, fr)[c]
  PROVE  f = Snapshot(fe, fr)
<1>1. Snapshot(fe, fr) = [c \in Channels |-> Snapshot(fe, fr)[c]]
  BY DEF Snapshot, Channels
<1> QED
  BY <1>1

\* What a change of one row does to the three channels.
LEMMA OneRowChanged ==
  ASSUME NEW fe, NEW fe2, NEW fr, NEW fr2, NEW k \in Pairs,
         \A p \in Pairs : p # k => fe2[p] = fe[p],
         \A p \in Pairs : p # <<k[2], k[1]>> => (p \in fr2 <=> p \in fr)
  PROVE  /\ k[1] # SelfId => Snapshot(fe2, fr2)["followees"] = Snapshot(fe, fr)["followees"]
         /\ k[2] # SelfId => Snapshot(fe2, fr2)["followers"] = Snapshot(fe, fr)["followers"]
         /\ k[1] # SelfId /\ fe2[<<SelfId, k[1]>>] = NoFollow
              => Snapshot(fe2, fr2)["wot"] = Snapshot(fe, fr)["wot"]
<1>1. k[1] \in Ids /\ k[2] \in Ids /\ k = <<k[1], k[2]>>
  BY DEF Pairs
<1>2. \A a, b \in Ids : a # k[1] => fe2[<<a, b>>] = fe[<<a, b>>]
  BY <1>1 DEF Pairs
<1>3. \A a \in Ids : a # k[1] => read_followees(fe2, a) = read_followees(fe, a)
  BY <1>2 DEF read_followees
<1>4. k[1] # SelfId => Snapshot(fe2, fr2)["followees"] = Snapshot(fe, fr)["followees"]
  <2>1. ASSUME k[1] # SelfId
        PROVE  [b \in read_followees(fe2, SelfId) |-> fe2[<<SelfId, b>>]]
                 = [b \in read_followees(fe, SelfId) |-> fe[<<SelfId, b>>]]
    <3>1. read_followees(fe2, SelfId) = read_followees(fe, SelfId)
      BY <1>3, <2>1, SelfAssumption
    <3>2. \A b \in read_followees(fe, SelfId) : fe2[<<SelfId, b>>] = fe[<<SelfId, b>>]
      BY <1>2, <2>1, SelfAssumption DEF read_followees
    <3> QED
      BY <3>1, <3>2
  <2> QED
    BY <2>1 DEF Snapshot
<1>5. k[2] # SelfId => Snapshot(fe2, fr2)["followers"] = Snapshot(fe, fr)["followers"]
  <2>1. k[2] # SelfId => \A a \in Ids : <<SelfId, a>> \in fr2 <=> <<SelfId, a>> \in fr
    BY <1>1, SelfAssumption DEF Pairs
  <2>2. k[2] # SelfId => {a \in Ids : <<SelfId, a>> \in fr2} = {a \in Ids : <<SelfId, a>> \in fr}
    BY <2>1
  <2> QED
    BY <2>2 DEF Snapshot
<1>6. ASSUME k[1] # SelfId, fe2[<<SelfId, k[1]>>] = NoFollow
      PROVE  Snapshot(fe2, fr2)["wot"] = Snapshot(fe, fr)["wot"]
  <2>1. read_followees(fe2, SelfId) = read_followees(fe, SelfId)
    BY <1>3, <1>6, SelfAssumption
  <2>2. \A b \in read_followees(fe, SelfId) :
          /\ b \in Ids /\ b # k[1]
          /\ fe2[<<SelfId, b>>] = fe[<<SelfId, b>>]
          /\ read_followees(fe2, b) = read_followees(fe, b)
    BY <1>1, <1>2, <1>3, <1>6, <2>1, SelfAssumption DEF read_followees
  <2>3. compute_wot(fe2) = compute_wot(fe)
    <3>1. [b \in read_followees(fe2, SelfId) |-> fe2[<<SelfId, b>>]]
            = [b \in read_followees(fe, SelfId) |-> fe[<<SelfId, b>>]]
      BY <2>1, <2>2
    <3> DEFINE X(f) == {c \in Ids \ {SelfId} :
                          /\ c \notin read_followees(f, SelfId)
                          /\ \E b \in read_followees(f, SelfId) : c \in read_followees(f, b)}
    <3>2. X(fe2) = X(fe)
      BY <2>1, <2>2
    <3> QED
      BY <3>1, <3>2 DEF compute_wot
  <2> QED
    BY <2>3 DEF Snapshot
<1> QED
  BY <1>4, <1>5, <1>6

LEMMA ProcessNotifies ==
  ASSUME TableInv, ChannelInv, NEW e \in FollowEvents, process(e)
  PROVE  ChannelInv'
<1> DEFINE k == pair(e)
<1>1. /\ k \in Pairs /\ k[1] = Event[e].author /\ k[2] = Event[e].followee
      /\ Event[e].unfollow \in BOOLEAN /\ order(e) \in Nat
  BY EventFields
<1>2. /\ hooks = {} /\ published' = published
      /\ IF Event[e].unfollow THEN insert_unfollow(e) ELSE insert_follow(e)
  BY DEF process
<1>3. \/ UNCHANGED <<ids_followees, ids_followers>>
      \/ /\ hooks' = NotifiedChannels(e)
         /\ \A p \in Pairs : p # k => ids_followees'[p] = ids_followees[p]
         /\ \A p \in Pairs : p # <<k[2], k[1]>> => (p \in ids_followers' <=> p \in ids_followers)
  <2>1. CASE Event[e].unfollow
    BY <1>1, <1>2, <2>1 DEF insert_unfollow, TableInv, FollowTypeOK
  <2>2. CASE ~ Event[e].unfollow
    <3> DEFINE new == FollowRecord(e, ids_follow_events \cup {e})
    <3>1. CASE ClosedEpoch(e)
      BY <1>2, <2>2, <3>1 DEF insert_follow
    <3>2. CASE ~ ClosedEpoch(e) /\ new # ids_followees[k]
      <4> HIDE DEF FollowRecord
      <4> QED
        BY <1>1, <1>2, <2>2, <3>2 DEF insert_follow, TableInv, FollowTypeOK
    <3>3. CASE ~ ClosedEpoch(e) /\ new = ids_followees[k]
      <4>1. order(e) =< ids_followees[k].latest
        <5>1. ids_followees[k] \in FolloweeRow
          BY <1>1 DEF TableInv, FollowTypeOK
        <5>2. ~ (order(e) =< ids_followees[k].latest) => new.latest = order(e)
          BY DEF FollowRecord
        <5> QED
          BY <1>1, <3>3, <5>1, <5>2 DEF FolloweeRow
      <4>2. ids_followers' = ids_followers
        BY <1>2, <2>2, <4>1 DEF insert_follow
      <4>3. ids_followees' = [ids_followees EXCEPT ![k] = new]
        BY <1>2, <2>2, <3>3 DEF insert_follow
      <4>4. ids_followees' = ids_followees
        <5> HIDE DEF new, k
        <5> QED
          BY <4>3, <3>3, <1>1 DEF TableInv, FollowTypeOK
      <4> QED
        BY <4>2, <4>4
    <3> QED
      BY <3>1, <3>2, <3>3
  <2> QED
    BY <2>1, <2>2, <1>1
<1>4. CASE UNCHANGED <<ids_followees, ids_followers>>
  BY <1>2, <1>4 DEF ChannelInv, Now
<1>5. CASE /\ hooks' = NotifiedChannels(e)
           /\ \A p \in Pairs : p # k => ids_followees'[p] = ids_followees[p]
           /\ \A p \in Pairs : p # <<k[2], k[1]>> => (p \in ids_followers' <=> p \in ids_followers)
  <2> DEFINE old == Snapshot(ids_followees, ids_followers)
             new == Snapshot(ids_followees', ids_followers')
  <2>1. /\ k[1] # SelfId => new["followees"] = old["followees"]
        /\ k[2] # SelfId => new["followers"] = old["followers"]
        /\ k[1] # SelfId /\ ids_followees'[<<SelfId, k[1]>>] = NoFollow
             => new["wot"] = old["wot"]
    BY <1>1, <1>5, OneRowChanged
  <2>2. ASSUME NEW c \in Channels, c \notin hooks'
        PROVE  new[c] = old[c]
    BY <2>1, <2>2, <1>1, <1>5 DEF NotifiedChannels, Channels
  <2> QED
    BY <1>2, <2>2 DEF ChannelInv, Now
<1> QED
  BY <1>3, <1>4, <1>5

\* The watch channels of followees, followers and web of trust hold what the tables
\* say whenever no hook is pending: NotifiedChannels names every channel that a
\* transaction can have changed (process_event_content_inserted_tx).
THEOREM WatchersCurrent == FollowSpec => []PublishedIsCurrent
<1> DEFINE I == TableInv /\ ChannelInv
<1>1. FollowInit => I
  <2>1. FollowInit => ChannelInv
    BY DEF FollowInit, ChannelInv, Now, Snapshot, Channels
  <2> QED
    BY <2>1, TablesInductive
<1>2. I /\ [FollowNext]_followVars => I'
  <2> SUFFICES ASSUME TableInv, ChannelInv, [FollowNext]_followVars PROVE ChannelInv'
    BY TablesInductive
  <2>1. CASE \E e \in FollowEvents : process(e)
    BY <2>1, ProcessNotifies
  <2>2. CASE publish
    BY <2>2 DEF publish, ChannelInv, Now
  <2>3. CASE reopen
    BY <2>3 DEF reopen, ChannelInv, Now, Snapshot, Channels
  <2>4. CASE UNCHANGED followVars
    BY <2>4 DEF followVars, ChannelInv, Now
  <2> QED
    BY <2>1, <2>2, <2>3, <2>4 DEF FollowNext
<1>3. I => PublishedIsCurrent
  <2> SUFFICES ASSUME ChannelInv, hooks = {}
               PROVE  published = Snapshot(ids_followees, ids_followers)
    BY DEF PublishedIsCurrent
  <2>1. published = [c \in Channels |-> published[c]] /\ \A c \in Channels : published[c] = Now(c)
    BY DEF ChannelInv
  <2> QED
    BY <2>1, SnapshotChannels DEF Now
<1> QED
  BY <1>1, <1>2, <1>3, PTL DEF FollowSpec

-----------------------------------------------------------------------------
(* The fetcher of new heads *)

USE DEF dbVars, channelVars, scanVars, mainVars, workerVars

\* A worker has a lease from taking an author until dropping it.
LeaseShape ==
  \A w \in Workers : lease[w] # 0 <=> worker[w] \in {"lookup", "fetch", "drop"}

\* What is left of a page is in front of the cursor, and a web of trust other
\* than the page's has yet to be seen.
ScanShape ==
  /\ \A b \in page : reconcile_cursor < b
  /\ main = "enqueue" => page_wot = wot \/ wot_changed
  /\ main = "start" => reconcile_cursor = 0

FetcherInv ==
  /\ FetcherTypeOK /\ LeaseShape /\ ScanShape
  /\ OneWorkerPerAuthor /\ NoLostWakeup /\ NothingForgotten

-----------------------------------------------------------------------------
(* Type correctness *)

\* The queue stays within its bound: try_enqueue adds only below it.
LEMMA EnqueueBound ==
  ASSUME FetcherTypeOK, NEW a \in Ids, Enqueue(a)
  PROVE  /\ pending' \subseteq Ids /\ Cardinality(pending') =< MaxPending
         /\ unsent' \in BOOLEAN
<1>1. IsFiniteSet(pending) /\ Cardinality(pending) \in Nat
  BY FiniteIdsAssumption, FS_Subset, FS_CardinalityType DEF FetcherTypeOK
<1>2. Cardinality(pending \cup {a}) = IF a \in pending THEN Cardinality(pending)
                                      ELSE Cardinality(pending) + 1
  BY <1>1, FS_AddElement
<1> QED  BY <1>1, <1>2, QueueAssumption DEF FetcherTypeOK, Enqueue, Refused

\* Taking an author leaves the queue within its bound.
LEMMA RemoveBound ==
  ASSUME NEW S, IsFiniteSet(S), NEW a, NEW n \in Nat, Cardinality(S) =< n
  PROVE  Cardinality(S \ {a}) =< n
<1>1. Cardinality(S) \in Nat
  BY FS_CardinalityType
<1>2. Cardinality(S \ {a}) = IF a \in S THEN Cardinality(S) - 1 ELSE Cardinality(S)
  BY FS_RemoveElement
<1> QED  BY <1>1, <1>2

\* The database's writers keep the types.
LEMMA WriteTypeOK ==
  ASSUME FetcherTypeOK, Write \/ broadcast
  PROVE  FetcherTypeOK'
<1>1. CASE \E a \in Ids : write_head(a)
  BY <1>1, FetcherBoundAssumption DEF FetcherTypeOK, write_head
<1>2. CASE \E w \in SUBSET (Ids \ {SelfId}) : publish_wot(w)
  BY <1>2, FetcherBoundAssumption DEF FetcherTypeOK, publish_wot
<1>3. CASE broadcast
  <2>1. hook \in Ids
    BY <1>3 DEF FetcherTypeOK, broadcast
  <2>2. inbox' \in Seq(Ids) /\ Len(inbox') =< Capacity
    BY <1>3, <2>1, QueueAssumption DEF FetcherTypeOK, broadcast
  <2> QED  BY <1>3, <2>2 DEF FetcherTypeOK, broadcast
<1> QED  BY <1>1, <1>2, <1>3 DEF Write

\* The main task keeps the types.
LEMMA MainTypeOK ==
  ASSUME FetcherTypeOK, Main
  PROVE  FetcherTypeOK'
<1> USE IdsAssumption DEF FetcherTypeOK, MainStates
<1>1. CASE start
  BY <1>1 DEF start
<1>2. CASE notify
  BY <1>2 DEF notify
<1>3. CASE recv_lagged
  BY <1>3 DEF recv_lagged, Reconcile
<1>4. CASE recv
  <2>1. Head(inbox) \in Ids /\ inbox' \in Seq(Ids) /\ Len(inbox') =< Capacity
    BY <1>4, QueueAssumption DEF recv
  <2>2. /\ pending' \subseteq Ids /\ Cardinality(pending') =< MaxPending
        /\ unsent' \in BOOLEAN
    BY <1>4, <2>1, EnqueueBound DEF recv, NotEnqueued
  <2>3. /\ reconcile_cursor' \in Ids \cup {0}
        /\ reconciliation_pending' \in BOOLEAN /\ reconcile_again' \in BOOLEAN
        /\ page' \subseteq Ids /\ reached_end' \in BOOLEAN /\ page_wot' \subseteq Ids
    BY <1>4 DEF recv, QueueFull
  <2> QED  BY <1>4, <2>1, <2>2, <2>3 DEF recv
<1>5. CASE changed
  BY <1>5 DEF changed
<1>6. CASE admitted_all
  BY <1>6 DEF admitted_all, Reconcile
<1>7. CASE notified_space
  BY <1>7 DEF notified_space
<1>8. CASE read_page
  <2>1. page' \subseteq Ids /\ reached_end' \in BOOLEAN
    BY <1>8 DEF read_page, Candidates
  <2> QED  BY <1>8, <2>1 DEF read_page
<1>9. CASE snapshot
  BY <1>9 DEF snapshot
<1>10. CASE page_done
  BY <1>10 DEF page_done, EndPage
<1>11. CASE join_next
  <2>1. 0 \in 0 .. MaxHeads
    BY FetcherBoundAssumption
  <2>2. /\ worker' \in [Workers -> WorkerStates] /\ lease' \in [Workers -> Ids \cup {0}]
        /\ observed' \in [Workers -> 0 .. MaxHeads]
    BY <1>11, <2>1 DEF join_next, WorkerStates
  <2> QED  BY <1>11, <2>2 DEF join_next
<1>12. CASE \E a \in Ids : admit(a)
  <2>1. PICK a \in Ids : admit(a)
    BY <1>12
  <2>2. /\ pending' \subseteq Ids /\ Cardinality(pending') =< MaxPending
        /\ unsent' \in BOOLEAN
    BY <2>1, EnqueueBound DEF admit, NotEnqueued
  <2> QED  BY <2>1, <2>2 DEF admit
<1>13. CASE \E a \in Ids : enqueue_reconciled(a)
  <2>1. PICK a \in Ids : enqueue_reconciled(a)
    BY <1>13
  <2>2. /\ pending' \subseteq Ids /\ Cardinality(pending') =< MaxPending
        /\ unsent' \in BOOLEAN
    BY <2>1, EnqueueBound DEF enqueue_reconciled, NotEnqueued
  <2>3. /\ reconcile_cursor' \in Ids \cup {0}
        /\ reconciliation_pending' \in BOOLEAN /\ main' \in MainStates
        /\ page' \subseteq Ids /\ reached_end' \in BOOLEAN /\ page_wot' \subseteq Ids
    BY <2>1 DEF enqueue_reconciled, EndPage
  <2> QED  BY <2>1, <2>2, <2>3 DEF enqueue_reconciled
<1> QED
  BY <1>1, <1>2, <1>3, <1>4, <1>5, <1>6, <1>7, <1>8, <1>9, <1>10, <1>11, <1>12, <1>13
     DEF Main

\* The workers keep the types and the shape of leases.
LEMMA WorkTypeOK ==
  ASSUME FetcherTypeOK, LeaseShape, NEW w \in Workers, Work(w) \/ fail(w)
  PROVE  FetcherTypeOK' /\ LeaseShape'
<1> USE IdsAssumption, FetcherBoundAssumption DEF FetcherTypeOK, LeaseShape, WorkerStates
<1>1. CASE take_work(w)
  <2>1. CASE \E a \in Eligible :
                /\ worker' = [worker EXCEPT ![w] = "lookup"]
                /\ lease' = [lease EXCEPT ![w] = a]
                /\ pending' = pending \ {a}
                /\ in_progress' = in_progress \cup {a}
    <3>1. PICK a \in Eligible :
                /\ worker' = [worker EXCEPT ![w] = "lookup"]
                /\ lease' = [lease EXCEPT ![w] = a]
                /\ pending' = pending \ {a}
                /\ in_progress' = in_progress \cup {a}
      BY <2>1
    <3>2. a \in Ids /\ a # 0
      BY <3>1 DEF Eligible
    <3>3. IsFiniteSet(pending)
      BY FiniteIdsAssumption, FS_Subset
    <3>4. Cardinality(pending') =< MaxPending
      BY <3>1, <3>3, RemoveBound, QueueAssumption
    <3> QED  BY <1>1, <3>1, <3>2, <3>4 DEF take_work
  <2> QED  BY <1>1, <2>1 DEF take_work
<1>2. CASE wait(w)
  BY <1>2 DEF wait
<1>3. CASE get_heads(w)
  BY <1>3 DEF get_heads
<1>4. CASE fetch_events_for_heads(w)
  BY <1>4 DEF fetch_events_for_heads
<1> HIDE FetcherBoundAssumption
<1>0. 0 \in 0 .. MaxHeads
  BY FetcherBoundAssumption
<1>5. CASE complete_work(w)
  <2>1. /\ worker' \in [Workers -> WorkerStates] /\ lease' \in [Workers -> Ids \cup {0}]
        /\ observed' \in [Workers -> 0 .. MaxHeads] /\ LeaseShape'
    BY <1>5, <1>0 DEF complete_work
  <2> QED  BY <1>5, <2>1 DEF complete_work
<1>6. CASE complete_notify(w)
  BY <1>6 DEF complete_notify, Wakeup
<1>7. CASE fail(w)
  <2>1. /\ worker' \in [Workers -> WorkerStates] /\ lease' \in [Workers -> Ids \cup {0}]
        /\ observed' \in [Workers -> 0 .. MaxHeads] /\ LeaseShape'
    BY <1>7, <1>0 DEF fail
  <2> QED  BY <1>7, <2>1 DEF fail, Wakeup
<1> QED  BY <1>1, <1>2, <1>3, <1>4, <1>5, <1>6, <1>7 DEF Work
-----------------------------------------------------------------------------
(* Shapes *)

\* The leases do not change but in the workers, and when the task stops.
LEMMA LeaseShapeKept ==
  ASSUME FetcherTypeOK, LeaseShape, Write \/ broadcast \/ Main
  PROVE  LeaseShape'
<1>1. CASE join_next
  BY <1>1 DEF LeaseShape, join_next
<1>2. CASE ~ join_next
  <2>1. UNCHANGED <<lease, worker>>
    BY <1>2 DEF Write, broadcast, Main, write_head, publish_wot, start, notify,
       recv_lagged, recv, changed, admitted_all, notified_space, read_page, snapshot,
       page_done, admit, enqueue_reconciled
  <2> QED  BY <2>1 DEF LeaseShape
<1> QED  BY <1>1, <1>2

\* A page is read in front of the cursor and eaten up from its start.
LEMMA ScanShapeKept ==
  ASSUME FetcherTypeOK, ScanShape, FetcherNext
  PROVE  ScanShape'
<1> USE DEF ScanShape
<1>0. page \subseteq Ids /\ Ids \subseteq Nat \ {0} /\ reconcile_cursor \in Nat
  BY IdsAssumption DEF FetcherTypeOK
<1>1. CASE read_page
  BY <1>1, <1>0 DEF read_page, Candidates
<1>2. CASE \E a \in Ids : enqueue_reconciled(a)
  <2>1. PICK a \in Ids : enqueue_reconciled(a)
    BY <1>2
  <2>2. CASE page' = page \ {a} /\ reconcile_cursor' = a /\ UNCHANGED <<main, page_wot>>
    BY <2>1, <2>2, <1>0 DEF enqueue_reconciled
  <2>3. CASE EndPage /\ main' = "select"
    BY <2>1, <2>3 DEF enqueue_reconciled, EndPage
  <2> QED  BY <2>1, <2>2, <2>3 DEF enqueue_reconciled
<1>3. CASE page_done
  BY <1>3 DEF page_done, EndPage
<1>4. CASE recv
  <2>1. CASE Refused(Head(inbox)) /\ QueueFull /\ UNCHANGED <<page, page_wot>>
    BY <1>4, <2>1, <1>0 DEF recv, QueueFull
  <2>2. CASE UNCHANGED scanVars
    BY <1>4, <2>2 DEF recv
  <2> QED  BY <1>4, <2>1, <2>2 DEF recv
<1>5. CASE recv_lagged \/ admitted_all
  <2>1. /\ UNCHANGED <<page, page_wot>>
        /\ reconcile_cursor' \in {0, reconcile_cursor} /\ main' \in {"select", "read"}
    BY <1>5 DEF recv_lagged, admitted_all, Reconcile
  <2> QED  BY <2>1, <1>0
<1>6. CASE \E w \in SUBSET (Ids \ {SelfId}) : publish_wot(w)
  BY <1>6 DEF publish_wot
<1>7. CASE start \/ changed \/ notified_space \/ snapshot \/ join_next
  BY <1>7 DEF start, changed, notified_space, snapshot, join_next
<1>8. CASE \E a \in Ids : write_head(a) \/ admit(a)
  BY <1>8 DEF write_head, admit
<1>9. CASE broadcast \/ notify
  BY <1>9 DEF broadcast, notify
<1>10. CASE \E w \in Workers : Work(w) \/ fail(w)
  <2>1. UNCHANGED <<main, page, reconcile_cursor, page_wot, wot, wot_changed>>
    BY <1>10 DEF Work, take_work, wait, get_heads, fetch_events_for_heads,
                 complete_work, complete_notify, fail
  <2> QED  BY <2>1
<1> QED
  BY <1>1, <1>2, <1>3, <1>4, <1>5, <1>6, <1>7, <1>8, <1>9, <1>10
     DEF FetcherNext, Write, Main
-----------------------------------------------------------------------------
(* Nothing is forgotten *)

Remembered(a) == Announced(a) \/ Queued(a) \/ WillBeScanned(a) \/ Stopping

\* A page has every candidate up to its last one, and all of them if it is the
\* last page.
LEMMA PageFacts ==
  ASSUME FetcherTypeOK, read_page, NEW a \in Candidates
  PROVE  a \in page' \/ (~ reached_end' /\ \A b \in page' : b < a)
<1> DEFINE below(x) == {b \in Candidates : b < x}
<1>1. /\ IsFiniteSet(Candidates) /\ Cardinality(Candidates) \in Nat
      /\ Candidates \subseteq Nat
  BY FiniteIdsAssumption, IdsAssumption, FS_Subset, FS_CardinalityType DEF Candidates
<1>2. \A x \in Candidates :
        /\ IsFiniteSet(below(x)) /\ Cardinality(below(x)) \in Nat
        /\ Cardinality(below(x)) =< Cardinality(Candidates)
  BY <1>1, FS_Subset, FS_CardinalityType
<1>3. SUFFICES ASSUME a \notin page'
               PROVE  ~ reached_end' /\ \A b \in page' : b < a
  OBVIOUS
<1>page. page' = {x \in Candidates : Cardinality(below(x)) < MaxPending}
  BY DEF read_page
<1>end. reached_end' = (Cardinality(Candidates) < MaxPending)
  BY DEF read_page
<1> HIDE DEF below
<1>4. ~ (Cardinality(below(a)) < MaxPending)
  BY <1>3, <1>page
<1>full. ~ (Cardinality(Candidates) < MaxPending)
  BY <1>1, <1>2, <1>4, QueueAssumption
<1>5. ~ reached_end'
  BY <1>full, <1>end, Zenon
<1>6. ASSUME NEW b \in page' PROVE b < a
  <2>1. b \in Candidates /\ Cardinality(below(b)) < MaxPending
    BY <1>6, <1>page
  <2>2. SUFFICES ASSUME ~ (b < a) PROVE FALSE
    OBVIOUS
  <2>3. ASSUME NEW x \in below(a) PROVE x \in below(b)
    <3>1. x \in Candidates /\ x < a
      BY <2>3 DEF below
    <3>2. x \in Nat /\ a \in Nat /\ b \in Nat
      BY <1>1, <2>1, <3>1
    <3>3. x < b
      BY <2>2, <3>1, <3>2
    <3> QED  BY <3>1, <3>3 DEF below
  <2>4. Cardinality(below(a)) =< Cardinality(below(b))
    BY <1>2, <2>1, <2>3, FS_Subset
  <2> QED  BY <1>2, <1>4, <2>1, <2>4, QueueAssumption
<1> QED  BY <1>5, <1>6

\* The writers announce what they write.
LEMMA WriteRemembers ==
  ASSUME FetcherTypeOK, NothingForgotten, Write \/ broadcast
  PROVE  NothingForgotten'
<1> SUFFICES ASSUME NEW a \in Ids, InWot(wot, a)', (attempted[a] < heads[a])'
             PROVE  Remembered(a)'
  BY DEF NothingForgotten, Remembered
<1>1. CASE \E c \in Ids : write_head(c)
  <2>1. PICK c \in Ids : write_head(c)
    BY <1>1
  <2>2. CASE c = a
    BY <2>1, <2>2 DEF write_head, Remembered, Announced
  <2>3. CASE c # a
    <3>1. heads'[a] = heads[a]
      BY <2>1, <2>3 DEF FetcherTypeOK, write_head
    <3>2. Remembered(a)
      BY <2>1, <3>1 DEF write_head, NothingForgotten, Remembered, InWot
    <3>3. Queued(a) => Queued(a)'
      <4>1. UNCHANGED <<pending, lease, worker, observed>>
        BY <2>1 DEF write_head
      <4> QED  BY <3>1, <4>1 DEF Queued
    <3>4. Announced(a) => Announced(a)'
      BY <2>1, IdsAssumption DEF write_head, Announced
    <3>5. WillBeScanned(a) => WillBeScanned(a)'
      BY <2>1 DEF write_head, WillBeScanned, InWot
    <3>6. Stopping => Stopping'
      BY <2>1 DEF write_head, Stopping
    <3> QED  BY <3>2, <3>3, <3>4, <3>5, <3>6 DEF Remembered
  <2> QED  BY <2>2, <2>3
<1>2. CASE \E w \in SUBSET (Ids \ {SelfId}) : publish_wot(w)
  BY <1>2 DEF publish_wot, Remembered, Announced
<1>3. CASE broadcast
  <2>1. Remembered(a)
    BY <1>3 DEF broadcast, NothingForgotten, Remembered, InWot
  <2>2. Announced(a) => Announced(a)'
    <3>1. CASE Len(inbox) < Capacity
      <4>1. inbox' = Append(inbox, hook) /\ Len(inbox') = Len(inbox) + 1
        BY <1>3, <3>1 DEF broadcast, FetcherTypeOK
      <4>2. /\ inbox'[Len(inbox) + 1] = hook
            /\ \A i \in DOMAIN inbox : i \in DOMAIN inbox' /\ inbox'[i] = inbox[i]
            /\ Len(inbox) + 1 \in DOMAIN inbox'
        BY <1>3, <4>1 DEF broadcast, FetcherTypeOK
      <4> QED  BY <1>3, <4>2 DEF broadcast, Announced
    <3>2. CASE ~ (Len(inbox) < Capacity)
      <4>1. Len(inbox) >= Capacity
        BY <3>2, QueueAssumption DEF FetcherTypeOK
      <4>2. lagged'
        BY <1>3, <4>1, Zenon DEF broadcast
      <4> QED  BY <4>2 DEF Announced
    <3> QED  BY <3>1, <3>2
  <2>3. /\ Queued(a) => Queued(a)'
        /\ WillBeScanned(a) => WillBeScanned(a)'
        /\ Stopping => Stopping'
    BY <1>3 DEF broadcast, Queued, WillBeScanned, InWot, Stopping
  <2> QED  BY <2>1, <2>2, <2>3 DEF Remembered
<1> QED  BY <1>1, <1>2, <1>3 DEF Write
\* What the main task takes from a channel it queues, scans for or need not have.
LEMMA MainRemembers ==
  ASSUME FetcherTypeOK, ScanShape, NothingForgotten, Main
  PROVE  NothingForgotten'
<1> SUFFICES ASSUME NEW a \in Ids, InWot(wot, a)', (attempted[a] < heads[a])'
             PROVE  Remembered(a)'
  BY DEF NothingForgotten, Remembered
<1>stop. CASE join_next
  BY <1>stop DEF join_next, Remembered, Stopping
<1>run. CASE ~ join_next
  <2> USE DEF Main
  <2>1. UNCHANGED <<heads, attempted, wot, hook, lease, worker, observed>>
    BY <1>run DEF start, notify, recv_lagged, recv, changed, admitted_all,
       notified_space, read_page, snapshot, page_done, admit, enqueue_reconciled
  <2>2. pending \subseteq pending'
    BY <1>run DEF start, notify, recv_lagged, recv, changed, admitted_all,
       notified_space, read_page, snapshot, page_done, admit, enqueue_reconciled,
       Enqueue, NotEnqueued
  <2>3. /\ InWot(wot, a) /\ Remembered(a)
        /\ heads[a] # 0 /\ a \in Nat /\ a > 0 /\ reconcile_cursor \in Nat
        /\ page \subseteq Nat
    BY <2>1, IdsAssumption DEF NothingForgotten, Remembered, InWot, FetcherTypeOK
  <2>4. Queued(a) => Queued(a)'
    BY <2>1, <2>2 DEF Queued
  <2>5. SUFFICES ASSUME Announced(a) \/ WillBeScanned(a)
                 PROVE  Announced(a)' \/ WillBeScanned(a)' \/ a \in pending'
    <3>1. Stopping => Stopping'
      BY <1>run, <2>1 DEF start, notify, recv_lagged, recv, changed, admitted_all,
         notified_space, read_page, snapshot, page_done, admit, enqueue_reconciled,
         Stopping
    <3> QED  BY <2>3, <2>4, <3>1 DEF Remembered, Queued
  <2> HIDE DEF Main
  <2>6. CASE start
    <3>1. main' = "read" /\ reconcile_cursor' = 0
      BY <2>6 DEF start, ScanShape
    <3> QED  BY <2>3, <3>1 DEF WillBeScanned
  <2>7. CASE notify
    <3>1. UNCHANGED <<channelVars, scanVars, main>>
      BY <2>7 DEF notify
    <3> QED  BY <2>1, <2>5, <3>1 DEF Announced, WillBeScanned, InWot
  <2>8. CASE recv_lagged \/ admitted_all
    <3>1. reconcile_again' \/ (main' = "read" /\ reconcile_cursor' = 0)
      <4>1. CASE reconciliation_pending
        BY <2>8, <4>1, Zenon DEF recv_lagged, admitted_all, Reconcile
      <4>2. CASE ~ reconciliation_pending
        BY <2>8, <4>2 DEF recv_lagged, admitted_all, Reconcile
      <4> QED  BY <4>1, <4>2
    <3> QED  BY <2>3, <3>1 DEF WillBeScanned
  <2>9. CASE recv
    <3>1. /\ UNCHANGED <<main, wot_changed, lagged>>
          /\ main = "select" /\ inbox # << >> /\ inbox' = Tail(inbox)
      BY <2>9 DEF recv
    <3>2. CASE a = Head(inbox)
      <4>1. CASE Enqueue(a)
        BY <4>1 DEF Enqueue
      <4>2. CASE QueueFull
        <5>1. CASE reconciliation_pending
          BY <4>2, <5>1, Zenon DEF QueueFull, WillBeScanned
        <5>2. CASE ~ reconciliation_pending
          <6>1. reconcile_cursor' = 0 /\ reconciliation_pending'
            BY <4>2, <5>2 DEF QueueFull
          <6> QED  BY <2>3, <3>1, <6>1 DEF WillBeScanned
        <5> QED  BY <5>1, <5>2
      <4> QED  BY <2>3, <2>9, <3>2, <4>1, <4>2 DEF recv
    <3>3. CASE a # Head(inbox)
      <4>1. ASSUME Announced(a) PROVE Announced(a)'
        <5>1. ASSUME NEW i \in DOMAIN inbox, inbox[i] = a
              PROVE  \E j \in DOMAIN inbox' : inbox'[j] = a
          <6>1. i \in 1 .. Len(inbox) /\ i # 1
            BY <3>1, <3>3, <5>1 DEF FetcherTypeOK
          <6>2. i - 1 \in DOMAIN inbox' /\ inbox'[i - 1] = a
            BY <3>1, <5>1, <6>1 DEF FetcherTypeOK
          <6> QED  BY <6>2
        <5> QED  BY <2>1, <3>1, <4>1, <5>1 DEF Announced
      <4>2. ASSUME WillBeScanned(a) PROVE WillBeScanned(a)'
        <5>1. reconcile_again \/ (reconciliation_pending /\ reconcile_cursor < a)
          BY <3>1, <4>2 DEF WillBeScanned
        <5>2. CASE UNCHANGED scanVars
          BY <3>1, <5>1, <5>2 DEF WillBeScanned
        <5>3. CASE QueueFull
          <6>1. reconcile_again \/ reconciliation_pending => reconcile_again'
            BY <5>3, Zenon DEF QueueFull
          <6> QED  BY <5>1, <6>1 DEF WillBeScanned
        <5> QED  BY <2>9, <5>2, <5>3 DEF recv
      <4> QED  BY <2>5, <4>1, <4>2
    <3> QED  BY <3>2, <3>3
  <2>10. CASE changed
    <3>1. main' = "admit"
      BY <2>10 DEF changed
    <3> QED  BY <3>1 DEF WillBeScanned
  <2>11. CASE notified_space
    <3>1. /\ main = "select" /\ main' = "read"
          /\ UNCHANGED <<channelVars, scanVars>>
      BY <2>11 DEF notified_space
    <3> QED  BY <2>1, <2>5, <3>1 DEF Announced, WillBeScanned
  <2>12. CASE read_page
    <3>1. /\ main = "read" /\ main' = "snapshot"
          /\ UNCHANGED <<channelVars, reconcile_cursor, reconcile_again>>
      BY <2>12 DEF read_page
    <3>2. CASE reconcile_cursor < a
      <4>1. a \in Candidates
        BY <2>3, <3>2 DEF Candidates
      <4>2. a \in page' \/ (~ reached_end' /\ \A b \in page' : b < a)
        BY <2>12, <4>1, PageFacts
      <4> QED  BY <3>1, <3>2, <4>2 DEF WillBeScanned
    <3>3. CASE ~ (reconcile_cursor < a)
      BY <2>1, <2>5, <3>1, <3>3 DEF Announced, WillBeScanned
    <3> QED  BY <3>2, <3>3
  <2>13. CASE snapshot
    <3>1. /\ main = "snapshot" /\ main' = "enqueue" /\ page_wot' = wot
          /\ UNCHANGED <<channelVars, reconcile_cursor, reconcile_again, page, reached_end>>
      BY <2>13 DEF snapshot
    <3> QED  BY <2>1, <2>3, <2>5, <3>1 DEF Announced, WillBeScanned, InWot
  <2>14. CASE \E c \in Ids : admit(c)
    <3>1. main' = "admit"
      BY <2>14 DEF admit
    <3> QED  BY <3>1 DEF WillBeScanned
  <2>15. CASE page_done
    <3>1. /\ main = "enqueue" /\ page = {}
          /\ UNCHANGED channelVars
      BY <2>15 DEF page_done
    <3>2. CASE ~ reached_end /\ main' = "read" /\ UNCHANGED <<reconcile_cursor, reconcile_again>>
      BY <2>1, <2>5, <3>1, <3>2 DEF Announced, WillBeScanned
    <3>3. CASE reached_end /\ reconcile_again /\ main' = "read" /\ reconcile_cursor' = 0
      BY <2>3, <3>3 DEF WillBeScanned
    <3>4. CASE reached_end /\ ~ reconcile_again
      <4>1. Announced(a)
        BY <2>5, <3>1, <3>4 DEF WillBeScanned
      <4> QED  BY <2>1, <3>1, <4>1 DEF Announced
    <3> QED  BY <2>15, <3>2, <3>3, <3>4 DEF page_done
  <2>16. CASE \E c \in Ids : enqueue_reconciled(c)
    <3>1. PICK c \in Ids : enqueue_reconciled(c)
      BY <2>16
    <3>2. /\ main = "enqueue" /\ c \in page /\ \A b \in page : c =< b
          /\ UNCHANGED <<channelVars, reconcile_again>>
      BY <3>1 DEF enqueue_reconciled
    <3>3. CASE Announced(a) \/ reconcile_again
      BY <2>1, <3>2, <3>3 DEF Announced, WillBeScanned
    <3>4. CASE ~ Announced(a) /\ ~ reconcile_again
      <4>1. /\ a \in page \/ (~ reached_end /\ reconcile_cursor < a /\ \A b \in page : b < a)
            /\ InWot(page_wot, a)
        BY <2>5, <3>2, <3>4 DEF WillBeScanned
      <4>2. c \in Nat /\ reconcile_cursor < a
        BY <3>2, <4>1, <2>3 DEF ScanShape
      <4>3. CASE InWot(page_wot, c) /\ Refused(c) /\ main' = "select"
                   /\ reconciliation_pending' = TRUE /\ UNCHANGED reconcile_cursor
        BY <4>2, <4>3 DEF WillBeScanned
      <4>4. CASE /\ page' = page \ {c} /\ reconcile_cursor' = c
                 /\ UNCHANGED <<main, reached_end, page_wot>>
        <5>1. CASE a = c
          BY <3>1, <3>2, <4>1, <4>4, <5>1 DEF enqueue_reconciled, Enqueue
        <5>2. CASE a # c /\ a \in page
          <6>1. a \in page'
            BY <4>4, <5>2
          <6> QED  BY <3>2, <4>1, <4>4, <6>1 DEF WillBeScanned, InWot
        <5>3. CASE a \notin page
          <6>1. ~ reached_end' /\ reconcile_cursor' < a /\ \A b \in page' : b < a
            BY <3>2, <4>1, <4>4, <5>3
          <6> QED  BY <3>2, <4>1, <4>4, <6>1 DEF WillBeScanned, InWot
        <5> QED  BY <5>1, <5>2, <5>3
      <4> QED  BY <3>1, <4>3, <4>4 DEF enqueue_reconciled
    <3> QED  BY <3>3, <3>4
  <2> QED
    BY <1>run, <2>6, <2>7, <2>8, <2>9, <2>10, <2>11, <2>12, <2>13, <2>14, <2>15, <2>16
       DEF Main
<1> QED  BY <1>stop, <1>run
\* A worker tries the head it has seen, and a later one was announced.
LEMMA WorkRemembers ==
  ASSUME FetcherTypeOK, LeaseShape, NothingForgotten, NEW w \in Workers, Work(w) \/ fail(w)
  PROVE  NothingForgotten'
<1> SUFFICES ASSUME NEW a \in Ids, InWot(wot, a)', (attempted[a] < heads[a])'
             PROVE  Remembered(a)'
  BY DEF NothingForgotten, Remembered
<1> USE DEF FetcherTypeOK
<1>1. UNCHANGED <<dbVars, channelVars, mainVars>>
  BY DEF Work, take_work, wait, get_heads, fetch_events_for_heads, complete_work,
         complete_notify, fail
<1>2. attempted[a] =< attempted'[a]
  <2>1. CASE UNCHANGED attempted
    BY <2>1
  <2>2. CASE fetch_events_for_heads(w)
    <3>1. lease[w] \in Ids
      BY <2>2 DEF fetch_events_for_heads, LeaseShape
    <3> QED  BY <2>2, <3>1 DEF fetch_events_for_heads
  <2> QED  BY <2>1, <2>2 DEF Work, take_work, wait, get_heads, complete_work,
                             complete_notify, fail
<1>3. Remembered(a)
  <2>1. attempted[a] \in Nat /\ attempted'[a] \in Nat /\ heads[a] \in Nat
    BY WorkTypeOK
  <2>2. attempted[a] < heads[a] /\ InWot(wot, a)
    BY <1>1, <1>2, <2>1 DEF InWot
  <2> QED  BY <2>2 DEF NothingForgotten, Remembered
<1>4. /\ Announced(a) => Announced(a)'
      /\ WillBeScanned(a) => WillBeScanned(a)'
  BY <1>1 DEF Announced, WillBeScanned, InWot
<1>5. Stopping => Stopping'
  BY <1>1 DEF Stopping, Work, take_work, wait, get_heads, fetch_events_for_heads,
              complete_work, complete_notify, fail
<1>6. Queued(a) => Queued(a)' \/ Stopping'
  <2>1. CASE take_work(w)
    <3>1. CASE Eligible = {} /\ UNCHANGED <<pending, lease>>
      BY <1>1, <2>1, <3>1 DEF take_work, Queued
    <3>2. CASE \E c \in Eligible :
                  /\ worker' = [worker EXCEPT ![w] = "lookup"]
                  /\ lease' = [lease EXCEPT ![w] = c]
                  /\ pending' = pending \ {c}
      <4>1. PICK c \in Eligible :
                  /\ worker' = [worker EXCEPT ![w] = "lookup"]
                  /\ lease' = [lease EXCEPT ![w] = c]
                  /\ pending' = pending \ {c}
        BY <3>2
      <4>2. CASE c = a
        BY <4>1, <4>2 DEF Queued
      <4>3. CASE c # a
        BY <1>1, <2>1, <4>1, <4>3 DEF take_work, Queued
      <4> QED  BY <4>2, <4>3
    <3> QED  BY <2>1, <3>1, <3>2 DEF take_work
  <2>2. CASE wait(w)
    BY <1>1, <2>2 DEF wait, Queued
  <2>3. CASE get_heads(w)
    BY <1>1, <2>3 DEF get_heads, Queued
  <2>4. CASE fetch_events_for_heads(w)
    <3>1. CASE lease[w] = a /\ observed[w] = heads[a]
      <4>1. attempted[a] \in Nat /\ observed[w] \in Nat /\ heads'[a] = observed[w]
        BY <1>1, <3>1
      <4>2. attempted'[a] = IF attempted[a] < observed[w] THEN observed[w] ELSE attempted[a]
        BY <2>4, <3>1 DEF fetch_events_for_heads
      <4> QED  BY <4>1, <4>2
    <3>2. CASE ~ (lease[w] = a /\ observed[w] = heads[a])
      BY <1>1, <2>4, <3>2 DEF fetch_events_for_heads, Queued
    <3> QED  BY <3>1, <3>2
  <2>5. CASE complete_work(w)
    BY <1>1, <2>5 DEF complete_work, Queued
  <2>6. CASE complete_notify(w)
    BY <1>1, <2>6 DEF complete_notify, Queued
  <2>7. CASE fail(w)
    BY <2>7 DEF fail, Stopping
  <2> QED  BY <2>1, <2>2, <2>3, <2>4, <2>5, <2>6, <2>7 DEF Work
<1> QED  BY <1>3, <1>4, <1>5, <1>6 DEF Remembered

-----------------------------------------------------------------------------
(* The work queue *)

\* Leases and the in_progress set change together, and take_work passes over
\* authors in progress.
LEMMA LeasesExclusive ==
  ASSUME FetcherTypeOK, LeaseShape, OneWorkerPerAuthor, FetcherNext
  PROVE  OneWorkerPerAuthor'
<1> USE DEF FetcherTypeOK, OneWorkerPerAuthor
<1>1. CASE join_next
  <2>1. in_progress' = {} /\ lease' = [w \in Workers |-> 0]
    BY <1>1 DEF join_next
  <2> QED  BY <2>1
<1>2. CASE \E w \in Workers : take_work(w)
  <2>1. PICK w \in Workers : take_work(w)
    BY <1>2
  <2>2. CASE UNCHANGED <<in_progress, lease>>
    BY <2>2
  <2>3. CASE \E a \in Eligible :
                /\ lease' = [lease EXCEPT ![w] = a]
                /\ in_progress' = in_progress \cup {a}
    <3>1. PICK a \in Eligible :
                /\ lease' = [lease EXCEPT ![w] = a]
                /\ in_progress' = in_progress \cup {a}
      BY <2>3
    <3>2. lease[w] = 0 /\ a # 0 /\ a \notin in_progress
      BY <2>1, <3>1, IdsAssumption DEF take_work, LeaseShape, Eligible
    <3>3. \A v \in Workers : lease'[v] = IF v = w THEN a ELSE lease[v]
      BY <3>1
    <3>4. \A v \in Workers : lease[v] # a
      BY <3>2
    <3> QED  BY <3>1, <3>2, <3>3, <3>4
  <2> QED  BY <2>1, <2>2, <2>3 DEF take_work
<1>3. CASE \E w \in Workers : complete_work(w) \/ fail(w)
  <2>1. PICK w \in Workers : complete_work(w) \/ fail(w)
    BY <1>3
  <2>2. /\ in_progress' = in_progress \ {lease[w]}
        /\ lease' = [lease EXCEPT ![w] = 0]
    BY <2>1 DEF complete_work, fail
  <2>3. \A v \in Workers : lease'[v] = IF v = w THEN 0 ELSE lease[v]
    BY <2>2
  <2> QED  BY <2>2, <2>3
<1>4. CASE UNCHANGED <<in_progress, lease>>
  BY <1>4
<1>5. \/ join_next \/ UNCHANGED <<in_progress, lease>>
      \/ \E w \in Workers : take_work(w) \/ complete_work(w) \/ fail(w)
  BY DEF FetcherNext, Write, Main, Work, write_head, publish_wot, broadcast, start,
     notify, recv_lagged, recv, changed, admitted_all, notified_space, read_page,
     snapshot, page_done, admit, enqueue_reconciled, wait, get_heads,
     fetch_events_for_heads, complete_notify
<1> QED  BY <1>1, <1>2, <1>3, <1>4, <1>5

\* A worker sleeps only when it saw nothing to take, and whatever makes an author
\* eligible wakes the workers or is done by one that is awake.
LEMMA WakeupKept ==
  ASSUME FetcherTypeOK, NoLostWakeup, FetcherNext
  PROVE  NoLostWakeup'
<1> USE DEF FetcherTypeOK, NoLostWakeup
<1>1. CASE \E w \in Workers : Work(w) \/ fail(w)
  <2>1. PICK w \in Workers : Work(w) \/ fail(w)
    BY <1>1
  <2>2. CASE take_work(w)
    <3>1. CASE Eligible = {} /\ UNCHANGED <<pending, in_progress>>
      BY <3>1 DEF Eligible
    <3>2. CASE worker' = [worker EXCEPT ![w] = "lookup"]
      BY <2>1, <3>2
    <3> QED  BY <2>2, <3>1, <3>2 DEF take_work
  <2>3. CASE ~ take_work(w)
    <3>1. worker'[w] # "wait"
      BY <2>1, <2>3 DEF Work, wait, get_heads, fetch_events_for_heads, complete_work,
                        complete_notify, fail
    <3> QED  BY <2>1, <3>1
  <2> QED  BY <2>2, <2>3
<1>2. CASE notify
  <2>1. notified' = [w \in Workers |-> TRUE]
    BY <1>2 DEF notify
  <2> QED  BY <2>1, WorkersAssumption
<1>3. CASE join_next
  BY <1>3 DEF join_next
<1>4. CASE /\ UNCHANGED <<in_progress, worker, notified>>
           /\ main # "stopped"
           /\ \/ UNCHANGED <<pending, unsent>>
              \/ ~ unsent /\ \E a \in Ids : Enqueue(a)
  <2>1. CASE UNCHANGED <<pending, unsent>>
    BY <1>4, <2>1 DEF Eligible
  <2>2. CASE ~ unsent /\ \E a \in Ids : Enqueue(a)
    <3>1. PICK a \in Ids : Enqueue(a)
      BY <2>2
    <3>2. CASE a \in pending
      <4>1. pending' = pending
        BY <3>1, <3>2 DEF Enqueue
      <4> QED  BY <1>4, <2>2, <4>1 DEF Eligible
    <3>3. CASE a \notin pending
      BY <3>1, <3>3, Zenon DEF Enqueue
    <3> QED  BY <3>2, <3>3
  <2> QED  BY <1>4, <2>1, <2>2
<1>5. CASE Write \/ broadcast
  <2>1. UNCHANGED <<pending, in_progress, unsent, main, worker, notified>>
    BY <1>5 DEF Write, write_head, publish_wot, broadcast
  <2> QED  BY <2>1 DEF Eligible
<1>6. CASE recv
  <2>1. Head(inbox) \in Ids
    BY <1>6 DEF recv
  <2> QED  BY <1>4, <1>6, <2>1 DEF recv, NotEnqueued
<1>7. CASE \E a \in Ids : admit(a) \/ enqueue_reconciled(a)
  BY <1>4, <1>7 DEF admit, enqueue_reconciled, NotEnqueued
<1>8. CASE start \/ recv_lagged \/ changed \/ admitted_all \/ notified_space
             \/ read_page \/ snapshot \/ page_done
  BY <1>4, <1>8 DEF start, recv_lagged, changed, admitted_all, notified_space,
                    read_page, snapshot, page_done
<1> QED  BY <1>1, <1>2, <1>3, <1>5, <1>6, <1>7, <1>8 DEF FetcherNext, Main

-----------------------------------------------------------------------------
(* The invariant *)

\* The fetcher starts with nothing queued and a scan to come.
LEMMA FetcherInitInv == FetcherInit => FetcherInv
<1> SUFFICES ASSUME FetcherInit PROVE FetcherInv
  OBVIOUS
<1>1. 0 \in 0 .. MaxHeads /\ 0 \in 0 .. MaxWotChanges
  BY FetcherBoundAssumption
<1>2. Cardinality({}) = 0
  BY FS_EmptySet
<1>3. FetcherTypeOK
  <2>1. inbox \in Seq(Ids) /\ Len(inbox) =< Capacity
    BY QueueAssumption DEF FetcherInit
  <2>2. Cardinality(pending) =< MaxPending
    BY <1>2, QueueAssumption DEF FetcherInit
  <2>3. /\ worker \in [Workers -> WorkerStates] /\ lease \in [Workers -> Ids \cup {0}]
        /\ observed \in [Workers -> 0 .. MaxHeads] /\ notified \in [Workers -> BOOLEAN]
        /\ attempted \in [Ids -> 0 .. MaxHeads]
    BY <1>1 DEF FetcherInit, WorkerStates
  <2> QED  BY <1>1, <2>1, <2>2, <2>3 DEF FetcherInit, FetcherTypeOK, MainStates
<1>4. LeaseShape /\ ScanShape
  BY DEF FetcherInit, LeaseShape, ScanShape
<1>5. NothingForgotten
  BY DEF FetcherInit, NothingForgotten, WillBeScanned
<1>6. OneWorkerPerAuthor
  BY DEF FetcherInit, OneWorkerPerAuthor
<1>7. NoLostWakeup
  BY DEF FetcherInit, NoLostWakeup, Eligible
<1> QED  BY <1>3, <1>4, <1>5, <1>6, <1>7 DEF FetcherInv

\* Every step of a writer, the main task or a worker keeps the invariant.
LEMMA FetcherNextInv == FetcherInv /\ [FetcherNext]_fetcherVars => FetcherInv'
<1> SUFFICES ASSUME FetcherInv, [FetcherNext]_fetcherVars PROVE FetcherInv'
  OBVIOUS
<1>1. CASE Write \/ broadcast
  BY <1>1, WriteTypeOK, LeaseShapeKept, ScanShapeKept, WriteRemembers,
     LeasesExclusive, WakeupKept DEF FetcherInv, FetcherNext
<1>2. CASE Main
  BY <1>2, MainTypeOK, LeaseShapeKept, ScanShapeKept, MainRemembers,
     LeasesExclusive, WakeupKept DEF FetcherInv, FetcherNext
<1>3. CASE \E w \in Workers : Work(w) \/ fail(w)
  BY <1>3, WorkTypeOK, ScanShapeKept, WorkRemembers,
     LeasesExclusive, WakeupKept DEF FetcherInv, FetcherNext
<1>4. CASE UNCHANGED fetcherVars
  <2>1. FetcherTypeOK'
    BY <1>4 DEF FetcherInv, FetcherTypeOK, fetcherVars
  <2>2. LeaseShape' /\ ScanShape'
    BY <1>4 DEF FetcherInv, LeaseShape, ScanShape, fetcherVars
  <2>3. NothingForgotten'
    BY <1>4 DEF FetcherInv, NothingForgotten, Announced, Queued, WillBeScanned,
                Stopping, InWot, fetcherVars
  <2>4. OneWorkerPerAuthor' /\ NoLostWakeup'
    BY <1>4 DEF FetcherInv, OneWorkerPerAuthor, NoLostWakeup, Eligible, fetcherVars
  <2> QED  BY <2>1, <2>2, <2>3, <2>4 DEF FetcherInv
<1> QED  BY <1>1, <1>2, <1>3, <1>4 DEF FetcherNext

\* The queue of NewHeadFetcher never exceeds MAX_PENDING_AUTHORS, for any number
\* of authors and workers.
THEOREM FetcherTypeCorrect == FetcherSpec => []FetcherTypeOK
<1>1. FetcherInv => FetcherTypeOK
  BY DEF FetcherInv
<1> QED  BY <1>1, FetcherInitInv, FetcherNextInv, PTL DEF FetcherSpec

\* No head of the web of trust is ever forgotten by NewHeadFetcher::run, for any
\* number of authors and workers and any size of its queue and channel.
THEOREM NoHeadForgotten == FetcherSpec => []NothingForgotten
<1>1. FetcherInv => NothingForgotten
  BY DEF FetcherInv
<1> QED  BY <1>1, FetcherInitInv, FetcherNextInv, PTL DEF FetcherSpec

\* At most one worker has an author, and exactly the leased authors are in
\* progress (WorkQueue::take_work, WorkLease::drop).
THEOREM AuthorsExclusive == FetcherSpec => []OneWorkerPerAuthor
<1>1. FetcherInv => OneWorkerPerAuthor
  BY DEF FetcherInv
<1> QED  BY <1>1, FetcherInitInv, FetcherNextInv, PTL DEF FetcherSpec

\* The workers of NewHeadFetcher never all sleep over an author they could take.
THEOREM WorkersWake == FetcherSpec => []NoLostWakeup
<1>1. FetcherInv => NoLostWakeup
  BY DEF FetcherInv
<1> QED  BY <1>1, FetcherInitInv, FetcherNextInv, PTL DEF FetcherSpec

\* Workers neither share an author nor sleep over one (WorkQueue), for any number.
THEOREM WorkQueueCorrect == FetcherSpec => []WorkQueueSound
<1>1. OneWorkerPerAuthor /\ NoLostWakeup => WorkQueueSound
  BY DEF WorkQueueSound
<1> QED  BY <1>1, AuthorsExclusive, WorkersWake, PTL
=============================================================================
