----------------------------- MODULE MessageFeed -----------------------------
(***************************************************************************)
(* What an open conversation promises its reader, whatever the network does. *)
(* Messages are numbered in the order of history (time, then event id).  The *)
(* incoming ones also have a sequence number, their place in arrived: local  *)
(* order of arrival, in which they are shown at the bottom as they come in.  *)
(* Everything known before lies above and is revealed upwards, page by page, *)
(* from bound.                                                               *)
(***************************************************************************)
EXTENDS Naturals, FiniteSets, Sequences, SequencesExt

CONSTANT Msg        \* the messages of the conversation, by place in history: numbers from 1

VARIABLES
  arrived,          \* incoming messages in order of arrival
  shown,            \* the messages on the page, from top to bottom
  seen,             \* arrived[1 .. seen] have been accounted for
  bound             \* messages below bound may still have to be revealed; 0: none

feedVars == <<arrived, shown, seen, bound>>

\* The members of a set of numbers, in ascending order.
InOrder(S) ==
  [i \in 1 .. Cardinality(S) |->
    CHOOSE m \in S : Cardinality({k \in S : k < m}) = i - 1]

\* The members of a sequence at the places of a set.
At(s, I) == [j \in 1 .. Cardinality(I) |-> s[InOrder(I)[j]]]

\* Those members of a sequence that are not on the page yet.
Unseen(s, page) == At(s, {i \in DOMAIN s : s[i] \notin Range(page)})

\* No message is on the page twice.
NoDuplicates == IsInjective(shown)

\* No incoming message that was accounted for is missing from the page, unless it
\* lies above what has been revealed.
NothingSkipped == \A i \in 1 .. seen : arrived[i] \in Range(shown) \/ arrived[i] < bound

FeedInit ==
  /\ IsInjective(arrived) /\ Range(arrived) \subseteq Msg
  /\ shown = InOrder(Range(shown)) /\ Range(shown) \subseteq Msg
  /\ seen \in 0 .. Len(arrived)
  /\ NothingSkipped

Arrive(m) ==
  /\ m \notin Range(arrived)
  /\ arrived' = Append(arrived, m)
  /\ UNCHANGED <<shown, seen, bound>>

\* The next arrivals are put at the bottom, none of them twice.
Deliver(n) ==
  /\ seen =< n /\ n =< Len(arrived)
  /\ shown' = shown \o Unseen(SubSeq(arrived, seen + 1, n), shown)
  /\ seen' = n
  /\ UNCHANGED <<arrived, bound>>

\* A page of older messages is put on top, without a hole.
Reveal(S, b) ==
  /\ \A m \in S : b =< m /\ m < bound
  /\ \A i \in 1 .. seen : b =< arrived[i] /\ arrived[i] < bound => arrived[i] \in S
  /\ shown' = Unseen(InOrder(S), shown) \o shown
  /\ bound' = b
  /\ UNCHANGED <<arrived, seen>>

FeedNext ==
  \/ \E m \in Msg : Arrive(m)
  \/ \E n \in seen .. Len(arrived) : Deliver(n)
  \/ \E b \in {0} \cup Msg : \E S \in SUBSET Msg : b < bound /\ Reveal(S, b)

FeedSpec == FeedInit /\ [][FeedNext]_feedVars
=============================================================================
