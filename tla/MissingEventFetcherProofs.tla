--------------------- MODULE MissingEventFetcherProofs ---------------------
(***************************************************************************)
(* Proofs about DedupChan, for any items, number of receivers and channels  *)
(* and any capacities, and then about MissingEventFetcher, which is built on *)
(* it, for any number of authors and events, any capacity of the channel,    *)
(* page size and maximal delay.                                              *)
(***************************************************************************)
EXTENDS MissingEventFetcher, TLAPS

-----------------------------------------------------------------------------
(* The deduplicating channel *)

\* A handle without a channel is not in recv().
HandleShape == \A r \in Receiver : rx[r].key = NoKey => rx[r] = NoHandle

ChanInv ==
  /\ ChanTypeOK /\ HandleShape /\ SetMirrorsQueue
  /\ SentOrLagging /\ NobodySleepsOverWork /\ ReceiversConnected

\* What the invariant says of one channel, apart from its receivers.
Sound(c) ==
  /\ c \in Channel /\ Len(c.queue) =< c.capacity
  /\ c.set = {c.queue[i] : i \in DOMAIN c.queue}
  /\ \A i, j \in DOMAIN c.queue : c.queue[i] = c.queue[j] => i = j

-----------------------------------------------------------------------------
(* One channel *)

\* Channel::send keeps set and queue in step and within the capacity, and either
\* has the item afterwards or knows that it lagged.
LEMMA SendSound ==
  ASSUME NEW c, Sound(c), NEW v \in Item
  PROVE  /\ Sound(ChannelSend(c, v))
         /\ c.set \subseteq ChannelSend(c, v).set
         /\ c.lagged => ChannelSend(c, v).lagged
         /\ v \in ChannelSend(c, v).set \/ ChannelSend(c, v).lagged
         /\ ~ Bumps(c, v) => ChannelSend(c, v) = c
<1>1. CASE v \in c.set
  BY <1>1 DEF ChannelSend, Bumps
<1>2. CASE v \notin c.set /\ c.capacity =< Len(c.queue)
  <2> DEFINE d == [c EXCEPT !.lagged = TRUE]
  <2>1. ChannelSend(c, v) = d
    BY <1>2 DEF ChannelSend
  <2>2. c \in Channel
    BY DEF Sound
  <2>3. /\ d \in Channel /\ d.queue = c.queue /\ d.set = c.set /\ d.capacity = c.capacity
        /\ d.lagged
    BY <2>2 DEF Channel
  <2> HIDE DEF d
  <2>4. Sound(d)
    BY <2>3 DEF Sound
  <2> QED  BY <1>2, <2>1, <2>3, <2>4 DEF Bumps
<1>3. CASE v \notin c.set /\ ~ c.capacity =< Len(c.queue)
  <2> DEFINE q == Append(c.queue, v)
             d == [c EXCEPT !.set = @ \cup {v}, !.queue = Append(@, v)]
  <2>1. ChannelSend(c, v) = d
    BY <1>3 DEF ChannelSend
  <2>2. c \in Channel /\ c.queue \in Seq(Item) /\ c.capacity \in Nat
    BY ChanAssumption DEF Sound, Channel
  <2>3. /\ q \in Seq(Item) /\ Len(q) = Len(c.queue) + 1
        /\ DOMAIN q = DOMAIN c.queue \cup {Len(c.queue) + 1}
        /\ \A i \in DOMAIN c.queue : q[i] = c.queue[i]
        /\ q[Len(c.queue) + 1] = v
    BY <2>2
  <2>4. d \in Channel /\ d.queue = q /\ d.set = c.set \cup {v} /\ d.capacity = c.capacity
    BY <2>2, <2>3 DEF Channel
  <2>5. Len(d.queue) =< d.capacity
    BY <1>3, <2>2, <2>3, <2>4
  <2>6. d.set = {q[i] : i \in DOMAIN q}
    BY <2>3, <2>4 DEF Sound
  <2>7. \A i \in DOMAIN c.queue : c.queue[i] # v
    BY <1>3 DEF Sound
  <2>8. \A i, j \in DOMAIN q : q[i] = q[j] => i = j
    BY <2>3, <2>7 DEF Sound
  <2>9. Sound(d)
    BY <2>4, <2>5, <2>6, <2>8 DEF Sound
  <2>10. d.lagged = c.lagged
    BY <2>2 DEF Channel
  <2> HIDE DEF d
  <2> QED  BY <1>3, <2>1, <2>4, <2>9, <2>10 DEF Bumps
<1> QED  BY <1>1, <1>2, <1>3

\* Popping the queue removes exactly its first item from the set.
LEMMA TakeSound ==
  ASSUME NEW c, Sound(c), c.queue # << >>
  PROVE  LET v == Head(c.queue)
             d == [c EXCEPT !.queue = Tail(@), !.set = @ \ {v}]
         IN Sound(d) /\ v \in c.set /\ d.set = c.set \ {v} /\ d.lagged = c.lagged
<1> DEFINE v == Head(c.queue)
           q == Tail(c.queue)
           d == [c EXCEPT !.queue = Tail(@), !.set = @ \ {v}]
<1>1. c \in Channel /\ c.queue \in Seq(Item) /\ c.capacity \in Nat /\ Len(c.queue) \in Nat
  <2>1. c \in Channel
    BY DEF Sound
  <2>2. c.queue \in Seq(Item) /\ c.capacity \in Capacities
    BY <2>1 DEF Channel
  <2>3. Len(c.queue) \in Nat
    BY <2>2
  <2>4. c.capacity \in Nat
    BY <2>2, ChanAssumption
  <2> QED  BY <2>1, <2>2, <2>3, <2>4
<1>2. /\ q \in Seq(Item) /\ Len(q) = Len(c.queue) - 1 /\ Len(c.queue) > 0
      /\ v = c.queue[1] /\ DOMAIN q = 1 .. Len(c.queue) - 1
      /\ DOMAIN c.queue = 1 .. Len(c.queue)
      /\ \A i \in DOMAIN q : q[i] = c.queue[i + 1]
  BY <1>1
<1>3. v \in c.set
  BY <1>2 DEF Sound
<1>4. d \in Channel /\ d.queue = q /\ d.set = c.set \ {v} /\ d.capacity = c.capacity
      /\ d.lagged = c.lagged
  BY <1>1, <1>2 DEF Channel
<1>5. Len(d.queue) =< d.capacity
  BY <1>1, <1>2, <1>4 DEF Sound
<1>6. \A i, j \in DOMAIN q : q[i] = q[j] => i = j
  <2> SUFFICES ASSUME NEW i \in DOMAIN q, NEW j \in DOMAIN q, q[i] = q[j]
               PROVE  i = j
    OBVIOUS
  <2>1. i + 1 \in DOMAIN c.queue /\ j + 1 \in DOMAIN c.queue /\ c.queue[i + 1] = c.queue[j + 1]
    BY <1>1, <1>2
  <2>2. i + 1 = j + 1
    BY <2>1 DEF Sound
  <2> QED  BY <1>1, <1>2, <2>2
<1>7. d.set = {q[i] : i \in DOMAIN q}
  <2>1. ASSUME NEW x \in d.set  PROVE x \in {q[i] : i \in DOMAIN q}
    <3>1. PICK i \in DOMAIN c.queue : x = c.queue[i]
      BY <1>4, <2>1 DEF Sound
    <3>2. i # 1
      BY <1>2, <1>4, <2>1, <3>1
    <3>3. i - 1 \in DOMAIN q /\ q[i - 1] = c.queue[i]
      BY <1>1, <1>2, <3>2
    <3> QED  BY <3>1, <3>3
  <2>2. ASSUME NEW i \in DOMAIN q  PROVE q[i] \in d.set
    <3>1. i + 1 \in DOMAIN c.queue /\ i + 1 # 1 /\ 1 \in DOMAIN c.queue
      BY <1>1, <1>2
    <3>2. c.queue[i + 1] # v /\ c.queue[i + 1] \in c.set
      BY <1>2, <3>1 DEF Sound
    <3> QED  BY <1>2, <1>4, <3>2
  <2> QED  BY <2>1, <2>2
<1>8. Sound(d)
  <2> HIDE DEF d, q
  <2>1. d.set = {d.queue[i] : i \in DOMAIN d.queue}
    BY <1>4, <1>7
  <2>2. \A i, j \in DOMAIN d.queue : d.queue[i] = d.queue[j] => i = j
    BY <1>4, <1>6
  <2> QED  BY <1>4, <1>5, <2>1, <2>2 DEF Sound
<1> QED  BY <1>3, <1>4, <1>8

-----------------------------------------------------------------------------
(* The invariant *)

\* ChanInv in terms of Sound.
LEMMA AllSound ==
  /\ ChanTypeOK /\ SetMirrorsQueue => \A k \in DOMAIN channels : Sound(channels[k])
  /\ DOMAIN channels \subseteq Key /\ (\A k \in DOMAIN channels : Sound(channels[k]))
       /\ rx \in [Receiver -> Handle] /\ open \in BOOLEAN /\ owed \in [Key -> SUBSET Item]
       => ChanTypeOK /\ SetMirrorsQueue
BY DEF ChanTypeOK, SetMirrorsQueue, Sound

\* The same after a step.
LEMMA AllSoundNext ==
  DOMAIN channels' \subseteq Key /\ (\A k \in DOMAIN channels' : Sound(channels'[k]))
       /\ rx' \in [Receiver -> Handle] /\ open' \in BOOLEAN /\ owed' \in [Key -> SUBSET Item]
       => ChanTypeOK' /\ SetMirrorsQueue'
BY DEF ChanTypeOK, SetMirrorsQueue, Sound

\* A receiver that looks at the queue has a channel.
LEMMA LookerConnected ==
  ASSUME ChanInv, NEW r \in Receiver, rx[r].at # "out"
  PROVE  /\ rx[r].key \in DOMAIN channels /\ rx[r].key \in Key /\ rx[r].key # NoKey
         /\ Sound(channels[rx[r].key]) /\ rx[r] \in Handle
<1>1. rx[r].key # NoKey
  BY DEF ChanInv, HandleShape, NoHandle
<1>2. rx[r].key \in DOMAIN channels
  BY <1>1 DEF ChanInv, ReceiversConnected
<1> QED  BY <1>1, <1>2, AllSound DEF ChanInv, ChanTypeOK

\* A channel starts empty.
LEMMA ChanInitInv == ChanInit => ChanInv
<1> SUFFICES ASSUME ChanInit  PROVE ChanInv
  OBVIOUS
<1>1. DOMAIN channels = {}
  BY DEF ChanInit
<1>2. NoHandle \in Handle
  BY DEF NoHandle, Handle
<1>3. \A r \in Receiver : rx[r] = NoHandle
  BY DEF ChanInit
<1>4. ChanTypeOK
  BY <1>1, <1>2 DEF ChanInit, ChanTypeOK
<1>5. SetMirrorsQueue /\ SentOrLagging
  BY <1>1 DEF SetMirrorsQueue, SentOrLagging
<1>6. HandleShape /\ NobodySleepsOverWork /\ ReceiversConnected
  <2>1. NoHandle.key = NoKey /\ NoHandle.at = "out"
    BY DEF NoHandle
  <2> QED  BY <1>3, <2>1 DEF HandleShape, NobodySleepsOverWork, ReceiversConnected
<1> QED  BY <1>4, <1>5, <1>6 DEF ChanInv

\* A step of one handle that changes no channel.
LEMMA HandleStep ==
  ASSUME ChanInv, NEW r \in Receiver, NEW h \in Handle,
         rx' = [rx EXCEPT ![r] = h], UNCHANGED <<channels, owed>>, open' \in BOOLEAN,
         h.key = NoKey => h = NoHandle,
         h.key # NoKey => h.key \in DOMAIN channels,
         h.at = "wait" /\ ~ h.changed
           => channels[h.key].queue = << >> /\ ~ channels[h.key].lagged
  PROVE  ChanInv'
<1>1. rx' \in [Receiver -> Handle] /\ rx'[r] = h /\ \A s \in Receiver : s # r => rx'[s] = rx[s]
  BY DEF ChanInv, ChanTypeOK
<1>2. ChanTypeOK' /\ SetMirrorsQueue' /\ SentOrLagging'
  BY <1>1 DEF ChanInv, ChanTypeOK, SetMirrorsQueue, SentOrLagging
<1>3. HandleShape' /\ NobodySleepsOverWork' /\ ReceiversConnected'
  BY <1>1 DEF ChanInv, HandleShape, NobodySleepsOverWork, ReceiversConnected
<1> QED  BY <1>2, <1>3 DEF ChanInv

\* Sender::subscribe and the clones and drops of handles.
LEMMA SubscriptionsInv ==
  ASSUME ChanInv, Subscriptions
  PROVE  ChanInv'
<1>1. CASE \E r \in Receiver, c \in Capacities, k \in Key : subscribe(r, c, k)
  <2>1. PICK r \in Receiver, c \in Capacities, k \in Key : subscribe(r, c, k)
    BY <1>1
  <2> DEFINE n == [set |-> {}, queue |-> << >>, lagged |-> FALSE, capacity |-> c]
             h == [key |-> k, at |-> "out", changed |-> FALSE]
  <2>2. k \notin DOMAIN channels /\ k # NoKey
    BY <2>1 DEF subscribe, IsNextKey, ChanInv, ChanTypeOK, Key, NoKey
  <2>3. /\ DOMAIN channels' = DOMAIN channels \cup {k} /\ channels'[k] = n
        /\ \A j \in DOMAIN channels : channels'[j] = channels[j]
    BY <2>1, <2>2 DEF subscribe
  <2>4. n \in Channel /\ h \in Handle
    BY DEF Channel, Handle
  <2>5. Sound(n)
    BY <2>4, ChanAssumption DEF Sound
  <2>6. /\ rx' \in [Receiver -> Handle] /\ rx'[r] = h
        /\ \A s \in Receiver : s # r => rx'[s] = rx[s]
    BY <2>1, <2>4 DEF subscribe, ChanInv, ChanTypeOK
  <2>7. owed' \in [Key -> SUBSET Item] /\ owed'[k] = {}
        /\ \A j \in Key : j # k => owed'[j] = owed[j]
    BY <2>1 DEF subscribe, ChanInv, ChanTypeOK
  <2>8. ChanTypeOK' /\ SetMirrorsQueue'
    <3>1. \A j \in DOMAIN channels' : Sound(channels'[j])
      BY <2>3, <2>5, AllSound DEF ChanInv
    <3>2. DOMAIN channels' \subseteq Key /\ open' \in BOOLEAN
      BY <2>1, <2>3 DEF subscribe, ChanInv, ChanTypeOK
    <3> QED  BY <2>6, <2>7, <3>1, <3>2, AllSoundNext
  <2>9. SentOrLagging'
    BY <2>2, <2>3, <2>7 DEF ChanInv, ChanTypeOK, SentOrLagging
  <2>10. HandleShape' /\ ReceiversConnected'
    BY <2>2, <2>3, <2>6 DEF ChanInv, HandleShape, ReceiversConnected
  <2>11. NobodySleepsOverWork'
    <3> SUFFICES ASSUME NEW s \in Receiver, rx'[s].at = "wait", ~ rx'[s].changed
                 PROVE  /\ channels'[rx'[s].key].queue = << >>
                        /\ ~ channels'[rx'[s].key].lagged
      BY DEF NobodySleepsOverWork
    <3>1. s # r /\ rx'[s] = rx[s]
      BY <2>6
    <3>2. rx[s].key \in DOMAIN channels
      BY <3>1, LookerConnected
    <3> QED  BY <2>3, <3>1, <3>2 DEF ChanInv, NobodySleepsOverWork
  <2> QED  BY <2>8, <2>9, <2>10, <2>11 DEF ChanInv
<1>2. CASE \E r, c \in Receiver : clone(r, c)
  <2>1. PICK r \in Receiver, c \in Receiver : clone(r, c)
    BY <1>2
  <2>2. rx[r] \in Handle
    BY DEF ChanInv, ChanTypeOK
  <2>3. rx[r].key \in DOMAIN channels /\ rx[r].key # NoKey /\ rx[r].at = "out"
    BY <2>1 DEF clone, ChanInv, ReceiversConnected
  <2> QED  BY <2>1, <2>2, <2>3, HandleStep DEF clone, ChanInv, ChanTypeOK
<1>3. CASE \E r \in Receiver : drop(r)
  <2>1. NoHandle \in Handle /\ NoHandle.key = NoKey /\ NoHandle.at = "out"
    BY DEF NoHandle, Handle
  <2> QED  BY <1>3, <2>1, HandleStep DEF drop, ChanInv, ChanTypeOK
<1>4. CASE drop_sender
  BY <1>4 DEF drop_sender, ChanInv, ChanTypeOK, HandleShape, SetMirrorsQueue,
              SentOrLagging, NobodySleepsOverWork, ReceiversConnected
<1> QED  BY <1>1, <1>2, <1>3, <1>4 DEF Subscriptions

\* Sender::send to every channel.
LEMMA SendInv ==
  ASSUME ChanInv, NEW v \in Item, send(v)
  PROVE  ChanInv'
<1>1. /\ DOMAIN channels' = {j \in DOMAIN channels : ~ Closed(j)}
      /\ \A k \in DOMAIN channels' : channels'[k] = ChannelSend(channels[k], v)
  BY DEF send
<1>2. ASSUME NEW r \in Receiver
      PROVE  /\ rx'[r] \in Handle /\ rx'[r].key = rx[r].key /\ rx'[r].at = rx[r].at
             /\ rx[r].changed => rx'[r].changed
             /\ rx[r].key \in DOMAIN channels /\ Bumps(channels[rx[r].key], v)
                  => rx'[r].changed
             /\ rx'[r].changed \/ rx'[r] = rx[r]
  BY <1>2 DEF send, ChanInv, ChanTypeOK, Handle
<1>3. ASSUME NEW k \in DOMAIN channels'
      PROVE  /\ k \in DOMAIN channels /\ k \in Key
             /\ Sound(channels'[k])
             /\ channels[k].set \subseteq channels'[k].set
             /\ channels[k].lagged => channels'[k].lagged
             /\ v \in channels'[k].set \/ channels'[k].lagged
             /\ ~ Bumps(channels[k], v) => channels'[k] = channels[k]
  BY <1>1, <1>3, AllSound, SendSound DEF ChanInv, ChanTypeOK
<1>4. ASSUME NEW r \in Receiver, rx[r].key # NoKey
      PROVE  rx[r].key \in DOMAIN channels'
  BY <1>1, <1>4 DEF ChanInv, ReceiversConnected, Closed, Receivers
<1>5. owed' \in [Key -> SUBSET Item]
  BY DEF send, ChanInv, ChanTypeOK
<1>6. ChanTypeOK' /\ SetMirrorsQueue'
  <2>1. rx' \in [Receiver -> Handle]
    BY <1>2 DEF send
  <2>2. DOMAIN channels' \subseteq Key /\ open' \in BOOLEAN
    BY <1>1 DEF send, ChanInv, ChanTypeOK
  <2> QED  BY <1>3, <1>5, <2>1, <2>2, AllSoundNext
<1>7. SentOrLagging'
  <2> SUFFICES ASSUME NEW k \in DOMAIN channels', ~ channels'[k].lagged
               PROVE  owed'[k] \subseteq channels'[k].set
    BY DEF SentOrLagging
  <2>1. owed'[k] = owed[k] \cup {v}
    BY <1>1, <1>3 DEF send
  <2>2. owed[k] \subseteq channels[k].set
    BY <1>3 DEF ChanInv, SentOrLagging
  <2> QED  BY <1>3, <2>1, <2>2
<1>8. HandleShape'
  <2> SUFFICES ASSUME NEW r \in Receiver, rx'[r].key = NoKey
               PROVE  rx'[r] = NoHandle
    BY DEF HandleShape
  <2>1. rx[r].key \notin DOMAIN channels
    BY <1>2 DEF ChanInv, ChanTypeOK, Key, NoKey
  <2> QED  BY <1>2, <2>1 DEF send, ChanInv, HandleShape
<1>9. ReceiversConnected'
  BY <1>2, <1>4 DEF ReceiversConnected
<1>10. NobodySleepsOverWork'
  <2> SUFFICES ASSUME NEW r \in Receiver, rx'[r].at = "wait", ~ rx'[r].changed
               PROVE  /\ channels'[rx'[r].key].queue = << >>
                      /\ ~ channels'[rx'[r].key].lagged
    BY DEF NobodySleepsOverWork
  <2>1. rx[r].at = "wait" /\ ~ rx[r].changed /\ rx'[r].key = rx[r].key
    BY <1>2
  <2>2. rx[r].key \in DOMAIN channels' /\ rx[r].key \in DOMAIN channels
    BY <1>4, <2>1, LookerConnected
  <2>3. channels'[rx[r].key] = channels[rx[r].key]
    BY <1>2, <1>3, <2>2
  <2> QED  BY <2>1, <2>3 DEF ChanInv, NobodySleepsOverWork
<1> QED  BY <1>6, <1>7, <1>8, <1>9, <1>10 DEF ChanInv

\* A recv() that takes something from its channel c and leaves d.
LEMMA ReturnStep ==
  ASSUME ChanInv, NEW r \in Receiver, Looks(r), NEW d, Sound(d), NEW O \in SUBSET Item,
         channels' = [channels EXCEPT ![rx[r].key] = d],
         owed' = [owed EXCEPT ![rx[r].key] = O],
         d.lagged \/ O \subseteq d.set,
         channels[rx[r].key].queue # << >> \/ channels[rx[r].key].lagged,
         Seen(r, "out"), UNCHANGED open
  PROVE  ChanInv'
<1> DEFINE k == rx[r].key
<1>1. k \in DOMAIN channels /\ k \in Key /\ k # NoKey /\ rx[r] \in Handle
  BY LookerConnected DEF Looks
<1>2. /\ DOMAIN channels' = DOMAIN channels /\ channels'[k] = d
      /\ \A j \in DOMAIN channels : j # k => channels'[j] = channels[j]
  BY <1>1
<1>3. /\ rx' \in [Receiver -> Handle] /\ rx'[r].key = k /\ rx'[r].at = "out"
      /\ \A s \in Receiver : s # r => rx'[s] = rx[s]
  BY <1>1 DEF Seen, Handle, ChanInv, ChanTypeOK
<1>4. /\ owed' \in [Key -> SUBSET Item] /\ owed'[k] = O
      /\ \A j \in Key : j # k => owed'[j] = owed[j]
  BY <1>1 DEF ChanInv, ChanTypeOK
<1>5. ChanTypeOK' /\ SetMirrorsQueue'
  <2>1. \A j \in DOMAIN channels' : Sound(channels'[j])
    BY <1>2, AllSound DEF ChanInv
  <2>2. DOMAIN channels' \subseteq Key /\ open' \in BOOLEAN
    BY <1>2 DEF ChanInv, ChanTypeOK
  <2> QED  BY <1>3, <1>4, <2>1, <2>2, AllSoundNext
<1>6. SentOrLagging'
  BY <1>2, <1>4 DEF ChanInv, ChanTypeOK, SentOrLagging
<1>7. HandleShape' /\ ReceiversConnected'
  BY <1>1, <1>2, <1>3 DEF ChanInv, HandleShape, ReceiversConnected
<1>8. NobodySleepsOverWork'
  <2> SUFFICES ASSUME NEW s \in Receiver, rx'[s].at = "wait", ~ rx'[s].changed
               PROVE  /\ channels'[rx'[s].key].queue = << >>
                      /\ ~ channels'[rx'[s].key].lagged
    BY DEF NobodySleepsOverWork
  <2>1. s # r /\ rx'[s] = rx[s]
    BY <1>3
  <2>2. /\ channels[rx[s].key].queue = << >> /\ ~ channels[rx[s].key].lagged
        /\ rx[s].key \in DOMAIN channels
    BY <2>1, LookerConnected DEF ChanInv, NobodySleepsOverWork
  <2>3. rx[s].key # k
    BY <2>2
  <2> QED  BY <1>2, <2>1, <2>2, <2>3
<1> QED  BY <1>5, <1>6, <1>7, <1>8 DEF ChanInv

\* Receiver::recv.
LEMMA ReceiveInv ==
  ASSUME ChanInv, NEW r \in Receiver, Receive(r)
  PROVE  ChanInv'
<1>1. rx[r] \in Handle /\ open \in BOOLEAN
  BY DEF ChanInv, ChanTypeOK
<1>2. CASE recv(r)
  <2> DEFINE h == [rx[r] EXCEPT !.at = "first"]
  <2>1. h \in Handle /\ h.key = rx[r].key /\ h.at = "first"
    BY <1>1 DEF Handle
  <2>2. rx' = [rx EXCEPT ![r] = h] /\ UNCHANGED <<channels, open, owed>> /\ rx[r].key # NoKey
    BY <1>2 DEF recv
  <2>3. h.key \in DOMAIN channels
    BY <2>1, <2>2 DEF ChanInv, ReceiversConnected
  <2> HIDE DEF h
  <2> QED  BY <1>1, <2>1, <2>2, <2>3, HandleStep
<1>3. CASE closed(r) \/ cancel(r)
  <2> DEFINE h == [rx[r] EXCEPT !.at = "out"]
  <2>1. h \in Handle /\ h.key = rx[r].key /\ h.at = "out"
    BY <1>1 DEF Handle
  <2>2. rx' = [rx EXCEPT ![r] = h] /\ UNCHANGED <<channels, open, owed>> /\ rx[r].at # "out"
    BY <1>3 DEF closed, cancel
  <2>3. h.key \in DOMAIN channels /\ h.key # NoKey
    BY <2>1, <2>2, LookerConnected
  <2> HIDE DEF h
  <2> QED  BY <1>1, <2>1, <2>2, <2>3, HandleStep
<1>4. CASE sleep(r)
  <2> DEFINE h == [rx[r] EXCEPT !.at = "wait", !.changed = @ /\ rx[r].at = "first"]
  <2>1. h \in Handle /\ h.key = rx[r].key
    BY <1>1 DEF Handle
  <2>2. rx' = [rx EXCEPT ![r] = h] /\ UNCHANGED <<channels, open, owed>>
    BY <1>4 DEF sleep, Seen
  <2>3. /\ rx[r].key \in DOMAIN channels /\ rx[r].key # NoKey
        /\ channels[rx[r].key].queue = << >> /\ ~ channels[rx[r].key].lagged
    BY <1>4, LookerConnected DEF sleep, Looks
  <2> HIDE DEF h
  <2> QED  BY <1>1, <2>1, <2>2, <2>3, HandleStep
<1>5. CASE lagging(r)
  <2> DEFINE c == channels[rx[r].key]
             d == [c EXCEPT !.lagged = FALSE]
  <2>1. Sound(c) /\ rx[r].key \in Key
    BY <1>5, LookerConnected DEF lagging, Looks
  <2>2. Sound(d)
    BY <2>1 DEF Sound, Channel
  <2>3. /\ Looks(r) /\ c.queue = << >> /\ c.lagged /\ Seen(r, "out") /\ UNCHANGED open
        /\ channels' = [channels EXCEPT ![rx[r].key] = d]
        /\ owed' = [owed EXCEPT ![rx[r].key] = {}]
    BY <1>5 DEF lagging
  <2>4. {} \in SUBSET Item /\ (d.lagged \/ {} \subseteq d.set)
    OBVIOUS
  <2> HIDE DEF d
  <2> QED  BY <2>2, <2>3, <2>4, ReturnStep
<1>6. CASE \E v \in Item : take(r, v)
  <2>1. PICK v \in Item : take(r, v)
    BY <1>6
  <2> DEFINE c == channels[rx[r].key]
             d == [c EXCEPT !.queue = Tail(@), !.set = @ \ {v}]
             O == owed[rx[r].key] \ {v}
  <2>2. /\ Looks(r) /\ c.queue # << >> /\ v = Head(c.queue) /\ Seen(r, "out") /\ UNCHANGED open
        /\ channels' = [channels EXCEPT ![rx[r].key] = d]
        /\ owed' = [owed EXCEPT ![rx[r].key] = O]
    BY <2>1 DEF take
  <2>3. Sound(c) /\ rx[r].key \in Key /\ rx[r].key \in DOMAIN channels
    BY <2>2, LookerConnected DEF Looks
  <2>4. Sound(d) /\ d.set = c.set \ {v} /\ d.lagged = c.lagged
    BY <2>2, <2>3, TakeSound
  <2>5. O \in SUBSET Item /\ (d.lagged \/ O \subseteq d.set)
    BY <2>3, <2>4 DEF ChanInv, ChanTypeOK, SentOrLagging
  <2> HIDE DEF d, O
  <2> QED  BY <2>2, <2>4, <2>5, ReturnStep
<1> QED  BY <1>2, <1>3, <1>4, <1>5, <1>6 DEF Receive

\* Every step keeps the invariant.
LEMMA ChanStep ==
  ASSUME ChanInv, [ChanNext]_chanVars
  PROVE  ChanInv'
<1>1. CASE UNCHANGED chanVars
  BY <1>1 DEF chanVars, ChanInv, ChanTypeOK, HandleShape, SetMirrorsQueue,
              SentOrLagging, NobodySleepsOverWork, ReceiversConnected
<1> QED  BY <1>1, SubscriptionsInv, SendInv, ReceiveInv DEF ChanNext

\* The channel's invariant holds always.
THEOREM ChanInvariant == ChanSpec => []ChanInv
<1>1. ChanInit => ChanInv
  BY ChanInitInv
<1>2. ChanInv /\ [ChanNext]_chanVars => ChanInv'
  BY ChanStep
<1> QED  BY <1>1, <1>2, PTL DEF ChanSpec

\* Nothing that is sent is lost without a Lagging error, for any number of
\* receivers, clones and subscriptions.
THEOREM NothingLostSilently == ChanSpec => []SentOrLagging
<1>1. ChanInv => SentOrLagging
  BY DEF ChanInv
<1> QED  BY <1>1, ChanInvariant, PTL

\* No receiver sleeps over an item or an unreported lag.
THEOREM ReceiversWake == ChanSpec => []NobodySleepsOverWork
<1>1. ChanInv => NobodySleepsOverWork
  BY DEF ChanInv
<1> QED  BY <1>1, ChanInvariant, PTL

\* recv() never panics: set and queue of a channel agree.
THEOREM NoPanic == ChanSpec => []SetMirrorsQueue
<1>1. ChanInv => SetMirrorsQueue
  BY DEF ChanInv
<1> QED  BY <1>1, ChanInvariant, PTL

\* A channel keeps what it is sent, each item once, and tells its receivers, for any
\* number of receivers, clones and subscriptions (Sender::send, Receiver::recv).
THEOREM ChannelCorrect == ChanSpec => []ChannelSound
<1>1. SetMirrorsQueue /\ SentOrLagging /\ NobodySleepsOverWork => ChannelSound
  BY DEF ChannelSound
<1> QED  BY <1>1, NothingLostSilently, ReceiversWake, NoPanic, PTL

\* Every receiver stays connected, although numbers of channels are re-used.
THEOREM StaysConnected == ChanSpec => []ReceiversConnected
<1>1. ChanInv => ReceiversConnected
  BY DEF ChanInv
<1> QED  BY <1>1, ChanInvariant, PTL

\* What a step may take from a channel with receivers.
Keeps(k) ==
  /\ k \in DOMAIN channels'
  /\ \/ channels[k].set \subseteq channels'[k].set
     \/ /\ channels[k].set = channels'[k].set \cup {Head(channels[k].queue)}
        /\ \E r \in Receivers(k) : Looks(r) /\ rx'[r].at = "out"

\* Only take() removes an item, and only the first.
LEMMA KeepsStep ==
  ASSUME ChanInv, ChanNext, NEW k \in DOMAIN channels, Receivers(k) # {}
  PROVE  Keeps(k)
<1>1. CASE \E r \in Receiver, c \in Capacities, j \in Key : subscribe(r, c, j)
  <2>1. PICK r \in Receiver, c \in Capacities, j \in Key : subscribe(r, c, j)
    BY <1>1
  <2>2. j # k
    BY <2>1 DEF subscribe, IsNextKey, ChanInv, ChanTypeOK, Key
  <2> QED  BY <2>1, <2>2 DEF subscribe, Keeps
<1>2. CASE \E v \in Item : send(v)
  <2>1. PICK v \in Item : send(v)
    BY <1>2
  <2>2. k \in DOMAIN channels' /\ channels'[k] = ChannelSend(channels[k], v)
    BY <2>1 DEF send, Closed
  <2>3. Sound(channels[k])
    BY AllSound DEF ChanInv
  <2> QED  BY <2>2, <2>3, SendSound DEF Keeps
<1>3. CASE \E r \in Receiver : lagging(r)
  <2>1. PICK r \in Receiver : lagging(r)
    BY <1>3
  <2>2. rx[r].key \in DOMAIN channels /\ Sound(channels[rx[r].key])
    BY <2>1, LookerConnected DEF lagging, Looks
  <2> DEFINE d == [channels[rx[r].key] EXCEPT !.lagged = FALSE]
  <2>3. d.set = channels[rx[r].key].set
    BY <2>2 DEF Sound, Channel
  <2>4. channels' = [channels EXCEPT ![rx[r].key] = d]
    BY <2>1 DEF lagging
  <2> HIDE DEF d
  <2> QED  BY <2>2, <2>3, <2>4 DEF Keeps
<1>4. CASE \E r \in Receiver, v \in Item : take(r, v)
  <2>1. PICK r \in Receiver, v \in Item : take(r, v)
    BY <1>4
  <2> DEFINE c == channels[rx[r].key]
             d == [c EXCEPT !.queue = Tail(@), !.set = @ \ {v}]
  <2>2. /\ rx[r].key \in DOMAIN channels /\ Sound(c) /\ rx[r] \in Handle
    BY <2>1, LookerConnected DEF take, Looks
  <2>3. /\ channels' = [channels EXCEPT ![rx[r].key] = d]
        /\ c.queue # << >> /\ v = Head(c.queue) /\ Looks(r)
    BY <2>1 DEF take
  <2>4. v \in c.set /\ d.set = c.set \ {v}
    BY <2>2, <2>3, TakeSound
  <2>5. rx'[r].at = "out"
    BY <2>1, <2>2 DEF take, Seen, Handle, ChanInv, ChanTypeOK
  <2> HIDE DEF d
  <2>6. CASE k = rx[r].key
    <3>1. channels'[k] = d /\ k \in DOMAIN channels'
      BY <2>2, <2>3, <2>6
    <3>2. r \in Receivers(k)
      BY <2>6 DEF Receivers
    <3> QED  BY <2>3, <2>4, <2>5, <2>6, <3>1, <3>2 DEF Keeps
  <2>7. CASE k # rx[r].key
    BY <2>2, <2>3, <2>7 DEF Keeps
  <2> QED  BY <2>6, <2>7
<1>5. CASE channels' = channels
  BY <1>5 DEF Keeps
<1>6. \/ \E r \in Receiver, c \in Capacities, j \in Key : subscribe(r, c, j)
      \/ \E v \in Item : send(v)
      \/ \E r \in Receiver : lagging(r)
      \/ \E r \in Receiver, v \in Item : take(r, v)
      \/ channels' = channels
  BY DEF ChanNext, Subscriptions, Receive, clone, drop, drop_sender, recv, sleep, closed, cancel
<1> QED  BY <1>1, <1>2, <1>3, <1>4, <1>5, <1>6

\* Items leave a channel with receivers only through a recv() that returns them.
THEOREM LeaveByRecv == ChanSpec => ItemsLeaveByRecv
<1>1. ChanInv /\ [ChanNext]_chanVars
        => [\A k \in DOMAIN channels : Receivers(k) # {} => Keeps(k)]_chanVars
  BY KeepsStep
<1> QED  BY <1>1, ChanInvariant, PTL DEF ChanSpec, ItemsLeaveByRecv, Keeps

-----------------------------------------------------------------------------
(* The fetcher *)

USE DEF dbVars, scanVars, fetchVars, retryVars, taskVars

\* The receiver is subscribed to channel 0 until the task stops.
Subscribed == at # "stopped" => rx[Run].key = 0

\* What the locals of a fetch hold.
FetchShape ==
  /\ at \in {"notified", "fetch", "peers"} => author \in Item
  /\ at = "notified" => trigger = "Notification"
  /\ had_missing_events
       => at \in {"fetch", "peers", "stopped"} /\ trigger = "Notification"

\* What is left of a page is between the cursor and the high water mark.
PageShape ==
  /\ \A a \in page : cursor < a /\ a =< high_water
  /\ at \in {"select", "notified", "reconcile", "page"} => page = {}
  /\ at \in {"fetch", "peers"} /\ trigger = "Notification" => page = {}

\* The delay belongs to the deadline, and a scan for a retry runs after it.
RetryShape ==
  /\ deadline = NoDeadline => delay = InitialDelay
  /\ trigger = "RetryDeadline" /\ at \notin {"select", "stopped"} => deadline = 0
  /\ at = "reconcile" => trigger # "Notification"
  /\ at \in {"page", "authors"} => trigger # "Notification"

MissingInv ==
  /\ ChanInv /\ MissingTypeOK /\ Subscribed
  /\ FetchShape /\ PageShape /\ RetryShape /\ NoneAbandoned

\* While the task runs its channel exists.
LEMMA Channel0 ==
  ASSUME ChanInv, Subscribed, at # "stopped"
  PROVE  /\ Run \in Receiver /\ rx[Run].key = 0 /\ 0 \in DOMAIN channels
         /\ Sound(channels[0])
<1>1. Run \in Receiver /\ rx[Run].key = 0
  BY RunAssumption DEF Subscribed
<1>2. 0 \in DOMAIN channels
  BY <1>1 DEF ChanInv, ReceiversConnected, NoKey
<1> QED  BY <1>1, <1>2, AllSound DEF ChanInv

-----------------------------------------------------------------------------
(* The channel: every step of the system is one of DedupChan, or none *)

\* The channel of a task that just started is that of a fresh subscription.
LEMMA MissingInitChan == MissingInit => ChanInv
<1> SUFFICES ASSUME MissingInit  PROVE ChanInv
  OBVIOUS
<1>1. PICK c \in Capacities : channels =
        [k \in Key |-> [set |-> {}, queue |-> << >>, lagged |-> FALSE, capacity |-> c]]
  BY DEF MissingInit
<1> DEFINE n == [set |-> {}, queue |-> << >>, lagged |-> FALSE, capacity |-> c]
           h == [key |-> 0, at |-> "out", changed |-> FALSE]
<1>2. Key = {0} /\ NoKey # 0
  BY RunAssumption DEF Key, NoKey
<1>3. n \in Channel /\ h \in Handle /\ h.key = 0 /\ h.at = "out"
  BY <1>2 DEF Channel, Handle
<1>4. Sound(n)
  BY <1>3, ChanAssumption DEF Sound
<1>5. DOMAIN channels = Key /\ \A k \in Key : channels[k] = n
  BY <1>1
<1>6. rx = [r \in Receiver |-> h] /\ open = TRUE /\ owed = [k \in Key |-> {}]
  BY DEF MissingInit
<1> HIDE DEF n, h
<1>7. ChanTypeOK /\ SetMirrorsQueue
  <2>1. rx \in [Receiver -> Handle] /\ open \in BOOLEAN /\ owed \in [Key -> SUBSET Item]
    BY <1>3, <1>6
  <2> QED  BY <1>4, <1>5, <2>1, AllSound
<1>8. SentOrLagging
  BY <1>5, <1>6 DEF SentOrLagging
<1>9. HandleShape /\ NobodySleepsOverWork /\ ReceiversConnected
  BY <1>2, <1>3, <1>5, <1>6 DEF HandleShape, NobodySleepsOverWork, ReceiversConnected
<1> QED  BY <1>7, <1>8, <1>9 DEF ChanInv

\* The fetcher uses its channel as DedupChan allows.
LEMMA MissingIsChan ==
  ASSUME [MissingNext]_missingVars
  PROVE  [ChanNext]_chanVars
<1>0. Run \in Receiver
  BY RunAssumption
<1>1. CASE UNCHANGED missingVars
  BY <1>1 DEF missingVars, chanVars
<1>2. CASE Writers
  BY <1>2 DEF Writers, process_event, chanVars
<1>3. CASE \E a \in Item : notify(a)
  BY <1>3 DEF notify, ChanNext
<1>4. CASE tick
  BY <1>4 DEF tick, chanVars
<1>5. CASE Peers
  <2>1. CASE \E e \in Event, P \in SUBSET Event : get_event(e, P)
    BY <2>1 DEF get_event, chanVars
  <2>2. CASE ingestion_failed
    BY <2>2, <1>0 DEF ingestion_failed, ChanNext, Subscriptions
  <2> QED  BY <1>5, <2>1, <2>2 DEF Peers
<1>6. CASE Task
  <2>1. CASE wait
    BY <1>0, <2>1 DEF wait, ChanNext, Receive
  <2>2. CASE wake_lagging
    BY <1>0, <2>2 DEF wake_lagging, ChanNext, Receive
  <2>3. CASE wake_retry
    BY <1>0, <2>3 DEF wake_retry, ChanNext, Receive
  <2>4. CASE \E a \in Item : wake_notification(a)
    BY <1>0, <2>4 DEF wake_notification, ChanNext, Receive
  <2>5. CASE \/ read_had_missing \/ read_high_water \/ read_page \/ next_author
             \/ page_done \/ read_missing \/ peers_asked
    BY <2>5 DEF read_had_missing, read_high_water, read_page, next_author, page_done,
                read_missing, peers_asked, chanVars
  <2> QED  BY <1>6, <2>1, <2>2, <2>3, <2>4, <2>5 DEF Task
<1> QED  BY <1>1, <1>2, <1>3, <1>4, <1>5, <1>6 DEF MissingNext

-----------------------------------------------------------------------------
(* The database *)

\* Inserting an event makes an author's events missing only with a hook to come.
LEMMA InsertMissing ==
  ASSUME MissingTypeOK, NEW a \in Item, NEW e \in Event, NEW P \in SUBSET Event,
         Insert(a, e, P)
  PROVE  /\ events' \in [Item -> [Event -> {"unknown", "missing", "present"}]]
         /\ hooks' \in [Item -> Nat]
         /\ \A b \in Item : hooks[b] > 0 => hooks'[b] > 0
         /\ \A b \in Item : Missing(b)' # {} => Missing(b) # {} \/ hooks'[b] > 0
<1> DEFINE mp == {p \in P : events[a][p] # "present"}
           f == [x \in Event |-> IF x = e THEN "present"
                                 ELSE IF x \in mp THEN "missing" ELSE events[a][x]]
<1>1. events \in [Item -> [Event -> {"unknown", "missing", "present"}]] /\ hooks \in [Item -> Nat]
  BY DEF MissingTypeOK
<1>2. events' = [events EXCEPT ![a] = f]
  BY DEF Insert
<1>3. hooks' = [hooks EXCEPT ![a] = IF mp = {} THEN @ ELSE @ + 1]
  BY DEF Insert
<1>4. f \in [Event -> {"unknown", "missing", "present"}]
  BY <1>1
<1>5. events' \in [Item -> [Event -> {"unknown", "missing", "present"}]]
  <2> HIDE DEF f
  <2> QED  BY <1>1, <1>2, <1>4
<1>6. hooks' \in [Item -> Nat] /\ \A b \in Item : hooks[b] > 0 => hooks'[b] > 0
  BY <1>1, <1>3
<1>7. ASSUME NEW b \in Item, Missing(b)' # {}
      PROVE  Missing(b) # {} \/ hooks'[b] > 0
  <2>1. CASE b # a
    BY <1>1, <1>2, <1>7, <2>1 DEF Missing
  <2>2. CASE b = a /\ mp = {}
    <3>1. PICK x \in Event : events'[a][x] = "missing"
      BY <1>7, <2>2 DEF Missing
    <3>2. events'[a] = f
      BY <1>1, <1>2
    <3>3. events[a][x] = "missing"
      BY <2>2, <3>1, <3>2
    <3> QED  BY <2>2, <3>3 DEF Missing
  <2>3. CASE b = a /\ mp # {}
    BY <1>1, <1>3, <2>3
  <2> QED  BY <2>1, <2>2, <2>3
<1> QED  BY <1>5, <1>6, <1>7

-----------------------------------------------------------------------------
(* Types and shapes *)

\* The parts of the invariant other than the channel's and NoneAbandoned.
Shapes == MissingTypeOK /\ Subscribed /\ FetchShape /\ PageShape /\ RetryShape

\* The retry policy keeps delays within their bounds.
LEMMA RetryBounds ==
  ASSUME MissingTypeOK, RetryShape
  PROVE  /\ ReconciledEmpty => /\ delay' \in InitialDelay .. MaxDelay
                               /\ deadline' \in NoDeadline .. MaxDelay
                               /\ deadline' = NoDeadline /\ delay' = InitialDelay
         /\ ReconciledWork => /\ delay' \in InitialDelay .. MaxDelay
                              /\ deadline' \in NoDeadline .. MaxDelay
                              /\ deadline' # NoDeadline
                              /\ deadline = NoDeadline /\ trigger # "RetryDeadline"
                                   => deadline' = InitialDelay
                              /\ deadline < deadline' => deadline = NoDeadline \/ trigger = "RetryDeadline"
         /\ observe_notification_work => /\ delay' \in InitialDelay .. MaxDelay
                                         /\ deadline' \in NoDeadline .. MaxDelay
                                         /\ deadline' # NoDeadline
                                         /\ deadline = NoDeadline => deadline' = InitialDelay
                                         /\ deadline # NoDeadline => deadline' = deadline
<1> USE RetryAssumption DEF NoDeadline, InitialDelay
<1>1. delay \in 1 .. MaxDelay /\ deadline \in -1 .. MaxDelay
  BY DEF MissingTypeOK
<1>2. deadline = -1 => delay = 1
  BY DEF RetryShape
<1>3. ASSUME ReconciledWork
      PROVE  /\ delay' \in 1 .. MaxDelay /\ deadline' \in -1 .. MaxDelay /\ deadline' # -1
             /\ deadline = -1 /\ trigger # "RetryDeadline" => deadline' = 1
             /\ deadline < deadline' => deadline = -1 \/ trigger = "RetryDeadline"
  BY <1>1, <1>2, <1>3 DEF ReconciledWork
<1>4. ASSUME observe_notification_work
      PROVE  /\ delay' \in 1 .. MaxDelay /\ deadline' \in -1 .. MaxDelay /\ deadline' # -1
             /\ deadline = -1 => deadline' = 1
             /\ deadline # -1 => deadline' = deadline
  BY <1>1, <1>4 DEF observe_notification_work
<1>5. ASSUME ReconciledEmpty
      PROVE  /\ delay' \in 1 .. MaxDelay /\ deadline' \in -1 .. MaxDelay
             /\ deadline' = -1 /\ delay' = 1
  BY <1>5 DEF ReconciledEmpty
<1> QED  BY <1>3, <1>4, <1>5

\* Back at the caller of fetch_missing_events.
LEMMA FetchDoneShapes ==
  ASSUME Shapes, at \in {"fetch", "peers"}, FetchDone
  PROVE  /\ at' \in {"select", "authors"} /\ (at' = "select" <=> trigger = "Notification")
         /\ author' = 0 /\ wanted' = {} /\ had_missing_events' = FALSE
         /\ delay' \in InitialDelay .. MaxDelay /\ deadline' \in NoDeadline .. MaxDelay
         /\ deadline' = NoDeadline => deadline = NoDeadline /\ delay' = InitialDelay
                                      /\ ~ had_missing_events
         /\ trigger = "RetryDeadline" => deadline' = deadline
         /\ deadline # NoDeadline => deadline' = deadline
         /\ deadline = NoDeadline /\ deadline' # NoDeadline => deadline' = InitialDelay
<1>1. MissingTypeOK /\ RetryShape /\ FetchShape
  BY DEF Shapes
<1>2. CASE had_missing_events
  <2>1. observe_notification_work /\ trigger = "Notification"
    BY <1>1, <1>2 DEF FetchDone, FetchShape
  <2> QED  BY <1>1, <2>1, RetryBounds, <1>2 DEF FetchDone
<1>3. CASE ~ had_missing_events
  BY <1>1, <1>3 DEF FetchDone, MissingTypeOK, RetryShape
<1> QED  BY <1>2, <1>3

\* The database's steps, time and the end of the task leave the shapes.
LEMMA OutsideShapes ==
  ASSUME ChanInv, ChanInv', Shapes,
         Writers \/ Peers \/ tick \/ (\E a \in Item : notify(a))
  PROVE  Shapes'
<1> USE DEF Shapes, Subscribed, FetchShape, PageShape, RetryShape
<1>1. ChanTypeOK'
  BY DEF ChanInv
<1>2. ASSUME NEW a \in Item, NEW e \in Event, NEW P \in SUBSET Event,
             Insert(a, e, P), UNCHANGED <<chanVars, taskVars>>
      PROVE  Shapes'
  <2>1. /\ events' \in [Item -> [Event -> {"unknown", "missing", "present"}]]
        /\ hooks' \in [Item -> Nat]
    BY <1>2, InsertMissing
  <2> QED  BY <1>1, <1>2, <2>1 DEF MissingTypeOK, chanVars
<1>3. CASE Writers
  BY <1>2, <1>3 DEF Writers, process_event
<1>4. CASE \E e \in Event, P \in SUBSET Event : get_event(e, P)
  BY <1>2, <1>4 DEF get_event
<1>5. CASE ingestion_failed
  BY <1>1, <1>5 DEF ingestion_failed, MissingTypeOK, TaskStates
<1>6. CASE tick
  BY <1>1, <1>6, RetryAssumption DEF tick, MissingTypeOK, chanVars, NoDeadline, InitialDelay
<1>7. CASE \E a \in Item : notify(a)
  <2>1. PICK a \in Item : notify(a)
    BY <1>7
  <2>2. hooks' \in [Item -> Nat]
    BY <2>1 DEF notify, MissingTypeOK
  <2>3. rx'[Run].key = rx[Run].key
    <3>1. rx[Run] \in Handle
      BY RunAssumption DEF ChanInv, ChanTypeOK
    <3> QED  BY <2>1, <3>1, RunAssumption DEF notify, send, Handle
  <2> QED  BY <1>1, <2>1, <2>2, <2>3 DEF notify, MissingTypeOK
<1> QED  BY <1>3, <1>4, <1>5, <1>6, <1>7 DEF Peers

\* A handle's step in recv() keeps its channel.
LEMMA SameChannel ==
  ASSUME ChanInv, NEW r \in Receiver,
         recv(r) \/ sleep(r) \/ lagging(r) \/ cancel(r) \/ (\E v \in Item : take(r, v))
  PROVE  rx'[r].key = rx[r].key
<1>1. rx \in [Receiver -> Handle] /\ rx[r] \in Handle
  BY DEF ChanInv, ChanTypeOK
<1>2. CASE recv(r) \/ cancel(r)
  BY <1>1, <1>2 DEF recv, cancel, Handle
<1>3. ASSUME Seen(r, "out") \/ Seen(r, "wait")
      PROVE  rx'[r].key = rx[r].key
  BY <1>1, <1>3 DEF Seen, Handle
<1>4. CASE sleep(r) \/ lagging(r) \/ (\E v \in Item : take(r, v))
  BY <1>3, <1>4 DEF sleep, lagging, take
<1> QED  BY <1>2, <1>4

\* The task's own steps leave the shapes.
LEMMA TaskShapes ==
  ASSUME ChanInv, ChanInv', Shapes, Task
  PROVE  Shapes'
<1> USE DEF Shapes, Subscribed, FetchShape, PageShape, RetryShape
<1>0. ChanTypeOK' /\ Run \in Receiver
  BY RunAssumption DEF ChanInv
<1>1. CASE wait
  <2>1. rx'[Run].key = rx[Run].key
    BY <1>0, <1>1, SameChannel DEF wait
  <2> QED  BY <1>0, <1>1, <2>1 DEF wait, MissingTypeOK
<1>2. CASE wake_lagging
  <2>1. rx'[Run].key = rx[Run].key
    BY <1>0, <1>2, SameChannel DEF wake_lagging
  <2> QED  BY <1>0, <1>2, <2>1 DEF wake_lagging, MissingTypeOK, TaskStates, Triggers
<1>3. CASE wake_retry
  <2>1. rx'[Run].key = rx[Run].key
    BY <1>0, <1>3, SameChannel DEF wake_retry
  <2> QED  BY <1>0, <1>3, <2>1 DEF wake_retry, MissingTypeOK, TaskStates, Triggers
<1>4. CASE \E a \in Item : wake_notification(a)
  <2>1. PICK a \in Item : wake_notification(a)
    BY <1>4
  <2>2. rx'[Run].key = rx[Run].key
    BY <1>0, <2>1, SameChannel DEF wake_notification
  <2> QED  BY <1>0, <2>1, <2>2 DEF wake_notification, MissingTypeOK, TaskStates, Triggers
<1>5. CASE read_had_missing
  BY <1>0, <1>5 DEF read_had_missing, MissingTypeOK, TaskStates, chanVars
<1>6. CASE read_high_water
  <2>1. CASE Authors = {} /\ ReconciledEmpty /\ at' = "select" /\ UNCHANGED high_water
    <3>1. /\ delay' \in InitialDelay .. MaxDelay /\ deadline' \in NoDeadline .. MaxDelay
          /\ deadline' = NoDeadline /\ delay' = InitialDelay
      BY <2>1, RetryBounds
    <3> QED  BY <1>0, <1>6, <2>1, <3>1 DEF read_high_water, MissingTypeOK, TaskStates, chanVars
  <2>2. CASE \E a \in Authors : high_water' = a /\ at' = "page" /\ UNCHANGED retryVars
    BY <1>0, <1>6, <2>2 DEF read_high_water, MissingTypeOK, TaskStates, chanVars, Authors
  <2> QED  BY <1>6, <2>1, <2>2 DEF read_high_water
<1>7. CASE read_page
  <2> DEFINE rest == {a \in Authors : cursor < a}
             first == {a \in rest : Cardinality({b \in rest : b < a}) < PageSize}
             authors == UpToMark(first)
  <2>1. authors \subseteq Item /\ \A a \in authors : cursor < a /\ a =< high_water
    BY DEF UpToMark, Authors
  <2>2. CASE page' = authors /\ at' = "authors" /\ UNCHANGED <<high_water, cursor, retryVars>>
    <3> HIDE DEF authors
    <3> QED  BY <1>0, <1>7, <2>1, <2>2 DEF read_page, MissingTypeOK, TaskStates, chanVars
  <2>3. CASE ReconciledWork /\ EndScan /\ at' = "select" /\ UNCHANGED page
    <3>1. /\ delay' \in InitialDelay .. MaxDelay /\ deadline' \in NoDeadline .. MaxDelay
          /\ deadline' # NoDeadline
      BY <2>3, RetryBounds
    <3> QED  BY <1>0, <1>7, <2>3, <3>1 DEF read_page, EndScan, MissingTypeOK, TaskStates, chanVars
  <2> QED  BY <1>7, <2>2, <2>3 DEF read_page
<1>8. CASE next_author
  <2>1. PICK a \in page : /\ \A b \in page : a =< b
                          /\ author' = a /\ page' = page \ {a} /\ cursor' = a
    BY <1>8 DEF next_author
  <2>2. a \in Item /\ Item \subseteq Nat /\ page \subseteq Item
    BY AuthorAssumption DEF MissingTypeOK
  <2>3. \A b \in page' : cursor' < b /\ b =< high_water
    BY <2>1, <2>2
  <2> QED  BY <1>0, <1>8, <2>1, <2>2, <2>3 DEF next_author, MissingTypeOK, TaskStates, chanVars
<1>9. CASE page_done
  <2>1. CASE LastPage /\ ReconciledWork /\ EndScan /\ at' = "select"
    <3>1. /\ delay' \in InitialDelay .. MaxDelay /\ deadline' \in NoDeadline .. MaxDelay
          /\ deadline' # NoDeadline
      BY <2>1, RetryBounds
    <3> QED  BY <1>0, <1>9, <2>1, <3>1 DEF page_done, EndScan, MissingTypeOK, TaskStates, chanVars
  <2>2. CASE at' = "page" /\ UNCHANGED <<high_water, cursor, retryVars>>
    BY <1>0, <1>9, <2>2 DEF page_done, MissingTypeOK, TaskStates, chanVars
  <2> QED  BY <1>9, <2>1, <2>2 DEF page_done
<1>10. ASSUME FetchDone, at \in {"fetch", "peers"}, UNCHANGED <<chanVars, dbVars, trigger, scanVars>>
       PROVE  Shapes'
  BY <1>0, <1>10, FetchDoneShapes DEF MissingTypeOK, TaskStates, chanVars
<1>11. CASE read_missing
  <2>1. CASE FetchDone
    BY <1>10, <1>11, <2>1 DEF read_missing
  <2>2. CASE wanted' = Missing(author) /\ at' = "peers"
             /\ UNCHANGED <<author, had_missing_events, retryVars>>
    <3>1. wanted' \subseteq Event
      BY <2>2 DEF Missing
    <3> QED  BY <1>0, <1>11, <2>2, <3>1 DEF read_missing, MissingTypeOK, TaskStates, chanVars
  <2> QED  BY <1>11, <2>1, <2>2 DEF read_missing
<1>12. CASE peers_asked
  BY <1>10, <1>12 DEF peers_asked
<1> QED  BY <1>1, <1>2, <1>3, <1>4, <1>5, <1>6, <1>7, <1>8, <1>9, <1>11, <1>12 DEF Task

-----------------------------------------------------------------------------
(* No missing event is abandoned *)

\* The database's steps: a new missing event comes with a hook, and a hook leaves
\* its author in the queue or the channel lagging.
LEMMA OutsideCovers ==
  ASSUME MissingInv,
         Writers \/ Peers \/ tick \/ (\E a \in Item : notify(a))
  PROVE  NoneAbandoned'
<1> SUFFICES ASSUME NEW b \in Item, Missing(b)' # {}, at' # "stopped"
             PROVE  Covered(b)'
  BY DEF NoneAbandoned
<1>0. MissingTypeOK
  BY DEF MissingInv
<1>1. ASSUME NEW a \in Item, NEW e \in Event, NEW P \in SUBSET Event,
             Insert(a, e, P), UNCHANGED <<chanVars, taskVars>>
      PROVE  Covered(b)'
  <2>1. /\ hooks[b] > 0 => hooks'[b] > 0
        /\ Missing(b) # {} \/ hooks'[b] > 0
    BY <1>0, <1>1, InsertMissing
  <2>2. CASE hooks'[b] > 0
    BY <2>2 DEF Covered
  <2>3. CASE Missing(b) # {}
    <3>1. Covered(b)
      BY <1>1, <2>3 DEF MissingInv, NoneAbandoned
    <3> QED  BY <1>1, <2>1, <3>1 DEF Covered, chanVars
  <2> QED  BY <2>1, <2>2, <2>3
<1>2. CASE Writers
  BY <1>1, <1>2 DEF Writers, process_event
<1>3. CASE \E e \in Event, P \in SUBSET Event : get_event(e, P)
  <2>1. at = "peers" => author \in Item
    BY DEF MissingInv, FetchShape
  <2> QED  BY <1>1, <1>3, <2>1 DEF get_event
<1>4. CASE ingestion_failed
  BY <1>4 DEF ingestion_failed
<1>5. CASE tick
  <2>1. Missing(b) # {} /\ at # "stopped"
    BY <1>5 DEF tick, Missing
  <2>2. deadline \in Int /\ deadline > 0
    BY <1>0, <1>5, RetryAssumption DEF tick, MissingTypeOK, NoDeadline
  <2>3. deadline' # NoDeadline
    BY <1>5, <2>2 DEF tick, NoDeadline
  <2> QED  BY <2>3 DEF Covered
<1>6. CASE \E a \in Item : notify(a)
  <2>1. PICK a \in Item : notify(a)
    BY <1>6
  <2>2. Missing(b) # {} /\ at # "stopped" /\ UNCHANGED taskVars
    BY <2>1 DEF notify, Missing
  <2>3. Covered(b)
    BY <2>2 DEF MissingInv, NoneAbandoned
  <2>4. 0 \in DOMAIN channels /\ Sound(channels[0]) /\ rx[Run].key = 0 /\ Run \in Receiver
    BY <2>2, Channel0 DEF MissingInv
  <2>5. channels'[0] = ChannelSend(channels[0], a)
    <3>1. ~ Closed(0)
      BY <2>4 DEF Closed, Receivers
    <3> QED  BY <2>1, <2>4, <3>1 DEF notify, send
  <2>6. /\ channels[0].set \subseteq channels'[0].set
        /\ channels[0].lagged => channels'[0].lagged
        /\ a \in channels'[0].set \/ channels'[0].lagged
    BY <2>4, <2>5, SendSound
  <2>7. b # a => hooks'[b] = hooks[b]
    BY <1>0, <2>1 DEF notify, MissingTypeOK
  <2> QED  BY <2>2, <2>3, <2>6, <2>7 DEF Covered
<1> QED  BY <1>2, <1>3, <1>4, <1>5, <1>6 DEF Peers

\* The task's steps: it goes back to waiting only with a deadline, or when it
\* saw that nothing was missing.
LEMMA TaskCovers ==
  ASSUME MissingInv, Task
  PROVE  NoneAbandoned'
<1> SUFFICES ASSUME NEW b \in Item, Missing(b)' # {}
             PROVE  Covered(b)'
  BY DEF NoneAbandoned
<1>0. MissingTypeOK /\ Shapes /\ RetryShape /\ ChanInv /\ Subscribed
  BY DEF MissingInv, Shapes
<1>1. Missing(b) # {} /\ UNCHANGED dbVars
  BY DEF Task, wait, wake_lagging, wake_retry, wake_notification, read_had_missing,
         read_high_water, read_page, next_author, page_done, read_missing, peers_asked,
         Missing
<1>2. at # "stopped" /\ Covered(b)
  <2>1. at # "stopped"
    BY DEF Task, wait, wake_lagging, wake_retry, wake_notification, read_had_missing,
           read_high_water, read_page, next_author, page_done, read_missing, peers_asked
  <2> QED  BY <1>1, <2>1 DEF MissingInv, NoneAbandoned
<1>3. Run \in Receiver /\ rx[Run].key = 0 /\ 0 \in DOMAIN channels /\ Sound(channels[0])
  BY <1>0, <1>2, Channel0
<1>4. CASE wait
  BY <1>1, <1>2, <1>4 DEF wait, recv, sleep, Covered
<1>5. CASE wake_lagging \/ wake_retry
  BY <1>5 DEF wake_lagging, wake_retry, Covered
<1>6. CASE \E a \in Item : wake_notification(a)
  <2>1. PICK a \in Item : wake_notification(a)
    BY <1>6
  <2>2. CASE b = a
    BY <2>1, <2>2 DEF wake_notification, Covered
  <2>3. CASE b # a
    <3> DEFINE d == [channels[0] EXCEPT !.queue = Tail(@), !.set = @ \ {a}]
    <3>1. /\ channels' = [channels EXCEPT ![0] = d]
          /\ channels[0].queue # << >> /\ a = Head(channels[0].queue)
      BY <1>3, <2>1 DEF wake_notification, take
    <3>2. d.set = channels[0].set \ {a} /\ d.lagged = channels[0].lagged
      BY <1>3, <3>1, TakeSound
    <3>3. channels'[0] = d
      BY <1>3, <3>1
    <3> HIDE DEF d
    <3> QED  BY <1>1, <1>2, <2>1, <2>3, <3>2, <3>3 DEF wake_notification, Covered
  <2> QED  BY <2>2, <2>3
<1>7. CASE read_had_missing
  <2>1. CASE author = b
    BY <1>1, <1>7, <2>1 DEF read_had_missing, Covered
  <2>2. CASE author # b
    BY <1>1, <1>2, <1>7, <2>2 DEF read_had_missing, Covered, chanVars
  <2> QED  BY <2>1, <2>2
<1>8. CASE read_high_water
  <2>1. Authors # {}
    BY <1>1 DEF Authors
  <2> QED  BY <1>8, <2>1 DEF read_high_water, Covered
<1>9. CASE read_page
  <2>1. CASE at' = "authors"
    BY <2>1 DEF Covered
  <2>2. CASE ReconciledWork
    <3>1. deadline' # NoDeadline
      BY <1>0, <2>2, RetryBounds
    <3> QED  BY <3>1 DEF Covered
  <2> QED  BY <1>9, <2>1, <2>2 DEF read_page
<1>10. CASE next_author
  <2>1. trigger # "Notification"
    BY <1>0, <1>10 DEF RetryShape, next_author
  <2> QED  BY <1>10, <2>1 DEF next_author, Covered
<1>11. CASE page_done
  <2>1. CASE at' = "page"
    BY <2>1 DEF Covered
  <2>2. CASE ReconciledWork
    <3>1. deadline' # NoDeadline
      BY <1>0, <2>2, RetryBounds
    <3> QED  BY <3>1 DEF Covered
  <2> QED  BY <1>11, <2>1, <2>2 DEF page_done
<1>12. ASSUME FetchDone, at \in {"fetch", "peers"}, UNCHANGED <<chanVars, dbVars, trigger, scanVars>>
       PROVE  Covered(b)'
  <2>1. /\ at' \in {"select", "authors"} /\ (at' = "select" <=> trigger = "Notification")
        /\ deadline' = NoDeadline => deadline = NoDeadline /\ ~ had_missing_events
    BY <1>0, <1>12, FetchDoneShapes
  <2> QED  BY <1>2, <1>12, <2>1 DEF Covered, chanVars
<1>13. CASE read_missing
  <2>1. CASE FetchDone
    BY <1>12, <1>13, <2>1 DEF read_missing
  <2>2. CASE at' = "peers" /\ UNCHANGED <<author, had_missing_events, retryVars>>
    BY <1>2, <1>13, <2>2 DEF read_missing, Covered, chanVars
  <2> QED  BY <1>13, <2>1, <2>2 DEF read_missing
<1>14. CASE peers_asked
  BY <1>12, <1>14 DEF peers_asked
<1> QED  BY <1>4, <1>5, <1>6, <1>7, <1>8, <1>9, <1>10, <1>11, <1>13, <1>14 DEF Task

-----------------------------------------------------------------------------
(* The invariant *)

\* A start with any missing events: the task reconciles first.
LEMMA MissingInitInv == MissingInit => MissingInv
<1> SUFFICES ASSUME MissingInit  PROVE MissingInv
  OBVIOUS
<1>1. ChanInv
  BY MissingInitChan
<1>2. MissingTypeOK
  <2>1. 1 \in 1 .. MaxDelay /\ -1 \in -1 .. MaxDelay /\ hooks \in [Item -> Nat]
    BY RetryAssumption DEF MissingInit
  <2> QED  BY <1>1, <2>1 DEF MissingInit, MissingTypeOK, ChanInv, TaskStates, Triggers,
                             InitialDelay, NoDeadline
<1>3. Subscribed
  <2>1. rx[Run] = [key |-> 0, at |-> "out", changed |-> FALSE]
    BY RunAssumption DEF MissingInit
  <2> QED  BY <2>1 DEF Subscribed
<1>4. FetchShape /\ PageShape /\ RetryShape /\ NoneAbandoned
  BY DEF MissingInit, FetchShape, PageShape, RetryShape, NoneAbandoned, Covered
<1> QED  BY <1>1, <1>2, <1>3, <1>4 DEF MissingInv

\* Every step keeps the invariant.
LEMMA MissingStep ==
  ASSUME MissingInv, [MissingNext]_missingVars
  PROVE  MissingInv'
<1>1. ChanInv /\ Shapes
  BY DEF MissingInv, Shapes
<1>2. ChanInv'
  BY <1>1, MissingIsChan, ChanStep
<1>3. CASE UNCHANGED missingVars
  <2>1. Shapes'
    BY <1>1, <1>2, <1>3 DEF missingVars, chanVars, Shapes, Subscribed, FetchShape,
         PageShape, RetryShape, MissingTypeOK, ChanInv
  <2>2. NoneAbandoned'
    BY <1>3 DEF MissingInv, missingVars, chanVars, NoneAbandoned, Missing, Covered
  <2> QED  BY <1>2, <2>1, <2>2 DEF MissingInv, Shapes
<1>4. CASE Task
  BY <1>1, <1>2, <1>4, TaskShapes, TaskCovers DEF MissingInv, Shapes
<1>5. CASE Writers \/ Peers \/ tick \/ (\E a \in Item : notify(a))
  BY <1>1, <1>2, <1>5, OutsideShapes, OutsideCovers DEF MissingInv, Shapes
<1> QED  BY <1>3, <1>4, <1>5 DEF MissingNext

\* The fetcher's invariant holds always.
THEOREM MissingInvariant == MissingSpec => []MissingInv
<1>1. MissingInit => MissingInv
  BY MissingInitInv
<1>2. MissingInv /\ [MissingNext]_missingVars => MissingInv'
  BY MissingStep
<1> QED  BY <1>1, <1>2, PTL DEF MissingSpec

\* Delays stay between their bounds, and so do all other variables.
THEOREM MissingTypeCorrect == MissingSpec => []MissingTypeOK
<1>1. MissingInv => MissingTypeOK
  BY DEF MissingInv
<1> QED  BY <1>1, MissingInvariant, PTL

\* No missing event is abandoned, for any number of authors and events, channel
\* capacity and page size.
THEOREM NoMissingAbandoned == MissingSpec => []NoneAbandoned
<1>1. MissingInv => NoneAbandoned
  BY DEF MissingInv
<1> QED  BY <1>1, MissingInvariant, PTL

-----------------------------------------------------------------------------
(* The retry deadline *)

\* How one step may move the deadline.
LEMMA DeadlineStep ==
  ASSUME MissingInv, [MissingNext]_missingVars
  PROVE  /\ deadline # NoDeadline /\ deadline' # NoDeadline /\ deadline < deadline'
              => deadline = 0 /\ trigger = "RetryDeadline"
         /\ deadline = NoDeadline /\ deadline' # NoDeadline => deadline' = InitialDelay
<1>0. MissingTypeOK /\ RetryShape /\ Shapes
  BY DEF MissingInv, Shapes
<1>1. deadline \in Int /\ 0 # NoDeadline
  BY <1>0, RetryAssumption DEF MissingTypeOK, NoDeadline
<1>2. CASE UNCHANGED deadline
  BY <1>1, <1>2
<1>3. CASE tick
  BY <1>1, <1>3 DEF tick, NoDeadline
<1>4. CASE ReconciledWork /\ at \in {"page", "authors"}
  <2>1. trigger = "RetryDeadline" => deadline = 0
    BY <1>0, <1>4 DEF RetryShape
  <2> QED  BY <1>0, <1>1, <1>4, <2>1, RetryBounds
<1>5. CASE ReconciledEmpty
  BY <1>0, <1>5, RetryBounds
<1>6. CASE FetchDone /\ at \in {"fetch", "peers"}
  <2>1. /\ deadline # NoDeadline => deadline' = deadline
        /\ deadline = NoDeadline /\ deadline' # NoDeadline => deadline' = InitialDelay
    BY <1>0, <1>6, FetchDoneShapes
  <2> QED  BY <1>1, <2>1
<1>7. \/ UNCHANGED deadline \/ tick
      \/ ReconciledWork /\ at \in {"page", "authors"}
      \/ ReconciledEmpty
      \/ FetchDone /\ at \in {"fetch", "peers"}
  <2>1. CASE Task
    BY <2>1 DEF Task, wait, wake_lagging, wake_retry, wake_notification, read_had_missing,
                read_high_water, read_page, next_author, page_done, read_missing, peers_asked
  <2>2. CASE Writers \/ Peers \/ (\E a \in Item : notify(a))
    BY <2>2 DEF Writers, Peers, process_event, get_event, ingestion_failed, notify
  <2>3. CASE UNCHANGED missingVars
    BY <2>3 DEF missingVars
  <2> QED  BY <2>1, <2>2, <2>3 DEF MissingNext
<1> QED  BY <1>2, <1>3, <1>4, <1>5, <1>6, <1>7

\* Nothing but the retry itself puts a retry off.
THEOREM RetryKeepsItsTime == MissingSpec => RetryNotPostponed
<1>1. MissingInv /\ [MissingNext]_missingVars
        => [deadline # NoDeadline /\ deadline' # NoDeadline /\ deadline < deadline'
              => deadline = 0 /\ trigger = "RetryDeadline"]_missingVars
  BY DeadlineStep
<1> QED  BY <1>1, MissingInvariant, PTL DEF MissingSpec, RetryNotPostponed

\* A new deadline is the initial delay away.
THEOREM DeadlineStartsFresh == MissingSpec => FreshDeadline
<1>1. MissingInv /\ [MissingNext]_missingVars
        => [deadline = NoDeadline /\ deadline' # NoDeadline => deadline' = InitialDelay]_missingVars
  BY DeadlineStep
<1> QED  BY <1>1, MissingInvariant, PTL DEF MissingSpec, FreshDeadline

\* A scan goes from author to author towards its high water mark.
THEOREM ScansAdvance == MissingSpec => ScanAdvances
<1>1. ASSUME MissingInv, MissingNext, at = "authors", at' = "fetch"
      PROVE  cursor < cursor' /\ cursor' =< high_water
  <2>1. next_author
    BY <1>1 DEF MissingNext, Task, Writers, Peers, process_event, get_event,
         ingestion_failed, notify, tick, wait, wake_lagging, wake_retry,
         wake_notification, read_had_missing, read_high_water, read_page, page_done,
         read_missing, peers_asked
  <2> QED  BY <1>1, <2>1 DEF next_author, MissingInv, PageShape
<1>2. MissingInv /\ [MissingNext]_missingVars
        => [at = "authors" /\ at' = "fetch" => cursor < cursor' /\ cursor' =< high_water]_missingVars
  BY <1>1
<1> QED  BY <1>2, MissingInvariant, PTL DEF MissingSpec, ScanAdvances

\* Neither retries nor scans are put off by what goes on meanwhile, for any number of
\* authors and events (MissingRetryPolicy, reconcile_missing_events).
THEOREM ScheduleIsKept == MissingSpec => ScheduleKept
BY RetryKeepsItsTime, DeadlineStartsFresh, ScansAdvance DEF ScheduleKept
=============================================================================
