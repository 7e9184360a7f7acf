---------------------------- MODULE EmojiDatabase ----------------------------
(***************************************************************************)
(* The emoji store of a browser and who uses it: the class Database of       *)
(* emoji-picker-element, the picker that closes it when it leaves the page,  *)
(* and the composer's cache of all emojis (app.js).  Objects of one tab      *)
(* share a connection; the tabs share the store.                             *)
(*                                                                           *)
(* An object keeps its calls of _init as runs; _ready and _lazyUpdate are    *)
(* numbers of runs, 0 for undefined.  Who awaits a run goes on as a          *)
(* microtask, before any other event of its tab: see Quiet.  Data and eTag   *)
(* of the server are the number of its version.  A request may be answered   *)
(* by an HTTP cache with an earlier version: see Answers.                    *)
(***************************************************************************)
EXTENDS EmojiSearch

CONSTANTS
  Tabs,
  PickerTab,          \* the tab with a picker
  Data,               \* Data[v]: what the server sends at version v
  Groups,             \* groups the composer asks for are 1 .. Groups (0 .. 9)
  Queries,            \* searches, each a sequence of words
  MaxFaults,          \* bound: failures and cleared stores
  MaxLeaves,          \* bound: times the picker leaves
  MaxObjects          \* bound: Database objects

ASSUME EmojiAssumption ==
  /\ PickerTab \in Tabs
  /\ Len(Data) \in Nat \ {0} /\ DOMAIN Data = 1 .. Len(Data)
  /\ {Groups, MaxFaults, MaxLeaves, MaxObjects} \subseteq Nat

NoStore == [tag |-> 0, data |-> 0]
NoConn == 0
NoSearch == [words |-> << >>, found |-> << >>]

VARIABLES
  version,            \* of the server's data
  aged,               \* versions an HTTP cache gave to an update after the server had a newer one
  store,              \* the IndexedDB: [tag, data], 0 where there is nothing
  conns,              \* connections: [tab, state]
  cache,              \* databaseCache of each tab, a connection or NoConn
  listeners,          \* onCloseListeners of each tab
  objs,               \* the Database objects: [tab, ready, lazy, db, runs]
  composer,           \* of each tab: [at, obj, run, group, all], run a connection while it reads
  picker,             \* [shown, at, obj, run, left], left counts
  faults,             \* faults so far
  search              \* the last search

emojiVars == <<version, aged, store, conns, cache, listeners, objs, composer, picker, faults, search>>

-----------------------------------------------------------------------------
(* Connections *)

\* What the code of a tab works on, as one value
World == [objs |-> objs, conns |-> conns, cache |-> cache, listeners |-> listeners]

Become(w) ==
  objs' = w.objs /\ conns' = w.conns /\ cache' = w.cache /\ listeners' = w.listeners

\* MUTANT: every object opens a connection of its own.
openDatabase_Each(w, t) ==
  [w EXCEPT !.conns = Append(@, [tab |-> t, state |-> "pending"]), !.cache[t] = Len(w.conns) + 1]

\* openDatabase(dbName), createDatabase: what is cached is a promise, also one that
\* was rejected.
openDatabase(w, t) ==
  IF w.cache[t] # NoConn THEN w
  ELSE [w EXCEPT !.conns = Append(@, [tab |-> t, state |-> "pending"]),
                 !.cache[t] = Len(w.conns) + 1]

\* A run has ended; what it had fetched is forgotten.
Ends(run, how) == [run EXCEPT !.at = how, !.tag = 0, !.data = 0, !.conn = NoConn]
LazyEnds(run, how) == [run EXCEPT !.lazy = how, !.tag = 0, !.data = 0, !.conn = NoConn]

\* addOnCloseListener(dbName, listener), by each of the objects S
addOnCloseListener(w, t, S) == [w EXCEPT !.listeners[t] = @ \cup S]

\* _init() of an object after openDatabase, when its connection c is not pending;
\* isEmpty(db) begins.
Opens(obj, c, state) ==
  IF state = "rejected" THEN [obj EXCEPT !.runs[obj.ready] = Ends(@, "failed")]
  ELSE [obj EXCEPT !.db = c, !.runs[obj.ready] = IF state = "open" THEN [@ EXCEPT !.at = "empty"]
                                                 ELSE Ends(@, "failed")]

\* The objects S await connection c: they go on if it is not pending.
InitOpened(w, S, c) ==
  LET state == w.conns[c].state
      v == [w EXCEPT !.objs = [o \in DOMAIN @ |-> IF o \in S THEN Opens(@[o], c, state) ELSE @[o]]]
  IN IF state = "pending" THEN w
     ELSE IF state = "rejected" THEN v
     ELSE addOnCloseListener(v, w.conns[c].tab, S)

\* this._ready = this._init(): a run that awaits connection c
NewRun(w, o, c) ==
  LET obj == w.objs[o]
      run == [at |-> "open", conn |-> c, lazy |-> "none", tag |-> 0, data |-> 0]
  IN [w EXCEPT !.objs[o] = [obj EXCEPT !.runs = Append(obj.runs, run), !.ready = Len(obj.runs) + 1]]

\* checkReady(): _init() is called if _ready is not set.
CheckReady(w, o) ==
  LET v == openDatabase(w, w.objs[o].tab)
      c == v.cache[w.objs[o].tab]
  IN IF w.objs[o].ready # 0 THEN w ELSE InitOpened(NewRun(v, o, c), {o}, c)

\* new Database({dataSource})
NewObject(w, t) ==
  CheckReady([w EXCEPT !.objs = Append(@, [tab |-> t, ready |-> 0, lazy |-> 0, db |-> NoConn,
                                            runs |-> << >>])], Len(w.objs) + 1)

\* _clear()
clear(obj) == [obj EXCEPT !.ready = 0, !.lazy = 0, !.db = NoConn]

\* close() of a connection
close(conn) == IF conn.state = "open" THEN [conn EXCEPT !.state = "closed"] ELSE conn

\* closeDatabase(dbName): the result of a pending request cannot be read, an error.
\* Every listener is _clear() of an object.
closeDatabase(w, t) ==
  LET c == w.cache[t]
      gone == [w EXCEPT !.cache[t] = NoConn, !.listeners[t] = {}]
  IN IF c = NoConn THEN gone
     ELSE IF w.conns[c].state = "pending" THEN w
     ELSE IF w.conns[c].state = "rejected" THEN gone
     ELSE [gone EXCEPT !.objs = [o \in DOMAIN @ |-> IF o \in w.listeners[t] THEN clear(@[o]) ELSE @[o]],
                       !.conns[c] = close(@)]

-----------------------------------------------------------------------------
(* Who awaits a run *)

Run(o, r) == objs[o].runs[r]
Settled(o, r) == Run(o, r).at \in {"ok", "failed"}
LazySettled(o, r) == Run(o, r).lazy \in {"ok", "failed"}

\* Steps of ready(): after the first and after the second checkReady()
Awaits == {"ready", "again"}
ComposerGoes(t) == composer[t].at \in Awaits /\ Settled(composer[t].obj, composer[t].run)
PickerGoes ==
  \/ picker.at \in Awaits /\ Settled(picker.obj, picker.run)
  \/ picker.at = "lazy" /\ LazySettled(picker.obj, picker.run)

\* No microtask is waiting.
Quiet == ~ PickerGoes /\ \A t \in Tabs : ~ ComposerGoes(t)

Fault == faults < MaxFaults /\ faults' = faults + 1
MayFail(ok) == IF ok THEN UNCHANGED faults ELSE Fault

\* MUTANT: the composer gives up when its database is not there.
ComposerThrows_Stop(c) == [c EXCEPT !.at = "stopped"]

\* The catch blocks of _initEmojiDb: a timer for another object, or the next group
ComposerThrows(c) == [c EXCEPT !.at = "retry", !.obj = 0, !.run = 0]

\* getEmojiByGroup(group) of the class is called for the next group, ready() first.
NextGroup(w, t, c) ==
  IF c.group = Groups
  THEN Become(w) /\ composer' = [composer EXCEPT ![t] = [c EXCEPT !.at = "done", !.run = 0]]
  ELSE LET v == CheckReady(w, c.obj)
       IN /\ Become(v)
          /\ composer' = [composer EXCEPT ![t] = [c EXCEPT !.at = "ready", !.group = @ + 1,
                                                           !.run = v.objs[c.obj].ready]]

\* _initEmojiDb(): the script is there, or a second has passed since the last failure,
\* in which the event of a lost connection has come.
ComposerStarts(t) ==
  /\ Quiet /\ composer[t].at \in {"wait", "retry"} /\ Len(objs) < MaxObjects
  /\ composer[t].at = "retry" => ~ \E c \in DOMAIN conns : conns[c].tab = t /\ conns[c].state = "lost"
  /\ LET w == NewObject(World, t) IN
       /\ Become(w)
       /\ composer' = [composer EXCEPT ![t] = [at |-> "ready", obj |-> Len(w.objs), run |-> 1,
                                                group |-> 0, all |-> {}]]
  /\ UNCHANGED <<version, aged, store, picker, faults>>

\* The run it awaits has ended: ready() throws, checks again, or returns, and the group
\* is read.  The errors of a group are swallowed.
ComposerContinues(t) ==
  LET c == composer[t]
      db == objs[c.obj].db
      failed == Run(c.obj, c.run).at = "failed"
      again == ~ failed /\ c.at = "ready" /\ db = NoConn
      reads == ~ failed /\ ~ again /\ c.group > 0
      open == db # NoConn /\ conns[db].state = "open"
      v == CheckReady(World, c.obj)
  IN /\ ComposerGoes(t)
     /\ \/ failed /\ c.group = 0 /\ Become(World) /\ composer' = [composer EXCEPT ![t] = ComposerThrows(c)]
        \/ again /\ Become(v) /\ composer' = [composer EXCEPT ![t].at = "again", ![t].run = v.objs[c.obj].ready]
        \/ reads /\ open /\ Become(World) /\ composer' = [composer EXCEPT ![t].at = "read", ![t].run = db]
        \/ /\ IF c.group = 0 THEN ~ failed /\ ~ again ELSE failed \/ (reads /\ ~ open)
           /\ NextGroup(World, t, c)
     /\ UNCHANGED <<version, aged, store, picker, faults>>

\* The transaction of a group has ended.  Closing a connection waits for it, losing one
\* does not.
GroupRead(t) ==
  LET c == composer[t] IN
  /\ Quiet /\ c.at = "read"
  /\ NextGroup(World, t,
       IF conns[c.run].state = "lost" \/ store = NoStore THEN c
       ELSE [c EXCEPT !.all = @ \cup getEmojiByGroup(transformEmojiData(Data[store.data]), c.group)])
  /\ UNCHANGED <<version, aged, store, picker, faults>>

\* The picker comes into the page with an object of its own.
PickerEnters ==
  /\ Quiet /\ picker.obj = 0 /\ Len(objs) < MaxObjects
  /\ LET w == NewObject(World, PickerTab) IN
       Become(w) /\ picker' = [picker EXCEPT !.shown = TRUE, !.obj = Len(w.objs)]
  /\ UNCHANGED <<version, aged, store, composer, faults>>

\* connectedCallback() of an element that was here before: its component calls ready().
\* Bound: only while close() is under way.
PickerReturns ==
  /\ Quiet /\ ~ picker.shown /\ picker.at # "idle"
  /\ Become(CheckReady(World, picker.obj)) /\ picker' = [picker EXCEPT !.shown = TRUE]
  /\ UNCHANGED <<version, aged, store, composer, faults>>

\* disconnectedCallback(), close(), _shutdown(): ready() first.
PickerLeaves ==
  /\ Quiet /\ picker.shown /\ picker.at = "idle" /\ picker.left < MaxLeaves
  /\ LET v == CheckReady(World, picker.obj)
     IN /\ Become(v)
        /\ picker' = [picker EXCEPT !.shown = FALSE, !.at = "ready", !.left = @ + 1,
                                    !.run = v.objs[picker.obj].ready]
  /\ UNCHANGED <<version, aged, store, composer, faults>>

\* close() goes on: ready() throws or checks again, then _lazyUpdate is awaited.
PickerContinues ==
  LET o == picker.obj
      failed == picker.at \in Awaits /\ Run(o, picker.run).at = "failed"
      again == ~ failed /\ picker.at = "ready" /\ objs[o].db = NoConn
      lazy == ~ failed /\ ~ again /\ picker.at \in Awaits /\ objs[o].lazy # 0
      v == CheckReady(World, o)
      Closed == picker' = [picker EXCEPT !.at = "idle", !.run = 0]
  IN /\ PickerGoes
     /\ \/ failed /\ Become(World) /\ Closed
        \/ again /\ Become(v) /\ picker' = [picker EXCEPT !.at = "again", !.run = v.objs[o].ready]
        \/ lazy /\ Become(World) /\ picker' = [picker EXCEPT !.at = "lazy", !.run = objs[o].lazy]
        \/ ~ (failed \/ again \/ lazy) /\ Become(closeDatabase(World, PickerTab)) /\ Closed
     /\ UNCHANGED <<version, aged, store, composer, faults>>

-----------------------------------------------------------------------------
(* The browser *)

\* The request is answered; every _init() that awaits it goes on.
Opened(c, ok) ==
  LET w == [World EXCEPT !.conns[c].state = IF ok THEN "open" ELSE "rejected"]
      Waiting == {o \in DOMAIN objs : objs[o].ready # 0 /\ Run(o, objs[o].ready).at = "open"
                                      /\ Run(o, objs[o].ready).conn = c}
  IN /\ Quiet /\ conns[c].state = "pending" /\ MayFail(ok)
     /\ Become(InitOpened(w, Waiting, c))
     /\ UNCHANGED <<version, aged, store, composer, picker>>

\* The reader clears the browser's data: the connections of all tabs are lost, each
\* tab gets an event.
StoreCleared ==
  /\ Quiet /\ store # NoStore /\ Fault
  /\ store' = NoStore
  /\ Become([World EXCEPT !.conns = [c \in DOMAIN @ |-> IF @[c].state = "open" THEN [@[c] EXCEPT !.state = "lost"]
                                                        ELSE @[c]]])
  /\ UNCHANGED <<version, aged, composer, picker>>

\* db.onclose
OnClose(c) ==
  /\ Quiet /\ conns[c].state = "lost"
  /\ LET w == closeDatabase(World, conns[c].tab) IN Become([w EXCEPT !.conns[c].state = "closed"])
  /\ UNCHANGED <<version, aged, store, composer, picker, faults>>

\* The program is updated on the server.
Deploy ==
  /\ Quiet /\ version < Len(Data) /\ version' = version + 1
  /\ Become(World) /\ UNCHANGED <<aged, store, composer, picker, faults>>

-----------------------------------------------------------------------------
(* _init() and checkForUpdates(), after their first await *)

Usable(o, r) == conns[Run(o, r).conn].state = "open"
SetRun(o, r, new) == Become([World EXCEPT !.objs[o].runs[r] = new])
Resting == UNCHANGED <<version, aged, composer, picker>>

isEmpty == store = NoStore
hasData(eTag) == store.tag = eTag

\* isEmpty(db) has answered: the data is loaded, or an update begins on the side.
InitEmpty(o, r) ==
  LET lost == conns[Run(o, r).conn].state = "lost"
      empty == ~ lost /\ isEmpty
  IN /\ Quiet /\ Run(o, r).at = "empty"
     /\ \/ lost /\ SetRun(o, r, Ends(Run(o, r), "failed"))
        \/ empty /\ SetRun(o, r, [Run(o, r) EXCEPT !.at = "fetch"])
        \/ /\ ~ lost /\ ~ empty
           /\ Become([World EXCEPT !.objs[o] =
                [@ EXCEPT !.lazy = r, !.runs[r] = [Run(o, r) EXCEPT !.at = "ok", !.lazy = "head"]]])
     /\ Resting /\ UNCHANGED <<store, faults>>

\* What a request is answered with: the assets have "public, max-age=3600" and URLs
\* without a version, so a cache may still have an earlier one, for a GET or a HEAD.
Answers == 1 .. version

\* loadDataForFirstTime: getETagAndData(dataSource), both of one answer
InitFetched(o, r, ok) ==
  /\ Quiet /\ Run(o, r).at = "fetch" /\ MayFail(ok)
  /\ \/ ~ ok /\ SetRun(o, r, Ends(Run(o, r), "failed"))
     \/ ok /\ \E v \in Answers :
          SetRun(o, r, [Run(o, r) EXCEPT !.at = "store", !.tag = v, !.data = v])
  /\ Resting /\ UNCHANGED store

\* MUTANT: the data are stored under the eTag the server has by then.
loadData_NewTag(run) == [tag |-> version, data |-> run.data]

\* loadData(db, emojiData, url, eTag): in one transaction, where the eTag is compared
\* again "to guard against concurrency, e.g. multiple browser tabs"
loadData(run) == IF store.tag = run.tag THEN store ELSE [tag |-> run.tag, data |-> run.data]

\* MUTANT: ready() does not wait for the data.
InitStored_Early(o, r) ==
  /\ Quiet /\ Run(o, r).at = "store"
  /\ SetRun(o, r, Ends(Run(o, r), "ok"))
  /\ Resting /\ UNCHANGED <<store, faults>>

\* loadDataForFirstTime: loadData
InitStored(o, r) ==
  /\ Quiet /\ Run(o, r).at = "store"
  /\ store' = IF Usable(o, r) THEN loadData(Run(o, r)) ELSE store
  /\ SetRun(o, r, Ends(Run(o, r), IF Usable(o, r) THEN "ok" ELSE "failed"))
  /\ Resting /\ UNCHANGED faults

\* checkForUpdates: getETag(dataSource); outside of its development mode the
\* server always sends an eTag.
LazyHead(o, r, ok) ==
  /\ Quiet /\ Run(o, r).lazy = "head" /\ MayFail(ok)
  /\ \/ ~ ok /\ SetRun(o, r, LazyEnds(Run(o, r), "failed"))
     \/ ok /\ \E v \in Answers : SetRun(o, r, [Run(o, r) EXCEPT !.lazy = "has", !.tag = v])
  /\ Resting /\ UNCHANGED store

\* hasData(db, url, eTag)
LazyHas(o, r) ==
  /\ Quiet /\ Run(o, r).lazy = "has"
  /\ SetRun(o, r, IF ~ Usable(o, r) THEN LazyEnds(Run(o, r), "failed")
                  ELSE IF hasData(Run(o, r).tag) THEN LazyEnds(Run(o, r), "ok")
                  ELSE [Run(o, r) EXCEPT !.lazy = "get"])
  /\ Resting /\ UNCHANGED <<store, faults>>

\* The data come after their eTag and are stored under that one, the eTag of their own
\* answer is not looked at.
LazyGet(o, r, ok) ==
  /\ Quiet /\ Run(o, r).lazy = "get" /\ MayFail(ok)
  /\ \/ ~ ok /\ SetRun(o, r, LazyEnds(Run(o, r), "failed")) /\ UNCHANGED aged
     \/ ok /\ \E v \in Answers :
          /\ SetRun(o, r, [Run(o, r) EXCEPT !.lazy = "store", !.data = v])
          /\ aged' = IF v = version THEN aged ELSE aged \cup {v}
  /\ UNCHANGED <<version, store, composer, picker>>

LazyStored(o, r) ==
  /\ Quiet /\ Run(o, r).lazy = "store"
  /\ store' = IF Usable(o, r) THEN loadData(Run(o, r)) ELSE store
  /\ SetRun(o, r, LazyEnds(Run(o, r), IF Usable(o, r) THEN "ok" ELSE "failed"))
  /\ Resting /\ UNCHANGED faults

\* The picker searches; bound: only when nothing else is under way.
Search(words) ==
  LET db == objs[picker.obj].db IN
  /\ Quiet /\ picker.shown /\ picker.at = "idle" /\ search = NoSearch
  /\ objs[picker.obj].ready # 0 /\ Settled(picker.obj, objs[picker.obj].ready)
  /\ db # NoConn /\ conns[db].state = "open" /\ store # NoStore
  /\ \A t \in Tabs : composer[t].at = "done"
  /\ search' = [words |-> words,
                found |-> getEmojiBySearchQuery(transformEmojiData(Data[store.data]), words)]
  /\ Become(World) /\ Resting /\ UNCHANGED <<store, faults>>

-----------------------------------------------------------------------------

Init ==
  /\ version = 1 /\ aged = {} /\ store \in {NoStore, [tag |-> 1, data |-> 1]} /\ conns = << >> /\ objs = << >> /\ faults = 0
  /\ cache = [t \in Tabs |-> NoConn] /\ listeners = [t \in Tabs |-> {}]
  /\ composer = [t \in Tabs |-> [at |-> "wait", obj |-> 0, run |-> 0, group |-> 0, all |-> {}]]
  /\ picker = [shown |-> FALSE, at |-> "idle", obj |-> 0, run |-> 0, left |-> 0]
  /\ search = NoSearch

\* What goes on by itself, and succeeds
Succeeds(o, r) ==
  \/ InitEmpty(o, r) \/ InitFetched(o, r, TRUE) \/ InitStored(o, r)
  \/ LazyHead(o, r, TRUE) \/ LazyHas(o, r) \/ LazyGet(o, r, TRUE) \/ LazyStored(o, r)

Goes ==
  \/ \E t \in Tabs : ComposerStarts(t) \/ ComposerContinues(t) \/ GroupRead(t)
  \/ PickerContinues
  \/ \E c \in DOMAIN conns : Opened(c, TRUE) \/ OnClose(c)
  \/ \E o \in DOMAIN objs : \E r \in DOMAIN objs[o].runs : Succeeds(o, r)

Other ==
  \/ PickerEnters \/ PickerReturns \/ PickerLeaves \/ StoreCleared \/ Deploy
  \/ \E c \in DOMAIN conns : Opened(c, FALSE)
  \/ \E o \in DOMAIN objs : \E r \in DOMAIN objs[o].runs :
       InitFetched(o, r, FALSE) \/ LazyHead(o, r, FALSE) \/ LazyGet(o, r, FALSE)

Next ==
  \/ (Goes \/ Other) /\ search' = NoSearch
  \/ \E words \in Queries : Search(words)

\* Every step of Goes ends something, so weak fairness of their disjunction lets each
\* of them happen: requests are answered, timers and events come.
Spec == Init /\ [][Next]_emojiVars /\ WF_emojiVars(Goes /\ search' = NoSearch)

-----------------------------------------------------------------------------
(* Properties *)

\* The stored data are at least as new as the eTag they are stored under, also when the
\* server is updated between the HEAD and the GET, answers of both come from a cache and
\* two objects store theirs in any order; unless they are data that an HTTP cache still
\* had for a GET when the server had newer ones.  These hasData() takes for current until
\* the eTag changes again: a cache's answer is the only way there.
TagNotAhead == store.tag <= store.data \/ store.data \in aged

\* The objects of a tab share one connection, it is the cached one, and whoever holds
\* it is told when it is closed (openDatabase, addOnCloseListener, closeDatabase).
ConnectionShared ==
  \A c \in DOMAIN conns : conns[c].state \in {"pending", "open"} =>
    /\ cache[conns[c].tab] = c
    /\ \A o \in DOMAIN objs : objs[o].db = c => o \in listeners[conns[c].tab]

Rejected(t) == \E c \in DOMAIN conns : conns[c].tab = t /\ conns[c].state = "rejected"
Broken(t) == \E c \in DOMAIN conns : conns[c].tab = t /\ conns[c].state \in {"closed", "lost"}

\* A composer whose tab never lost a connection caches every group, as some version of
\* the data has it: ready() has waited for the data (_initEmojiDb).
CacheComplete ==
  \A t \in Tabs : composer[t].at = "done" /\ ~ Broken(t) =>
    \A g \in 1..Groups : \E v \in DOMAIN Data :
      getEmojiByGroup(transformEmojiData(Data[v]), g) \subseteq composer[t].all

\* Every composer gets its cache, after failed requests, a picker that closes the
\* connection under it, or a cleared store.  Not after a rejected open: that promise
\* stays cached, and every retry awaits it (_initEmojiDb, databaseCache).
ComposerLoads ==
  \A t \in Tabs : <>(composer[t].at = "done" \/ Rejected(t))

\* A search finds exactly the emojis that have every word, the last one as a prefix,
\* each once and in their order, whatever the index returns first
\* (getEmojiBySearchQuery).
SearchFindsAll ==
  LET words == {i \in DOMAIN search.words : Len(search.words[i]) >= MIN_SEARCH_TEXT_LENGTH}
      last == CHOOSE i \in words : \A j \in words : j <= i
      Matches(e) == \A i \in words : \E k \in e.tokens :
        IF i = last THEN IsPrefix(search.words[i], k) ELSE k = search.words[i]
      data == transformEmojiData(Data[store.data])
  IN search # NoSearch =>
       /\ Range(search.found) = IF words = {} THEN {} ELSE {e \in data : Matches(e)}
       /\ \A i, j \in DOMAIN search.found : i < j => search.found[i].order < search.found[j].order
=============================================================================
