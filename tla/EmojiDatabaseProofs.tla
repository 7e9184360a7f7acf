------------------------ MODULE EmojiDatabaseProofs -------------------------
(***************************************************************************)
(* Proofs about EmojiDatabase, for any tabs, objects, versions of the data   *)
(* and groups, and any number of faults and departures of the picker.        *)
(***************************************************************************)
EXTENDS EmojiDatabase, TLAPS

ConnType == [tab : Tabs, state : {"pending", "open", "rejected", "lost", "closed"}]
RunType ==
  [at : {"open", "empty", "fetch", "store", "ok", "failed"}, conn : Nat,
   lazy : {"none", "head", "has", "get", "store", "ok", "failed"}, tag : Nat, data : Nat]
ObjType == [tab : Tabs, ready : Nat, lazy : Nat, db : Nat, runs : Seq(RunType)]
WorldType == [objs : Seq(ObjType), conns : Seq(ConnType), cache : [Tabs -> Nat],
              listeners : [Tabs -> SUBSET Nat]]

\* A connection of the tab was closed or lost, in world w.
BrokenIn(w, t) == \E c \in DOMAIN w.conns : w.conns[c].tab = t /\ w.conns[c].state \in {"closed", "lost"}

Live(conn) == conn.state \in {"pending", "open"}

\* What is cached is a connection of the tab, and every live one of the tab is cached.
CacheShape(w) ==
  /\ \A t \in Tabs : w.cache[t] # NoConn => w.cache[t] \in DOMAIN w.conns /\ w.conns[w.cache[t]].tab = t
  /\ \A c \in DOMAIN w.conns : Live(w.conns[c]) => w.cache[w.conns[c].tab] = c

\* Listeners are objects of their tab; the objects that hold a live connection are
\* among them.
ListenersShape(w) ==
  /\ \A t \in Tabs : \A o \in w.listeners[t] : o \in DOMAIN w.objs /\ w.objs[o].tab = t
  /\ \A o \in DOMAIN w.objs : LET c == w.objs[o].db IN
       c # NoConn => /\ c \in DOMAIN w.conns /\ w.conns[c].tab = w.objs[o].tab
                     /\ w.conns[c].state \notin {"pending", "rejected"}
                     /\ Live(w.conns[c]) => o \in w.listeners[w.objs[o].tab]

\* A run of an object of tab t that awaits a connection awaits one of its tab.  An update
\* on the side goes on after a run that ended well.
RunShape(run, w, t) ==
  /\ run.at = "open" => run.conn \in DOMAIN w.conns /\ w.conns[run.conn].tab = t
  /\ run.lazy # "none" => run.at = "ok"

RunsShape(w) ==
  \A o \in DOMAIN w.objs :
    /\ w.objs[o].ready \in 0 .. Len(w.objs[o].runs)
    /\ \A r \in DOMAIN w.objs[o].runs : RunShape(w.objs[o].runs[r], w, w.objs[o].tab)

\* As long as the tab has lost no connection, every object outside E keeps its _ready
\* and from there its database, and a run that ended well left data in the store s.
ReadyShape(w, s, E) ==
  \A o \in DOMAIN w.objs \ E : LET x == w.objs[o] IN
    ~ BrokenIn(w, x.tab) =>
      /\ x.ready # 0
      /\ x.runs[x.ready].at \in {"empty", "fetch", "store", "ok"} => x.db # NoConn
      /\ x.runs[x.ready].at = "ok" => s # NoStore

\* What a run has fetched, when the server's version is n and HTTP caches gave A to
\* updates
RunTags(run, n, A) ==
  /\ run.tag =< n /\ run.data =< n
  /\ run.at = "store" \/ run.lazy = "store" =>
       1 =< run.tag /\ 1 =< run.data /\ (run.tag =< run.data \/ run.data \in A)
  /\ run.lazy \in {"has", "get"} => 1 =< run.tag

TagsShape(w, n, A) ==
  \A o \in DOMAIN w.objs : \A r \in DOMAIN w.objs[o].runs : RunTags(w.objs[o].runs[r], n, A)

WorldInv(w, s, n, A, E) ==
  /\ w \in WorldType
  /\ CacheShape(w) /\ ListenersShape(w) /\ RunsShape(w) /\ ReadyShape(w, s, E) /\ TagsShape(w, n, A)

\* What is stored, when the server's version is n
StoreShape(s, n, A) ==
  /\ n \in 1 .. Len(Data)
  /\ s \in [tag : Nat, data : Nat]
  /\ s.tag =< s.data \/ s.data \in A
  /\ s.data =< n
  /\ s # NoStore => 1 =< s.tag /\ 1 =< s.data

\* The group is in a cache, as some version of the data has it.
Covered(all, g) == \E v \in DOMAIN Data : getEmojiByGroup(transformEmojiData(Data[v]), g) \subseteq all

AllEmojis == UNION {transformEmojiData(Data[v]) : v \in DOMAIN Data}

ComposerType ==
  [at : {"wait", "retry", "ready", "again", "read", "done"}, obj : Nat, run : Nat,
   group : 0 .. Groups, all : SUBSET AllEmojis]

\* A composer c of tab t that works has an object of its tab; as long as the tab has lost
\* no connection, it awaits _ready, which has ended well once it asks for groups, and the
\* groups before the one it is at are in its cache.
ComposerShape(c, t, w) ==
  /\ c \in ComposerType
  /\ c.at \in {"ready", "again", "read"} => c.obj \in DOMAIN w.objs /\ w.objs[c.obj].tab = t
  /\ c.at = "read" => c.group > 0 /\ c.run \in DOMAIN w.conns /\ w.conns[c.run].tab = t
  /\ ~ BrokenIn(w, t) =>
       /\ c.at \in {"ready", "again"} => c.run = w.objs[c.obj].ready
       /\ c.at \in {"ready", "again", "read"} =>
            /\ c.group > 0 => w.objs[c.obj].runs[w.objs[c.obj].ready].at = "ok"
            /\ \A g \in 1 .. Groups : g < c.group => Covered(c.all, g)
       /\ c.at = "done" => \A g \in 1 .. Groups : Covered(c.all, g)

PickerShape(p, w) ==
  /\ p \in [shown : BOOLEAN, at : {"idle", "ready", "again", "lazy"}, obj : Nat, run : Nat, left : Nat]
  /\ p.obj # 0 => p.obj \in DOMAIN w.objs
  /\ p.shown \/ p.at # "idle" => p.obj # 0

EmojiInv ==
  /\ WorldInv(World, store, version, aged, {})
  /\ StoreShape(store, version, aged)
  /\ composer \in [Tabs -> ComposerType]
  /\ \A t \in Tabs : ComposerShape(composer[t], t, World)
  /\ PickerShape(picker, World)

-----------------------------------------------------------------------------
(* The parts of a world *)

\* The fields of a world
LEMMA WorldFields ==
  ASSUME NEW w, w \in WorldType
  PROVE  /\ w = [objs |-> w.objs, conns |-> w.conns, cache |-> w.cache, listeners |-> w.listeners]
         /\ w.objs \in Seq(ObjType) /\ w.conns \in Seq(ConnType)
         /\ w.cache \in [Tabs -> Nat] /\ w.listeners \in [Tabs -> SUBSET Nat]
BY DEF WorldType

\* The fields of an object
LEMMA ObjFields ==
  ASSUME NEW x, x \in ObjType
  PROVE  /\ x = [tab |-> x.tab, ready |-> x.ready, lazy |-> x.lazy, db |-> x.db, runs |-> x.runs]
         /\ x.tab \in Tabs /\ x.ready \in Nat /\ x.lazy \in Nat /\ x.db \in Nat
         /\ x.runs \in Seq(RunType)
BY DEF ObjType

\* An object of a world, and what it consists of
LEMMA WorldObjects ==
  ASSUME NEW w, w \in WorldType, NEW o \in DOMAIN w.objs
  PROVE  /\ w.objs[o] \in ObjType /\ w.objs[o].tab \in Tabs /\ w.objs[o].ready \in Nat
         /\ w.objs[o].db \in Nat /\ w.objs[o].runs \in Seq(RunType)
         /\ DOMAIN w.objs = 1 .. Len(w.objs) /\ Len(w.objs) \in Nat
         /\ DOMAIN w.objs[o].runs = 1 .. Len(w.objs[o].runs) /\ Len(w.objs[o].runs) \in Nat
         /\ \A r \in DOMAIN w.objs[o].runs : w.objs[o].runs[r] \in RunType
<1>1. w.objs \in Seq(ObjType)
  BY WorldFields
<1>2. w.objs[o] \in ObjType
  BY <1>1
<1> DEFINE x == w.objs[o]
<1>3. x.tab \in Tabs /\ x.ready \in Nat /\ x.db \in Nat /\ x.runs \in Seq(RunType)
  BY <1>2, ObjFields
<1> QED
  BY <1>1, <1>2, <1>3

\* The connections of a world
LEMMA WorldConns ==
  ASSUME NEW w, w \in WorldType
  PROVE  /\ DOMAIN w.conns = 1 .. Len(w.conns) /\ Len(w.conns) \in Nat
         /\ \A c \in DOMAIN w.conns :
              /\ w.conns[c] \in ConnType /\ w.conns[c].tab \in Tabs
              /\ w.conns[c].state \in {"pending", "open", "rejected", "lost", "closed"}
<1>1. w.conns \in Seq(ConnType)
  BY WorldFields
<1>2. \A x \in ConnType : x.tab \in Tabs /\ x.state \in {"pending", "open", "rejected", "lost", "closed"}
  BY DEF ConnType
<1> QED
  BY <1>1, <1>2

-----------------------------------------------------------------------------
(* Worlds *)

\* A step from w to v: connections keep their number and tab, a tab that lost one has
\* lost it for good, and in the other tabs objects outside E keep their _ready, and a run
\* that ended well.
Advances(w, v, E) ==
  /\ \A c \in DOMAIN w.conns : c \in DOMAIN v.conns /\ v.conns[c].tab = w.conns[c].tab
  /\ \A t \in Tabs : BrokenIn(w, t) => BrokenIn(v, t)
  /\ \A o \in DOMAIN w.objs : o \in DOMAIN v.objs /\ v.objs[o].tab = w.objs[o].tab
  /\ \A o \in DOMAIN w.objs \ E :
       ~ BrokenIn(v, w.objs[o].tab) =>
         /\ v.objs[o].ready = w.objs[o].ready
         /\ w.objs[o].runs[w.objs[o].ready].at = "ok" => v.objs[o].runs[w.objs[o].ready].at = "ok"

\* A function over the indices of a sequence, with values of the same set, is a sequence.
LEMMA MapFacts ==
  ASSUME NEW S, NEW s \in Seq(S), NEW f, f = [i \in DOMAIN s |-> f[i]],
         \A i \in DOMAIN s : f[i] \in S
  PROVE  f \in Seq(S) /\ Len(f) = Len(s) /\ DOMAIN f = DOMAIN s
<1>1. Len(s) \in Nat /\ DOMAIN s = 1 .. Len(s)
  OBVIOUS
<1>2. f \in [1 .. Len(s) -> S]
  BY <1>1
<1> QED
  BY <1>1, <1>2

\* Appending adds one element at the end.
LEMMA AppendFacts ==
  ASSUME NEW S, NEW s \in Seq(S), NEW x \in S
  PROVE  /\ Append(s, x) \in Seq(S) /\ DOMAIN Append(s, x) = DOMAIN s \cup {Len(s) + 1}
         /\ DOMAIN s = 1 .. Len(s) /\ Len(s) \in Nat /\ Len(Append(s, x)) = Len(s) + 1
         /\ \A i \in DOMAIN s : Append(s, x)[i] = s[i]
         /\ Append(s, x)[Len(s) + 1] = x
OBVIOUS

\* Replacing an element
LEMMA ReplaceFacts ==
  ASSUME NEW S, NEW s \in Seq(S), NEW i \in DOMAIN s, NEW x \in S
  PROVE  /\ [s EXCEPT ![i] = x] \in Seq(S) /\ DOMAIN [s EXCEPT ![i] = x] = DOMAIN s
         /\ Len([s EXCEPT ![i] = x]) = Len(s)
         /\ \A j \in DOMAIN s : [s EXCEPT ![i] = x][j] = IF j = i THEN x ELSE s[j]
OBVIOUS

\* Advancing twice
LEMMA AdvancesTwice ==
  ASSUME NEW u, NEW v, NEW w, NEW E, NEW F, u \in WorldType, v \in WorldType, w \in WorldType,
         Advances(u, v, E), Advances(v, w, F), F \cap DOMAIN u.objs \subseteq E
  PROVE  Advances(u, w, E)
<1>1. \A o \in DOMAIN u.objs : u.objs[o].tab \in Tabs
  BY WorldObjects
<1> QED
  BY <1>1 DEF Advances

\* Doing nothing is a step.
LEMMA AdvancesNot ==
  ASSUME NEW w, NEW E
  PROVE  Advances(w, w, E)
BY DEF Advances

\* openDatabase(t): the tab has a cached connection.
LEMMA OpenDatabaseInv ==
  ASSUME NEW w, NEW s, NEW n \in Nat, NEW A, NEW E, NEW t \in Tabs, WorldInv(w, s, n, A, E)
  PROVE  LET v == openDatabase(w, t) IN
         /\ WorldInv(v, s, n, A, E) /\ Advances(w, v, {})
         /\ v.objs = w.objs /\ v.listeners = w.listeners
         /\ v.cache[t] \in DOMAIN v.conns /\ v.conns[v.cache[t]].tab = t
<1>1. CASE w.cache[t] # NoConn
  BY <1>1, AdvancesNot DEF openDatabase, WorldInv, CacheShape
<1>2. CASE w.cache[t] = NoConn
  <2> DEFINE new == [tab |-> t, state |-> "pending"]
             v == openDatabase(w, t)
  <2>0. w \in WorldType
    BY DEF WorldInv
  <2>a. new \in ConnType
    BY DEF ConnType
  <2>b. /\ Append(w.conns, new) \in Seq(ConnType)
        /\ DOMAIN Append(w.conns, new) = DOMAIN w.conns \cup {Len(w.conns) + 1}
        /\ \A c \in DOMAIN w.conns : Append(w.conns, new)[c] = w.conns[c]
        /\ Append(w.conns, new)[Len(w.conns) + 1] = new
    BY <2>0, <2>a, WorldFields, AppendFacts
  <2>c. Len(w.conns) + 1 \in Nat
    BY <2>0, WorldConns
  <2>1. /\ v.objs = w.objs /\ v.listeners = w.listeners
        /\ v.conns = Append(w.conns, new) /\ v.cache = [w.cache EXCEPT ![t] = Len(w.conns) + 1]
        /\ v \in WorldType
    <3> HIDE DEF new
    <3>1. v = [w EXCEPT !.conns = Append(@, new), !.cache[t] = Len(w.conns) + 1]
      BY <1>2 DEF openDatabase, new
    <3> DEFINE x == Append(w.conns, new)
               y == Len(w.conns) + 1
    <3>2. v = [w EXCEPT !.conns = x, !.cache[t] = y]
      BY <3>1
    <3>3. x \in Seq(ConnType) /\ y \in Nat
      BY <2>b, <2>c
    <3> HIDE DEF x, y, v
    <3>4. v \in WorldType
      BY <2>0, <3>2, <3>3 DEF WorldType
    <3>5. /\ v.objs = w.objs /\ v.listeners = w.listeners
          /\ v.conns = x /\ v.cache = [w.cache EXCEPT ![t] = y]
      BY <2>0, <3>2 DEF WorldType
    <3> QED
      BY <3>4, <3>5 DEF x, y
  <2>2. /\ DOMAIN v.conns = DOMAIN w.conns \cup {Len(w.conns) + 1} /\ Len(w.conns) \in Nat
        /\ DOMAIN w.conns = 1 .. Len(w.conns)
        /\ \A c \in DOMAIN w.conns : v.conns[c] = w.conns[c]
        /\ v.conns[Len(w.conns) + 1] = new /\ new.tab = t /\ new.state = "pending"
    BY <2>0, <2>1, <2>b, WorldConns
  <2> HIDE DEF v, new
  <2>3. \A u \in Tabs : BrokenIn(v, u) <=> BrokenIn(w, u)
    BY <2>2 DEF BrokenIn
  <2>4. CacheShape(v)
    <3>1. v.cache[t] = Len(w.conns) + 1 /\ \A u \in Tabs : u # t => v.cache[u] = w.cache[u]
      BY <2>0, <2>1, WorldFields
    <3>2. \A c \in DOMAIN w.conns : Live(w.conns[c]) => w.conns[c].tab # t
      BY <1>2, <2>2 DEF CacheShape, WorldInv, NoConn
    <3>3. \A c \in DOMAIN w.conns : w.conns[c].tab \in Tabs
      BY <2>0, WorldConns
    <3>4. \A u \in Tabs : v.cache[u] # NoConn => v.cache[u] \in DOMAIN v.conns /\ v.conns[v.cache[u]].tab = u
      BY <2>2, <3>1 DEF CacheShape, WorldInv
    <3>5. ASSUME NEW c \in DOMAIN v.conns, Live(v.conns[c]) PROVE v.cache[v.conns[c].tab] = c
      BY <2>2, <3>1, <3>2, <3>3, <3>5 DEF CacheShape, WorldInv
    <3> QED
      BY <3>4, <3>5 DEF CacheShape
  <2>5. ListenersShape(v)
    BY <2>1, <2>2 DEF ListenersShape, WorldInv
  <2>6. RunsShape(v)
    BY <2>1, <2>2 DEF RunsShape, RunShape, WorldInv
  <2>7. ReadyShape(v, s, E)
    <3>1. \A o \in DOMAIN w.objs : w.objs[o].tab \in Tabs
      BY <2>0, WorldObjects
    <3> QED
      BY <2>1, <2>3, <3>1 DEF ReadyShape, WorldInv
  <2>8. TagsShape(v, n, A)
    BY <2>1 DEF TagsShape, WorldInv
  <2>9. Advances(w, v, {})
    BY <2>1, <2>2, <2>3 DEF Advances, WorldInv
  <2>10. v.cache[t] = Len(w.conns) + 1
    BY <2>0, <2>1, WorldFields
  <2> QED
    BY <2>1, <2>2, <2>4, <2>5, <2>6, <2>7, <2>8, <2>9, <2>10 DEF WorldInv, v
<1> QED
  BY <1>1, <1>2

\* A run of an object is replaced.
LEMMA SetRunFacts ==
  ASSUME NEW x, x \in ObjType, NEW r \in DOMAIN x.runs, NEW new \in RunType
  PROVE  LET y == [x EXCEPT !.runs[r] = new] IN
         /\ y \in ObjType /\ y.tab = x.tab /\ y.ready = x.ready /\ y.db = x.db
         /\ DOMAIN y.runs = DOMAIN x.runs /\ Len(y.runs) = Len(x.runs)
         /\ \A q \in DOMAIN x.runs : y.runs[q] = IF q = r THEN new ELSE x.runs[q]
<1> DEFINE rs == [x.runs EXCEPT ![r] = new]
           y == [x EXCEPT !.runs[r] = new]
<1>1. x.runs \in Seq(RunType)
  BY ObjFields
<1>2. /\ rs \in Seq(RunType) /\ DOMAIN rs = DOMAIN x.runs /\ Len(rs) = Len(x.runs)
      /\ \A q \in DOMAIN x.runs : rs[q] = IF q = r THEN new ELSE x.runs[q]
  BY <1>1, ReplaceFacts
<1>3. y = [x EXCEPT !.runs = rs]
  OBVIOUS
<1> HIDE DEF rs, y
<1>4. y \in ObjType
  BY <1>2, <1>3 DEF ObjType
<1>5. y.tab = x.tab /\ y.ready = x.ready /\ y.db = x.db /\ y.runs = rs
  BY <1>3 DEF ObjType
<1> QED
  BY <1>2, <1>4, <1>5 DEF y

\* The ways a run ends
LEMMA EndsFacts ==
  ASSUME NEW run, run \in RunType
  PROVE  /\ \A how \in {"ok", "failed"} :
              /\ Ends(run, how) \in RunType /\ Ends(run, how).at = how /\ Ends(run, how).lazy = run.lazy
              /\ Ends(run, how).tag = 0 /\ Ends(run, how).data = 0
              /\ LazyEnds(run, how) \in RunType /\ LazyEnds(run, how).at = run.at
              /\ LazyEnds(run, how).lazy = how
              /\ LazyEnds(run, how).tag = 0 /\ LazyEnds(run, how).data = 0
         /\ \A where \in {"empty", "fetch", "store"} :
              LET y == [run EXCEPT !.at = where] IN
              /\ y \in RunType /\ y.at = where /\ y.lazy = run.lazy /\ y.tag = run.tag /\ y.data = run.data
              /\ y.conn = run.conn
<1>1. ASSUME NEW how \in {"ok", "failed"}
      PROVE  /\ Ends(run, how) \in RunType /\ Ends(run, how).at = how /\ Ends(run, how).lazy = run.lazy
             /\ Ends(run, how).tag = 0 /\ Ends(run, how).data = 0
  BY DEF Ends, RunType, NoConn
<1>2. ASSUME NEW how \in {"ok", "failed"}
      PROVE  /\ LazyEnds(run, how) \in RunType /\ LazyEnds(run, how).at = run.at
             /\ LazyEnds(run, how).lazy = how
             /\ LazyEnds(run, how).tag = 0 /\ LazyEnds(run, how).data = 0
  BY DEF LazyEnds, RunType, NoConn
<1>3. ASSUME NEW where \in {"empty", "fetch", "store"}
      PROVE  LET y == [run EXCEPT !.at = where] IN
             /\ y \in RunType /\ y.at = where /\ y.lazy = run.lazy /\ y.tag = run.tag /\ y.data = run.data
             /\ y.conn = run.conn
  BY DEF RunType
<1> QED
  BY <1>1, <1>2, <1>3

\* An object whose connection c is not pending: its run reads from it, or has failed.
LEMMA OpensFacts ==
  ASSUME NEW x, x \in ObjType, x.ready \in DOMAIN x.runs, NEW c \in Nat, c # NoConn, NEW state
  PROVE  LET y == Opens(x, c, state)
             run == y.runs[x.ready]
             old == x.runs[x.ready] IN
         /\ y \in ObjType /\ y.tab = x.tab /\ y.ready = x.ready
         /\ y.db = IF state = "rejected" THEN x.db ELSE c
         /\ DOMAIN y.runs = DOMAIN x.runs /\ Len(y.runs) = Len(x.runs)
         /\ \A q \in DOMAIN x.runs : q # x.ready => y.runs[q] = x.runs[q]
         /\ run \in RunType /\ run.lazy = old.lazy
         /\ \/ run.at = "failed" /\ run.tag = 0 /\ run.data = 0
            \/ run.at = "empty" /\ state # "rejected" /\ run.tag = old.tag /\ run.data = old.data
<1> DEFINE old == x.runs[x.ready]
           new == IF state = "open" THEN [old EXCEPT !.at = "empty"] ELSE Ends(old, "failed")
           z == [x EXCEPT !.db = c]
<1>1. old \in RunType
  BY ObjFields
<1>2. /\ Ends(old, "failed") \in RunType /\ Ends(old, "failed").at = "failed"
      /\ Ends(old, "failed").lazy = old.lazy /\ Ends(old, "failed").tag = 0 /\ Ends(old, "failed").data = 0
  <2> HIDE DEF old
  <2> QED
    BY ONLY <1>1, EndsFacts
<1>3. LET y == [old EXCEPT !.at = "empty"] IN
      y \in RunType /\ y.at = "empty" /\ y.lazy = old.lazy /\ y.tag = old.tag /\ y.data = old.data
  BY <1>1, EndsFacts
<1>4. new \in RunType
  BY <1>2, <1>3
<1>5. z \in ObjType /\ z.tab = x.tab /\ z.ready = x.ready /\ z.db = c /\ z.runs = x.runs
  BY ONLY x \in ObjType, c \in Nat DEF ObjType, z
<1>6. CASE state = "rejected"
  <2>1. Opens(x, c, state) = [x EXCEPT !.runs[x.ready] = Ends(old, "failed")]
    BY <1>6 DEF Opens
  <2> DEFINE y == Opens(x, c, state)
             end == Ends(old, "failed")
  <2> HIDE DEF end
  <2>2. y = [x EXCEPT !.runs[x.ready] = end] /\ end \in RunType
    BY <1>2, <2>1 DEF end
  <2>3. /\ y \in ObjType /\ y.tab = x.tab /\ y.ready = x.ready /\ y.db = x.db
        /\ DOMAIN y.runs = DOMAIN x.runs /\ Len(y.runs) = Len(x.runs)
        /\ \A q \in DOMAIN x.runs : y.runs[q] = IF q = x.ready THEN end ELSE x.runs[q]
    <3> HIDE DEF y
    <3> QED
      BY <2>2, SetRunFacts
  <2> HIDE DEF y, old
  <2>4. y.runs[x.ready] = end
    BY <2>3
  <2> QED
    BY <1>2, <1>6, <2>3, <2>4 DEF y, end, old
<1>7. CASE state # "rejected"
  <2>1. Opens(x, c, state) = [z EXCEPT !.runs[x.ready] = new]
    BY <1>7 DEF Opens, ObjType
  <2>2. LET y == [z EXCEPT !.runs[x.ready] = new] IN
         /\ y \in ObjType /\ y.tab = z.tab /\ y.ready = z.ready /\ y.db = z.db
         /\ DOMAIN y.runs = DOMAIN z.runs /\ Len(y.runs) = Len(z.runs)
         /\ \A q \in DOMAIN z.runs : y.runs[q] = IF q = x.ready THEN new ELSE z.runs[q]
    <3> HIDE DEF z, new
    <3> QED
      BY <1>4, <1>5, SetRunFacts
  <2> DEFINE y == Opens(x, c, state)
  <2>3. /\ y \in ObjType /\ y.tab = x.tab /\ y.ready = x.ready /\ y.db = c
        /\ DOMAIN y.runs = DOMAIN x.runs /\ Len(y.runs) = Len(x.runs)
        /\ \A q \in DOMAIN x.runs : y.runs[q] = IF q = x.ready THEN new ELSE x.runs[q]
    <3> HIDE DEF z, new
    <3> QED
      BY <1>5, <2>1, <2>2
  <2>4. y.runs[x.ready] = new
    <3> HIDE DEF y, new
    <3> QED
      BY <2>3
  <2>5. /\ new.lazy = old.lazy
        /\ \/ new.at = "failed" /\ new.tag = 0 /\ new.data = 0
           \/ new.at = "empty" /\ new.tag = old.tag /\ new.data = old.data
    <3> HIDE DEF old
    <3> QED
      BY <1>2, <1>3
  <2> HIDE DEF new, old
  <2> QED
    BY <1>4, <1>7, <2>3, <2>4, <2>5 DEF old
<1> QED
  BY <1>6, <1>7

\* _ready of the object is a run that awaits connection c.
AwaitsConn(obj, c) ==
  obj.ready # 0 /\ obj.runs[obj.ready].at = "open" /\ obj.runs[obj.ready].conn = c

\* _init() goes on after openDatabase, for objects that await connection c.
LEMMA InitOpenedInv ==
  ASSUME NEW w, NEW s, NEW n \in Nat, NEW A, WorldInv(w, s, n, A, {}), NEW c \in DOMAIN w.conns,
         NEW S \in SUBSET DOMAIN w.objs,
         \A o \in S : AwaitsConn(w.objs[o], c)
  PROVE  LET v == InitOpened(w, S, c) IN
         WorldInv(v, s, n, A, {}) /\ Advances(w, v, {}) /\ DOMAIN v.objs = DOMAIN w.objs
<1> DEFINE v == InitOpened(w, S, c)
           state == w.conns[c].state
           t == w.conns[c].tab
           after == [o \in DOMAIN w.objs |-> IF o \in S THEN Opens(w.objs[o], c, state) ELSE w.objs[o]]
<1>1. CASE state = "pending"
  BY <1>1, AdvancesNot DEF InitOpened
<1>2. CASE state # "pending"
  <2>0. /\ w \in WorldType /\ c \in Nat /\ c # NoConn /\ t \in Tabs
        /\ \A o \in DOMAIN w.objs : w.objs[o].tab \in Tabs /\ w.objs[o] \in ObjType
    BY WorldConns, WorldObjects DEF WorldInv, NoConn
  <2>1. ASSUME NEW o \in S
        PROVE  w.objs[o].ready \in DOMAIN w.objs[o].runs /\ w.objs[o] \in ObjType /\ w.objs[o].tab = t
    <3>1. w.objs[o].ready \in 0 .. Len(w.objs[o].runs)
      BY DEF WorldInv, RunsShape
    <3>2. w.objs[o].ready \in DOMAIN w.objs[o].runs
      BY <2>0, <3>1, WorldObjects DEF AwaitsConn
    <3> QED
      BY <2>0, <3>2 DEF WorldInv, RunsShape, RunShape, AwaitsConn
  <2>2. ASSUME NEW o \in DOMAIN w.objs
        PROVE  /\ after[o] \in ObjType /\ after[o].tab = w.objs[o].tab /\ after[o].ready = w.objs[o].ready
               /\ DOMAIN after[o].runs = DOMAIN w.objs[o].runs /\ Len(after[o].runs) = Len(w.objs[o].runs)
               /\ after[o].db = IF o \in S /\ state # "rejected" THEN c ELSE w.objs[o].db
               /\ \A q \in DOMAIN w.objs[o].runs : o \notin S \/ q # w.objs[o].ready =>
                    after[o].runs[q] = w.objs[o].runs[q]
               /\ o \in S => LET run == after[o].runs[w.objs[o].ready]
                                 old == w.objs[o].runs[w.objs[o].ready] IN
                    /\ run.lazy = old.lazy
                    /\ \/ run.at = "failed" /\ run.tag = 0 /\ run.data = 0
                       \/ run.at = "empty" /\ state # "rejected" /\ run.tag = old.tag /\ run.data = old.data
    <3>1. CASE o \in S
      <4> DEFINE x == w.objs[o]
      <4>1. after[o] = Opens(x, c, state)
        BY <3>1
      <4>2. x \in ObjType /\ x.ready \in DOMAIN x.runs
        BY <2>1, <3>1
      <4> HIDE DEF x, after, state
      <4> QED
        BY <2>0, <3>1, <4>1, <4>2, OpensFacts DEF x
    <3>2. CASE o \notin S
      BY <2>0, <3>2
    <3> QED
      BY <3>1, <3>2
  <2>3. after \in Seq(ObjType) /\ DOMAIN after = DOMAIN w.objs
    <3>1. w.objs \in Seq(ObjType)
      BY <2>0, WorldFields
    <3>2. after = [o \in DOMAIN w.objs |-> after[o]] /\ \A o \in DOMAIN w.objs : after[o] \in ObjType
      BY <2>2
    <3> HIDE DEF after
    <3> QED
      BY <3>1, <3>2, MapFacts
  <2>4. /\ v \in WorldType /\ v.objs = after /\ v.conns = w.conns /\ v.cache = w.cache
        /\ v.listeners = IF state = "rejected" THEN w.listeners ELSE [w.listeners EXCEPT ![t] = @ \cup S]
    <3> DEFINE u == [w EXCEPT !.objs = after]
    <3>1. v = IF state = "rejected" THEN u ELSE [u EXCEPT !.listeners[t] = @ \cup S]
      BY <1>2 DEF InitOpened, addOnCloseListener
    <3>2. /\ u \in WorldType /\ u.objs = after /\ u.conns = w.conns /\ u.cache = w.cache
          /\ u.listeners = w.listeners
      <4> HIDE DEF after
      <4> QED
        BY <2>0, <2>3 DEF WorldType
    <3>3. S \in SUBSET Nat
      BY <2>0, WorldObjects
    <3> HIDE DEF u, v, after, t, state
    <3>4. CASE state = "rejected"
      BY <3>1, <3>2, <3>4
    <3>5. CASE state # "rejected"
      <4> DEFINE ls == u.listeners[t] \cup S
      <4>1. v = [u EXCEPT !.listeners[t] = ls]
        BY <3>1, <3>5
      <4>2. ls \in SUBSET Nat
        BY <2>0, <3>2, <3>3 DEF WorldType
      <4> HIDE DEF ls
      <4>3. v \in WorldType
        BY <2>0, <3>2, <4>1, <4>2 DEF WorldType
      <4>4. /\ v.objs = u.objs /\ v.conns = u.conns /\ v.cache = u.cache
            /\ v.listeners = [u.listeners EXCEPT ![t] = ls]
        BY <2>0, <3>2, <4>1 DEF WorldType
      <4> QED
        BY <3>2, <3>5, <4>3, <4>4 DEF ls
    <3> QED
      BY <3>4, <3>5
  <2> HIDE DEF v, after, state, t
  <2>5. \A u \in Tabs : BrokenIn(v, u) <=> BrokenIn(w, u)
    BY <2>4 DEF BrokenIn
  <2>6. CacheShape(v)
    BY <2>4 DEF CacheShape, WorldInv
  <2>7. ListenersShape(v)
    <3>1. \A u \in Tabs : v.listeners[u] = IF u = t /\ state # "rejected" THEN w.listeners[u] \cup S ELSE w.listeners[u]
      BY <2>0, <2>4, WorldFields
    <3>2. ASSUME NEW u \in Tabs, NEW o \in v.listeners[u]
          PROVE  o \in DOMAIN v.objs /\ v.objs[o].tab = u
      <4>1. o \in w.listeners[u] \/ (o \in S /\ u = t)
        BY <3>1, <3>2
      <4>2. o \in DOMAIN w.objs /\ w.objs[o].tab = u
        <5>1. CASE o \in w.listeners[u]
          BY <5>1 DEF ListenersShape, WorldInv
        <5>2. CASE o \in S /\ u = t
          BY <2>1, <5>2
        <5> QED
          BY <4>1, <5>1, <5>2
      <4>3. v.objs[o] = after[o] /\ after[o].tab = w.objs[o].tab
        BY <2>2, <2>4, <4>2
      <4> QED
        BY <2>3, <2>4, <4>2, <4>3
    <3>3. ASSUME NEW o \in DOMAIN v.objs, v.objs[o].db # NoConn
          PROVE  LET d == v.objs[o].db IN
                 /\ d \in DOMAIN v.conns /\ v.conns[d].tab = v.objs[o].tab
                 /\ v.conns[d].state \notin {"pending", "rejected"}
                 /\ Live(v.conns[d]) => o \in v.listeners[v.objs[o].tab]
      <4>1. o \in DOMAIN w.objs /\ v.objs[o].tab = w.objs[o].tab
        BY <2>2, <2>3, <2>4
      <4>2. CASE o \in S /\ state # "rejected"
        <5>1. v.objs[o].db = c /\ w.objs[o].tab = t /\ o \in v.listeners[t]
          BY <2>0, <2>1, <2>2, <2>4, <3>1, <4>1, <4>2
        <5> QED
          BY <1>2, <2>4, <4>1, <4>2, <5>1 DEF state, t
      <4>3. CASE ~ (o \in S /\ state # "rejected")
        <5>1. v.objs[o].db = w.objs[o].db
          BY <2>2, <2>4, <4>1, <4>3
        <5>2. w.listeners[w.objs[o].tab] \subseteq v.listeners[w.objs[o].tab]
          BY <2>0, <3>1, <4>1
        <5> QED
          BY <2>4, <3>3, <4>1, <5>1, <5>2 DEF ListenersShape, WorldInv
      <4> QED
        BY <4>2, <4>3
    <3> QED
      BY <3>2, <3>3 DEF ListenersShape
  <2>8. ASSUME NEW o \in DOMAIN w.objs, NEW q \in DOMAIN w.objs[o].runs
        PROVE  LET run == v.objs[o].runs[q]
                   old == w.objs[o].runs[q] IN
               \/ run = old
               \/ /\ run.at \in {"empty", "failed"} /\ run.lazy = "none" /\ run.tag =< n /\ run.data =< n
                  /\ run.at = "empty" => v.objs[o].db # NoConn
    <3>1. CASE o \in S /\ q = w.objs[o].ready
      <4>1. w.objs[o].runs[q].lazy = "none"
        BY <3>1 DEF WorldInv, RunsShape, RunShape, AwaitsConn
      <4>2. w.objs[o].runs[q].tag =< n /\ w.objs[o].runs[q].data =< n
        BY DEF WorldInv, TagsShape, RunTags
      <4>3. /\ v.objs[o] = after[o]
            /\ after[o].db = IF state # "rejected" THEN c ELSE w.objs[o].db
        BY <2>2, <2>4, <3>1
      <4>4. LET run == after[o].runs[q]
                old == w.objs[o].runs[q] IN
            /\ run.lazy = old.lazy
            /\ \/ run.at = "failed" /\ run.tag = 0 /\ run.data = 0
               \/ run.at = "empty" /\ state # "rejected" /\ run.tag = old.tag /\ run.data = old.data
        BY ONLY <2>2, <3>1
      <4> DEFINE run == v.objs[o].runs[q]
                 old == w.objs[o].runs[q]
      <4>5. /\ run.lazy = old.lazy
            /\ \/ run.at = "failed" /\ run.tag = 0 /\ run.data = 0
               \/ run.at = "empty" /\ state # "rejected" /\ run.tag = old.tag /\ run.data = old.data
        BY ONLY <4>3, <4>4
      <4>6. state # "rejected" => v.objs[o].db # NoConn
        BY ONLY <2>0, <4>3
      <4>7. old.lazy = "none" /\ old.tag =< n /\ old.data =< n
        BY ONLY <4>1, <4>2
      <4> HIDE DEF run, old
      <4>8. /\ run.at \in {"empty", "failed"} /\ run.lazy = "none" /\ run.tag =< n /\ run.data =< n
            /\ run.at = "empty" => v.objs[o].db # NoConn
        BY ONLY n \in Nat, <4>5, <4>6, <4>7
      <4> QED
        BY <4>8 DEF run, old
    <3>2. CASE ~ (o \in S /\ q = w.objs[o].ready)
      BY <2>2, <2>4, <3>2
    <3> QED
      BY <3>1, <3>2
  <2>9. RunsShape(v)
    <3>1. ASSUME NEW o \in DOMAIN w.objs
          PROVE  v.objs[o].ready \in 0 .. Len(v.objs[o].runs)
      BY <2>2, <2>4 DEF RunsShape, WorldInv
    <3>2. ASSUME NEW o \in DOMAIN w.objs, NEW q \in DOMAIN w.objs[o].runs
          PROVE  RunShape(v.objs[o].runs[q], v, v.objs[o].tab)
      <4>1. v.objs[o].tab = w.objs[o].tab
        BY <2>2, <2>4
      <4>2. RunShape(w.objs[o].runs[q], w, w.objs[o].tab)
        BY DEF RunsShape, WorldInv
      <4> DEFINE run == v.objs[o].runs[q]
      <4>3. run = w.objs[o].runs[q] \/ (run.at \in {"empty", "failed"} /\ run.lazy = "none")
        BY ONLY <2>8
      <4>4. CASE run = w.objs[o].runs[q]
        BY <2>4, <4>1, <4>2, <4>4 DEF RunShape
      <4>5. CASE run.at \in {"empty", "failed"} /\ run.lazy = "none"
        BY ONLY <4>5 DEF RunShape
      <4> QED
        BY <4>3, <4>4, <4>5
    <3>3. DOMAIN v.objs = DOMAIN w.objs /\ \A o \in DOMAIN w.objs : DOMAIN v.objs[o].runs = DOMAIN w.objs[o].runs
      BY <2>2, <2>3, <2>4
    <3> QED
      BY <3>1, <3>2, <3>3 DEF RunsShape
  <2>10. TagsShape(v, n, A)
    <3>1. ASSUME NEW o \in DOMAIN w.objs, NEW q \in DOMAIN w.objs[o].runs
          PROVE  RunTags(v.objs[o].runs[q], n, A)
      <4>1. RunTags(w.objs[o].runs[q], n, A)
        BY DEF TagsShape, WorldInv
      <4> QED
        BY <2>8, <4>1 DEF RunTags
    <3>2. DOMAIN v.objs = DOMAIN w.objs /\ \A o \in DOMAIN w.objs : DOMAIN v.objs[o].runs = DOMAIN w.objs[o].runs
      BY <2>2, <2>3, <2>4
    <3> QED
      BY <3>1, <3>2 DEF TagsShape
  <2>11. ReadyShape(v, s, {})
    <3> SUFFICES ASSUME NEW o \in DOMAIN v.objs, ~ BrokenIn(v, v.objs[o].tab)
                 PROVE  LET x == v.objs[o] IN
                        /\ x.ready # 0
                        /\ x.runs[x.ready].at \in {"empty", "fetch", "store", "ok"} => x.db # NoConn
                        /\ x.runs[x.ready].at = "ok" => s # NoStore
      BY DEF ReadyShape
    <3>1. o \in DOMAIN w.objs /\ ~ BrokenIn(w, w.objs[o].tab)
      BY <2>0, <2>2, <2>3, <2>4, <2>5
    <3>2. LET x == w.objs[o] IN
          /\ x.ready # 0
          /\ x.runs[x.ready].at \in {"empty", "fetch", "store", "ok"} => x.db # NoConn
          /\ x.runs[x.ready].at = "ok" => s # NoStore
      BY <3>1 DEF ReadyShape, WorldInv
    <3>3. w.objs[o].ready \in DOMAIN w.objs[o].runs
      <4>1. w.objs[o].ready \in 0 .. Len(w.objs[o].runs)
        BY <3>1 DEF WorldInv, RunsShape
      <4> QED
        BY <2>0, <3>1, <3>2, <4>1, WorldObjects
    <3>4. v.objs[o].ready = w.objs[o].ready /\ (w.objs[o].db # NoConn => v.objs[o].db # NoConn)
      BY <2>0, <2>2, <2>4, <3>1
    <3> QED
      BY <2>8, <3>1, <3>2, <3>3, <3>4
  <2>12. Advances(w, v, {})
    <3>1. ASSUME NEW o \in DOMAIN w.objs, w.objs[o].runs[w.objs[o].ready].at = "ok"
          PROVE  v.objs[o] = w.objs[o]
      BY <2>4, <3>1 DEF after, AwaitsConn
    <3> QED
      BY <2>2, <2>3, <2>4, <2>5, <3>1 DEF Advances
  <2> QED
    BY <2>3, <2>4, <2>6, <2>7, <2>9, <2>10, <2>11, <2>12 DEF WorldInv, v
<1> QED
  BY <1>1, <1>2

\* An object of a world is replaced.
WithObj(w, o, y) == [w EXCEPT !.objs[o] = y]

\* Its other parts stay, and so do the other objects.
LEMMA SetObjFacts ==
  ASSUME NEW w, w \in WorldType, NEW o \in DOMAIN w.objs, NEW y \in ObjType
  PROVE  LET v == WithObj(w, o, y) IN
         /\ v \in WorldType /\ v.conns = w.conns /\ v.cache = w.cache /\ v.listeners = w.listeners
         /\ DOMAIN v.objs = DOMAIN w.objs
         /\ v.objs[o] = y /\ \A q \in DOMAIN w.objs : q # o => v.objs[q] = w.objs[q]
<1> DEFINE xs == [w.objs EXCEPT ![o] = y]
           v == WithObj(w, o, y)
<1>1. w.objs \in Seq(ObjType)
  BY WorldFields
<1>2. /\ xs \in Seq(ObjType) /\ DOMAIN xs = DOMAIN w.objs
      /\ \A q \in DOMAIN w.objs : xs[q] = IF q = o THEN y ELSE w.objs[q]
  BY <1>1, ReplaceFacts
<1>3. v = [w EXCEPT !.objs = xs]
  BY DEF WithObj
<1> HIDE DEF xs, v
<1>4. v \in WorldType
  BY <1>2, <1>3 DEF WorldType
<1>5. v.conns = w.conns /\ v.cache = w.cache /\ v.listeners = w.listeners /\ v.objs = xs
  BY <1>3 DEF WorldType
<1> QED
  BY <1>2, <1>4, <1>5 DEF v

\* A new run of an object, which awaits connection c, is its _ready.
LEMMA NewRunInv ==
  ASSUME NEW w, NEW s, NEW n \in Nat, NEW A, NEW o \in DOMAIN w.objs, WorldInv(w, s, n, A, {o}),
         w.objs[o].ready = 0,
         NEW c \in DOMAIN w.conns, w.conns[c].tab = w.objs[o].tab
  PROVE  LET v == NewRun(w, o, c) IN
         /\ WorldInv(v, s, n, A, {}) /\ Advances(w, v, {o})
         /\ DOMAIN v.objs = DOMAIN w.objs /\ v.conns = w.conns
         /\ v.objs[o].ready = Len(w.objs[o].runs) + 1 /\ AwaitsConn(v.objs[o], c)
<1> DEFINE v == NewRun(w, o, c)
           x == w.objs[o]
           run == [at |-> "open", conn |-> c, lazy |-> "none", tag |-> 0, data |-> 0]
           rs == Append(x.runs, run)
           y == [x EXCEPT !.runs = Append(x.runs, run), !.ready = Len(x.runs) + 1]
<1>1. /\ w \in WorldType /\ x \in ObjType /\ x.runs \in Seq(RunType) /\ Len(x.runs) \in Nat
      /\ c \in Nat /\ DOMAIN w.conns = 1 .. Len(w.conns) /\ Len(w.conns) \in Nat
      /\ DOMAIN x.runs = 1 .. Len(x.runs)
      /\ \A q \in DOMAIN w.objs : w.objs[q].tab \in Tabs
  BY WorldObjects, WorldConns DEF WorldInv
<1>2. run \in RunType
  BY <1>1 DEF RunType
<1>3. /\ rs \in Seq(RunType) /\ DOMAIN rs = DOMAIN x.runs \cup {Len(x.runs) + 1}
      /\ Len(rs) = Len(x.runs) + 1
      /\ \A q \in DOMAIN x.runs : rs[q] = x.runs[q]
      /\ rs[Len(x.runs) + 1] = run
  BY <1>1, <1>2, AppendFacts
<1>4. /\ y \in ObjType /\ y.tab = x.tab /\ y.db = x.db /\ y.runs = rs
      /\ y.ready = Len(x.runs) + 1
  <2> DEFINE k == Len(x.runs) + 1
  <2>1. y = [x EXCEPT !.runs = rs, !.ready = k] /\ k \in Nat
    BY <1>1
  <2> HIDE DEF x, rs, k, y
  <2>2. y \in ObjType
    BY <1>1, <1>3, <2>1 DEF ObjType
  <2>3. y.tab = x.tab /\ y.db = x.db /\ y.runs = rs /\ y.ready = k
    BY <1>1, <2>1 DEF ObjType
  <2> QED
    BY <2>2, <2>3 DEF k
<1>5. /\ v \in WorldType /\ v.conns = w.conns /\ v.cache = w.cache /\ v.listeners = w.listeners
      /\ DOMAIN v.objs = DOMAIN w.objs
      /\ \A q \in DOMAIN w.objs : v.objs[q] = IF q = o THEN y ELSE w.objs[q]
  <2>1. v = WithObj(w, o, y)
    BY DEF NewRun, WithObj
  <2> HIDE DEF y, v
  <2> QED
    BY <1>1, <1>4, <2>1, SetObjFacts
<1>a. run.at = "open" /\ run.conn = c /\ run.lazy = "none" /\ run.tag = 0 /\ run.data = 0
  OBVIOUS
<1> HIDE DEF rs, y, run, v
<1>6. \A t \in Tabs : BrokenIn(v, t) <=> BrokenIn(w, t)
  BY <1>5 DEF BrokenIn
<1>7. CacheShape(v)
  BY <1>5 DEF CacheShape, WorldInv
<1>8. ListenersShape(v)
  <2>1. ASSUME NEW t \in Tabs, NEW q \in v.listeners[t]
        PROVE  q \in DOMAIN v.objs /\ v.objs[q].tab = t
    <3>1. q \in DOMAIN w.objs /\ w.objs[q].tab = t
      BY <1>5, <2>1 DEF ListenersShape, WorldInv
    <3> QED
      BY <1>4, <1>5, <3>1
  <2>2. ASSUME NEW q \in DOMAIN v.objs
        PROVE  v.objs[q].db = w.objs[q].db /\ v.objs[q].tab = w.objs[q].tab
    BY <1>4, <1>5
  <2> QED
    BY <1>5, <2>1, <2>2 DEF ListenersShape, WorldInv
<1>9. RunsShape(v)
  <2>1. ASSUME NEW q \in DOMAIN w.objs, q # o
        PROVE  v.objs[q] = w.objs[q]
    BY <1>5, <2>1
  <2>2. v.objs[o] = y
    BY <1>5
  <2>3. y.ready \in 0 .. Len(y.runs)
    <3> DEFINE k == Len(x.runs)
    <3>1. y.ready = k + 1 /\ Len(y.runs) = k + 1 /\ k \in Nat
      BY <1>1, <1>3, <1>4
    <3> HIDE DEF k
    <3> QED
      BY <3>1
  <2>4. ASSUME NEW r \in DOMAIN y.runs
        PROVE  RunShape(y.runs[r], v, y.tab)
    <3>1. CASE r \in DOMAIN x.runs
      <4>1. y.runs[r] = x.runs[r]
        BY <1>3, <1>4, <3>1
      <4> QED
        BY <1>4, <1>5, <3>1, <4>1 DEF RunsShape, RunShape, WorldInv
    <3>2. CASE r = Len(x.runs) + 1
      BY <1>3, <1>4, <1>5, <1>a, <3>2 DEF RunShape
    <3> QED
      BY <1>3, <1>4, <3>1, <3>2
  <2>5. ASSUME NEW q \in DOMAIN w.objs, q # o, NEW r \in DOMAIN w.objs[q].runs
        PROVE  RunShape(w.objs[q].runs[r], v, w.objs[q].tab)
    BY <1>5 DEF RunsShape, RunShape, WorldInv
  <2>6. ASSUME NEW q \in DOMAIN w.objs
        PROVE  w.objs[q].ready \in 0 .. Len(w.objs[q].runs)
    BY DEF RunsShape, WorldInv
  <2> HIDE DEF x
  <2>7. \A q \in DOMAIN w.objs :
          /\ v.objs[q].ready \in 0 .. Len(v.objs[q].runs)
          /\ \A r \in DOMAIN v.objs[q].runs : RunShape(v.objs[q].runs[r], v, v.objs[q].tab)
    BY <2>1, <2>2, <2>3, <2>4, <2>5, <2>6
  <2> QED
    BY <1>5, <2>7 DEF RunsShape
<1>10. TagsShape(v, n, A)
  <2>1. RunTags(run, n, A)
    BY <1>a DEF RunTags
  <2>2. ASSUME NEW q \in DOMAIN w.objs, NEW r \in DOMAIN v.objs[q].runs
        PROVE  RunTags(v.objs[q].runs[r], n, A)
    <3>1. CASE q # o
      BY <1>5, <3>1 DEF TagsShape, WorldInv
    <3>2. CASE q = o
      <4>1. v.objs[q].runs = rs
        BY <1>4, <1>5, <3>2
      <4>2. CASE r \in DOMAIN x.runs
        BY <1>3, <3>2, <4>1, <4>2 DEF TagsShape, WorldInv
      <4>3. CASE r = Len(x.runs) + 1
        BY <1>3, <2>1, <4>1, <4>3
      <4> QED
        BY <1>3, <4>1, <4>2, <4>3
    <3> QED
      BY <3>1, <3>2
  <2> QED
    BY <1>5, <2>2 DEF TagsShape
<1>11. ReadyShape(v, s, {})
  <2>1. v.objs[o] = y /\ y.ready # 0 /\ y.runs[y.ready].at = "open"
    BY <1>1, <1>3, <1>4, <1>5, <1>a
  <2>2. ASSUME NEW q \in DOMAIN w.objs, q # o, ~ BrokenIn(v, v.objs[q].tab)
        PROVE  LET z == v.objs[q] IN
               /\ z.ready # 0
               /\ z.runs[z.ready].at \in {"empty", "fetch", "store", "ok"} => z.db # NoConn
               /\ z.runs[z.ready].at = "ok" => s # NoStore
    <3>1. v.objs[q] = w.objs[q] /\ w.objs[q].tab \in Tabs /\ q \in DOMAIN w.objs \ {o}
      BY <1>1, <1>5, <2>2
    <3>2. ~ BrokenIn(w, w.objs[q].tab)
      BY <1>6, <2>2, <3>1
    <3> QED
      BY <3>1, <3>2 DEF ReadyShape, WorldInv
  <2> QED
    BY <1>5, <2>1, <2>2 DEF ReadyShape
<1>12. Advances(w, v, {o})
  BY <1>4, <1>5, <1>6 DEF Advances
<1>13. v.objs[o] = y /\ y.ready # 0 /\ y.runs[y.ready] = run
  BY <1>1, <1>3, <1>4, <1>5
<1> HIDE DEF x
<1> QED
  BY <1>3, <1>4, <1>5, <1>7, <1>8, <1>9, <1>10, <1>11, <1>12, <1>13, <1>a DEF WorldInv, AwaitsConn, x, v

\* checkReady() of an object that has a _ready whenever its tab lost no connection, or of
\* a new one
LEMMA CheckReadyInv ==
  ASSUME NEW w, NEW s, NEW n \in Nat, NEW A, NEW o \in DOMAIN w.objs, WorldInv(w, s, n, A, {o}),
         w.objs[o].ready # 0 => WorldInv(w, s, n, A, {})
  PROVE  LET v == CheckReady(w, o) IN
         /\ WorldInv(v, s, n, A, {}) /\ Advances(w, v, {o}) /\ DOMAIN v.objs = DOMAIN w.objs
         /\ w.objs[o].ready # 0 => v = w
         /\ w.objs[o].ready = 0 /\ ~ BrokenIn(v, w.objs[o].tab) => v.objs[o].ready = Len(w.objs[o].runs) + 1
<1>1. CASE w.objs[o].ready # 0
  BY <1>1, AdvancesNot DEF CheckReady
<1>2. CASE w.objs[o].ready = 0
  <2> DEFINE t == w.objs[o].tab
             u == openDatabase(w, t)
             c == u.cache[t]
             x == NewRun(u, o, c)
             v == CheckReady(w, o)
  <2>0. w \in WorldType /\ t \in Tabs
    BY WorldObjects DEF WorldInv
  <2>1. /\ WorldInv(u, s, n, A, {o}) /\ Advances(w, u, {}) /\ u.objs = w.objs
        /\ c \in DOMAIN u.conns /\ u.conns[c].tab = t
    <3> HIDE DEF t
    <3> QED
      BY <2>0, OpenDatabaseInv
  <2>2. v = InitOpened(x, {o}, c)
    BY <1>2 DEF CheckReady
  <2> HIDE DEF u, v, c
  <2>3. /\ WorldInv(x, s, n, A, {}) /\ Advances(u, x, {o})
        /\ DOMAIN x.objs = DOMAIN u.objs /\ x.conns = u.conns
        /\ x.objs[o].ready = Len(w.objs[o].runs) + 1 /\ AwaitsConn(x.objs[o], c)
    <3>1. u.objs[o] = w.objs[o] /\ o \in DOMAIN u.objs
      BY <2>1
    <3>2. u.objs[o].ready = 0 /\ u.conns[c].tab = u.objs[o].tab
      BY <1>2, <2>1, <3>1
    <3> HIDE DEF t
    <3>3. WorldInv(u, s, n, A, {o}) /\ c \in DOMAIN u.conns
      BY <2>1
    <3>4. /\ WorldInv(x, s, n, A, {}) /\ Advances(u, x, {o})
          /\ DOMAIN x.objs = DOMAIN u.objs /\ x.conns = u.conns
          /\ x.objs[o].ready = Len(u.objs[o].runs) + 1 /\ AwaitsConn(x.objs[o], c)
      BY ONLY n \in Nat, <3>1, <3>2, <3>3, NewRunInv
    <3> HIDE DEF x
    <3> QED
      BY <3>1, <3>4
  <2> HIDE DEF x, t
  <2>5. WorldInv(v, s, n, A, {}) /\ Advances(x, v, {}) /\ DOMAIN v.objs = DOMAIN x.objs
    <3>1. {o} \in SUBSET DOMAIN x.objs /\ c \in DOMAIN x.conns
      BY <2>1, <2>3
    <3>2. \A q \in {o} : AwaitsConn(x.objs[q], c)
      BY <2>3
    <3> QED
      BY <2>2, <2>3, <3>1, <3>2, InitOpenedInv
  <2>6. u \in WorldType /\ x \in WorldType /\ v \in WorldType
    BY <2>1, <2>3, <2>5 DEF WorldInv
  <2>7. Advances(u, v, {o})
    BY <2>3, <2>5, <2>6, AdvancesTwice
  <2>8. Advances(w, v, {o})
    <3>1. Advances(w, u, {o})
      BY <2>1 DEF Advances
    <3> QED
      BY <2>0, <2>6, <2>7, <3>1, AdvancesTwice
  <2>9. ~ BrokenIn(v, t) => v.objs[o].ready = x.objs[o].ready
    <3>1. o \in DOMAIN x.objs /\ x.objs[o].tab = t
      BY <2>1, <2>3 DEF Advances, t
    <3> QED
      BY <2>5, <3>1 DEF Advances
  <2> QED
    BY <1>2, <2>1, <2>3, <2>5, <2>8, <2>9 DEF v, t
<1> QED
  BY <1>1, <1>2

\* checkReady() of an object
LEMMA CheckReadyStep ==
  ASSUME NEW w, NEW s, NEW n \in Nat, NEW A, NEW o \in DOMAIN w.objs, WorldInv(w, s, n, A, {})
  PROVE  LET v == CheckReady(w, o) IN
         /\ WorldInv(v, s, n, A, {}) /\ Advances(w, v, {}) /\ DOMAIN v.objs = DOMAIN w.objs
<1> DEFINE v == CheckReady(w, o)
<1>1. WorldInv(w, s, n, A, {o})
  BY DEF WorldInv, ReadyShape
<1>2. /\ WorldInv(v, s, n, A, {}) /\ Advances(w, v, {o}) /\ DOMAIN v.objs = DOMAIN w.objs
      /\ w.objs[o].ready # 0 => v = w
  <2>1. w.objs[o].ready # 0 => WorldInv(w, s, n, A, {})
    OBVIOUS
  <2>2. LET z == CheckReady(w, o) IN
        /\ WorldInv(z, s, n, A, {}) /\ Advances(w, z, {o}) /\ DOMAIN z.objs = DOMAIN w.objs
        /\ w.objs[o].ready # 0 => z = w
        /\ w.objs[o].ready = 0 /\ ~ BrokenIn(z, w.objs[o].tab) => z.objs[o].ready = Len(w.objs[o].runs) + 1
    BY ONLY n \in Nat, o \in DOMAIN w.objs, <1>1, <2>1, CheckReadyInv
  <2> QED
    BY <2>2
<1> HIDE DEF v
<1>3. w.objs[o].tab \in Tabs
  BY WorldObjects DEF WorldInv
<1>4. Advances(w, v, {})
  <2>1. CASE w.objs[o].ready # 0
    BY <1>2, <2>1, AdvancesNot
  <2>2. CASE w.objs[o].ready = 0
    <3>1. BrokenIn(w, w.objs[o].tab)
      BY <2>2 DEF WorldInv, ReadyShape
    <3>2. BrokenIn(v, w.objs[o].tab)
      BY <1>2, <1>3, <3>1 DEF Advances
    <3> QED
      BY <1>2, <3>2 DEF Advances
  <2> QED
    BY <2>1, <2>2
<1> QED
  BY <1>2, <1>4 DEF v

\* new Database(): the last object of the world, of tab t
LEMMA NewObjectInv ==
  ASSUME NEW w, NEW s, NEW n \in Nat, NEW A, NEW t \in Tabs, WorldInv(w, s, n, A, {})
  PROVE  LET v == NewObject(w, t)
             o == Len(w.objs) + 1 IN
         /\ WorldInv(v, s, n, A, {}) /\ Advances(w, v, {})
         /\ DOMAIN v.objs = DOMAIN w.objs \cup {o} /\ Len(v.objs) = o
         /\ v.objs[o].tab = t
         /\ ~ BrokenIn(v, t) => v.objs[o].ready = 1
<1> DEFINE v == NewObject(w, t)
           o == Len(w.objs) + 1
           x == [tab |-> t, ready |-> 0, lazy |-> 0, db |-> NoConn, runs |-> << >>]
           xs == Append(w.objs, x)
           u == [w EXCEPT !.objs = xs]
<1>1. w \in WorldType /\ w.objs \in Seq(ObjType)
  BY WorldFields DEF WorldInv
<1>2. x \in ObjType /\ x.tab = t /\ x.ready = 0 /\ x.db = NoConn /\ x.runs = << >>
  BY DEF ObjType, NoConn
<1> HIDE DEF x
<1>3. /\ xs \in Seq(ObjType) /\ DOMAIN xs = DOMAIN w.objs \cup {o} /\ Len(xs) = o
      /\ \A q \in DOMAIN w.objs : xs[q] = w.objs[q]
      /\ xs[o] = x /\ o \notin DOMAIN w.objs /\ o \in Nat
  BY <1>1, <1>2, AppendFacts
<1>4. v = CheckReady(u, o)
  BY DEF NewObject, x
<1> HIDE DEF xs
<1>5. u \in WorldType /\ u.objs = xs /\ u.conns = w.conns /\ u.cache = w.cache /\ u.listeners = w.listeners
  BY <1>1, <1>3 DEF WorldType
<1> HIDE DEF u, v, o
<1>6. \A q \in Tabs : BrokenIn(u, q) <=> BrokenIn(w, q)
  BY <1>5 DEF BrokenIn
<1>7. u.objs[o] = x /\ o \in DOMAIN u.objs /\ \A q \in DOMAIN w.objs : q \in DOMAIN u.objs /\ u.objs[q] = w.objs[q] /\ q # o
  BY <1>3, <1>5
<1>a. \A q \in DOMAIN u.objs : q = o \/ q \in DOMAIN w.objs
  BY <1>3, <1>5
<1>8. CacheShape(u)
  BY <1>5 DEF CacheShape, WorldInv
<1>9. ListenersShape(u)
  <2>1. ASSUME NEW p \in Tabs, NEW q \in u.listeners[p]
        PROVE  q \in DOMAIN u.objs /\ u.objs[q].tab = p
    <3>1. q \in DOMAIN w.objs /\ w.objs[q].tab = p
      BY <1>5, <2>1 DEF ListenersShape, WorldInv
    <3> QED
      BY <1>7, <3>1
  <2>2. ASSUME NEW q \in DOMAIN u.objs, u.objs[q].db # NoConn
        PROVE  q \in DOMAIN w.objs /\ u.objs[q] = w.objs[q]
    BY <1>2, <1>7, <1>a, <2>2
  <2> QED
    BY <1>5, <2>1, <2>2 DEF ListenersShape, WorldInv
<1>10. RunsShape(u)
  <2>1. x.ready \in 0 .. Len(x.runs) /\ DOMAIN x.runs = {}
    BY <1>2
  <2>2. ASSUME NEW q \in DOMAIN w.objs
        PROVE  /\ u.objs[q].ready \in 0 .. Len(u.objs[q].runs)
               /\ \A r \in DOMAIN u.objs[q].runs : RunShape(u.objs[q].runs[r], u, u.objs[q].tab)
    BY <1>5, <1>7 DEF RunsShape, RunShape, WorldInv
  <2> QED
    BY <1>7, <1>a, <2>1, <2>2 DEF RunsShape
<1>11. TagsShape(u, n, A)
  <2>1. DOMAIN x.runs = {}
    BY <1>2
  <2> QED
    BY <1>7, <1>a, <2>1 DEF TagsShape, WorldInv
<1>12. ReadyShape(u, s, {o})
  <2>1. \A q \in DOMAIN w.objs : w.objs[q].tab \in Tabs
    BY <1>1, WorldObjects
  <2>2. ASSUME NEW q \in DOMAIN u.objs \ {o}
        PROVE  q \in DOMAIN w.objs /\ u.objs[q] = w.objs[q] /\ w.objs[q].tab \in Tabs
    BY <1>7, <1>a, <2>1
  <2> QED
    BY <1>6, <2>2 DEF ReadyShape, WorldInv
<1>13. WorldInv(u, s, n, A, {o}) /\ u.objs[o].ready = 0
  BY <1>2, <1>5, <1>7, <1>8, <1>9, <1>10, <1>11, <1>12 DEF WorldInv
<1>14. /\ WorldInv(v, s, n, A, {}) /\ Advances(u, v, {o}) /\ DOMAIN v.objs = DOMAIN u.objs
       /\ ~ BrokenIn(v, u.objs[o].tab) => v.objs[o].ready = Len(u.objs[o].runs) + 1
  <2>1. o \in DOMAIN u.objs /\ (u.objs[o].ready # 0 => WorldInv(u, s, n, A, {}))
    BY <1>7, <1>13
  <2>2. LET z == CheckReady(u, o) IN
        /\ WorldInv(z, s, n, A, {}) /\ Advances(u, z, {o}) /\ DOMAIN z.objs = DOMAIN u.objs
        /\ u.objs[o].ready # 0 => z = u
        /\ u.objs[o].ready = 0 /\ ~ BrokenIn(z, u.objs[o].tab) => z.objs[o].ready = Len(u.objs[o].runs) + 1
    BY ONLY n \in Nat, <1>13, <2>1, CheckReadyInv
  <2> QED
    BY <1>4, <1>13, <2>2
<1>15. Advances(w, u, {})
  BY <1>5, <1>6, <1>7 DEF Advances
<1>16. Advances(w, v, {})
  <2>1. {o} \cap DOMAIN w.objs \subseteq {} /\ v \in WorldType
    BY <1>7, <1>14 DEF WorldInv
  <2> QED
    BY <1>1, <1>5, <1>14, <1>15, <2>1, AdvancesTwice
<1>17. v.objs[o].tab = t
  BY <1>2, <1>7, <1>14 DEF Advances
<1>18. ~ BrokenIn(v, t) => v.objs[o].ready = 1
  <2>1. Len(u.objs[o].runs) = 0 /\ u.objs[o].tab = t
    BY <1>2, <1>7
  <2> QED
    BY <1>14, <2>1
<1>19. DOMAIN v.objs = DOMAIN w.objs \cup {o} /\ Len(v.objs) = o
  <2>1. DOMAIN v.objs = DOMAIN w.objs \cup {o}
    BY <1>3, <1>5, <1>14
  <2>2. DOMAIN v.objs = 1 .. o
    BY <1>1, <1>3, <2>1, AppendFacts DEF o
  <2>3. v.objs \in Seq(ObjType)
    BY <1>14, WorldFields DEF WorldInv
  <2>4. DOMAIN v.objs = 1 .. Len(v.objs) /\ Len(v.objs) \in Nat
    BY <2>3
  <2> QED
    BY <1>3, <2>1, <2>2, <2>4
<1> QED
  BY <1>14, <1>16, <1>17, <1>18, <1>19 DEF v, o

\* closeDatabase(t): no connection of the tab is live unless it is pending, and who held
\* one was told.
LEMMA CloseDatabaseInv ==
  ASSUME NEW w, NEW s, NEW n \in Nat, NEW A, NEW t \in Tabs, WorldInv(w, s, n, A, {})
  PROVE  LET v == closeDatabase(w, t) IN
         /\ WorldInv(v, s, n, A, {}) /\ Advances(w, v, {})
         /\ DOMAIN v.objs = DOMAIN w.objs /\ DOMAIN v.conns = DOMAIN w.conns
         /\ \A c \in DOMAIN w.conns : w.conns[c].state = "lost" => v.conns[c] = w.conns[c]
<1> DEFINE v == closeDatabase(w, t)
           c == w.cache[t]
           gone == [w EXCEPT !.cache[t] = NoConn, !.listeners[t] = {}]
<1>1. /\ w \in WorldType /\ w.objs \in Seq(ObjType) /\ w.conns \in Seq(ConnType)
      /\ c # NoConn => c \in DOMAIN w.conns /\ w.conns[c].tab = t /\ w.conns[c] \in ConnType
      /\ \A q \in DOMAIN w.objs : w.objs[q] \in ObjType /\ w.objs[q].tab \in Tabs
      /\ \A d \in DOMAIN w.conns : w.conns[d].tab \in Tabs
  BY WorldFields, WorldObjects, WorldConns DEF WorldInv, CacheShape
<1>2. CASE c # NoConn /\ w.conns[c].state = "pending"
  <2>1. v = w
    BY <1>2 DEF closeDatabase
  <2> QED
    BY <2>1, AdvancesNot
<1>3. CASE ~ (c # NoConn /\ w.conns[c].state = "pending")
  <2> DEFINE told == c # NoConn /\ w.conns[c].state # "rejected"
             shut == close(w.conns[c])
             cs == [w.conns EXCEPT ![c] = shut]
             xs == [o \in DOMAIN w.objs |-> IF o \in w.listeners[t] THEN clear(w.objs[o]) ELSE w.objs[o]]
  <2>1. /\ gone \in WorldType /\ gone.objs = w.objs /\ gone.conns = w.conns
        /\ gone.cache = [w.cache EXCEPT ![t] = NoConn] /\ gone.listeners = [w.listeners EXCEPT ![t] = {}]
    BY <1>1 DEF WorldType, NoConn
  <2>2. told => /\ shut \in ConnType /\ shut.tab = t /\ shut.state \in {"closed", "lost"}
                /\ w.conns[c].state = "lost" => shut = w.conns[c]
    <3> DEFINE z == w.conns[c]
    <3>1. told => z \in ConnType /\ z.tab = t /\ z.state # "pending" /\ z.state # "rejected"
      BY <1>1, <1>3
    <3> HIDE DEF z
    <3>2. told => LET y == close(z) IN
                  /\ y \in ConnType /\ y.tab = t /\ y.state \in {"closed", "lost"}
                  /\ z.state = "lost" => y = z
      BY <3>1 DEF close, ConnType
    <3> QED
      BY <3>2 DEF z
  <2>3. told => /\ cs \in Seq(ConnType) /\ DOMAIN cs = DOMAIN w.conns
                /\ \A d \in DOMAIN w.conns : cs[d] = IF d = c THEN shut ELSE w.conns[d]
    <3> HIDE DEF shut, c
    <3> QED
      BY <1>1, <2>2, ReplaceFacts
  <2>4. /\ xs \in Seq(ObjType) /\ DOMAIN xs = DOMAIN w.objs
        /\ \A o \in DOMAIN w.objs :
             IF o \in w.listeners[t]
             THEN xs[o].tab = w.objs[o].tab /\ xs[o].ready = 0 /\ xs[o].db = NoConn /\ xs[o].runs = w.objs[o].runs
             ELSE xs[o] = w.objs[o]
    <3>1. \A x \in ObjType : LET y == clear(x) IN
            y \in ObjType /\ y.tab = x.tab /\ y.ready = 0 /\ y.db = NoConn /\ y.runs = x.runs
      BY DEF ObjType, clear, NoConn
    <3>2. \A o \in DOMAIN w.objs : xs[o] \in ObjType
      BY <1>1, <3>1
    <3>3. \A o \in DOMAIN w.objs :
            IF o \in w.listeners[t]
            THEN xs[o].tab = w.objs[o].tab /\ xs[o].ready = 0 /\ xs[o].db = NoConn /\ xs[o].runs = w.objs[o].runs
            ELSE xs[o] = w.objs[o]
      BY <1>1, <3>1
    <3>4. xs = [o \in DOMAIN w.objs |-> xs[o]]
      OBVIOUS
    <3> HIDE DEF xs
    <3> QED
      BY <1>1, <3>2, <3>3, <3>4, MapFacts
  <2>5. /\ v \in WorldType /\ v.cache = [w.cache EXCEPT ![t] = NoConn]
        /\ v.listeners = [w.listeners EXCEPT ![t] = {}]
        /\ v.objs = IF told THEN xs ELSE w.objs
        /\ v.conns = IF told THEN cs ELSE w.conns
    <3>1. CASE ~ told
      <4>1. v = gone
        BY <1>3, <3>1 DEF closeDatabase
      <4> HIDE DEF v, gone, told
      <4> QED
        BY <2>1, <3>1, <4>1
    <3>2. CASE told
      <4>1. v = [gone EXCEPT !.objs = xs, !.conns[c] = shut]
        <5>1. gone.objs = w.objs /\ gone.conns = w.conns
          BY <2>1
        <5>2. v = [gone EXCEPT !.objs = [o \in DOMAIN gone.objs |-> IF o \in w.listeners[t] THEN clear(gone.objs[o]) ELSE gone.objs[o]],
                               !.conns[c] = close(gone.conns[c])]
          BY <1>3, <3>2 DEF closeDatabase
        <5> HIDE DEF gone
        <5> QED
          BY <5>1, <5>2
      <4> HIDE DEF v, gone, xs, shut
      <4>2. v \in WorldType
        <5>1. v = [gone EXCEPT !.objs = xs, !.conns = cs]
          BY <2>1, <4>1
        <5> HIDE DEF cs
        <5> QED
          BY <2>1, <2>3, <2>4, <3>2, <5>1 DEF WorldType
      <4>3. v.cache = gone.cache /\ v.listeners = gone.listeners /\ v.objs = xs /\ v.conns = cs
        BY <2>1, <4>1 DEF WorldType
      <4> QED
        BY <2>1, <3>2, <4>2, <4>3
    <3> QED
      BY <3>1, <3>2
  <2> HIDE DEF v, xs, cs, shut
  <2>6. /\ DOMAIN v.conns = DOMAIN w.conns
        /\ \A d \in DOMAIN w.conns :
             /\ v.conns[d].tab = w.conns[d].tab
             /\ v.conns[d] = w.conns[d] \/ (told /\ d = c /\ v.conns[d].state \in {"closed", "lost"})
             /\ w.conns[d].state = "lost" => v.conns[d] = w.conns[d]
    <3>1. CASE told
      BY <1>1, <2>2, <2>3, <2>5, <3>1
    <3>2. CASE ~ told
      BY <2>5, <3>2
    <3> QED
      BY <3>1, <3>2
  <2>7. told => BrokenIn(v, t)
    BY <1>1, <2>2, <2>3, <2>5 DEF BrokenIn
  <2>8. \A q \in Tabs : BrokenIn(w, q) => BrokenIn(v, q)
    <3> SUFFICES ASSUME NEW q \in Tabs, NEW d \in DOMAIN w.conns, w.conns[d].tab = q,
                        w.conns[d].state \in {"closed", "lost"}
                 PROVE  BrokenIn(v, q)
      BY DEF BrokenIn
    <3>1. v.conns[d].tab = q /\ v.conns[d].state \in {"closed", "lost"}
      BY <2>6
    <3> QED
      BY <2>6, <3>1 DEF BrokenIn
  <2>9. /\ DOMAIN v.objs = DOMAIN w.objs
        /\ \A o \in DOMAIN w.objs :
             \/ v.objs[o] = w.objs[o] /\ ~ (told /\ o \in w.listeners[t])
             \/ /\ told /\ w.objs[o].tab = t /\ v.objs[o].tab = t
                /\ v.objs[o].ready = 0 /\ v.objs[o].db = NoConn /\ v.objs[o].runs = w.objs[o].runs
    <3>1. \A o \in w.listeners[t] : w.objs[o].tab = t
      BY DEF WorldInv, ListenersShape
    <3> QED
      BY <2>4, <2>5, <3>1
  <2>10. ASSUME NEW d \in DOMAIN v.conns, Live(v.conns[d])
         PROVE  v.conns[d] = w.conns[d] /\ w.conns[d].tab # t /\ w.cache[w.conns[d].tab] = d
    <3>1. v.conns[d] = w.conns[d] /\ d \in DOMAIN w.conns
      BY <2>6, <2>10 DEF Live
    <3>2. w.cache[w.conns[d].tab] = d
      BY <2>10, <3>1 DEF WorldInv, CacheShape
    <3>3. d # NoConn
      BY <1>1, <3>1, WorldConns DEF NoConn
    <3>4. ASSUME w.conns[d].tab = t PROVE FALSE
      <4>1. d = c /\ c # NoConn /\ w.conns[c].state = "open"
        BY <1>3, <2>10, <3>1, <3>2, <3>3, <3>4 DEF Live
      <4>2. told
        BY <4>1
      <4>3. v.conns[c].state \in {"closed", "lost"}
        BY <2>2, <2>3, <2>5, <3>1, <4>1, <4>2
      <4> QED
        BY <2>10, <4>1, <4>3 DEF Live
    <3> QED
      BY <3>1, <3>2, <3>4
  <2>11. \A q \in Tabs : /\ v.cache[q] = IF q = t THEN NoConn ELSE w.cache[q]
                         /\ v.listeners[q] = IF q = t THEN {} ELSE w.listeners[q]
    BY <1>1, <2>5, WorldFields
  <2>12. CacheShape(v)
    <3>1. ASSUME NEW q \in Tabs, v.cache[q] # NoConn
          PROVE  v.cache[q] \in DOMAIN v.conns /\ v.conns[v.cache[q]].tab = q
      BY <2>6, <2>11, <3>1 DEF WorldInv, CacheShape
    <3>2. ASSUME NEW d \in DOMAIN v.conns, Live(v.conns[d])
          PROVE  v.cache[v.conns[d].tab] = d
      <4>1. d \in DOMAIN w.conns
        BY <2>6
      <4> QED
        BY <1>1, <2>10, <2>11, <3>2, <4>1
    <3> QED
      BY <3>1, <3>2 DEF CacheShape
  <2>13. ListenersShape(v)
    <3>1. ASSUME NEW q \in Tabs, NEW o \in v.listeners[q]
          PROVE  o \in DOMAIN v.objs /\ v.objs[o].tab = q
      <4>1. q # t /\ o \in w.listeners[q]
        BY <2>11, <3>1
      <4>2. o \in DOMAIN w.objs /\ w.objs[o].tab = q
        BY <4>1 DEF WorldInv, ListenersShape
      <4> QED
        BY <2>9, <4>1, <4>2
    <3>2. ASSUME NEW o \in DOMAIN v.objs, v.objs[o].db # NoConn
          PROVE  LET d == v.objs[o].db IN
                 /\ d \in DOMAIN v.conns /\ v.conns[d].tab = v.objs[o].tab
                 /\ v.conns[d].state \notin {"pending", "rejected"}
                 /\ Live(v.conns[d]) => o \in v.listeners[v.objs[o].tab]
      <4> DEFINE d == w.objs[o].db
      <4>1. v.objs[o] = w.objs[o] /\ o \in DOMAIN w.objs /\ w.objs[o].tab \in Tabs
        BY <1>1, <2>9, <3>2
      <4>2. /\ d \in DOMAIN w.conns /\ w.conns[d].tab = w.objs[o].tab
            /\ w.conns[d].state \notin {"pending", "rejected"}
            /\ Live(w.conns[d]) => o \in w.listeners[w.objs[o].tab]
        BY <3>2, <4>1 DEF WorldInv, ListenersShape
      <4>3. d \in DOMAIN v.conns /\ v.conns[d].tab = w.objs[o].tab /\ v.conns[d].state \notin {"pending", "rejected"}
        BY <2>6, <4>2
      <4>4. Live(v.conns[d]) => o \in v.listeners[w.objs[o].tab]
        <5> HIDE DEF d
        <5> QED
          BY <2>10, <2>11, <4>1, <4>2, <4>3
      <4> QED
        BY <4>1, <4>3, <4>4
    <3> QED
      BY <3>1, <3>2 DEF ListenersShape
  <2>14. ASSUME NEW o \in DOMAIN w.objs
         PROVE  v.objs[o].runs = w.objs[o].runs /\ v.objs[o].tab = w.objs[o].tab
    BY <2>9
  <2>15. RunsShape(v)
    <3>1. ASSUME NEW o \in DOMAIN w.objs
          PROVE  /\ v.objs[o].ready \in 0 .. Len(v.objs[o].runs)
                 /\ \A r \in DOMAIN v.objs[o].runs : RunShape(v.objs[o].runs[r], v, v.objs[o].tab)
      <4>1. w.objs[o].ready \in 0 .. Len(w.objs[o].runs) /\ Len(w.objs[o].runs) \in Nat
        BY <1>1, WorldObjects DEF WorldInv, RunsShape
      <4>2. v.objs[o].ready = 0 \/ v.objs[o].ready = w.objs[o].ready
        BY <2>9
      <4>3. v.objs[o].ready \in 0 .. Len(v.objs[o].runs)
        BY <2>14, <4>1, <4>2
      <4>4. \A r \in DOMAIN w.objs[o].runs : RunShape(w.objs[o].runs[r], v, w.objs[o].tab)
        BY <2>6 DEF WorldInv, RunsShape, RunShape
      <4> QED
        BY <2>14, <4>3, <4>4
    <3> QED
      BY <2>9, <3>1 DEF RunsShape
  <2>16. TagsShape(v, n, A)
    BY <2>9, <2>14 DEF WorldInv, TagsShape
  <2>17. ReadyShape(v, s, {})
    <3> SUFFICES ASSUME NEW o \in DOMAIN v.objs, ~ BrokenIn(v, v.objs[o].tab)
                 PROVE  LET x == v.objs[o] IN
                        /\ x.ready # 0
                        /\ x.runs[x.ready].at \in {"empty", "fetch", "store", "ok"} => x.db # NoConn
                        /\ x.runs[x.ready].at = "ok" => s # NoStore
      BY DEF ReadyShape
    <3>1. v.objs[o] = w.objs[o] /\ o \in DOMAIN w.objs
      BY <2>7, <2>9
    <3>2. ~ BrokenIn(w, w.objs[o].tab)
      BY <1>1, <2>8, <3>1
    <3> QED
      BY <3>1, <3>2 DEF WorldInv, ReadyShape
  <2>18. Advances(w, v, {})
    <3>1. ASSUME NEW o \in DOMAIN w.objs, ~ BrokenIn(v, w.objs[o].tab)
          PROVE  v.objs[o] = w.objs[o]
      BY <2>7, <2>9, <3>1
    <3> QED
      BY <2>6, <2>8, <2>9, <2>14, <3>1 DEF Advances
  <2> QED
    BY <2>5, <2>6, <2>9, <2>12, <2>13, <2>15, <2>16, <2>17, <2>18 DEF WorldInv, v
<1> QED
  BY <1>2, <1>3

\* Connections change their state, and the store may be cleared when none is open
\* afterwards.
LEMMA ConnsStep ==
  ASSUME NEW w, NEW v, NEW s, NEW z, NEW n \in Nat, NEW A, WorldInv(w, s, n, A, {}), v \in WorldType,
         v.objs = w.objs, v.cache = w.cache, v.listeners = w.listeners, DOMAIN v.conns = DOMAIN w.conns,
         \A c \in DOMAIN w.conns :
           /\ v.conns[c].tab = w.conns[c].tab
           /\ Live(v.conns[c]) => Live(w.conns[c])
           /\ v.conns[c].state \in {"pending", "rejected"} => w.conns[c].state \in {"pending", "rejected"}
           /\ w.conns[c].state \in {"closed", "lost"} => v.conns[c].state \in {"closed", "lost"},
         s # NoStore => z # NoStore \/ \A c \in DOMAIN v.conns : v.conns[c].state # "open"
  PROVE  WorldInv(v, z, n, A, {}) /\ Advances(w, v, {})
<1>0. /\ w \in WorldType
      /\ \A o \in DOMAIN w.objs : w.objs[o].tab \in Tabs
      /\ \A c \in DOMAIN w.conns : w.conns[c].tab \in Tabs
  BY WorldObjects, WorldConns DEF WorldInv
<1>1. \A t \in Tabs : BrokenIn(w, t) => BrokenIn(v, t)
  BY DEF BrokenIn
<1>2. CacheShape(v)
  BY DEF CacheShape, WorldInv
<1>3. ListenersShape(v)
  <2>1. ASSUME NEW o \in DOMAIN w.objs, w.objs[o].db # NoConn
        PROVE  LET d == w.objs[o].db IN
               /\ d \in DOMAIN v.conns /\ v.conns[d].tab = w.objs[o].tab
               /\ v.conns[d].state \notin {"pending", "rejected"}
               /\ Live(v.conns[d]) => o \in w.listeners[w.objs[o].tab]
    <3>1. LET d == w.objs[o].db IN
          /\ d \in DOMAIN w.conns /\ w.conns[d].tab = w.objs[o].tab
          /\ w.conns[d].state \notin {"pending", "rejected"}
          /\ Live(w.conns[d]) => o \in w.listeners[w.objs[o].tab]
      BY <2>1 DEF ListenersShape, WorldInv
    <3> QED
      BY <3>1
  <2> QED
    BY <2>1 DEF ListenersShape, WorldInv
<1>4. RunsShape(v)
  <2>1. ASSUME NEW o \in DOMAIN w.objs, NEW r \in DOMAIN w.objs[o].runs
        PROVE  RunShape(w.objs[o].runs[r], v, w.objs[o].tab)
    BY DEF RunsShape, RunShape, WorldInv
  <2> QED
    BY <2>1 DEF RunsShape, WorldInv
<1>5. TagsShape(v, n, A)
  BY DEF TagsShape, WorldInv
<1>6. ReadyShape(v, z, {})
  <2> SUFFICES ASSUME NEW o \in DOMAIN w.objs, ~ BrokenIn(v, w.objs[o].tab)
               PROVE  LET x == w.objs[o] IN
                      /\ x.ready # 0
                      /\ x.runs[x.ready].at \in {"empty", "fetch", "store", "ok"} => x.db # NoConn
                      /\ x.runs[x.ready].at = "ok" => z # NoStore
    BY DEF ReadyShape
  <2> DEFINE x == w.objs[o]
  <2>1. ~ BrokenIn(w, x.tab)
    BY <1>0, <1>1
  <2>2. /\ x.ready # 0
        /\ x.runs[x.ready].at \in {"empty", "fetch", "store", "ok"} => x.db # NoConn
        /\ x.runs[x.ready].at = "ok" => s # NoStore
    BY <2>1 DEF ReadyShape, WorldInv
  <2>3. x.db # NoConn => v.conns[x.db].state = "open" /\ x.db \in DOMAIN v.conns
    <3>1. ASSUME x.db # NoConn
          PROVE  /\ x.db \in DOMAIN v.conns /\ v.conns[x.db].tab = x.tab
                 /\ v.conns[x.db].state \notin {"pending", "rejected"}
      BY <1>3, <3>1 DEF ListenersShape
    <3>2. x.db # NoConn => v.conns[x.db].state \notin {"closed", "lost"}
      BY <3>1 DEF BrokenIn
    <3> QED
      BY <3>1, <3>2, WorldConns
  <2> HIDE DEF x
  <2>4. /\ x.ready # 0
        /\ x.runs[x.ready].at \in {"empty", "fetch", "store", "ok"} => x.db # NoConn
        /\ x.runs[x.ready].at = "ok" => z # NoStore
    BY <2>2, <2>3
  <2> QED
    BY <2>4 DEF x
<1>7. Advances(w, v, {})
  BY <1>1 DEF Advances
<1> QED
  BY <1>2, <1>3, <1>4, <1>5, <1>6, <1>7 DEF WorldInv

\* The store is filled, or the server updated.
LEMMA StoreStep ==
  ASSUME NEW w, NEW s, NEW z, NEW n \in Nat, NEW A, NEW m \in Nat, NEW B,
         WorldInv(w, s, n, A, {}), n =< m, A \subseteq B,
         s # NoStore => z # NoStore
  PROVE  WorldInv(w, z, m, B, {})
<1>1. ReadyShape(w, z, {})
  BY DEF ReadyShape, WorldInv
<1>2. ASSUME NEW run \in RunType, RunTags(run, n, A) PROVE RunTags(run, m, B)
  <2>1. run.tag \in Nat /\ run.data \in Nat
    BY DEF RunType
  <2> QED
    BY <1>2, <2>1 DEF RunTags
<1>3. TagsShape(w, m, B)
  <2>1. ASSUME NEW o \in DOMAIN w.objs, NEW r \in DOMAIN w.objs[o].runs
        PROVE  w.objs[o].runs[r] \in RunType /\ RunTags(w.objs[o].runs[r], n, A)
    BY WorldObjects DEF WorldInv, TagsShape
  <2> QED
    BY <1>2, <2>1 DEF TagsShape
<1> QED
  BY <1>1, <1>3 DEF WorldInv

\* Where a run may go in one step, when the store is z and the server's version n
RunGoes(old, new, z, n, A) ==
  /\ new.at # "open" /\ (new.lazy # "none" => new.at = "ok") /\ RunTags(new, n, A)
  /\ new.at \in {"empty", "fetch", "store", "ok"} => old.at \in {"empty", "fetch", "store", "ok"}
  /\ old.at = "ok" => new.at = "ok"
  /\ new.at = "ok" => z # NoStore \/ old.at = "ok"

\* A run of an object goes on, and the store may be filled.
LEMMA RunStep ==
  ASSUME NEW w, NEW v, NEW s, NEW z, NEW n \in Nat, NEW A, WorldInv(w, s, n, A, {}), s # NoStore => z # NoStore,
         v \in WorldType, v.conns = w.conns, v.cache = w.cache, v.listeners = w.listeners,
         DOMAIN v.objs = DOMAIN w.objs,
         NEW o \in DOMAIN w.objs, \A q \in DOMAIN w.objs : q # o => v.objs[q] = w.objs[q],
         v.objs[o].tab = w.objs[o].tab, v.objs[o].ready = w.objs[o].ready, v.objs[o].db = w.objs[o].db,
         DOMAIN v.objs[o].runs = DOMAIN w.objs[o].runs, Len(v.objs[o].runs) = Len(w.objs[o].runs),
         NEW r \in DOMAIN w.objs[o].runs,
         \A q \in DOMAIN w.objs[o].runs : q # r => v.objs[o].runs[q] = w.objs[o].runs[q],
         RunGoes(w.objs[o].runs[r], v.objs[o].runs[r], z, n, A)
  PROVE  WorldInv(v, z, n, A, {}) /\ Advances(w, v, {})
<1>0. WorldInv(w, z, n, A, {}) /\ w \in WorldType /\ \A q \in DOMAIN w.objs : w.objs[q].tab \in Tabs
  BY StoreStep, WorldObjects DEF WorldInv
<1>1. \A t \in Tabs : BrokenIn(w, t) <=> BrokenIn(v, t)
  BY DEF BrokenIn
<1>2. CacheShape(v)
  BY DEF CacheShape, WorldInv
<1>3. \A q \in DOMAIN w.objs : v.objs[q].tab = w.objs[q].tab /\ v.objs[q].ready = w.objs[q].ready /\ v.objs[q].db = w.objs[q].db
  OBVIOUS
<1>4. ListenersShape(v)
  BY <1>3 DEF ListenersShape, WorldInv
<1>5. ASSUME NEW q \in DOMAIN w.objs
      PROVE  DOMAIN v.objs[q].runs = DOMAIN w.objs[q].runs /\ Len(v.objs[q].runs) = Len(w.objs[q].runs)
  OBVIOUS
<1>6. ASSUME NEW q \in DOMAIN w.objs, NEW p \in DOMAIN w.objs[q].runs
      PROVE  /\ RunShape(v.objs[q].runs[p], v, v.objs[q].tab)
             /\ RunTags(v.objs[q].runs[p], n, A)
  <2>1. CASE q = o /\ p = r
    BY <2>1 DEF RunGoes, RunShape
  <2>2. CASE ~ (q = o /\ p = r)
    <3>1. v.objs[q].runs[p] = w.objs[q].runs[p]
      BY <2>2
    <3>2. RunShape(w.objs[q].runs[p], w, w.objs[q].tab) /\ RunTags(w.objs[q].runs[p], n, A)
      BY DEF WorldInv, RunsShape, TagsShape
    <3> QED
      BY <1>3, <3>1, <3>2 DEF RunShape
  <2> QED
    BY <2>1, <2>2
<1>7. RunsShape(v)
  <2>1. \A q \in DOMAIN w.objs : v.objs[q].ready \in 0 .. Len(v.objs[q].runs)
    BY <1>3, <1>5 DEF WorldInv, RunsShape
  <2> QED
    BY <1>5, <1>6, <2>1 DEF RunsShape
<1>8. TagsShape(v, n, A)
  BY <1>5, <1>6 DEF TagsShape
<1>9. ASSUME NEW q \in DOMAIN w.objs, w.objs[q].ready # 0
      PROVE  LET old == w.objs[q].runs[w.objs[q].ready]
                 new == v.objs[q].runs[w.objs[q].ready] IN
             new = old \/ RunGoes(old, new, z, n, A)
  <2>1. w.objs[q].ready \in DOMAIN w.objs[q].runs
    <3>1. w.objs[q].ready \in 0 .. Len(w.objs[q].runs)
      BY DEF WorldInv, RunsShape
    <3> QED
      BY <1>0, <1>9, <3>1, WorldObjects
  <2>2. CASE q # o
    BY <2>2
  <2>3. CASE q = o /\ w.objs[q].ready = r
    BY <2>3
  <2>4. CASE q = o /\ w.objs[q].ready # r
    BY <2>1, <2>4
  <2> QED
    BY <2>2, <2>3, <2>4
<1>10. ReadyShape(v, z, {})
  <2> SUFFICES ASSUME NEW q \in DOMAIN w.objs, ~ BrokenIn(v, w.objs[q].tab)
               PROVE  LET x == v.objs[q] IN
                      /\ x.ready # 0
                      /\ x.runs[x.ready].at \in {"empty", "fetch", "store", "ok"} => x.db # NoConn
                      /\ x.runs[x.ready].at = "ok" => z # NoStore
    BY <1>3 DEF ReadyShape
  <2>1. LET x == w.objs[q] IN
        /\ x.ready # 0
        /\ x.runs[x.ready].at \in {"empty", "fetch", "store", "ok"} => x.db # NoConn
        /\ x.runs[x.ready].at = "ok" => z # NoStore
    BY <1>0, <1>1 DEF ReadyShape, WorldInv
  <2> QED
    BY <1>3, <1>9, <2>1 DEF RunGoes
<1>11. Advances(w, v, {})
  <2>1. ASSUME NEW q \in DOMAIN w.objs, ~ BrokenIn(v, w.objs[q].tab) PROVE w.objs[q].ready # 0
    BY <1>0, <1>1, <2>1 DEF ReadyShape, WorldInv
  <2> QED
    BY <1>1, <1>3, <1>9, <2>1 DEF Advances, RunGoes
<1> QED
  BY <1>2, <1>4, <1>7, <1>8, <1>10, <1>11 DEF WorldInv

-----------------------------------------------------------------------------
(* Composers and the picker *)

\* A composer that does nothing is where it was after a step of the world.
LEMMA ComposerKept ==
  ASSUME NEW w, NEW v, NEW s, NEW n, NEW A, NEW t \in Tabs, NEW c, WorldInv(w, s, n, A, {}), v \in WorldType,
         Advances(w, v, {}), ComposerShape(c, t, w)
  PROVE  ComposerShape(c, t, v)
<1>1. c.at \in {"ready", "again", "read"} =>
        /\ c.obj \in DOMAIN v.objs /\ v.objs[c.obj].tab = t
        /\ c.obj \in DOMAIN w.objs /\ w.objs[c.obj].tab = t
  BY DEF ComposerShape, Advances
<1>2. c.at = "read" => c.run \in DOMAIN v.conns /\ v.conns[c.run].tab = t
  BY DEF ComposerShape, Advances
<1>3. ~ BrokenIn(v, t) => ~ BrokenIn(w, t)
  BY DEF Advances
<1>4. ~ BrokenIn(v, t) /\ c.at \in {"ready", "again", "read"} =>
        /\ v.objs[c.obj].ready = w.objs[c.obj].ready
        /\ w.objs[c.obj].runs[w.objs[c.obj].ready].at = "ok" => v.objs[c.obj].runs[v.objs[c.obj].ready].at = "ok"
  BY <1>1 DEF Advances
<1> QED
  BY <1>1, <1>2, <1>3, <1>4 DEF ComposerShape

\* So is the picker.
LEMMA PickerKept ==
  ASSUME NEW w, NEW v, NEW p, Advances(w, v, {}), PickerShape(p, w)
  PROVE  PickerShape(p, v)
BY DEF PickerShape, Advances

\* The fields of a composer, after each way it is changed
LEMMA ComposerFields ==
  ASSUME NEW c, c \in ComposerType
  PROVE  /\ c.at \in {"wait", "retry", "ready", "again", "read", "done"}
         /\ c.obj \in Nat /\ c.run \in Nat /\ c.group \in 0 .. Groups /\ c.all \in SUBSET AllEmojis
BY DEF ComposerType

-----------------------------------------------------------------------------
(* _init() and checkForUpdates() *)

\* All but run r of an object, and its _lazyUpdate, is the same.
SameBut(x, y, r) ==
  /\ y \in ObjType /\ y.tab = x.tab /\ y.ready = x.ready /\ y.db = x.db
  /\ DOMAIN y.runs = DOMAIN x.runs /\ Len(y.runs) = Len(x.runs)
  /\ \A q \in DOMAIN x.runs : q # r => y.runs[q] = x.runs[q]

\* A run of an object is replaced by one that it may become.
LEMMA WithObjStep ==
  ASSUME NEW w, NEW s, NEW z, NEW n \in Nat, NEW A, WorldInv(w, s, n, A, {}), s # NoStore => z # NoStore,
         NEW o \in DOMAIN w.objs, NEW x, x = w.objs[o], NEW r \in DOMAIN x.runs, NEW y, SameBut(x, y, r),
         RunGoes(x.runs[r], y.runs[r], z, n, A)
  PROVE  WorldInv(WithObj(w, o, y), z, n, A, {}) /\ Advances(w, WithObj(w, o, y), {})
<1> DEFINE v == WithObj(w, o, y)
<1>1. w \in WorldType /\ y \in ObjType
  BY DEF WorldInv, SameBut
<1>2. /\ v \in WorldType /\ v.conns = w.conns /\ v.cache = w.cache /\ v.listeners = w.listeners
      /\ DOMAIN v.objs = DOMAIN w.objs
      /\ v.objs[o] = y /\ \A q \in DOMAIN w.objs : q # o => v.objs[q] = w.objs[q]
  BY <1>1, SetObjFacts
<1> HIDE DEF v
<1>3. /\ v.objs[o].tab = w.objs[o].tab /\ v.objs[o].ready = w.objs[o].ready /\ v.objs[o].db = w.objs[o].db
      /\ DOMAIN v.objs[o].runs = DOMAIN w.objs[o].runs /\ Len(v.objs[o].runs) = Len(w.objs[o].runs)
      /\ \A q \in DOMAIN w.objs[o].runs : q # r => v.objs[o].runs[q] = w.objs[o].runs[q]
  BY <1>2 DEF SameBut
<1>4. RunGoes(w.objs[o].runs[r], v.objs[o].runs[r], z, n, A)
  BY <1>2
<1>5. r \in DOMAIN w.objs[o].runs
  OBVIOUS
<1>6. WorldInv(v, z, n, A, {}) /\ Advances(w, v, {})
  BY ONLY n \in Nat, WorldInv(w, s, n, A, {}), s # NoStore => z # NoStore, o \in DOMAIN w.objs,
          <1>2, <1>3, <1>4, <1>5, RunStep
<1> QED
  BY <1>6 DEF v

\* What every step needs of the state: the world, the store, and that nothing else moved
LEMMA OnlyWorld ==
  ASSUME EmojiInv, WorldInv(World', store', version', aged', {}), Advances(World, World', {}),
         StoreShape(store', version', aged'), UNCHANGED <<composer, picker>>
  PROVE  EmojiInv'
<1>1. \A t \in Tabs : ComposerShape(composer[t], t, World')
  BY ComposerKept DEF EmojiInv, WorldInv
<1>2. PickerShape(picker, World')
  BY PickerKept DEF EmojiInv
<1> QED
  BY <1>1, <1>2 DEF EmojiInv

\* Becoming a world
LEMMA BecomeFacts ==
  ASSUME NEW STATE w, w \in WorldType, Become(w)
  PROVE  World' = w
BY WorldFields DEF World, Become

\* A step that only replaces a run and may fill the store
LEMMA SetRunStep ==
  ASSUME EmojiInv, NEW o \in DOMAIN objs, NEW r \in DOMAIN objs[o].runs, NEW STATE new, new \in RunType,
         SetRun(o, r, new), RunGoes(Run(o, r), new, store', version, aged'), store # NoStore => store' # NoStore,
         StoreShape(store', version, aged'), version' = version, aged \subseteq aged',
         UNCHANGED <<composer, picker>>
  PROVE  EmojiInv'
<1> DEFINE x == World.objs[o]
           y == [x EXCEPT !.runs[r] = new]
           v == WithObj(World, o, y)
<1>1. /\ WorldInv(World, store, version, aged, {}) /\ World \in WorldType /\ World.objs = objs
      /\ o \in DOMAIN World.objs /\ x \in ObjType /\ r \in DOMAIN x.runs /\ version \in Nat
  <2>1. World.objs = objs
    BY DEF World
  <2>2. World \in WorldType /\ WorldInv(World, store, version, aged, {}) /\ version \in Nat
    BY EmojiAssumption DEF EmojiInv, WorldInv, StoreShape
  <2> QED
    BY <2>1, <2>2, WorldObjects
<1>2. /\ y \in ObjType /\ y.tab = x.tab /\ y.ready = x.ready /\ y.db = x.db
      /\ DOMAIN y.runs = DOMAIN x.runs /\ Len(y.runs) = Len(x.runs)
      /\ \A q \in DOMAIN x.runs : y.runs[q] = IF q = r THEN new ELSE x.runs[q]
  <2> HIDE DEF x
  <2> QED
    BY <1>1, SetRunFacts
<1>3. [World EXCEPT !.objs[o].runs[r] = new] = v
  BY DEF WithObj
<1> HIDE DEF y
<1>4. SameBut(x, y, r) /\ y.runs[r] = new
  BY <1>1, <1>2 DEF SameBut
<1>5. RunGoes(x.runs[r], y.runs[r], store', version, aged')
  BY <1>1, <1>4 DEF Run
<1>a. x = World.objs[o]
  OBVIOUS
<1> HIDE DEF x
<1>b. WorldInv(World, store, version, aged', {})
  BY <1>1, StoreStep
<1>6. WorldInv(v, store', version, aged', {}) /\ Advances(World, v, {})
  BY ONLY <1>1, <1>b, <1>4, <1>5, <1>a, store # NoStore => store' # NoStore, WithObjStep
<1>7. World' = v
  <2>1. Become(v) /\ v \in WorldType
    BY <1>3, <1>6 DEF SetRun, WorldInv
  <2> HIDE DEF v
  <2> QED
    BY ONLY <2>1, BecomeFacts
<1> HIDE DEF v
<1> QED
  BY <1>6, <1>7, OnlyWorld

\* A run, and what is known of it
LEMMA RunFacts ==
  ASSUME EmojiInv, NEW o \in DOMAIN objs, NEW r \in DOMAIN objs[o].runs
  PROVE  LET run == Run(o, r) IN
         /\ run \in RunType /\ RunTags(run, version, aged) /\ (run.lazy # "none" => run.at = "ok")
         /\ run.tag \in Nat /\ run.data \in Nat
         /\ version \in Nat /\ 1 =< version /\ StoreShape(store, version, aged)
<1>1. World.objs = objs /\ World \in WorldType
  BY DEF World, EmojiInv, WorldInv
<1>2. objs[o].runs[r] \in RunType
  BY <1>1, WorldObjects
<1>3. RunTags(objs[o].runs[r], version, aged) /\ RunShape(objs[o].runs[r], World, objs[o].tab)
  BY <1>1 DEF EmojiInv, WorldInv, TagsShape, RunsShape
<1>4. version \in Nat /\ 1 =< version /\ StoreShape(store, version, aged)
  BY EmojiAssumption DEF EmojiInv, StoreShape
<1>5. objs[o].runs[r].tag \in Nat /\ objs[o].runs[r].data \in Nat
  BY <1>2 DEF RunType
<1> QED
  BY <1>2, <1>3, <1>4, <1>5 DEF Run, RunShape

\* What the store becomes by loadData(): something, no older than its eTag or from a
\* cache.
LEMMA LoadDataFacts ==
  ASSUME NEW run, NEW n \in Nat, NEW A, StoreShape(store, n, A), run \in RunType, RunTags(run, n, A),
         run.at = "store" \/ run.lazy = "store"
  PROVE  StoreShape(loadData(run), n, A) /\ loadData(run) # NoStore
<1>1. /\ run.tag \in Nat /\ run.data \in Nat /\ run.data =< n
      /\ 1 =< run.tag /\ 1 =< run.data /\ (run.tag =< run.data \/ run.data \in A)
  BY DEF RunType, RunTags
<1>2. store.tag = run.tag => store # NoStore
  BY <1>1 DEF NoStore
<1> DEFINE s == [tag |-> run.tag, data |-> run.data]
<1>3. StoreShape(s, n, A) /\ s # NoStore
  <2>1. s.tag = run.tag /\ s.data = run.data /\ s \in [tag : Nat, data : Nat] /\ NoStore.tag = 0
    BY <1>1 DEF NoStore
  <2> HIDE DEF s
  <2> QED
    BY <1>1, <2>1 DEF StoreShape
<1> QED
  BY <1>2, <1>3 DEF loadData

\* isEmpty(db) has answered.
LEMMA InitEmptyStep ==
  ASSUME EmojiInv, NEW o \in DOMAIN objs, NEW r \in DOMAIN objs[o].runs, InitEmpty(o, r)
  PROVE  EmojiInv'
<1> DEFINE run == Run(o, r)
<1>1. /\ run \in RunType /\ RunTags(run, version, aged) /\ (run.lazy # "none" => run.at = "ok")
      /\ run.tag \in Nat /\ run.data \in Nat
      /\ version \in Nat /\ 1 =< version /\ StoreShape(store, version, aged)
  BY RunFacts
<1>2. /\ run.at = "empty" /\ version' = version /\ aged' = aged /\ store' = store /\ UNCHANGED <<composer, picker>>
  BY DEF InitEmpty, Resting
<1>3. run.lazy = "none"
  BY <1>1, <1>2
<1>4. CASE SetRun(o, r, Ends(run, "failed"))
  <2> DEFINE new == Ends(run, "failed")
  <2>1. new \in RunType /\ new.at = "failed" /\ new.lazy = "none" /\ new.tag = 0 /\ new.data = 0
    <3> HIDE DEF run
    <3> QED
      BY <1>1, <1>3, EndsFacts
  <2>2. SetRun(o, r, new)
    BY <1>4
  <2> HIDE DEF new
  <2>3. RunGoes(run, new, store', version, aged')
    BY <1>1, <1>2, <2>1 DEF RunGoes, RunTags
  <2> QED
    BY <1>1, <1>2, <2>1, <2>2, <2>3, SetRunStep
<1>5. CASE SetRun(o, r, [run EXCEPT !.at = "fetch"])
  <2> DEFINE new == [run EXCEPT !.at = "fetch"]
  <2>1. new \in RunType /\ new.at = "fetch" /\ new.lazy = "none" /\ new.tag = run.tag /\ new.data = run.data
    <3> HIDE DEF run
    <3> QED
      BY <1>1, <1>3 DEF RunType
  <2>2. SetRun(o, r, new)
    BY <1>5
  <2> HIDE DEF new
  <2>3. RunGoes(run, new, store', version, aged')
    BY <1>1, <1>2, <2>1 DEF RunGoes, RunTags
  <2> QED
    BY <1>1, <1>2, <2>1, <2>2, <2>3, SetRunStep
<1>6. CASE /\ store # NoStore
           /\ Become([World EXCEPT !.objs[o] =
                [@ EXCEPT !.lazy = r, !.runs[r] = [run EXCEPT !.at = "ok", !.lazy = "head"]]])
  <2> DEFINE new == [run EXCEPT !.at = "ok", !.lazy = "head"]
             x == World.objs[o]
             u == [x EXCEPT !.lazy = r]
             y == [u EXCEPT !.runs[r] = new]
             v == WithObj(World, o, y)
  <2>1. new \in RunType /\ new.at = "ok" /\ new.lazy = "head" /\ new.tag = run.tag /\ new.data = run.data
    <3> HIDE DEF run
    <3> QED
      BY <1>1 DEF RunType
  <2> HIDE DEF new
  <2>2. RunGoes(run, new, store', version, aged')
    BY <1>1, <1>2, <1>6, <2>1 DEF RunGoes, RunTags
  <2>3. /\ WorldInv(World, store, version, aged, {}) /\ World \in WorldType /\ World.objs = objs
        /\ o \in DOMAIN World.objs /\ x \in ObjType /\ r \in DOMAIN x.runs /\ r \in Nat
        /\ x.runs[r] = run
    <3>1. World.objs = objs
      BY DEF World
    <3>2. World \in WorldType /\ WorldInv(World, store, version, aged, {})
      BY DEF EmojiInv, WorldInv
    <3> QED
      BY <3>1, <3>2, WorldObjects DEF Run
  <2>4. u \in ObjType /\ u.tab = x.tab /\ u.ready = x.ready /\ u.db = x.db /\ u.runs = x.runs
    <3> HIDE DEF x
    <3> QED
      BY <2>3 DEF ObjType
  <2>5. /\ y \in ObjType /\ y.tab = u.tab /\ y.ready = u.ready /\ y.db = u.db
        /\ DOMAIN y.runs = DOMAIN u.runs /\ Len(y.runs) = Len(u.runs)
        /\ \A q \in DOMAIN u.runs : y.runs[q] = IF q = r THEN new ELSE u.runs[q]
    <3> HIDE DEF u
    <3> QED
      BY <2>1, <2>3, <2>4, SetRunFacts
  <2>6. Become(v)
    BY <1>6, <2>3 DEF WithObj, new, ObjType
  <2> HIDE DEF y, u
  <2>7. SameBut(x, y, r) /\ y.runs[r] = new
    BY <2>3, <2>4, <2>5 DEF SameBut
  <2>8. RunGoes(x.runs[r], y.runs[r], store', version, aged) /\ x = World.objs[o] /\ (store # NoStore => store' # NoStore)
    BY <1>2, <2>2, <2>3, <2>7
  <2> HIDE DEF x
  <2>9. WorldInv(v, store', version, aged, {}) /\ Advances(World, v, {})
    BY ONLY <1>1, <2>3, <2>7, <2>8, WithObjStep
  <2>10. World' = v
    <3>1. v \in WorldType
      BY <2>9 DEF WorldInv
    <3> HIDE DEF v
    <3> QED
      BY ONLY <2>6, <3>1, BecomeFacts
  <2> HIDE DEF v
  <2> QED
    BY <1>1, <1>2, <2>9, <2>10, OnlyWorld
<1> QED
  BY <1>4, <1>5, <1>6 DEF InitEmpty, isEmpty

\* The data has come, or not.
LEMMA InitFetchedStep ==
  ASSUME EmojiInv, NEW o \in DOMAIN objs, NEW r \in DOMAIN objs[o].runs, NEW ok \in BOOLEAN, InitFetched(o, r, ok)
  PROVE  EmojiInv'
<1> DEFINE run == Run(o, r)
<1>1. /\ run \in RunType /\ RunTags(run, version, aged) /\ (run.lazy # "none" => run.at = "ok")
      /\ run.tag \in Nat /\ run.data \in Nat
      /\ version \in Nat /\ 1 =< version /\ StoreShape(store, version, aged)
  BY RunFacts
<1>2. /\ run.at = "fetch" /\ version' = version /\ aged' = aged /\ store' = store /\ UNCHANGED <<composer, picker>>
  BY DEF InitFetched, Resting
<1>3. CASE ok
  <2>0. PICK v \in Answers : SetRun(o, r, [run EXCEPT !.at = "store", !.tag = v, !.data = v])
    BY <1>3 DEF InitFetched
  <2>v. v \in Nat /\ 1 =< v /\ v =< version
    BY <1>1 DEF Answers
  <2> DEFINE new == [run EXCEPT !.at = "store", !.tag = v, !.data = v]
  <2>1. new \in RunType /\ new.at = "store" /\ new.lazy = "none" /\ new.tag = v /\ new.data = v
    <3> HIDE DEF run
    <3> QED
      BY <1>1, <1>2, <2>v DEF RunType
  <2>2. SetRun(o, r, new)
    BY <2>0
  <2> HIDE DEF new
  <2>3. RunGoes(run, new, store', version, aged')
    BY <1>1, <1>2, <2>1, <2>v DEF RunGoes, RunTags
  <2> QED
    BY <1>1, <1>2, <2>1, <2>2, <2>3, SetRunStep
<1>4. CASE ~ ok
  <2> DEFINE new == Ends(run, "failed")
  <2>1. new \in RunType /\ new.at = "failed" /\ new.lazy = "none" /\ new.tag = 0 /\ new.data = 0
    <3> HIDE DEF run
    <3> QED
      BY <1>1, <1>2, EndsFacts
  <2>2. SetRun(o, r, new)
    BY <1>4 DEF InitFetched
  <2> HIDE DEF new
  <2>3. RunGoes(run, new, store', version, aged')
    BY <1>1, <1>2, <2>1 DEF RunGoes, RunTags
  <2> QED
    BY <1>1, <1>2, <2>1, <2>2, <2>3, SetRunStep
<1> QED
  BY <1>3, <1>4

\* The eTag has come, or not.
LEMMA LazyHeadStep ==
  ASSUME EmojiInv, NEW o \in DOMAIN objs, NEW r \in DOMAIN objs[o].runs, NEW ok \in BOOLEAN, LazyHead(o, r, ok)
  PROVE  EmojiInv'
<1> DEFINE run == Run(o, r)
<1>1. /\ run \in RunType /\ RunTags(run, version, aged) /\ (run.lazy # "none" => run.at = "ok")
      /\ run.tag \in Nat /\ run.data \in Nat
      /\ version \in Nat /\ 1 =< version /\ StoreShape(store, version, aged)
  BY RunFacts
<1>2. /\ run.lazy = "head" /\ version' = version /\ aged' = aged /\ store' = store /\ UNCHANGED <<composer, picker>>
  BY DEF LazyHead, Resting
<1>3. CASE ok
  <2>0. PICK v \in Answers : SetRun(o, r, [run EXCEPT !.lazy = "has", !.tag = v])
    BY <1>3 DEF LazyHead
  <2>v. v \in Nat /\ 1 =< v /\ v =< version
    BY <1>1 DEF Answers
  <2> DEFINE new == [run EXCEPT !.lazy = "has", !.tag = v]
  <2>1. new \in RunType /\ new.at = "ok" /\ new.lazy = "has" /\ new.tag = v /\ new.data = run.data
    <3> HIDE DEF run
    <3> QED
      BY <1>1, <1>2, <2>v DEF RunType
  <2>2. SetRun(o, r, new)
    BY <2>0
  <2> HIDE DEF new
  <2>3. RunGoes(run, new, store', version, aged')
    BY <1>1, <1>2, <2>1, <2>v DEF RunGoes, RunTags
  <2> QED
    BY <1>1, <1>2, <2>1, <2>2, <2>3, SetRunStep
<1>4. CASE ~ ok
  <2> DEFINE new == LazyEnds(run, "failed")
  <2>1. new \in RunType /\ new.at = "ok" /\ new.lazy = "failed" /\ new.tag = 0 /\ new.data = 0
    <3> HIDE DEF run
    <3> QED
      BY <1>1, <1>2, EndsFacts
  <2>2. SetRun(o, r, new)
    BY <1>4 DEF LazyHead
  <2> HIDE DEF new
  <2>3. RunGoes(run, new, store', version, aged')
    BY <1>1, <1>2, <2>1 DEF RunGoes, RunTags
  <2> QED
    BY <1>1, <1>2, <2>1, <2>2, <2>3, SetRunStep
<1> QED
  BY <1>3, <1>4

\* The update has looked for its eTag in the store.
LEMMA LazyHasStep ==
  ASSUME EmojiInv, NEW o \in DOMAIN objs, NEW r \in DOMAIN objs[o].runs, LazyHas(o, r)
  PROVE  EmojiInv'
<1> DEFINE run == Run(o, r)
<1>1. /\ run \in RunType /\ RunTags(run, version, aged) /\ (run.lazy # "none" => run.at = "ok")
      /\ run.tag \in Nat /\ run.data \in Nat
      /\ version \in Nat /\ 1 =< version /\ StoreShape(store, version, aged)
  BY RunFacts
<1>2. /\ run.lazy = "has" /\ version' = version /\ aged' = aged /\ store' = store /\ UNCHANGED <<composer, picker>>
  BY DEF LazyHas, Resting
<1>3. CASE ~ Usable(o, r)
  <2> DEFINE new == LazyEnds(run, "failed")
  <2>1. new \in RunType /\ new.at = "ok" /\ new.lazy = "failed" /\ new.tag = 0 /\ new.data = 0
    <3> HIDE DEF run
    <3> QED
      BY <1>1, <1>2, EndsFacts
  <2>2. SetRun(o, r, new)
    BY <1>3 DEF LazyHas
  <2> HIDE DEF new
  <2>3. RunGoes(run, new, store', version, aged')
    BY <1>1, <1>2, <2>1 DEF RunGoes, RunTags
  <2> QED
    BY <1>1, <1>2, <2>1, <2>2, <2>3, SetRunStep
<1>4. CASE Usable(o, r) /\ hasData(run.tag)
  <2> DEFINE new == LazyEnds(run, "ok")
  <2>1. new \in RunType /\ new.at = "ok" /\ new.lazy = "ok" /\ new.tag = 0 /\ new.data = 0
    <3> HIDE DEF run
    <3> QED
      BY <1>1, <1>2, EndsFacts
  <2>2. SetRun(o, r, new)
    BY <1>4 DEF LazyHas
  <2> HIDE DEF new
  <2>3. RunGoes(run, new, store', version, aged')
    BY <1>1, <1>2, <2>1 DEF RunGoes, RunTags
  <2> QED
    BY <1>1, <1>2, <2>1, <2>2, <2>3, SetRunStep
<1>5. CASE Usable(o, r) /\ ~ hasData(run.tag)
  <2> DEFINE new == [run EXCEPT !.lazy = "get"]
  <2>1. new \in RunType /\ new.at = "ok" /\ new.lazy = "get" /\ new.tag = run.tag /\ new.data = run.data
    <3> HIDE DEF run
    <3> QED
      BY <1>1, <1>2 DEF RunType
  <2>2. SetRun(o, r, new)
    BY <1>5 DEF LazyHas
  <2> HIDE DEF new
  <2>3. RunGoes(run, new, store', version, aged')
    BY <1>1, <1>2, <2>1 DEF RunGoes, RunTags
  <2> QED
    BY <1>1, <1>2, <2>1, <2>2, <2>3, SetRunStep
<1> QED
  BY <1>3, <1>4, <1>5

\* The new data have come, or not: they are no older than the eTag that was asked for
\* before, or from a cache.
LEMMA LazyGetStep ==
  ASSUME EmojiInv, NEW o \in DOMAIN objs, NEW r \in DOMAIN objs[o].runs, NEW ok \in BOOLEAN, LazyGet(o, r, ok)
  PROVE  EmojiInv'
<1> DEFINE run == Run(o, r)
<1>1. /\ run \in RunType /\ RunTags(run, version, aged) /\ (run.lazy # "none" => run.at = "ok")
      /\ run.tag \in Nat /\ run.data \in Nat
      /\ version \in Nat /\ 1 =< version /\ StoreShape(store, version, aged)
  BY RunFacts
<1>2. /\ run.lazy = "get" /\ version' = version /\ store' = store /\ UNCHANGED <<composer, picker>>
  BY DEF LazyGet
<1>3. CASE ok
  <2>0. PICK v \in Answers :
          /\ SetRun(o, r, [run EXCEPT !.lazy = "store", !.data = v])
          /\ aged' = IF v = version THEN aged ELSE aged \cup {v}
    BY <1>3 DEF LazyGet
  <2>v. /\ v \in Nat /\ 1 =< v /\ v =< version
        /\ aged \subseteq aged' /\ (v = version \/ v \in aged')
    BY <1>1, <2>0 DEF Answers
  <2>s. StoreShape(store', version, aged')
    BY <1>1, <1>2, <2>v DEF StoreShape
  <2> DEFINE new == [run EXCEPT !.lazy = "store", !.data = v]
  <2>1. new \in RunType /\ new.at = "ok" /\ new.lazy = "store" /\ new.tag = run.tag /\ new.data = v
    <3> HIDE DEF run
    <3> QED
      BY <1>1, <1>2, <2>v DEF RunType
  <2>2. SetRun(o, r, new)
    BY <2>0
  <2> HIDE DEF new
  <2>3. RunGoes(run, new, store', version, aged')
    BY <1>1, <1>2, <2>1, <2>v DEF RunGoes, RunTags
  <2> QED
    BY <1>1, <1>2, <2>1, <2>2, <2>3, <2>s, <2>v, SetRunStep
<1>4. CASE ~ ok
  <2> DEFINE new == LazyEnds(run, "failed")
  <2>1. new \in RunType /\ new.at = "ok" /\ new.lazy = "failed" /\ new.tag = 0 /\ new.data = 0
    <3> HIDE DEF run
    <3> QED
      BY <1>1, <1>2, EndsFacts
  <2>2. SetRun(o, r, new) /\ aged' = aged
    BY <1>4 DEF LazyGet
  <2> HIDE DEF new
  <2>3. RunGoes(run, new, store', version, aged')
    BY <1>1, <1>2, <2>1, <2>2 DEF RunGoes, RunTags
  <2> QED
    BY <1>1, <1>2, <2>1, <2>2, <2>3, SetRunStep
<1> QED
  BY <1>3, <1>4

\* The data is stored, or the connection was lost.
LEMMA InitStoredStep ==
  ASSUME EmojiInv, NEW o \in DOMAIN objs, NEW r \in DOMAIN objs[o].runs, InitStored(o, r)
  PROVE  EmojiInv'
<1> DEFINE run == Run(o, r)
<1>1. /\ run \in RunType /\ RunTags(run, version, aged) /\ (run.lazy # "none" => run.at = "ok")
      /\ run.tag \in Nat /\ run.data \in Nat
      /\ version \in Nat /\ 1 =< version /\ StoreShape(store, version, aged)
  BY RunFacts
<1>2. /\ run.at = "store" /\ version' = version /\ aged' = aged /\ UNCHANGED <<composer, picker>>
  BY DEF InitStored, Resting
<1>4. StoreShape(loadData(run), version, aged) /\ loadData(run) # NoStore
  <2> HIDE DEF run
  <2> QED
    BY <1>1, <1>2, LoadDataFacts
<1>5. CASE Usable(o, r)
  <2> DEFINE new == Ends(run, "ok")
  <2>1. new \in RunType /\ new.at = "ok" /\ new.lazy = "none" /\ new.tag = 0 /\ new.data = 0
    <3> HIDE DEF run
    <3> QED
      BY <1>1, <1>2, EndsFacts
  <2>2. SetRun(o, r, new) /\ store' = loadData(run)
    BY <1>5 DEF InitStored
  <2> HIDE DEF new
  <2>3. StoreShape(store', version, aged') /\ (store # NoStore => store' # NoStore)
    BY <1>1, <1>2, <1>4, <2>2
  <2>4. RunGoes(run, new, store', version, aged')
    BY <1>1, <1>2, <1>4, <2>1, <2>2 DEF RunGoes, RunTags
  <2> QED
    BY <1>1, <1>2, <2>1, <2>2, <2>3, <2>4, SetRunStep
<1>6. CASE ~ Usable(o, r)
  <2> DEFINE new == Ends(run, "failed")
  <2>1. new \in RunType /\ new.at = "failed" /\ new.lazy = "none" /\ new.tag = 0 /\ new.data = 0
    <3> HIDE DEF run
    <3> QED
      BY <1>1, <1>2, EndsFacts
  <2>2. SetRun(o, r, new) /\ store' = store
    BY <1>6 DEF InitStored
  <2> HIDE DEF new
  <2>3. StoreShape(store', version, aged') /\ (store # NoStore => store' # NoStore)
    BY <1>1, <1>2, <1>4, <2>2
  <2>4. RunGoes(run, new, store', version, aged')
    BY <1>1, <1>2, <1>4, <2>1, <2>2 DEF RunGoes, RunTags
  <2> QED
    BY <1>1, <1>2, <2>1, <2>2, <2>3, <2>4, SetRunStep
<1> QED
  BY <1>5, <1>6

\* So it is after an update.
LEMMA LazyStoredStep ==
  ASSUME EmojiInv, NEW o \in DOMAIN objs, NEW r \in DOMAIN objs[o].runs, LazyStored(o, r)
  PROVE  EmojiInv'
<1> DEFINE run == Run(o, r)
<1>1. /\ run \in RunType /\ RunTags(run, version, aged) /\ (run.lazy # "none" => run.at = "ok")
      /\ run.tag \in Nat /\ run.data \in Nat
      /\ version \in Nat /\ 1 =< version /\ StoreShape(store, version, aged)
  BY RunFacts
<1>2. /\ run.lazy = "store" /\ version' = version /\ aged' = aged /\ UNCHANGED <<composer, picker>>
  BY DEF LazyStored, Resting
<1>4. StoreShape(loadData(run), version, aged) /\ loadData(run) # NoStore
  <2> HIDE DEF run
  <2> QED
    BY <1>1, <1>2, LoadDataFacts
<1>5. CASE Usable(o, r)
  <2> DEFINE new == LazyEnds(run, "ok")
  <2>1. new \in RunType /\ new.at = "ok" /\ new.lazy = "ok" /\ new.tag = 0 /\ new.data = 0
    <3> HIDE DEF run
    <3> QED
      BY <1>1, <1>2, EndsFacts
  <2>2. SetRun(o, r, new) /\ store' = loadData(run)
    BY <1>5 DEF LazyStored
  <2> HIDE DEF new
  <2>3. StoreShape(store', version, aged') /\ (store # NoStore => store' # NoStore)
    BY <1>1, <1>2, <1>4, <2>2
  <2>4. RunGoes(run, new, store', version, aged')
    BY <1>1, <1>2, <1>4, <2>1, <2>2 DEF RunGoes, RunTags
  <2> QED
    BY <1>1, <1>2, <2>1, <2>2, <2>3, <2>4, SetRunStep
<1>6. CASE ~ Usable(o, r)
  <2> DEFINE new == LazyEnds(run, "failed")
  <2>1. new \in RunType /\ new.at = "ok" /\ new.lazy = "failed" /\ new.tag = 0 /\ new.data = 0
    <3> HIDE DEF run
    <3> QED
      BY <1>1, <1>2, EndsFacts
  <2>2. SetRun(o, r, new) /\ store' = store
    BY <1>6 DEF LazyStored
  <2> HIDE DEF new
  <2>3. StoreShape(store', version, aged') /\ (store # NoStore => store' # NoStore)
    BY <1>1, <1>2, <1>4, <2>2
  <2>4. RunGoes(run, new, store', version, aged')
    BY <1>1, <1>2, <1>4, <2>1, <2>2 DEF RunGoes, RunTags
  <2> QED
    BY <1>1, <1>2, <2>1, <2>2, <2>3, <2>4, SetRunStep
<1> QED
  BY <1>5, <1>6

-----------------------------------------------------------------------------
(* The browser *)

\* What every step starts from
LEMMA StateFacts ==
  ASSUME EmojiInv
  PROVE  /\ WorldInv(World, store, version, aged, {}) /\ World \in WorldType /\ StoreShape(store, version, aged)
         /\ version \in Nat /\ World.objs = objs /\ World.conns = conns
         /\ World.cache = cache /\ World.listeners = listeners
BY EmojiAssumption DEF EmojiInv, WorldInv, StoreShape, World

\* The program is updated on the server.
LEMMA DeployStep ==
  ASSUME EmojiInv, Deploy
  PROVE  EmojiInv'
<1>1. World' = World
  BY StateFacts, BecomeFacts DEF Deploy
<1>2. /\ version' = version + 1 /\ version < Len(Data) /\ aged' = aged /\ store' = store /\ UNCHANGED <<composer, picker>>
      /\ version \in Nat
  BY StateFacts DEF Deploy
<1>3. StoreShape(store', version', aged')
  <2>1. StoreShape(store, version, aged) /\ store.data \in Nat
    BY StateFacts DEF StoreShape
  <2> QED
    BY <1>2, <2>1, EmojiAssumption DEF StoreShape
<1>4. WorldInv(World, store', version', aged', {})
  <2>1. WorldInv(World, store, version, aged, {}) /\ version \in Nat /\ version' \in Nat /\ version =< version'
    BY <1>2, StateFacts
  <2>2. aged \subseteq aged' /\ (store # NoStore => store' # NoStore)
    BY <1>2
  <2> QED
    BY ONLY <2>1, <2>2, StoreStep
<1>5. Advances(World, World', {})
  BY <1>1, AdvancesNot
<1> QED
  BY <1>1, <1>2, <1>3, <1>4, <1>5, OnlyWorld

\* A world with other connections
WithConns(w, cs) == [w EXCEPT !.conns = cs]

\* Its other parts stay.
LEMMA WithConnsFacts ==
  ASSUME NEW w, w \in WorldType, NEW cs \in Seq(ConnType)
  PROVE  LET v == WithConns(w, cs) IN
         /\ v \in WorldType /\ v.objs = w.objs /\ v.conns = cs /\ v.cache = w.cache
         /\ v.listeners = w.listeners
BY DEF WithConns, WorldType

\* A connection in another state
LEMMA ConnStateFacts ==
  ASSUME NEW d, d \in ConnType, NEW st \in {"pending", "open", "rejected", "lost", "closed"}
  PROVE  LET e == [d EXCEPT !.state = st] IN e \in ConnType /\ e.tab = d.tab /\ e.state = st
BY DEF ConnType

\* The connections of all tabs are lost with the store.
LEMMA StoreClearedStep ==
  ASSUME EmojiInv, StoreCleared
  PROVE  EmojiInv'
<1> DEFINE cs == [c \in DOMAIN conns |-> IF conns[c].state = "open" THEN [conns[c] EXCEPT !.state = "lost"]
                                         ELSE conns[c]]
           v == WithConns(World, cs)
<1>1. Become(v) /\ store' = NoStore /\ version' = version /\ aged' = aged /\ UNCHANGED <<composer, picker>>
  BY DEF StoreCleared, World, WithConns
<1>2. /\ DOMAIN conns = 1 .. Len(conns) /\ Len(conns) \in Nat /\ conns \in Seq(ConnType)
      /\ \A c \in DOMAIN conns : conns[c] \in ConnType
  BY StateFacts, WorldConns, WorldFields
<1>3. ASSUME NEW c \in DOMAIN conns
      PROVE  /\ cs[c] \in ConnType /\ cs[c].tab = conns[c].tab
             /\ cs[c].state = IF conns[c].state = "open" THEN "lost" ELSE conns[c].state
  <2> DEFINE d == conns[c]
  <2>1. LET e == [d EXCEPT !.state = "lost"] IN e \in ConnType /\ e.tab = d.tab /\ e.state = "lost"
    <3>1. d \in ConnType
      BY <1>2
    <3> HIDE DEF d
    <3> QED
      BY <3>1 DEF ConnType
  <2> QED
    BY <1>2, <2>1
<1>4. cs \in Seq(ConnType) /\ DOMAIN cs = DOMAIN conns
  <2>1. cs = [c \in DOMAIN conns |-> cs[c]]
    OBVIOUS
  <2> HIDE DEF cs
  <2> QED
    BY <1>2, <1>3, <2>1, MapFacts
<1> HIDE DEF cs
<1>5. /\ v \in WorldType /\ v.objs = World.objs /\ v.conns = cs /\ v.cache = World.cache
      /\ v.listeners = World.listeners
  BY <1>4, StateFacts, WithConnsFacts
<1> HIDE DEF v
<1>6. World' = v
  BY ONLY <1>1, <1>5, BecomeFacts
<1>7. \A c \in DOMAIN World.conns :
        /\ v.conns[c].tab = World.conns[c].tab
        /\ Live(v.conns[c]) => Live(World.conns[c])
        /\ v.conns[c].state \in {"pending", "rejected"} => World.conns[c].state \in {"pending", "rejected"}
        /\ World.conns[c].state \in {"closed", "lost"} => v.conns[c].state \in {"closed", "lost"}
  BY <1>3, <1>5, StateFacts DEF Live
<1>8. DOMAIN v.conns = DOMAIN World.conns /\ \A c \in DOMAIN v.conns : v.conns[c].state # "open"
  BY <1>3, <1>4, <1>5, StateFacts
<1>9. WorldInv(v, NoStore, version, aged, {}) /\ Advances(World, v, {})
  BY <1>5, <1>7, <1>8, StateFacts, ConnsStep
<1>10. StoreShape(NoStore, version, aged)
  BY StateFacts DEF StoreShape, NoStore
<1> QED
  BY <1>1, <1>6, <1>9, <1>10, OnlyWorld

\* One connection changes its state.
WithState(w, c, st) == [w EXCEPT !.conns[c].state = st]

\* The connection keeps its tab; the rest of the world stays.
LEMMA WithStateFacts ==
  ASSUME NEW w, w \in WorldType, NEW c \in DOMAIN w.conns,
         NEW st \in {"pending", "open", "rejected", "lost", "closed"}
  PROVE  LET v == WithState(w, c, st) IN
         /\ v \in WorldType /\ v.objs = w.objs /\ v.cache = w.cache /\ v.listeners = w.listeners
         /\ DOMAIN v.conns = DOMAIN w.conns /\ v.conns[c].tab = w.conns[c].tab /\ v.conns[c].state = st
         /\ \A d \in DOMAIN w.conns : d # c => v.conns[d] = w.conns[d]
<1> DEFINE v == WithState(w, c, st)
           d == w.conns[c]
           e == [d EXCEPT !.state = st]
           cs == [w.conns EXCEPT ![c] = e]
<1>1. w.conns \in Seq(ConnType) /\ d \in ConnType
  BY WorldFields, WorldConns
<1>2. e \in ConnType /\ e.tab = d.tab /\ e.state = st
  <2> HIDE DEF d
  <2> QED
    BY <1>1, ConnStateFacts
<1>3. v = WithConns(w, cs)
  BY DEF WithState, WithConns
<1> HIDE DEF e
<1>4. /\ cs \in Seq(ConnType) /\ DOMAIN cs = DOMAIN w.conns
      /\ \A q \in DOMAIN w.conns : cs[q] = IF q = c THEN e ELSE w.conns[q]
  BY <1>1, <1>2, ReplaceFacts
<1> HIDE DEF cs, v
<1>5. /\ v \in WorldType /\ v.objs = w.objs /\ v.conns = cs /\ v.cache = w.cache
      /\ v.listeners = w.listeners
  BY <1>3, <1>4, WithConnsFacts
<1> QED
  BY <1>2, <1>4, <1>5 DEF v

\* The request for a connection is answered.
LEMMA OpenedStep ==
  ASSUME EmojiInv, NEW c \in DOMAIN conns, NEW ok \in BOOLEAN, Opened(c, ok)
  PROVE  EmojiInv'
<1> DEFINE st == IF ok THEN "open" ELSE "rejected"
           w == WithState(World, c, st)
           S == {o \in DOMAIN objs : objs[o].ready # 0 /\ Run(o, objs[o].ready).at = "open"
                                      /\ Run(o, objs[o].ready).conn = c}
           v == InitOpened(w, S, c)
<1>1. /\ Become(v) /\ conns[c].state = "pending" /\ version' = version /\ aged' = aged /\ store' = store
      /\ UNCHANGED <<composer, picker>>
  BY DEF Opened, WithState
<1>2. st \in {"open", "rejected"}
  OBVIOUS
<1> HIDE DEF st
<1>3. \A o \in S : o \in DOMAIN World.objs /\ AwaitsConn(World.objs[o], c)
  BY StateFacts DEF AwaitsConn, Run
<1> HIDE DEF S
<1>4. /\ w \in WorldType /\ w.objs = World.objs /\ w.cache = World.cache /\ w.listeners = World.listeners
      /\ DOMAIN w.conns = DOMAIN World.conns /\ w.conns[c].tab = World.conns[c].tab /\ w.conns[c].state = st
      /\ \A d \in DOMAIN World.conns : d # c => w.conns[d] = World.conns[d]
  BY <1>2, StateFacts, WithStateFacts
<1> HIDE DEF w
<1>5. WorldInv(w, store, version, aged, {}) /\ Advances(World, w, {})
  <2>1. \A d \in DOMAIN World.conns :
          /\ w.conns[d].tab = World.conns[d].tab
          /\ Live(w.conns[d]) => Live(World.conns[d])
          /\ w.conns[d].state \in {"pending", "rejected"} => World.conns[d].state \in {"pending", "rejected"}
          /\ World.conns[d].state \in {"closed", "lost"} => w.conns[d].state \in {"closed", "lost"}
    BY <1>1, <1>2, <1>4, StateFacts DEF Live
  <2> QED
    BY <1>4, <2>1, StateFacts, ConnsStep
<1>6. WorldInv(v, store, version, aged, {}) /\ Advances(w, v, {})
  <2>1. /\ S \in SUBSET DOMAIN w.objs /\ c \in DOMAIN w.conns
        /\ \A o \in S : AwaitsConn(w.objs[o], c)
    BY <1>3, <1>4, StateFacts
  <2>2. version \in Nat
    BY StateFacts
  <2> QED
    BY ONLY <1>5, <2>1, <2>2, InitOpenedInv
<1> HIDE DEF v
<1>7. v \in WorldType
  BY <1>6 DEF WorldInv
<1>8. Advances(World, v, {})
  BY <1>4, <1>5, <1>6, <1>7, StateFacts, AdvancesTwice
<1>9. World' = v
  BY ONLY <1>1, <1>7, BecomeFacts
<1> QED
  BY <1>1, <1>6, <1>8, <1>9, StateFacts, OnlyWorld

\* The event of a lost connection
LEMMA OnCloseStep ==
  ASSUME EmojiInv, NEW c \in DOMAIN conns, OnClose(c)
  PROVE  EmojiInv'
<1> DEFINE w == closeDatabase(World, conns[c].tab)
           v == WithState(w, c, "closed")
<1>1. /\ Become(v) /\ conns[c].state = "lost" /\ version' = version /\ aged' = aged /\ store' = store
      /\ UNCHANGED <<composer, picker>>
  BY DEF OnClose, WithState
<1>2. conns[c].tab \in Tabs
  BY StateFacts, WorldConns
<1>3. /\ WorldInv(w, store, version, aged, {}) /\ Advances(World, w, {})
      /\ DOMAIN w.objs = DOMAIN World.objs /\ DOMAIN w.conns = DOMAIN World.conns
      /\ \A d \in DOMAIN World.conns : World.conns[d].state = "lost" => w.conns[d] = World.conns[d]
  BY <1>2, StateFacts, CloseDatabaseInv
<1> HIDE DEF w
<1>4. w \in WorldType /\ c \in DOMAIN w.conns /\ w.conns[c].state = "lost"
  BY <1>1, <1>3, StateFacts DEF WorldInv
<1>5. /\ v \in WorldType /\ v.objs = w.objs /\ v.cache = w.cache /\ v.listeners = w.listeners
      /\ DOMAIN v.conns = DOMAIN w.conns /\ v.conns[c].tab = w.conns[c].tab /\ v.conns[c].state = "closed"
      /\ \A d \in DOMAIN w.conns : d # c => v.conns[d] = w.conns[d]
  BY <1>4, WithStateFacts
<1> HIDE DEF v
<1>6. \A d \in DOMAIN w.conns :
        /\ v.conns[d].tab = w.conns[d].tab
        /\ Live(v.conns[d]) => Live(w.conns[d])
        /\ v.conns[d].state \in {"pending", "rejected"} => w.conns[d].state \in {"pending", "rejected"}
        /\ w.conns[d].state \in {"closed", "lost"} => v.conns[d].state \in {"closed", "lost"}
  BY <1>4, <1>5 DEF Live
<1>7. WorldInv(v, store, version, aged, {}) /\ Advances(w, v, {})
  BY <1>3, <1>5, <1>6, StateFacts, ConnsStep
<1>8. Advances(World, v, {})
  BY <1>3, <1>4, <1>5, <1>7, StateFacts, AdvancesTwice
<1>9. World' = v
  BY ONLY <1>1, <1>5, BecomeFacts
<1> QED
  BY <1>1, <1>7, <1>8, <1>9, StateFacts, OnlyWorld

-----------------------------------------------------------------------------
(* The picker *)

\* A step of the picker, in which the composers do nothing
LEMMA OnlyPicker ==
  ASSUME EmojiInv, WorldInv(World', store, version, aged, {}), Advances(World, World', {}),
         UNCHANGED <<version, aged, store, composer>>, PickerShape(picker', World')
  PROVE  EmojiInv'
<1>1. \A t \in Tabs : ComposerShape(composer[t], t, World')
  BY ComposerKept DEF EmojiInv, WorldInv
<1> QED
  BY <1>1 DEF EmojiInv

\* The picker, and an object of it
LEMMA PickerFacts ==
  ASSUME EmojiInv
  PROVE  /\ picker.shown \in BOOLEAN /\ picker.at \in {"idle", "ready", "again", "lazy"}
         /\ picker.obj \in Nat /\ picker.run \in Nat /\ picker.left \in Nat
         /\ picker.obj # 0 => picker.obj \in DOMAIN objs
         /\ picker.shown \/ picker.at # "idle" => picker.obj # 0
         /\ picker \in [shown : BOOLEAN, at : {"idle", "ready", "again", "lazy"}, obj : Nat, run : Nat, left : Nat]
<1>1. PickerShape(picker, World) /\ World.objs = objs
  BY DEF EmojiInv, World
<1>2. ASSUME NEW p, p \in [shown : BOOLEAN, at : {"idle", "ready", "again", "lazy"}, obj : Nat, run : Nat, left : Nat]
      PROVE  /\ p.shown \in BOOLEAN /\ p.at \in {"idle", "ready", "again", "lazy"}
             /\ p.obj \in Nat /\ p.run \in Nat /\ p.left \in Nat
  BY <1>2
<1> QED
  BY <1>1, <1>2 DEF PickerShape

\* The picker comes into the page.
LEMMA PickerEntersStep ==
  ASSUME EmojiInv, PickerEnters
  PROVE  EmojiInv'
<1> DEFINE w == NewObject(World, PickerTab)
           o == Len(World.objs) + 1
<1>1. /\ Become(w) /\ picker' = [picker EXCEPT !.shown = TRUE, !.obj = Len(w.objs)]
      /\ UNCHANGED <<version, aged, store, composer>>
  BY DEF PickerEnters
<1>2. PickerTab \in Tabs
  BY EmojiAssumption
<1>3. /\ WorldInv(w, store, version, aged, {}) /\ Advances(World, w, {})
      /\ DOMAIN w.objs = DOMAIN World.objs \cup {o} /\ Len(w.objs) = o
  <2>1. WorldInv(World, store, version, aged, {}) /\ version \in Nat
    BY StateFacts
  <2>2. LET v == NewObject(World, PickerTab)
            q == Len(World.objs) + 1 IN
        /\ WorldInv(v, store, version, aged, {}) /\ Advances(World, v, {})
        /\ DOMAIN v.objs = DOMAIN World.objs \cup {q} /\ Len(v.objs) = q
        /\ v.objs[q].tab = PickerTab
        /\ ~ BrokenIn(v, PickerTab) => v.objs[q].ready = 1
    BY ONLY <1>2, <2>1, NewObjectInv
  <2> QED
    BY <2>2
<1> HIDE DEF w
<1>4. World' = w
  BY <1>1, <1>3, BecomeFacts DEF WorldInv
<1>5. o \in Nat /\ o # 0
  BY StateFacts, WorldFields
<1> HIDE DEF o
<1>6. PickerShape(picker', w)
  BY <1>1, <1>3, <1>5, PickerFacts DEF PickerShape
<1> QED
  BY <1>1, <1>3, <1>4, <1>6, OnlyPicker

\* The picker's element is back.
LEMMA PickerReturnsStep ==
  ASSUME EmojiInv, PickerReturns
  PROVE  EmojiInv'
<1> DEFINE v == CheckReady(World, picker.obj)
<1>1. /\ Become(v) /\ picker' = [picker EXCEPT !.shown = TRUE] /\ UNCHANGED <<version, aged, store, composer>>
      /\ picker.at # "idle"
  BY DEF PickerReturns
<1>2. picker.obj \in DOMAIN World.objs /\ picker.obj # 0
  BY <1>1, PickerFacts, StateFacts
<1>3. WorldInv(v, store, version, aged, {}) /\ Advances(World, v, {}) /\ DOMAIN v.objs = DOMAIN World.objs
  BY <1>2, StateFacts, CheckReadyStep
<1> HIDE DEF v
<1>4. World' = v
  BY <1>1, <1>3, BecomeFacts DEF WorldInv
<1>5. PickerShape(picker', v)
  <2> DEFINE p == [picker EXCEPT !.shown = TRUE]
  <2>1. /\ p \in [shown : BOOLEAN, at : {"idle", "ready", "again", "lazy"}, obj : Nat, run : Nat, left : Nat]
        /\ p.obj = picker.obj
    BY PickerFacts
  <2>2. picker' = p
    BY <1>1
  <2> HIDE DEF p
  <2> QED
    BY <1>2, <1>3, <2>1, <2>2 DEF PickerShape
<1> QED
  BY <1>1, <1>3, <1>4, <1>5, OnlyPicker

\* The picker leaves the page.
LEMMA PickerLeavesStep ==
  ASSUME EmojiInv, PickerLeaves
  PROVE  EmojiInv'
<1> DEFINE v == CheckReady(World, picker.obj)
           k == v.objs[picker.obj].ready
<1>1. /\ Become(v) /\ UNCHANGED <<version, aged, store, composer>> /\ picker.shown
      /\ picker' = [picker EXCEPT !.shown = FALSE, !.at = "ready", !.left = picker.left + 1, !.run = k]
  BY DEF PickerLeaves
<1>2. picker.obj \in DOMAIN World.objs /\ picker.obj # 0
  BY <1>1, PickerFacts, StateFacts
<1>3. WorldInv(v, store, version, aged, {}) /\ Advances(World, v, {}) /\ DOMAIN v.objs = DOMAIN World.objs
  BY <1>2, StateFacts, CheckReadyStep
<1> HIDE DEF v
<1>4. World' = v
  BY <1>1, <1>3, BecomeFacts DEF WorldInv
<1>5. k \in Nat
  BY <1>2, <1>3, WorldObjects DEF WorldInv
<1> HIDE DEF k
<1>6. PickerShape(picker', v)
  <2> DEFINE p == [picker EXCEPT !.shown = FALSE, !.at = "ready", !.left = picker.left + 1, !.run = k]
             l == picker.left + 1
  <2>1. l \in Nat /\ picker \in [shown : BOOLEAN, at : {"idle", "ready", "again", "lazy"}, obj : Nat, run : Nat, left : Nat]
    BY PickerFacts
  <2>2. picker' = p /\ p = [picker EXCEPT !.shown = FALSE, !.at = "ready", !.left = l, !.run = k]
    BY <1>1
  <2> HIDE DEF l, p
  <2>3. /\ p \in [shown : BOOLEAN, at : {"idle", "ready", "again", "lazy"}, obj : Nat, run : Nat, left : Nat]
        /\ p.obj = picker.obj
    BY <1>5, <2>1, <2>2
  <2> QED
    BY <1>2, <1>3, <2>2, <2>3 DEF PickerShape
<1> QED
  BY <1>1, <1>3, <1>4, <1>6, OnlyPicker

\* close() of the picker goes on.
LEMMA PickerContinuesStep ==
  ASSUME EmojiInv, PickerContinues
  PROVE  EmojiInv'
<1> DEFINE o == picker.obj
           v == CheckReady(World, o)
           u == closeDatabase(World, PickerTab)
           Closed == picker' = [picker EXCEPT !.at = "idle", !.run = 0]
<1>1. UNCHANGED <<version, aged, store, composer>> /\ picker.at # "idle"
  BY DEF PickerContinues, PickerGoes, Awaits
<1>2. \/ Become(World) /\ Closed
      \/ Become(v) /\ picker' = [picker EXCEPT !.at = "again", !.run = v.objs[o].ready]
      \/ Become(World) /\ picker' = [picker EXCEPT !.at = "lazy", !.run = objs[o].lazy]
      \/ Become(u) /\ Closed
  BY DEF PickerContinues
<1>3. o \in DOMAIN World.objs /\ o # 0 /\ PickerTab \in Tabs
  BY <1>1, PickerFacts, StateFacts, EmojiAssumption
<1>4. WorldInv(World, store, version, aged, {}) /\ Advances(World, World, {})
  BY StateFacts, AdvancesNot
<1>5. WorldInv(v, store, version, aged, {}) /\ Advances(World, v, {}) /\ DOMAIN v.objs = DOMAIN World.objs
  BY <1>3, StateFacts, CheckReadyStep
<1>6. WorldInv(u, store, version, aged, {}) /\ Advances(World, u, {})
  BY <1>3, StateFacts, CloseDatabaseInv
<1> HIDE DEF u, v
<1>7. v.objs[o].ready \in Nat /\ objs[o].lazy \in Nat
  <2>1. v.objs[o].ready \in Nat
    BY <1>3, <1>5, WorldObjects DEF WorldInv
  <2>2. World.objs[o] \in ObjType
    BY <1>3, StateFacts, WorldObjects
  <2> QED
    BY <2>1, <2>2, StateFacts, ObjFields
<1>8. ASSUME NEW STATE w, WorldInv(w, store, version, aged, {}), Advances(World, w, {}), Become(w),
             NEW STATE k, k \in Nat, NEW at \in {"idle", "ready", "again", "lazy"},
             picker' = [picker EXCEPT !.at = at, !.run = k]
      PROVE  EmojiInv'
  <2>1. World' = w
    BY <1>8, BecomeFacts DEF WorldInv
  <2>2. PickerShape(picker', w)
    BY <1>3, <1>8, PickerFacts DEF PickerShape, Advances
  <2> QED
    BY <1>1, <1>8, <2>1, <2>2, OnlyPicker
<1>9. CASE Become(World) /\ Closed
  BY <1>4, <1>8, <1>9
<1>10. CASE Become(v) /\ picker' = [picker EXCEPT !.at = "again", !.run = v.objs[o].ready]
  BY <1>5, <1>7, <1>8, <1>10
<1>11. CASE Become(World) /\ picker' = [picker EXCEPT !.at = "lazy", !.run = objs[o].lazy]
  BY <1>4, <1>7, <1>8, <1>11
<1>12. CASE Become(u) /\ Closed
  BY <1>6, <1>8, <1>12
<1> QED
  BY <1>2, <1>9, <1>10, <1>11, <1>12

-----------------------------------------------------------------------------
(* The composers *)

\* A step of the composer of one tab
LEMMA OnlyComposer ==
  ASSUME EmojiInv, WorldInv(World', store, version, aged, {}), Advances(World, World', {}),
         UNCHANGED <<version, aged, store, picker>>, NEW t \in Tabs, NEW STATE c,
         composer' = [composer EXCEPT ![t] = c], ComposerShape(c, t, World')
  PROVE  EmojiInv'
<1>1. composer \in [Tabs -> ComposerType] /\ c \in ComposerType
  BY DEF EmojiInv, ComposerShape
<1>2. composer' \in [Tabs -> ComposerType]
  BY <1>1
<1>3. ASSUME NEW u \in Tabs PROVE ComposerShape(composer'[u], u, World')
  <2>1. CASE u = t
    BY <1>1, <2>1
  <2>2. CASE u # t
    <3>1. ComposerShape(composer[u], u, World')
      BY ComposerKept DEF EmojiInv, WorldInv
    <3> QED
      BY <1>1, <2>2, <3>1
  <2> QED
    BY <2>1, <2>2
<1>4. PickerShape(picker, World')
  BY PickerKept DEF EmojiInv
<1> QED
  BY <1>2, <1>3, <1>4 DEF EmojiInv

\* _initEmojiDb() creates an object.
LEMMA ComposerStartsStep ==
  ASSUME EmojiInv, NEW t \in Tabs, ComposerStarts(t)
  PROVE  EmojiInv'
<1> DEFINE w == NewObject(World, t)
           o == Len(World.objs) + 1
           c == [at |-> "ready", obj |-> Len(w.objs), run |-> 1, group |-> 0, all |-> {}]
<1>1. Become(w) /\ composer' = [composer EXCEPT ![t] = c] /\ UNCHANGED <<version, aged, store, picker>>
  BY DEF ComposerStarts
<1>2. /\ WorldInv(w, store, version, aged, {}) /\ Advances(World, w, {})
      /\ DOMAIN w.objs = DOMAIN World.objs \cup {o} /\ Len(w.objs) = o
      /\ w.objs[o].tab = t
      /\ ~ BrokenIn(w, t) => w.objs[o].ready = 1
  BY StateFacts, NewObjectInv
<1>3. o \in Nat
  BY StateFacts, WorldFields
<1> HIDE DEF w, o
<1>4. World' = w
  BY <1>1, <1>2, BecomeFacts DEF WorldInv
<1>5. c.at = "ready" /\ c.obj = o /\ c.run = 1 /\ c.group = 0 /\ c \in ComposerType
  BY <1>2, <1>3, EmojiAssumption DEF ComposerType
<1> HIDE DEF c
<1>6. ComposerShape(c, t, w)
  BY <1>2, <1>5 DEF ComposerShape
<1> QED
  BY <1>1, <1>2, <1>4, <1>6, OnlyComposer

\* The object of a composer that works
LEMMA ComposerFacts ==
  ASSUME EmojiInv, NEW t \in Tabs, composer[t].at \in {"ready", "again", "read"}
  PROVE  LET c == composer[t]
             x == objs[c.obj] IN
         /\ c \in ComposerType /\ c.obj \in DOMAIN objs /\ x.tab = t /\ x \in ObjType
         /\ c.at = "read" => c.group > 0 /\ c.run \in DOMAIN conns /\ conns[c.run].tab = t
         /\ ~ BrokenIn(World, t) =>
              /\ x.ready # 0 /\ (c.at \in {"ready", "again"} => c.run = x.ready)
              /\ c.group > 0 => x.runs[x.ready].at = "ok"
              /\ \A g \in 1 .. Groups : g < c.group => Covered(c.all, g)
              /\ x.runs[x.ready].at = "ok" => x.db # NoConn /\ store # NoStore
<1> DEFINE c == composer[t]
<1>1. /\ ComposerShape(c, t, World) /\ World.objs = objs /\ World.conns = conns
      /\ WorldInv(World, store, version, aged, {}) /\ World \in WorldType
  BY StateFacts DEF EmojiInv
<1> HIDE DEF c
<1>2. c \in ComposerType /\ c.obj \in DOMAIN objs /\ objs[c.obj].tab = t
  BY <1>1 DEF ComposerShape, c
<1>3. objs[c.obj] \in ObjType
  BY <1>1, <1>2, WorldObjects
<1>4. c.at = "read" => c.group > 0 /\ c.run \in DOMAIN conns /\ conns[c.run].tab = t
  BY <1>1 DEF ComposerShape
<1>5. ASSUME ~ BrokenIn(World, t)
      PROVE  LET x == objs[c.obj] IN
             /\ x.ready # 0 /\ (x.runs[x.ready].at = "ok" => x.db # NoConn /\ store # NoStore)
  BY <1>1, <1>2, <1>5 DEF WorldInv, ReadyShape
<1>6. ASSUME ~ BrokenIn(World, t)
      PROVE  LET x == objs[c.obj] IN
             /\ (c.at \in {"ready", "again"} => c.run = x.ready)
             /\ c.group > 0 => x.runs[x.ready].at = "ok"
             /\ \A g \in 1 .. Groups : g < c.group => Covered(c.all, g)
  BY <1>1, <1>6 DEF ComposerShape, c
<1> QED
  BY <1>2, <1>3, <1>4, <1>5, <1>6 DEF c

\* The next group is asked for, or all have been read.
LEMMA NextGroupStep ==
  ASSUME EmojiInv, NEW t \in Tabs, NEW STATE c, c \in ComposerType, c.obj \in DOMAIN objs,
         objs[c.obj].tab = t,
         ~ BrokenIn(World, t) =>
           /\ objs[c.obj].runs[objs[c.obj].ready].at = "ok"
           /\ \A g \in 1 .. Groups : g =< c.group => Covered(c.all, g),
         NextGroup(World, t, c), UNCHANGED <<version, aged, store, picker>>
  PROVE  EmojiInv'
<1>1. /\ c.obj \in Nat /\ c.run \in Nat /\ c.group \in 0 .. Groups /\ c.all \in SUBSET AllEmojis
      /\ Groups \in Nat
  BY ComposerFields, EmojiAssumption
<1>2. CASE c.group = Groups
  <2> DEFINE d == [c EXCEPT !.at = "done", !.run = 0]
  <2>1. Become(World) /\ composer' = [composer EXCEPT ![t] = d]
    BY <1>2 DEF NextGroup
  <2>2. d \in ComposerType /\ d.at = "done" /\ d.all = c.all
    BY DEF ComposerType
  <2> HIDE DEF d
  <2>3. World' = World
    BY <2>1, StateFacts, BecomeFacts
  <2>4. ComposerShape(d, t, World)
    BY <1>1, <1>2, <2>2 DEF ComposerShape
  <2> QED
    BY <2>1, <2>3, <2>4, StateFacts, AdvancesNot, OnlyComposer
<1>3. CASE c.group # Groups
  <2> DEFINE v == CheckReady(World, c.obj)
             k == v.objs[c.obj].ready
             d == [c EXCEPT !.at = "ready", !.group = c.group + 1, !.run = k]
  <2>1. Become(v) /\ composer' = [composer EXCEPT ![t] = d]
    BY <1>3 DEF NextGroup
  <2>2. WorldInv(v, store, version, aged, {}) /\ Advances(World, v, {}) /\ DOMAIN v.objs = DOMAIN World.objs
    BY StateFacts, CheckReadyStep
  <2> HIDE DEF v
  <2>3. World' = v /\ v \in WorldType
    BY <2>1, <2>2, BecomeFacts DEF WorldInv
  <2>4. c.obj \in DOMAIN v.objs /\ v.objs[c.obj].tab = t /\ k \in Nat
    BY <2>2, <2>3, StateFacts, WorldObjects DEF Advances
  <2>5. ~ BrokenIn(v, t) =>
          /\ v.objs[c.obj].runs[k].at = "ok"
          /\ \A g \in 1 .. Groups : g =< c.group => Covered(c.all, g)
    BY <2>2, StateFacts DEF Advances
  <2>6. k = v.objs[c.obj].ready
    OBVIOUS
  <2> HIDE DEF k
  <2>7. /\ d \in ComposerType /\ d.at = "ready" /\ d.all = c.all /\ d.obj = c.obj /\ d.run = k
        /\ d.group = c.group + 1
    <3>1. c.group + 1 \in 0 .. Groups
      BY <1>1, <1>3
    <3> QED
      BY <2>4, <3>1 DEF ComposerType
  <2> HIDE DEF d
  <2>8. ComposerShape(d, t, v)
    BY <1>1, <2>4, <2>5, <2>6, <2>7 DEF ComposerShape
  <2> QED
    BY <2>1, <2>2, <2>3, <2>8, OnlyComposer
<1> QED
  BY <1>2, <1>3

\* The transaction of a group has ended.
LEMMA GroupReadStep ==
  ASSUME EmojiInv, NEW t \in Tabs, GroupRead(t)
  PROVE  EmojiInv'
<1> DEFINE c == composer[t]
           found == getEmojiByGroup(transformEmojiData(Data[store.data]), c.group)
           x == objs[c.obj]
<1>1. c.at = "read" /\ UNCHANGED <<version, aged, store, picker>>
  BY DEF GroupRead
<1>2. /\ c \in ComposerType /\ c.obj \in DOMAIN objs /\ x.tab = t
      /\ c.group > 0 /\ c.run \in DOMAIN conns /\ conns[c.run].tab = t
  BY <1>1, ComposerFacts
<1>3. ~ BrokenIn(World, t) =>
        /\ x.runs[x.ready].at = "ok" /\ store # NoStore
        /\ \A g \in 1 .. Groups : g < c.group => Covered(c.all, g)
  BY <1>1, <1>2, ComposerFacts
<1>4. c.group \in 0 .. Groups /\ c.all \in SUBSET AllEmojis /\ Groups \in Nat
  BY <1>2, ComposerFields, EmojiAssumption
<1>5. CASE conns[c.run].state = "lost" \/ store = NoStore
  <2>1. NextGroup(World, t, c)
    BY <1>5 DEF GroupRead
  <2>2. BrokenIn(World, t)
    BY <1>2, <1>3, <1>5, StateFacts DEF BrokenIn
  <2> HIDE DEF c
  <2> QED
    BY <1>1, <1>2, <2>1, <2>2, NextGroupStep
<1>6. CASE ~ (conns[c.run].state = "lost" \/ store = NoStore)
  <2> DEFINE d == [c EXCEPT !.all = c.all \cup found]
  <2>1. NextGroup(World, t, d)
    BY <1>6 DEF GroupRead
  <2>2. store.data \in DOMAIN Data
    <3>1. /\ store.data \in Nat /\ 1 =< store.data
          /\ store.data =< version /\ version \in 1 .. Len(Data)
      BY <1>6, StateFacts DEF StoreShape
    <3> QED
      BY <3>1, EmojiAssumption
  <2>3. found \in SUBSET AllEmojis
    BY <2>2 DEF getEmojiByGroup, AllEmojis
  <2>4. Covered(c.all \cup found, c.group)
    BY <2>2 DEF Covered
  <2> HIDE DEF found
  <2>5. \A g : Covered(c.all, g) => Covered(c.all \cup found, g)
    BY DEF Covered
  <2> DEFINE a == c.all \cup found
  <2>6. a \in SUBSET AllEmojis
    BY <1>4, <2>3
  <2>7. /\ d \in ComposerType /\ d.obj = c.obj /\ d.group = c.group /\ d.all = a
    <3> HIDE DEF a, c
    <3>1. d = [c EXCEPT !.all = a]
      BY DEF a
    <3> HIDE DEF d
    <3> QED
      BY <1>2, <2>6, <3>1 DEF ComposerType
  <2>8. ASSUME ~ BrokenIn(World, t), NEW g \in 1 .. Groups, g =< c.group
        PROVE  Covered(a, g)
    <3>1. g < c.group \/ g = c.group
      BY <1>4, <2>8
    <3> QED
      BY <1>3, <2>4, <2>5, <2>8, <3>1
  <2> HIDE DEF a, d, c
  <2>9. /\ d.obj \in DOMAIN objs /\ objs[d.obj].tab = t
        /\ ~ BrokenIn(World, t) =>
             /\ objs[d.obj].runs[objs[d.obj].ready].at = "ok"
             /\ \A g \in 1 .. Groups : g =< d.group => Covered(d.all, g)
    BY <1>2, <1>3, <2>7, <2>8
  <2> QED
    BY <1>1, <2>1, <2>7, <2>9, NextGroupStep
<1> QED
  BY <1>5, <1>6

\* The run that a composer awaits has ended.
LEMMA ComposerContinuesStep ==
  ASSUME EmojiInv, NEW t \in Tabs, ComposerContinues(t)
  PROVE  EmojiInv'
<1> DEFINE c == composer[t]
           x == objs[c.obj]
           db == objs[c.obj].db
           failed == Run(c.obj, c.run).at = "failed"
           again == ~ failed /\ c.at = "ready" /\ db = NoConn
           reads == ~ failed /\ ~ again /\ c.group > 0
           open == db # NoConn /\ conns[db].state = "open"
           v == CheckReady(World, c.obj)
<1>1. /\ c.at \in {"ready", "again"} /\ Run(c.obj, c.run).at \in {"ok", "failed"}
      /\ UNCHANGED <<version, aged, store, picker>>
  BY DEF ComposerContinues, ComposerGoes, Awaits, Settled
<1>2. /\ c \in ComposerType /\ c.obj \in DOMAIN objs /\ x.tab = t /\ x \in ObjType
  BY <1>1, ComposerFacts
<1>3. ~ BrokenIn(World, t) =>
        /\ x.ready # 0 /\ c.run = x.ready
        /\ c.group > 0 => x.runs[x.ready].at = "ok"
        /\ \A g \in 1 .. Groups : g < c.group => Covered(c.all, g)
        /\ x.runs[x.ready].at = "ok" => x.db # NoConn /\ store # NoStore
  BY <1>1, ComposerFacts
<1>4. /\ c.obj \in Nat /\ c.run \in Nat /\ c.group \in 0 .. Groups /\ c.all \in SUBSET AllEmojis
      /\ Groups \in Nat /\ ComposerShape(c, t, World) /\ composer \in [Tabs -> ComposerType]
  BY <1>2, ComposerFields, EmojiAssumption DEF EmojiInv
<1>5. /\ db # NoConn => db \in DOMAIN conns /\ conns[db].tab = t /\ conns[db].state \notin {"pending", "rejected"}
      /\ db \in Nat
  <2>1. x.db \in Nat
    BY <1>2, ObjFields
  <2> QED
    BY <1>2, <2>1, StateFacts DEF WorldInv, ListenersShape
<1>6. \/ failed /\ c.group = 0 /\ Become(World) /\ composer' = [composer EXCEPT ![t] = ComposerThrows(c)]
      \/ again /\ Become(v) /\ composer' = [composer EXCEPT ![t].at = "again", ![t].run = v.objs[c.obj].ready]
      \/ reads /\ open /\ Become(World) /\ composer' = [composer EXCEPT ![t].at = "read", ![t].run = db]
      \/ /\ IF c.group = 0 THEN ~ failed /\ ~ again ELSE failed \/ (reads /\ ~ open)
         /\ NextGroup(World, t, c)
  BY DEF ComposerContinues
<1>7. CASE failed /\ c.group = 0 /\ Become(World) /\ composer' = [composer EXCEPT ![t] = ComposerThrows(c)]
  <2> HIDE DEF c
  <2>1. ComposerThrows(c) \in ComposerType /\ ComposerThrows(c).at = "retry"
    BY <1>2 DEF ComposerThrows, ComposerType
  <2>2. ComposerShape(ComposerThrows(c), t, World)
    BY <2>1 DEF ComposerShape
  <2>3. World' = World
    BY <1>7, StateFacts, BecomeFacts
  <2> QED
    BY <1>1, <1>7, <2>2, <2>3, StateFacts, AdvancesNot, OnlyComposer
<1>8. CASE again /\ Become(v) /\ composer' = [composer EXCEPT ![t].at = "again", ![t].run = v.objs[c.obj].ready]
  <2> DEFINE k == v.objs[c.obj].ready
             d == [c EXCEPT !.at = "again", !.run = k]
  <2>1. composer' = [composer EXCEPT ![t] = d]
    BY <1>4, <1>8
  <2>2. WorldInv(v, store, version, aged, {}) /\ Advances(World, v, {}) /\ DOMAIN v.objs = DOMAIN World.objs
    BY <1>2, StateFacts, CheckReadyStep
  <2> HIDE DEF v, c
  <2>3. World' = v /\ v \in WorldType
    BY <1>8, <2>2, BecomeFacts DEF WorldInv
  <2>4. k \in Nat /\ k = v.objs[c.obj].ready
    BY <1>2, <2>2, <2>3, StateFacts, WorldObjects
  <2>5. ComposerShape(c, t, v)
    BY <1>4, <2>2, <2>3, StateFacts, ComposerKept
  <2> HIDE DEF k
  <2>6. d \in ComposerType /\ d.at = "again" /\ d.run = k /\ d.obj = c.obj /\ d.group = c.group /\ d.all = c.all
    BY <1>2, <2>4 DEF ComposerType
  <2> HIDE DEF d
  <2>7. ComposerShape(d, t, v)
    BY <1>1, <2>4, <2>5, <2>6 DEF ComposerShape
  <2> QED
    BY <1>1, <2>1, <2>2, <2>3, <2>7, OnlyComposer
<1>9. CASE reads /\ open /\ Become(World) /\ composer' = [composer EXCEPT ![t].at = "read", ![t].run = db]
  <2> DEFINE d == [c EXCEPT !.at = "read", !.run = db]
  <2>1. composer' = [composer EXCEPT ![t] = d]
    BY <1>4, <1>9
  <2>2. World' = World
    BY <1>9, StateFacts, BecomeFacts
  <2> HIDE DEF c, db
  <2>3. d \in ComposerType /\ d.at = "read" /\ d.run = db /\ d.obj = c.obj /\ d.group = c.group /\ d.all = c.all
    BY <1>2, <1>5 DEF ComposerType
  <2> HIDE DEF d
  <2>4. ComposerShape(d, t, World)
    BY <1>1, <1>4, <1>5, <1>9, <2>3, StateFacts DEF ComposerShape
  <2> QED
    BY <1>1, <2>1, <2>2, <2>4, StateFacts, AdvancesNot, OnlyComposer
<1>10. CASE /\ IF c.group = 0 THEN ~ failed /\ ~ again ELSE failed \/ (reads /\ ~ open)
            /\ NextGroup(World, t, c)
  <2>1. ASSUME ~ BrokenIn(World, t)
        PROVE  x.runs[x.ready].at = "ok" /\ \A g \in 1 .. Groups : g =< c.group => Covered(c.all, g)
    <3>1. Run(c.obj, c.run) = x.runs[x.ready]
      BY <1>3, <2>1 DEF Run
    <3>2. x.runs[x.ready].at = "ok"
      <4>1. CASE c.group = 0
        BY <1>1, <1>10, <3>1, <4>1
      <4>2. CASE c.group # 0
        BY <1>3, <1>4, <2>1, <4>2
      <4> QED
        BY <4>1, <4>2
    <3>3. ~ failed
      BY <3>1, <3>2
    <3>4. open
      <4>1. db # NoConn
        BY <1>3, <2>1, <3>2
      <4>2. db \in DOMAIN conns /\ conns[db].tab = t
        BY <1>5, <4>1
      <4>3. conns[db].state \in {"pending", "open", "rejected", "lost", "closed"}
        BY <4>2, StateFacts, WorldConns
      <4>4. conns[db].state \notin {"closed", "lost"}
        BY <2>1, <4>2, StateFacts DEF BrokenIn
      <4> QED
        BY <1>5, <4>1, <4>3, <4>4
    <3>5. c.group = 0
      BY <1>10, <3>3, <3>4
    <3> QED
      BY <1>4, <3>2, <3>5
  <2> HIDE DEF c, failed, again, reads, open
  <2> QED
    BY <1>1, <1>2, <1>10, <2>1, NextGroupStep
<1> QED
  BY <1>6, <1>7, <1>8, <1>9, <1>10

-----------------------------------------------------------------------------
(* The invariant *)

\* The picker's searches change nothing else, and neither does a step of others.
LEMMA StutterStep ==
  ASSUME EmojiInv, Become(World), UNCHANGED <<version, aged, store, composer, picker>>
  PROVE  EmojiInv'
<1>1. World' = World
  BY StateFacts, BecomeFacts
<1> QED
  BY <1>1, StateFacts, AdvancesNot, OnlyWorld

\* Nothing is open before the first page.
LEMMA InitInv ==
  ASSUME Init
  PROVE  EmojiInv
<1>1. World = [objs |-> << >>, conns |-> << >>, cache |-> cache, listeners |-> listeners]
  BY DEF World, Init
<1>2. cache \in [Tabs -> Nat] /\ listeners \in [Tabs -> SUBSET Nat]
  BY DEF Init, NoConn
<1>3. /\ World \in WorldType /\ World.objs = << >> /\ World.conns = << >> /\ World.cache = cache
      /\ World.listeners = listeners
  BY <1>1, <1>2 DEF WorldType
<1>4. \A t \in Tabs : cache[t] = NoConn /\ listeners[t] = {}
  BY DEF Init
<1>5. WorldInv(World, store, version, aged, {})
  BY <1>3, <1>4 DEF WorldInv, CacheShape, ListenersShape, RunsShape, ReadyShape, TagsShape
<1>6. StoreShape(store, version, aged)
  <2>1. version = 1 /\ 1 \in 1 .. Len(Data)
    BY EmojiAssumption DEF Init
  <2>2. CASE store = NoStore
    BY <2>1, <2>2 DEF StoreShape, NoStore
  <2>3. CASE store = [tag |-> 1, data |-> 1]
    BY <2>1, <2>3 DEF StoreShape
  <2> QED
    BY <2>2, <2>3 DEF Init
<1>7. ASSUME NEW t \in Tabs
      PROVE  composer[t].at = "wait" /\ composer[t] \in ComposerType
  BY EmojiAssumption DEF Init, ComposerType
<1>8. composer \in [Tabs -> ComposerType]
  BY <1>7 DEF Init
<1>9. \A t \in Tabs : ComposerShape(composer[t], t, World)
  BY <1>7 DEF ComposerShape
<1>10. PickerShape(picker, World)
  BY DEF Init, PickerShape
<1> QED
  BY <1>5, <1>6, <1>8, <1>9, <1>10 DEF EmojiInv

\* Every step keeps the invariant.
LEMMA NextInv ==
  ASSUME EmojiInv, [Next]_emojiVars
  PROVE  EmojiInv'
<1>1. CASE UNCHANGED emojiVars
  BY <1>1, StutterStep DEF emojiVars, Become, World
<1>2. CASE \E words \in Queries : Search(words)
  BY <1>2, StutterStep DEF Search, Resting
<1>3. ASSUME NEW t \in Tabs, ComposerStarts(t) \/ ComposerContinues(t) \/ GroupRead(t)
      PROVE  EmojiInv'
  BY <1>3, ComposerStartsStep, ComposerContinuesStep, GroupReadStep
<1>4. ASSUME NEW c \in DOMAIN conns, Opened(c, TRUE) \/ Opened(c, FALSE) \/ OnClose(c)
      PROVE  EmojiInv'
  BY <1>4, OpenedStep, OnCloseStep
<1>5. ASSUME NEW o \in DOMAIN objs, NEW r \in DOMAIN objs[o].runs, NEW ok \in BOOLEAN,
             \/ InitEmpty(o, r) \/ InitFetched(o, r, ok) \/ InitStored(o, r)
             \/ LazyHead(o, r, ok) \/ LazyHas(o, r) \/ LazyGet(o, r, ok) \/ LazyStored(o, r)
      PROVE  EmojiInv'
  BY <1>5, InitEmptyStep, InitFetchedStep, InitStoredStep, LazyHeadStep, LazyHasStep, LazyGetStep,
     LazyStoredStep
<1>6. CASE PickerEnters \/ PickerReturns \/ PickerLeaves \/ PickerContinues
  BY <1>6, PickerEntersStep, PickerReturnsStep, PickerLeavesStep, PickerContinuesStep
<1>7. CASE StoreCleared \/ Deploy
  BY <1>7, StoreClearedStep, DeployStep
<1>8. CASE Goes
  BY <1>3, <1>4, <1>5, <1>6, <1>8 DEF Goes, Succeeds
<1>9. CASE Other
  BY <1>4, <1>5, <1>6, <1>7, <1>9 DEF Other
<1> QED
  BY <1>1, <1>2, <1>8, <1>9 DEF Next

\* The invariant holds in every state: connections and listeners of every tab, what
\* runs of _init() and checkForUpdates() have fetched, and how far composers are, fit
\* together, whatever the order of requests, failures and closes (database.js, app.js).
THEOREM EmojiInvariant == Spec => []EmojiInv
<1>1. Init => EmojiInv
  BY InitInv
<1>2. EmojiInv /\ [Next]_emojiVars => EmojiInv'
  BY NextInv
<1> QED
  BY <1>1, <1>2, PTL DEF Spec

\* The stored data are older than the eTag they are stored under only if an HTTP cache
\* gave them to an update, however updates of several objects, deployments of the server
\* and answers of caches interleave (checkForUpdates, loadData, cache_control).
THEOREM TagsCorrect == Spec => []TagNotAhead
<1>1. EmojiInv => TagNotAhead
  BY DEF EmojiInv, StoreShape, TagNotAhead
<1> QED
  BY <1>1, EmojiInvariant, PTL

\* At any time a tab has one connection that is open or being opened, it is the cached
\* one, and every object that holds it listens to its close (openDatabase,
\* addOnCloseListener, closeDatabase).
THEOREM ConnectionsCorrect == Spec => []ConnectionShared
<1>1. EmojiInv => ConnectionShared
  <2> SUFFICES ASSUME EmojiInv, NEW c \in DOMAIN conns, conns[c].state \in {"pending", "open"}
               PROVE  /\ cache[conns[c].tab] = c
                      /\ \A o \in DOMAIN objs : objs[o].db = c => o \in listeners[conns[c].tab]
    BY DEF ConnectionShared
  <2>1. WorldInv(World, store, version, aged, {}) /\ c # NoConn
    BY StateFacts, WorldConns DEF NoConn
  <2> QED
    BY <2>1, StateFacts DEF WorldInv, CacheShape, ListenersShape, Live
<1> QED
  BY <1>1, EmojiInvariant, PTL

\* A composer that is done in a tab that never lost a connection has every group in its
\* cache, as some version of the data has it (_initEmojiDb, getEmojiByGroup, ready).
THEOREM CachesComplete == Spec => []CacheComplete
<1>1. EmojiInv => CacheComplete
  <2> SUFFICES ASSUME EmojiInv, NEW t \in Tabs, composer[t].at = "done", ~ Broken(t), NEW g \in 1 .. Groups
               PROVE  Covered(composer[t].all, g)
    BY DEF CacheComplete, Covered
  <2>1. ~ BrokenIn(World, t)
    BY StateFacts DEF Broken, BrokenIn
  <2> QED
    BY <2>1 DEF EmojiInv, ComposerShape
<1> QED
  BY <1>1, EmojiInvariant, PTL
=============================================================================
