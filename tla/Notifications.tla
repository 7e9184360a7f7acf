---------------------------- MODULE Notifications ----------------------------
(***************************************************************************)
(* The notifications of a page (app.js, the Alpine component of the body):   *)
(* shown once per type and message, taken away by a timer, by a click, or,   *)
(* for errors, by the next request that succeeds; an expired session leads   *)
(* to the unlock page.  Their order on the page is left out.  An id is new   *)
(* when no timer has it: the message with a number.                          *)
(***************************************************************************)
EXTENDS Naturals, FiniteSets, FiniteSetsExt

CONSTANT MaxTimers    \* bound: timers that outlive their notification

VARIABLES
  notes,              \* [shown: set of [id, type, message], timers: ids]
  page                \* "here", "leaving": its session has expired, or "unlock"

noteVars == <<notes, page>>

NotesInit == notes = [shown |-> {}, timers |-> {}] /\ page = "here"

OnPage == page # "unlock"

Messages == {"request", "upload", "dialog", "uploaded"}
NoteIds == Messages \X (1 .. MaxTimers + 1)

NextId(n, message) ==
  <<message, Min({i \in 1 .. MaxTimers + 1 : <<message, i>> \notin n.timers})>>

\* MUTANT: errors are there to stay.
addNotification_NoTimer(n, type, message) ==
  IF \E x \in n.shown : x.type = type /\ x.message = message THEN n
  ELSE [shown |-> n.shown \cup {[id |-> NextId(n, message), type |-> type, message |-> message]},
        timers |-> n.timers \cup (IF type = "error" THEN {} ELSE {NextId(n, message)})]

\* addNotification(type, message, duration)
addNotification(n, type, message) ==
  IF \E x \in n.shown : x.type = type /\ x.message = message THEN n
  ELSE [shown |-> n.shown \cup {[id |-> NextId(n, message), type |-> type, message |-> message]},
        timers |-> n.timers \cup {NextId(n, message)}]

\* removeNotification(id)
removeNotification(n, id) == [n EXCEPT !.shown = {x \in @ : x.id # id}]

\* clearErrorNotifications()
clearErrorNotifications(n) == [n EXCEPT !.shown = {x \in @ : x.type # "error"}]

\* The listener of ajax:error
AjaxError(status) ==
  /\ notes' = addNotification(notes, "error", "request")
  /\ page' = IF status = 401 THEN "leaving" ELSE page

\* The listener of ajax:success
AjaxSuccess == notes' = clearErrorNotifications(notes) /\ UNCHANGED page

Orphans == notes.timers \ {x.id : x \in notes.shown}

\* A notification's time is up.
DismissTimer(id) ==
  /\ OnPage /\ id \in notes.timers
  /\ notes' = [removeNotification(notes, id) EXCEPT !.timers = @ \ {id}]
  /\ UNCHANGED page

\* A click on it
Dismiss(id) ==
  /\ OnPage /\ Cardinality(Orphans) < MaxTimers
  /\ id \in {x.id : x \in notes.shown}
  /\ notes' = removeNotification(notes, id) /\ UNCHANGED page

\* The timer set for an expired session
Unlock == page = "leaving" /\ page' = "unlock" /\ UNCHANGED notes

-----------------------------------------------------------------------------
(* Properties *)

\* Nothing is shown twice (addNotification looks before it adds).
ShownOnce ==
  \A x, y \in notes.shown : x.message = y.message /\ x.type = y.type => x = y

\* The page shows a thing once, however often it is reported, and takes it away in
\* time: "Auto-dismiss all notification types".
NotificationsGo ==
  /\ []ShownOnce
  /\ \A m \in Messages :
       (\E x \in notes.shown : x.message = m)
         ~> (page = "unlock" \/ ~ \E x \in notes.shown : x.message = m)
=============================================================================
