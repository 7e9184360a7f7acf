----------------------------- MODULE PageDialogs -----------------------------
(***************************************************************************)
(* The modal dialogs of a page and the focus: closeRostraDialog and          *)
(* syncRostraDialogs with the observer that runs it after every change of    *)
(* the document, the enlarged image, the keyboard help and Escape (app.js).  *)
(*                                                                           *)
(* A page element is named for what it is; a dialog's name also stands for   *)
(* the focus inside it.  Of the browser: showModal() makes everything but    *)
(* the dialog on top inert, close() gives the focus back to where it was,    *)
(* and the focus of an element that goes falls to the body.                  *)
(***************************************************************************)
EXTENDS Naturals, Sequences, SequencesExt, FiniteSets, FiniteSetsExt

None == "none"
Rostra == <<"image", "preview", "media">>    \* in the order of the document
Server == {"preview", "media"}               \* those that the server renders
Removable == {"post", "reply"}              \* page elements that come and go
TextInputs == {"composer", "reply"}

VARIABLES
  ui,               \* [focus, stack: the open modals, cls: those with -active,
                    \*  previously: of the browser, current: activeRostraDialog,
                    \*  trigger: rostraDialogFocus of it, the only one that is read]
  here,             \* the removable elements that are in the document
  requested,        \* dialogs asked for
  writing,          \* dialogs with an upload or a link on its way to a textarea
  previousFocus,    \* of the keyboard help
  closeEvent,       \* its close event is queued
  image,            \* the enlarged image: src is set, -sideClose
  origin,           \* where the focus was when the modal at the bottom came up
  alone             \* since then no second one came on top of it

dialogVars == <<ui, here, requested, writing, previousFocus, closeEvent, image,
                origin, alone>>

DialogsInit ==
  /\ ui = [focus |-> "body", stack |-> << >>, cls |-> {}, current |-> None,
           previously |-> [d \in Range(Rostra) \cup {"shortcuts"} |-> "body"],
           trigger |-> "body"]
  /\ here = {"post"}
  /\ requested = {} /\ writing = {} /\ previousFocus = "body" /\ closeEvent = FALSE
  /\ image = [src |-> FALSE, sideClose |-> FALSE]
  /\ origin = "body" /\ alone = TRUE

-----------------------------------------------------------------------------
(* The browser *)

Top(u) == Last(u.stack)
IsOpen(u, d) == d \in Range(u.stack)

\* A dialog, which is open once at most, leaves the stack.
Without(s, d) == IF d \in Range(s) THEN RemoveAt(s, CHOOSE i \in DOMAIN s : s[i] = d) ELSE s

\* element.focus(): no effect on what is gone, hidden or inert.
Focus(u, e, h) ==
  IF IF u.stack = << >> THEN e = "composer" \/ e \in h ELSE e = Top(u)
  THEN [u EXCEPT !.focus = e] ELSE u

\* What held the focus is no longer shown.
Unfocus(u, e) == IF u.focus = e THEN [u EXCEPT !.focus = "body"] ELSE u

ShowModal(u, d) ==
  [u EXCEPT !.previously[d] = u.focus, !.stack = Append(@, d), !.focus = d]

Close(u, d, h) ==
  LET v == [u EXCEPT !.stack = Without(@, d), !.previously[d] = "body"]
  IN Unfocus(Focus(v, u.previously[d], h), d)

-----------------------------------------------------------------------------
(* app.js *)

\* restoreRostraDialogFocus(dialog); the trigger is not read again until it is set.
restoreRostraDialogFocus(u, d, h) ==
  LET v == [u EXCEPT !.current = None, !.trigger = "body"]
  IN IF u.focus \in {"body", d} THEN Focus(v, u.trigger, h) ELSE v

\* MUTANT: a dialog that the server took away is forgotten.
Drop_Forget(u, d, h) == IF u.current = d THEN [u EXCEPT !.current = None] ELSE u

\* syncRostraDialogs(), first part: the active dialog is no longer in the document.
Drop(u, d, h) == IF u.current = d THEN restoreRostraDialogFocus(u, d, h) ELSE u

\* MUTANT: nothing is shown while two dialogs are -active.
ToShow_Never(u) ==
  LET active == {i \in DOMAIN Rostra : Rostra[i] \in u.cls}
      first == Rostra[Min(active)]
  IN IF Cardinality(active) # 1 \/ IsOpen(u, first) THEN None ELSE first

\* ... second part: the first dialog of the document that is -active, if not open.
ToShow(u) ==
  LET active == {i \in DOMAIN Rostra : Rostra[i] \in u.cls}
      first == Rostra[Min(active)]
  IN IF active = {} \/ IsOpen(u, first) THEN None ELSE first

syncRostraDialogs(u) ==
  LET d == ToShow(u)
  IN IF d = None THEN u ELSE ShowModal([u EXCEPT !.trigger = u.focus, !.current = d], d)

\* closeRostraDialog(dialog), then the observer
closeRostraDialog(u, d, h) ==
  LET v == [u EXCEPT !.cls = @ \ {d}]
      w == IF IsOpen(v, d) THEN Close(v, d, h) ELSE v
  IN IF w.current = d THEN restoreRostraDialogFocus(w, d, h) ELSE w

\* The elements with which a dialog goes that leaves the document.
TakeAway(u, d, h) ==
  LET v == [u EXCEPT !.cls = @ \ {d}, !.stack = Without(@, d),
                    !.previously[d] = "body"]
  IN Drop(Unfocus(v, d), d, h)

\* Every step ends with the observer's run, which may find a dialog that waited for
\* the one the step has closed; origin and alone follow the stack.
Finish(u) ==
  LET v == syncRostraDialogs(u) IN
  /\ ui' = v
  /\ origin' = IF v.stack = << >> THEN "body"
               ELSE IF u.stack = << >> THEN v.trigger
               ELSE IF ui.stack = << >> THEN ui.focus ELSE origin
  /\ alone' = (v.stack = << >> \/ u.stack = << >> \/ (alone /\ Len(v.stack) = 1))

Inert(e) == ui.stack # << >> /\ e # Top(ui)

-----------------------------------------------------------------------------

\* A dialog is asked for from an element of the page or from the dialog itself.
Request(d, e) ==
  /\ d \in Server /\ d \notin requested
  /\ e \in here \cup {"composer", d} /\ ~ Inert(e) /\ (e = d => IsOpen(ui, d))
  /\ requested' = requested \cup {d}
  /\ Finish(Focus(ui, e, here))
  /\ UNCHANGED <<here, writing, previousFocus, closeEvent, image>>

\* The answer replaces the element: by an active dialog, or by an empty one.
Respond(d, shows) ==
  /\ d \in requested /\ requested' = requested \ {d}
  /\ LET u == TakeAway(ui, d, here)
     IN Finish(IF shows THEN [u EXCEPT !.cls = @ \cup {d}] ELSE u)
  /\ UNCHANGED <<here, writing, previousFocus, closeEvent, image>>

RequestFails(d) ==
  /\ d \in requested /\ requested' = requested \ {d}
  /\ UNCHANGED <<ui, here, writing, previousFocus, closeEvent, image, origin, alone>>

\* The Close button of the dialog on top
CloseDialog(d) ==
  /\ ui.stack # << >> /\ Top(ui) = d /\ d # "shortcuts"
  /\ Finish(closeRostraDialog(ui, d, here))
  /\ image' = IF d = "image" THEN [src |-> FALSE, sideClose |-> FALSE] ELSE image
  /\ UNCHANGED <<here, requested, writing, previousFocus, closeEvent>>

\* An upload is begun, a link is asked for or a listed medium is chosen, in the dialog
\* on top.
Write(d) ==
  /\ d \in Server \ writing /\ ui.stack # << >> /\ Top(ui) = d
  /\ writing' = writing \cup {d}
  /\ UNCHANGED <<ui, here, requested, previousFocus, closeEvent, image, origin, alone>>

\* insertMediaSyntax and insertExternalLink, in the page that the answer finds: the
\* dialog closes if it is still open, on top or not, and the textarea t is next.  A
\* link goes to the composer, media to the target of the media list as it is now.
Insert(d, t) ==
  /\ d \in writing /\ writing' = writing \ {d}
  /\ d = "preview" => t = "composer"
  /\ LET v == closeRostraDialog(ui, d, here) IN Finish(Focus(v, t, here))
  /\ UNCHANGED <<here, requested, previousFocus, closeEvent, image>>

WriteFails(d) ==
  /\ d \in writing /\ writing' = writing \ {d}
  /\ UNCHANGED <<ui, here, requested, previousFocus, closeEvent, image, origin, alone>>

\* enlargePostImage(event): "Keep native navigation inside an existing modal
\* instead of stacking dialogs."
enlargePostImage ==
  /\ ui.stack = << >> /\ "post" \in here
  /\ LET v == Focus(ui, "post", here) IN Finish([v EXCEPT !.cls = @ \cup {"image"}])
  /\ image' = [image EXCEPT !.src = TRUE]
  /\ UNCHANGED <<here, requested, writing, previousFocus, closeEvent>>

\* fitPostImageClose(dialog): only an open dialog is measured.
Fits == IsOpen(ui, "image")

\* fit runs when the image loads or the dialog is resized; an error takes it back.
FitImage(side) ==
  /\ Fits \/ ~ side
  /\ image' = [image EXCEPT !.sideClose = side]
  /\ UNCHANGED <<ui, here, requested, writing, previousFocus, closeEvent, origin, alone>>

\* "?": toggle() of the keyboard help, outside text fields and dialogs
ShowShortcuts ==
  /\ ui.focus \notin TextInputs /\ ui.stack = << >>
  /\ previousFocus' = ui.focus
  /\ Finish(ShowModal(ui, "shortcuts"))
  /\ UNCHANGED <<here, requested, writing, closeEvent, image>>

\* Its button, or Escape: close() queues the event.
CloseShortcuts(escape) ==
  /\ IsOpen(ui, "shortcuts") /\ (escape \/ Top(ui) = "shortcuts")
  /\ closeEvent' = TRUE
  /\ Finish(Close(ui, "shortcuts", here))
  /\ UNCHANGED <<here, requested, writing, previousFocus, image>>

\* The event; previousFocus is not read again until it is set.
ShortcutsClosed ==
  /\ closeEvent /\ closeEvent' = FALSE
  /\ Finish(Focus(ui, previousFocus, here))
  /\ previousFocus' = IF IsOpen(ui, "shortcuts") THEN previousFocus ELSE "body"
  /\ UNCHANGED <<here, requested, writing, image>>

\* Escape, unless it closes the keyboard help: the cancel event of the dialog on
\* top, or a textarea is left; an inline reply is taken away.
Escape ==
  /\ ~ IsOpen(ui, "shortcuts")
  /\ \/ \E d \in Range(Rostra) : CloseDialog(d)
     \/ /\ ui.stack = << >> /\ ui.focus \in TextInputs
        /\ here' = here \ {ui.focus}
        /\ Finish(Unfocus(ui, ui.focus))
        /\ UNCHANGED <<requested, writing, previousFocus, closeEvent, image>>

\* Elements of the page come and go; one that comes is a new one, and a new reply
\* form takes the focus.
PageChanges(h) ==
  LET Forget(e) == IF e \in here \ h THEN "gone" ELSE e
      u == IF ui.focus \in here \ h THEN Unfocus(ui, ui.focus) ELSE ui
      v == [u EXCEPT !.previously = [d \in DOMAIN @ |-> Forget(@[d])],
                     !.trigger = Forget(@)]
  IN /\ h # here /\ here' = h
     /\ ui' = IF "reply" \in h \ here THEN Focus(v, "reply", h) ELSE v
     /\ previousFocus' = Forget(previousFocus)
     /\ origin' = Forget(origin)
     /\ UNCHANGED <<requested, writing, closeEvent, image, alone>>

\* The reader puts the focus somewhere.
MoveFocus(e) ==
  /\ e # ui.focus /\ Finish(IF e = "body" /\ ui.stack = << >> THEN Unfocus(ui, ui.focus)
                            ELSE Focus(ui, e, here))
  /\ UNCHANGED <<here, requested, writing, previousFocus, closeEvent, image>>

-----------------------------------------------------------------------------
(* Properties *)

\* The page is never blocked by a modal that is closed for the application; a dialog
\* that is -active is shown, or waits for one that is; and an enlarged image leaves
\* nothing behind for the next one, whenever the load and resize callbacks run.
DialogsMatchClass ==
  /\ Range(ui.stack) \subseteq ui.cls \cup {"shortcuts"}
  /\ ui.cls # {} => ui.stack # << >>
  /\ ~ IsOpen(ui, "image") => ~ image.src /\ ~ image.sideClose

\* A dialog that was on its own gives the focus back to where it came from, if that
\* is still in the document, or to the textarea it wrote into; no matter whether the
\* reader closed it or an answer of the server took it away or replaced it.  When
\* another dialog waited for it, that one finds the focus there and returns it.
FocusStep ==
  ui.stack # << >> /\ alone /\ origin \in here' \cup {"composer"} =>
    LET given == IF ui'.stack = << >> THEN ui'.focus ELSE origin'
    IN given = origin \/ (given \in TextInputs /\ writing' # writing)

\* ... so in every step of closeRostraDialog, of the keyboard help and of an answer.
FocusReturns == [][FocusStep]_dialogVars
=============================================================================
