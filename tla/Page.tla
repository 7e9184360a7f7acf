-------------------------------- MODULE Page --------------------------------
(***************************************************************************)
(* A timeline page: the dialogs and the focus (PageDialogs) together with    *)
(* the keyboard navigation (TimelineNavigation).  They meet in three places  *)
(* of app.js: a focusin on a text field clears the selection, a click        *)
(* outside the posts does, and the keys work only while no text field has    *)
(* the focus and no dialog is open.  The widgets of PageWidgets share         *)
(* nothing with them: a behaviour uses one or the other.                     *)
(***************************************************************************)
EXTENDS PageDialogs, TimelineNavigation, PageWidgets

timelineVars == <<dialogVars, navVars>>
pageVars == <<timelineVars, widgetVars>>

Init == DialogsInit /\ NavInit /\ WidgetsInit

isTextInputFocused == ui.focus \in TextInputs

\* MUTANT: only the composer's textarea is listened to.
Focusin_Composer == ui'.focus = "composer" /\ ui.focus # "composer"

\* focusin, after which a text field has the focus
Focusin == ui'.focus \in TextInputs /\ ui.focus # ui'.focus

\* A step of the dialogs; outside: it is a click outside the posts.
WithSelection(outside) == IF Focusin \/ outside THEN ClearSelection ELSE UNCHANGED navVars

Keys == ~ isTextInputFocused /\ ui.stack = << >>

\* j and k
Navigate(down, view) == Keys /\ Move(down, view) /\ UNCHANGED dialogVars

\* "n": the textarea gets the focus.
NewPost == Keys /\ MoveFocus("composer") /\ WithSelection(FALSE)

\* "r" and "l" act on the selected item: a reply form, or more items.
Reply ==
  /\ Keys /\ Selected /\ "reply" \notin here
  /\ PageChanges(here \cup {"reply"})
  /\ WithSelection(FALSE)

Expand(h) == Keys /\ Selected /\ items \subseteq h /\ ItemsChange(h) /\ UNCHANGED dialogVars

\* ... and so they forget a selection that is gone.
Forget == Keys /\ ~ Selected /\ selectedEl # 0 /\ Look /\ UNCHANGED dialogVars

\* navigatePost(event): a click on a post that is not a folded parent opens it.
navigatePost(i) == i \in Parents => i \in expanded

\* Enter, "q", "h" and 1-9 lead away, and so does a click on a post; Back leads to a
\* new document with the items the server has then.
ComeBack(h) ==
  /\ ui.stack = << >> /\ (Keys \/ \E i \in items : navigatePost(i))
  /\ LoadPage(h)
  /\ ui' = [ui EXCEPT !.focus = "body"]
  /\ here' = {"post"}
  /\ requested' = {} /\ writing' = {} /\ previousFocus' = "body" /\ closeEvent' = FALSE
  /\ image' = [src |-> FALSE, sideClose |-> FALSE]
  /\ UNCHANGED <<origin, alone>>

\* Everything of the dialogs that is not a key of the navigation
Dialogs ==
  \/ \E d \in Server :
       \/ \E e \in here \cup {"composer", d} : Request(d, e) /\ WithSelection(e = "composer")
       \/ \E b \in BOOLEAN : Respond(d, b) /\ WithSelection(FALSE)
       \/ RequestFails(d) /\ WithSelection(FALSE)
       \/ Write(d) /\ WithSelection(TRUE)
       \/ \E t \in TextInputs \cup {"gone"} : Insert(d, t) /\ WithSelection(FALSE)
       \/ WriteFails(d) /\ WithSelection(FALSE)
  \/ \E d \in Range(Rostra) : CloseDialog(d) /\ WithSelection(TRUE)
  \/ enlargePostImage /\ WithSelection(FALSE)
  \/ ShowShortcuts /\ WithSelection(FALSE)
  \/ ShortcutsClosed /\ WithSelection(FALSE)
  \/ Escape /\ WithSelection(FALSE)
  \/ \E b \in BOOLEAN : CloseShortcuts(b) /\ WithSelection(~ b)
  \/ \E b \in BOOLEAN : FitImage(b) /\ WithSelection(FALSE)
  \/ \E h \in SUBSET Removable : PageChanges(h) /\ WithSelection(FALSE)
  \/ \E e \in here \cup {"body", "composer"}, b \in BOOLEAN : MoveFocus(e) /\ WithSelection(b)

Navigation ==
  \/ \E down \in BOOLEAN, view \in SUBSET items : Navigate(down, view)
  \/ \E h \in SUBSET Items : Expand(h) \/ ComeBack(h)
  \/ \E h \in SUBSET Items : ItemsChange(h) /\ UNCHANGED dialogVars
  \/ NewPost \/ Reply \/ Forget

Next ==
  \/ widget = "rest" /\ (Dialogs \/ Navigation) /\ UNCHANGED widgetVars
  \/ WidgetsNext /\ UNCHANGED timelineVars

Spec == Init /\ [][Next]_pageVars

-----------------------------------------------------------------------------
(* Properties *)

\* "Clear selection when user clicks outside navigable items or focuses a text field":
\* while a text field has the focus no post is selected, also when a dialog that
\* closes gave it the focus back or a reply form took it.
NoSelectionWhileTyping == isTextInputFocused => selectedEl = 0
=============================================================================
