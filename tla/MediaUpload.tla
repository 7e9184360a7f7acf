----------------------------- MODULE MediaUpload -----------------------------
(***************************************************************************)
(* Attaching media to a post (app.js): the media dialog that the server      *)
(* renders, the preview of a file that was chosen or pasted, its upload and  *)
(* the notifications about it.  Only the dialog that is in the document is   *)
(* state: an answer replaces it, and what was attached to the old one can no *)
(* longer be reached.  Of the requests for one element only the latest has   *)
(* an effect (alpine-ajax).  Left out: the percentage, and the text that is  *)
(* inserted (PostComposer).                                                  *)
(***************************************************************************)
EXTENDS Notifications

CONSTANTS
  Targets,            \* textareas a dialog is opened for
  MaxFiles,           \* bound: files that are pasted or chosen
  MaxAttempts         \* retries until the dialog is given up (50)

ASSUME MediaAssumption == MaxFiles \in Nat /\ MaxAttempts \in Nat

None == "none"
Orig == 0             \* the handler a button has from the server
Files == 1 .. MaxFiles

VARIABLES
  asked,              \* target of the request for the dialog, or None
  dialog,             \* the element media-list
  chooser,            \* the browser's file chooser is open for the dialog's input
  previews,           \* closures of previewMediaFile that the dialog's buttons reach
  pastes,             \* files waiting for the dialog: [target, attempts] of each
  uploads,            \* [file, input: inputEl # null, attached: to this dialog]
  blobs,              \* object URLs that are not revoked
  last                \* the last file, the last one whose upload began, those sent

mediaVars == <<asked, dialog, chooser, previews, pastes, uploads, blobs, last>>

\* render_media_list
NewDialog(t) ==
  [target |-> t, open |-> TRUE, title |-> "select", items |-> TRUE, label |-> "Close",
   active |-> FALSE, shown |-> 0, upload |-> Orig, close |-> Orig,
   progress |-> FALSE, input |-> 0]

MediaInit ==
  /\ asked = None /\ chooser = FALSE
  /\ dialog = [NewDialog(None) EXCEPT !.open = FALSE]
  /\ previews = << >> /\ pastes = << >> /\ uploads = {} /\ blobs = {}
  /\ last = [file |-> 0, upload |-> 0, sent |-> [f \in Files |-> 0]]

With(f, x, r) == [y \in DOMAIN f \cup {x} |-> IF y = x THEN r ELSE f[y]]
Without(f, x) == [y \in DOMAIN f \ {x} |-> f[y]]

\* Nothing of the page can be clicked behind the dialog or behind the chooser.
OnForm == OnPage /\ ~ dialog.open
InDialog == OnPage /\ dialog.open /\ ~ chooser

-----------------------------------------------------------------------------
(* previewMediaFile(file, inputEl) and what its closures do *)

\* The closure keeps what it found.
Preview(f, input) ==
  /\ blobs' = blobs \cup {f}
  /\ previews' = With(previews, f, [title |-> dialog.title, upload |-> dialog.upload,
                                    close |-> dialog.close, input |-> input])
  /\ dialog' = [dialog EXCEPT !.title = "preview", !.items = FALSE, !.label = "Cancel",
                  !.active = TRUE, !.shown = f, !.upload = f, !.close = f,
                  !.input = IF input THEN f ELSE @]

\* MUTANT: the close button keeps its handler.
cleanup_KeepClose(f) ==
  [dialog EXCEPT !.title = previews[f].title, !.items = TRUE, !.label = "Close",
                 !.active = FALSE, !.upload = previews[f].upload]

\* cleanup()
cleanup(f) ==
  [dialog EXCEPT !.title = previews[f].title, !.items = TRUE, !.label = "Close",
                 !.active = FALSE, !.upload = previews[f].upload,
                 !.close = previews[f].close]

\* MUTANT: the page gives up and says nothing.
GiveUp_Silent == notes

\* "Could not open media upload dialog"
GiveUp == addNotification(notes, "error", "dialog")

\* previewMediaFileWhenDialogReady(file, target, attempts); before the first answer
\* the element has no target.
WhenDialogReady(f, t, n) ==
  \/ /\ dialog.target = t
     /\ Preview(f, FALSE)
     /\ pastes' = Without(pastes, f)
     /\ UNCHANGED noteVars
  \/ /\ dialog.target # t /\ n < MaxAttempts
     /\ pastes' = With(pastes, f, [target |-> t, attempts |-> n + 1])
     /\ UNCHANGED <<dialog, previews, blobs, noteVars>>
  \/ /\ dialog.target # t /\ n >= MaxAttempts
     /\ pastes' = Without(pastes, f)
     /\ notes' = GiveUp
     /\ UNCHANGED <<dialog, previews, blobs, page>>

-----------------------------------------------------------------------------
(* Opening the dialog *)

\* The attach button of a form
Attach(t) ==
  /\ OnForm /\ asked' = t
  /\ UNCHANGED <<dialog, chooser, previews, pastes, uploads, blobs, last, noteVars>>

\* handleMediaPaste(event, attachFormId)
handleMediaPaste(t) ==
  /\ OnForm /\ last.file < MaxFiles
  /\ asked' = t
  /\ last' = [last EXCEPT !.file = @ + 1]
  /\ WhenDialogReady(last'.file, t, 0)
  /\ UNCHANGED <<chooser, uploads>>

\* Its timer, every 50 ms
PasteTimer(f) ==
  /\ OnPage /\ f \in DOMAIN pastes
  /\ WhenDialogReady(f, pastes[f].target, pastes[f].attempts)
  /\ UNCHANGED <<asked, chooser, uploads, last>>

\* The dialog comes and takes the place of the one before.
ListAnswered ==
  /\ OnPage /\ asked # None /\ Cardinality(Orphans) < MaxTimers
  /\ asked' = None
  /\ dialog' = NewDialog(asked)
  /\ chooser' = FALSE /\ previews' = << >>
  /\ uploads' = {[u EXCEPT !.attached = FALSE] : u \in uploads}
  /\ AjaxSuccess
  /\ UNCHANGED <<pastes, blobs, last>>

ListFails(status) ==
  /\ OnPage /\ asked # None /\ asked' = None
  /\ AjaxError(status)
  /\ UNCHANGED <<dialog, chooser, previews, pastes, uploads, blobs, last>>

-----------------------------------------------------------------------------
(* In the dialog *)

\* closeRostraDialog(dialog), on Escape or by an attached medium: no cleanup.
Escape ==
  /\ InDialog
  /\ dialog' = [dialog EXCEPT !.open = FALSE]
  /\ UNCHANGED <<asked, chooser, previews, pastes, uploads, blobs, last, noteVars>>

\* The Upload button as the server renders it
OpenChooser ==
  /\ InDialog /\ dialog.upload = Orig /\ chooser' = TRUE
  /\ UNCHANGED <<asked, dialog, previews, pastes, uploads, blobs, last, noteVars>>

\* uploadMediaFile(inputEl), or nothing was chosen
uploadMediaFile(chosen) ==
  /\ OnPage /\ chooser /\ chooser' = FALSE
  /\ IF ~ chosen THEN UNCHANGED <<dialog, previews, blobs, last>>
     ELSE /\ last.file < MaxFiles
          /\ last' = [last EXCEPT !.file = @ + 1]
          /\ Preview(last'.file, TRUE)
  /\ UNCHANGED <<asked, pastes, uploads, noteVars>>

\* The Upload button of a preview: cleanup, then doMediaUpload(inputEl, file)
Upload ==
  LET f == dialog.upload IN
  /\ InDialog /\ f # Orig
  /\ dialog' = [cleanup(f) EXCEPT !.progress = TRUE]
  /\ previews' = Without(previews, f) /\ blobs' = blobs \ {f}
  /\ uploads' = uploads \cup {[file |-> f, input |-> previews[f].input, attached |-> TRUE]}
  /\ last' = [last EXCEPT !.upload = f, !.sent[f] = @ + 1]
  /\ UNCHANGED <<asked, chooser, pastes, noteVars>>

\* The Close button: closes, or cancels a preview.
CloseOrCancel ==
  LET f == dialog.close IN
  /\ InDialog
  /\ IF f = Orig
     THEN /\ dialog' = [dialog EXCEPT !.open = FALSE]
          /\ UNCHANGED <<previews, blobs>>
     ELSE /\ dialog' = [cleanup(f) EXCEPT !.input = IF previews[f].input THEN 0 ELSE @]
          /\ previews' = Without(previews, f) /\ blobs' = blobs \ {f}
  /\ UNCHANGED <<asked, chooser, pastes, uploads, last, noteVars>>

\* MUTANT: an upload that fails leaves the progress bar.
Ended_Bar(u, inserted) ==
  [dialog EXCEPT !.progress = @ /\ (~ u.attached \/ ~ inserted),
                 !.input = IF u.attached /\ u.input THEN 0 ELSE @,
                 !.open = @ /\ ~ inserted]

\* The listeners of load and error; the script of an upload that succeeded closes the
\* dialog that is there, whichever it is (insertMediaSyntax).
Ended(u, inserted) ==
  [dialog EXCEPT !.progress = @ /\ ~ u.attached,
                 !.input = IF u.attached /\ u.input THEN 0 ELSE @,
                 !.open = @ /\ ~ inserted]

UploadEnds(u, inserted) ==
  /\ OnPage /\ u \in uploads /\ uploads' = uploads \ {u}
  /\ dialog' = Ended(u, inserted)
  /\ notes' = IF inserted THEN addNotification(notes, "success", "uploaded")
              ELSE addNotification(notes, "error", "upload")
  /\ UNCHANGED <<asked, chooser, previews, pastes, blobs, last, page>>

-----------------------------------------------------------------------------

MediaNext ==
  \/ \E t \in Targets : Attach(t) \/ handleMediaPaste(t)
  \/ \E f \in DOMAIN pastes : PasteTimer(f)
  \/ \E s \in {0, 401} : ListFails(s)
  \/ \E b \in BOOLEAN : uploadMediaFile(b) \/ \E u \in uploads : UploadEnds(u, b)
  \/ ListAnswered \/ Escape \/ OpenChooser \/ Upload \/ CloseOrCancel
  \/ (Unlock \/ \E id \in notes.timers : DismissTimer(id) \/ Dismiss(id)) /\ UNCHANGED mediaVars

\* Timers run, as they do in every browser.
MediaFairness ==
  /\ \A f \in Files : WF_<<mediaVars, noteVars>>(PasteTimer(f))
  /\ \A id \in NoteIds : WF_<<mediaVars, noteVars>>(DismissTimer(id) /\ UNCHANGED mediaVars)

-----------------------------------------------------------------------------
(* Properties *)

\* Previews on top of each other, dialogs closed with Escape and late answers: both
\* buttons always belong to the same preview, what a preview shows is not revoked, no
\* file is sent twice, and when the last preview is gone the dialog is as the server
\* rendered it and the input is empty unless its file is being sent.
PreviewsUnwind ==
  /\ dialog.upload = dialog.close
  /\ dialog.upload # Orig => dialog.upload \in DOMAIN previews
  /\ dialog.active => dialog.shown = dialog.upload /\ dialog.shown \in blobs
  /\ \A f \in Files : last.sent[f] <= 1
  /\ dialog.upload = Orig =>
       /\ DOMAIN previews = {} /\ ~ dialog.active /\ dialog.items
       /\ dialog.title = "select" /\ dialog.label = "Close"
  /\ dialog.input # 0 =>
       dialog.input \in DOMAIN previews \cup {u.file : u \in uploads}

\* A progress bar on the page is that of an upload under way, the one that began last.
ProgressOfLast == dialog.progress =>
  \E u \in uploads : u.attached /\ u.file = last.upload

\* A pasted image is offered for upload, or the page says that it cannot: the retries
\* of previewMediaFileWhenDialogReady end.
PasteEnds == \A f \in Files :
  f \in DOMAIN pastes ~> \/ f \in blobs \/ last.sent[f] > 0 \/ page = "unlock"
                         \/ \E x \in notes.shown : x.message = "dialog"
=============================================================================
