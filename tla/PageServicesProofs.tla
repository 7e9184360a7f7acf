------------------------- MODULE PageServicesProofs -------------------------
(***************************************************************************)
(* Proofs about attaching media: however many previews lie on top of each    *)
(* other, the dialog finds its way back to what the server rendered.  The    *)
(* buttons only know the preview below them, so the argument is about the    *)
(* stack that these links make.                                              *)
(***************************************************************************)
EXTENDS PageServices, FiniteSetTheorems, TLAPS

-----------------------------------------------------------------------------
(* The invariant *)

Handlers == {Orig} \cup Files
Titles == {"select", "preview"}

Closures == [title : Titles, upload : Handlers, close : Handlers, input : BOOLEAN]

Dialogs ==
  [target : Targets \cup {None}, open : BOOLEAN, title : Titles, items : BOOLEAN,
   label : {"Close", "Cancel"}, active : BOOLEAN, shown : Handlers, upload : Handlers,
   close : Handlers, progress : BOOLEAN, input : Handlers]

Uploads == [file : Files, input : BOOLEAN, attached : BOOLEAN]

MediaTypeOK ==
  /\ asked \in Targets \cup {None}
  /\ dialog \in Dialogs
  /\ DOMAIN previews \subseteq Files /\ previews \in [DOMAIN previews -> Closures]
  /\ DOMAIN pastes \subseteq Files
  /\ uploads \subseteq Uploads
  /\ last \in [file : Handlers, upload : Handlers, sent : [Files -> Nat]]

\* A file waits, is previewed or is sent, and never two of these.
FilesOnce ==
  /\ DOMAIN previews \cap DOMAIN pastes = {}
  /\ \A f \in DOMAIN previews \cup DOMAIN pastes : f <= last.file /\ last.sent[f] = 0
  /\ \A f \in Files : last.sent[f] <= 1 /\ (f > last.file => last.sent[f] = 0)
  /\ \A u \in uploads : last.sent[u.file] = 1
  /\ \A u, w \in uploads : u.file = w.file => u = w

\* What lies under the i-th of the previews s, counted from the bottom
Under(s, i) == IF i = 1 THEN Orig ELSE s[i - 1]

\* The closures p are the n previews s, and top is the handler on the buttons.
IsStack(s, n, p, top) ==
  /\ n \in Nat /\ s \in [1 .. n -> DOMAIN p]
  /\ \A i, j \in 1 .. n : s[i] = s[j] => i = j
  /\ \A f \in DOMAIN p : \E i \in 1 .. n : s[i] = f
  /\ top = Under(s, n + 1)
  /\ \A i \in 1 .. n : p[s[i]].upload = Under(s, i)

\* The links from the dialog's button reach every preview and end at the server's.
PreviewStack ==
  \E s \in [1 .. Cardinality(DOMAIN previews) -> DOMAIN previews] :
    IsStack(s, Cardinality(DOMAIN previews), previews, dialog.upload)

TitleOver(h) == IF h = Orig THEN "select" ELSE "preview"

\* What the dialog, and every closure, has of the preview below
LooksRight ==
  /\ dialog.upload = dialog.close /\ dialog.title = TitleOver(dialog.upload)
  /\ \A f \in DOMAIN previews :
       /\ previews[f].upload = previews[f].close
       /\ previews[f].title = TitleOver(previews[f].upload)
  /\ dialog.upload = Orig => ~ dialog.active /\ dialog.items /\ dialog.label = "Close"
  /\ dialog.active => dialog.shown = dialog.upload
  /\ DOMAIN previews \subseteq blobs

\* The file in the input is previewed from it, or is being sent from it to this dialog.
InputOwned == dialog.input # 0 =>
  \/ dialog.input \in DOMAIN previews /\ previews[dialog.input].input
  \/ \E u \in uploads : u.file = dialog.input /\ u.input /\ u.attached

MediaInv ==
  MediaTypeOK /\ FilesOnce /\ PreviewStack /\ LooksRight /\ InputOwned /\ ProgressOfLast

-----------------------------------------------------------------------------
(* Stacks *)

\* A preview is laid on top.
LEMMA StackPush ==
  ASSUME NEW s, NEW n, NEW p, NEW top, IsStack(s, n, p, top),
         NEW f, f \notin DOMAIN p, NEW r, r.upload = top
  PROVE  \E t \in [1 .. n + 1 -> DOMAIN With(p, f, r)] :
           IsStack(t, n + 1, With(p, f, r), f)
<1> DEFINE q == With(p, f, r)
           t == [i \in 1 .. n + 1 |-> IF i = n + 1 THEN f ELSE s[i]]
<1>1. DOMAIN q = DOMAIN p \cup {f} /\ q[f] = r /\ \A g \in DOMAIN p : q[g] = p[g]
  BY DEF With
<1>2. n \in Nat /\ s \in [1 .. n -> DOMAIN p] /\ \A i \in 1 .. n : s[i] \in DOMAIN p /\ t[i] = s[i]
  BY DEF IsStack
<1>3. t \in [1 .. n + 1 -> DOMAIN q] /\ t[n + 1] = f
  BY <1>1, <1>2
<1>4. \A i, j \in 1 .. n + 1 : t[i] = t[j] => i = j
  BY <1>2 DEF IsStack
<1>5. \A g \in DOMAIN q : \E i \in 1 .. n + 1 : t[i] = g
  <2> SUFFICES ASSUME NEW g \in DOMAIN q PROVE \E i \in 1 .. n + 1 : t[i] = g
    OBVIOUS
  <2>1. CASE g = f
    BY <2>1, <1>2, <1>3
  <2>2. CASE g # f
    <3>1. PICK i \in 1 .. n : s[i] = g
      BY <2>2, <1>1 DEF IsStack
    <3> QED
      BY <3>1, <1>2
  <2> QED
    BY <2>1, <2>2
<1>6. f = Under(t, n + 2)
  BY <1>2, <1>3 DEF Under
<1>7. ASSUME NEW i \in 1 .. n + 1 PROVE q[t[i]].upload = Under(t, i)
  <2>1. CASE i = n + 1
    <3>1. q[t[i]].upload = top
      BY <2>1, <1>1, <1>3
    <3>2. Under(t, i) = Under(s, n + 1)
      BY <2>1, <1>2 DEF Under
    <3> QED
      BY <3>1, <3>2 DEF IsStack
  <2>2. CASE i # n + 1
    <3>1. i \in 1 .. n
      BY <2>2, <1>2
    <3>2. q[t[i]].upload = p[s[i]].upload
      BY <3>1, <1>1, <1>2
    <3>3. Under(t, i) = Under(s, i)
      BY <3>1, <1>2 DEF Under
    <3> QED
      BY <3>1, <3>2, <3>3 DEF IsStack
  <2> QED
    BY <2>1, <2>2
<1> HIDE DEF q, t
<1>8. n + 1 \in Nat /\ (n + 1) + 1 = n + 2
  BY <1>2
<1>9. IsStack(t, n + 1, q, f)
  BY <1>3, <1>4, <1>5, <1>6, <1>7, <1>8 DEF IsStack
<1> QED
  BY <1>3, <1>9 DEF q

\* The one on top is taken away: what it kept is what lay below.
LEMMA StackPop ==
  ASSUME NEW s, NEW n, NEW p, NEW top, IsStack(s, n, p, top), top # Orig
  PROVE  /\ top \in DOMAIN p
         /\ n - 1 \in Nat
         /\ \E t \in [1 .. n - 1 -> DOMAIN Without(p, top)] :
              IsStack(t, n - 1, Without(p, top), p[top].upload)
<1> DEFINE q == Without(p, top)
           t == [i \in 1 .. n - 1 |-> s[i]]
<1>1. DOMAIN q = DOMAIN p \ {top} /\ \A g \in DOMAIN q : q[g] = p[g]
  BY DEF Without
<1>2. n \in Nat /\ s \in [1 .. n -> DOMAIN p] /\ \A i \in 1 .. n : s[i] \in DOMAIN p
  BY DEF IsStack
<1>3. n - 1 \in Nat /\ n \in 1 .. n /\ s[n] = top
  BY <1>2 DEF IsStack, Under
<1>4. \A i \in 1 .. n - 1 : i \in 1 .. n /\ t[i] = s[i] /\ s[i] # top /\ s[i] \in DOMAIN q
  BY <1>1, <1>2, <1>3 DEF IsStack
<1>5. t \in [1 .. n - 1 -> DOMAIN q]
  BY <1>4
<1>6. \A i, j \in 1 .. n - 1 : t[i] = t[j] => i = j
  BY <1>4 DEF IsStack
<1>7. ASSUME NEW g \in DOMAIN q PROVE \E i \in 1 .. n - 1 : t[i] = g
  <2>1. PICK i \in 1 .. n : s[i] = g
    BY <1>1 DEF IsStack
  <2>2. i \in 1 .. n - 1
    BY <2>1, <1>1, <1>3
  <2> QED
    BY <2>1, <2>2, <1>4
<1>8. p[top].upload = Under(t, n)
  <2>1. p[s[n]].upload = Under(s, n)
    BY <1>3 DEF IsStack
  <2>2. Under(t, n) = Under(s, n)
    BY <1>2, <1>3 DEF Under
  <2> QED
    BY <2>1, <2>2, <1>3
<1>9. ASSUME NEW i \in 1 .. n - 1 PROVE q[t[i]].upload = Under(t, i)
  <2>1. q[t[i]].upload = p[s[i]].upload
    BY <1>1, <1>4
  <2>2. Under(t, i) = Under(s, i)
    BY <1>2, <1>3 DEF Under
  <2> QED
    BY <2>1, <2>2, <1>4 DEF IsStack
<1> HIDE DEF q, t
<1>10. (n - 1) + 1 = n
  BY <1>2
<1>11. IsStack(t, n - 1, q, p[top].upload)
  BY <1>3, <1>5, <1>6, <1>7, <1>8, <1>9, <1>10 DEF IsStack
<1> QED
  BY <1>2, <1>3, <1>5, <1>11 DEF q

\* With the server's handler on the buttons no preview is left.
LEMMA StackEmpty ==
  ASSUME NEW s, NEW n, NEW p, DOMAIN p \subseteq Files, IsStack(s, n, p, Orig)
  PROVE  DOMAIN p = {}
<1>1. n \in Nat /\ s \in [1 .. n -> DOMAIN p] /\ Orig \notin DOMAIN p
  BY MediaAssumption DEF IsStack, Files, Orig
<1>2. n = 0
  BY <1>1 DEF IsStack, Under
<1> QED
  BY <1>1, <1>2 DEF IsStack

-----------------------------------------------------------------------------
(* The steps *)

LEMMA FilesFacts ==
  /\ Files \subseteq Nat /\ Orig \in Nat /\ Orig \notin Files /\ IsFiniteSet(Files)
  /\ Handlers \subseteq Nat
<1>1. IsFiniteSet(Files)
  BY MediaAssumption, FS_Interval DEF Files
<1> QED
  BY <1>1, MediaAssumption DEF Files, Orig, Handlers

\* previewMediaFile of a file that is neither previewed nor sent
LEMMA PreviewKeeps ==
  ASSUME MediaInv, NEW f \in Files, NEW input \in BOOLEAN, Preview(f, input),
         f \notin DOMAIN previews, last.sent[f] = 0,
         f <= last'.file, last.file <= last'.file, last'.file \in Handlers,
         last' = [last EXCEPT !.file = last'.file],
         DOMAIN pastes' = DOMAIN pastes \ {f}, uploads' = uploads,
         asked' \in Targets \cup {None}
  PROVE  MediaInv'
<1> USE FilesFacts
<1>1. /\ DOMAIN previews' = DOMAIN previews \cup {f}
      /\ previews'[f] = [title |-> dialog.title, upload |-> dialog.upload,
                         close |-> dialog.close, input |-> input]
      /\ \A g \in DOMAIN previews : previews'[g] = previews[g]
  BY DEF Preview, With, MediaInv
<1>2. /\ dialog'.upload = f /\ dialog'.close = f /\ dialog'.title = "preview"
      /\ dialog'.active /\ dialog'.shown = f /\ dialog'.progress = dialog.progress
      /\ dialog'.input = IF input THEN f ELSE dialog.input
      /\ dialog' \in Dialogs
  BY DEF Preview, MediaInv, MediaTypeOK, Dialogs, Titles, Handlers
<1>3. MediaTypeOK'
  <2>1. \A g \in DOMAIN previews' : previews'[g] \in Closures
    BY <1>1 DEF MediaInv, MediaTypeOK, Closures, Dialogs
  <2>2. previews' = [g \in DOMAIN previews' |-> previews'[g]]
    BY <1>1 DEF Preview, With
  <2>3. previews' \in [DOMAIN previews' -> Closures]
    BY <2>1, <2>2
  <2>4. last' \in [file : Handlers, upload : Handlers, sent : [Files -> Nat]]
    BY DEF MediaInv, MediaTypeOK
  <2> QED
    BY <1>1, <1>2, <2>3, <2>4 DEF MediaInv, MediaTypeOK
<1>4. FilesOnce'
  <2>1. last'.sent = last.sent /\ last.file \in Nat /\ last'.file \in Nat
    BY DEF MediaInv, MediaTypeOK
  <2> QED
    BY <1>1, <2>1 DEF MediaInv, MediaTypeOK, FilesOnce
<1>5. PreviewStack'
  <2> DEFINE n == Cardinality(DOMAIN previews)
  <2>1. PICK s \in [1 .. n -> DOMAIN previews] : IsStack(s, n, previews, dialog.upload)
    BY DEF MediaInv, PreviewStack
  <2> DEFINE r == [title |-> dialog.title, upload |-> dialog.upload,
                   close |-> dialog.close, input |-> input]
  <2>2. previews' = With(previews, f, r) /\ r.upload = dialog.upload
    BY DEF Preview
  <2>3. Cardinality(DOMAIN previews') = n + 1
    <3>1. IsFiniteSet(DOMAIN previews)
      BY FS_Subset DEF MediaInv, MediaTypeOK
    <3>2. DOMAIN previews' = DOMAIN previews \cup {f} /\ f \notin DOMAIN previews
      BY <1>1
    <3>3. Cardinality(DOMAIN previews \cup {f}) = Cardinality(DOMAIN previews) + 1
      BY ONLY <3>1, <3>2, FS_AddElement
    <3> QED
      BY ONLY <3>2, <3>3
  <2> HIDE DEF n, r
  <2>4. \E t \in [1 .. n + 1 -> DOMAIN previews'] : IsStack(t, n + 1, previews', f)
    BY <2>1, <2>2, StackPush
  <2> QED
    BY <1>2, <2>3, <2>4 DEF PreviewStack
<1>6. LooksRight'
  BY <1>1, <1>2 DEF MediaInv, LooksRight, TitleOver, Preview
<1>7. InputOwned'
  BY <1>1, <1>2 DEF MediaInv, InputOwned
<1>8. ProgressOfLast'
  <2>1. last'.upload = last.upload
    BY DEF MediaInv, MediaTypeOK
  <2> QED
    BY <1>2, <2>1 DEF MediaInv, ProgressOfLast
<1> QED
  BY <1>3, <1>4, <1>5, <1>6, <1>7, <1>8 DEF MediaInv

\* cleanup of the preview on top
LEMMA CleanupKeeps ==
  ASSUME MediaInv, NEW f, f = dialog.upload, f # Orig,
         previews' = Without(previews, f), blobs' = blobs \ {f},
         NEW c, c = cleanup(f), dialog' \in Dialogs,
         dialog'.upload = c.upload, dialog'.close = c.close, dialog'.title = c.title,
         dialog'.active = c.active, dialog'.items = c.items, dialog'.label = c.label
  PROVE  /\ f \in DOMAIN previews /\ DOMAIN previews' = DOMAIN previews \ {f}
         /\ \A g \in DOMAIN previews' : previews'[g] = previews[g]
         /\ previews' \in [DOMAIN previews' -> Closures]
         /\ PreviewStack' /\ LooksRight'
<1> USE FilesFacts
<1> DEFINE n == Cardinality(DOMAIN previews)
<1>1. PICK s \in [1 .. n -> DOMAIN previews] : IsStack(s, n, previews, dialog.upload)
  BY DEF MediaInv, PreviewStack
<1>2. n \in Nat /\ IsFiniteSet(DOMAIN previews)
  BY FS_Subset, FS_CardinalityType DEF MediaInv, MediaTypeOK
<1> HIDE DEF n
<1>3. /\ f \in DOMAIN previews
      /\ \E t \in [1 .. n - 1 -> DOMAIN previews'] :
           IsStack(t, n - 1, previews', previews[f].upload)
  BY <1>1, StackPop
<1>4. /\ DOMAIN previews' = DOMAIN previews \ {f}
      /\ \A g \in DOMAIN previews' : previews'[g] = previews[g]
  BY DEF Without
<1>5. previews' \in [DOMAIN previews' -> Closures]
  <2>1. previews' = [g \in DOMAIN previews \ {f} |-> previews[g]]
    BY DEF Without
  <2> QED
    BY <1>4, <2>1 DEF MediaInv, MediaTypeOK
<1>6. /\ dialog'.upload = previews[f].upload /\ dialog'.close = previews[f].close
      /\ dialog'.title = previews[f].title /\ dialog'.active = FALSE
      /\ dialog'.items = TRUE /\ dialog'.label = "Close"
  BY DEF MediaInv, MediaTypeOK, Dialogs, cleanup
<1>7. Cardinality(DOMAIN previews') = n - 1
  BY <1>2, <1>3, <1>4, FS_RemoveElement DEF n
<1>8. PreviewStack'
  BY <1>3, <1>6, <1>7 DEF PreviewStack
<1>9. LooksRight'
  BY <1>3, <1>4, <1>6 DEF MediaInv, LooksRight
<1> QED
  BY <1>3, <1>4, <1>5, <1>8, <1>9

\* A preview is asked for when the dialog is ready, later, or never.
LEMMA WhenReadyKeeps ==
  ASSUME MediaInv, NEW f \in Files, NEW t, NEW k, WhenDialogReady(f, t, k),
         f \notin DOMAIN previews, last.sent[f] = 0,
         f <= last'.file, last.file <= last'.file, last'.file \in Handlers,
         last' = [last EXCEPT !.file = last'.file],
         uploads' = uploads, asked' \in Targets \cup {None}
  PROVE  MediaInv'
<1>1. CASE dialog.target = t /\ Preview(f, FALSE) /\ pastes' = Without(pastes, f)
  <2>1. DOMAIN pastes' = DOMAIN pastes \ {f}
    BY <1>1 DEF Without
  <2> QED
    BY <1>1, <2>1, PreviewKeeps
<1>2. CASE /\ pastes' = With(pastes, f, [target |-> t, attempts |-> k + 1])
              \/ pastes' = Without(pastes, f)
           /\ UNCHANGED <<dialog, previews, blobs>>
  <2>1. DOMAIN pastes' \subseteq DOMAIN pastes \cup {f}
    BY <1>2 DEF With, Without
  <2>2. /\ last' \in [file : Handlers, upload : Handlers, sent : [Files -> Nat]]
        /\ last'.sent = last.sent /\ last'.upload = last.upload
        /\ last.file \in Nat /\ last'.file \in Nat
    BY FilesFacts DEF MediaInv, MediaTypeOK
  <2>3. MediaTypeOK'
    BY <1>2, <2>1, <2>2 DEF MediaInv, MediaTypeOK
  <2>4. FilesOnce'
    BY <1>2, <2>1, <2>2, FilesFacts DEF MediaInv, MediaTypeOK, FilesOnce
  <2>5. PreviewStack'
    BY <1>2 DEF MediaInv, PreviewStack
  <2>6. LooksRight' /\ InputOwned' /\ ProgressOfLast'
    BY <1>2, <2>2 DEF MediaInv, LooksRight, InputOwned, ProgressOfLast
  <2> QED
    BY <2>3, <2>4, <2>5, <2>6 DEF MediaInv
<1> QED
  BY <1>1, <1>2 DEF WhenDialogReady

\* Steps that leave the files alone: the dialog is closed, or as before.
LEMMA DoorKeeps ==
  ASSUME MediaInv, UNCHANGED <<previews, pastes, uploads, blobs, last>>,
         asked' \in Targets \cup {None},
         \/ dialog' = dialog
         \/ dialog' = [dialog EXCEPT !.open = FALSE]
  PROVE  MediaInv'
<1>1. /\ dialog' \in Dialogs
      /\ dialog'.upload = dialog.upload /\ dialog'.close = dialog.close
      /\ dialog'.title = dialog.title /\ dialog'.active = dialog.active
      /\ dialog'.items = dialog.items /\ dialog'.label = dialog.label
      /\ dialog'.shown = dialog.shown /\ dialog'.input = dialog.input
      /\ dialog'.progress = dialog.progress
  BY DEF MediaInv, MediaTypeOK, Dialogs
<1>2. MediaTypeOK' /\ FilesOnce'
  BY <1>1 DEF MediaInv, MediaTypeOK, FilesOnce
<1>3. PreviewStack'
  BY <1>1 DEF MediaInv, PreviewStack
<1>4. LooksRight' /\ InputOwned' /\ ProgressOfLast'
  BY <1>1 DEF MediaInv, LooksRight, InputOwned, ProgressOfLast
<1> QED
  BY <1>2, <1>3, <1>4 DEF MediaInv

\* The file that comes next is a new one.
LEMMA NextFileNew ==
  ASSUME MediaInv, last.file < MaxFiles, last' = [last EXCEPT !.file = @ + 1]
  PROVE  /\ last'.file \in Files /\ last'.file \in Handlers /\ last.file <= last'.file
         /\ last' = [last EXCEPT !.file = last'.file]
         /\ last'.file \notin DOMAIN previews /\ last.sent[last'.file] = 0
<1>1. last.file \in Nat /\ last'.file = last.file + 1
  BY FilesFacts DEF MediaInv, MediaTypeOK
<1>2. last'.file \in Files
  BY <1>1, MediaAssumption DEF Files
<1> QED
  BY <1>1, <1>2, FilesFacts DEF MediaInv, MediaTypeOK, FilesOnce, Handlers

LEMMA PasteKeeps ==
  ASSUME MediaInv, NEW t \in Targets, handleMediaPaste(t)
  PROVE  MediaInv'
<1>1. last.file < MaxFiles /\ last' = [last EXCEPT !.file = @ + 1] /\ uploads' = uploads
      /\ WhenDialogReady(last'.file, t, 0) /\ asked' = t
  BY DEF handleMediaPaste
<1>2. last'.file <= last'.file
  BY <1>1, NextFileNew, FilesFacts
<1> QED
  BY <1>1, <1>2, NextFileNew, WhenReadyKeeps

LEMMA PasteTimerKeeps ==
  ASSUME MediaInv, NEW f \in DOMAIN pastes, PasteTimer(f)
  PROVE  MediaInv'
<1>1. /\ WhenDialogReady(f, pastes[f].target, pastes[f].attempts)
      /\ UNCHANGED <<asked, uploads, last>>
  BY DEF PasteTimer
<1>2. /\ f \in Files /\ f \notin DOMAIN previews /\ last.sent[f] = 0
      /\ f <= last'.file /\ last'.file \in Handlers /\ last.file <= last'.file
      /\ last' = [last EXCEPT !.file = last'.file] /\ asked' \in Targets \cup {None}
  BY <1>1, FilesFacts DEF MediaInv, MediaTypeOK, FilesOnce
<1> QED
  BY <1>1, <1>2, WhenReadyKeeps

\* A new dialog: nothing of the old one can be reached, and the uploads lose it.
LEMMA ListAnsweredKeeps ==
  ASSUME MediaInv, ListAnswered
  PROVE  MediaInv'
<1> USE FilesFacts
<1>1. /\ asked' = None /\ dialog' = NewDialog(asked) /\ previews' = << >>
      /\ uploads' = {[u EXCEPT !.attached = FALSE] : u \in uploads}
      /\ UNCHANGED <<pastes, blobs, last>>
  BY DEF ListAnswered
<1>2. DOMAIN previews' = {} /\ previews' \in [DOMAIN previews' -> Closures]
  BY <1>1
<1>3. /\ dialog' \in Dialogs /\ dialog'.upload = Orig /\ dialog'.close = Orig
      /\ dialog'.title = "select" /\ dialog'.active = FALSE /\ dialog'.items = TRUE
      /\ dialog'.label = "Close" /\ dialog'.input = 0 /\ dialog'.progress = FALSE
  BY <1>1 DEF NewDialog, Dialogs, MediaInv, MediaTypeOK, Handlers, Titles, Orig
<1>4. \A v \in uploads' : \E u \in uploads :
        v \in Uploads /\ v = [u EXCEPT !.attached = FALSE] /\ v.file = u.file
  BY <1>1 DEF MediaInv, MediaTypeOK, Uploads
<1>5. MediaTypeOK'
  BY <1>1, <1>2, <1>3, <1>4 DEF MediaInv, MediaTypeOK
<1>6. FilesOnce'
  <2>1. \A u \in uploads' : last.sent[u.file] = 1
    BY <1>4 DEF MediaInv, FilesOnce
  <2>2. ASSUME NEW v \in uploads', NEW w \in uploads', v.file = w.file PROVE v = w
    <3>1. PICK a \in uploads : v = [a EXCEPT !.attached = FALSE] /\ v.file = a.file
      BY <1>4
    <3>2. PICK b \in uploads : w = [b EXCEPT !.attached = FALSE] /\ w.file = b.file
      BY <1>4
    <3>3. a = b
      BY <2>2, <3>1, <3>2 DEF MediaInv, FilesOnce
    <3> QED
      BY <3>1, <3>2, <3>3
  <2> QED
    BY <1>1, <1>2, <2>1, <2>2 DEF MediaInv, FilesOnce
<1>7. PreviewStack'
  <2> DEFINE s == [i \in 1 .. 0 |-> Orig]
  <2>1. Cardinality(DOMAIN previews') = 0
    BY <1>2, FS_EmptySet
  <2>2. s \in [1 .. 0 -> DOMAIN previews']
    OBVIOUS
  <2>3. IsStack(s, 0, previews', Orig)
    BY <1>2, <2>2 DEF IsStack, Under
  <2> QED
    BY <1>3, <2>1, <2>2, <2>3 DEF PreviewStack
<1>8. LooksRight' /\ InputOwned' /\ ProgressOfLast'
  BY <1>1, <1>2, <1>3 DEF LooksRight, InputOwned, ProgressOfLast, TitleOver
<1> QED
  BY <1>5, <1>6, <1>7, <1>8 DEF MediaInv

LEMMA ChooserKeeps ==
  ASSUME MediaInv, NEW chosen \in BOOLEAN, uploadMediaFile(chosen)
  PROVE  MediaInv'
<1>1. CASE ~ chosen
  <2>1. UNCHANGED <<dialog, previews, pastes, uploads, blobs, last, asked>>
    BY <1>1 DEF uploadMediaFile
  <2>2. asked' \in Targets \cup {None}
    BY <2>1 DEF MediaInv, MediaTypeOK
  <2> QED
    BY <2>1, <2>2, DoorKeeps
<1>2. CASE chosen
  <2>1. /\ last.file < MaxFiles /\ last' = [last EXCEPT !.file = @ + 1]
        /\ Preview(last'.file, TRUE) /\ UNCHANGED <<asked, pastes, uploads>>
    BY <1>2 DEF uploadMediaFile
  <2>2. last'.file <= last'.file /\ asked' \in Targets \cup {None}
    BY <2>1, NextFileNew, FilesFacts DEF MediaInv, MediaTypeOK
  <2>3. last'.file \notin DOMAIN pastes
    <3>1. last.file \in Nat /\ last'.file = last.file + 1
      BY <2>1, FilesFacts DEF MediaInv, MediaTypeOK
    <3> QED
      BY <3>1 DEF MediaInv, FilesOnce
  <2>4. DOMAIN pastes' = DOMAIN pastes \ {last'.file}
    BY <2>1, <2>3
  <2> QED
    BY <2>1, <2>2, <2>4, NextFileNew, PreviewKeeps
<1> QED
  BY <1>1, <1>2

LEMMA UploadKeeps ==
  ASSUME MediaInv, Upload
  PROVE  MediaInv'
<1> USE FilesFacts
<1> DEFINE f == dialog.upload
           c == cleanup(f)
           v == [file |-> f, input |-> previews[f].input, attached |-> TRUE]
<1>1. /\ f # Orig /\ dialog' = [c EXCEPT !.progress = TRUE]
      /\ previews' = Without(previews, f) /\ blobs' = blobs \ {f}
      /\ uploads' = uploads \cup {v}
      /\ last' = [last EXCEPT !.upload = f, !.sent[f] = @ + 1]
      /\ UNCHANGED <<asked, pastes>>
  BY DEF Upload
<1>2. f \in DOMAIN previews /\ f \in Files /\ previews[f] \in Closures
  <2>1. f \in DOMAIN previews
    BY <1>1, StackPop DEF MediaInv, PreviewStack
  <2> QED
    BY <2>1 DEF MediaInv, MediaTypeOK
<1>3. c \in Dialogs /\ c.input = dialog.input
  BY <1>2 DEF cleanup, MediaInv, MediaTypeOK, Dialogs, Closures
<1> HIDE DEF c
<1>4. /\ dialog' \in Dialogs
      /\ dialog'.upload = c.upload /\ dialog'.close = c.close /\ dialog'.title = c.title
      /\ dialog'.active = c.active /\ dialog'.items = c.items /\ dialog'.label = c.label
      /\ dialog'.input = dialog.input
  BY <1>1, <1>3 DEF Dialogs
<1>5. /\ DOMAIN previews' = DOMAIN previews \ {f}
      /\ \A g \in DOMAIN previews' : previews'[g] = previews[g]
      /\ previews' \in [DOMAIN previews' -> Closures]
      /\ PreviewStack' /\ LooksRight'
  BY <1>1, <1>4, CleanupKeeps DEF c
<1>6. /\ last' \in [file : Handlers, upload : Handlers, sent : [Files -> Nat]]
      /\ last'.file = last.file /\ last'.upload = f /\ last'.sent[f] = last.sent[f] + 1
      /\ \A g \in Files : g # f => last'.sent[g] = last.sent[g]
  <2>1. last \in [file : Handlers, upload : Handlers, sent : [Files -> Nat]] /\ f \in Handlers
    BY <1>2 DEF MediaInv, MediaTypeOK, Handlers
  <2> HIDE DEF f
  <2>2. last'.sent = [last.sent EXCEPT ![f] = @ + 1]
    BY <1>1, <2>1
  <2>3. last'.sent \in [Files -> Nat]
    BY <1>2, <2>1, <2>2
  <2> QED
    BY <1>1, <1>2, <2>1, <2>2, <2>3
<1>7. v \in Uploads /\ v.file = f /\ v.attached = TRUE /\ v.input = previews[f].input
  BY <1>2 DEF Uploads, Closures
<1> HIDE DEF v, f
<1>8. MediaTypeOK'
  BY <1>1, <1>4, <1>5, <1>6, <1>7 DEF MediaInv, MediaTypeOK
<1>9. FilesOnce'
  <2>1. last.sent[f] = 0 /\ f <= last.file /\ f \notin DOMAIN pastes
    BY <1>2 DEF MediaInv, FilesOnce
  <2>2. \A u \in uploads : u.file # f /\ u.file \in Files
    BY <2>1 DEF MediaInv, FilesOnce, MediaTypeOK, Uploads
  <2>3. \A u \in uploads' : last'.sent[u.file] = 1
    BY <1>1, <1>6, <1>7, <2>1, <2>2 DEF MediaInv, FilesOnce
  <2>4. \A u, w \in uploads' : u.file = w.file => u = w
    BY <1>1, <1>7, <2>2 DEF MediaInv, FilesOnce
  <2>5. \A g \in DOMAIN previews' \cup DOMAIN pastes' : g <= last'.file /\ last'.sent[g] = 0
    BY <1>1, <1>5, <1>6, <2>1 DEF MediaInv, FilesOnce, MediaTypeOK
  <2>6. \A g \in Files : last'.sent[g] <= 1 /\ (g > last'.file => last'.sent[g] = 0)
    BY <1>2, <1>6, <2>1 DEF MediaInv, FilesOnce, MediaTypeOK
  <2> QED
    BY <1>1, <1>5, <2>3, <2>4, <2>5, <2>6 DEF MediaInv, FilesOnce
<1>10. InputOwned'
  BY <1>1, <1>4, <1>5, <1>7 DEF MediaInv, InputOwned
<1>11. ProgressOfLast'
  BY <1>1, <1>6, <1>7 DEF ProgressOfLast
<1> QED
  BY <1>5, <1>8, <1>9, <1>10, <1>11 DEF MediaInv

LEMMA CloseOrCancelKeeps ==
  ASSUME MediaInv, CloseOrCancel
  PROVE  MediaInv'
<1> USE FilesFacts
<1> DEFINE f == dialog.close
           c == cleanup(f)
<1>0. dialog.upload = f /\ asked' \in Targets \cup {None}
  BY DEF MediaInv, LooksRight, CloseOrCancel, MediaTypeOK
<1>1. CASE f = Orig
  BY <1>0, <1>1, DoorKeeps DEF CloseOrCancel
<1>2. CASE f # Orig
  <2>1. /\ dialog' = [c EXCEPT !.input = IF previews[f].input THEN 0 ELSE @]
        /\ previews' = Without(previews, f) /\ blobs' = blobs \ {f}
        /\ UNCHANGED <<asked, pastes, uploads, last>>
    BY <1>2 DEF CloseOrCancel
  <2>2. f \in DOMAIN previews /\ f \in Files /\ previews[f] \in Closures
    <3>1. f \in DOMAIN previews
      BY <1>0, <1>2, StackPop DEF MediaInv, PreviewStack
    <3> QED
      BY <3>1 DEF MediaInv, MediaTypeOK
  <2>3. c \in Dialogs /\ c.input = dialog.input /\ c.progress = dialog.progress
    BY <2>2 DEF cleanup, MediaInv, MediaTypeOK, Dialogs, Closures
  <2> HIDE DEF c
  <2>4. /\ dialog' \in Dialogs
        /\ dialog'.upload = c.upload /\ dialog'.close = c.close /\ dialog'.title = c.title
        /\ dialog'.active = c.active /\ dialog'.items = c.items /\ dialog'.label = c.label
        /\ dialog'.input = IF previews[f].input THEN 0 ELSE dialog.input
        /\ dialog'.progress = dialog.progress
    BY <2>1, <2>3 DEF Dialogs, Handlers, Orig
  <2>5. /\ DOMAIN previews' = DOMAIN previews \ {f}
        /\ \A g \in DOMAIN previews' : previews'[g] = previews[g]
        /\ previews' \in [DOMAIN previews' -> Closures]
        /\ PreviewStack' /\ LooksRight'
    BY <1>0, <1>2, <2>1, <2>4, CleanupKeeps DEF c
  <2> HIDE DEF f
  <2>6. MediaTypeOK' /\ FilesOnce'
    BY <2>1, <2>4, <2>5 DEF MediaInv, MediaTypeOK, FilesOnce
  <2>7. InputOwned' /\ ProgressOfLast'
    BY <2>1, <2>4, <2>5 DEF MediaInv, InputOwned, ProgressOfLast
  <2> QED
    BY <2>5, <2>6, <2>7 DEF MediaInv
<1> QED
  BY <1>1, <1>2

LEMMA UploadEndsKeeps ==
  ASSUME MediaInv, NEW u \in uploads, NEW inserted \in BOOLEAN, UploadEnds(u, inserted)
  PROVE  MediaInv'
<1> USE FilesFacts
<1>1. /\ uploads' = uploads \ {u} /\ dialog' = Ended(u, inserted)
      /\ UNCHANGED <<asked, previews, pastes, blobs, last>>
  BY DEF UploadEnds
<1>2. u \in Uploads
  BY DEF MediaInv, MediaTypeOK
<1>3. /\ dialog' \in Dialogs
      /\ dialog'.upload = dialog.upload /\ dialog'.close = dialog.close
      /\ dialog'.title = dialog.title /\ dialog'.active = dialog.active
      /\ dialog'.items = dialog.items /\ dialog'.label = dialog.label
      /\ dialog'.shown = dialog.shown
      /\ dialog'.input = IF u.attached /\ u.input THEN 0 ELSE dialog.input
      /\ (dialog'.progress => dialog.progress /\ ~ u.attached)
  <2> DEFINE bar == dialog.progress /\ ~ u.attached
             file == IF u.attached /\ u.input THEN 0 ELSE dialog.input
             door == dialog.open /\ ~ inserted
  <2>1. dialog' = [dialog EXCEPT !.progress = bar, !.input = file, !.open = door]
    BY <1>1 DEF Ended
  <2>2. bar \in BOOLEAN /\ door \in BOOLEAN
    OBVIOUS
  <2>3. file \in Handlers
    BY DEF MediaInv, MediaTypeOK, Dialogs, Handlers, Orig
  <2> HIDE DEF bar, file, door
  <2>4. dialog \in Dialogs
    BY DEF MediaInv, MediaTypeOK
  <2>5. /\ dialog' \in Dialogs
        /\ dialog'.upload = dialog.upload /\ dialog'.close = dialog.close
        /\ dialog'.title = dialog.title /\ dialog'.active = dialog.active
        /\ dialog'.items = dialog.items /\ dialog'.label = dialog.label
        /\ dialog'.shown = dialog.shown /\ dialog'.input = file /\ dialog'.progress = bar
    BY <2>1, <2>2, <2>3, <2>4 DEF Dialogs
  <2> QED
    BY <2>5 DEF bar, file
<1>4. MediaTypeOK' /\ FilesOnce'
  BY <1>1, <1>3 DEF MediaInv, MediaTypeOK, FilesOnce
<1>5. PreviewStack'
  BY <1>1, <1>3 DEF MediaInv, PreviewStack
<1>6. LooksRight'
  BY <1>1, <1>3 DEF MediaInv, LooksRight
<1>7. InputOwned'
  BY <1>1, <1>3 DEF MediaInv, InputOwned
<1>8. ProgressOfLast'
  <2> SUFFICES ASSUME dialog'.progress
               PROVE  \E w \in uploads' : w.attached /\ w.file = last'.upload
    BY DEF ProgressOfLast
  <2>1. dialog.progress /\ ~ u.attached
    BY <1>3
  <2>2. PICK w \in uploads : w.attached /\ w.file = last.upload
    BY <2>1 DEF MediaInv, ProgressOfLast
  <2> QED
    BY <1>1, <2>1, <2>2
<1> QED
  BY <1>4, <1>5, <1>6, <1>7, <1>8 DEF MediaInv

-----------------------------------------------------------------------------
(* The theorems *)

LEMMA MediaInitial == Init => MediaInv
<1> SUFFICES ASSUME Init PROVE MediaInv
  OBVIOUS
<1> USE FilesFacts
<1>1. /\ asked = None /\ dialog = [NewDialog(None) EXCEPT !.open = FALSE]
      /\ previews = << >> /\ pastes = << >> /\ uploads = {} /\ blobs = {}
      /\ last = [file |-> 0, upload |-> 0, sent |-> [f \in Files |-> 0]]
  BY DEF Init, MediaInit
<1>2. DOMAIN previews = {} /\ previews \in [DOMAIN previews -> Closures] /\ DOMAIN pastes = {}
  BY <1>1
<1>3. /\ dialog \in Dialogs /\ dialog.upload = Orig /\ dialog.close = Orig
      /\ dialog.title = "select" /\ dialog.active = FALSE /\ dialog.items = TRUE
      /\ dialog.label = "Close" /\ dialog.input = 0 /\ dialog.progress = FALSE
  BY <1>1 DEF NewDialog, Dialogs, Handlers, Titles, Orig
<1>4. MediaTypeOK /\ FilesOnce
  BY <1>1, <1>2, <1>3 DEF MediaTypeOK, FilesOnce, Handlers, Orig
<1>5. PreviewStack
  <2> DEFINE s == [i \in 1 .. 0 |-> Orig]
  <2>1. Cardinality(DOMAIN previews) = 0
    BY <1>2, FS_EmptySet
  <2>2. s \in [1 .. 0 -> DOMAIN previews]
    OBVIOUS
  <2>3. IsStack(s, 0, previews, Orig)
    BY <1>2, <2>2 DEF IsStack, Under
  <2> QED
    BY <1>3, <2>1, <2>2, <2>3 DEF PreviewStack
<1>6. LooksRight /\ InputOwned /\ ProgressOfLast
  BY <1>1, <1>2, <1>3 DEF LooksRight, InputOwned, ProgressOfLast, TitleOver
<1> QED
  BY <1>4, <1>5, <1>6 DEF MediaInv

LEMMA MediaStep == MediaInv /\ [Next]_serviceVars => MediaInv'
<1> SUFFICES ASSUME MediaInv, [Next]_serviceVars PROVE MediaInv'
  OBVIOUS
<1>1. asked \in Targets \cup {None} /\ None \in Targets \cup {None}
  BY DEF MediaInv, MediaTypeOK
<1>2. CASE UNCHANGED mediaVars
  BY <1>1, <1>2, DoorKeeps DEF mediaVars
<1>3. CASE MediaNext
  <2>1. ASSUME NEW t \in Targets, Attach(t) PROVE MediaInv'
    BY <2>1, DoorKeeps DEF Attach
  <2>2. ASSUME NEW t \in Targets, handleMediaPaste(t) PROVE MediaInv'
    BY <2>2, PasteKeeps
  <2>3. ASSUME NEW f \in DOMAIN pastes, PasteTimer(f) PROVE MediaInv'
    BY <2>3, PasteTimerKeeps
  <2>4. ASSUME NEW st \in {0, 401}, ListFails(st) PROVE MediaInv'
    BY <1>1, <2>4, DoorKeeps DEF ListFails
  <2>5. ASSUME NEW b \in BOOLEAN, uploadMediaFile(b) PROVE MediaInv'
    BY <2>5, ChooserKeeps
  <2>6. ASSUME NEW b \in BOOLEAN, NEW u \in uploads, UploadEnds(u, b) PROVE MediaInv'
    BY <2>6, UploadEndsKeeps
  <2>7. CASE ListAnswered
    BY <2>7, ListAnsweredKeeps
  <2>8. CASE Escape
    BY <1>1, <2>8, DoorKeeps DEF Escape
  <2>9. CASE OpenChooser
    BY <1>1, <2>9, DoorKeeps DEF OpenChooser
  <2>10. CASE Upload
    BY <2>10, UploadKeeps
  <2>11. CASE CloseOrCancel
    BY <2>11, CloseOrCancelKeeps
  <2> QED
    BY <1>2, <1>3, <2>1, <2>2, <2>3, <2>4, <2>5, <2>6, <2>7, <2>8, <2>9, <2>10, <2>11
    DEF MediaNext
<1> QED
  BY <1>2, <1>3 DEF Next, serviceVars, attaching, mediaVars

\* Notifications come by addNotification, which looks first, and go one by one or as
\* errors.
NotesInv == notes = [shown |-> notes.shown, timers |-> notes.timers] /\ ShownOnce

LEMMA NotesStep == NotesInv /\ [Next]_serviceVars => NotesInv'
<1> SUFFICES ASSUME NotesInv, [Next]_serviceVars PROVE NotesInv'
  OBVIOUS
<1>1. CASE UNCHANGED notes
  BY <1>1 DEF NotesInv, ShownOnce
<1>2. ASSUME NEW type, NEW message, notes' = addNotification(notes, type, message)
      PROVE  NotesInv'
  <2>1. CASE \E x \in notes.shown : x.type = type /\ x.message = message
    BY <1>1, <1>2, <2>1 DEF addNotification
  <2>2. CASE ~ \E x \in notes.shown : x.type = type /\ x.message = message
    <3> DEFINE new == [id |-> NextId(notes, message), type |-> type, message |-> message]
    <3>1. /\ notes' = [shown |-> notes.shown \cup {new},
                       timers |-> notes.timers \cup {NextId(notes, message)}]
          /\ new.type = type /\ new.message = message
      BY <1>2, <2>2 DEF addNotification
    <3> HIDE DEF new
    <3> QED
      BY <2>2, <3>1 DEF NotesInv, ShownOnce
  <2> QED
    BY <2>1, <2>2
<1>3. ASSUME notes' = [shown |-> notes'.shown, timers |-> notes'.timers],
             notes'.shown \subseteq notes.shown
      PROVE  NotesInv'
  BY <1>3 DEF NotesInv, ShownOnce
<1>4. CASE AjaxSuccess
  <2>1. notes' = [notes EXCEPT !.shown = {x \in notes.shown : x.type # "error"}]
    BY <1>4 DEF AjaxSuccess, clearErrorNotifications
  <2> QED
    BY <1>3, <2>1 DEF NotesInv
<1>5. ASSUME NEW id, DismissTimer(id) PROVE NotesInv'
  <2>1. notes' = [[notes EXCEPT !.shown = {x \in notes.shown : x.id # id}]
                  EXCEPT !.timers = @ \ {id}]
    BY <1>5 DEF DismissTimer, removeNotification
  <2> QED
    BY <1>3, <2>1 DEF NotesInv
<1>6. ASSUME NEW id, Dismiss(id) PROVE NotesInv'
  <2>1. notes' = [notes EXCEPT !.shown = {x \in notes.shown : x.id # id}]
    BY <1>6 DEF Dismiss, removeNotification
  <2> QED
    BY <1>3, <2>1 DEF NotesInv
<1>7. ASSUME NEW f, NEW t, NEW k, WhenDialogReady(f, t, k) PROVE NotesInv'
  BY <1>1, <1>2, <1>7 DEF WhenDialogReady, GiveUp, noteVars
<1>8. CASE MediaNext
  <2>1. ASSUME NEW t \in Targets, Attach(t) PROVE NotesInv'
    BY <1>1, <2>1 DEF Attach, noteVars
  <2>2. ASSUME NEW t \in Targets, handleMediaPaste(t) PROVE NotesInv'
    BY <1>7, <2>2 DEF handleMediaPaste
  <2>3. ASSUME NEW f \in DOMAIN pastes, PasteTimer(f) PROVE NotesInv'
    BY <1>7, <2>3 DEF PasteTimer
  <2>4. ASSUME NEW st \in {0, 401}, ListFails(st) PROVE NotesInv'
    BY <1>2, <2>4 DEF ListFails, AjaxError
  <2>5. ASSUME NEW b \in BOOLEAN, uploadMediaFile(b) PROVE NotesInv'
    BY <1>1, <2>5 DEF uploadMediaFile, noteVars
  <2>6. ASSUME NEW b \in BOOLEAN, NEW u \in uploads, UploadEnds(u, b) PROVE NotesInv'
    BY <1>2, <2>6 DEF UploadEnds
  <2>7. CASE ListAnswered
    BY <1>4, <2>7 DEF ListAnswered
  <2>8. CASE Escape \/ OpenChooser \/ Upload \/ CloseOrCancel \/ Unlock
    BY <1>1, <2>8 DEF Escape, OpenChooser, Upload, CloseOrCancel, Unlock, noteVars
  <2> QED
    BY <1>5, <1>6, <1>8, <2>1, <2>2, <2>3, <2>4, <2>5, <2>6, <2>7, <2>8 DEF MediaNext
<1> QED
  BY <1>1, <1>8 DEF Next, serviceVars, attaching, noteVars

LEMMA MediaImplies == MediaInv => PreviewsUnwind
<1> SUFFICES ASSUME MediaInv PROVE PreviewsUnwind
  OBVIOUS
<1>1. dialog.upload # Orig => dialog.upload \in DOMAIN previews
  BY StackPop DEF MediaInv, PreviewStack
<1>2. dialog.upload = Orig => DOMAIN previews = {}
  BY StackEmpty DEF MediaInv, PreviewStack, MediaTypeOK
<1>3. /\ dialog.upload = dialog.close
      /\ dialog.active => dialog.shown = dialog.upload /\ dialog.shown \in blobs
      /\ dialog.upload = Orig =>
           /\ ~ dialog.active /\ dialog.items
           /\ dialog.title = "select" /\ dialog.label = "Close"
  BY <1>1 DEF MediaInv, LooksRight, TitleOver
<1>4. dialog.input # 0 => dialog.input \in DOMAIN previews \cup {u.file : u \in uploads}
  BY DEF MediaInv, InputOwned
<1>5. \A f \in Files : last.sent[f] <= 1
  BY DEF MediaInv, FilesOnce
<1> QED
  BY <1>1, <1>2, <1>3, <1>4, <1>5 DEF PreviewsUnwind

\* For any number of files and targets: however previews of pasted and chosen files are
\* laid over each other, sent, cancelled or left behind with Escape, each cleanup()
\* gives both buttons and the title back to the preview below, and the last one leaves
\* the dialog as the server rendered it; no file is sent twice.
THEOREM PreviewsCorrect == Spec => []PreviewsUnwind
  BY MediaInitial, MediaStep, MediaImplies, PTL DEF Spec

\* A progress bar is that of the upload that doMediaUpload began last: the listeners of
\* an upload whose dialog was replaced do not touch the new one's.
THEOREM ProgressCorrect == Spec => []ProgressOfLast
<1>1. MediaInv => ProgressOfLast
  BY DEF MediaInv
<1> QED
  BY <1>1, MediaInitial, MediaStep, PTL DEF Spec

\* A thing is reported once at a time, whatever fails and however often: timers that
\* outlive their notification, clicks and clearErrorNotifications() included.
THEOREM NotificationsOnce == Spec => []ShownOnce
<1>1. Init => NotesInv
  BY DEF Init, NotesInit, NotesInv, ShownOnce
<1>2. NotesInv => ShownOnce
  BY DEF NotesInv
<1> QED
  BY <1>1, <1>2, NotesStep, PTL DEF Spec
=============================================================================
