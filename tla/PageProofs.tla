----------------------------- MODULE PageProofs -----------------------------
(***************************************************************************)
(* Proofs about a page: dialogs and focus, keyboard navigation and small     *)
(* widgets.  Each of the three keeps an invariant of its own; the only step  *)
(* that needs two of them is the focusin that clears the selection.          *)
(***************************************************************************)
EXTENDS Page, FiniteSetTheorems, SequenceTheorems, NaturalsInduction,
        WellFoundedInduction, TLAPS

Modals == Range(Rostra) \cup {"shortcuts"}
Elements == Modals \cup Removable \cup {"composer", "body", "gone"}

UI == [focus : Elements, stack : Seq(Modals), cls : SUBSET Range(Rostra),
       current : Range(Rostra) \cup {None}, previously : [Modals -> Elements],
       trigger : Elements]

\* What comes and goes is there.
Present(e, h) == e \in Removable => e \in h

\* No dialog is open twice, an open one is -active, the active one is open; the focus is
\* on what is there, and while a dialog is open in the one on top or nowhere.
Sound(u, h) ==
  /\ u \in UI /\ Present(u.focus, h)
  /\ IsInjective(u.stack)
  /\ Range(u.stack) \subseteq u.cls \cup {"shortcuts"}
  /\ u.current # None => u.current \in Range(u.stack)
  /\ u.stack # << >> => u.focus \in {Top(u), "body"}

\* A dialog that came up alone gives the focus back to the element it came from, when
\* that is still there: the browser and rostraDialogFocus remember the same one.
GivesBack(u, h, o) ==
  o \in h \cup {"composer"} =>
    LET d == u.stack[1] IN
    /\ u.previously[d] = o
    /\ d # "shortcuts" => u.current = d /\ u.trigger = o

DialogsTypeOK ==
  /\ ui \in UI /\ here \subseteq Removable
  /\ requested \subseteq Server /\ previousFocus \in Elements /\ closeEvent \in BOOLEAN
  /\ image \in [src : BOOLEAN, sideClose : BOOLEAN]
  /\ origin \in Elements /\ alone \in BOOLEAN

DialogsInv ==
  /\ DialogsTypeOK /\ Sound(ui, here) /\ DialogsMatchClass
  /\ Present(origin, here) /\ (ui.stack = << >> => origin = "body")
  /\ ui.stack # << >> /\ alone => Len(ui.stack) = 1 /\ GivesBack(ui, here, origin)

\* What the keys act on is an item of the document, nothing, or an item that is gone;
\* an item that comes is never what was selected before.
NavInv ==
  /\ items \subseteq Items /\ selectedEl \in items \cup {0, Gone}
  /\ SelectionConsistent

\* The clicks on a copy button whose outcome is known or awaited
CopyInv ==
  /\ clicks \in Nat /\ pending \subseteq 1 .. clicks /\ state \in {0, clicks}
  /\ result \in Seq({"none", "copied", "failed"}) /\ lit \in BOOLEAN
  /\ widget \in {"id", "phrase"} => Len(result) = clicks
  /\ widget \notin {"id", "phrase"} =>
       pending = {} /\ timers = {} /\ state = 0 /\ lit = FALSE
  /\ widget = "id" => /\ timers = status /\ status \subseteq {state}
                      /\ clicks \in pending => state = clicks /\ status = {}
  /\ widget = "phrase" => timers = {} /\ (state # 0 <=> clicks \in pending)
  /\ lit => clicks \notin pending

TagsType == options \in Seq(Typed) /\ addInput \in Typed \cup {""}

WidgetsInv ==
  /\ CopyInv /\ WidgetsTruthful /\ TagsType /\ hidden \in BOOLEAN
  /\ listeners \in Nat /\ opening \in Nat

PageInv == DialogsInv /\ NavInv /\ NoSelectionWhileTyping /\ WidgetsInv

-----------------------------------------------------------------------------
(* Numbers *)

\* A set of natural numbers has a least one.
LEMMA NatLeast ==
  ASSUME NEW T, T \subseteq Nat, T # {}
  PROVE  \E x \in T : \A y \in T : x =< y
<1> DEFINE R == OpToRel(<, Nat)
<1>1. IsWellFoundedOn(R, Nat)
  BY NatLessThanWellFounded
<1>2. PICK x \in T : \A y \in T : ~ (<<y, x>> \in R)
  BY <1>1, WFMin, Zenon
<1>3. ASSUME NEW y \in T PROVE x =< y
  <2>1. <<y, x>> \in Nat \X Nat
    OBVIOUS
  <2>2. y < x => <<y, x>> \in R
    BY <2>1 DEF OpToRel
  <2>3. ~ (y < x)
    BY <1>2, <2>2, Zenon
  <2> QED
    BY <2>3
<1> QED
  BY <1>3

\* Max is one of the numbers, and the largest.
LEMMA MaxFacts ==
  ASSUME NEW n \in Nat, NEW T, T \subseteq 0 .. n, T # {}
  PROVE  Max(T) \in T /\ \A y \in T : y =< Max(T)
<1> DEFINE U == {n - y : y \in T}
<1>1. U \subseteq Nat /\ U # {}
  <2>1. \A y \in T : n - y \in Nat
    OBVIOUS
  <2>2. PICK y \in T : TRUE
    OBVIOUS
  <2>3. n - y \in U
    OBVIOUS
  <2> QED
    BY <2>1, <2>3
<1>2. PICK u \in U : \A v \in U : u =< v
  <2> HIDE DEF U
  <2> QED
    BY <1>1, NatLeast
<1>3. PICK x \in T : u = n - x
  BY <1>2
<1>4. \A y \in T : x >= y
  <2> SUFFICES ASSUME NEW y \in T PROVE x >= y
    OBVIOUS
  <2>1. n - y \in U
    OBVIOUS
  <2>2. n - x =< n - y
    BY <1>2, <1>3, <2>1
  <2> QED
    BY <2>2
<1>5. Max(T) \in T /\ \A y \in T : Max(T) >= y
  BY <1>4 DEF Max
<1> QED
  BY <1>5

\* Min is one of the numbers, and the least.
LEMMA MinFacts ==
  ASSUME NEW T, T \subseteq Nat, T # {}
  PROVE  Min(T) \in T /\ \A y \in T : Min(T) =< y
BY NatLeast DEF Min

-----------------------------------------------------------------------------
(* Keyboard navigation *)

\* Gone and 0 are no items; the items are bounded.
LEMMA ItemFacts ==
  /\ Gone \in Nat /\ Gone \notin Items /\ 0 \notin Items
  /\ Gone - 1 \in Nat /\ Items \subseteq 0 .. (Gone - 1)
BY ItemsAssumption DEF Gone

\* Min and Max of items are items.
LEMMA OfItems ==
  ASSUME NEW T, T \subseteq Items, T # {}
  PROVE  Min(T) \in T /\ Max(T) \in T
<1>1. T \subseteq Nat /\ T \subseteq 0 .. (Gone - 1) /\ Gone - 1 \in Nat
  BY ItemFacts
<1> QED
  BY <1>1, MinFacts, MaxFacts

\* j and k select an item of the document, whatever can be seen.
LEMMA GoalIsItem ==
  ASSUME NavInv, NEW down \in BOOLEAN, NEW view \in SUBSET items, items # {}
  PROVE  Goal(down, view) \in items
<1> DEFINE seen == IF view = {} THEN items ELSE view
           after == {i \in items : IF down THEN i > selectedEl ELSE i < selectedEl}
<1>1. seen \subseteq Items /\ seen # {} /\ seen \subseteq items
  BY DEF NavInv
<1>2. after \subseteq Items /\ after \subseteq items
  BY DEF NavInv
<1>3. Min(seen) \in items /\ Max(seen) \in items
  <2> HIDE DEF seen
  <2> QED
    BY <1>1, OfItems
<1>4. after # {} => Min(after) \in items /\ Max(after) \in items
  <2> HIDE DEF after
  <2> QED
    BY <1>2, OfItems
<1> HIDE DEF after, seen
<1>5. Goal(down, view) =
        IF selectedEl \in view
        THEN IF after = {} THEN selectedEl ELSE IF down THEN Min(after) ELSE Max(after)
        ELSE IF down THEN Min(seen) ELSE Max(seen)
  BY DEF Goal, after, seen
<1> QED
  BY <1>3, <1>4, <1>5

\* selectItem
LEMMA SelectKeeps ==
  ASSUME NavInv, NEW el \in items, SelectItem(el)
  PROVE  NavInv'
BY DEF SelectItem, NavInv, SelectionConsistent, Gone

\* clearSelection
LEMMA ClearKeeps ==
  ASSUME NavInv, ClearSelection
  PROVE  NavInv'
BY ItemFacts DEF ClearSelection, NavInv, SelectionConsistent, Gone

\* Items go, and others come.
LEMMA ItemsChangeKeeps ==
  ASSUME NavInv, NEW h \in SUBSET Items, ItemsChange(h)
  PROVE  NavInv'
BY ItemFacts DEF ItemsChange, NavInv, SelectionConsistent, Gone

\* The page is loaded again.
LEMMA LoadKeeps ==
  ASSUME NavInv, NEW h \in SUBSET Items, LoadPage(h)
  PROVE  NavInv'
<1> DEFINE found == Restored(h)
<1>1. found \subseteq h /\ \A i \in found : Href[i] = selectedHref
  BY DEF Restored
<1> HIDE DEF found
<1>2. found # {} => Min(found) \in found
  BY <1>1, OfItems
<1>3. /\ items' = h /\ selectedHref' = selectedHref
      /\ selectedEl' = IF found = {} THEN 0 ELSE Min(found)
      /\ marked' = {selectedEl'} \ {0} /\ expanded' = marked' \cap Parents
  BY DEF LoadPage, found
<1> HIDE DEF found
<1>4. selectedEl' = 0 \/ selectedEl' \in found
  BY <1>2, <1>3
<1>5. selectedEl' \in h => selectedEl' # 0 /\ Href[selectedEl'] = selectedHref'
  BY <1>1, <1>3, <1>4, ItemFacts
<1>6. marked' = {selectedEl'} \cap h
  BY <1>1, <1>3, <1>4, ItemFacts
<1>7. selectedEl' \in h \cup {0, Gone}
  BY <1>1, <1>4
<1>8. {selectedEl'} \cap h \cap Parents \subseteq expanded'
  BY <1>3, <1>6
<1> QED
  BY <1>3, <1>5, <1>6, <1>7, <1>8 DEF NavInv, SelectionConsistent, Gone

LEMMA StepOfSelection ==
  ASSUME NavInv, NEW b, WithSelection(b)
  PROVE  NavInv'
<1>1. CASE ClearSelection
  BY <1>1, ClearKeeps
<1>2. CASE UNCHANGED navVars
  BY <1>2 DEF navVars, NavInv, SelectionConsistent, Gone
<1> QED
  BY <1>1, <1>2 DEF WithSelection

\* A step of the dialogs comes with what it does to the selection.
LEMMA DialogsSelect ==
  ASSUME Dialogs
  PROVE  \E b \in BOOLEAN : WithSelection(b)
BY DEF Dialogs

LEMMA NavKeeps ==
  ASSUME NavInv, Dialogs \/ Navigation
  PROVE  NavInv'
<1>1. CASE Dialogs
  BY <1>1, DialogsSelect, StepOfSelection
<1>2. CASE \E down \in BOOLEAN, view \in SUBSET items : Navigate(down, view)
  BY <1>2, GoalIsItem, SelectKeeps DEF Navigate, Move
<1>3. CASE \E h \in SUBSET Items : Expand(h) \/ ComeBack(h)
  BY <1>3, ItemsChangeKeeps, LoadKeeps DEF Expand, ComeBack
<1>4. CASE \E h \in SUBSET Items : ItemsChange(h) /\ UNCHANGED dialogVars
  BY <1>4, ItemsChangeKeeps
<1>5. CASE NewPost \/ Reply
  BY <1>5, StepOfSelection DEF NewPost, Reply
<1>6. CASE Forget
  BY <1>6, ItemFacts DEF Forget, Look, Selected, NavInv, SelectionConsistent, Gone
<1> QED
  BY <1>1, <1>2, <1>3, <1>4, <1>5, <1>6 DEF Navigation

\* The focusin handler alone keeps a text field and a selection apart.
LEMMA TypingKeeps ==
  ASSUME ui \in UI, NavInv, NoSelectionWhileTyping, Dialogs \/ Navigation
  PROVE  NoSelectionWhileTyping'
<1> USE DEF NoSelectionWhileTyping, isTextInputFocused
<1>1. ASSUME NEW b, WithSelection(b) PROVE NoSelectionWhileTyping'
  <2>1. CASE ClearSelection
    BY <2>1 DEF ClearSelection
  <2>2. CASE ~ Focusin /\ UNCHANGED navVars
    BY <2>2 DEF Focusin, navVars
  <2> QED
    BY <1>1, <2>1, <2>2 DEF WithSelection
<1>2. CASE Dialogs
  BY <1>1, <1>2, DialogsSelect
<1>3. CASE NewPost \/ Reply
  BY <1>1, <1>3 DEF NewPost, Reply
<1>4. CASE Keys /\ UNCHANGED dialogVars
  BY <1>4 DEF Keys, dialogVars
<1>5. CASE \E h \in SUBSET Items : ComeBack(h)
  BY <1>5 DEF ComeBack, TextInputs, UI
<1>6. CASE \E h \in SUBSET Items : ItemsChange(h) /\ UNCHANGED dialogVars
  BY <1>6, ItemFacts DEF ItemsChange, dialogVars, NavInv
<1> QED
  BY <1>2, <1>3, <1>4, <1>5, <1>6 DEF Navigation, Navigate, Expand, Forget

-----------------------------------------------------------------------------
(* Widgets *)

\* The copy buttons: a click, an answer of the clipboard, a timer
LEMMA CopyKeeps ==
  ASSUME WidgetsInv, Copy
  PROVE  CopyInv' /\ CopyStatusLatest'
<1>1. /\ clicks' = clicks + 1 /\ clicks \in Nat /\ clicks' # 0 /\ clicks \notin {clicks'}
      /\ pending' = pending \cup {clicks'} /\ state' = clicks' /\ lit' = FALSE
      /\ widget' = widget /\ widget \in {"id", "phrase"}
  BY DEF Copy, WidgetsInv, CopyInv
<1>2. result' \in Seq({"none", "copied", "failed"}) /\ Len(result') = clicks'
  <2>1. result' = Append(result, "none") /\ result \in Seq({"none", "copied", "failed"})
        /\ Len(result) = clicks
    BY <1>1 DEF Copy, WidgetsInv, CopyInv
  <2> QED
    BY <1>1, <2>1
<1>3. pending' \subseteq 1 .. clicks'
  BY <1>1 DEF WidgetsInv, CopyInv
<1>4. widget = "id" => timers' = {} /\ status' = {}
  BY DEF Copy, WidgetsInv, CopyInv
<1>5. widget = "phrase" => timers' = {}
  BY DEF Copy, WidgetsInv, CopyInv
<1>6. CopyInv'
  <2>1. clicks' \in Nat /\ clicks' \in pending' /\ state' = clicks' /\ state' # 0
    BY <1>1
  <2>2. lit' = FALSE /\ lit' \in BOOLEAN /\ widget' = widget
    BY <1>1
  <2>3. widget' = "id" => timers' = {} /\ status' = {}
    BY <1>4, <2>2
  <2>4. widget' = "phrase" => timers' = {}
    BY <1>5, <2>2
  <2>5. widget' \in {"id", "phrase"}
    BY <1>1
  <2> QED
    BY <1>2, <1>3, <2>1, <2>2, <2>3, <2>4, <2>5 DEF CopyInv
<1>7. CopyStatusLatest'
  BY <1>1, <1>4 DEF CopyStatusLatest
<1> QED
  BY <1>6, <1>7

LEMMA CopiedKeeps ==
  ASSUME WidgetsInv, NEW c \in 1 .. clicks, NEW r \in {"copied", "failed"}, Copied(c, r)
  PROVE  CopyInv' /\ CopyStatusLatest'
<1>1. /\ clicks' = clicks /\ clicks \in Nat /\ c \in Nat \ {0} /\ c \in pending
      /\ pending' = pending \ {c} /\ widget' = widget /\ widget \in {"id", "phrase"}
      /\ state \in {0, clicks}
  BY DEF Copied, WidgetsInv, CopyInv
<1>2. /\ result' \in Seq({"none", "copied", "failed"}) /\ Len(result') = clicks
      /\ result'[c] = r /\ (c # clicks => result'[clicks] = result[clicks])
  <2>1. result' = [result EXCEPT ![c] = r] /\ result \in Seq({"none", "copied", "failed"})
        /\ Len(result) = clicks
    BY <1>1 DEF Copied, WidgetsInv, CopyInv
  <2> QED
    BY <1>1, <2>1
<1>3. CASE state # c
  <2>1. state' = state /\ status' = status /\ timers' = timers /\ lit' = lit
    BY <1>3 DEF Copied, IsLatest
  <2>2. c # clicks
    BY <1>1, <1>3 DEF WidgetsInv, CopyInv
  <2>3. CopyInv'
    BY <1>1, <1>2, <2>1, <2>2 DEF WidgetsInv, CopyInv
  <2>4. CopyStatusLatest'
    BY <1>1, <1>2, <2>1, <2>2 DEF WidgetsInv, WidgetsTruthful, CopyStatusLatest
  <2> QED
    BY <2>3, <2>4
<1>4. CASE state = c
  <2>1. c = clicks /\ lit' = (r = "copied")
    BY <1>1, <1>4 DEF Copied, IsLatest
  <2>2. widget = "id" => status' = {c} /\ timers' = {c} /\ state' = c
    BY <1>1, <1>4, <2>1 DEF Copied, IsLatest, WidgetsInv, CopyInv
  <2>3. widget = "phrase" => status' = {c} /\ timers' = {} /\ state' = 0
    BY <1>1, <1>4, <2>1 DEF Copied, IsLatest, WidgetsInv, CopyInv
  <2>4. status' = {c}
    BY <1>1, <2>2, <2>3
  <2>5. lit' \in BOOLEAN
    BY <2>1, Zenon
  <2>6. CopyInv'
    BY <1>1, <1>2, <2>1, <2>2, <2>3, <2>5 DEF WidgetsInv, CopyInv
  <2>7. CopyStatusLatest'
    BY <1>1, <1>2, <2>1, <2>4 DEF CopyStatusLatest
  <2> QED
    BY <2>6, <2>7
<1> QED
  BY <1>3, <1>4

LEMMA TimerKeeps ==
  ASSUME WidgetsInv, NEW c \in 1 .. clicks, StatusTimer(c)
  PROVE  CopyInv' /\ CopyStatusLatest'
<1>1. /\ widget = "id" /\ timers = status /\ status = {c} /\ c = state /\ state = clicks
      /\ clicks \notin pending
  BY DEF StatusTimer, WidgetsInv, CopyInv, WidgetsTruthful, CopyStatusLatest
<1>2. /\ timers' = {} /\ status' = {} /\ state' = 0 /\ lit' = FALSE
      /\ widget' = widget /\ clicks' = clicks /\ pending' = pending /\ result' = result
  BY <1>1 DEF StatusTimer
<1> QED
  BY <1>1, <1>2 DEF WidgetsInv, CopyInv, CopyStatusLatest

\* The persona tags: a second checkbox of a value is made only for a tag that is parsed
\* to another one
LEMMA TagsKeep ==
  ASSUME WidgetsInv, widget = "tags",
         \/ \E i : Check(i)
         \/ AddFromInput
         \/ \E down \in BOOLEAN : Cycle(down)
  PROVE  TagsLabelled' /\ options' \in Seq(Typed)
<1>1. CASE options' = options /\ label' = Label(options, checked')
  BY <1>1 DEF WidgetsInv, WidgetsTruthful, TagsType, TagsLabelled
<1>2. CASE AddFromInput
  <2>1. label' = Label(options', checked')
    BY <1>2 DEF AddFromInput
  <2>2. CASE Known(addInput)
    BY <1>2, <2>1, <2>2 DEF AddFromInput, WidgetsInv, WidgetsTruthful, TagsType, TagsLabelled
  <2>3. CASE ~ Known(addInput)
    <3> DEFINE v == Parsed[addInput]
    <3>1. /\ options' = Append(options, v) /\ options \in Seq(Typed)
          /\ addInput \in Typed \ TooLong
      BY <1>2, <2>3 DEF AddFromInput, WidgetsInv, TagsType
    <3>2. v \in Typed
      BY <3>1, WidgetsAssumption
    <3>3. \A i \in DOMAIN options : options[i] # addInput
      BY <2>3 DEF Known, Range
    <3>4. v = Parsed[addInput]
      OBVIOUS
    <3> HIDE DEF v
    <3>5. options' \in Seq(Typed) /\ Len(options') = Len(options) + 1
          /\ DOMAIN options = 1 .. Len(options) /\ DOMAIN options' = 1 .. Len(options')
          /\ Len(options) \in Nat /\ options'[Len(options) + 1] = v
          /\ \A i \in 1 .. Len(options) : options'[i] = options[i]
      BY <3>1, <3>2
    <3>6. ASSUME NEW i \in DOMAIN options', NEW j \in DOMAIN options',
                 i < j, options'[i] = options'[j]
          PROVE  \E t \in Typed \ TooLong : t # options'[j] /\ Parsed[t] = options'[j]
      <4>1. i \in 1 .. Len(options) /\ options'[i] = options[i]
        BY <3>5, <3>6
      <4>2. CASE j \in 1 .. Len(options)
        BY <3>5, <3>6, <4>1, <4>2 DEF WidgetsInv, WidgetsTruthful, TagsLabelled
      <4>3. CASE j = Len(options) + 1
        BY <3>1, <3>3, <3>4, <3>5, <3>6, <4>1, <4>3
      <4> QED
        BY <3>5, <4>2, <4>3
    <3> QED
      BY <2>1, <3>5, <3>6 DEF TagsLabelled
  <2> QED
    BY <2>2, <2>3
<1> QED
  BY <1>1, <1>2 DEF Check, Cycle

\* A step of the widgets
LEMMA WidgetsKeep ==
  ASSUME WidgetsInv, WidgetsNext
  PROVE  WidgetsInv'
<1>0. addInput' \in Typed \cup {""}
  BY DEF WidgetsInv, TagsType, WidgetsNext, Copy, StatusTimer, Copied, Toggle, Check, Cycle, TypeTag, AddFromInput,
         TogglePicker, ListenerAdded, ClickOutside, tagSelect
<1>1. ASSUME UNCHANGED <<widget, clicks, copy>> PROVE CopyInv' /\ CopyStatusLatest'
  BY <1>1 DEF copy, WidgetsInv, WidgetsTruthful, CopyInv, CopyStatusLatest
<1>2. ASSUME UNCHANGED <<options, checked, label>>
      PROVE  TagsLabelled' /\ TagsType'
  BY <1>0, <1>2 DEF WidgetsInv, WidgetsTruthful, TagsType, TagsLabelled
<1>3. ASSUME UNCHANGED picker
      PROVE  PickerCanClose' /\ hidden' \in BOOLEAN /\ listeners' \in Nat /\ opening' \in Nat
  BY <1>3 DEF picker, WidgetsInv, WidgetsTruthful, PickerCanClose
<1> USE DEF WidgetsInv, WidgetsTruthful
<1>4. CASE Copy \/ \E c \in 1 .. clicks : StatusTimer(c) \/ \E r \in {"copied", "failed"} : Copied(c, r)
  <2>1. CopyInv' /\ CopyStatusLatest'
    BY <1>4, CopyKeeps, CopiedKeeps, TimerKeeps
  <2>2. UNCHANGED picker /\ UNCHANGED <<options, checked, label>>
    BY <1>4 DEF Copy, StatusTimer, Copied, tagSelect
  <2> QED
    BY <1>2, <1>3, <2>1, <2>2
<1>5. CASE Toggle \/ \E t \in Typed : TypeTag(t)
  <2>1. UNCHANGED <<widget, clicks, copy>> /\ UNCHANGED picker /\ UNCHANGED <<options, checked, label>>
    BY <1>5 DEF Toggle, TypeTag
  <2> QED
    BY <1>1, <1>2, <1>3, <2>1
<1>6. CASE AddFromInput \/ (\E i \in DOMAIN options : Check(i)) \/ \E down \in BOOLEAN : Cycle(down)
  <2>1. UNCHANGED <<widget, clicks, copy>> /\ UNCHANGED picker /\ widget = "tags"
    BY <1>6 DEF AddFromInput, Check, Cycle
  <2>2. TagsLabelled' /\ TagsType'
    BY <1>0, <1>6, <2>1, TagsKeep DEF TagsType
  <2> QED
    BY <1>1, <1>3, <2>1, <2>2
<1>7. CASE TogglePicker
  <2>1. CopyInv' /\ CopyStatusLatest'
    BY <1>7 DEF TogglePicker, copy, CopyInv, CopyStatusLatest
  <2>2. PickerCanClose' /\ hidden' \in BOOLEAN /\ listeners' \in Nat /\ opening' \in Nat
    BY <1>7 DEF TogglePicker, PickerCanClose
  <2> QED
    BY <1>2, <1>7, <2>1, <2>2 DEF TogglePicker, tagSelect
<1>8. CASE ListenerAdded \/ ClickOutside
  <2>1. PickerCanClose' /\ hidden' \in BOOLEAN /\ listeners' \in Nat /\ opening' \in Nat
    <3>1. CASE ListenerAdded
      BY <3>1 DEF ListenerAdded, PickerCanClose
    <3>2. CASE ClickOutside
      BY <3>2 DEF ClickOutside, HidesPicker, PickerCanClose
    <3> QED
      BY <1>8, <3>1, <3>2
  <2> QED
    BY <1>1, <1>2, <1>8, <2>1 DEF ListenerAdded, ClickOutside, tagSelect
<1> QED
  BY <1>4, <1>5, <1>6, <1>7, <1>8 DEF WidgetsNext

-----------------------------------------------------------------------------
(* The stack of modals *)

LEMMA NameFacts ==
  /\ Range(Rostra) = {"preview", "media", "image"} /\ DOMAIN Rostra = {1, 2, 3}
  /\ \A i \in DOMAIN Rostra : Rostra[i] \in Range(Rostra)
  /\ \A d \in Range(Rostra) : \E i \in DOMAIN Rostra : Rostra[i] = d
  /\ Modals = {"preview", "media", "image", "shortcuts"}
  /\ Server \subseteq Range(Rostra) /\ None \notin Elements
<1>1. Range(Rostra) = {"preview", "media", "image"} /\ DOMAIN Rostra = {1, 2, 3}
  BY DEF Rostra, Range
<1>2. \A d \in Range(Rostra) : \E i \in DOMAIN Rostra : Rostra[i] = d
  BY DEF Range
<1>3. \A i \in DOMAIN Rostra : Rostra[i] \in Range(Rostra)
  BY DEF Range
<1> QED
  BY <1>1, <1>2, <1>3 DEF Modals, Elements, Server, None, Removable

\* Taking a dialog off the stack leaves the others in their order.
LEMMA WithoutFacts ==
  ASSUME NEW S, NEW s \in Seq(S), IsInjective(s), NEW d
  PROVE  LET t == Without(s, d) IN
         /\ t \in Seq(S) /\ IsInjective(t) /\ Range(t) = Range(s) \ {d}
         /\ t # << >> /\ Last(s) # d => Last(t) = Last(s)
         /\ d \in Range(s) => Len(t) = Len(s) - 1
         /\ d \notin Range(s) => t = s
<1>1. CASE d \notin Range(s)
  BY <1>1 DEF Without
<1>2. CASE d \in Range(s)
  <2> DEFINE i == CHOOSE j \in DOMAIN s : s[j] = d
             t == Without(s, d)
  <2>1. i \in 1 .. Len(s) /\ s[i] = d
    BY <1>2 DEF Range
  <2>2. t = SubSeq(s, 1, i - 1) \o SubSeq(s, i + 1, Len(s))
    BY <1>2 DEF Without, RemoveAt
  <2> HIDE DEF i, t
  <2> DEFINE a == SubSeq(s, 1, i - 1)
             b == SubSeq(s, i + 1, Len(s))
  <2>3. a \in Seq(S) /\ Len(a) = i - 1 /\ \A j \in 1 .. i - 1 : a[j] = s[j]
    BY <2>1
  <2>4. b \in Seq(S) /\ Len(b) = Len(s) - i /\ \A j \in 1 .. Len(s) - i : b[j] = s[i + j]
    BY <2>1
  <2>0. t = a \o b
    BY <2>2
  <2> HIDE DEF a, b
  <2>5. t \in Seq(S) /\ Len(t) = Len(s) - 1
    BY <2>0, <2>1, <2>3, <2>4
  <2>6. \A j \in 1 .. Len(s) - 1 : t[j] = IF j < i THEN s[j] ELSE s[j + 1]
    <3> SUFFICES ASSUME NEW j \in 1 .. Len(s) - 1
                 PROVE  t[j] = IF j < i THEN s[j] ELSE s[j + 1]
      OBVIOUS
    <3>1. t = a \o b /\ j \in 1 .. Len(a) + Len(b)
      BY <2>0, <2>1, <2>3, <2>4
    <3>2. t[j] = IF j =< Len(a) THEN a[j] ELSE b[j - Len(a)]
      BY <2>3, <2>4, <3>1
    <3>3. CASE j < i
      <4>1. j \in 1 .. i - 1 /\ j =< Len(a)
        BY <2>1, <2>3, <3>3
      <4> QED
        BY <2>3, <3>2, <3>3, <4>1
    <3>4. CASE ~ (j < i)
      <4>1. /\ j - (i - 1) \in 1 .. Len(s) - i /\ ~ (j =< Len(a)) /\ i + (j - (i - 1)) = j + 1
            /\ Len(a) = i - 1
        BY <2>1, <2>3, <3>4
      <4>2. b[j - (i - 1)] = s[j + 1]
        BY <2>4, <4>1
      <4> QED
        BY <3>2, <3>4, <4>1, <4>2
    <3> QED
      BY <3>3, <3>4
  <2>7. \A j, k \in 1 .. Len(s) : s[j] = s[k] => j = k
    BY DEF IsInjective
  <2>8. IsInjective(t)
    BY <2>1, <2>5, <2>6, <2>7 DEF IsInjective
  <2>9. Range(t) = Range(s) \ {d}
    <3>1. \A j \in 1 .. Len(t) : t[j] \in Range(s) \ {d}
      BY <2>1, <2>5, <2>6, <2>7 DEF Range
    <3>2. \A k \in 1 .. Len(s) : k # i => \E j \in 1 .. Len(t) : t[j] = s[k]
      <4> SUFFICES ASSUME NEW k \in 1 .. Len(s), k # i
                   PROVE  \E j \in 1 .. Len(t) : t[j] = s[k]
        OBVIOUS
      <4>1. CASE k < i
        <5>1. k \in 1 .. Len(t) /\ t[k] = s[k]
          BY <2>1, <2>5, <2>6, <4>1
        <5> QED
          BY <5>1
      <4>2. CASE k > i
        <5>1. k - 1 \in 1 .. Len(t) /\ t[k - 1] = s[k]
          BY <2>1, <2>5, <2>6, <4>2
        <5> QED
          BY <5>1
      <4> QED
        BY <2>1, <4>1, <4>2
    <3>3. \A e \in Range(s) \ {d} : \E k \in 1 .. Len(s) : s[k] = e /\ k # i
      BY <2>1 DEF Range
    <3>4. \A e \in Range(s) \ {d} : \E j \in 1 .. Len(t) : t[j] = e
      BY <3>2, <3>3
    <3>5. Range(t) = {t[j] : j \in 1 .. Len(t)}
      BY <2>5 DEF Range
    <3> QED
      BY <3>1, <3>4, <3>5
  <2>10. t # << >> /\ Last(s) # d => Last(t) = Last(s)
    <3> SUFFICES ASSUME t # << >>, Last(s) # d PROVE Last(t) = Last(s)
      OBVIOUS
    <3>1. Len(t) \in 1 .. Len(s) - 1 /\ i # Len(s)
      BY <2>1, <2>5 DEF Last
    <3> QED
      BY <2>1, <2>5, <2>6, <3>1 DEF Last
  <2> QED
    BY <1>2, <2>5, <2>8, <2>9, <2>10 DEF t
<1> QED
  BY <1>1, <1>2

\* A dialog that is not open is put on top.
LEMMA PushFacts ==
  ASSUME NEW S, NEW s \in Seq(S), IsInjective(s), NEW d \in S, d \notin Range(s)
  PROVE  LET t == Append(s, d) IN
         /\ t \in Seq(S) /\ IsInjective(t) /\ Range(t) = Range(s) \cup {d}
         /\ Len(t) = Len(s) + 1 /\ Last(t) = d /\ t # << >>
<1> DEFINE t == Append(s, d)
<1>1. /\ t \in Seq(S) /\ Len(t) = Len(s) + 1 /\ t[Len(s) + 1] = d
      /\ \A i \in 1 .. Len(s) : t[i] = s[i]
  OBVIOUS
<1> HIDE DEF t
<1>2. \A i \in 1 .. Len(s) : s[i] # d
  BY DEF Range
<1>3. \A i, j \in 1 .. Len(s) : s[i] = s[j] => i = j
  BY DEF IsInjective
<1>4. IsInjective(t)
  BY <1>1, <1>2, <1>3 DEF IsInjective
<1>5. Range(t) = Range(s) \cup {d}
  <2>1. \A i \in 1 .. Len(t) : t[i] \in Range(s) \cup {d}
    BY <1>1 DEF Range
  <2>2. \A e \in Range(s) : \E i \in 1 .. Len(t) : t[i] = e
    BY <1>1 DEF Range
  <2>3. \E i \in 1 .. Len(t) : t[i] = d
    BY <1>1
  <2> QED
    BY <1>1, <2>1, <2>2, <2>3 DEF Range
<1> QED
  BY <1>1, <1>4, <1>5 DEF t, Last

LEMMA StackFacts ==
  ASSUME NEW S, NEW s \in Seq(S)
  PROVE  /\ s # << >> => Last(s) \in Range(s) /\ Len(s) >= 1 /\ s[1] \in Range(s)
         /\ s = << >> <=> Len(s) = 0
         /\ Range(s) \subseteq S
         /\ s = << >> <=> Range(s) = {}
         /\ Len(s) = 1 => Last(s) = s[1] /\ Range(s) = {s[1]}
<1>1. s = << >> <=> Len(s) = 0
  OBVIOUS
<1>2. Range(s) \subseteq S
  BY DEF Range
<1>3. s # << >> => Last(s) \in Range(s) /\ Len(s) >= 1 /\ s[1] \in Range(s)
  <2> SUFFICES ASSUME s # << >> PROVE Last(s) \in Range(s) /\ Len(s) >= 1 /\ s[1] \in Range(s)
    OBVIOUS
  <2>1. Len(s) >= 1 /\ Len(s) \in DOMAIN s /\ 1 \in DOMAIN s
    BY <1>1
  <2> QED
    BY <2>1 DEF Range, Last
<1>4. s = << >> => Range(s) = {}
  BY DEF Range
<1>5. Len(s) = 1 => Last(s) = s[1] /\ Range(s) = {s[1]}
  BY DEF Range, Last
<1> QED
  BY <1>1, <1>2, <1>3, <1>4, <1>5

-----------------------------------------------------------------------------
(* Focus and dialogs *)

\* element.focus() changes nothing but the focus, and under a modal it reaches only
\* the one on top.
LEMMA FocusFacts ==
  ASSUME NEW u \in UI, NEW e \in Elements, NEW h
  PROVE  LET v == Focus(u, e, h) IN
         /\ v \in UI /\ v.stack = u.stack /\ v.cls = u.cls /\ v.current = u.current
         /\ v.previously = u.previously /\ v.trigger = u.trigger
         /\ v.focus \in {u.focus, e}
         /\ u.stack # << >> => v.focus \in {u.focus, Top(u)}
         /\ u.stack = << >> /\ e \in h \cup {"composer"} => v.focus = e
         /\ Present(u.focus, h) => Present(v.focus, h)
<1>1. u.stack \in Seq(Modals) /\ (u.stack # << >> => Top(u) \notin Removable)
  <2>1. u.stack \in Seq(Modals)
    BY DEF UI
  <2> QED
    BY <2>1, StackFacts, NameFacts DEF Top, Removable
<1> QED
  BY <1>1 DEF Focus, UI, Present, Removable

LEMMA UnfocusFacts ==
  ASSUME NEW u \in UI, NEW e
  PROVE  LET v == Unfocus(u, e) IN
         /\ v \in UI /\ v.stack = u.stack /\ v.cls = u.cls /\ v.current = u.current
         /\ v.previously = u.previously /\ v.trigger = u.trigger
         /\ v.focus = IF u.focus = e THEN "body" ELSE u.focus
         /\ \A h : Present(u.focus, h) => Present(v.focus, h)
<1>1. "body" \in Elements
  BY DEF Elements
<1> QED
  BY <1>1 DEF Unfocus, UI, Present, Removable

\* What the focus may be is not disturbed by element.focus().
LEMMA FocusSound ==
  ASSUME NEW u, NEW h, Sound(u, h), NEW e \in Elements
  PROVE  Sound(Focus(u, e, h), h)
<1>1. u \in UI
  BY DEF Sound
<1> QED
  BY <1>1, FocusFacts DEF Sound, Top

LEMMA UnfocusSound ==
  ASSUME NEW u, NEW h, Sound(u, h), NEW e
  PROVE  Sound(Unfocus(u, e), h)
<1>1. u \in UI
  BY DEF Sound
<1> QED
  BY <1>1, UnfocusFacts DEF Sound, Top

\* The elements a stack holds
LEMMA SoundFacts ==
  ASSUME NEW u, NEW h, Sound(u, h)
  PROVE  /\ u \in UI /\ u.stack \in Seq(Modals) /\ IsInjective(u.stack)
         /\ Range(u.stack) \subseteq Modals /\ Modals \subseteq Elements
         /\ u.focus \in Elements /\ u.trigger \in Elements
         /\ u.previously \in [Modals -> Elements]
         /\ u.stack = << >> => u.current = None
         /\ u.stack = << >> <=> Range(u.stack) = {}
<1>1. u \in UI /\ u.stack \in Seq(Modals)
  BY DEF Sound, UI
<1> QED
  BY <1>1, StackFacts DEF Sound, UI, Elements

\* dialog.close() of an open dialog
LEMMA CloseFacts ==
  ASSUME NEW u \in UI, IsInjective(u.stack), NEW d \in Range(u.stack), NEW h \in SUBSET Removable,
         u.focus \in {Top(u), "body"}, Present(u.focus, h)
  PROVE  LET w == Close(u, d, h) IN
         /\ w \in UI /\ w.stack = Without(u.stack, d) /\ w.cls = u.cls
         /\ w.current = u.current /\ w.trigger = u.trigger
         /\ w.stack # << >> => w.focus \in {Top(w), "body"}
         /\ w.stack = << >> /\ u.previously[d] \in h \cup {"composer"} =>
              w.focus = u.previously[d]
         /\ Present(w.focus, h)
<1> DEFINE v == [u EXCEPT !.stack = Without(@, d), !.previously[d] = "body"]
           p == u.previously[d]
           f == Focus(v, p, h)
           w == Close(u, d, h)
<1>1. u.stack \in Seq(Modals) /\ d \in Modals /\ u.previously \in [Modals -> Elements]
  BY StackFacts DEF UI
<1>2. p \in Elements /\ "body" \in Elements
  BY <1>1 DEF Elements
<1>3. /\ Without(u.stack, d) \in Seq(Modals) /\ IsInjective(Without(u.stack, d))
      /\ Range(Without(u.stack, d)) = Range(u.stack) \ {d}
      /\ Without(u.stack, d) # << >> /\ Last(u.stack) # d => Last(Without(u.stack, d)) = Last(u.stack)
  BY <1>1, WithoutFacts
<1>4. /\ v \in UI /\ v.stack = Without(u.stack, d) /\ v.cls = u.cls
      /\ v.current = u.current /\ v.trigger = u.trigger /\ v.focus = u.focus
  BY <1>1, <1>2, <1>3 DEF UI
<1>5. w = Unfocus(f, d)
  BY DEF Close
<1> HIDE DEF v, w, p
<1>6. /\ f \in UI /\ f.stack = v.stack /\ f.cls = v.cls /\ f.current = v.current
      /\ f.trigger = v.trigger /\ f.focus \in {v.focus, p}
      /\ v.stack # << >> => f.focus \in {v.focus, Top(v)}
      /\ v.stack = << >> /\ p \in h \cup {"composer"} => f.focus = p
      /\ Present(f.focus, h)
  BY <1>2, <1>4, FocusFacts
<1> HIDE DEF f
<1>7. /\ w \in UI /\ w.stack = f.stack /\ w.cls = f.cls /\ w.current = f.current
      /\ w.trigger = f.trigger /\ w.focus = IF f.focus = d THEN "body" ELSE f.focus
      /\ Present(w.focus, h)
  BY <1>5, <1>6, UnfocusFacts
<1>8. v.stack # << >> => Top(v) \in Range(u.stack) \ {d}
  BY <1>3, <1>4, StackFacts DEF Top
<1>9. w.stack # << >> => w.focus \in {Top(w), "body"}
  BY <1>3, <1>4, <1>6, <1>7, <1>8 DEF Top
<1>10. w.stack = << >> /\ p \in h \cup {"composer"} => w.focus = p
  <2>1. d \notin h \cup {"composer"}
    BY <1>1, NameFacts DEF Removable
  <2> QED
    BY <1>4, <1>6, <1>7, <2>1
<1> QED
  BY <1>4, <1>6, <1>7, <1>9, <1>10 DEF w, p

\* restoreRostraDialogFocus of a dialog that is no longer open
LEMMA RestoreFacts ==
  ASSUME NEW u \in UI, NEW d, NEW h \in SUBSET Removable,
         u.stack # << >> => u.focus \in {Top(u), "body"}, Present(u.focus, h)
  PROVE  LET w == restoreRostraDialogFocus(u, d, h) IN
         /\ w \in UI /\ w.stack = u.stack /\ w.cls = u.cls /\ w.current = None
         /\ w.previously = u.previously
         /\ w.stack # << >> => w.focus \in {Top(w), "body"}
         /\ w.stack = << >> =>
              IF u.focus \in {"body", d}
              THEN u.trigger \in h \cup {"composer"} => w.focus = u.trigger
              ELSE w.focus = u.focus
         /\ Present(w.focus, h)
<1> DEFINE v == [u EXCEPT !.current = None, !.trigger = "body"]
           w == restoreRostraDialogFocus(u, d, h)
<1>1. "body" \in Elements /\ u.trigger \in Elements
  BY DEF Elements, UI
<1>2. /\ v \in UI /\ v.stack = u.stack /\ v.cls = u.cls /\ v.current = None
      /\ v.previously = u.previously /\ v.focus = u.focus
  BY <1>1 DEF UI
<1>3. w = IF u.focus \in {"body", d} THEN Focus(v, u.trigger, h) ELSE v
  BY DEF restoreRostraDialogFocus
<1> HIDE DEF v, w
<1>4. CASE u.focus \in {"body", d}
  <2>1. w = Focus(v, u.trigger, h)
    BY <1>3, <1>4
  <2> DEFINE e == u.trigger
  <2>2. w = Focus(v, e, h) /\ e \in Elements
    BY <1>1, <2>1
  <2> HIDE DEF e
  <2>3. /\ w \in UI /\ w.stack = v.stack /\ w.cls = v.cls /\ w.current = v.current
        /\ w.previously = v.previously
        /\ v.stack # << >> => w.focus \in {v.focus, Top(v)}
        /\ v.stack = << >> /\ e \in h \cup {"composer"} => w.focus = e
        /\ Present(w.focus, h)
    BY <1>2, <2>2, FocusFacts
  <2>4. /\ w \in UI /\ w.stack = v.stack /\ w.cls = v.cls /\ w.current = v.current
        /\ w.previously = v.previously
        /\ v.stack # << >> => w.focus \in {v.focus, Top(v)}
        /\ v.stack = << >> /\ u.trigger \in h \cup {"composer"} => w.focus = u.trigger
        /\ Present(w.focus, h)
    BY <2>3 DEF e
  <2>5. w.stack # << >> => w.focus \in {Top(w), "body"}
    BY <1>2, <2>4 DEF Top
  <2> QED
    BY <1>2, <1>4, <2>4, <2>5 DEF w
<1>5. CASE u.focus \notin {"body", d}
  <2>1. w = v
    BY <1>3, <1>5
  <2>2. w.stack # << >> => w.focus \in {Top(w), "body"}
    BY <1>2, <2>1 DEF Top
  <2> QED
    BY <1>2, <1>5, <2>1, <2>2 DEF w
<1> QED
  BY <1>4, <1>5

\* closeRostraDialog of an open dialog
LEMMA CloseRostraFacts ==
  ASSUME NEW u, NEW h \in SUBSET Removable, Sound(u, h),
         NEW d \in Range(Rostra), d \in Range(u.stack)
  PROVE  LET w == closeRostraDialog(u, d, h) IN
         /\ Sound(w, h) /\ w.stack = Without(u.stack, d) /\ w.cls = u.cls \ {d}
         /\ w.stack = << >> /\ u.previously[d] \in h \cup {"composer"} => w.focus = u.previously[d]
<1> DEFINE v == [u EXCEPT !.cls = @ \ {d}]
           c == Close(v, d, h)
           w == closeRostraDialog(u, d, h)
<1>1. /\ v \in UI /\ v.stack = u.stack /\ v.cls = u.cls \ {d} /\ v.current = u.current
      /\ v.previously = u.previously /\ v.focus = u.focus
  BY SoundFacts DEF UI
<1>2. /\ u.stack # << >> /\ v.focus \in {Top(v), "body"} /\ IsInjective(v.stack)
      /\ Present(v.focus, h)
  BY <1>1, SoundFacts DEF Sound, Top
<1>0. d \in Range(v.stack)
  BY <1>1
<1>3. w = IF c.current = d THEN restoreRostraDialogFocus(c, d, h) ELSE c
  BY <1>1 DEF closeRostraDialog, IsOpen
<1> HIDE DEF v, w
<1>4. /\ c \in UI /\ c.stack = Without(u.stack, d) /\ c.cls = u.cls \ {d}
      /\ c.current = u.current
      /\ c.stack # << >> => c.focus \in {Top(c), "body"}
      /\ c.stack = << >> /\ u.previously[d] \in h \cup {"composer"} => c.focus = u.previously[d]
      /\ Present(c.focus, h)
  <2>1. /\ c \in UI /\ c.stack = Without(v.stack, d) /\ c.cls = v.cls
        /\ c.current = v.current
        /\ c.stack # << >> => c.focus \in {Top(c), "body"}
        /\ c.stack = << >> /\ v.previously[d] \in h \cup {"composer"} => c.focus = v.previously[d]
        /\ Present(c.focus, h)
    <3>1. v \in UI /\ IsInjective(v.stack) /\ d \in Range(v.stack) /\ v.focus \in {Top(v), "body"}
          /\ Present(v.focus, h)
      BY <1>0, <1>1, <1>2
    <3> QED
      BY ONLY <3>1, h \in SUBSET Removable, CloseFacts
  <2> HIDE DEF c
  <2> QED
    BY <1>1, <2>1
<1> HIDE DEF c
<1>5. /\ IsInjective(c.stack) /\ Range(c.stack) = Range(u.stack) \ {d}
  BY <1>4, SoundFacts, WithoutFacts
<1>6. d \notin h \cup {"composer"} /\ "body" \notin h \cup {"composer"} /\ d # None
  BY NameFacts DEF Removable, None
<1>7. CASE c.current = d
  <2>1. w = restoreRostraDialogFocus(c, d, h)
    BY <1>3, <1>7
  <2>2. /\ w \in UI /\ w.stack = c.stack /\ w.cls = c.cls /\ w.current = None
        /\ w.stack # << >> => w.focus \in {Top(w), "body"}
        /\ w.stack = << >> => w.focus = c.focus \/ c.focus \in {"body", d}
        /\ Present(w.focus, h)
    BY <1>4, <2>1, RestoreFacts
  <2>3. Sound(w, h)
    BY <1>4, <1>5, <2>2 DEF Sound
  <2> QED
    BY <1>4, <1>6, <2>2, <2>3 DEF w
<1>8. CASE c.current # d
  <2>1. w = c
    BY <1>3, <1>8
  <2>2. c.current # None => c.current \in Range(c.stack)
    BY <1>4, <1>5, <1>8 DEF Sound
  <2>3. Sound(w, h)
    BY <1>4, <1>5, <2>1, <2>2 DEF Sound
  <2> QED
    BY <1>4, <2>1, <2>3 DEF w
<1> QED
  BY <1>7, <1>8

\* An answer of the server takes a dialog away, open or not.
LEMMA TakeAwayFacts ==
  ASSUME NEW u, NEW h \in SUBSET Removable, Sound(u, h), NEW d \in Range(Rostra)
  PROVE  LET w == TakeAway(u, d, h) IN
         /\ Sound(w, h) /\ w.stack = Without(u.stack, d) /\ w.cls = u.cls \ {d}
         /\ w.stack = << >> /\ u.current = d /\ u.trigger \in h \cup {"composer"} => w.focus = u.trigger
         /\ \A m \in Modals \ {d} : w.previously[m] = u.previously[m]
         /\ u.current # d => w.current = u.current /\ w.trigger = u.trigger
<1> DEFINE v == [u EXCEPT !.cls = @ \ {d}, !.stack = Without(@, d), !.previously[d] = "body"]
           c == Unfocus(v, d)
           w == TakeAway(u, d, h)
<1>0. d \in Modals /\ "body" \in Elements
  BY DEF Modals, Elements
<1>1. /\ Without(u.stack, d) \in Seq(Modals) /\ IsInjective(Without(u.stack, d))
      /\ Range(Without(u.stack, d)) = Range(u.stack) \ {d}
      /\ Without(u.stack, d) # << >> /\ Last(u.stack) # d => Last(Without(u.stack, d)) = Last(u.stack)
  BY SoundFacts, WithoutFacts
<1>2. /\ v \in UI /\ v.stack = Without(u.stack, d) /\ v.cls = u.cls \ {d} /\ v.current = u.current
      /\ v.focus = u.focus /\ v.trigger = u.trigger /\ Present(v.focus, h)
      /\ \A m \in Modals \ {d} : v.previously[m] = u.previously[m]
  BY <1>0, <1>1, SoundFacts DEF UI, Sound
<1>3. w = IF c.current = d THEN restoreRostraDialogFocus(c, d, h) ELSE c
  BY DEF TakeAway, Drop
<1> HIDE DEF v, w
<1>4. /\ c \in UI /\ c.stack = v.stack /\ c.cls = v.cls /\ c.current = v.current
      /\ c.previously = v.previously /\ c.trigger = v.trigger
      /\ c.focus = IF v.focus = d THEN "body" ELSE v.focus
      /\ Present(c.focus, h)
  BY <1>2, UnfocusFacts
<1> HIDE DEF c
<1>5. c.stack # << >> => c.focus \in {Top(c), "body"}
  <2>1. c.stack # << >> => u.stack # << >>
    BY <1>1, <1>2, <1>4, SoundFacts, StackFacts
  <2> QED
    BY <1>1, <1>2, <1>4, <2>1 DEF Sound, Top
<1>6. IsInjective(c.stack) /\ Range(c.stack) = Range(u.stack) \ {d} /\ d # None
  BY <1>1, <1>2, <1>4, NameFacts DEF None
<1>7. u.current = d => u.stack # << >> /\ u.focus \in {Top(u), "body"} /\ d \in Range(u.stack)
  BY <1>6, SoundFacts DEF Sound
<1>8. u.current = d /\ c.stack = << >> => c.focus = "body"
  <2>1. c.stack = << >> => Range(c.stack) = {}
    BY DEF Range
  <2>2. u.stack # << >> => Top(u) \in Range(u.stack)
    BY SoundFacts, StackFacts DEF Top
  <2> QED
    BY <1>2, <1>4, <1>6, <1>7, <2>1, <2>2
<1>9. CASE u.current = d
  <2>1. w = restoreRostraDialogFocus(c, d, h)
    BY <1>2, <1>3, <1>4, <1>9
  <2>2. /\ w \in UI /\ w.stack = c.stack /\ w.cls = c.cls /\ w.current = None
        /\ w.previously = c.previously
        /\ w.stack # << >> => w.focus \in {Top(w), "body"}
        /\ w.stack = << >> /\ c.focus = "body" /\ c.trigger \in h \cup {"composer"} => w.focus = c.trigger
        /\ Present(w.focus, h)
    BY <1>4, <1>5, <2>1, RestoreFacts
  <2>3. Sound(w, h)
    BY <1>2, <1>4, <1>6, <2>2 DEF Sound
  <2> QED
    BY <1>2, <1>4, <1>8, <1>9, <2>2, <2>3 DEF w
<1>10. CASE u.current # d
  <2>1. w = c
    BY <1>2, <1>3, <1>4, <1>10
  <2>2. c.current # None => c.current \in Range(c.stack)
    BY <1>2, <1>4, <1>6, <1>10 DEF Sound
  <2>3. Sound(w, h)
    BY <1>2, <1>4, <1>5, <1>6, <2>1, <2>2 DEF Sound
  <2> QED
    BY <1>2, <1>4, <1>10, <2>1, <2>3 DEF w
<1> QED
  BY <1>9, <1>10

-----------------------------------------------------------------------------
(* The observer *)

LEMMA ToShowFacts ==
  ASSUME NEW u \in UI
  PROVE  /\ ToShow(u) # None =>
              ToShow(u) \in Range(Rostra) /\ ToShow(u) \in u.cls /\ ToShow(u) \notin Range(u.stack)
         /\ u.cls # {} /\ u.stack = << >> => ToShow(u) # None
<1> DEFINE active == {i \in DOMAIN Rostra : Rostra[i] \in u.cls}
           first == Rostra[Min(active)]
<1>1. active \subseteq Nat /\ active \subseteq DOMAIN Rostra
  BY NameFacts
<1>2. u.cls # {} => active # {}
  BY NameFacts DEF UI
<1>3. active # {} => first \in Range(Rostra) /\ first \in u.cls
  <2>1. active # {} => Min(active) \in active
    <3> HIDE DEF active
    <3> QED
      BY <1>1, MinFacts
  <2> QED
    BY <2>1, NameFacts
<1>4. ToShow(u) = IF active = {} \/ IsOpen(u, first) THEN None ELSE first
  BY DEF ToShow
<1>5. u.stack = << >> => ~ IsOpen(u, first)
  BY DEF IsOpen, Range
<1>6. None \notin Range(Rostra)
  BY NameFacts DEF None
<1> HIDE DEF active, first
<1> QED
  BY <1>2, <1>3, <1>4, <1>5, <1>6 DEF IsOpen

\* syncRostraDialogs() leaves things alone or puts one active dialog on top; afterwards
\* no dialog waits on a page that shows none.
LEMMA SyncFacts ==
  ASSUME NEW u, NEW h, Sound(u, h)
  PROVE  LET v == syncRostraDialogs(u) IN
         /\ Sound(v, h) /\ v.cls = u.cls /\ Range(u.stack) \subseteq Range(v.stack)
         /\ v.cls # {} => v.stack # << >>
         /\ v = u \/ /\ Len(v.stack) = Len(u.stack) + 1 /\ v.current = Top(v)
                     /\ v.current \in u.cls /\ v.current # None
                     /\ v.trigger = u.focus /\ v.previously[v.current] = u.focus
<1> DEFINE d == ToShow(u)
           v == syncRostraDialogs(u)
<1>1. CASE d = None
  <2>1. v = u
    BY <1>1 DEF syncRostraDialogs
  <2>2. v.cls # {} => v.stack # << >>
    BY <1>1, <2>1, ToShowFacts, SoundFacts
  <2> QED
    BY <2>1, <2>2
<1>2. CASE d # None
  <2>1. d \in Range(Rostra) /\ d \in u.cls /\ d \notin Range(u.stack)
    BY <1>2, ToShowFacts, SoundFacts
  <2>2. v = ShowModal([u EXCEPT !.trigger = u.focus, !.current = d], d)
    BY <1>2 DEF syncRostraDialogs
  <2> HIDE DEF d, v
  <2>3. d \in Modals /\ d \in Elements /\ d \notin Removable
    BY <2>1, NameFacts DEF Elements, Removable
  <2>4. /\ Append(u.stack, d) \in Seq(Modals) /\ IsInjective(Append(u.stack, d))
        /\ Range(Append(u.stack, d)) = Range(u.stack) \cup {d}
        /\ Len(Append(u.stack, d)) = Len(u.stack) + 1 /\ Last(Append(u.stack, d)) = d
        /\ Append(u.stack, d) # << >>
    BY <2>1, <2>3, PushFacts, SoundFacts
  <2> DEFINE w == [u EXCEPT !.trigger = u.focus, !.current = d]
  <2>5. /\ w \in UI /\ w.stack = u.stack /\ w.focus = u.focus /\ w.cls = u.cls
        /\ w.current = d /\ w.trigger = u.focus /\ w.previously = u.previously
    <3>1. u \in UI /\ u.focus \in Elements
      BY SoundFacts
    <3> QED
      BY <2>1, <3>1 DEF UI
  <2>6. v = [w EXCEPT !.previously[d] = w.focus, !.stack = Append(@, d), !.focus = d]
    BY <2>2 DEF ShowModal
  <2> HIDE DEF w
  <2>7. /\ v.stack = Append(u.stack, d) /\ v.focus = d /\ v.cls = u.cls /\ v.current = d
        /\ v.trigger = u.focus /\ v.previously = [u.previously EXCEPT ![d] = u.focus]
        /\ v \in UI
    BY <2>3, <2>4, <2>5, <2>6, SoundFacts DEF UI
  <2>8. v.previously[d] = u.focus
    BY <2>3, <2>7, SoundFacts
  <2>9. Sound(v, h)
    BY <2>1, <2>3, <2>4, <2>7 DEF Sound, Top, Present
  <2> QED
    BY <1>2, <2>1, <2>4, <2>7, <2>8, <2>9 DEF Top, v, d
<1> QED
  BY <1>1, <1>2

\* Where the focus may be when the dialog at the bottom has closed
Given(f) == f = origin \/ (f \in TextInputs /\ writing' # writing)

\* What a step hands to the observer, as far as the focus goes
Handover(u) ==
  /\ ui.stack = << >> =>
       \/ u.stack = << >>
       \/ Len(u.stack) = 1 /\ u.stack[1] = "shortcuts" /\ u.cls = {} /\ u.previously["shortcuts"] = ui.focus
  /\ ui.stack # << >> /\ alone /\ origin \in here \cup {"composer"} =>
       /\ u.stack = << >> => Given(u.focus)
       /\ Len(u.stack) = 1 => GivesBack(u, here, origin)

LEMMA FinishFacts ==
  ASSUME DialogsInv, NEW u, Sound(u, here), Handover(u), Finish(u)
  PROVE  /\ Sound(ui', here) /\ ui'.cls = u.cls /\ Range(u.stack) \subseteq Range(ui'.stack)
         /\ ui'.cls # {} => ui'.stack # << >>
         /\ u.stack = << >> => Range(ui'.stack) \subseteq u.cls
         /\ origin' \in Elements /\ alone' \in BOOLEAN /\ Present(origin', here)
         /\ ui'.stack = << >> => origin' = "body"
         /\ ui'.stack # << >> /\ alone' => Len(ui'.stack) = 1 /\ GivesBack(ui', here, origin')
         /\ ui.stack # << >> /\ alone /\ origin \in here \cup {"composer"} =>
              Given(IF ui'.stack = << >> THEN ui'.focus ELSE origin')
<1>1. ui' = syncRostraDialogs(u)
  BY DEF Finish
<1>2. /\ Sound(ui', here) /\ ui'.cls = u.cls /\ Range(u.stack) \subseteq Range(ui'.stack)
      /\ ui'.cls # {} => ui'.stack # << >>
  BY <1>1, SyncFacts
<1>3. ui' = u \/ /\ Len(ui'.stack) = Len(u.stack) + 1 /\ ui'.current = Top(ui')
                 /\ ui'.current \in u.cls /\ ui'.current # None
                 /\ ui'.trigger = u.focus /\ ui'.previously[ui'.current] = u.focus
  BY <1>1, SyncFacts
<1>4. /\ ui'.stack = << >> => origin' = "body"
      /\ ui'.stack # << >> /\ u.stack = << >> => origin' = ui'.trigger
      /\ ui'.stack # << >> /\ u.stack # << >> /\ ui.stack = << >> => origin' = ui.focus
      /\ ui'.stack # << >> /\ u.stack # << >> /\ ui.stack # << >> => origin' = origin
      /\ alone' = (ui'.stack = << >> \/ u.stack = << >> \/ (alone /\ Len(ui'.stack) = 1))
  <2>1. /\ origin' = IF ui'.stack = << >> THEN "body"
                     ELSE IF u.stack = << >> THEN ui'.trigger
                     ELSE IF ui.stack = << >> THEN ui.focus ELSE origin
        /\ alone' = (ui'.stack = << >> \/ u.stack = << >> \/ (alone /\ Len(ui'.stack) = 1))
    BY Zenon DEF Finish
  <2> QED
    BY <2>1
<1>5. /\ ui'.stack \in Seq(Modals) /\ u.stack \in Seq(Modals) /\ Len(u.stack) \in Nat
      /\ u.stack = << >> <=> Len(u.stack) = 0
      /\ ui'.stack = << >> <=> Len(ui'.stack) = 0
      /\ Len(ui'.stack) = 1 => Top(ui') = ui'.stack[1] /\ Range(ui'.stack) = {ui'.stack[1]}
      /\ u.stack = << >> => Range(u.stack) = {}
  BY <1>2, SoundFacts, StackFacts DEF Top
<1>6. u.stack = << >> => Range(ui'.stack) \subseteq u.cls
  BY <1>3, <1>5
<1>7. /\ origin \in Elements /\ alone \in BOOLEAN /\ Present(origin, here)
      /\ ui.focus \in Elements /\ Present(ui.focus, here) /\ u.focus \in Elements
      /\ Present(u.focus, here) /\ "body" \in Elements /\ Present("body", here)
      /\ ui'.trigger \in Elements
  BY <1>2, SoundFacts DEF DialogsInv, DialogsTypeOK, Sound, Elements, Present, Removable
<1>9. ASSUME u.stack = << >>, ui'.stack # << >>
      PROVE  /\ Len(ui'.stack) = 1 /\ origin' = u.focus
             /\ GivesBack(ui', here, origin')
  <2>1. ui' # u
    BY <1>9
  <2>2. /\ ui'.current = ui'.stack[1] /\ ui'.trigger = u.focus
        /\ ui'.previously[ui'.current] = u.focus /\ Len(ui'.stack) = 1
    BY <1>3, <1>5, <1>9, <2>1
  <2>3. origin' = u.focus
    BY <1>4, <1>9, <2>2
  <2> QED
    BY <2>2, <2>3 DEF GivesBack
<1>10. ASSUME u.stack # << >>, ui'.stack # << >>, Len(ui'.stack) = 1, alone
       PROVE  GivesBack(ui', here, origin')
  <2>1. ui' = u /\ Len(u.stack) = 1
    BY <1>3, <1>5, <1>10
  <2>2. CASE ui.stack = << >>
    <3>1. u.stack[1] = "shortcuts" /\ u.previously["shortcuts"] = ui.focus
      BY <1>10, <2>2 DEF Handover
    <3>2. origin' = ui.focus
      BY <1>4, <1>10, <2>2
    <3> QED
      BY <2>1, <3>1, <3>2 DEF GivesBack
  <2>3. CASE ui.stack # << >>
    <3>1. origin' = origin
      BY <1>4, <1>10, <2>3
    <3> QED
      BY <1>10, <2>1, <2>3, <3>1 DEF Handover, GivesBack
  <2> QED
    BY <2>2, <2>3
<1>11. alone' \in BOOLEAN
  BY <1>4, <1>7, Zenon
<1>12. ui'.stack # << >> /\ alone' => u.stack = << >> \/ (Len(ui'.stack) = 1 /\ alone)
  BY <1>4
<1>13. ui'.stack # << >> /\ alone' => Len(ui'.stack) = 1 /\ GivesBack(ui', here, origin')
  BY <1>9, <1>10, <1>12
<1>14. origin' \in Elements /\ Present(origin', here)
  <2>1. CASE ui'.stack = << >>
    BY <1>4, <1>7, <2>1
  <2>2. CASE ui'.stack # << >> /\ u.stack = << >>
    BY <1>7, <1>9, <2>2
  <2>3. CASE ui'.stack # << >> /\ u.stack # << >>
    BY <1>4, <1>7, <2>3
  <2> QED
    BY <2>1, <2>2, <2>3
<1>15. ASSUME ui.stack # << >>, alone, origin \in here \cup {"composer"}
       PROVE  Given(IF ui'.stack = << >> THEN ui'.focus ELSE origin')
  <2>1. CASE ui'.stack = << >>
    <3>1. ui' = u
      BY <1>3, <1>5, <2>1
    <3> QED
      BY <1>15, <2>1, <3>1 DEF Handover
  <2>2. CASE ui'.stack # << >> /\ u.stack = << >>
    BY <1>9, <1>15, <2>2 DEF Handover
  <2>3. CASE ui'.stack # << >> /\ u.stack # << >>
    BY <1>4, <1>15, <2>3 DEF Given
  <2> QED
    BY <2>1, <2>2, <2>3
<1> QED
  BY <1>2, <1>4, <1>6, <1>11, <1>13, <1>14, <1>15

\* A step that ends with the observer and leaves the elements of the page
LEMMA FinishKeeps ==
  ASSUME DialogsInv, NEW u, Sound(u, here), Handover(u), Finish(u), here' = here,
         requested' \subseteq Server, previousFocus' \in Elements, closeEvent' \in BOOLEAN,
         image' \in [src : BOOLEAN, sideClose : BOOLEAN],
         \/ "image" \in Range(u.stack)
         \/ "image" \in Range(ui'.stack)
         \/ ~ image'.src /\ ~ image'.sideClose
  PROVE  DialogsInv' /\ FocusStep
<1>1. /\ Sound(ui', here') /\ Range(u.stack) \subseteq Range(ui'.stack)
      /\ ui'.cls # {} => ui'.stack # << >>
      /\ origin' \in Elements /\ alone' \in BOOLEAN /\ Present(origin', here')
      /\ ui'.stack = << >> => origin' = "body"
      /\ ui'.stack # << >> /\ alone' => Len(ui'.stack) = 1 /\ GivesBack(ui', here', origin')
  BY FinishFacts
<1>2. FocusStep
  <2>1. ui.stack # << >> /\ alone /\ origin \in here \cup {"composer"} =>
          Given(IF ui'.stack = << >> THEN ui'.focus ELSE origin')
    BY FinishFacts
  <2> QED
    BY <2>1 DEF FocusStep, Given
<1>3. DialogsTypeOK'
  BY <1>1, SoundFacts DEF DialogsTypeOK, DialogsInv
<1>4. DialogsMatchClass'
  BY <1>1 DEF DialogsMatchClass, Sound, IsOpen
<1>5. Sound(ui, here)'
  BY <1>1 DEF Sound, Top, Present, UI
<1>6. (ui.stack # << >> /\ alone => Len(ui.stack) = 1 /\ GivesBack(ui, here, origin))'
  BY <1>1 DEF GivesBack
<1> QED
  BY <1>1, <1>2, <1>3, <1>4, <1>5, <1>6 DEF DialogsInv, Present

-----------------------------------------------------------------------------
(* The steps of the dialogs *)

LEMMA NowFacts ==
  ASSUME DialogsInv
  PROVE  /\ ui \in UI /\ Sound(ui, here) /\ here \in SUBSET Removable
         /\ requested \subseteq Server /\ previousFocus \in Elements /\ closeEvent \in BOOLEAN
         /\ image \in [src : BOOLEAN, sideClose : BOOLEAN]
         /\ "image" \in Range(ui.stack) \/ (~ image.src /\ ~ image.sideClose)
         /\ ui.stack = << >> => ui.cls = {}
         /\ here \subseteq Elements /\ {"composer", "body"} \subseteq Elements
         /\ ui.stack # << >> => Top(ui) \in Range(ui.stack)
<1>1. DialogsTypeOK /\ Sound(ui, here) /\ DialogsMatchClass
  BY DEF DialogsInv
<1>2. ui.stack \in Seq(Modals) /\ (ui.stack # << >> => Top(ui) \in Range(ui.stack))
  BY <1>1, SoundFacts, StackFacts DEF Top
<1>3. ui.stack = << >> => ui.cls = {}
  BY <1>1 DEF DialogsMatchClass
<1>4. "image" \in Range(ui.stack) \/ (~ image.src /\ ~ image.sideClose)
  BY <1>1 DEF DialogsMatchClass, IsOpen
<1>5. here \in SUBSET Removable /\ here \subseteq Elements /\ {"composer", "body"} \subseteq Elements
  BY <1>1 DEF DialogsTypeOK, Elements
<1> QED
  BY <1>1, <1>2, <1>3, <1>4, <1>5 DEF DialogsTypeOK

\* Moving the focus leaves to the observer what was there.
LEMMA FocusHandover ==
  ASSUME DialogsInv, NEW e \in Elements
  PROVE  /\ Sound(Focus(ui, e, here), here) /\ Handover(Focus(ui, e, here))
         /\ Focus(ui, e, here).stack = ui.stack /\ Focus(ui, e, here).cls = ui.cls
<1> DEFINE u == Focus(ui, e, here)
<1>1. Sound(u, here)
  BY NowFacts, FocusSound
<1>2. /\ u.stack = ui.stack /\ u.cls = ui.cls /\ u.current = ui.current
      /\ u.previously = ui.previously /\ u.trigger = ui.trigger
  BY NowFacts, FocusFacts
<1> HIDE DEF u
<1>3. Handover(u)
  BY <1>2 DEF Handover, DialogsInv, GivesBack
<1> QED
  BY <1>1, <1>2, <1>3 DEF u

\* So does an answer that takes a dialog away: the focus goes back to where the dialog
\* was asked for.
LEMMA TakeAwayHandover ==
  ASSUME DialogsInv, NEW d \in Server
  PROVE  LET w == TakeAway(ui, d, here) IN
         /\ Sound(w, here) /\ Handover(w) /\ w.cls = ui.cls \ {d}
         /\ Range(w.stack) = Range(ui.stack) \ {d}
         /\ w \in UI
<1> DEFINE w == TakeAway(ui, d, here)
<1>1. d \in Range(Rostra) /\ d \in Modals /\ d # "shortcuts" /\ d # None
  BY NameFacts DEF Server, None
<1>2. /\ Sound(w, here) /\ w.stack = Without(ui.stack, d) /\ w.cls = ui.cls \ {d}
      /\ w.stack = << >> /\ ui.current = d /\ ui.trigger \in here \cup {"composer"} => w.focus = ui.trigger
      /\ \A m \in Modals \ {d} : w.previously[m] = ui.previously[m]
      /\ ui.current # d => w.current = ui.current /\ w.trigger = ui.trigger
  BY <1>1, NowFacts, TakeAwayFacts
<1> HIDE DEF w
<1>3. /\ ui.stack \in Seq(Modals) /\ Range(w.stack) = Range(ui.stack) \ {d}
      /\ d \in Range(ui.stack) => Len(w.stack) = Len(ui.stack) - 1
      /\ d \notin Range(ui.stack) => w.stack = ui.stack
  <2>1. ui.stack \in Seq(Modals) /\ IsInjective(ui.stack)
    BY NowFacts, SoundFacts
  <2> QED
    BY ONLY <1>2, <2>1, WithoutFacts
<1>4. ui.stack = << >> => w.stack = << >>
  BY <1>3, StackFacts
<1>5. ASSUME ui.stack # << >>, alone, origin \in here \cup {"composer"}
      PROVE  /\ w.stack = << >> => w.focus = origin
             /\ Len(w.stack) = 1 => GivesBack(w, here, origin)
  <2> DEFINE t == ui.stack[1]
  <2>1. /\ Len(ui.stack) = 1 /\ Range(ui.stack) = {t} /\ t \in Modals
        /\ ui.previously[t] = origin
        /\ t # "shortcuts" => ui.current = t /\ ui.trigger = origin
    BY <1>3, <1>5, StackFacts DEF DialogsInv, GivesBack
  <2>2. ui.current # None => ui.current = t
    BY <2>1, NowFacts DEF Sound
  <2> HIDE DEF t
  <2>3. CASE d = t
    <3>1. Len(w.stack) = 0
      BY <1>3, <2>1, <2>3
    <3>2. w.focus = ui.trigger
      BY <1>1, <1>2, <1>5, <2>1, <2>3, <3>1, SoundFacts, StackFacts
    <3> QED
      BY <1>1, <2>1, <2>3, <3>1, <3>2
  <2>4. CASE d # t
    <3>1. w.stack = ui.stack /\ ui.current # d
      BY <1>1, <1>3, <2>1, <2>2, <2>4
    <3>2. w.previously[t] = ui.previously[t] /\ w.current = ui.current /\ w.trigger = ui.trigger
      BY <1>2, <2>1, <2>4, <3>1
    <3>3. w.stack[1] = t
      BY <3>1 DEF t
    <3> QED
      BY <1>5, <2>1, <3>1, <3>2, <3>3 DEF GivesBack
  <2> QED
    BY <2>3, <2>4
<1>6. Handover(w)
  BY <1>4, <1>5 DEF Handover, Given
<1> QED
  BY <1>2, <1>3, <1>6, SoundFacts DEF w

\* closeRostraDialog of a dialog that is open
LEMMA CloseHandover ==
  ASSUME DialogsInv, NEW d \in Range(Rostra), d \in Range(ui.stack)
  PROVE  LET w == closeRostraDialog(ui, d, here) IN
         /\ Sound(w, here) /\ Handover(w) /\ Range(w.stack) = Range(ui.stack) \ {d}
         /\ alone => w.stack = << >>
         /\ alone /\ origin \in here \cup {"composer"} => w.focus = origin
         /\ ui.stack # << >>
<1> DEFINE w == closeRostraDialog(ui, d, here)
<1>1. d \in Range(ui.stack) /\ ui.stack # << >>
  BY NowFacts, SoundFacts
<1>2. /\ Sound(w, here) /\ w.stack = Without(ui.stack, d) /\ w.cls = ui.cls \ {d}
      /\ w.stack = << >> /\ ui.previously[d] \in here \cup {"composer"} => w.focus = ui.previously[d]
  BY <1>1, NowFacts, CloseRostraFacts
<1> HIDE DEF w
<1>3. /\ ui.stack \in Seq(Modals) /\ Range(w.stack) = Range(ui.stack) \ {d}
      /\ Len(w.stack) = Len(ui.stack) - 1 /\ w.stack \in Seq(Modals)
  <2>1. ui.stack \in Seq(Modals) /\ IsInjective(ui.stack)
    BY NowFacts, SoundFacts
  <2> QED
    BY ONLY <1>1, <1>2, <2>1, WithoutFacts
<1>4. alone => Len(w.stack) = 0 /\ w.stack = << >> /\ ui.stack[1] = d
  BY <1>1, <1>3, StackFacts DEF DialogsInv
<1>5. alone /\ origin \in here \cup {"composer"} => w.focus = origin
  BY <1>1, <1>2, <1>4 DEF DialogsInv, GivesBack
<1>6. Handover(w)
  <2>1. Len(w.stack) = 0 => Len(w.stack) # 1
    OBVIOUS
  <2> QED
    BY <1>1, <1>4, <1>5, <2>1, Zenon DEF Handover, Given
<1> QED
  BY <1>1, <1>2, <1>3, <1>4, <1>5, <1>6 DEF w

\* ... and of one that is not: only its class goes.
LEMMA CloseHidden ==
  ASSUME DialogsInv, NEW d \in Range(Rostra), d \notin Range(ui.stack)
  PROVE  LET w == closeRostraDialog(ui, d, here) IN
         /\ Sound(w, here) /\ w.stack = ui.stack /\ w.current = ui.current
         /\ w.previously = ui.previously /\ w.trigger = ui.trigger /\ w.cls = ui.cls \ {d}
<1> DEFINE w == closeRostraDialog(ui, d, here)
           v == [ui EXCEPT !.cls = @ \ {d}]
<1>1. /\ v \in UI /\ v.stack = ui.stack /\ v.current = ui.current /\ v.focus = ui.focus
      /\ v.previously = ui.previously /\ v.trigger = ui.trigger /\ v.cls = ui.cls \ {d}
  BY NowFacts DEF UI
<1>2. v.current # d
  BY <1>1, NowFacts, NameFacts DEF Sound, None
<1>3. w = v
  <2>1. ~ IsOpen(v, d)
    BY <1>1 DEF IsOpen
  <2> QED
    BY <1>2, <2>1 DEF closeRostraDialog
<1> HIDE DEF v, w
<1>4. Sound(v, here)
  BY <1>1, NowFacts DEF Sound, Top
<1> QED
  BY <1>1, <1>3, <1>4 DEF w

LEMMA RequestKeeps ==
  ASSUME DialogsInv, NEW d \in Server, NEW e \in here \cup {"composer", d}, Request(d, e)
  PROVE  DialogsInv' /\ FocusStep
<1>1. e \in Elements
  BY NowFacts, NameFacts DEF Elements, Server
<1>2. /\ Finish(Focus(ui, e, here)) /\ requested' = requested \cup {d}
      /\ UNCHANGED <<here, previousFocus, closeEvent, image>>
  BY DEF Request
<1> QED
  BY <1>1, <1>2, FocusHandover, FinishKeeps, NowFacts

LEMMA RespondKeeps ==
  ASSUME DialogsInv, NEW d \in Server, NEW shows \in BOOLEAN, Respond(d, shows)
  PROVE  DialogsInv' /\ FocusStep
<1> DEFINE w == TakeAway(ui, d, here)
           u == IF shows THEN [w EXCEPT !.cls = @ \cup {d}] ELSE w
<1>1. /\ Sound(w, here) /\ Handover(w) /\ Range(w.stack) = Range(ui.stack) \ {d} /\ w \in UI
  BY TakeAwayHandover
<1>2. /\ Finish(u) /\ requested' = requested \ {d}
      /\ UNCHANGED <<here, previousFocus, closeEvent, image>>
  BY DEF Respond
<1>3. d \in Range(Rostra) /\ d # "image"
  BY NameFacts DEF Server
<1> HIDE DEF w
<1>4. /\ u \in UI /\ u.stack = w.stack /\ u.focus = w.focus /\ u.current = w.current
      /\ u.trigger = w.trigger /\ u.previously = w.previously /\ w.cls \subseteq u.cls
  BY <1>1, <1>3 DEF UI
<1> HIDE DEF u
<1>5. Sound(u, here)
  BY <1>1, <1>4 DEF Sound, Top
<1>6. Handover(u)
  <2>1. ui.stack = << >> => w.stack = << >>
    BY <1>1, NowFacts, SoundFacts
  <2> QED
    BY <1>1, <1>4, <2>1 DEF Handover, GivesBack
<1>7. "image" \in Range(u.stack) \/ (~ image'.src /\ ~ image'.sideClose)
  BY <1>1, <1>2, <1>3, <1>4, NowFacts
<1> QED
  BY <1>2, <1>5, <1>6, <1>7, FinishKeeps, NowFacts

LEMMA CloseDialogKeeps ==
  ASSUME DialogsInv, NEW d \in Range(Rostra), CloseDialog(d)
  PROVE  DialogsInv' /\ FocusStep
<1> DEFINE w == closeRostraDialog(ui, d, here)
<1>1. /\ ui.stack # << >> /\ Top(ui) = d /\ Finish(w)
      /\ image' = IF d = "image" THEN [src |-> FALSE, sideClose |-> FALSE] ELSE image
      /\ UNCHANGED <<here, requested, previousFocus, closeEvent>>
  BY DEF CloseDialog
<1>2. Sound(w, here) /\ Handover(w) /\ Range(w.stack) = Range(ui.stack) \ {d}
  BY <1>1, CloseHandover, NowFacts
<1> HIDE DEF w
<1>3. image' \in [src : BOOLEAN, sideClose : BOOLEAN]
  BY <1>1, NowFacts
<1>4. "image" \in Range(w.stack) \/ (~ image'.src /\ ~ image'.sideClose)
  BY <1>1, <1>2, NowFacts
<1> QED
  BY <1>1, <1>2, <1>3, <1>4, FinishKeeps, NowFacts

\* An answer writes into a textarea, whatever has become of its dialog.
LEMMA InsertKeeps ==
  ASSUME DialogsInv, NEW d \in Server, NEW t \in TextInputs \cup {"gone"}, Insert(d, t)
  PROVE  DialogsInv' /\ FocusStep
<1> DEFINE w == closeRostraDialog(ui, d, here)
           u == Focus(w, t, here)
<1>1. /\ writing' # writing /\ Finish(u)
      /\ UNCHANGED <<here, requested, previousFocus, closeEvent, image>>
  BY DEF Insert
<1>2. d \in Range(Rostra) /\ d # "image"
  BY NameFacts DEF Server
<1>3. t \in Elements /\ (t \notin TextInputs => t = "gone")
  BY DEF Elements, TextInputs, Removable
<1>4. CASE d \in Range(ui.stack)
  <2>1. /\ Sound(w, here) /\ Range(w.stack) = Range(ui.stack) \ {d} /\ ui.stack # << >>
        /\ alone => w.stack = << >>
        /\ alone /\ origin \in here \cup {"composer"} => w.focus = origin
    BY <1>2, <1>4, CloseHandover
  <2> HIDE DEF w
  <2>2. /\ Sound(u, here) /\ u.stack = w.stack /\ u.focus \in {w.focus, t}
    BY <1>3, <2>1, SoundFacts, FocusSound, FocusFacts
  <2>3. w.stack = << >> /\ t = "gone" => u.focus = w.focus
    BY NowFacts DEF Focus, Removable
  <2> HIDE DEF u
  <2>4. Handover(u)
    <3>1. u.stack = << >> => Len(u.stack) # 1
      OBVIOUS
    <3>2. alone /\ origin \in here \cup {"composer"} => u.stack = << >> /\ Given(u.focus)
      BY <1>1, <1>3, <2>1, <2>2, <2>3 DEF Given
    <3> QED
      BY <2>1, <3>1, <3>2 DEF Handover
  <2>5. "image" \in Range(u.stack) \/ (~ image'.src /\ ~ image'.sideClose)
    BY <1>1, <1>2, <2>1, <2>2, NowFacts
  <2> QED
    BY <1>1, <2>2, <2>4, <2>5, FinishKeeps, NowFacts
<1>5. CASE d \notin Range(ui.stack)
  <2>1. /\ Sound(w, here) /\ w.stack = ui.stack /\ w.current = ui.current
        /\ w.previously = ui.previously /\ w.trigger = ui.trigger
    BY <1>2, <1>5, CloseHidden
  <2> HIDE DEF w
  <2>2. /\ Sound(u, here) /\ u.stack = w.stack /\ u.current = w.current
        /\ u.previously = w.previously /\ u.trigger = w.trigger
    BY <1>3, <2>1, SoundFacts, FocusSound, FocusFacts
  <2> HIDE DEF u
  <2>3. Handover(u)
    BY <2>1, <2>2 DEF Handover, DialogsInv, GivesBack
  <2>4. "image" \in Range(u.stack) \/ (~ image'.src /\ ~ image'.sideClose)
    BY <1>1, <2>1, <2>2, NowFacts
  <2> QED
    BY <1>1, <2>2, <2>3, <2>4, FinishKeeps, NowFacts
<1> QED
  BY <1>4, <1>5

LEMMA EnlargeKeeps ==
  ASSUME DialogsInv, enlargePostImage
  PROVE  DialogsInv' /\ FocusStep
<1> DEFINE v == Focus(ui, "post", here)
           u == [v EXCEPT !.cls = @ \cup {"image"}]
<1>1. /\ ui.stack = << >> /\ "post" \in here /\ Finish(u) /\ image' = [image EXCEPT !.src = TRUE]
      /\ UNCHANGED <<here, requested, previousFocus, closeEvent>>
  BY DEF enlargePostImage
<1>2. "post" \in Elements
  BY <1>1, NowFacts
<1>3. Sound(v, here) /\ v.stack = << >> /\ v.cls = {} /\ v \in UI
  BY <1>1, <1>2, FocusHandover, NowFacts, SoundFacts
<1> HIDE DEF v
<1>4. /\ u \in UI /\ u.stack = v.stack /\ u.focus = v.focus /\ u.current = v.current
      /\ u.cls = {"image"}
  BY <1>3, NameFacts DEF UI
<1> HIDE DEF u
<1>5. Sound(u, here)
  BY <1>3, <1>4 DEF Sound, Top
<1>6. Handover(u)
  BY <1>1, <1>3, <1>4 DEF Handover
<1>7. "image" \in Range(ui'.stack)
  <2>1. /\ Sound(ui', here) /\ ui'.cls = {"image"} /\ ui'.stack # << >>
        /\ Range(ui'.stack) \subseteq {"image"}
    BY <1>1, <1>3, <1>4, <1>5, <1>6, FinishFacts
  <2> QED
    BY <2>1, SoundFacts
<1>8. image' \in [src : BOOLEAN, sideClose : BOOLEAN]
  BY <1>1, NowFacts
<1> QED
  BY <1>1, <1>5, <1>6, <1>7, <1>8, FinishKeeps, NowFacts

LEMMA ShowShortcutsKeeps ==
  ASSUME DialogsInv, ShowShortcuts
  PROVE  DialogsInv' /\ FocusStep
<1> DEFINE u == ShowModal(ui, "shortcuts")
<1>1. /\ ui.stack = << >> /\ previousFocus' = ui.focus /\ Finish(u)
      /\ UNCHANGED <<here, requested, closeEvent, image>>
  BY DEF ShowShortcuts
<1>2. "shortcuts" \in Modals /\ "shortcuts" \in Elements /\ "shortcuts" \notin Removable
  BY DEF Modals, Elements, Removable
<1>3. ui.stack \in Seq(Modals) /\ Range(ui.stack) = {} /\ IsInjective(ui.stack) /\ ui.current = None
  BY <1>1, NowFacts, SoundFacts
<1>4. /\ Append(ui.stack, "shortcuts") \in Seq(Modals) /\ IsInjective(Append(ui.stack, "shortcuts"))
      /\ Range(Append(ui.stack, "shortcuts")) = {"shortcuts"}
      /\ Len(Append(ui.stack, "shortcuts")) = Len(ui.stack) + 1 /\ Last(Append(ui.stack, "shortcuts")) = "shortcuts"
  BY ONLY <1>2, <1>3, PushFacts
<1>5. /\ u \in UI /\ u.stack = Append(ui.stack, "shortcuts") /\ u.focus = "shortcuts"
      /\ u.cls = ui.cls /\ u.current = ui.current /\ u.previously["shortcuts"] = ui.focus
  BY <1>2, <1>4, NowFacts DEF ShowModal, UI
<1> HIDE DEF u
<1>6. Len(u.stack) = 1
  BY <1>1, <1>4, <1>5
<1>7. Sound(u, here)
  BY <1>2, <1>3, <1>4, <1>5, <1>6 DEF Sound, Top, Present
<1>8. Handover(u)
  <2>1. u.stack[1] = "shortcuts"
    BY <1>4, <1>5, <1>6, StackFacts
  <2> QED
    BY <1>1, <1>5, <1>6, <2>1, NowFacts DEF Handover
<1>9. ~ image'.src /\ ~ image'.sideClose
  BY <1>1, <1>3, NowFacts
<1>10. ui.focus \in Elements
  BY NowFacts, SoundFacts
<1> QED
  BY <1>1, <1>7, <1>8, <1>9, <1>10, FinishKeeps, NowFacts

LEMMA CloseShortcutsKeeps ==
  ASSUME DialogsInv, NEW b \in BOOLEAN, CloseShortcuts(b)
  PROVE  DialogsInv' /\ FocusStep
<1> DEFINE s == "shortcuts"
           u == Close(ui, s, here)
<1>1. /\ s \in Range(ui.stack) /\ Finish(u) /\ closeEvent' = TRUE
      /\ UNCHANGED <<here, requested, previousFocus, image>>
  BY DEF CloseShortcuts, IsOpen
<1>2. s \notin Range(Rostra) /\ s # None /\ s # "image"
  BY NameFacts DEF None
<1>3. ui.stack # << >> /\ IsInjective(ui.stack) /\ ui.focus \in {Top(ui), "body"} /\ Present(ui.focus, here)
  BY <1>1, NowFacts, SoundFacts DEF Sound
<1> HIDE DEF s
<1>4. /\ u \in UI /\ u.stack = Without(ui.stack, s) /\ u.cls = ui.cls
      /\ u.current = ui.current
      /\ u.stack # << >> => u.focus \in {Top(u), "body"}
      /\ u.stack = << >> /\ ui.previously[s] \in here \cup {"composer"} => u.focus = ui.previously[s]
      /\ Present(u.focus, here)
  BY <1>1, <1>3, NowFacts, CloseFacts
<1> HIDE DEF u
<1>5. /\ ui.stack \in Seq(Modals) /\ IsInjective(u.stack) /\ Range(u.stack) = Range(ui.stack) \ {s}
      /\ Len(u.stack) = Len(ui.stack) - 1 /\ u.stack \in Seq(Modals)
  <2>1. ui.stack \in Seq(Modals) /\ IsInjective(ui.stack)
    BY NowFacts, SoundFacts
  <2> QED
    BY ONLY <1>1, <1>4, <2>1, WithoutFacts
<1>6. Sound(u, here)
  <2>1. u.current # None => u.current # s /\ u.current \in Range(ui.stack)
    BY <1>2, <1>4, NowFacts DEF Sound, UI
  <2> QED
    BY <1>4, <1>5, <2>1, NowFacts DEF Sound
<1>7. Handover(u)
  <2>1. alone => Len(u.stack) = 0 /\ u.stack = << >> /\ ui.stack[1] = s
    BY <1>1, <1>3, <1>5, StackFacts DEF DialogsInv
  <2>2. alone /\ origin \in here \cup {"composer"} => u.focus = origin
    BY <1>3, <1>4, <2>1 DEF DialogsInv, GivesBack
  <2> QED
    BY <1>3, <2>1, <2>2 DEF Handover, Given
<1>8. "image" \in Range(u.stack) \/ (~ image'.src /\ ~ image'.sideClose)
  BY <1>1, <1>2, <1>5, NowFacts
<1> QED
  BY <1>1, <1>6, <1>7, <1>8, FinishKeeps, NowFacts

LEMMA ShortcutsClosedKeeps ==
  ASSUME DialogsInv, ShortcutsClosed
  PROVE  DialogsInv' /\ FocusStep
<1>1. /\ Finish(Focus(ui, previousFocus, here)) /\ closeEvent' = FALSE
      /\ previousFocus' \in {previousFocus, "body"}
      /\ UNCHANGED <<here, requested, image>>
  BY DEF ShortcutsClosed
<1> QED
  BY <1>1, FocusHandover, FinishKeeps, NowFacts

LEMMA MoveFocusKeeps ==
  ASSUME DialogsInv, NEW e \in here \cup {"body", "composer"}, MoveFocus(e)
  PROVE  DialogsInv' /\ FocusStep
<1>1. e \in Elements
  BY NowFacts
<1>2. UNCHANGED <<here, requested, previousFocus, closeEvent, image>>
  BY DEF MoveFocus
<1>3. CASE Finish(Focus(ui, e, here))
  BY <1>1, <1>2, <1>3, FocusHandover, FinishKeeps, NowFacts
<1>4. CASE ui.stack = << >> /\ Finish(Unfocus(ui, ui.focus))
  <2>1. Sound(Unfocus(ui, ui.focus), here) /\ Unfocus(ui, ui.focus).stack = << >>
    BY <1>4, NowFacts, UnfocusSound, UnfocusFacts
  <2>2. Handover(Unfocus(ui, ui.focus))
    BY <1>4, <2>1 DEF Handover
  <2>3. ~ image'.src /\ ~ image'.sideClose
    BY <1>2, <1>4, NowFacts, SoundFacts
  <2> QED
    BY <1>2, <1>4, <2>1, <2>2, <2>3, FinishKeeps, NowFacts
<1> QED
  BY <1>3, <1>4 DEF MoveFocus

\* A textarea is left: no dialog is open, and none comes up.
LEMMA EscapeKeeps ==
  ASSUME DialogsInv, Escape
  PROVE  DialogsInv' /\ FocusStep
<1>1. CASE \E d \in Range(Rostra) : CloseDialog(d)
  BY <1>1, CloseDialogKeeps
<1>2. CASE /\ ui.stack = << >> /\ here' = here \ {ui.focus}
           /\ Finish(Unfocus(ui, ui.focus))
           /\ UNCHANGED <<requested, previousFocus, closeEvent, image>>
  <2> DEFINE u == Unfocus(ui, ui.focus)
  <2>1. /\ Sound(u, here) /\ u.stack = << >> /\ u.cls = {} /\ u.focus = "body"
    BY <1>2, NowFacts, UnfocusSound, UnfocusFacts
  <2>2. Finish(u)
    BY <1>2
  <2> HIDE DEF u
  <2>3. Handover(u)
    BY <1>2, <2>1 DEF Handover
  <2>4. /\ Sound(ui', here) /\ ui'.cls = {} /\ Range(ui'.stack) = {}
        /\ origin' \in Elements /\ alone' \in BOOLEAN
        /\ ui'.stack = << >> => origin' = "body"
    BY <2>1, <2>2, <2>3, FinishFacts
  <2>5. ui'.stack = << >> /\ ui' \in UI
    BY <2>4, SoundFacts
  <2>6. ui' = u
    <3>1. ToShow(u) = None
      BY <2>1, ToShowFacts, SoundFacts
    <3> QED
      BY <2>2, <3>1 DEF Finish, syncRostraDialogs
  <2>7. Present("body", here')
    BY DEF Present, Removable
  <2>8. Sound(ui', here')
    BY <2>1, <2>4, <2>5, <2>6, <2>7 DEF Sound
  <2>9. DialogsTypeOK'
    BY <1>2, <2>4, <2>5, NowFacts DEF DialogsTypeOK
  <2>10. DialogsMatchClass'
    BY <1>2, <2>4, NowFacts, SoundFacts DEF DialogsMatchClass, IsOpen
  <2>11. Sound(ui, here)'
    BY <2>8 DEF Sound, Top, Present, UI
  <2> QED
    BY <1>2, <2>4, <2>5, <2>7, <2>9, <2>10, <2>11 DEF DialogsInv, FocusStep, Present
<1> QED
  BY <1>1, <1>2 DEF Escape

\* Elements come and go; what is remembered of one that went is gone.
LEMMA PageChangesKeeps ==
  ASSUME DialogsInv, NEW h \in SUBSET Removable, PageChanges(h)
  PROVE  DialogsInv' /\ FocusStep
<1> DEFINE F(e) == IF e \in here \ h THEN "gone" ELSE e
           u == IF ui.focus \in here \ h THEN Unfocus(ui, ui.focus) ELSE ui
           v == [u EXCEPT !.previously = [d \in DOMAIN @ |-> F(@[d])], !.trigger = F(@)]
<1>1. /\ here' = h /\ ui' = IF "reply" \in h \ here THEN Focus(v, "reply", h) ELSE v
      /\ previousFocus' = F(previousFocus) /\ origin' = F(origin)
      /\ UNCHANGED <<requested, closeEvent, image, alone>>
  BY DEF PageChanges
<1>2. \A e \in Elements : F(e) \in Elements
  BY DEF Elements
<1>3. /\ u \in UI /\ u.stack = ui.stack /\ u.cls = ui.cls /\ u.current = ui.current
      /\ u.previously = ui.previously /\ u.trigger = ui.trigger
      /\ u.focus = IF ui.focus \in here \ h THEN "body" ELSE ui.focus
  BY NowFacts, UnfocusFacts
<1> HIDE DEF u
<1>4. /\ v \in UI /\ v.stack = ui.stack /\ v.cls = ui.cls /\ v.current = ui.current
      /\ v.trigger = F(ui.trigger) /\ v.focus = u.focus
      /\ \A d \in Modals : v.previously[d] = F(ui.previously[d])
  <2> HIDE DEF F
  <2> QED
    BY <1>2, <1>3 DEF UI
<1> HIDE DEF v
<1>5. Present(u.focus, h)
  BY <1>3, NowFacts DEF Sound, Present, Removable
<1>6. "reply" \in Elements
  BY DEF Elements, Removable
<1>7. /\ ui' \in UI /\ ui'.stack = v.stack /\ ui'.cls = v.cls /\ ui'.current = v.current
      /\ ui'.previously = v.previously /\ ui'.trigger = v.trigger
      /\ v.stack # << >> => ui'.focus \in {v.focus, Top(v)}
      /\ Present(ui'.focus, h)
  <2>1. CASE "reply" \in h \ here
    BY <1>1, <1>4, <1>5, <1>6, <2>1, FocusFacts
  <2>2. CASE "reply" \notin h \ here
    BY <1>1, <1>4, <1>5, <2>2
  <2> QED
    BY <2>1, <2>2
<1>8. Sound(ui', h)
  <2>1. ui.stack # << >> => ui'.focus \in {Top(ui'), "body"}
    BY <1>3, <1>4, <1>7, NowFacts DEF Sound, Top
  <2> QED
    BY <1>4, <1>7, <2>1, NowFacts DEF Sound
<1>9. DialogsTypeOK'
  BY <1>1, <1>2, <1>7 DEF DialogsTypeOK, DialogsInv
<1>10. DialogsMatchClass'
  BY <1>1, <1>4, <1>7 DEF DialogsMatchClass, IsOpen, DialogsInv
<1>11. Present(origin', h) /\ (ui'.stack = << >> => origin' = "body")
  BY <1>1, <1>4, <1>7, NowFacts DEF DialogsInv, Present, Removable
<1>12. ASSUME ui.stack # << >>, alone
       PROVE  Len(ui'.stack) = 1 /\ GivesBack(ui', h, origin')
  <2>1. Len(ui.stack) = 1 /\ GivesBack(ui, here, origin)
    BY <1>12 DEF DialogsInv
  <2> DEFINE d == ui.stack[1]
  <2>2. d \in Modals /\ ui'.stack[1] = d
    BY <1>4, <1>7, <1>12, NowFacts, SoundFacts, StackFacts
  <2>3. ui'.previously[d] = F(ui.previously[d]) /\ ui'.trigger = F(ui.trigger) /\ ui'.current = ui.current
    BY <1>4, <1>7, <2>2
  <2>4. origin' \in h \cup {"composer"} =>
          /\ origin' = origin /\ origin \in here \cup {"composer"}
          /\ F("composer") = "composer" /\ F(origin) = origin
    BY <1>1, NowFacts DEF DialogsInv, Present, Removable
  <2> HIDE DEF d, F
  <2>5. ui'.stack[1] = d /\ ui.stack[1] = d
    BY <2>2 DEF d
  <2>6. GivesBack(ui', h, origin')
    BY <2>1, <2>3, <2>4, <2>5 DEF GivesBack
  <2> QED
    BY <1>4, <1>7, <2>1, <2>6
<1>13. Sound(ui, here)'
  BY <1>1, <1>8 DEF Sound, Top, Present, UI
<1>14. FocusStep
  BY <1>1, <1>4, <1>7, NowFacts DEF FocusStep, Removable
<1>15. (ui.stack # << >> /\ alone => Len(ui.stack) = 1 /\ GivesBack(ui, here, origin))'
  BY <1>1, <1>4, <1>7, <1>12 DEF GivesBack
<1>16. (Present(origin, here) /\ (ui.stack = << >> => origin = "body"))'
  BY <1>1, <1>11 DEF Present
<1> QED
  BY <1>9, <1>10, <1>13, <1>14, <1>15, <1>16 DEF DialogsInv

-----------------------------------------------------------------------------
(* The page *)

LEMMA RestKeeps ==
  ASSUME DialogsInv,
         \/ UNCHANGED dialogVars
         \/ \E d \in Server : RequestFails(d) \/ Write(d) \/ WriteFails(d)
         \/ \E b \in BOOLEAN : FitImage(b)
  PROVE  DialogsInv' /\ FocusStep
<1>1. /\ UNCHANGED <<ui, here, previousFocus, closeEvent, origin, alone>>
      /\ requested' \subseteq requested
      /\ image' \in [src : BOOLEAN, sideClose : BOOLEAN]
      /\ "image" \in Range(ui.stack) \/ (~ image'.src /\ ~ image'.sideClose)
  <2>1. CASE UNCHANGED dialogVars
    BY <2>1, NowFacts DEF dialogVars
  <2>2. CASE \E d \in Server : RequestFails(d) \/ Write(d) \/ WriteFails(d)
    BY <2>2, NowFacts DEF RequestFails, Write, WriteFails
  <2>3. CASE \E b \in BOOLEAN : FitImage(b)
    <3>1. PICK b \in BOOLEAN : FitImage(b)
      BY <2>3
    <3>2. image' = [image EXCEPT !.sideClose = b] /\ ("image" \in Range(ui.stack) \/ ~ b)
      BY <3>1 DEF FitImage, Fits, IsOpen
    <3> QED
      BY <3>1, <3>2, NowFacts DEF FitImage
  <2> QED
    BY <2>1, <2>2, <2>3
<1>2. DialogsTypeOK'
  BY <1>1 DEF DialogsInv, DialogsTypeOK
<1>3. DialogsMatchClass'
  BY <1>1 DEF DialogsInv, DialogsMatchClass, IsOpen
<1>4. Sound(ui, here)'
  BY <1>1, NowFacts DEF Sound, Top, Present, UI
<1>5. (ui.stack # << >> /\ alone => Len(ui.stack) = 1 /\ GivesBack(ui, here, origin))'
  BY <1>1 DEF DialogsInv, GivesBack
<1>6. (Present(origin, here) /\ (ui.stack = << >> => origin = "body"))'
  BY <1>1 DEF DialogsInv, Present
<1> QED
  BY <1>1, <1>2, <1>3, <1>4, <1>5, <1>6 DEF DialogsInv, FocusStep

\* A page that is loaded again starts without dialogs.
LEMMA ComeBackKeeps ==
  ASSUME DialogsInv, NEW h, ComeBack(h)
  PROVE  DialogsInv' /\ FocusStep
<1>1. /\ ui.stack = << >> /\ ui' = [ui EXCEPT !.focus = "body"] /\ here' = {"post"}
      /\ requested' = {} /\ previousFocus' = "body" /\ closeEvent' = FALSE
      /\ image' = [src |-> FALSE, sideClose |-> FALSE] /\ origin' = origin /\ alone' = alone
  BY DEF ComeBack
<1>2. "body" \in Elements /\ origin = "body" /\ Present("body", here')
  BY <1>1 DEF DialogsInv, Elements, Present, Removable
<1>3. /\ ui' \in UI /\ ui'.stack = << >> /\ ui'.cls = ui.cls /\ ui'.current = ui.current
      /\ ui'.focus = "body"
  BY <1>1, <1>2, NowFacts DEF UI
<1>4. Sound(ui', here')
  BY <1>1, <1>2, <1>3, NowFacts DEF Sound
<1>5. DialogsTypeOK'
  BY <1>1, <1>2, <1>3 DEF DialogsInv, DialogsTypeOK, Removable
<1>6. DialogsMatchClass'
  BY <1>1, <1>3, NowFacts, SoundFacts DEF DialogsMatchClass, Sound
<1>7. Sound(ui, here)'
  BY <1>4 DEF Sound, Top, Present, UI
<1> QED
  BY <1>1, <1>2, <1>3, <1>5, <1>6, <1>7 DEF DialogsInv, FocusStep, Present

LEMMA DialogsKeep ==
  ASSUME DialogsInv, Dialogs \/ Navigation
  PROVE  DialogsInv' /\ FocusStep
<1>1. CASE \E d \in Server :
             \/ \E e \in here \cup {"composer", d} : Request(d, e) /\ WithSelection(e = "composer")
             \/ \E b \in BOOLEAN : Respond(d, b) /\ WithSelection(FALSE)
             \/ RequestFails(d) /\ WithSelection(FALSE)
             \/ Write(d) /\ WithSelection(TRUE)
             \/ \E t \in TextInputs \cup {"gone"} : Insert(d, t) /\ WithSelection(FALSE)
             \/ WriteFails(d) /\ WithSelection(FALSE)
  BY <1>1, RequestKeeps, RespondKeeps, RestKeeps, InsertKeeps
<1>2. CASE \/ \E d \in Range(Rostra) : CloseDialog(d) /\ WithSelection(TRUE)
           \/ enlargePostImage /\ WithSelection(FALSE)
           \/ Escape /\ WithSelection(FALSE)
  BY <1>2, CloseDialogKeeps, EnlargeKeeps, EscapeKeeps
<1>3. CASE \/ ShowShortcuts /\ WithSelection(FALSE)
           \/ ShortcutsClosed /\ WithSelection(FALSE)
           \/ \E b \in BOOLEAN : CloseShortcuts(b) /\ WithSelection(~ b)
  BY <1>3, ShowShortcutsKeeps, ShortcutsClosedKeeps, CloseShortcutsKeeps
<1>4. CASE \/ \E b \in BOOLEAN : FitImage(b) /\ WithSelection(FALSE)
           \/ \E h \in SUBSET Removable : PageChanges(h) /\ WithSelection(FALSE)
           \/ \E e \in here \cup {"body", "composer"}, b \in BOOLEAN : MoveFocus(e) /\ WithSelection(b)
  BY <1>4, RestKeeps, PageChangesKeeps, MoveFocusKeeps
<1>5. CASE Dialogs
  BY <1>1, <1>2, <1>3, <1>4, <1>5 DEF Dialogs
<1>6. CASE UNCHANGED dialogVars
  BY <1>6, RestKeeps
<1>7. CASE \E h \in SUBSET Items : ComeBack(h)
  BY <1>7, ComeBackKeeps
<1>8. CASE NewPost
  <2>1. "composer" \in here \cup {"body", "composer"}
    OBVIOUS
  <2> QED
    BY <1>8, <2>1, MoveFocusKeeps DEF NewPost
<1>9. CASE Reply
  <2>1. here \cup {"reply"} \in SUBSET Removable
    BY NowFacts DEF Removable
  <2> QED
    BY <1>9, <2>1, PageChangesKeeps DEF Reply
<1>10. CASE Navigation
  BY <1>6, <1>7, <1>8, <1>9, <1>10 DEF Navigation, Navigate, Expand, Forget
<1> QED
  BY <1>5, <1>10

LEMMA PageInit == Init => PageInv
<1> SUFFICES ASSUME Init PROVE PageInv
  OBVIOUS
<1>1. DialogsInv
  <2>1. "body" \in Elements /\ << >> \in Seq(Modals) /\ Range(<< >>) = {} /\ IsInjective(<< >>)
    BY DEF Elements, Range, IsInjective
  <2>2. ui \in UI /\ ui.stack = << >> /\ ui.cls = {} /\ ui.current = None /\ ui.focus = "body"
    BY <2>1 DEF Init, DialogsInit, UI, Modals
  <2>3. Sound(ui, here)
    BY <2>1, <2>2 DEF Sound, Present, Removable
  <2>4. DialogsTypeOK
    BY <2>1, <2>2 DEF Init, DialogsInit, DialogsTypeOK, Removable
  <2>5. DialogsMatchClass
    BY <2>1, <2>2 DEF Init, DialogsInit, DialogsMatchClass
  <2> QED
    BY <2>2, <2>3, <2>4, <2>5 DEF DialogsInv, Init, DialogsInit, Present, Removable
<1>2. NavInv
  BY ItemFacts DEF Init, NavInit, NavInv, SelectionConsistent
<1>3. NoSelectionWhileTyping
  BY DEF Init, NavInit, NoSelectionWhileTyping
<1>4. WidgetsInv
  <2>0. /\ clicks = 0 /\ pending = {} /\ result = << >> /\ state = 0
        /\ status = {} /\ timers = {} /\ lit = FALSE
    BY DEF Init, WidgetsInit
  <2>1. CopyInv
    <3>1. Len(result) = 0 /\ result \in Seq({"none", "copied", "failed"})
      BY <2>0
    <3>2. lit \in BOOLEAN
      BY <2>0, Zenon
    <3> QED
      BY <2>0, <3>1, <3>2 DEF CopyInv
  <2>2. CopyStatusLatest
    BY <2>0 DEF CopyStatusLatest
  <2>3. TagsLabelled /\ TagsType
    <3>1. /\ options = Tags /\ label = Label(options, checked) /\ addInput = ""
          /\ Tags \in Seq(Typed) /\ IsInjective(Tags)
      BY WidgetsAssumption DEF Init, WidgetsInit
    <3>2. \A i, j \in DOMAIN options : options[i] = options[j] => i = j
      BY <3>1 DEF IsInjective
    <3>3. \A i, j \in DOMAIN options : i < j => i # j
      <4>1. options \in Seq(Typed)
        BY <3>1
      <4>2. DOMAIN options = 1 .. Len(options) /\ Len(options) \in Nat
        BY ONLY <4>1
      <4> QED
        BY <4>2
    <3> QED
      BY <3>1, <3>2, <3>3 DEF TagsLabelled, TagsType
  <2>4. PickerCanClose /\ hidden \in BOOLEAN /\ listeners \in Nat /\ opening \in Nat
    BY DEF Init, WidgetsInit, PickerCanClose
  <2> QED
    BY <2>1, <2>2, <2>3, <2>4 DEF WidgetsInv, WidgetsTruthful
<1> QED
  BY <1>1, <1>2, <1>3, <1>4 DEF PageInv

LEMMA PageStep == PageInv /\ [Next]_pageVars => PageInv' /\ [FocusStep]_dialogVars
<1> SUFFICES ASSUME PageInv, [Next]_pageVars PROVE PageInv' /\ [FocusStep]_dialogVars
  OBVIOUS
<1>1. ASSUME UNCHANGED timelineVars
      PROVE  DialogsInv' /\ NavInv' /\ NoSelectionWhileTyping' /\ UNCHANGED dialogVars
  <2>1. UNCHANGED dialogVars /\ UNCHANGED navVars
    BY <1>1 DEF timelineVars
  <2>2. DialogsInv'
    BY <2>1, RestKeeps DEF PageInv
  <2>3. NavInv'
    BY <2>1 DEF PageInv, navVars, NavInv, SelectionConsistent, Gone
  <2>4. NoSelectionWhileTyping'
    BY <2>1 DEF PageInv, dialogVars, navVars, NoSelectionWhileTyping, isTextInputFocused
  <2> QED
    BY <2>1, <2>2, <2>3, <2>4
<1>2. ASSUME UNCHANGED widgetVars PROVE WidgetsInv'
  BY <1>2 DEF widgetVars, copy, tagSelect, picker, PageInv, WidgetsInv, CopyInv, WidgetsTruthful,
              TagsType, CopyStatusLatest, TagsLabelled, PickerCanClose
<1>3. CASE (Dialogs \/ Navigation) /\ UNCHANGED widgetVars
  <2>1. DialogsInv' /\ FocusStep
    BY <1>3, DialogsKeep DEF PageInv
  <2>2. NavInv'
    BY <1>3, NavKeeps DEF PageInv
  <2>3. NoSelectionWhileTyping'
    BY <1>3, TypingKeeps, NowFacts DEF PageInv
  <2> QED
    BY <1>2, <1>3, <2>1, <2>2, <2>3 DEF PageInv
<1>4. CASE WidgetsNext /\ UNCHANGED timelineVars
  BY <1>1, <1>4, WidgetsKeep DEF PageInv
<1>5. CASE UNCHANGED pageVars
  BY <1>1, <1>2, <1>5 DEF pageVars, PageInv
<1> QED
  BY <1>3, <1>4, <1>5 DEF Next

\* The invariant of the page
THEOREM PageInvariant == Spec => []PageInv
BY PageInit, PageStep, PTL DEF Spec

\* syncRostraDialogs and closeRostraDialog keep the modals and the -active classes
\* together in every order of answers, key presses and clicks.
THEOREM DialogsCorrect == Spec => []DialogsMatchClass
<1>1. PageInv => DialogsMatchClass
  BY DEF PageInv, DialogsInv
<1> QED
  BY <1>1, PageInvariant, PTL

\* A dialog that was on its own gives the focus back, whoever closed it and whether or
\* not another one waited for it: showModal() and rostraDialogFocus remember the same
\* element.
THEOREM FocusIsReturned == Spec => FocusReturns
<1>1. PageInv /\ [Next]_pageVars => [FocusStep]_dialogVars
  BY PageStep
<1> QED
  BY <1>1, PageInvariant, PTL DEF Spec, FocusReturns

\* selectItem, clearSelection and the items that come and go keep the selected element,
\* its mark and the history entry together.
THEOREM SelectionCorrect == Spec => []SelectionConsistent
<1>1. PageInv => SelectionConsistent
  BY DEF PageInv, NavInv
<1> QED
  BY <1>1, PageInvariant, PTL

\* However a text field got the focus, the focusin handler has cleared the selection.
THEOREM TypingClearsSelection == Spec => []NoSelectionWhileTyping
<1>1. PageInv => NoSelectionWhileTyping
  BY DEF PageInv
<1> QED
  BY <1>1, PageInvariant, PTL

\* The copy buttons, the tag select and the emoji picker, for any number of clicks and
\* any tags, however the clipboard answers and the timers run.
THEOREM WidgetsCorrect == Spec => []WidgetsTruthful
<1>1. PageInv => WidgetsTruthful
  BY DEF PageInv, WidgetsInv
<1> QED
  BY <1>1, PageInvariant, PTL
=============================================================================
