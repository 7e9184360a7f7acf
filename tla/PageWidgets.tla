----------------------------- MODULE PageWidgets -----------------------------
(***************************************************************************)
(* Widgets of a page that share no state with each other (app.js): the copy  *)
(* buttons, the persona tag select and the pop-up emoji picker.  A behaviour *)
(* uses one of them, the others rest.                                        *)
(***************************************************************************)
EXTENDS Naturals, Sequences, SequencesExt, FiniteSets, FiniteSetsExt

CONSTANTS
  MaxClicks,        \* bound: clicks on a copy button, or on the picker's
  MaxOptions,       \* bound: checkboxes of the tag select
  Tags,             \* persona tags the page is rendered with
  Typed, TooLong,   \* tags that are typed in, those of more than 32 characters
  Parsed            \* the value the HTML parser reads from value="${tag}": another one
                    \* than the tag where that has a quote or a character reference

ASSUME WidgetsAssumption ==
  /\ MaxClicks \in Nat /\ MaxOptions \in Nat
  /\ Tags \in Seq(Typed) /\ IsInjective(Tags)
  /\ Parsed \in [Typed -> Typed]

VARIABLES
  widget,           \* "id" and "phrase": the copy buttons; "tags"; "picker"; "rest"
  clicks,           \* clicks on it
  pending,          \* clicks whose clipboard write is under way
  result,           \* what came of each click's write
  state,            \* the click whose object is in copyIdStates or its like, 0: none
  status,           \* the clicks whose outcome is shown
  timers,           \* clicks whose timer runs
  lit,              \* the button has the class -active
  options, checked,             \* the values of the checkboxes; the ones ticked
  label, addInput, unfolded,
  hidden, listeners, opening    \* picker: closeOnClickOutside added, about to be

copy == <<pending, result, state, status, timers, lit>>
tagSelect == <<options, checked, label, addInput, unfolded>>
picker == <<hidden, listeners, opening>>
widgetVars == <<widget, clicks, copy, tagSelect, picker>>

\* updatePersonaTagSelectLabel(widget): the values of the ticked checkboxes, in order
Label(opts, chk) ==
  LET boxes == SetToSortSeq(chk, <) IN [k \in DOMAIN boxes |-> opts[boxes[k]]]

WidgetsInit ==
  /\ widget \in {"id", "phrase", "tags", "picker", "rest"}
  /\ clicks = 0 /\ pending = {} /\ result = << >> /\ state = 0
  /\ status = {} /\ timers = {} /\ lit = FALSE
  /\ options = Tags /\ checked \in SUBSET DOMAIN Tags
  /\ label = Label(options, checked) /\ addInput = "" /\ unfolded = FALSE
  /\ hidden = TRUE /\ listeners = 0 /\ opening = 0
  /\ widget # "tags" => checked = {}

-----------------------------------------------------------------------------
(* copyIdToClipboard, copyRecoveryPhrase *)

\* A click: the status of the one before is taken back with its timer; the recovery
\* phrase keeps its status line.
Copy ==
  /\ widget \in {"id", "phrase"} /\ clicks < MaxClicks
  /\ clicks' = clicks + 1
  /\ pending' = pending \cup {clicks'} /\ result' = Append(result, "none")
  /\ state' = clicks' /\ lit' = FALSE
  /\ IF widget = "id" THEN timers' = timers \ {state} /\ status' = status \ {state}
     ELSE UNCHANGED <<timers, status>>
  /\ UNCHANGED <<widget, tagSelect, picker>>

\* MUTANT: every write that ends is reported.
IsLatest_Any(c) == TRUE

\* copyIdStates.get(target) === state
IsLatest(c) == state = c

\* The clipboard has answered, in any order.
Copied(c, r) ==
  /\ c \in pending /\ pending' = pending \ {c}
  /\ result' = [result EXCEPT ![c] = r]
  /\ IF ~ IsLatest(c) THEN UNCHANGED <<state, status, timers, lit>>
     ELSE /\ lit' = (r = "copied")
          /\ status' = IF widget = "id" THEN status \cup {c} ELSE {c}
          /\ timers' = IF widget = "id" THEN timers \cup {c} ELSE timers
          /\ state' = IF widget = "id" THEN state ELSE 0
  /\ UNCHANGED <<widget, clicks, tagSelect, picker>>

\* The timer of showCopyIdStatus
StatusTimer(c) ==
  /\ c \in timers /\ timers' = timers \ {c}
  /\ lit' = FALSE /\ status' = status \ {c}
  /\ state' = IF state = c THEN 0 ELSE state
  /\ UNCHANGED <<widget, clicks, pending, result, tagSelect, picker>>

-----------------------------------------------------------------------------
(* Persona tag select *)

\* personaTagSelectToggle(toggleEl), and the click outside
Toggle ==
  /\ widget = "tags" /\ unfolded' = ~ unfolded
  /\ UNCHANGED <<widget, clicks, copy, options, checked, label, addInput, picker>>

\* personaTagSelectChanged(checkbox)
Check(i) ==
  /\ widget = "tags" /\ i \in DOMAIN options
  /\ checked' = IF i \in checked THEN checked \ {i} ELSE checked \cup {i}
  /\ label' = Label(options, checked')
  /\ UNCHANGED <<widget, clicks, copy, options, addInput, unfolded, picker>>

\* j and k in the preview: the checkbox after or before the first ticked one, around.
Cycle(down) ==
  LET n == Len(options)
      first == Min(checked \cup {n + 1})
      at == IF first = n + 1 THEN IF down THEN 1 ELSE n
            ELSE IF down THEN (first % n) + 1 ELSE ((first + n - 2) % n) + 1
  IN /\ widget = "tags" /\ n > 0
     /\ checked' = {at}
     /\ label' = Label(options, checked')
     /\ UNCHANGED <<widget, clicks, copy, options, addInput, unfolded, picker>>

\* A tag is typed into the field.
TypeTag(t) ==
  /\ widget = "tags" /\ addInput' = t
  /\ UNCHANGED <<widget, clicks, copy, options, checked, label, unfolded, picker>>

\* MUTANT: a checkbox is made without looking for one.
Known_Never(t) == FALSE

\* Is there a checkbox whose value is the tag as it was typed?
Known(t) == t \in Range(options)

\* personaTagSelectAddFromInput(input), on Enter and again when the field is left: the
\* first checkbox of that value is ticked, or one is made, with the value as parsed.
\* A tag that is too long stays in the field.
AddFromInput ==
  /\ widget = "tags" /\ addInput # "" /\ addInput \notin TooLong
  /\ \/ /\ Known(addInput) /\ options' = options
        /\ checked' = checked \cup {Min({i \in DOMAIN options : options[i] = addInput})}
     \/ /\ ~ Known(addInput) /\ Len(options) < MaxOptions
        /\ options' = Append(options, Parsed[addInput])
        /\ checked' = checked \cup {Len(options')}
  /\ addInput' = ""
  /\ label' = Label(options', checked')
  /\ UNCHANGED <<widget, clicks, copy, unfolded, picker>>

-----------------------------------------------------------------------------
(* toggleEmojiPicker *)

\* A timer that adds the listener is set whenever the picker is shown.
TogglePicker ==
  /\ widget = "picker" /\ clicks < MaxClicks /\ clicks' = clicks + 1
  /\ hidden' = ~ hidden
  /\ opening' = IF hidden THEN opening + 1 ELSE opening
  /\ UNCHANGED <<widget, copy, tagSelect, listeners>>

ListenerAdded ==
  /\ opening > 0 /\ opening' = opening - 1 /\ listeners' = listeners + 1
  /\ UNCHANGED <<widget, clicks, copy, tagSelect, hidden>>

\* Every listener adds the class.
HidesPicker == TRUE

\* ... and removes itself.
ClickOutside ==
  /\ widget = "picker" /\ listeners > 0
  /\ hidden' = HidesPicker /\ listeners' = 0
  /\ UNCHANGED <<widget, clicks, copy, tagSelect, opening>>

-----------------------------------------------------------------------------

WidgetsNext ==
  \/ Copy \/ Toggle \/ AddFromInput \/ TogglePicker \/ ListenerAdded \/ ClickOutside
  \/ \E c \in 1 .. clicks : StatusTimer(c) \/ \E r \in {"copied", "failed"} : Copied(c, r)
  \/ \E i \in DOMAIN options : Check(i)
  \/ \E t \in Typed : TypeTag(t)
  \/ \E down \in BOOLEAN : Cycle(down)

-----------------------------------------------------------------------------
(* Properties *)

\* However the writes to the clipboard end, and whichever timers run: the page reports
\* one click at a time, never one that a later click has overtaken, and the button is
\* lit only while the last write is known to have succeeded.
CopyStatusLatest ==
  /\ widget = "id" => status \subseteq {clicks}
  /\ widget = "phrase" /\ clicks > 0 /\ state = 0 => status = {clicks}
  /\ lit => status = {clicks} /\ result[clicks] = "copied"

\* Ticking, cycling and typing in tags, the same one again as well: the label says
\* which checkboxes are ticked, and a tag has one checkbox, unless another tag that
\* was typed in is parsed to it: that one is looked for under the name as typed and is
\* never found, so typing it twice makes a second checkbox of the same value.
TagsLabelled ==
  /\ label = Label(options, checked)
  /\ \A i, j \in DOMAIN options :
       i < j /\ options[i] = options[j] =>
         \E t \in Typed \ TooLong : t # options[j] /\ Parsed[t] = options[j]

\* A picker that is shown can be closed by a click outside, now or once the timer has
\* run, no matter how often it was toggled before.
PickerCanClose == ~ hidden => listeners + opening > 0

\* What the small widgets show is what is so.
WidgetsTruthful == CopyStatusLatest /\ TagsLabelled /\ PickerCanClose
=============================================================================
