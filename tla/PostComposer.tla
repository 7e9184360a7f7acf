---------------------------- MODULE PostComposer ----------------------------
(***************************************************************************)
(* Writing a post: the Alpine components textAutocomplete and, on the        *)
(* shoutbox page, shoutboxComposer of app.js, with everything else that      *)
(* writes into the textarea (the media and link dialogs, the emoji picker,   *)
(* the answer to a sent shout).                                              *)
(*                                                                           *)
(* Text is a sequence of tokens: the triggers, letters, and the pieces an    *)
(* inserted item is made of, so that an item can be cut in two or end in     *)
(* something that looks like a trigger.  A handler is one step; timers and   *)
(* answers of the profile search come in between.  A held key repeats until  *)
(* another one is pressed; only the shoutbox cares how long Enter is held.   *)
(***************************************************************************)
EXTENDS FuzzyMatch, FiniteSets

CONSTANTS
  Letters,          \* what is typed besides "@" and ":"
  Emojis,           \* the emoji cache: for each emoji its set of names
  ResultLimit,      \* how many emojis are suggested (8)
  MaxProfiles,      \* bound: profiles in an answer
  MaxEdits,         \* bound: characters typed or deleted, moves of the cursor
  MaxFetches,       \* bound: profile searches in flight
  MaxInserts        \* bound: items inserted

\* Other characters than the letters that play a part
Symbols == {"@", ":", " ", "<", ">", "(", ")", "hi", "lo"}

ASSUME ComposerAssumption ==
  /\ Letters \cap Symbols = {} /\ IsFiniteSet(DOMAIN Emojis)
  /\ ResultLimit \in Nat \ {0} /\ MaxProfiles \in Nat
  /\ MaxEdits \in Nat /\ MaxFetches \in Nat /\ MaxInserts \in Nat

VARIABLES
  surface,          \* which form this is: "shoutbox" or "post"
  text, sel,        \* the textarea: its value, selectionStart and selectionEnd
  focused,          \* the textarea has the focus
  query, results, selectedIndex, showDropdown, autocompleteType,
  debounceTimer,    \* what the timer will search: "none", "mention", "emoji"
  fetches,          \* profile searches under way
  allEmojis,        \* _allEmojis is there
  sendEligible,
  enter,            \* the Enter key: "up", "down", "repeating"
  press,            \* what came of the last press of Enter
  inserts, edits    \* items inserted, edits made so far

field == <<text, sel, focused>>
search == <<query, results, selectedIndex, debounceTimer, fetches, allEmojis>>
menu == <<showDropdown, autocompleteType>>
keys == <<sendEligible, enter, press>>
composerVars == <<surface, field, search, menu, keys, inserts, edits>>

Triggers == [mention |-> "@", emoji |-> ":"]
Undefined == <<"un", "def">>                 \* the string "undefined"
Id == <<"i", "d">>                           \* an id
Word == Letters \cup Range(Undefined) \cup Range(Id)          \* \w

\* The texts that are inserted for a mention, an emoji, a medium and a link.
Reference(id) == <<"<", ":">> \o id \o <<">">>
Item == [mention |-> Reference(Id), emoji |-> <<"hi", "lo">>,
         media |-> <<"(", ":">> \o Id \o <<")">>, link |-> <<"(", ")">>]

Init ==
  /\ surface \in {"shoutbox", "post"}
  /\ text = << >> /\ sel = <<0, 0>> /\ focused = (surface = "shoutbox")
  /\ query = << >> /\ results = << >> /\ selectedIndex = 1
  /\ showDropdown = FALSE /\ autocompleteType = "none"
  /\ debounceTimer = "none" /\ fetches = 0 /\ allEmojis = FALSE
  /\ sendEligible = FALSE /\ enter = "up" /\ press = {}
  /\ inserts = 0 /\ edits = 0

-----------------------------------------------------------------------------
(* textAutocomplete: input *)

\* The characters of a word at the end of the text before the cursor.
Run(before) ==
  LET n == Max({k \in 0 .. Len(before) :
                  \A i \in (Len(before) - k + 1) .. Len(before) : before[i] \in Word})
  IN SubSeq(before, Len(before) - n + 1, Len(before))

\* What handleInput takes the text before the cursor to ask for.
Trigger(before) ==
  LET k == Len(before) - Len(Run(before)) IN
  CASE k > 0 /\ before[k] = "@" -> "mention"
    [] k > 0 /\ before[k] = ":" /\ Len(Run(before)) >= 2 -> "emoji"
    [] OTHER -> "none"

\* MUTANT: emojis are searched for only while there are no suggestions.
Search_KeepTimer(before) ==
  CASE Trigger(before) = "mention" ->
         query' = Run(before) /\ debounceTimer' = "mention" /\ UNCHANGED results
    [] Trigger(before) = "emoji" ->
         /\ query' = Run(before)
         /\ IF allEmojis /\ results = << >>
            THEN debounceTimer' = "emoji" /\ UNCHANGED results
            ELSE UNCHANGED <<results, debounceTimer>>
    [] OTHER -> UNCHANGED <<query, results, debounceTimer>>

\* searchProfiles() and searchEmojis(): the timer is set anew, except that without
\* the cache the emoji search leaves it alone.
Search(before) ==
  CASE Trigger(before) = "mention" ->
         query' = Run(before) /\ debounceTimer' = "mention" /\ UNCHANGED results
    [] Trigger(before) = "emoji" ->
         /\ query' = Run(before)
         /\ IF allEmojis THEN debounceTimer' = "emoji" /\ UNCHANGED results
            ELSE results' = << >> /\ UNCHANGED debounceTimer
    [] OTHER -> UNCHANGED <<query, results, debounceTimer>>

\* handleInput(event)
handleInput(before) ==
  /\ Search(before)
  /\ autocompleteType' = Trigger(before)
  /\ showDropdown' = (Trigger(before) # "none")
  /\ UNCHANGED <<selectedIndex, fetches, allEmojis>>

\* The selection is replaced, the cursor is put after what is new, an input event.
Replace(new) ==
  LET before == SubSeq(text, 1, sel[1]) \o new IN
  /\ text' = before \o SubSeq(text, sel[2] + 1, Len(text))
  /\ sel' = <<Len(before), Len(before)>>
  /\ handleInput(before)

\* Another key is pressed: the held Enter key stops repeating.
OtherKey ==
  /\ focused
  /\ enter' = IF enter = "repeating" THEN "down" ELSE enter
  /\ UNCHANGED <<surface, focused, sendEligible, press, inserts>>

Edit == edits < MaxEdits /\ edits' = edits + 1

\* A character is typed.
Type(c) == OtherKey /\ Edit /\ Replace(<<c>>)

\* Backspace at a cursor
Backspace ==
  /\ OtherKey /\ Edit
  /\ sel[1] = sel[2] /\ sel[1] > 0
  /\ LET before == SubSeq(text, 1, sel[1] - 1) IN
     /\ text' = before \o SubSeq(text, sel[1] + 1, Len(text))
     /\ sel' = <<Len(before), Len(before)>>
     /\ handleInput(before)

\* The cursor or the selection is moved by the keyboard: no input event.
MoveCursor(s, e) ==
  /\ OtherKey /\ Edit
  /\ <<s, e>> # sel /\ sel' = <<s, e>>
  /\ UNCHANGED <<text, search, menu>>

-----------------------------------------------------------------------------
(* textAutocomplete: results *)

\* this.results = ...; this.selectedIndex = 0
ShowResults(new) == results' = new /\ selectedIndex' = 1

\* The timer fires, whatever has become of the text it was set for.
TimerFires ==
  /\ debounceTimer' = "none"
  /\ \/ /\ debounceTimer = "mention" /\ fetches < MaxFetches
        /\ fetches' = fetches + 1
        /\ UNCHANGED <<results, selectedIndex>>
     \/ /\ debounceTimer = "emoji"
        /\ LET rank == Ranking(query, Emojis, ResultLimit)
           IN ShowResults([i \in DOMAIN rank |-> [type |-> "emoji", id |-> rank[i]]])
        /\ UNCHANGED fetches
  /\ UNCHANGED <<surface, field, query, allEmojis, menu, keys, inserts, edits>>

\* An answer of the profile search: any of those under way, for any query.
Answer(n) ==
  /\ fetches > 0 /\ fetches' = fetches - 1
  /\ ShowResults([i \in 1 .. n |-> [type |-> "mention", id |-> i]])
  /\ UNCHANGED <<surface, field, query, debounceTimer, allEmojis, menu, keys, inserts, edits>>

\* A search fails: the results go, the selection stays where it was.
AnswerFails ==
  /\ fetches > 0 /\ fetches' = fetches - 1
  /\ results' = << >>
  /\ UNCHANGED <<surface, field, query, selectedIndex, debounceTimer, allEmojis, menu, keys, inserts, edits>>

\* _initEmojiDb() has read every group.
EmojisLoaded ==
  /\ ~ allEmojis /\ allEmojis' = TRUE
  /\ UNCHANGED <<surface, field, query, results, selectedIndex, debounceTimer, fetches, menu, keys, inserts, edits>>

\* lastIndexOf: the last place of c, 0 when it is nowhere.
LastIndexOf(s, c) == Max({0} \cup {i \in DOMAIN s : s[i] = c})

\* insertText of selectResult; a result of the other type lacks the field.
InsertText(type, r) ==
  IF type = "mention" THEN IF r.type = "mention" THEN Item.mention ELSE Reference(Undefined)
  ELSE IF r.type = "emoji" THEN Item.emoji ELSE Undefined

\* MUTANT: the query is kept in front of what is inserted.
TriggerPos_AtCursor(before, type) == Len(before) + 1

TriggerPos(before, type) == LastIndexOf(before, Triggers[type])

\* selectResult(result): insertText.length fails on undefined once the text is set.
selectResult(r) ==
  LET before == SubSeq(text, 1, sel[1])
      pos == TriggerPos(before, autocompleteType)
      insert == InsertText(autocompleteType, r)
      new == SubSeq(before, 1, pos - 1) \o insert \o SubSeq(text, sel[1] + 1, Len(text))
      cursor == pos - 1 + Len(insert)
  IN /\ text' = new
     /\ inserts' = inserts + 1
     /\ UNCHANGED <<fetches, allEmojis, selectedIndex>>
     /\ IF insert = Undefined
        THEN sel' = <<Len(new), Len(new)>> /\ UNCHANGED <<query, results, debounceTimer, menu>>
        ELSE /\ sel' = <<cursor, cursor>>
             /\ Search(SubSeq(new, 1, cursor))
             /\ showDropdown' = FALSE /\ autocompleteType' = "none"

\* The focus goes while Enter is held.
Leaving == IF enter = "up" THEN press ELSE press \cup {"left"}

\* A result is clicked; the textarea loses the focus.
ClickResult(i) ==
  /\ showDropdown /\ inserts < MaxInserts
  /\ selectResult(results[i])
  /\ focused' = FALSE
  /\ sendEligible' = FALSE /\ press' = Leaving
  /\ UNCHANGED <<surface, enter, edits>>

\* @click.outside, into the textarea or elsewhere
ClickOutside(s) ==
  /\ showDropdown' = FALSE
  /\ \/ Edit /\ focused' = TRUE /\ sel' = <<s, s>> /\ UNCHANGED <<sendEligible, press>>
     \/ /\ focused' = FALSE /\ sendEligible' = FALSE /\ press' = Leaving
        /\ UNCHANGED <<sel, edits>>
  /\ UNCHANGED <<surface, text, search, autocompleteType, enter, inserts>>

-----------------------------------------------------------------------------
(* Keys *)

\* handleKeydown(event) for the keys that move the selection
Arrow(step) ==
  /\ OtherKey /\ showDropdown
  /\ selectedIndex' = IF results = << >> THEN selectedIndex
                      ELSE Max({1, Min({selectedIndex + step, Len(results)})})
  /\ UNCHANGED <<text, sel, query, results, debounceTimer, fetches, allEmojis, menu, edits>>

\* ... and for Escape; autocompleteType stays.
Escape ==
  /\ OtherKey /\ showDropdown
  /\ showDropdown' = FALSE
  /\ UNCHANGED <<text, sel, search, autocompleteType, edits>>

\* MUTANT: every key press arms the send.
Eligible_Always(repeat, plain, open) == IF repeat THEN sendEligible ELSE plain

\* sendEligible after handleSendKeydown(event, autocompleteOpen)
Eligible(repeat, plain, open) == IF repeat THEN sendEligible ELSE plain /\ ~ open

\* Enter goes down or repeats in the textarea.  plain: neither shifted nor part of a
\* composition.  On the shoutbox handleSendKeydown runs first, and only a plain Enter
\* goes on to handleKeydown; an Enter nobody takes breaks the line.
EnterDown(plain) ==
  /\ focused /\ enter # "down"
  /\ LET repeat == enter = "repeating"
         picks == showDropdown /\ results # << >> /\ (plain \/ surface = "post")
         breaks == ~ picks /\ (~ plain \/ surface = "post")
         began == IF repeat THEN press ELSE IF plain THEN {"plain"} ELSE {}
     IN /\ picks => inserts < MaxInserts
        /\ IF surface = "post" THEN UNCHANGED keys
           ELSE /\ enter' = "repeating"
                /\ sendEligible' = Eligible(repeat, plain, showDropdown)
                /\ press' = began \cup (IF picks THEN {"picked"} ELSE {})
        /\ IF picks THEN selectResult(results[selectedIndex])
           ELSE IF breaks THEN Replace(<<" ">>) ELSE UNCHANGED <<text, sel, search, menu>>
        /\ IF breaks THEN Edit ELSE UNCHANGED edits
        /\ IF picks THEN TRUE ELSE UNCHANGED inserts
        /\ UNCHANGED <<surface, focused>>

\* Enter goes down where the textarea does not see it.
EnterElsewhere ==
  /\ surface = "shoutbox" /\ ~ focused /\ enter = "up"
  /\ enter' = "repeating" /\ press' = {"left"}
  /\ UNCHANGED <<surface, field, search, menu, sendEligible, inserts, edits>>

\* handleSendKeyup(event, form)
EnterUp(composing) ==
  /\ enter # "up" /\ enter' = "up"
  /\ LET sends == focused /\ sendEligible /\ ~ composing IN
     /\ press' = IF sends THEN press \cup {"sent"} ELSE {}
     /\ sendEligible' = IF focused THEN FALSE ELSE sendEligible
  /\ UNCHANGED <<surface, field, search, menu, inserts, edits>>

\* resetSendEligibility() on blur, and the focus coming back
Blur ==
  /\ focused /\ focused' = FALSE
  /\ sendEligible' = FALSE /\ press' = Leaving
  /\ UNCHANGED <<surface, text, sel, search, menu, enter, inserts, edits>>

Focus ==
  /\ ~ focused /\ focused' = TRUE
  /\ UNCHANGED <<surface, text, sel, search, menu, keys, inserts, edits>>

-----------------------------------------------------------------------------
(* What dialogs and the picker insert *)

\* insertMediaSyntax(eventId, targetSelector)
insertMediaSyntax ==
  /\ inserts < MaxInserts /\ inserts' = inserts + 1
  /\ Replace(Item.media)
  /\ focused' = TRUE
  /\ UNCHANGED <<surface, keys, edits>>

\* insertExternalLink(syntax): set apart from what is in front of it
insertExternalLink ==
  /\ surface = "post" /\ inserts < MaxInserts /\ inserts' = inserts + 1
  /\ LET apart == sel[1] > 0 /\ text[sel[1]] # " "
     IN Replace((IF apart THEN <<" ">> ELSE << >>) \o Item.link)
  /\ focused' = TRUE
  /\ UNCHANGED <<surface, keys, edits>>

\* textFieldEdit.insert: the focus goes to the field and back to where it was.
insertTextIntoField(new) == Replace(new) /\ UNCHANGED focused

\* emoji-click
EmojiClick ==
  /\ surface = "post" /\ inserts < MaxInserts /\ inserts' = inserts + 1
  /\ insertTextIntoField(Item.emoji)
  /\ UNCHANGED <<surface, keys, edits>>

-----------------------------------------------------------------------------

\* The script in the answer to a sent shout: input.value = '', without an input event.
\* The shout was sent by Enter or by the Send button, and more may have been typed.
ShoutSent ==
  /\ surface = "shoutbox" /\ text # << >>
  /\ text' = << >> /\ sel' = <<0, 0>>
  /\ UNCHANGED <<surface, focused, search, menu, keys, inserts, edits>>

-----------------------------------------------------------------------------

Next ==
  \/ \E c \in {"@", ":"} \cup Letters : Type(c)
  \/ Backspace \/ Escape \/ Arrow(1) \/ Arrow(-1)
  \/ \E s \in 0 .. Len(text) : MoveCursor(s, s) \/ ClickOutside(s)
  \/ MoveCursor(0, Len(text))
  \/ TimerFires \/ AnswerFails \/ EmojisLoaded
  \/ \E n \in 0 .. MaxProfiles : Answer(n)
  \/ \E i \in DOMAIN results : ClickResult(i)
  \/ \E p \in BOOLEAN : EnterDown(p) \/ EnterUp(p)
  \/ EnterElsewhere \/ Blur \/ Focus
  \/ insertMediaSyntax \/ insertExternalLink \/ EmojiClick \/ ShoutSent

Spec == Init /\ [][Next]_composerVars

-----------------------------------------------------------------------------
(* Properties *)

\* Answers come late, fail and shrink the list while it is walked through with the
\* arrows: Enter always finds a result under the selection.
SelectionInRange == results # << >> => selectedIndex \in DOMAIN results

\* "autocomplete selection cannot become a send after closing the dropdown": a send
\* comes from a plain press of Enter that began in the textarea, picked nothing and
\* did not lose the focus, however long the key was held.
PickOrSend ==
  "sent" \in press => "plain" \in press /\ press \cap {"picked", "left"} = {}

\* Once the emoji timer has fired, the emojis suggested are the ones that match what
\* stands in the text, although the timer outlives the text it was set for.
EmojisAreCurrent ==
  autocompleteType = "emoji" /\ debounceTimer = "none" =>
    \A i \in DOMAIN results : results[i].type = "emoji" =>
      results[i].id = Ranking(query, Emojis, ResultLimit)[i]

\* What the menu shows and has selected is current, however late answers and timers come.
MenuCurrent == SelectionInRange /\ EmojisAreCurrent

\* selectResult takes out what handleInput has matched.
ChoiceStep ==
  inserts' # inserts /\ autocompleteType # "none" =>
    LET before == SubSeq(text, 1, sel[1])
        chosen == \/ \E i \in DOMAIN results : ClickResult(i)
                  \/ \E p \in BOOLEAN : EnterDown(p)
    IN chosen /\ Trigger(before) = autocompleteType =>
         \E r \in Range(results) :
           text' = SubSeq(before, 1, Len(before) - Len(Run(before)) - 1)
                     \o InsertText(autocompleteType, r) \o SubSeq(text, sel[1] + 1, Len(text))

\* While the menu is open and the cursor is where the last input left it, a choice
\* replaces the trigger and the query, and not a character around them.
ChoiceReplacesTrigger == [][ChoiceStep]_composerVars
=============================================================================
