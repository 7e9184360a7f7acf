------------------------- MODULE PostComposerProofs -------------------------
(***************************************************************************)
(* Proofs about PostComposer, for any letters, emojis and bounds.            *)
(***************************************************************************)
EXTENDS PostComposer, FiniteSetTheorems, SequenceTheorems, NaturalsInduction,
        WellFoundedInduction, TLAPS

-----------------------------------------------------------------------------
(* Numbers *)

\* A set of natural numbers has a least one.
LEMMA NatLeast ==
  ASSUME NEW T, T \subseteq Nat, T # {}
  PROVE  \E x \in T : \A y \in T : x =< y
<1> DEFINE R == OpToRel(<, Nat)
<1>1. IsWellFoundedOn(R, Nat)
  BY NatLessThanWellFounded
<1>2. PICK x \in T : \A y \in T : ~ (<<y, x>> \in R)
  BY <1>1, WFMin, Zenon
<1>3. ASSUME NEW y \in T PROVE x =< y
  <2>1. <<y, x>> \in Nat \X Nat
    OBVIOUS
  <2>2. y < x => <<y, x>> \in R
    BY <2>1 DEF OpToRel
  <2>3. ~ (y < x)
    BY <1>2, <2>2, Zenon
  <2> QED
    BY <2>3
<1> QED
  BY <1>3

\* Max is one of the numbers, and the largest.
LEMMA MaxFacts ==
  ASSUME NEW n \in Nat, NEW T, T \subseteq 0 .. n, T # {}
  PROVE  Max(T) \in T /\ \A y \in T : y =< Max(T)
<1> DEFINE U == {n - y : y \in T}
<1>1. U \subseteq Nat /\ U # {}
  <2>1. \A y \in T : n - y \in Nat
    OBVIOUS
  <2>2. PICK y \in T : TRUE
    OBVIOUS
  <2>3. n - y \in U
    OBVIOUS
  <2> QED
    BY <2>1, <2>3
<1>2. PICK u \in U : \A v \in U : u =< v
  <2> HIDE DEF U
  <2> QED
    BY <1>1, NatLeast
<1>3. PICK x \in T : u = n - x
  BY <1>2
<1>4. \A y \in T : x >= y
  <2> SUFFICES ASSUME NEW y \in T PROVE x >= y
    OBVIOUS
  <2>1. n - y \in U
    OBVIOUS
  <2>2. n - x =< n - y
    BY <1>2, <1>3, <2>1
  <2> QED
    BY <2>2
<1>5. Max(T) \in T /\ \A y \in T : Max(T) >= y
  BY <1>4 DEF Max
<1> QED
  BY <1>5

-----------------------------------------------------------------------------
(* The text *)

Token == Symbols \cup Letters \cup {"un", "def", "i", "d"}

LEMMA WordFacts == Word = Letters \cup {"un", "def", "i", "d"} /\ Word \cap Symbols = {}
<1>1. Range(Undefined) = {"un", "def"} /\ Range(Id) = {"i", "d"}
  BY DEF Range, Undefined, Id
<1> QED
  BY <1>1, ComposerAssumption DEF Word, Symbols

\* The word in front of the cursor, and nothing of it is a trigger.
LEMMA RunFacts ==
  ASSUME NEW b \in Seq(Token)
  PROVE  /\ Len(Run(b)) \in 0 .. Len(b)
         /\ \A i \in (Len(b) - Len(Run(b)) + 1) .. Len(b) : b[i] \in Word
         /\ \A k \in 0 .. Len(b) :
              (\A i \in (Len(b) - k + 1) .. Len(b) : b[i] \in Word) => k =< Len(Run(b))
<1> DEFINE T == {k \in 0 .. Len(b) : \A i \in (Len(b) - k + 1) .. Len(b) : b[i] \in Word}
           n == Max(T)
<1>1. Len(b) \in Nat
  BY LenProperties
<1>2. T \subseteq 0 .. Len(b) /\ 0 \in T
  BY <1>1
<1>3. n \in T /\ \A k \in T : k =< n
  BY <1>1, <1>2, MaxFacts
<1>4. n \in 0 .. Len(b)
  BY <1>2, <1>3
<1>5. Len(SubSeq(b, Len(b) - n + 1, Len(b))) = n
  <2> HIDE DEF n
  <2>1. \A i \in (Len(b) - n + 1) .. Len(b) : b[i] \in Token
    BY <1>1, <1>4, ElementOfSeq
  <2>2. Len(b) - n + 1 \in Int /\ Len(b) \in Int
    BY <1>1, <1>4
  <2>3. Len(SubSeq(b, Len(b) - n + 1, Len(b))) =
          IF Len(b) - n + 1 <= Len(b) THEN Len(b) - (Len(b) - n + 1) + 1 ELSE 0
    BY <2>1, <2>2, SubSeqProperties
  <2> QED
    BY <1>1, <1>4, <2>3
<1>6. Len(Run(b)) = n
  BY <1>5 DEF Run
<1> QED
  BY <1>3, <1>4, <1>6

\* Nothing is asked for after a symbol that is not a trigger.
LEMMA NoTrigger ==
  ASSUME NEW b \in Seq(Token), Len(b) > 0, b[Len(b)] \in Symbols \ {"@", ":"}
  PROVE  Trigger(b) = "none"
<1>1. Len(b) \in Nat
  BY LenProperties
<1>2. Len(Run(b)) = 0
  BY <1>1, RunFacts, WordFacts
<1> QED
  BY <1>1, <1>2 DEF Trigger

\* Otherwise the trigger is the last of its kind, right before the word.
LEMMA TriggerFound ==
  ASSUME NEW b \in Seq(Token), Trigger(b) # "none"
  PROVE  /\ Trigger(b) \in {"mention", "emoji"}
         /\ TriggerPos(b, Trigger(b)) = Len(b) - Len(Run(b))
         /\ Len(b) - Len(Run(b)) \in 1 .. Len(b)
<1> DEFINE k == Len(b) - Len(Run(b))
           c == Triggers[Trigger(b)]
           T == {0} \cup {i \in DOMAIN b : b[i] = c}
<1>1. Len(b) \in Nat /\ DOMAIN b = 1 .. Len(b)
  BY LenProperties
<1>2. k \in 0 .. Len(b)
  BY <1>1, RunFacts
<1>3. Trigger(b) \in {"mention", "emoji"} /\ k \in 1 .. Len(b) /\ b[k] = c /\ c \in {"@", ":"}
  BY <1>1, <1>2 DEF Trigger, Triggers
<1> HIDE DEF c
<1>4. T \subseteq 0 .. Len(b) /\ T # {} /\ k \in T
  BY <1>1, <1>3
<1>5. \A i \in T : i =< k
  <2> SUFFICES ASSUME NEW i \in T, i > k PROVE FALSE
    BY <1>1, <1>2, <1>4
  <2>1. i \in (k + 1) .. Len(b) /\ b[i] = c
    BY <1>1, <1>2, <1>4
  <2>2. b[i] \in Word
    BY <2>1, RunFacts
  <2> QED
    BY <1>3, <2>1, <2>2, WordFacts DEF Symbols
<1>6. Max(T) \in T /\ \A i \in T : i =< Max(T)
  BY <1>1, <1>4, MaxFacts
<1>7. Max(T) = k
  BY <1>1, <1>2, <1>4, <1>5, <1>6
<1> QED
  BY <1>3, <1>7 DEF TriggerPos, LastIndexOf, c

-----------------------------------------------------------------------------
(* The invariant *)

TextOK ==
  /\ text \in Seq(Token)
  /\ sel[1] \in 0 .. Len(text) /\ sel[2] \in 0 .. Len(text)

KeysOK ==
  /\ surface \in {"shoutbox", "post"} /\ focused \in BOOLEAN /\ sendEligible \in BOOLEAN
  /\ enter \in {"up", "down", "repeating"}
  /\ press \subseteq {"plain", "picked", "left", "sent"}

MenuOK ==
  /\ showDropdown \in BOOLEAN /\ autocompleteType \in {"none", "mention", "emoji"}
  /\ showDropdown => autocompleteType # "none"
  /\ results \in Seq(Range(results)) /\ selectedIndex \in Nat

\* Enter is counted on the shoutbox only.  When its release would send, the press is a
\* plain one and nothing has come of it; and while it repeats no menu can come up
\* under it, since the keys that open one stop the repetition.
Armed ==
  /\ surface = "post" => enter = "up" /\ ~ sendEligible
  /\ "sent" \in press => enter = "up"
  /\ sendEligible =>
       /\ focused /\ enter # "up"
       /\ "plain" \in press /\ press \cap {"picked", "left"} = {}
       /\ enter = "repeating" => ~ showDropdown

\* The emojis shown match the query, or the timer that will bring those that do is set.
EmojisFollow ==
  autocompleteType = "emoji" /\ debounceTimer # "emoji" =>
    \A i \in DOMAIN results : results[i].type = "emoji" =>
      results[i].id = Ranking(query, Emojis, ResultLimit)[i]

ComposerInv ==
  /\ TextOK /\ KeysOK /\ MenuOK
  /\ Armed /\ PickOrSend /\ SelectionInRange /\ EmojisFollow

-----------------------------------------------------------------------------
(* What a step does to the text and the menu *)

LEMMA ItemFacts ==
  \A s \in {Item.mention, Item.emoji, Item.media, Item.link, Undefined, Reference(Undefined)} :
    s \in Seq(Token) /\ Len(s) >= 2
<1>1. /\ Id \in Seq(Token) /\ Len(Id) = 2
      /\ Undefined \in Seq(Token) /\ Len(Undefined) = 2
  BY DEF Id, Undefined, Token
<1>2. /\ <<"<", ":">> \in Seq(Token) /\ Len(<<"<", ":">>) = 2
      /\ <<"(", ":">> \in Seq(Token) /\ Len(<<"(", ":">>) = 2
      /\ <<">">> \in Seq(Token) /\ Len(<<">">>) = 1
      /\ <<")">> \in Seq(Token) /\ Len(<<")">>) = 1
      /\ <<"hi", "lo">> \in Seq(Token) /\ Len(<<"hi", "lo">>) = 2
      /\ <<"(", ")">> \in Seq(Token) /\ Len(<<"(", ")">>) = 2
  BY DEF Token, Symbols
<1>3. ASSUME NEW a \in Seq(Token), NEW b \in Seq(Token), NEW c \in Seq(Token), Len(a) = 2
      PROVE  a \o b \o c \in Seq(Token) /\ Len(a \o b \o c) >= 2
  <2>1. a \o b \in Seq(Token) /\ Len(a \o b) = Len(a) + Len(b)
    BY ConcatProperties
  <2>2. (a \o b) \o c \in Seq(Token) /\ Len((a \o b) \o c) = Len(a \o b) + Len(c)
    BY <2>1, ConcatProperties
  <2>3. Len(b) \in Nat /\ Len(c) \in Nat
    BY LenProperties
  <2> QED
    BY <1>3, <2>1, <2>2, <2>3
<1>4. Reference(Id) \in Seq(Token) /\ Len(Reference(Id)) >= 2
  <2>1. Reference(Id) = <<"<", ":">> \o Id \o <<">">>
    BY DEF Reference
  <2> QED
    BY <1>1, <1>2, <1>3, <2>1
<1>5. Reference(Undefined) \in Seq(Token) /\ Len(Reference(Undefined)) >= 2
  <2>1. Reference(Undefined) = <<"<", ":">> \o Undefined \o <<">">>
    BY DEF Reference
  <2> QED
    BY <1>1, <1>2, <1>3, <2>1
<1>6. /\ Item.mention = Reference(Id) /\ Item.emoji = <<"hi", "lo">>
      /\ Item.link = <<"(", ")">> /\ Item.media = <<"(", ":">> \o Id \o <<")">>
  BY DEF Item
<1>7. Item.media \in Seq(Token) /\ Len(Item.media) >= 2
  BY <1>1, <1>2, <1>3, <1>6
<1>8. /\ Item.emoji \in Seq(Token) /\ Len(Item.emoji) >= 2
      /\ Item.link \in Seq(Token) /\ Len(Item.link) >= 2
  BY <1>2, <1>6
<1>9. Undefined \in Seq(Token) /\ Len(Undefined) >= 2
  BY <1>1
<1> QED
  BY <1>4, <1>5, <1>6, <1>7, <1>8, <1>9

LEMMA OneToken ==
  ASSUME NEW c \in Token
  PROVE  <<c>> \in Seq(Token) /\ Len(<<c>>) > 0
  OBVIOUS

LEMMA MediaEnds == Item.media[Len(Item.media)] = ")"
  BY DEF Item, Id

\* A part of the text from its beginning, or to its end
LEMMA TextParts ==
  ASSUME TextOK, NEW n \in 0 .. Len(text)
  PROVE  /\ SubSeq(text, 1, n) \in Seq(Token) /\ Len(SubSeq(text, 1, n)) = n
         /\ SubSeq(text, n + 1, Len(text)) \in Seq(Token)
         /\ Len(SubSeq(text, n + 1, Len(text))) = Len(text) - n
<1>1. Len(text) \in Nat /\ \A i \in 1 .. Len(text) : text[i] \in Token
  BY LenProperties, ElementOfSeq DEF TextOK
<1>2. \A i \in 1 .. n : text[i] \in Token
  BY <1>1
<1>3. \A i \in n + 1 .. Len(text) : text[i] \in Token
  BY <1>1
<1>4. /\ SubSeq(text, 1, n) \in Seq(Token)
      /\ Len(SubSeq(text, 1, n)) = IF 1 <= n THEN n - 1 + 1 ELSE 0
  BY <1>1, <1>2, SubSeqProperties
<1>5. /\ SubSeq(text, n + 1, Len(text)) \in Seq(Token)
      /\ Len(SubSeq(text, n + 1, Len(text)))
           = IF n + 1 <= Len(text) THEN Len(text) - (n + 1) + 1 ELSE 0
  <2>1. n + 1 \in Int /\ Len(text) \in Int
    BY <1>1
  <2> QED
    BY <2>1, <1>3, SubSeqProperties
<1> QED
  BY <1>1, <1>4, <1>5

\* handleInput after an edit that leaves b in front of the cursor
LEMMA InputKeeps ==
  ASSUME ComposerInv, NEW b \in Seq(Token), handleInput(b)
  PROVE  /\ MenuOK' /\ SelectionInRange' /\ EmojisFollow'
         /\ Trigger(b) = "none" => ~ showDropdown'
<1>1. Trigger(b) \in {"none", "mention", "emoji"}
  BY DEF Trigger
<1>2. /\ autocompleteType' = Trigger(b) /\ selectedIndex' = selectedIndex
      /\ showDropdown' = (Trigger(b) # "none")
  BY DEF handleInput
<1>3. /\ results' = results \/ results' = << >>
      /\ Trigger(b) = "emoji" => results' = << >> \/ debounceTimer' = "emoji"
  BY <1>1 DEF handleInput, Search
<1>4. results' \in Seq(Range(results'))
  BY <1>3, EmptySeq DEF ComposerInv, MenuOK
<1>5. MenuOK'
  BY <1>1, <1>2, <1>4 DEF ComposerInv, MenuOK
<1>6. SelectionInRange'
  BY <1>2, <1>3 DEF ComposerInv, SelectionInRange
<1>7. EmojisFollow'
  BY <1>2, <1>3 DEF EmojisFollow
<1> QED
  BY <1>2, <1>5, <1>6, <1>7

\* The selection is replaced.
LEMMA ReplaceKeeps ==
  ASSUME ComposerInv, NEW new \in Seq(Token), Len(new) > 0, Replace(new)
  PROVE  /\ TextOK' /\ MenuOK' /\ SelectionInRange' /\ EmojisFollow'
         /\ new[Len(new)] \in Symbols \ {"@", ":"} => ~ showDropdown'
<1> DEFINE front == SubSeq(text, 1, sel[1])
           rest == SubSeq(text, sel[2] + 1, Len(text))
           b == front \o new
<1>1. front \in Seq(Token) /\ rest \in Seq(Token) /\ Len(new) \in Nat
  BY TextParts, LenProperties DEF ComposerInv, TextOK
<1>2. text' = b \o rest /\ sel' = <<Len(b), Len(b)>> /\ handleInput(b)
  BY DEF Replace
<1> HIDE DEF front, rest
<1>3. /\ b \in Seq(Token) /\ Len(b) = Len(front) + Len(new) /\ b[Len(b)] = new[Len(new)]
      /\ Len(front) \in Nat
  BY <1>1, ConcatProperties, LenProperties
<1> HIDE DEF b
<1>4. text' \in Seq(Token) /\ Len(text') = Len(b) + Len(rest) /\ Len(rest) \in Nat
  BY <1>1, <1>2, <1>3, ConcatProperties, LenProperties
<1>5. TextOK'
  BY <1>1, <1>2, <1>3, <1>4 DEF TextOK
<1>6. ASSUME new[Len(new)] \in Symbols \ {"@", ":"} PROVE Trigger(b) = "none"
  <2>1. b[Len(b)] \in Symbols \ {"@", ":"} /\ Len(b) > 0
    BY <1>1, <1>3, <1>6
  <2> QED
    BY <1>3, <2>1, NoTrigger
<1> QED
  BY <1>2, <1>3, <1>5, <1>6, InputKeeps

\* A result is put in place of the trigger.
LEMMA SelectKeeps ==
  ASSUME ComposerInv, NEW r, selectResult(r)
  PROVE  /\ TextOK' /\ MenuOK' /\ SelectionInRange' /\ EmojisFollow'
         /\ showDropdown' => showDropdown
<1> DEFINE before == SubSeq(text, 1, sel[1])
           rest == SubSeq(text, sel[1] + 1, Len(text))
           pos == TriggerPos(before, autocompleteType)
           insert == InsertText(autocompleteType, r)
           front == SubSeq(before, 1, pos - 1)
           new == front \o insert \o rest
           cursor == pos - 1 + Len(insert)
<1>1. before \in Seq(Token) /\ rest \in Seq(Token) /\ Len(before) \in Nat /\ Len(rest) \in Nat
  BY TextParts, LenProperties DEF ComposerInv, TextOK
<1>2. insert \in Seq(Token) /\ Len(insert) \in Nat /\ Len(insert) >= 2
  <2>1. insert \in {Item.mention, Item.emoji, Undefined, Reference(Undefined)}
    BY DEF InsertText
  <2> HIDE DEF insert
  <2> QED
    BY <2>1, ItemFacts, LenProperties
<1>3. /\ text' = new /\ selectedIndex' = selectedIndex
      /\ \/ sel' = <<Len(new), Len(new)>> /\ UNCHANGED <<query, results, debounceTimer, menu>>
         \/ /\ sel' = <<cursor, cursor>> /\ Search(SubSeq(new, 1, cursor))
            /\ showDropdown' = FALSE /\ autocompleteType' = "none"
  BY DEF selectResult
<1> HIDE DEF before, rest, insert
<1>4. pos \in 0 .. Len(before)
  <2> DEFINE c == Triggers[autocompleteType]
             T == {0} \cup {i \in DOMAIN before : before[i] = c}
  <2>1. T \subseteq 0 .. Len(before) /\ T # {}
    BY <1>1, LenProperties
  <2>2. Max(T) \in T
    BY <1>1, <2>1, MaxFacts
  <2>3. pos = Max(T)
    BY DEF TriggerPos, LastIndexOf
  <2> HIDE DEF T, pos
  <2> QED
    BY <2>1, <2>2, <2>3
<1> HIDE DEF pos
<1>5. /\ front \in Seq(Token) /\ Len(front) \in Nat
      /\ Len(front) = IF 1 <= pos - 1 THEN pos - 1 - 1 + 1 ELSE 0
  <2>1. \A i \in 1 .. pos - 1 : before[i] \in Token
    BY <1>1, <1>4, ElementOfSeq
  <2>2. 1 \in Int /\ pos - 1 \in Int
    BY <1>1, <1>4
  <2> QED
    BY <2>1, <2>2, SubSeqProperties, LenProperties
<1> HIDE DEF front
<1>6. /\ new \in Seq(Token) /\ Len(new) \in Nat
      /\ Len(new) = Len(front) + Len(insert) + Len(rest)
  <2>1. front \o insert \in Seq(Token) /\ Len(front \o insert) = Len(front) + Len(insert)
    BY <1>2, <1>5, ConcatProperties
  <2> QED
    BY <1>1, <2>1, ConcatProperties, LenProperties
<1> HIDE DEF new
<1>7. cursor \in 0 .. Len(new)
  BY <1>1, <1>2, <1>4, <1>5, <1>6
<1> HIDE DEF cursor
<1>8. TextOK'
  BY <1>3, <1>6, <1>7 DEF TextOK
<1>9. CASE UNCHANGED <<query, results, debounceTimer, menu>>
  BY <1>3, <1>8, <1>9 DEF ComposerInv, MenuOK, SelectionInRange, EmojisFollow, menu
<1>10. CASE /\ Search(SubSeq(new, 1, cursor))
            /\ showDropdown' = FALSE /\ autocompleteType' = "none"
  <2>1. results' = results \/ results' = << >>
    BY <1>10 DEF Search
  <2>2. results' \in Seq(Range(results'))
    BY <2>1, EmptySeq DEF ComposerInv, MenuOK
  <2>3. MenuOK' /\ SelectionInRange' /\ EmojisFollow'
    BY <1>3, <1>10, <2>1, <2>2
    DEF ComposerInv, MenuOK, SelectionInRange, EmojisFollow
  <2> QED
    BY <1>8, <1>10, <2>3
<1> QED
  BY <1>3, <1>9, <1>10

-----------------------------------------------------------------------------
(* What a step does to the Enter key *)

\* Another key: no menu that comes up can be under a repeating Enter.
LEMMA OtherKeyKeeps ==
  ASSUME ComposerInv, OtherKey
  PROVE  KeysOK' /\ Armed' /\ PickOrSend'
  BY DEF ComposerInv, OtherKey, KeysOK, Armed, PickOrSend

\* No key: a menu may come up where Enter does not repeat.
LEMMA KeysRest ==
  ASSUME ComposerInv, UNCHANGED <<surface, sendEligible, enter, press>>,
         focused' = focused \/ focused' = TRUE,
         enter = "repeating" => ~ showDropdown' \/ showDropdown
  PROVE  KeysOK' /\ Armed' /\ PickOrSend'
  BY DEF ComposerInv, KeysOK, Armed, PickOrSend

\* The focus goes.
LEMMA LeavingKeeps ==
  ASSUME ComposerInv, UNCHANGED <<surface, enter>>, focused' = FALSE,
         sendEligible' = FALSE, press' = Leaving
  PROVE  KeysOK' /\ Armed' /\ PickOrSend'
  BY DEF ComposerInv, KeysOK, Armed, PickOrSend, Leaving

LEMMA MenuRest ==
  ASSUME ComposerInv, UNCHANGED search, autocompleteType' = autocompleteType,
         showDropdown' = showDropdown \/ showDropdown' = FALSE
  PROVE  MenuOK' /\ SelectionInRange' /\ EmojisFollow'
<1>1. UNCHANGED <<query, results, selectedIndex, debounceTimer>>
  BY DEF search
<1>2. MenuOK'
  <2>1. showDropdown' \in BOOLEAN
    BY Zenon DEF ComposerInv, MenuOK
  <2>2. showDropdown' => showDropdown
    OBVIOUS
  <2> QED
    BY <1>1, <2>1, <2>2 DEF ComposerInv, MenuOK
<1>3. SelectionInRange' /\ EmojisFollow'
  BY <1>1 DEF ComposerInv, SelectionInRange, EmojisFollow
<1> QED
  BY <1>2, <1>3

\* Another list of results, with the first one selected
LEMMA ShowResultsKeeps ==
  ASSUME ComposerInv, NEW n \in Nat, NEW new, DOMAIN new = 1 .. n,
         new = [i \in 1 .. n |-> new[i]], ShowResults(new), UNCHANGED menu
  PROVE  MenuOK' /\ SelectionInRange'
<1>1. new \in Seq(Range(new))
  <2>1. \A i \in 1 .. n : new[i] \in Range(new)
    BY DEF Range
  <2>2. new \in [1 .. n -> Range(new)]
    BY <2>1
  <2> QED
    BY <2>2
<1>2. results' = new /\ selectedIndex' = 1
  BY DEF ShowResults
<1>3. MenuOK'
  BY <1>1, <1>2 DEF ComposerInv, MenuOK, menu
<1>4. SelectionInRange'
  <2>1. new # << >> => Len(new) \in Nat \ {0} /\ DOMAIN new = 1 .. Len(new)
    BY <1>1, EmptySeq, LenProperties
  <2> QED
    BY <1>2, <2>1 DEF SelectionInRange
<1> QED
  BY <1>3, <1>4

\* searchEmojis gives a list.
LEMMA RankingList ==
  ASSUME NEW q
  PROVE  \E n \in Nat : DOMAIN Ranking(q, Emojis, ResultLimit) = 1 .. n
<1> DEFINE best == Best(q, Emojis)
           all == Scoring(q, Emojis)
           m == Min({ResultLimit, Cardinality(all)})
<1>1. Cardinality(all) \in Nat
  <2>1. all \subseteq DOMAIN Emojis
    BY DEF Scoring
  <2> HIDE DEF all
  <2>2. IsFiniteSet(all)
    BY <2>1, ComposerAssumption, FS_Subset
  <2> QED
    BY <2>2, FS_CardinalityType
<1>2. m \in Nat
  BY <1>1, ComposerAssumption DEF Min
<1> HIDE DEF best, all, m
<1> DEFINE s == SubSeq(best, 1, m)
           S == {best[i] : i \in 1 .. m}
<1>3. s \in Seq(S)
  BY <1>2, SubSeqProperties
<1>4. Ranking(q, Emojis, ResultLimit) = s
  BY DEF Ranking, best, all, m
<1> HIDE DEF s, S
<1>5. DOMAIN s = 1 .. Len(s) /\ Len(s) \in Nat
  BY <1>3, LenProperties
<1> QED
  BY <1>4, <1>5

-----------------------------------------------------------------------------
(* The actions *)

LEMMA BackspaceKeeps ==
  ASSUME ComposerInv, Backspace
  PROVE  ComposerInv'
<1> DEFINE b == SubSeq(text, 1, sel[1] - 1)
           rest == SubSeq(text, sel[1] + 1, Len(text))
<1>1. Len(text) \in Nat /\ sel[1] \in 0 .. Len(text) /\ sel[1] > 0
  BY LenProperties DEF ComposerInv, TextOK, Backspace
<1>2. TextOK /\ sel[1] - 1 \in 0 .. Len(text)
  BY <1>1 DEF ComposerInv
<1>3. b \in Seq(Token) /\ rest \in Seq(Token) /\ Len(b) \in Nat /\ Len(rest) \in Nat
  BY <1>1, <1>2, TextParts, LenProperties
<1>4. text' = b \o rest /\ sel' = <<Len(b), Len(b)>> /\ handleInput(b) /\ OtherKey
  BY DEF Backspace
<1> HIDE DEF b, rest
<1>5. text' \in Seq(Token) /\ Len(text') = Len(b) + Len(rest)
  BY <1>3, <1>4, ConcatProperties
<1>6. TextOK'
  BY <1>3, <1>4, <1>5 DEF TextOK
<1> QED
  BY <1>3, <1>4, <1>6, InputKeeps, OtherKeyKeeps DEF ComposerInv

LEMMA TypeKeeps ==
  ASSUME ComposerInv, NEW c \in {"@", ":"} \cup Letters, Type(c)
  PROVE  ComposerInv'
<1>1. c \in Token
  BY DEF Token, Symbols
<1>2. <<c>> \in Seq(Token) /\ Len(<<c>>) > 0
  BY <1>1, OneToken
<1> QED
  BY <1>2, ReplaceKeeps, OtherKeyKeeps DEF ComposerInv, Type

LEMMA MoveCursorKeeps ==
  ASSUME ComposerInv, NEW s \in 0 .. Len(text), NEW e \in 0 .. Len(text), MoveCursor(s, e)
  PROVE  ComposerInv'
<1>1. TextOK'
  BY DEF ComposerInv, TextOK, MoveCursor
<1>2. UNCHANGED search /\ UNCHANGED menu /\ OtherKey
  BY DEF MoveCursor
<1> QED
  BY <1>1, <1>2, MenuRest, OtherKeyKeeps DEF ComposerInv, menu

LEMMA ShoutSentKeeps ==
  ASSUME ComposerInv, ShoutSent
  PROVE  ComposerInv'
<1>1. TextOK'
  BY DEF ComposerInv, TextOK, ShoutSent
<1>2. UNCHANGED search /\ UNCHANGED menu /\ UNCHANGED keys /\ UNCHANGED <<surface, focused>>
  BY DEF ShoutSent
<1> QED
  BY <1>1, <1>2, MenuRest, KeysRest DEF ComposerInv, keys, menu

LEMMA TimerKeeps ==
  ASSUME ComposerInv, TimerFires
  PROVE  ComposerInv'
<1>1. /\ UNCHANGED <<surface, text, sel, focused, sendEligible, enter, press, query>>
      /\ UNCHANGED menu /\ debounceTimer' = "none"
  BY DEF TimerFires, field, keys
<1>2. TextOK' /\ KeysOK' /\ Armed' /\ PickOrSend'
  BY <1>1, KeysRest DEF ComposerInv, TextOK, menu
<1>3. CASE debounceTimer = "mention" /\ UNCHANGED <<results, selectedIndex>>
  BY <1>1, <1>2, <1>3 DEF ComposerInv, MenuOK, SelectionInRange, EmojisFollow, menu
<1>4. CASE debounceTimer = "emoji"
  <2> DEFINE rank == Ranking(query, Emojis, ResultLimit)
             new == [i \in DOMAIN rank |-> [type |-> "emoji", id |-> rank[i]]]
  <2>1. ShowResults(new)
    BY <1>4 DEF TimerFires
  <2>2. PICK n \in Nat : DOMAIN rank = 1 .. n
    BY RankingList
  <2>3. DOMAIN new = 1 .. n /\ new = [i \in 1 .. n |-> new[i]]
    BY <2>2
  <2>4. \A i \in DOMAIN new : new[i].id = rank[i]
    OBVIOUS
  <2> HIDE DEF new
  <2>5. MenuOK' /\ SelectionInRange'
    BY <1>1, <2>1, <2>3, ShowResultsKeeps
  <2>6. EmojisFollow'
    BY <1>1, <2>1, <2>4 DEF EmojisFollow, ShowResults
  <2> QED
    BY <1>2, <2>5, <2>6 DEF ComposerInv
<1> QED
  BY <1>3, <1>4 DEF TimerFires

LEMMA AnswerKeeps ==
  ASSUME ComposerInv, NEW n \in 0 .. MaxProfiles, Answer(n)
  PROVE  ComposerInv'
<1> DEFINE new == [i \in 1 .. n |-> [type |-> "mention", id |-> i]]
<1>1. /\ UNCHANGED <<surface, text, sel, focused, sendEligible, enter, press, query>>
      /\ UNCHANGED menu /\ ShowResults(new)
  BY DEF Answer, field, keys
<1>2. TextOK' /\ KeysOK' /\ Armed' /\ PickOrSend'
  BY <1>1, KeysRest DEF ComposerInv, TextOK, menu
<1>3. n \in Nat
  BY ComposerAssumption
<1>4. DOMAIN new = 1 .. n /\ new = [i \in 1 .. n |-> new[i]]
  OBVIOUS
<1>5. \A i \in DOMAIN new : new[i].type = "mention"
  OBVIOUS
<1> HIDE DEF new
<1>6. MenuOK' /\ SelectionInRange'
  BY <1>1, <1>3, <1>4, ShowResultsKeeps
<1>7. EmojisFollow'
  BY <1>1, <1>5 DEF EmojisFollow, ShowResults
<1> QED
  BY <1>2, <1>6, <1>7 DEF ComposerInv

LEMMA AnswerFailsKeeps ==
  ASSUME ComposerInv, AnswerFails
  PROVE  ComposerInv'
<1>1. /\ UNCHANGED <<surface, text, sel, focused, sendEligible, enter, press, selectedIndex>>
      /\ UNCHANGED menu /\ results' = << >>
  BY DEF AnswerFails, field, keys
<1>2. TextOK' /\ KeysOK' /\ Armed' /\ PickOrSend'
  BY <1>1, KeysRest DEF ComposerInv, TextOK, menu
<1>3. results' \in Seq(Range(results'))
  BY <1>1, EmptySeq
<1>4. MenuOK' /\ SelectionInRange' /\ EmojisFollow'
  BY <1>1, <1>3 DEF ComposerInv, MenuOK, SelectionInRange, EmojisFollow, menu
<1> QED
  BY <1>2, <1>4 DEF ComposerInv

LEMMA ArrowKeeps ==
  ASSUME ComposerInv, NEW step \in {1, -1}, Arrow(step)
  PROVE  ComposerInv'
<1>1. /\ OtherKey /\ UNCHANGED <<text, sel, query, results, debounceTimer>> /\ UNCHANGED menu
      /\ selectedIndex' = IF results = << >> THEN selectedIndex
                          ELSE Max({1, Min({selectedIndex + step, Len(results)})})
  BY DEF Arrow
<1>2. TextOK' /\ KeysOK' /\ Armed' /\ PickOrSend'
  BY <1>1, OtherKeyKeeps DEF ComposerInv, TextOK
<1>3. CASE results = << >>
  BY <1>1, <1>2, <1>3 DEF ComposerInv, MenuOK, SelectionInRange, EmojisFollow, menu
<1>4. CASE results # << >>
  <2> DEFINE low == Min({selectedIndex + step, Len(results)})
  <2>1. Len(results) \in Nat \ {0} /\ DOMAIN results = 1 .. Len(results)
    BY <1>4, EmptySeq, LenProperties DEF ComposerInv, MenuOK
  <2>2. selectedIndex \in Nat
    BY DEF ComposerInv, MenuOK
  <2>3. low \in Int /\ low <= Len(results)
    BY <2>1, <2>2 DEF Min
  <2> HIDE DEF low
  <2>4. Max({1, low}) \in 1 .. Len(results)
    <3>1. \E x \in {1, low} : \A y \in {1, low} : x >= y
      BY <2>3
    <3>2. Max({1, low}) \in {1, low} /\ \A y \in {1, low} : Max({1, low}) >= y
      BY <3>1 DEF Max
    <3> QED
      BY <2>1, <2>3, <3>2
  <2>5. selectedIndex' \in 1 .. Len(results)
    BY <1>1, <1>4, <2>4 DEF low
  <2>6. MenuOK' /\ SelectionInRange' /\ EmojisFollow'
    BY <1>1, <2>1, <2>5 DEF ComposerInv, MenuOK, SelectionInRange, EmojisFollow, menu
  <2> QED
    BY <1>2, <2>6 DEF ComposerInv
<1> QED
  BY <1>3, <1>4

LEMMA EnterDownKeeps ==
  ASSUME ComposerInv, NEW plain \in BOOLEAN, EnterDown(plain)
  PROVE  ComposerInv'
<1> DEFINE repeat == enter = "repeating"
           picks == showDropdown /\ results # << >> /\ (plain \/ surface = "post")
           breaks == ~ picks /\ (~ plain \/ surface = "post")
           began == IF repeat THEN press ELSE IF plain THEN {"plain"} ELSE {}
<1>1. /\ focused /\ enter # "down" /\ UNCHANGED <<surface, focused>>
      /\ IF surface = "post" THEN UNCHANGED keys
         ELSE /\ enter' = "repeating"
              /\ sendEligible' = Eligible(repeat, plain, showDropdown)
              /\ press' = began \cup (IF picks THEN {"picked"} ELSE {})
      /\ IF picks THEN selectResult(results[selectedIndex])
         ELSE IF breaks THEN Replace(<<" ">>) ELSE UNCHANGED <<text, sel, search, menu>>
  BY DEF EnterDown
<1>2. /\ TextOK' /\ MenuOK' /\ SelectionInRange' /\ EmojisFollow'
      /\ breaks => ~ showDropdown'
      /\ showDropdown' => showDropdown
  <2>1. CASE picks
    BY <1>1, <2>1, SelectKeeps
  <2>2. CASE breaks
    <3>1. <<" ">> \in Seq(Token) /\ Len(<<" ">>) > 0
      BY DEF Token, Symbols
    <3>2. <<" ">>[Len(<<" ">>)] \in Symbols \ {"@", ":"}
      BY DEF Symbols
    <3>3. Replace(<<" ">>)
      BY <1>1, <2>2
    <3> QED
      BY <3>1, <3>2, <3>3, ReplaceKeeps
  <2>3. CASE ~ picks /\ ~ breaks
    <3>1. UNCHANGED <<text, sel, search, menu>>
      BY <1>1, <2>3
    <3>2. TextOK'
      BY <3>1 DEF ComposerInv, TextOK
    <3> QED
      BY <2>3, <3>1, <3>2, MenuRest DEF menu
  <2> QED
    BY <2>1, <2>2, <2>3
<1>3. KeysOK' /\ Armed' /\ PickOrSend'
  <2>1. CASE surface = "post"
    BY <1>1, <1>2, <2>1 DEF ComposerInv, KeysOK, Armed, PickOrSend, keys
  <2>2. CASE surface # "post" /\ repeat
    <3>1. /\ enter = "repeating" /\ enter' = "repeating" /\ UNCHANGED sendEligible
          /\ press' = press \cup (IF picks THEN {"picked"} ELSE {})
      BY <1>1, <2>2 DEF Eligible
    <3>2. sendEligible => ~ picks
      BY <3>1 DEF ComposerInv, Armed
    <3>3. "sent" \notin press'
      BY <3>1 DEF ComposerInv, Armed
    <3> HIDE DEF picks
    <3>4. Armed'
      BY <1>1, <1>2, <2>2, <3>1, <3>2, <3>3 DEF ComposerInv, Armed
    <3> QED
      BY <1>1, <3>1, <3>3, <3>4 DEF ComposerInv, KeysOK, PickOrSend
  <2>3. CASE surface # "post" /\ ~ repeat
    <3>1. /\ enter' = "repeating" /\ sendEligible' = (plain /\ ~ showDropdown)
          /\ press' = (IF plain THEN {"plain"} ELSE {}) \cup (IF picks THEN {"picked"} ELSE {})
      BY <1>1, <2>3 DEF Eligible
    <3>2. sendEligible' \in BOOLEAN /\ (sendEligible' => plain /\ ~ showDropdown /\ ~ picks)
      BY <3>1
    <3>3. "sent" \notin press' /\ (sendEligible' => press' = {"plain"})
      BY <3>1, <3>2
    <3>4. press' \subseteq {"plain", "picked"}
      BY <3>1
    <3> HIDE DEF picks, breaks
    <3>5. Armed'
      BY <1>1, <1>2, <2>3, <3>1, <3>2, <3>3 DEF Armed
    <3> QED
      BY <1>1, <3>1, <3>2, <3>3, <3>4, <3>5 DEF ComposerInv, KeysOK, PickOrSend
  <2> QED
    BY <2>1, <2>2, <2>3
<1> QED
  BY <1>2, <1>3 DEF ComposerInv

LEMMA EnterUpKeeps ==
  ASSUME ComposerInv, NEW composing \in BOOLEAN, EnterUp(composing)
  PROVE  ComposerInv'
<1>1. /\ UNCHANGED <<surface, text, sel, focused>> /\ UNCHANGED search /\ UNCHANGED menu
      /\ enter' = "up" /\ enter # "up"
      /\ press' = IF focused /\ sendEligible /\ ~ composing THEN press \cup {"sent"} ELSE {}
      /\ sendEligible' = IF focused THEN FALSE ELSE sendEligible
  BY DEF EnterUp, field
<1>2. TextOK' /\ MenuOK' /\ SelectionInRange' /\ EmojisFollow'
  BY <1>1, MenuRest DEF ComposerInv, TextOK, menu
<1>3. KeysOK' /\ Armed' /\ PickOrSend'
  BY <1>1 DEF ComposerInv, KeysOK, Armed, PickOrSend
<1> QED
  BY <1>2, <1>3 DEF ComposerInv

LEMMA ClickResultKeeps ==
  ASSUME ComposerInv, NEW i \in DOMAIN results, ClickResult(i)
  PROVE  ComposerInv'
<1>1. /\ selectResult(results[i]) /\ UNCHANGED <<surface, enter>> /\ focused' = FALSE
      /\ sendEligible' = FALSE /\ press' = Leaving
  BY DEF ClickResult
<1> QED
  BY <1>1, SelectKeeps, LeavingKeeps DEF ComposerInv

LEMMA ClickOutsideKeeps ==
  ASSUME ComposerInv, NEW s \in 0 .. Len(text), ClickOutside(s)
  PROVE  ComposerInv'
<1>1. /\ showDropdown' = FALSE /\ UNCHANGED <<surface, text, autocompleteType, enter>>
      /\ UNCHANGED search
      /\ \/ focused' = TRUE /\ sel' = <<s, s>> /\ UNCHANGED <<sendEligible, press>>
         \/ focused' = FALSE /\ sendEligible' = FALSE /\ press' = Leaving /\ sel' = sel
  BY DEF ClickOutside
<1>2. TextOK'
  BY <1>1 DEF ComposerInv, TextOK
<1>3. KeysOK' /\ Armed' /\ PickOrSend'
  BY <1>1, KeysRest, LeavingKeeps
<1> QED
  BY <1>1, <1>2, <1>3, MenuRest DEF ComposerInv

\* What dialogs and the picker insert; while Enter repeats only a medium can come, and
\* it ends in a character that asks for nothing.
LEMMA InsertionKeeps ==
  ASSUME ComposerInv, NEW new \in Seq(Token), Len(new) > 0, Replace(new),
         UNCHANGED <<surface, sendEligible, enter, press>>,
         focused' = focused \/ focused' = TRUE,
         surface = "post" \/ new[Len(new)] \in Symbols \ {"@", ":"}
  PROVE  ComposerInv'
<1>1. /\ TextOK' /\ MenuOK' /\ SelectionInRange' /\ EmojisFollow'
      /\ new[Len(new)] \in Symbols \ {"@", ":"} => ~ showDropdown'
  BY ReplaceKeeps
<1>2. enter = "repeating" => ~ showDropdown'
  BY <1>1 DEF ComposerInv, Armed
<1>3. KeysOK' /\ Armed' /\ PickOrSend'
  BY <1>2, KeysRest
<1> QED
  BY <1>1, <1>3 DEF ComposerInv

LEMMA DialogsKeep ==
  ASSUME ComposerInv, insertMediaSyntax \/ insertExternalLink \/ EmojiClick
  PROVE  ComposerInv'
<1>1. CASE insertMediaSyntax
  <2>1. /\ Replace(Item.media) /\ focused' = TRUE
        /\ UNCHANGED <<surface, sendEligible, enter, press>>
    BY <1>1 DEF insertMediaSyntax, keys
  <2>2. Item.media \in Seq(Token) /\ Len(Item.media) > 0
    BY ItemFacts, LenProperties
  <2>3. Item.media[Len(Item.media)] \in Symbols \ {"@", ":"}
    BY MediaEnds DEF Symbols
  <2> QED
    BY <2>1, <2>2, <2>3, InsertionKeeps
<1>2. CASE insertExternalLink
  <2> DEFINE space == IF sel[1] > 0 /\ text[sel[1]] # " " THEN <<" ">> ELSE << >>
             new == space \o Item.link
  <2>1. /\ Replace(new) /\ focused' = TRUE /\ surface = "post"
        /\ UNCHANGED <<surface, sendEligible, enter, press>>
    BY <1>2 DEF insertExternalLink, keys
  <2>2. space \in Seq(Token)
    <3>1. << >> \in Seq(Token)
      BY EmptySeq
    <3>2. " " \in Token
      BY DEF Token, Symbols
    <3>3. <<" ">> \in Seq(Token)
      BY <3>2, OneToken
    <3> QED
      BY <3>1, <3>3
  <2>3. Item.link \in Seq(Token) /\ Len(Item.link) >= 2 /\ Len(Item.link) \in Nat
    BY ItemFacts, LenProperties
  <2> HIDE DEF space
  <2>4. new \in Seq(Token) /\ Len(new) = Len(space) + Len(Item.link) /\ Len(space) \in Nat
    BY <2>2, <2>3, ConcatProperties, LenProperties
  <2> HIDE DEF new
  <2>5. Len(new) > 0
    BY <2>3, <2>4
  <2> QED
    BY <2>1, <2>4, <2>5, InsertionKeeps
<1>3. CASE EmojiClick
  <2>1. /\ Replace(Item.emoji) /\ focused' = focused /\ surface = "post"
        /\ UNCHANGED <<surface, sendEligible, enter, press>>
    BY <1>3 DEF EmojiClick, insertTextIntoField, keys
  <2>2. Item.emoji \in Seq(Token) /\ Len(Item.emoji) > 0
    BY ItemFacts, LenProperties
  <2> QED
    BY <2>1, <2>2, InsertionKeeps
<1> QED
  BY <1>1, <1>2, <1>3

\* Steps that leave the text and the results alone
LEMMA QuietKeeps ==
  ASSUME ComposerInv, UNCHANGED <<surface, text, sel, query, results, selectedIndex>>,
         UNCHANGED <<debounceTimer, autocompleteType>>,
         \/ OtherKey /\ showDropdown' = FALSE
         \/ UNCHANGED <<focused, showDropdown, sendEligible, enter, press>>
         \/ focused' = TRUE /\ UNCHANGED <<showDropdown, sendEligible, enter, press>>
         \/ /\ focused' = FALSE /\ sendEligible' = FALSE /\ press' = Leaving
            /\ UNCHANGED <<showDropdown, enter>>
         \/ /\ surface = "shoutbox" /\ ~ focused /\ enter' = "repeating" /\ press' = {"left"}
            /\ UNCHANGED <<focused, showDropdown, sendEligible>>
  PROVE  ComposerInv'
<1>1. TextOK' /\ SelectionInRange' /\ EmojisFollow'
  BY DEF ComposerInv, TextOK, SelectionInRange, EmojisFollow
<1>2. MenuOK'
  <2>1. showDropdown' = showDropdown \/ showDropdown' = FALSE
    OBVIOUS
  <2>2. showDropdown' \in BOOLEAN
    BY <2>1, Zenon DEF ComposerInv, MenuOK
  <2>3. showDropdown' => showDropdown
    BY <2>1
  <2> QED
    BY <2>2, <2>3 DEF ComposerInv, MenuOK
<1>3. CASE /\ surface = "shoutbox" /\ ~ focused /\ enter' = "repeating" /\ press' = {"left"}
           /\ UNCHANGED <<focused, showDropdown, sendEligible>>
  <2>1. ~ sendEligible /\ "sent" \notin press'
    BY <1>3 DEF ComposerInv, Armed
  <2>2. KeysOK' /\ Armed' /\ PickOrSend'
    BY <1>3, <2>1 DEF ComposerInv, KeysOK, Armed, PickOrSend
  <2> QED
    BY <1>1, <1>2, <2>2 DEF ComposerInv
<1>4. CASE OtherKey
  BY <1>1, <1>2, <1>4, OtherKeyKeeps DEF ComposerInv
<1>5. CASE /\ focused' = focused \/ focused' = TRUE
           /\ UNCHANGED <<showDropdown, sendEligible, enter, press>>
  <2>1. KeysOK' /\ Armed' /\ PickOrSend'
    BY <1>5, KeysRest
  <2> QED
    BY <1>1, <1>2, <2>1 DEF ComposerInv
<1>6. CASE focused' = FALSE /\ sendEligible' = FALSE /\ press' = Leaving /\ UNCHANGED enter
  <2>1. KeysOK' /\ Armed' /\ PickOrSend'
    BY <1>6, LeavingKeeps
  <2> QED
    BY <1>1, <1>2, <2>1 DEF ComposerInv
<1> QED
  BY <1>3, <1>4, <1>5, <1>6

-----------------------------------------------------------------------------
(* The theorems *)

LEMMA ComposerInitial == Init => ComposerInv
<1> SUFFICES ASSUME Init PROVE ComposerInv
  OBVIOUS
<1>1. TextOK
  BY EmptySeq DEF Init, TextOK
<1>2. results \in Seq(Range(results))
  BY EmptySeq DEF Init
<1>3. MenuOK /\ SelectionInRange /\ EmojisFollow
  BY <1>2 DEF Init, MenuOK, SelectionInRange, EmojisFollow
<1>4. focused \in BOOLEAN
  BY DEF Init
<1>5. KeysOK /\ Armed /\ PickOrSend
  BY <1>4 DEF Init, KeysOK, Armed, PickOrSend
<1> QED
  BY <1>1, <1>3, <1>5 DEF ComposerInv

LEMMA ComposerStep == ComposerInv /\ [Next]_composerVars => ComposerInv'
<1> SUFFICES ASSUME ComposerInv, [Next]_composerVars PROVE ComposerInv'
  OBVIOUS
<1>0. Len(text) \in Nat
  BY LenProperties DEF ComposerInv, TextOK
<1>1. ASSUME NEW c \in {"@", ":"} \cup Letters, Type(c) PROVE ComposerInv'
  BY <1>1, TypeKeeps
<1>2. CASE Backspace
  BY <1>2, BackspaceKeeps
<1>3. CASE Escape
  BY <1>3, QuietKeeps DEF Escape, OtherKey, search
<1>4. CASE Arrow(1) \/ Arrow(-1)
  BY <1>4, ArrowKeeps
<1>5. ASSUME NEW s \in 0 .. Len(text), MoveCursor(s, s) PROVE ComposerInv'
  BY <1>5, MoveCursorKeeps
<1>6. ASSUME NEW s \in 0 .. Len(text), ClickOutside(s) PROVE ComposerInv'
  BY <1>6, ClickOutsideKeeps
<1>7. CASE MoveCursor(0, Len(text))
  BY <1>0, <1>7, MoveCursorKeeps
<1>8. CASE TimerFires \/ AnswerFails
  BY <1>8, TimerKeeps, AnswerFailsKeeps
<1>9. CASE EmojisLoaded
  BY <1>9, QuietKeeps DEF EmojisLoaded, field, menu, keys
<1>10. ASSUME NEW n \in 0 .. MaxProfiles, Answer(n) PROVE ComposerInv'
  BY <1>10, AnswerKeeps
<1>11. ASSUME NEW i \in DOMAIN results, ClickResult(i) PROVE ComposerInv'
  BY <1>11, ClickResultKeeps
<1>12. ASSUME NEW p \in BOOLEAN, EnterDown(p) PROVE ComposerInv'
  BY <1>12, EnterDownKeeps
<1>13. ASSUME NEW p \in BOOLEAN, EnterUp(p) PROVE ComposerInv'
  BY <1>13, EnterUpKeeps
<1>14. CASE EnterElsewhere
  BY <1>14, QuietKeeps DEF EnterElsewhere, field, search, menu
<1>15. CASE Blur
  BY <1>15, QuietKeeps DEF Blur, search, menu
<1>16. CASE Focus
  BY <1>16, QuietKeeps DEF Focus, search, menu, keys
<1>17. CASE insertMediaSyntax \/ insertExternalLink \/ EmojiClick
  BY <1>17, DialogsKeep
<1>18. CASE ShoutSent
  BY <1>18, ShoutSentKeeps
<1>19. CASE UNCHANGED composerVars
  BY <1>19, QuietKeeps DEF composerVars, field, search, menu, keys
<1> QED
  BY <1>1, <1>2, <1>3, <1>4, <1>5, <1>6, <1>7, <1>8, <1>9, <1>10, <1>11, <1>12, <1>13,
     <1>14, <1>15, <1>16, <1>17, <1>18, <1>19 DEF Next

\* For any text and any interleaving with timers, answers and dialogs: a press of Enter
\* that picked a suggestion, was not plain or lost the focus never sends, however long
\* the key is held (handleSendKeydown, handleSendKeyup, resetSendEligibility).
THEOREM EnterSendsOrPicks == Spec => []PickOrSend
<1>1. ComposerInv => PickOrSend
  BY DEF ComposerInv
<1> QED
  BY <1>1, ComposerInitial, ComposerStep, PTL DEF Spec

\* For any emojis, whatever fuzzyMatch makes of them: the selection is on a result, and
\* the emojis shown once the timer has fired are those of the query in the text.
THEOREM MenuIsCurrent == Spec => []MenuCurrent
<1>1. ComposerInv => MenuCurrent
  BY DEF ComposerInv, MenuCurrent, EmojisFollow, EmojisAreCurrent
<1> QED
  BY <1>1, ComposerInitial, ComposerStep, PTL DEF Spec

\* A choice takes the place of exactly what handleInput matched: lastIndexOf in
\* selectResult finds the trigger in front of the word, however many are before it.
THEOREM ChoiceIsExact == Spec => ChoiceReplacesTrigger
<1> DEFINE before == SubSeq(text, 1, sel[1])
<1>1. ComposerInv => ChoiceStep
  <2> SUFFICES ASSUME ComposerInv, inserts' # inserts, autocompleteType # "none",
                      \/ \E i \in DOMAIN results : ClickResult(i)
                      \/ \E p \in BOOLEAN : EnterDown(p),
                      Trigger(before) = autocompleteType
               PROVE  \E r \in Range(results) :
                        text' = SubSeq(before, 1, Len(before) - Len(Run(before)) - 1)
                                  \o InsertText(autocompleteType, r)
                                  \o SubSeq(text, sel[1] + 1, Len(text))
    BY DEF ChoiceStep
  <2>1. PICK r \in Range(results) : selectResult(r)
    <3>1. ASSUME NEW i \in DOMAIN results, ClickResult(i)
          PROVE  \E r \in Range(results) : selectResult(r)
      BY <3>1 DEF ClickResult, Range
    <3>2. ASSUME NEW p \in BOOLEAN, EnterDown(p)
          PROVE  \E r \in Range(results) : selectResult(r)
      <4>1. results # << >> /\ selectResult(results[selectedIndex])
        BY <3>2 DEF EnterDown
      <4> QED
        BY <4>1 DEF ComposerInv, SelectionInRange, Range
    <3> QED
      BY <3>1, <3>2
  <2>2. before \in Seq(Token)
    BY TextParts DEF ComposerInv, TextOK
  <2>3. TriggerPos(before, autocompleteType) = Len(before) - Len(Run(before))
    BY <2>2, TriggerFound
  <2> QED
    BY <2>1, <2>3 DEF selectResult
<1> QED
  BY <1>1, ComposerInitial, ComposerStep, PTL DEF Spec, ChoiceReplacesTrigger
=============================================================================
