----------------------------- MODULE EmojiSearch -----------------------------
(***************************************************************************)
(* Searching the emoji store (emoji-picker-element/database.js): every word  *)
(* of the query is looked up in an index of tokens, the last one as a        *)
(* prefix; the answers are intersected, sorted and made unique.  A token is  *)
(* a sequence of letters; an emoji has a unicode, a group, an order and a    *)
(* set of tokens.                                                            *)
(***************************************************************************)
EXTENDS Naturals, Sequences, SequencesExt, FiniteSets

MIN_SEARCH_TEXT_LENGTH == 2

\* normalizeTokens(str), for words that are lower case already
normalizeTokens(words) == SelectSeq(words, LAMBDA w : Len(w) >= MIN_SEARCH_TEXT_LENGTH)

\* transformEmojiData(emojiData): the tokens of an emoji are its usable words.
transformEmojiData(data) ==
  {[e EXCEPT !.tokens = {w \in @ : Len(w) >= MIN_SEARCH_TEXT_LENGTH}] : e \in data}

\* uniqEmoji(emojis): the first of each
uniqEmoji(emojis) ==
  FoldLeft(LAMBDA seen, e : IF \E x \in Range(seen) : x.unicode = e.unicode THEN seen
                            ELSE Append(seen, e), << >>, emojis)

\* getAll on the index of tokens: an entry for each token in the range, so that an
\* emoji may come more than once; the order is settled later.
Lookup(store, word, prefix) ==
  LET Hit(t) == IF prefix THEN IsPrefix(word, t) ELSE t = word
      entries == SetToSeq(UNION {{<<e, t>> : t \in {u \in e.tokens : Hit(u)}} : e \in store})
  IN [i \in DOMAIN entries |-> entries[i][1]]

\* MUTANT: the shortest answer is not compared with the others.
findCommonMembers_First(arrays) ==
  LET n == CHOOSE i \in DOMAIN arrays : \A j \in DOMAIN arrays : Len(arrays[i]) <= Len(arrays[j])
  IN arrays[n]

\* findCommonMembers(arrays, uniqByFunc): members of the shortest that are in all
findCommonMembers(arrays) ==
  LET n == CHOOSE i \in DOMAIN arrays : \A j \in DOMAIN arrays : Len(arrays[i]) <= Len(arrays[j])
  IN SelectSeq(arrays[n], LAMBDA e :
       \A a \in Range(arrays) : \E x \in Range(a) : x.unicode = e.unicode)

\* getEmojiBySearchQuery(query), of the store and of the class
getEmojiBySearchQuery(store, words) ==
  LET tokens == normalizeTokens(words)
      answers == [i \in DOMAIN tokens |-> Lookup(store, tokens[i], i = Len(tokens))]
  IN IF tokens = << >> THEN << >>
     ELSE uniqEmoji(SortSeq(findCommonMembers(answers), LAMBDA x, y : x.order < y.order))

\* getEmojiByGroup(group)
getEmojiByGroup(store, group) == {e \in store : e.group = group}
=============================================================================
