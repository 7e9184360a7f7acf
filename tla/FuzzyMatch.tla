----------------------------- MODULE FuzzyMatch -----------------------------
(***************************************************************************)
(* fuzzyMatch of app.js and the ranking searchEmojis builds on it.  Texts    *)
(* are sequences of lower-case characters; scores are in tenths of a point.  *)
(***************************************************************************)
EXTENDS Integers, Sequences, SequencesExt, FiniteSets, FiniteSetsExt

Boundary == {"_", "-", " "}

\* What the loop adds for a match at text[i] when the match before it was at prev.
MatchPoints(text, i, prev) ==
  10 + (IF i = prev + 1 THEN 20 ELSE 0)
     + (IF i = 1 \/ (i > 1 /\ text[i - 1] \in Boundary) THEN 30 ELSE 0)

\* fuzzyMatch(query, text): the first match of each character in turn, 0 for none.
fuzzyMatch(query, text) ==
  LET Step(a, i) ==
        IF a.qi < Len(query) /\ text[i] = query[a.qi + 1]
        THEN [qi |-> a.qi + 1, score |-> a.score + MatchPoints(text, i, a.prev), prev |-> i]
        ELSE a
      end == FoldLeftDomain(Step, [qi |-> 0, score |-> 0, prev |-> -1], text)
  IN IF end.qi < Len(query) THEN 0 ELSE end.score - Len(text)

\* The score of an emoji: the best of its shortcodes and its annotation.
Score(query, names) == Max({0} \cup {fuzzyMatch(query, n) : n \in names})

Scoring(query, emojis) == {i \in DOMAIN emojis : Score(query, emojis[i]) > 0}

\* The indices of the emojis that score, best first.
Best(query, emojis) ==
  LET Before(i, j) == \/ Score(query, emojis[i]) > Score(query, emojis[j])
                      \/ Score(query, emojis[i]) = Score(query, emojis[j]) /\ i < j
  IN SetToSortSeq(Scoring(query, emojis), Before)

\* searchEmojis: at most limit of them.
Ranking(query, emojis, limit) ==
  SubSeq(Best(query, emojis), 1, Min({limit, Cardinality(Scoring(query, emojis))}))
=============================================================================
