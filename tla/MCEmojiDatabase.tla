--------------------------- MODULE MCEmojiDatabase ---------------------------
(* A composer and a picker, and an update of the emoji data. *)
EXTENDS EmojiDatabase

MCTabs == {1}
MCPickerTab == 1

Emoji(u, g, n, ts) == [unicode |-> u, group |-> g, order |-> n, tokens |-> ts]
ca == <<"c", "a">>
cat == <<"c", "a", "t">>
cap == <<"c", "a", "p">>
MCData ==
  << {Emoji("grin", 1, 1, {cat, cap, <<"o">>}), Emoji("cat", 2, 3, {cat}), Emoji("cap", 2, 2, {cap, ca})},
     {Emoji("grin", 1, 1, {cat, cap}), Emoji("cat", 2, 3, {cat}), Emoji("cap", 2, 2, {cap, ca}),
      Emoji("bat", 1, 4, {<<"b", "a", "t">>, cat})} >>
MCQueries == {<<ca>>, <<cat, ca>>, <<cap, cat>>, << <<"o">> >>, <<cat, <<"o">>>>}
=============================================================================
