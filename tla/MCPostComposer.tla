--------------------------- MODULE MCPostComposer ---------------------------
(* Two emojis that change places, or of which one goes, as the query grows. *)
EXTENDS PostComposer
MCEmojis == << {<<"a", "a", "a">>}, {<<"a", "_", "a">>, <<"b">>} >>
=============================================================================
