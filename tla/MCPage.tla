------------------------------- MODULE MCPage -------------------------------
(* Two posts, the first of them a parent post; two persona tags, and a tag that can *)
(* be typed in with a quote behind it, which the parser drops.                      *)
EXTENDS Page
MCHref == <<1, 2>>
MCTags == <<"work", "fun">>
MCParsed == [t \in Typed |-> IF t = "new_quote" THEN "new" ELSE t]
=============================================================================
