------------------------- MODULE TimelineNavigation -------------------------
(***************************************************************************)
(* Keyboard navigation over the posts of a page (app.js): the selected item, *)
(* its mark in the document and its address in the history entry, by which   *)
(* the selection is found again when the reader comes back.  Items come and  *)
(* go with the answers of the server; which of them are in view is not       *)
(* modelled: any set may be.                                                 *)
(***************************************************************************)
EXTENDS Naturals, FiniteSets, FiniteSetsExt

CONSTANTS
  Items,            \* navigable items, numbered in document order
  Parents,          \* those that are parent posts, folded at first
  Href              \* the address of the post in an item

ASSUME ItemsAssumption ==
  /\ Items # {} /\ Max(Items) \in Nat /\ Items \subseteq 1 .. Max(Items)
  /\ Parents \subseteq Items /\ Items \subseteq DOMAIN Href

VARIABLES
  items,            \* in the document now
  selectedEl,       \* 0: none; Gone: it has left the document
  marked,           \* items with the class -keyboard-selected
  expanded,         \* parent posts that are unfolded
  selectedHref      \* history.state.selectedHref, 0: null

Gone == Max(Items) + 1

navVars == <<items, selectedEl, marked, expanded, selectedHref>>

NavInit ==
  /\ items = Items /\ selectedEl = 0 /\ marked = {} /\ expanded = {} /\ selectedHref = 0

\* clearSelection(), which saves only when there was a selection
ClearSelection ==
  /\ selectedEl' = 0
  /\ marked' = marked \ {selectedEl}
  /\ selectedHref' = IF selectedEl # 0 THEN 0 ELSE selectedHref
  /\ UNCHANGED <<items, expanded>>

\* MUTANT: the mark of the old selection stays.
SelectItem_Keep(el) ==
  /\ selectedEl' = el
  /\ marked' = marked \cup {el}
  /\ expanded' = expanded \cup ({el} \cap Parents)
  /\ selectedHref' = Href[el]
  /\ UNCHANGED items

\* selectItem(idx), for the item at the index: the old selection is cleared.
SelectItem(el) ==
  /\ selectedEl' = el
  /\ marked' = (marked \ {selectedEl}) \cup {el}
  /\ expanded' = expanded \cup ({el} \cap Parents)
  /\ selectedHref' = Href[el]
  /\ UNCHANGED items

\* selectedIndex() >= 0: what left the document is no longer the selection.
Selected == selectedEl \in items

\* The item j and k go to when those of view can be seen: the next one, with the
\* index kept in range, or the first and last that can be seen, if any.
Goal(down, view) ==
  LET seen == IF view = {} THEN items ELSE view
      after == {i \in items : IF down THEN i > selectedEl ELSE i < selectedEl}
  IN IF selectedEl \in view
     THEN IF after = {} THEN selectedEl ELSE IF down THEN Min(after) ELSE Max(after)
     ELSE IF down THEN Min(seen) ELSE Max(seen)

\* j, k and the arrows
Move(down, view) == items # {} /\ view \subseteq items /\ SelectItem(Goal(down, view))

\* Any other key that looks at the selection first forgets one that is gone.
Look ==
  /\ items # {}
  /\ selectedEl' = IF Selected THEN selectedEl ELSE 0
  /\ UNCHANGED <<items, marked, expanded, selectedHref>>

\* The server's answers take items out of the document and put new ones in.
ItemsChange(here) ==
  /\ here # items /\ items' = here
  /\ marked' = marked \cap here /\ expanded' = expanded \cap here
  /\ selectedEl' = IF selectedEl \in items \ here THEN Gone ELSE selectedEl
  /\ UNCHANGED selectedHref

\* The items a page finds in its history entry when it is loaded.
Restored(here) == {i \in here : selectedHref # 0 /\ Href[i] = selectedHref}

\* The page is loaded again, by Back: the first such item is selected.
LoadPage(here) ==
  /\ items' = here
  /\ LET found == Restored(here) IN
     /\ selectedEl' = IF found = {} THEN 0 ELSE Min(found)
     /\ marked' = {selectedEl'} \ {0}
     /\ expanded' = marked' \cap Parents
     /\ UNCHANGED selectedHref

-----------------------------------------------------------------------------
(* Properties *)

\* The item the keys act on is the one that is marked, unfolded and remembered in the
\* history entry; whatever came and went, no other item is marked.
SelectionConsistent ==
  /\ marked = {selectedEl} \cap items
  /\ selectedEl \in items => selectedHref = Href[selectedEl]
  /\ {selectedEl} \cap items \cap Parents \subseteq expanded
=============================================================================
