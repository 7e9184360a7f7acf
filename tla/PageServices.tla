---------------------------- MODULE PageServices ----------------------------
(***************************************************************************)
(* What runs on a page next to its posts: attaching media with the           *)
(* notifications it leads to (MediaUpload), and the badges that follow the   *)
(* server (LiveUpdates).  The two share no state, so a behaviour uses one of *)
(* them and the other rests.                                                 *)
(***************************************************************************)
EXTENDS MediaUpload, LiveUpdates

VARIABLE service      \* "media" or "live"

attaching == <<mediaVars, noteVars>>
serviceVars == <<service, attaching, liveVars>>

Init == /\ service \in {"media", "live"}
        /\ MediaInit /\ NotesInit /\ LiveInit
        /\ service = "media" => ~ onShoutbox /\ badges = Zero

Next == /\ UNCHANGED service
        /\ \/ service = "media" /\ MediaNext /\ UNCHANGED liveVars
           \/ service = "live" /\ LiveNext /\ UNCHANGED attaching

Spec == Init /\ [][Next]_serviceVars /\ MediaFairness /\ LiveFairness
=============================================================================
