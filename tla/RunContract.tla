----------------------------- MODULE RunContract -----------------------------
(***************************************************************************)
(* What a run directory promises to the report that reads it: items get    *)
(* their rows one after another; the verdict "completed" is given once all *)
(* have them, and nothing is added behind it.  Behind "interrupted" the    *)
(* threads that were still busy may add rows.                              *)
(***************************************************************************)
CONSTANT Item

VARIABLES verdict, finished
vars == <<verdict, finished>>

TypeOK ==
    /\ verdict \in {"started", "completed", "interrupted"}
    /\ finished \subseteq Item

Init == verdict = "started" /\ finished = {}

FinishItem(i) ==
    /\ verdict # "completed"
    /\ i \notin finished
    /\ finished' = finished \cup {i}
    /\ UNCHANGED verdict

Complete ==
    /\ verdict = "started"
    /\ finished = Item
    /\ verdict' = "completed"
    /\ UNCHANGED finished

GiveUp ==
    /\ verdict = "started"
    /\ verdict' = "interrupted"
    /\ UNCHANGED finished

Next == Complete \/ GiveUp \/ \E i \in Item : FinishItem(i)

Spec == Init /\ [][Next]_vars
=============================================================================
