--------------------------- MODULE ManagerContract ---------------------------
(***************************************************************************)
(* What a BrowserManager promises to the run that uses it: it answers for  *)
(* a set of engine processes, it may start some while it is not closed,    *)
(* and once close_all has returned it answers for none, for ever.  It may  *)
(* forget a process it has just started, and then never answers for it     *)
(* again: a launch that raised at the wrong moment.                        *)
(***************************************************************************)
CONSTANT Proc

VARIABLES phase, owned, forgotten
vars == <<phase, owned, forgotten>>

TypeOK == phase \in {"open", "closing", "closed"} /\ owned \subseteq Proc /\ forgotten \subseteq Proc

Init == phase = "open" /\ owned = {} /\ forgotten = {}

\* A launch that took the lock before close_all did may still start its process.
Start(p) ==
    /\ phase # "closed"
    /\ p \notin owned \cup forgotten
    /\ owned' = owned \cup {p}
    /\ UNCHANGED <<phase, forgotten>>

\* A process died, or was signalled and let go.
Release(p) ==
    /\ p \in owned
    /\ owned' = owned \ {p}
    /\ UNCHANGED <<phase, forgotten>>

\* A process is started and no caller gets it.
Forget(p) ==
    /\ phase # "closed"
    /\ p \in owned
    /\ owned' = owned \ {p}
    /\ forgotten' = forgotten \cup {p}
    /\ UNCHANGED phase

BeginClose == phase = "open" /\ phase' = "closing" /\ UNCHANGED <<owned, forgotten>>

EndClose ==
    /\ phase = "closing"
    /\ owned = {}
    /\ phase' = "closed"
    /\ UNCHANGED <<owned, forgotten>>

Next ==
    \/ \E p \in Proc : Start(p) \/ Release(p) \/ Forget(p)
    \/ BeginClose
    \/ EndClose

Spec == Init /\ [][Next]_vars
=============================================================================
