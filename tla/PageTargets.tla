------------------------------ MODULE PageTargets ------------------------------
(* The pages an attempt leaves in an engine and the agent-browser daemons it  *)
(* leaves on the host (run.py).  Around a driver that may be killed at any    *)
(* time the runner looks at the page targets of the engine, closes what is    *)
(* new, looks again, and writes down what it could not confirm; around a      *)
(* driver that uses agent-browser it also closes the daemon of the attempt    *)
(* and removes the daemon's files.  A raw-CDP driver closes its own page.     *)
(*                                                                            *)
(* Each lane has an engine that it keeps from one attempt to the next; all    *)
(* lanes share the directory of the daemons.  Pages open pages on their own,  *)
(* a page that is being closed is still listed for a while, looks and         *)
(* commands fail, and a daemon comes up late, or outlives its driver until    *)
(* its idle fuse ends it.                                                     *)
EXTENDS Integers, Sequences, FiniteSets

CONSTANTS Lane,
          Plans,          \* what the lanes may have to do: the attempts of each,
                          \* in order, and a bound on the pages of its engine
          MaxFaults,      \* bound: looks, connections and commands that fail
          None            \* no snapshot

ASSUME WorkAssumption ==
    \A p \in Plans, l \in Lane :
        /\ p.work[l] \in Seq([task : STRING, engine : STRING, attempt : Nat,
                              kind : {"raw_cdp", "framework", "probe", "agent_browser"}])
        /\ p.pages[l] \in Nat

ASSUME FaultsAssumption == MaxFaults \in Nat

\* An engine gets each attempt at a task once, whatever lane it is in.
ASSUME OnceAssumption ==
    \A p \in Plans, l, k \in Lane :
        \A i \in DOMAIN p.work[l], j \in DOMAIN p.work[k] :
            /\ p.work[l][i].task = p.work[k][j].task
            /\ p.work[l][i].engine = p.work[k][j].engine
            /\ p.work[l][i].attempt = p.work[k][j].attempt
            => l = k /\ i = j

VARIABLES plan,         \* one of Plans
          pc,           \* where the attempt of a lane is
          at,           \* which attempt of its work that is
          live,         \* the pages of the engine of a lane
          closing,      \* those that are on their way out but still listed
          opened,       \* pages opened so far; a page is named by its number
          before,       \* the page targets before the driver
          todo,         \* page targets still to be closed
          errors,       \* the errors of the diagnostic
          owned,        \* the page a raw-CDP driver closes
          daemon,       \* the agent-browser daemon of every attempt
          files,        \* its files
          faults,
          seen          \* ghost: what was there when the driver began, what the
                        \* runner asked to close, and the pages opened by the
                        \* time of the last look

vars == <<plan, pc, at, live, closing, opened, before, todo, errors, owned, daemon,
          files, faults, seen>>
pages == <<live, closing, opened>>
daemons == <<daemon, files>>

Work == plan.work
MaxPages == plan.pages
Attempt == UNION {{<<l, i>> : i \in DOMAIN Work[l]} : l \in Lane}
JobOf(a) == Work[a[1]][a[2]]
Current(l) == <<l, at[l]>>
Kind(l) == JobOf(Current(l)).kind
Listed(l) == live[l] \cup closing[l]

\* configure_agent_browser_attempt_env: one namespace for one attempt at a task,
\* a digest of the run, the task, the engine, the attempt and the seed, of which
\* the run and the seed are the same for all.  Mutant: a digest of the task.
NamespaceOfTask(a) == JobOf(a).task
Namespace(a) == <<JobOf(a).task, JobOf(a).engine, JobOf(a).attempt>>
Shares(a) == {b \in Attempt : Namespace(b) = Namespace(a)}

Init ==
    /\ plan \in Plans
    /\ pc = [l \in Lane |-> "idle"]
    /\ at = [l \in Lane |-> 0]
    /\ live = [l \in Lane |-> {0}]
    /\ closing = [l \in Lane |-> {}]
    /\ opened = [l \in Lane |-> 0]
    /\ before = [l \in Lane |-> None]
    /\ todo = [l \in Lane |-> {}]
    /\ errors = [l \in Lane |-> {}]
    /\ owned = [l \in Lane |-> {}]
    /\ daemon = [a \in Attempt |-> "none"]
    /\ files = [a \in Attempt |-> {}]
    /\ faults = 0
    /\ seen = [l \in Lane |-> [start |-> {0}, asked |-> {}, upto |-> 0, struck |-> {}]]

Fault == faults < MaxFaults /\ faults' = faults + 1
NoFault == UNCHANGED faults
Goto(l, where) == pc' = [pc EXCEPT ![l] = where]
Report(l, what) == errors' = [errors EXCEPT ![l] = @ \cup what]
-----------------------------------------------------------------------------
(* The engine and the daemons.                                                *)

\* A page opens: the driver's, the daemon's, or one a page of theirs opened.
OpenPage(l) ==
    /\ opened[l] < MaxPages[l]
    /\ \/ pc[l] \in {"driver", "raw"}
       \/ live[l] # {0} /\ live[l] # {}
       \/ \E a \in Attempt : a[1] = l /\ daemon[a] = "live"
    /\ opened' = [opened EXCEPT ![l] = @ + 1]
    /\ live' = [live EXCEPT ![l] = @ \cup {opened[l] + 1}]
    /\ UNCHANGED <<pc, at, closing, before, todo, errors, owned, daemons, faults, seen>>

\* The driver closes a page, or a page closes itself.
ClosePage(l) ==
    /\ pc[l] \in {"driver", "raw"}
    /\ \E p \in live[l] :
          /\ live' = [live EXCEPT ![l] = @ \ {p}]
          /\ closing' = [closing EXCEPT ![l] = @ \cup {p}]
    /\ UNCHANGED <<pc, at, opened, before, todo, errors, owned, daemons, faults, seen>>

Vanish(l) ==
    /\ \E p \in closing[l] : closing' = [closing EXCEPT ![l] = @ \ {p}]
    /\ UNCHANGED <<pc, at, live, opened, before, todo, errors, owned, daemons, faults, seen>>

SetDaemon(a, from, to, left) ==
    /\ daemon[a] = from
    /\ daemon' = [daemon EXCEPT ![a] = to]
    /\ files' = [files EXCEPT ![a] = left]
    /\ UNCHANGED <<pc, at, pages, before, todo, errors, owned, faults, seen>>

\* The driver spawns the daemon, which has its socket and pid file a while later.
SpawnDaemon(a) ==
    /\ Current(a[1]) = a /\ pc[a[1]] = "driver" /\ Kind(a[1]) = "agent_browser"
    /\ SetDaemon(a, "none", "starting", {})
DaemonUp(a) == SetDaemon(a, "starting", "live", {"socket", "pid"})
\* After a close the daemon leaves its configuration behind.
DaemonCloses(a) == SetDaemon(a, "closing", "gone", {"config"})
\* The idle fuse.
DaemonGoes(a) ==
    /\ a \notin {Current(l) : l \in {k \in Lane : pc[k] = "driver"}}
    /\ \/ SetDaemon(a, "starting", "gone", {})
       \/ SetDaemon(a, "live", "gone", {"config"})

World ==
    \/ \E l \in Lane : OpenPage(l) \/ ClosePage(l) \/ Vanish(l)
    \/ \E a \in Attempt : SpawnDaemon(a) \/ DaemonUp(a) \/ DaemonCloses(a) \/ DaemonGoes(a)
-----------------------------------------------------------------------------
(* The attempt: the look before, the driver, the daemon.                      *)

Begin(l) ==
    /\ pc[l] = "idle" /\ at[l] < Len(Work[l])
    /\ at' = [at EXCEPT ![l] = @ + 1]
    /\ Goto(l, IF Work[l][at[l] + 1].kind = "raw_cdp" THEN "open" ELSE "before")
    /\ before' = [before EXCEPT ![l] = None]
    /\ errors' = [errors EXCEPT ![l] = {}]
    /\ seen' = [seen EXCEPT ![l].asked = {}]
    /\ UNCHANGED <<pages, todo, owned, daemons, faults>>

\* browser_page_target_ids has three tries; a look fails when all of them do.
\* Mutant: a snapshot that failed is taken for an empty one.
LookBeforeOrEmpty(l) ==
    /\ pc[l] = "before"
    /\ Goto(l, "driver")
    /\ seen' = [seen EXCEPT ![l].start = Listed(l)]
    /\ \/ before' = [before EXCEPT ![l] = Listed(l)] /\ NoFault /\ UNCHANGED errors
       \/ before' = [before EXCEPT ![l] = {}] /\ Fault /\ Report(l, {"before"})
    /\ UNCHANGED <<at, pages, todo, owned, daemons>>

LookBefore(l) ==
    /\ pc[l] = "before"
    /\ Goto(l, "driver")
    /\ seen' = [seen EXCEPT ![l].start = Listed(l)]
    /\ \/ before' = [before EXCEPT ![l] = Listed(l)] /\ NoFault /\ UNCHANGED errors
       \/ before' = before /\ Fault /\ Report(l, {"before"})
    /\ UNCHANGED <<at, pages, todo, owned, daemons>>

\* The driver returns, fails, or is killed at its deadline.
DriverEnds(l) ==
    /\ pc[l] = "driver"
    /\ Goto(l, CASE Kind(l) = "agent_browser" -> "force_close"
                 [] Kind(l) = "probe" -> "remove"
                 [] OTHER -> "after")
    /\ UNCHANGED <<at, pages, before, todo, errors, owned, daemons, faults, seen>>

\* agent-browser close --all reaches the daemons of the namespace that listen;
\* or it is not there, or is cut off after eight seconds.
ForceClose(l) ==
    LET a == Current(l)
        reached == {b \in Shares(a) : daemon[b] = "live"}
    IN
    /\ pc[l] = "force_close"
    /\ Goto(l, "remove")
    /\ \/ /\ daemon' = [b \in Attempt |-> IF b \in reached THEN "closing" ELSE daemon[b]]
          /\ seen' = [seen EXCEPT ![l].struck = @ \cup (reached \ {a})]
          /\ NoFault
       \/ UNCHANGED <<daemon, seen>> /\ Fault
    /\ UNCHANGED <<at, pages, before, todo, errors, owned, files>>

\* The files go when nothing but configurations is left of them.
FilesOf(a) == UNION {files[b] : b \in Shares(a)}
Disposable(a) == FilesOf(a) \subseteq {"config"}

RemoveState(l) ==
    /\ pc[l] = "remove" /\ Disposable(Current(l))
    /\ Goto(l, "after")
    /\ files' = [b \in Attempt |-> IF b \in Shares(Current(l)) THEN {} ELSE files[b]]
    /\ UNCHANGED <<at, pages, before, todo, errors, owned, daemon, faults, seen>>

\* A socket, a pid file or an unlink that failed until the deadline.
RemoveGivesUp(l) ==
    /\ pc[l] = "remove" /\ ~Disposable(Current(l))
    /\ Goto(l, "after")
    /\ UNCHANGED <<at, pages, before, todo, errors, owned, daemons, faults, seen>>
-----------------------------------------------------------------------------
(* cleanup_new_page_targets.                                                  *)

\* What is listed now and was not before the driver.
New(l) == Listed(l) \ before[l]

\* A look; or one that fails and ends the cleanup with an error.
Look(l, from) ==
    /\ pc[l] = from
    /\ seen' = [seen EXCEPT ![l].upto = opened[l]]
    /\ UNCHANGED <<at, pages, before, owned, daemons>>

LookFails(l, from, error) ==
    /\ pc[l] = from
    /\ Fault /\ Report(l, {error}) /\ Goto(l, "idle")
    /\ UNCHANGED <<at, pages, before, todo, owned, daemons, seen>>

\* One connection for all that is to be closed, or an error for all of it.
Connect(l, targets, to, without) ==
    \/ /\ todo' = [todo EXCEPT ![l] = targets] /\ Goto(l, to)
       /\ NoFault /\ UNCHANGED errors
    \/ /\ Fault /\ Report(l, {to}) /\ Goto(l, without)
       /\ UNCHANGED todo

\* Without a look before the driver there is nothing to compare with.
LookAfter(l) ==
    \/ /\ before[l] # None
       /\ \/ Look(l, "after") /\ Connect(l, New(l), "close", "final")
          \/ LookFails(l, "after", "after")
    \/ /\ pc[l] = "after" /\ before[l] = None
       /\ Report(l, {"before"}) /\ Goto(l, "idle")
       /\ UNCHANGED <<at, pages, before, todo, owned, daemons, faults, seen>>

\* Target.closeTarget, one page after the other.  A page that is gone is an
\* error; so is a refusal, or a socket that fails.
CloseTarget(l, from) ==
    /\ pc[l] = from
    /\ \E p \in todo[l] :
          /\ \A q \in todo[l] : p <= q
          /\ todo' = [todo EXCEPT ![l] = @ \ {p}]
          /\ seen' = [seen EXCEPT ![l].asked = @ \cup {p}]
          /\ \/ /\ p \in Listed(l)
                /\ live' = [live EXCEPT ![l] = @ \ {p}]
                /\ closing' = [closing EXCEPT ![l] = @ \cup {p}]
                /\ NoFault /\ UNCHANGED errors
             \/ /\ IF p \in Listed(l) THEN Fault ELSE NoFault
                /\ Report(l, {from})
                /\ UNCHANGED <<live, closing>>
    /\ UNCHANGED <<pc, at, opened, before, owned, daemons>>

ClosesEnd(l, from, to) ==
    /\ pc[l] = from /\ todo[l] = {}
    /\ Goto(l, to)
    /\ UNCHANGED <<at, pages, before, todo, errors, owned, daemons, faults, seen>>

CloseNew(l) == CloseTarget(l, "close") \/ ClosesEnd(l, "close", "final")
Retry(l) == CloseTarget(l, "retry") \/ ClosesEnd(l, "retry", "confirm")

\* Mutant: what was acknowledged is not looked for again.
LookFinalOnce(l) ==
    \/ /\ Look(l, "final")
       /\ Goto(l, IF New(l) \subseteq seen[l].asked THEN "idle" ELSE "again")
       /\ UNCHANGED <<todo, errors, faults>>
    \/ LookFails(l, "final", "final")

\* An acknowledgement can come before the page is gone: a second look, then a
\* second round over a connection of its own, and a last look.
LookFinal(l) ==
    \/ /\ Look(l, "final")
       /\ Goto(l, IF New(l) = {} THEN "idle" ELSE "again")
       /\ UNCHANGED <<todo, errors, faults>>
    \/ LookFails(l, "final", "final")

LookAgain(l) ==
    \/ /\ Look(l, "again")
       /\ \/ New(l) # {} /\ Connect(l, New(l), "retry", "confirm")
          \/ New(l) = {} /\ Goto(l, "idle") /\ UNCHANGED <<todo, errors, faults>>
    \/ LookFails(l, "again", "final")

\* The diagnostic is written, or not: neither changes the result of the attempt.
LookConfirm(l) ==
    \/ /\ Look(l, "confirm")
       /\ Report(l, {e \in {"remaining"} : New(l) # {}})
       /\ Goto(l, "idle")
       /\ UNCHANGED <<todo, faults>>
    \/ LookFails(l, "confirm", "final")
-----------------------------------------------------------------------------
(* The raw-CDP driver opens and closes its own page.                          *)

\* open_page_session: a target that is created and attached; when either fails,
\* a page of /json/new, or a page that was there, which nobody closes.
OpenPageSession(l) ==
    LET p == opened[l] + 1 IN
    /\ pc[l] = "open"
    /\ Goto(l, "raw")
    /\ \E created, attached, flat \in BOOLEAN :
          LET new == Cardinality({x \in {1, 2} : IF x = 1 THEN created ELSE flat}) IN
          /\ attached => created
          /\ flat => ~attached
          /\ IF attached THEN NoFault ELSE Fault
          /\ opened[l] + new <= MaxPages[l]
          /\ opened' = [opened EXCEPT ![l] = @ + new]
          /\ live' = [live EXCEPT ![l] = @ \cup (p .. opened[l] + new)]
          /\ owned' = [owned EXCEPT ![l] = {q \in {p} : attached}]
    /\ UNCHANGED <<at, closing, before, todo, errors, daemons, seen>>

\* The close of run_raw_cdp's finally: its failure is not reported.
RawEnds(l) ==
    /\ pc[l] = "raw"
    /\ Goto(l, "idle")
    /\ \/ /\ live' = [live EXCEPT ![l] = @ \ owned[l]]
          /\ closing' = [closing EXCEPT ![l] = @ \cup (owned[l] \cap live[l])]
          /\ NoFault
       \/ owned[l] # {} /\ Fault /\ UNCHANGED <<live, closing>>
    /\ owned' = [owned EXCEPT ![l] = {}]
    /\ UNCHANGED <<at, opened, before, todo, errors, daemons, seen>>
-----------------------------------------------------------------------------
Runner(l) ==
    \/ Begin(l) \/ LookBefore(l) \/ DriverEnds(l)
    \/ ForceClose(l) \/ RemoveState(l) \/ RemoveGivesUp(l)
    \/ LookAfter(l) \/ CloseNew(l) \/ LookFinal(l) \/ LookAgain(l)
    \/ Retry(l) \/ LookConfirm(l)
    \/ OpenPageSession(l) \/ RawEnds(l)

Next ==
    /\ World \/ \E l \in Lane : Runner(l)
    /\ UNCHANGED plan

Spec == Init /\ [][Next]_vars
-----------------------------------------------------------------------------
TypeOK ==
    /\ plan \in Plans
    /\ pc \in [Lane -> {"idle", "before", "driver", "force_close", "remove", "after",
                        "close", "final", "again", "retry", "confirm", "open", "raw"}]
    /\ faults \in 0 .. MaxFaults
    /\ \A l \in Lane :
          /\ at[l] \in 0 .. Len(Work[l]) /\ opened[l] \in 0 .. MaxPages[l]
          /\ live[l] \cap closing[l] = {}
          /\ live[l] \cup closing[l] \cup todo[l] \cup owned[l] \subseteq 0 .. opened[l]
          /\ before[l] = None \/ before[l] \subseteq 0 .. opened[l]
          /\ errors[l] \subseteq {"before", "after", "close", "final", "retry", "remaining"}
    /\ \A a \in Attempt :
          /\ daemon[a] \in {"none", "starting", "live", "closing", "gone"}
          /\ files[a] \subseteq {"socket", "pid", "config"}

\* The cleanup never closes a page that was there before its driver began, be it
\* a page an earlier attempt left, and be the first look one that failed
\* (cleanup_new_page_targets, run_node_cdp_probe_driver).
StrangersSpared ==
    TypeOK /\ \A l \in Lane : seen[l].asked \cap seen[l].start = {}

\* A diagnostic without an error means that, of the pages that came while the
\* driver ran or the cleanup worked, none was there any more at the last look;
\* what is there came later (cleanup_new_page_targets).
LeaksAreReported ==
    \A l \in Lane :
        pc[l] = "idle" /\ at[l] > 0 /\ Kind(l) # "raw_cdp" /\ errors[l] = {} =>
        \A p \in Listed(l) \ seen[l].start : p > seen[l].upto

\* No attempt closes the daemon of another, which may be in the middle of its
\* driver, and the files of a daemon that lives or is closing stay where clients
\* find them (configure_agent_browser_attempt_env, force_close_agent_browser_
\* attempt, remove_agent_browser_namespace_state).
DaemonsAreTheirOwners ==
    /\ \A l \in Lane : seen[l].struck = {}
    /\ \A a \in Attempt : daemon[a] \in {"live", "closing"} => files[a] = {"socket", "pid"}
=============================================================================
