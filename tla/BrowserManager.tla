--------------------------- MODULE BrowserManager ---------------------------
(***************************************************************************)
(* One worker's BrowserManager (runner/run.py): the engine processes it    *)
(* launches, reuses, replaces and drops, and close_all, which the main     *)
(* thread calls while the worker may still be inside a launch.             *)
(*                                                                         *)
(* Two threads act: the launcher (the worker, or the main thread itself    *)
(* when jobs is 1) and the closer (always the main thread).  The engines   *)
(* act too: they start to listen, hang, recover and die at any time.        *)
(***************************************************************************)
EXTENDS Naturals, FiniteSets

CONSTANTS
    Engine,          \* the engines of the run (ENGINE_DEFS)
    Task,            \* tasks, each with a launch profile
    Proc,            \* the processes Popen can return; bounds the launches
    Nil,
    ServeArgs,       \* engine_serve_args of each engine for each task's profile
    LaunchInMain,    \* jobs == 1: launches run on the main thread, fixed ports
    HasCgroup,       \* every process gets a cgroup with cgroup.kill
    KillMayTimeOut   \* a process may outlive SIGKILL by more than 5 s

\* The part of a BrowserProcess the manager reads and writes.
Args == {ServeArgs[et] : et \in Engine \X Task}
BrowserProcess == [engine : Engine, args : Args, generation : Nat, prev_task_id : Task \cup {Nil}]

ASSUME ConstantsAssumption ==
    /\ Nil \notin Proc \cup Task \cup Engine \cup BrowserProcess
    /\ DOMAIN ServeArgs = Engine \X Task
    /\ LaunchInMain \in BOOLEAN
    /\ HasCgroup \in BOOLEAN
    /\ KillMayTimeOut \in BOOLEAN

VARIABLES
    os,           \* the operating system's view: unborn, live or dead
    net,          \* the process's port: none (not bound), open or hung
    termed,       \* live processes that were sent SIGTERM
    killed,       \* live processes that outlived SIGKILL and the second wait
    browser,      \* the BrowserProcess built for a process, Nil before
    processes,    \* BrowserManager.processes
    generations,  \* BrowserManager._generations
    lastTask,     \* BrowserManager._last_task
    closed,       \* BrowserManager._closed
    launcher,     \* the thread that calls launch and note_task
    closer,       \* close_all: off, closing, sweep, done or failed
    swept,        \* engines the sweep of close_all has dealt with
    ranLast,      \* history: the last task that was handed each process
    lost          \* history: processes whose launch ended between Popen and the
                  \* registration, live and unsignalled; nobody knows of them

osVars == <<os, net, termed, killed>>
tables == <<processes, generations, lastTask>>
closing == <<closed, closer, swept>>
history == <<ranLast, lost>>
vars == <<osVars, browser, tables, launcher, closing, history>>

LaunchStep == {"kill_old", "spawn", "ready", "kill_new", "warm"}
Idle == [pc |-> "idle", engine |-> Nil, task |-> Nil, proc |-> Nil, note |-> FALSE]
Stopped == [Idle EXCEPT !.pc = "stopped"]

\* The RLock: a launch holds it from the check of _closed to its return or its
\* exception, close_all holds it for the sweep.
InLaunch == launcher.pc \in LaunchStep
LockFreeOfSweep == closer # "sweep"  \* mutated: a launch does not hold it
LockFree == ~InLaunch /\ closer # "sweep"

Live(p) == os[p] = "live"
Unsignalled == {p \in Proc : Live(p) /\ p \notin termed}
Wanted(e, t) == ServeArgs[<<e, t>>]

AnyArgs(e, t) == TRUE  \* mutated: reuse does not compare serve_args
SameArgs(e, t) == browser[processes[e]].args = Wanted(e, t)

NoSignal(p) == termed  \* mutated: the process is let go unsignalled
Signal(p) == IF Live(p) THEN termed \cup {p} ELSE termed

NextGeneration(e) == generations[e] + 1

KeepPredecessor(e) == lastTask  \* mutated: without _last_task.pop
ForgetPredecessor(e) == [lastTask EXCEPT ![e] = Nil]

\* Two processes meet on one port only when ports are fixed per engine.
SamePort(p, q) ==
    \/ p = q
    \/ LaunchInMain /\ browser[p] # Nil /\ browser[q] # Nil
                    /\ browser[p].engine = browser[q].engine
Bound(p) == Live(p) /\ net[p] # "none"
Answers(p) == Live(p) /\ net[p] = "open"
Served(p) == \E q \in Proc : SamePort(p, q) /\ Answers(q)

\* A launch talks to its engine in the ready probe and in _warm_up.  The reads
\* of both have timeouts and the loops around the reads no deadline, so that an
\* engine which answers its port, sends on, and never sends what it was asked
\* for, holds the launch.
Talking == launcher.pc \in {"ready", "warm"}
HeldUp == Talking /\ Served(launcher.proc)

\* The process is gone, its port with it, and the signals it was sent.
Die(p) ==
    /\ os' = [os EXCEPT ![p] = "dead"]
    /\ net' = [net EXCEPT ![p] = "none"]
    /\ termed' = termed \ {p}
    /\ killed' = killed \ {p}

\* terminate(), and cgroup.cleanup, which writes cgroup.kill: every member
\* dies, however hung.
LetGo(p) ==
    IF HasCgroup THEN Die(p) ELSE termed' = Signal(p) /\ UNCHANGED <<os, net, killed>>

TypeOK ==
    /\ os \in [Proc -> {"unborn", "live", "dead"}]
    /\ net \in [Proc -> {"none", "open", "hung"}]
    /\ termed \subseteq Proc
    /\ killed \subseteq termed
    /\ browser \in [Proc -> BrowserProcess \cup {Nil}]
    /\ processes \in [Engine -> Proc \cup {Nil}]
    /\ generations \in [Engine -> Nat]
    /\ lastTask \in [Engine -> Task \cup {Nil}]
    /\ closed \in BOOLEAN
    /\ launcher \in [pc : {"idle", "stopped", "note"} \cup LaunchStep,
                     engine : Engine \cup {Nil}, task : Task \cup {Nil},
                     proc : Proc \cup {Nil}, note : BOOLEAN]
    /\ closer \in {"off", "closing", "sweep", "done", "failed"}
    /\ swept \subseteq Engine
    /\ ranLast \in [Proc -> Task \cup {Nil}]
    /\ lost \subseteq Proc

Init ==
    /\ os = [p \in Proc |-> "unborn"]
    /\ net = [p \in Proc |-> "none"]
    /\ termed = {}
    /\ killed = {}
    /\ browser = [p \in Proc |-> Nil]
    /\ processes = [e \in Engine |-> Nil]
    /\ generations = [e \in Engine |-> 0]
    /\ lastTask = [e \in Engine |-> Nil]
    /\ closed = FALSE
    /\ launcher = Idle
    /\ closer = "off"
    /\ swept = {}
    /\ ranLast = [p \in Proc |-> Nil]
    /\ lost = {}

-----------------------------------------------------------------------------
(* launch: the launcher's steps.  EngineHandles.__init__ launches every     *)
(* engine once without noting a task; for_task launches and then notes.     *)

\* for_task is only reached once __init__ has launched every engine.
HandlesReady == \A e \in Engine : generations[e] > 0

\* mutated: without the check of _closed
MayLaunchClosed(e) ==
    /\ launcher.pc = "idle"
    /\ LockFree
    /\ HandlesReady \/ generations[e] = 0

MayLaunch(e) ==
    /\ launcher.pc = "idle"
    /\ LockFree
    /\ ~closed
    /\ HandlesReady \/ generations[e] = 0

Call(pc, e, t, p) ==
    [pc |-> pc, engine |-> e, task |-> t, proc |-> p, note |-> HandlesReady]

LaunchFirst(e, t) ==
    /\ MayLaunch(e)
    /\ processes[e] = Nil
    /\ launcher' = Call("spawn", e, t, Nil)
    /\ UNCHANGED <<osVars, browser, tables, closing, history>>

Reuse(e, t) ==
    LET p == processes[e] IN
    /\ MayLaunch(e)
    /\ p # Nil
    /\ Answers(p)
    /\ SameArgs(e, t)
    /\ launcher' = Call("note", e, t, p)
    /\ UNCHANGED <<osVars, browser, tables, closing, history>>

\* Alive with other serve arguments: _kill_process sends SIGTERM and waits.
Replace(e, t) ==
    LET p == processes[e] IN
    /\ MayLaunch(e)
    /\ p # Nil
    /\ Answers(p)
    /\ ~SameArgs(e, t)
    /\ termed' = Signal(p)
    /\ launcher' = Call("kill_old", e, t, p)
    /\ UNCHANGED <<os, net, killed, browser, tables, closing, history>>

\* Dead, or live with a port that does not answer: terminate(), no wait.
Drop(e, t) ==
    LET p == processes[e] IN
    /\ MayLaunch(e)
    /\ p # Nil
    /\ ~Answers(p)
    /\ LetGo(p)
    /\ processes' = [processes EXCEPT ![e] = Nil]
    /\ launcher' = Call("spawn", e, t, Nil)
    /\ UNCHANGED <<browser, generations, lastTask, closing, history>>

KillOld ==
    LET p == launcher.proc  e == launcher.engine IN
    /\ launcher.pc = "kill_old"
    /\ Die(p)
    /\ processes' = [processes EXCEPT ![e] = Nil]
    /\ launcher' = [launcher EXCEPT !.pc = "spawn", !.proc = Nil]
    /\ UNCHANGED <<browser, generations, lastTask, closing, history>>

\* What the thread does after launch raised: EngineHandles.__init__ is never
\* retried on this manager, a serial run ends, a worker goes on to its next item.
LaunchRaises ==
    launcher' = IF launcher.note /\ ~LaunchInMain THEN Idle ELSE Stopped

\* The second wait of _kill_process raises TimeoutExpired.
KillTimesOut ==
    /\ KillMayTimeOut
    /\ launcher.pc \in {"kill_old", "kill_new"}
    /\ Live(launcher.proc)
    /\ killed' = killed \cup {launcher.proc}
    /\ LaunchRaises
    /\ UNCHANGED <<os, net, termed, browser, tables, closing, history>>

\* The pinned binary is missing, the port is in use (three times when ports
\* are dynamic), or Popen fails.
SpawnFails ==
    /\ launcher.pc = "spawn"
    /\ LaunchRaises
    /\ UNCHANGED <<osVars, browser, tables, closing, history>>

PortInUse(e) ==
    /\ LaunchInMain
    /\ \E q \in Proc : browser[q] # Nil /\ browser[q].engine = e /\ Answers(q)

\* Processes that were not started yet differ in name only.
NextProc == CHOOSE q \in Proc : os[q] = "unborn"

Spawn(p) ==
    LET e == launcher.engine IN
    /\ launcher.pc = "spawn"
    /\ ~PortInUse(e)
    /\ os[p] = "unborn" /\ p = NextProc
    /\ os' = [os EXCEPT ![p] = "live"]
    /\ browser' = [browser EXCEPT ![p] =
            [engine |-> e, args |-> Wanted(e, launcher.task),
             generation |-> 0, prev_task_id |-> Nil]]
    /\ launcher' = [launcher EXCEPT !.pc = "ready", !.proc = p]
    /\ UNCHANGED <<net, termed, killed, tables, closing, history>>

\* wait_for_json_version got an answer on the port while the process ran.
Ready ==
    LET p == launcher.proc  e == launcher.engine IN
    /\ launcher.pc = "ready"
    /\ Live(p)
    /\ Served(p)
    /\ generations' = [generations EXCEPT ![e] = NextGeneration(e)]
    /\ lastTask' = ForgetPredecessor(e)
    /\ browser' = [browser EXCEPT ![p].generation = NextGeneration(e)]
    /\ launcher' = [launcher EXCEPT !.pc = "warm"]
    /\ UNCHANGED <<osVars, processes, closing, history>>

\* mutated: without the deadline of ten seconds
NotReadyUntilExit ==
    /\ launcher.pc = "ready"
    /\ ~Live(launcher.proc)
    /\ launcher' = [launcher EXCEPT !.pc = "kill_new"]
    /\ UNCHANGED <<osVars, browser, tables, closing, history>>

\* It exited first, or ten seconds passed: _kill_process.
NotReady ==
    LET p == launcher.proc IN
    /\ launcher.pc = "ready"
    /\ termed' = Signal(p)
    /\ launcher' = [launcher EXCEPT !.pc = "kill_new"]
    /\ UNCHANGED <<os, net, killed, browser, tables, closing, history>>

KillNew ==
    /\ launcher.pc = "kill_new"
    /\ Die(launcher.proc)
    /\ LaunchRaises
    /\ UNCHANGED <<browser, tables, closing, history>>

\* _warm_up swallows every Exception; then the process is registered.
Register ==
    LET p == launcher.proc IN
    /\ launcher.pc = "warm"
    /\ processes' = [processes EXCEPT ![launcher.engine] = p]
    /\ launcher' = IF launcher.note THEN [launcher EXCEPT !.pc = "note"] ELSE Idle
    /\ UNCHANGED <<osVars, browser, generations, lastTask, closing, history>>

\* A launch that ends here does not signal its process and does not register it.
Abandon == lost' = IF Live(launcher.proc) THEN lost \cup {launcher.proc} ELSE lost

\* Only the ready probe is in the try, and its handler does more than to kill:
\* the cold-start sampler, the report on it, the digest of the binary and the
\* cgroup may raise anywhere between Popen and the registration.
LaunchBreaks ==
    /\ Talking
    /\ Abandon
    /\ LaunchRaises
    /\ UNCHANGED <<osVars, browser, tables, closing, ranLast>>

\* for_task: note_task under the lock, the predecessor goes on the handle.
NoteTask ==
    LET p == launcher.proc  e == launcher.engine IN
    /\ launcher.pc = "note"
    /\ LockFree
    /\ browser' = [browser EXCEPT ![p].prev_task_id = lastTask[e]]
    /\ lastTask' = [lastTask EXCEPT ![e] = launcher.task]
    /\ ranLast' = [ranLast EXCEPT ![p] = launcher.task]
    /\ launcher' = Idle
    /\ UNCHANGED <<osVars, processes, generations, closing, lost>>

\* jobs == 1: the run ends, or interrupt_run raises KeyboardInterrupt wherever
\* the main thread is; no handler of launch catches it.
Leave ==
    /\ launcher.pc # "stopped"
    /\ LaunchInMain
    /\ closer = "off"
    /\ IF Talking THEN Abandon ELSE UNCHANGED lost
    /\ launcher' = Stopped
    /\ UNCHANGED <<osVars, browser, tables, closing, ranLast>>

-----------------------------------------------------------------------------
(* close_all, on the main thread                                           *)

SetClosed ==
    /\ closer = "off"
    /\ LaunchInMain => launcher.pc = "stopped"
    /\ closed' = TRUE
    /\ closer' = "closing"
    /\ UNCHANGED <<osVars, browser, tables, launcher, swept, history>>

TakeLock ==
    /\ closer = "closing"
    /\ LockFree
    /\ closer' = "sweep"
    /\ UNCHANGED <<osVars, browser, tables, launcher, closed, swept, history>>

Sweep(e) ==
    LET p == processes[e] IN
    /\ closer = "sweep"
    /\ p # Nil
    /\ e \notin swept
    /\ Die(p)
    /\ swept' = swept \cup {e}
    /\ UNCHANGED <<browser, tables, launcher, closed, closer, history>>

\* TimeoutExpired leaves close_all; the other engines are not swept.
SweepTimesOut(e) ==
    LET p == processes[e] IN
    /\ KillMayTimeOut
    /\ closer = "sweep"
    /\ p # Nil
    /\ e \notin swept
    /\ Live(p)
    /\ termed' = termed \cup {p}
    /\ killed' = killed \cup {p}
    /\ closer' = "failed"
    /\ UNCHANGED <<os, net, browser, tables, launcher, closed, swept, history>>

SweepDone ==
    /\ closer = "sweep"
    /\ \A e \in Engine : processes[e] # Nil => e \in swept
    /\ processes' = [e \in Engine |-> Nil]
    /\ closer' = "done"
    /\ UNCHANGED <<osVars, browser, generations, lastTask, launcher, closed, swept, history>>

\* A second signal reaches the main thread inside close_all.
InterruptClose ==
    /\ closer \in {"closing", "sweep"}
    /\ closer' = "failed"
    /\ UNCHANGED <<osVars, browser, tables, launcher, closed, swept, history>>

-----------------------------------------------------------------------------
(* The engines.  A port that stays bound by a hung process is not free.    *)

\* With ports of their own nobody looks at that of a process which is neither in
\* the table nor in the hands of a launch: how it goes on there is left out.
Watched(p) == LaunchInMain \/ p = launcher.proc \/ \E e \in Engine : processes[e] = p

Listen(p) ==
    /\ Live(p)
    /\ Watched(p)
    /\ net[p] = "none"
    /\ \A q \in Proc \ {p} : SamePort(p, q) => ~Bound(q)
    /\ net' = [net EXCEPT ![p] = "open"]
    /\ UNCHANGED <<os, termed, killed, browser, tables, launcher, closing, history>>

Hang(p) ==
    /\ Watched(p)
    /\ Answers(p)
    /\ net' = [net EXCEPT ![p] = "hung"]
    /\ UNCHANGED <<os, termed, killed, browser, tables, launcher, closing, history>>

Recover(p) ==
    /\ Watched(p)
    /\ Live(p)
    /\ net[p] = "hung"
    /\ net' = [net EXCEPT ![p] = "open"]
    /\ UNCHANGED <<os, termed, killed, browser, tables, launcher, closing, history>>

Exit(p) ==
    /\ Live(p)
    /\ Die(p)
    /\ UNCHANGED <<browser, tables, launcher, closing, history>>

-----------------------------------------------------------------------------
Launch ==
    \E e \in Engine, t \in Task :
        LaunchFirst(e, t) \/ Reuse(e, t) \/ Replace(e, t) \/ Drop(e, t)

InsideLaunch ==
    \/ KillOld \/ KillTimesOut \/ SpawnFails \/ Ready \/ NotReady \/ KillNew \/ Register
    \/ \E p \in Proc : Spawn(p)

InsideClose ==
    \/ TakeLock \/ SweepDone
    \/ \E e \in Engine : Sweep(e) \/ SweepTimesOut(e)

Environment == \E p \in Proc : Listen(p) \/ Hang(p) \/ Recover(p) \/ Exit(p)

Next ==
    \/ Launch \/ InsideLaunch \/ LaunchBreaks \/ NoteTask \/ Leave
    \/ SetClosed \/ InsideClose \/ InterruptClose
    \/ Environment

Spec == Init /\ [][Next]_vars

\* The waits for a process have timeouts, and so have those for an engine that
\* does not answer or falls silent: close_all goes on, and so does a launch that
\* no engine can hold up.  That an engine stops to send is promised by nobody.
Fairness == WF_vars(~HeldUp /\ InsideLaunch) /\ WF_vars(InsideClose)
FairSpec == Spec /\ Fairness

-----------------------------------------------------------------------------
(* Properties                                                              *)

\* A worker runs one process per engine: two live processes of one engine
\* exist only when one of them outlived SIGKILL, when there is no cgroup and
\* the drop of a hung process left it to answer SIGTERM in its own time, or
\* when a launch raised outside its try and left its process to nobody.
OneProcessPerEngine ==
    \A p, q \in Proc :
        /\ p # q /\ Live(p) /\ Live(q)
        /\ browser[p].engine = browser[q].engine
        => \/ {p, q} \cap (killed \cup lost) # {}
           \/ ~HasCgroup /\ {p, q} \cap termed # {}

\* After close_all has returned, every engine process this manager ever
\* started is dead or signalled, whatever launch it interrupted or waited for,
\* but for those whose own launch ended between Popen and the registration: no
\* task ever got one of these, no later launch found it, and a serial run,
\* which such an end of a launch ends, has lost one at most.
NothingLeftBehind ==
    /\ closer = "done" => Unsignalled \subseteq lost
    /\ \A p \in lost : ranLast[p] = Nil /\ \A e \in Engine : processes[e] # p
    /\ LaunchInMain => Cardinality(lost) <= 1

\* worker_slot, engine and browser_generation of a result row name one
\* process: two processes that became ready never share a generation.
GenerationNamesProcess ==
    \A p, q \in Proc :
        /\ p # q /\ browser[p] # Nil /\ browser[q] # Nil
        /\ browser[p].engine = browser[q].engine
        /\ browser[p].generation > 0
        => browser[p].generation # browser[q].generation

\* What a launch hands to a task: the registered process, started with the
\* arguments the task's profile wants, on a port it holds itself, and never a
\* process this manager has signalled unless SIGKILL did not take.  A serial
\* run without cgroups may find the port still held by the hung process it
\* dropped, which then answers the ready probe of the new one.
HandOver ==
    LET p == launcher'.proc  e == launcher'.engine IN
    launcher.pc # "note" /\ launcher'.pc = "note" =>
        /\ processes'[e] = p
        /\ browser'[p].args = Wanted(e, launcher'.task)
        /\ p \notin termed' \/ p \in killed'
        /\ os'[p] = "live" => net'[p] # "none" \/ (LaunchInMain /\ ~HasCgroup)
HandsOverUsableProcess == [][HandOver]_vars

\* prev_task_id is the task that really ran before on the very same process.
PredecessorRanHere ==
    [][\A p \in Proc : browser[p] # Nil /\ browser'[p].prev_task_id # browser[p].prev_task_id
            => browser'[p].prev_task_id = ranLast[p]]_vars

\* What a report reads off the rows is one process: those it takes for rows of
\* one process, and the order it thinks they ran in, are as they were.
RowsNameOneProcess == []GenerationNamesProcess /\ PredecessorRanHere

\* The manager as ManagerContract sees it.
Phase ==
    CASE closer = "off" -> "open"
      [] closer = "done" -> "closed"
      [] OTHER -> "closing"

Contract == INSTANCE ManagerContract WITH
    phase <- Phase, owned <- Unsignalled \ lost, forgotten <- lost

\* Whatever it is doing, the manager keeps the contract its run relies on.
KeepsContract == Contract!Spec

\* A launch comes back, and with it the lock; close_all, which waits for it,
\* comes to its end by return or by exception.  Whichever call is interrupted
\* and whatever the engines do, there is a later moment without either, or one
\* at which an engine that answers is still being talked to by the launch.
CallsReturn == []<>((~InLaunch /\ closer \notin {"closing", "sweep"}) \/ HeldUp)
=============================================================================
