----------------------------- MODULE RunAttempts -----------------------------
(***************************************************************************)
(* run_attempts (runner/run.py): the main thread that submits items (task, *)
(* attempt) to a pool and collects their futures, the worker threads that  *)
(* make a BrowserManager each and run one attempt per engine, the signal   *)
(* that interrupts the main thread, and the teardown that closes every     *)
(* registered manager, stops the fixture server and writes the manifest.   *)
(*                                                                         *)
(* A manager is used through ManagerContract: open, closing or closed, and *)
(* whether it may own engines (up), those it answers for: a launch that    *)
(* fails in its own bookkeeping forgets one.  With jobs = 1 (Serial) one "worker" does *)
(* everything: it is the main thread itself.                               *)
(***************************************************************************)
EXTENDS Naturals, Sequences, FiniteSets

CONSTANTS
    Worker,        \* the pool's threads
    Item,          \* <<task, attempt>> pairs, numbered in the order of the queue
    Rows,          \* rows of one item: one per selected engine, 1..Rows
    Modes,         \* what jobs may ask for: "serial" (jobs == 1), "parallel"
    LaunchMayFail, \* a launch may raise BenchError
    KillMayFail,   \* close_all may raise TimeoutExpired
    MaxSignals,    \* bound: SIGINT and SIGTERM deliveries
    Nil

ASSUME ConstantsAssumption ==
    /\ Rows \in Nat \ {0}
    /\ MaxSignals \in Nat
    /\ Modes \subseteq {"serial", "parallel"}
    /\ LaunchMayFail \in BOOLEAN
    /\ KillMayFail \in BOOLEAN
    /\ Item \subseteq Nat /\ IsFiniteSet(Item)
    /\ IsFiniteSet(Worker)
    /\ Nil \notin Item

VARIABLES
    mode,      \* of the run; never changes
    fut,       \* the future of each item
    thread,    \* each thread's position in worker, make_browsers and run_one
    managers,  \* the list the teardown sweeps, in order of registration
    main,      \* the main thread: its position, the sweep's index, run_completed
    collected, \* items whose future as_completed has delivered
    shutdown,  \* shutdown_event
    fixture,   \* the fixture server is up
    results,   \* results.jsonl: <<item, engine, spoilt by the teardown>>
    manifest,  \* run_manifest.json: completion status and completed rows
    signals    \* signals delivered so far

vars == <<mode, fut, thread, managers, main, collected, shutdown, fixture, results,
          manifest, signals>>
files == <<results, manifest>>
outside == <<mode, signals>>

Serial == mode = "serial"

Free == [pc |-> "free", item |-> Nil, browsers |-> 0, mgr |-> 0, row |-> 1]

\* The calls of thread w that hold the lock of manager m.
Holds(w, m) == thread[w].pc \in {"in_init", "in_launch"} /\ thread[w].mgr = m
NobodyUses(m) == \A w \in Worker : thread[w].mgr # m  \* mutated: not reentrant
LockFree(m) == \A w \in Worker : ~Holds(w, m)

\* What a thread of the pool knows: browsers and mgr are places in managers.
Thread ==
    [pc : {"free", "start", "make", "init", "in_init", "launch", "in_launch", "attempt"},
     item : Item \cup {Nil}, browsers : Nat, mgr : Nat, row : 1..Rows]

\* A BrowserManager: where close_all has it, and whether it may own engines.
Manager == [phase : {"open", "closing", "closed"}, up : BOOLEAN]

MainThread ==
    [pc : {"collect", "cancel", "wait", "close", "fixture", "manifest", "ended", "aborted"},
     next : Nat, completed : BOOLEAN]

TypeOK ==
    /\ mode \in Modes
    /\ fut \in [Item -> {"pending", "running", "done", "error", "cancelled"}]
    /\ thread \in [Worker -> Thread]
    /\ managers \in Seq(Manager)
    /\ main \in MainThread
    /\ collected \subseteq Item
    /\ shutdown \in BOOLEAN
    /\ fixture \in BOOLEAN
    /\ results \subseteq Item \X (1..Rows) \X BOOLEAN
    /\ manifest \in [status : {"started", "completed", "interrupted"}, rows : Nat]
    /\ signals \in 0..MaxSignals

Init ==
    /\ mode \in Modes
    /\ fut = [i \in Item |-> "pending"]
    /\ thread = [w \in Worker |-> Free]
    /\ managers = <<>>
    /\ main = [pc |-> "collect", next |-> 1, completed |-> FALSE]
    /\ collected = {}
    /\ shutdown = FALSE
    /\ fixture = TRUE
    /\ results = {}
    /\ manifest = [status |-> "started", rows |-> 0]
    /\ signals = 0

-----------------------------------------------------------------------------
(* The worker.  When jobs is 1 these are steps of the main thread.          *)

Runs(w, pc) == thread[w].pc = pc /\ (Serial => main.pc = "collect")
Goes(w, pc) == thread' = [thread EXCEPT ![w].pc = pc]

\* An exception ends the item; the thread keeps the browsers it has.
Raises(w) ==
    /\ fut' = [fut EXCEPT ![thread[w].item] = "error"]
    /\ thread' = [thread EXCEPT ![w] = [Free EXCEPT !.browsers = thread[w].browsers]]

\* With jobs = 1 it is one thread that runs the items one after another.
Turn(w) ==
    Serial => /\ \A j \in Item : fut[j] # "pending" => j \in collected
              /\ \A v \in Worker : thread[v].browsers # 0 => v = w

\* The pool hands its threads the futures in the order they were submitted.
Take(w, i) ==
    /\ Runs(w, "free")
    /\ fut[i] = "pending"
    /\ \A j \in Item : j < i => fut[j] # "pending"
    /\ Turn(w)
    /\ fut' = [fut EXCEPT ![i] = "running"]
    /\ thread' = [thread EXCEPT ![w] =
            [@ EXCEPT !.pc = "start", !.item = i, !.row = 1, !.mgr = thread[w].browsers]]
    /\ UNCHANGED <<managers, main, collected, shutdown, fixture, files, outside>>

Start(w) ==
    /\ Runs(w, "start")
    /\ ~shutdown \/ Serial
    /\ IF thread[w].browsers = 0 THEN Goes(w, "make") ELSE Goes(w, "launch")
    /\ UNCHANGED <<fut, managers, main, collected, shutdown, fixture, files, outside>>

\* The check of shutdown_event in worker, or the one in make_browsers.
Refuse(w) ==
    /\ (Runs(w, "start") /\ ~Serial) \/ Runs(w, "make")
    /\ shutdown
    /\ Raises(w)
    /\ UNCHANGED <<managers, main, collected, shutdown, fixture, files, outside>>

\* make_browsers tests the event and only then takes managers_lock.
PassCheck(w) ==
    /\ Runs(w, "make")
    /\ ~shutdown
    /\ Goes(w, "init")
    /\ UNCHANGED <<fut, managers, main, collected, shutdown, fixture, files, outside>>

NewSlot == Len(managers) + 1

RegisterManager(w) ==
    /\ Runs(w, "init")
    /\ thread[w].mgr = 0
    /\ managers' = Append(managers, [phase |-> "open", up |-> FALSE])
    /\ thread' = [thread EXCEPT ![w].mgr = NewSlot]
    /\ UNCHANGED <<fut, main, collected, shutdown, fixture, files, outside>>

\* launch takes the manager's lock and finds it open: EngineHandles.__init__
\* before the first attempt of a thread, for_task before every attempt.
EnterLaunch(w) ==
    /\ Runs(w, "init") \/ Runs(w, "launch")
    /\ thread[w].mgr # 0
    /\ LockFree(thread[w].mgr)
    /\ managers[thread[w].mgr].phase = "open"
    /\ managers' = [managers EXCEPT ![thread[w].mgr].up = TRUE]
    /\ Goes(w, IF thread[w].pc = "init" THEN "in_init" ELSE "in_launch")
    /\ UNCHANGED <<fut, main, collected, shutdown, fixture, files, outside>>

LaunchClosed(w) ==
    /\ Runs(w, "init") \/ Runs(w, "launch")
    /\ thread[w].mgr # 0
    /\ LockFree(thread[w].mgr)
    /\ managers[thread[w].mgr].phase # "open"
    /\ Raises(w)
    /\ UNCHANGED <<managers, main, collected, shutdown, fixture, files, outside>>

\* The engines are up; only now does a thread remember its browsers.
LeaveLaunch(w) ==
    /\ Runs(w, "in_init") \/ Runs(w, "in_launch")
    /\ thread' = [thread EXCEPT ![w].browsers = thread[w].mgr,
                     ![w].pc = IF @ = "in_init" THEN "launch" ELSE "attempt"]
    /\ UNCHANGED <<fut, managers, main, collected, shutdown, fixture, files, outside>>

\* A failed launch leaves the engines launched before it with the manager; what
\* it may have lost itself is nobody's (Forget of ManagerContract).
FailLaunch(w) ==
    /\ LaunchMayFail
    /\ Runs(w, "in_init") \/ Runs(w, "in_launch")
    /\ Raises(w)
    /\ UNCHANGED <<managers, main, collected, shutdown, fixture, files, outside>>

MoreRows(t) == t.row < Rows

\* run_driver_attempt appends the row of one engine.  The row is spoilt when
\* the teardown has closed the engine or the fixture server under the attempt.
AppendRow(w) ==
    LET t == thread[w]  spoilt == ~managers[t.mgr].up \/ ~fixture IN
    /\ Runs(w, "attempt")
    /\ results' = results \cup {<<t.item, t.row, spoilt>>}
    /\ IF MoreRows(t)
       THEN /\ thread' = [thread EXCEPT ![w].pc = "launch", ![w].row = @ + 1]
            /\ UNCHANGED fut
       ELSE /\ thread' = [thread EXCEPT ![w] = [Free EXCEPT !.browsers = t.browsers]]
            /\ fut' = [fut EXCEPT ![t.item] = "done"]
    /\ UNCHANGED <<managers, main, collected, shutdown, fixture, manifest, outside>>

-----------------------------------------------------------------------------
(* The main thread                                                          *)

MainGoes(pc) == main' = [main EXCEPT !.pc = pc]

\* reporter.advance counts the rows of a future that returned them.
ReportedAll == Rows * Cardinality(collected)  \* mutated: failed items count
Reported == Rows * Cardinality({i \in collected : fut[i] = "done"})

\* as_completed; with jobs = 1 a failing item raises out of the loop.
Collect(i) ==
    /\ main.pc = "collect"
    /\ fut[i] \in {"done", "error"}
    /\ i \notin collected
    /\ collected' = collected \cup {i}
    /\ IF Serial /\ fut[i] = "error" THEN MainGoes("close") ELSE UNCHANGED main
    /\ UNCHANGED <<fut, thread, managers, shutdown, fixture, files, outside>>

NothingToCollect == collected = Item

AllCollected ==
    /\ main.pc = "collect"
    /\ NothingToCollect
    /\ MainGoes("wait")
    /\ UNCHANGED <<fut, thread, managers, collected, shutdown, fixture, files, outside>>

Finished == TRUE  \* mutated: errors of the futures are not raised
Succeeded == \A i \in Item : fut[i] = "done"

\* pool.shutdown(wait=True), then BenchError if any future failed.
PoolDone ==
    /\ main.pc = "wait"
    /\ \A w \in Worker : thread[w].pc = "free"
    /\ main' = [main EXCEPT !.pc = "close", !.completed = Succeeded]
    /\ UNCHANGED <<fut, thread, managers, collected, shutdown, fixture, files, outside>>

\* interrupt_run sets the event and raises KeyboardInterrupt where the main
\* thread is; a second one in the except branch or in the finally leaves it.
AfterInterrupt ==
    CASE main.pc = "collect" -> IF Serial THEN "close" ELSE "cancel"
      [] main.pc \in {"cancel", "wait"} -> "close"
      [] OTHER -> "aborted"

Interrupt ==
    /\ signals < MaxSignals
    /\ main.pc \notin {"ended", "aborted"}
    /\ signals' = signals + 1
    /\ shutdown' = TRUE
    /\ MainGoes(AfterInterrupt)
    /\ thread' = IF Serial THEN [w \in Worker |-> Free] ELSE thread
    /\ UNCHANGED <<mode, fut, managers, collected, fixture, files>>

\* An attempt whose driver has timed out takes the interrupt for its own: the
\* cleanup of the driver drops it or raises the timeout over it
\* (run_driver_subprocess), and the run goes on.
SwallowedInterrupt ==
    /\ Serial /\ signals < MaxSignals
    /\ main.pc = "collect"
    /\ \E w \in Worker : thread[w].pc = "attempt"
    /\ signals' = signals + 1
    /\ shutdown' = TRUE
    /\ UNCHANGED <<mode, fut, thread, managers, main, collected, fixture, files>>

\* except BaseException: cancel what no thread has started, do not wait.
Cancel ==
    /\ main.pc = "cancel"
    /\ fut' = [i \in Item |-> IF fut[i] = "pending" THEN "cancelled" ELSE fut[i]]
    /\ MainGoes("close")
    /\ UNCHANGED <<thread, managers, collected, shutdown, fixture, files, outside>>

\* finally: close_all of each registered manager in turn.  It marks the
\* manager closed first and takes the lock, waiting for a launch, second.
BeginClose ==
    /\ main.pc = "close"
    /\ main.next <= Len(managers)
    /\ managers[main.next].phase = "open"
    /\ managers' = [managers EXCEPT ![main.next].phase = "closing"]
    /\ UNCHANGED <<fut, thread, main, collected, shutdown, fixture, files, outside>>

EndClose ==
    /\ main.pc = "close"
    /\ main.next <= Len(managers)
    /\ managers[main.next].phase = "closing"
    /\ LockFree(main.next)
    /\ managers' = [managers EXCEPT ![main.next].phase = "closed", ![main.next].up = FALSE]
    /\ main' = [main EXCEPT !.next = @ + 1]
    /\ UNCHANGED <<fut, thread, collected, shutdown, fixture, files, outside>>

\* TimeoutExpired from _kill_process leaves the finally block.
FailClose ==
    /\ KillMayFail
    /\ main.pc = "close"
    /\ main.next <= Len(managers)
    /\ managers[main.next].phase = "closing"
    /\ managers[main.next].up
    /\ LockFree(main.next)
    /\ MainGoes("aborted")
    /\ UNCHANGED <<fut, thread, managers, collected, shutdown, fixture, files, outside>>

SweptButLast == main.next >= Len(managers)  \* mutated: off by one
Swept == main.next > Len(managers)

SweepEnds ==
    /\ main.pc = "close"
    /\ Swept
    /\ MainGoes("fixture")
    /\ UNCHANGED <<fut, thread, managers, collected, shutdown, fixture, files, outside>>

StopFixture ==
    /\ main.pc = "fixture"
    /\ fixture' = FALSE
    /\ MainGoes("manifest")
    /\ UNCHANGED <<fut, thread, managers, collected, shutdown, files, outside>>

WriteManifest ==
    /\ main.pc = "manifest"
    /\ manifest' = [status |-> IF main.completed THEN "completed" ELSE "interrupted",
                    rows |-> Reported]
    /\ MainGoes("ended")
    /\ UNCHANGED <<fut, thread, managers, collected, shutdown, fixture, results, outside>>

-----------------------------------------------------------------------------
WorkerStep(w) ==
    \/ \E i \in Item : Take(w, i)
    \/ Start(w) \/ Refuse(w) \/ PassCheck(w) \/ RegisterManager(w)
    \/ EnterLaunch(w) \/ LaunchClosed(w) \/ LeaveLaunch(w) \/ FailLaunch(w)
    \/ AppendRow(w)

MainStep ==
    \/ \E i \in Item : Collect(i)
    \/ AllCollected \/ PoolDone \/ Cancel \/ BeginClose \/ EndClose \/ FailClose
    \/ SweepEnds \/ StopFixture \/ WriteManifest

Next == MainStep \/ Interrupt \/ SwallowedInterrupt \/ \E w \in Worker : WorkerStep(w)

Spec == Init /\ [][Next]_vars

\* CDPClient.command bounds each read and not their number, so a thread that
\* warms up an engine or drives it over raw CDP is held as long as the engine
\* sends frames and no answer.  With the engine closed its socket ends.
Talking(w) ==
    /\ thread[w].pc \in {"in_init", "in_launch", "attempt"}
    /\ managers[thread[w].mgr].up

\* Threads are scheduled and close_all has deadlines; nothing is assumed of a
\* thread that talks to an engine.
FairSpec ==
    Spec /\ WF_vars(MainStep) /\ \A w \in Worker : WF_vars(~Talking(w) /\ WorkerStep(w))

-----------------------------------------------------------------------------
(* Properties                                                               *)

\* A manifest that says "completed" means it: every item has a row for every
\* engine in results.jsonl, none spoilt by the teardown, the manifest counts
\* exactly those, and no engine is left.
CompletedIsClean ==
    manifest.status = "completed" =>
        /\ results = Item \X (1..Rows) \X {FALSE}
        /\ manifest.rows = Cardinality(results)
        /\ \A m \in DOMAIN managers : ~managers[m].up

\* The manifest never counts a row that results.jsonl does not hold, also
\* while interrupted workers go on appending behind it.
ManifestCountsRowsOnDisk == manifest.rows <= Cardinality(results)

\* The harness closes an engine or the fixture server under an attempt, and
\* so appends a row that blames the engine, only in an interrupted parallel run.
SpoiltOnlyByInterrupt == \A r \in results : r[3] => shutdown /\ ~Serial

\* Whoever reads the manifest and results.jsonl is not misled about what ran.
RowsAreHonest ==
    /\ TypeOK
    /\ CompletedIsClean
    /\ ManifestCountsRowsOnDisk
    /\ SpoiltOnlyByInterrupt

\* After a teardown that ran to its end, the only managers with engines are
\* those a worker registered behind the sweep, having passed the check of
\* shutdown_event before the signal: at most one a worker, none without a signal.
OnlyLateManagersSurvive ==
    main.pc \in {"fixture", "manifest", "ended"} =>
        /\ \A m \in DOMAIN managers : managers[m].up => m >= main.next /\ shutdown
        /\ Len(managers) < main.next + Cardinality(Worker)

\* A thread goes back to the same engines for each of its items, and no two
\* threads ever run on one manager's engines.
LanesIsolated ==
    \A v, w \in Worker :
        v # w /\ thread[v].mgr # 0 => thread[v].mgr # thread[w].mgr

\* Every engine that a manager answers for belongs to one thread while the run
\* goes on, and to nobody but a late thread when it is over.
EnginesHaveOneOwner == LanesIsolated /\ OnlyLateManagersSurvive

\* What the report reads off the run directory, as RunContract has it.
Contract == INSTANCE RunContract WITH
    verdict <- manifest.status,
    finished <- {i \in Item : \A r \in 1..Rows : \E s \in BOOLEAN : <<i, r, s>> \in results}

\* The run directory keeps the promise its report is generated from.
KeepsContract == Contract!Spec

\* Whatever fails and whenever it is interrupted, the run comes to its end:
\* the main thread leaves the finally block, every thread returns to the pool
\* and no future is left for the interpreter's exit to wait for.  The only
\* thing that can hold it is an engine that is up and keeps a thread talking.
RunEnds ==
    \/ <>[](/\ main.pc \in {"ended", "aborted"}
            /\ \A w \in Worker : thread[w].pc = "free"
            /\ ~Serial => \A i \in Item : fut[i] \in {"done", "error", "cancelled"})
    \/ \E w \in Worker : <>[]Talking(w)
=============================================================================
