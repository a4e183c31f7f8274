------------------------ MODULE BrowserManager_proofs ------------------------
(***************************************************************************)
(* What a manager promises, for any number of engines, tasks, profiles and *)
(* processes.  The inductive invariant IInv says where an engine process   *)
(* that the manager answers for can be: in the processes table, or in the  *)
(* hands of the launch that holds the lock.  From it follow the types, one *)
(* process per engine, and that close_all leaves nothing behind.  HInv     *)
(* adds what the manager knows of a process and its past: from both follow *)
(* what a launch may hand over and what a row may say of its process.      *)
(* Last, the manager implements ManagerContract.                           *)
(***************************************************************************)
EXTENDS BrowserManager, FiniteSetTheorems, TLAPS

\* The launch has a process of its own, not yet in the table.
Launching == launcher.pc \in {"ready", "kill_new", "warm"}

\* A process has its BrowserProcess exactly from its birth; the table, under
\* each engine, names processes of that engine.
Built ==
    /\ \A p \in Proc : browser[p] # Nil <=> os[p] # "unborn"
    /\ \A e \in Engine : processes[e] # Nil =>
          browser[processes[e]] # Nil /\ browser[processes[e]].engine = e

\* What a launch knows while it holds the lock: the entry of its engine is
\* vacant from the moment it starts a process until it registers it.
Current ==
    /\ launcher.pc \in LaunchStep \cup {"note"} =>
          launcher.engine \in Engine /\ launcher.task \in Task
    /\ Launching \/ launcher.pc \in {"kill_old", "note"} =>
          /\ launcher.proc \in Proc
          /\ browser[launcher.proc] # Nil
          /\ browser[launcher.proc].engine = launcher.engine
    /\ Launching \/ launcher.pc = "spawn" => processes[launcher.engine] = Nil
    /\ launcher.pc = "kill_old" => processes[launcher.engine] = launcher.proc
    /\ launcher.pc \in {"kill_old", "kill_new"} /\ Live(launcher.proc) => launcher.proc \in termed

\* The sweep runs after the last launch has given the lock back, and what it
\* has swept is dead.
Swept ==
    /\ closed <=> closer # "off"
    /\ closer \in {"sweep", "done"} => ~InLaunch
    /\ closer \in {"off", "closing"} \/ InLaunch => swept = {}
    /\ closer = "done" => \A e \in Engine : processes[e] = Nil
    /\ \A e \in swept : processes[e] # Nil => ~Live(processes[e])

\* The processes this manager is expected to have stopped or to know.
Owned ==
    {p \in Proc : Live(p) /\ p \notin killed \cup lost /\ (HasCgroup \/ p \notin termed)}

InTable(p) == processes[browser[p].engine] = p

Placed ==
    /\ launcher.pc # "stopped" \/ ~LaunchInMain =>
          \A p \in Owned : InTable(p) \/ (Launching /\ launcher.proc = p)
    /\ OneProcessPerEngine
    /\ \A p \in Unsignalled \ lost : InTable(p) \/ (Launching /\ launcher.proc = p)

\* What a launch has lost is out of everybody's reach, and a serial run has
\* ended with it.
Forgotten ==
    /\ \A p \in lost :
          os[p] # "unborn" /\ p # launcher.proc /\ \A e \in Engine : processes[e] # p
    /\ LaunchInMain /\ lost # {} => launcher.pc = "stopped"
    /\ LaunchInMain => \A p, q \in lost : p = q

\* The inductive invariant; TypeOK, OneProcessPerEngine and NothingLeftBehind
\* follow from it, and none of the three is inductive alone.
IInv == TypeOK /\ Built /\ Current /\ Swept /\ Placed /\ Forgotten
-----------------------------------------------------------------------------
\* A launch that finds no entry takes the lock: its engine owns no process.
LEMMA LaunchFirstKeeps == ASSUME IInv, NEW e \in Engine, NEW t \in Task, LaunchFirst(e, t)
      PROVE IInv'
<1> USE DEF history, LaunchFirst, MayLaunch, Call, HandlesReady, osVars, tables, closing, LaunchStep,
        TypeOK, Live
<1>1. TypeOK' BY DEF IInv
<1>2. Built' BY DEF IInv, Built
<1>3. Current' BY DEF Current, Launching
<1>4. Swept' BY DEF IInv, Swept
<1>5. Placed' BY DEF IInv, Placed, OneProcessPerEngine, Owned, Unsignalled, InTable, Launching
<1>f. Forgotten' BY ConstantsAssumption DEF IInv, Forgotten
<1> QED BY <1>1, <1>2, <1>3, <1>4, <1>5, <1>f DEF IInv

\* A launch that finds a usable process hands over what the table names.
LEMMA ReuseKeeps == ASSUME IInv, NEW e \in Engine, NEW t \in Task, Reuse(e, t) PROVE IInv'
<1> USE DEF history, Reuse, MayLaunch, Call, HandlesReady, osVars, tables, closing, TypeOK, Live
<1>1. TypeOK' BY DEF IInv
<1>2. Built' BY DEF IInv, Built
<1>3. Current' BY DEF IInv, Built, Current, Launching
<1>4. Swept' BY DEF IInv, Swept
<1>5. Placed' BY DEF IInv, Placed, OneProcessPerEngine, Owned, Unsignalled, InTable, Launching
<1>f. Forgotten' BY ConstantsAssumption DEF IInv, Forgotten
<1> QED BY <1>1, <1>2, <1>3, <1>4, <1>5, <1>f DEF IInv

\* The old process is signalled and stays in the table while it is waited for.
LEMMA ReplaceKeeps == ASSUME IInv, NEW e \in Engine, NEW t \in Task, Replace(e, t) PROVE IInv'
<1> USE DEF history, Replace, MayLaunch, Call, HandlesReady, Signal, tables, closing, LaunchStep, TypeOK,
        Live
<1>1. TypeOK' BY DEF IInv
<1>2. Built' BY DEF IInv, Built
<1>3. Current' BY DEF IInv, Built, Current, Launching
<1>4. Swept' BY DEF IInv, Swept
<1>5. Placed' BY DEF IInv, Placed, OneProcessPerEngine, Owned, Unsignalled, InTable, Launching
<1>f. Forgotten' BY ConstantsAssumption DEF IInv, Forgotten
<1> QED BY <1>1, <1>2, <1>3, <1>4, <1>5, <1>f DEF IInv

\* A dropped process leaves the table, and is owned no longer: it was
\* signalled, or killed with its cgroup.
LEMMA DropKeeps == ASSUME IInv, NEW e \in Engine, NEW t \in Task, Drop(e, t) PROVE IInv'
<1> USE ConstantsAssumption DEF history, Drop, MayLaunch, Call, Signal, LetGo, Die, closing,
        LaunchStep, TypeOK, Live
<1> DEFINE p == processes[e]
<1>1. p \in Proc /\ browser[p].engine = e BY DEF IInv, Built
<1>2. TypeOK' BY <1>1 DEF IInv, HandlesReady
<1>3. Built' BY DEF IInv, Built
<1>4. Current' BY <1>1 DEF IInv, Current, Launching
<1>5. Swept' BY DEF IInv, Swept, InLaunch, LockFree
<1>6. Placed'
  <2>1. \A q \in Unsignalled' : q \in Unsignalled /\ q # p
        BY <1>1 DEF IInv, Unsignalled
  <2>2. \A q \in Owned' : q \in Owned /\ q # p
        BY <1>1 DEF IInv, Owned
  <2>3. \A q \in Proc : Live(q) => browser[q] # Nil /\ browser[q].engine \in Engine
        BY DEF IInv, Built, BrowserProcess
  <2>4. \A q \in Proc : Live(q) /\ q # p => (InTable(q)' <=> InTable(q))
        BY <1>1, <2>3 DEF IInv, InTable
  <2>5. \A q \in Owned' : InTable(q)'
        BY <2>2, <2>4 DEF IInv, Placed, Owned, Launching
  <2>6. OneProcessPerEngine'
        BY <2>2 DEF IInv, Placed, OneProcessPerEngine, Owned
  <2>7. \A q \in Unsignalled' \ lost' : InTable(q)'
        BY <2>1, <2>4 DEF IInv, Placed, Unsignalled, Launching
  <2> QED BY <2>5, <2>6, <2>7 DEF Placed
<1>f. Forgotten' BY ConstantsAssumption DEF IInv, Forgotten
<1> QED BY <1>2, <1>3, <1>4, <1>5, <1>6, <1>f DEF IInv

\* The old process is gone before its entry is deleted.
LEMMA KillOldKeeps == ASSUME IInv, KillOld PROVE IInv'
<1> USE DEF history, KillOld, Die, closing, InLaunch, LaunchStep, TypeOK, Live
<1>1. TypeOK' BY DEF IInv
<1>2. Built' BY DEF IInv, Built, Current
<1>3. Current' BY DEF IInv, Current, Launching
<1>4. Swept' BY DEF IInv, Swept
<1>5. Placed' BY DEF IInv, Placed, Current, OneProcessPerEngine, Owned, Unsignalled, InTable
<1>f. Forgotten' BY ConstantsAssumption DEF IInv, Forgotten
<1> QED BY <1>1, <1>2, <1>3, <1>4, <1>5, <1>f DEF IInv

\* The process that outlives SIGKILL is counted as killed from here on.
LEMMA KillTimesOutKeeps == ASSUME IInv, KillTimesOut PROVE IInv'
<1> USE DEF history, KillTimesOut, LaunchRaises, osVars, tables, closing, LaunchStep, TypeOK, Live
<1>1. launcher.proc \in Proc /\ launcher.proc \in termed BY DEF IInv, Current, Launching
<1>2. launcher' \in {Idle, Stopped} OBVIOUS
<1>3. TypeOK'
  <2>1. killed' \subseteq termed BY <1>1 DEF IInv
  <2>2. Idle.pc = "idle" /\ Stopped.pc = "stopped" BY DEF Idle, Stopped
  <2> QED BY <1>2, <2>1 DEF IInv, Idle, Stopped
<1>4. Built' BY DEF IInv, Built
<1>5. Current' BY <1>2 DEF Current, Launching, Idle, Stopped
<1>6. Swept' BY <1>2 DEF IInv, Swept, InLaunch, Idle, Stopped
<1>7. Placed'
  <2>1. Owned' = Owned \ {launcher.proc} BY <1>1 DEF IInv, Owned
  <2>2. OneProcessPerEngine' BY DEF IInv, Placed, OneProcessPerEngine
  <2>3. Unsignalled' = Unsignalled BY DEF Unsignalled
  <2>4. launcher.proc \notin Unsignalled BY <1>1 DEF Unsignalled
  <2> QED BY <1>2, <2>1, <2>2, <2>3, <2>4 DEF IInv, Placed, InTable, Launching, Idle, Stopped
<1>f. Forgotten' BY <1>2, ConstantsAssumption DEF IInv, Forgotten, Idle, Stopped
<1> QED BY <1>3, <1>4, <1>5, <1>6, <1>7, <1>f DEF IInv

\* Nothing was started.
LEMMA SpawnFailsKeeps == ASSUME IInv, SpawnFails PROVE IInv'
<1> USE DEF history, SpawnFails, LaunchRaises, Idle, Stopped, osVars, tables, closing, InLaunch,
        LaunchStep, TypeOK, Live
<1>1. TypeOK' BY DEF IInv
<1>2. Built' BY DEF IInv, Built
<1>3. Current' BY DEF Current, Launching
<1>4. Swept' BY DEF IInv, Swept
<1>5. Placed' BY DEF IInv, Placed, OneProcessPerEngine, Owned, Unsignalled, InTable, Launching
<1>f. Forgotten' BY ConstantsAssumption DEF IInv, Forgotten
<1> QED BY <1>1, <1>2, <1>3, <1>4, <1>5, <1>f DEF IInv

\* The only step that adds a process: the entry of its engine is vacant, so
\* nothing else of that engine is owned.
LEMMA SpawnKeeps == ASSUME IInv, NEW p \in Proc, Spawn(p) PROVE IInv'
<1> USE ConstantsAssumption DEF history, Spawn, tables, closing, LaunchStep, TypeOK, Live
<1> DEFINE e == launcher.engine
<1>1. e \in Engine /\ launcher.task \in Task /\ processes[e] = Nil
      BY DEF IInv, Current, Launching
<1>2. browser'[p] \in BrowserProcess /\ browser'[p].engine = e
      BY <1>1 DEF IInv, Wanted, Args, BrowserProcess
<1>3. \A q \in Proc : q # p => browser'[q] = browser[q] /\ os'[q] = os[q]
      BY DEF IInv
<1>4. TypeOK' BY <1>1, <1>2, <1>3 DEF IInv
<1>5. Built' BY <1>1, <1>2, <1>3 DEF IInv, Built, BrowserProcess
<1>6. Current' BY <1>1, <1>2 DEF IInv, Current, Launching, BrowserProcess
<1>7. Swept' BY <1>2, <1>3 DEF IInv, Swept, InLaunch
<1>8. Placed' BY <1>1, <1>2, <1>3 DEF IInv, Placed, Built, OneProcessPerEngine, Owned,
        Unsignalled, InTable, Launching
<1>f. Forgotten' BY ConstantsAssumption DEF IInv, Forgotten
<1> QED BY <1>4, <1>5, <1>6, <1>7, <1>8, <1>f DEF IInv

\* The process got its generation; nothing moved.
LEMMA ReadyKeeps == ASSUME IInv, Ready PROVE IInv'
<1> USE ConstantsAssumption DEF history, Ready, NextGeneration, ForgetPredecessor, osVars, closing,
        InLaunch, LaunchStep, TypeOK, Live, BrowserProcess
<1>1. TypeOK'
  <2>1. launcher.proc \in Proc /\ launcher.engine \in Engine /\ browser[launcher.proc] # Nil
        BY DEF IInv, Current, Launching
  <2>2. browser' \in [Proc -> BrowserProcess \cup {Nil}] BY <2>1 DEF IInv
  <2>3. generations' \in [Engine -> Nat] /\ lastTask' \in [Engine -> Task \cup {Nil}]
        BY <2>1 DEF IInv
  <2>4. launcher' \in [pc : {"idle", "stopped", "note"} \cup LaunchStep,
            engine : Engine \cup {Nil}, task : Task \cup {Nil},
            proc : Proc \cup {Nil}, note : BOOLEAN]
        BY DEF IInv
  <2> QED BY <2>2, <2>3, <2>4 DEF IInv
<1>2. Built' BY DEF IInv, Built, Current
<1>3. Current' BY DEF IInv, Current, Launching
<1>4. Swept' BY DEF IInv, Swept
<1>5. Placed' BY DEF IInv, Placed, OneProcessPerEngine, Owned, Unsignalled, InTable, Launching
<1>f. Forgotten' BY ConstantsAssumption DEF IInv, Forgotten
<1> QED BY <1>1, <1>2, <1>3, <1>4, <1>5, <1>f DEF IInv

\* The new process is signalled before it is waited for.
LEMMA NotReadyKeeps == ASSUME IInv, NotReady PROVE IInv'
<1> USE DEF history, NotReady, Signal, tables, closing, InLaunch, LaunchStep, TypeOK, Live
<1>1. TypeOK' BY DEF IInv, Current, Launching
<1>2. Built' BY DEF IInv, Built
<1>3. Current' BY DEF IInv, Current, Launching
<1>4. Swept' BY DEF IInv, Swept
<1>5. Placed' BY DEF IInv, Placed, OneProcessPerEngine, Owned, Unsignalled, InTable, Launching
<1>f. Forgotten' BY ConstantsAssumption DEF IInv, Forgotten
<1> QED BY <1>1, <1>2, <1>3, <1>4, <1>5, <1>f DEF IInv

\* The new process is dead when the launch raises.
LEMMA KillNewKeeps == ASSUME IInv, KillNew PROVE IInv'
<1> USE DEF history, KillNew, Die, LaunchRaises, Idle, Stopped, tables, closing, InLaunch, LaunchStep,
        TypeOK, Live
<1>1. TypeOK' BY DEF IInv
<1>2. Built' BY DEF IInv, Built, Current, Launching
<1>3. Current' BY DEF Current, Launching
<1>4. Swept' BY DEF IInv, Swept
<1>5. Placed' BY DEF IInv, Placed, OneProcessPerEngine, Owned, Unsignalled, InTable
<1>f. Forgotten' BY ConstantsAssumption DEF IInv, Forgotten
<1> QED BY <1>1, <1>2, <1>3, <1>4, <1>5, <1>f DEF IInv

\* The launched process enters the vacant entry before the lock is released.
LEMMA RegisterKeeps == ASSUME IInv, Register PROVE IInv'
<1> USE ConstantsAssumption DEF history, Register, Idle, osVars, closing, InLaunch, LaunchStep, TypeOK,
        Live
<1>1. TypeOK' BY DEF IInv
<1>2. Built' BY DEF IInv, Built, Current, Launching
<1>3. Current' BY DEF IInv, Current, Launching
<1>4. Swept' BY DEF IInv, Swept
<1>5. Placed' BY DEF IInv, Placed, Current, OneProcessPerEngine, Owned, Unsignalled, InTable,
        Launching
<1>f. Forgotten' BY ConstantsAssumption DEF IInv, Forgotten
<1> QED BY <1>1, <1>2, <1>3, <1>4, <1>5, <1>f DEF IInv

\* A live process in the hands of a launch that breaks is lost, and owned by
\* nobody from here on.
LEMMA LaunchBreaksKeeps == ASSUME IInv, LaunchBreaks PROVE IInv'
<1> USE ConstantsAssumption DEF LaunchBreaks, Abandon, Talking, LaunchRaises, Idle, Stopped, osVars,
        tables, closing, InLaunch, LaunchStep, TypeOK, Live
<1>p. launcher.proc \in Proc /\ \A e \in Engine : processes[e] # launcher.proc
      BY DEF IInv, Built, Current, Launching
<1>1. TypeOK' BY <1>p DEF IInv
<1>2. Built' BY DEF IInv, Built
<1>3. Current' BY DEF Current, Launching
<1>4. Swept' BY DEF IInv, Swept
<1>5. Placed' BY <1>p DEF IInv, Placed, OneProcessPerEngine, Owned, Unsignalled, InTable, Launching
<1>6. Forgotten' BY <1>p DEF IInv, Forgotten, Built, Current, Launching
<1> QED BY <1>1, <1>2, <1>3, <1>4, <1>5, <1>6 DEF IInv

\* Only the predecessor on the handle changes.
LEMMA NoteTaskKeeps == ASSUME IInv, NoteTask PROVE IInv'
<1> USE ConstantsAssumption DEF NoteTask, Idle, osVars, closing, InLaunch, LaunchStep, TypeOK,
        Live, BrowserProcess
<1>1. TypeOK' BY DEF IInv, Current
<1>2. Built' BY DEF IInv, Built, Current
<1>3. Current' BY DEF Current, Launching
<1>4. Swept' BY DEF IInv, Swept
<1>5. Placed' BY DEF IInv, Placed, OneProcessPerEngine, Owned, Unsignalled, InTable, Launching
<1>f. Forgotten' BY ConstantsAssumption DEF IInv, Forgotten
<1> QED BY <1>1, <1>2, <1>3, <1>4, <1>5, <1>f DEF IInv

\* A KeyboardInterrupt on the main thread may lose the one process the launch
\* had in hand.
LEMMA LeaveKeeps == ASSUME IInv, Leave PROVE IInv'
<1> USE ConstantsAssumption DEF Leave, Abandon, Talking, Idle, Stopped, osVars, tables, closing,
        LaunchStep, TypeOK, Live
<1>p. Talking => launcher.proc \in Proc /\ \A e \in Engine : processes[e] # launcher.proc
      BY DEF IInv, Built, Current, Launching
<1>1. TypeOK'
  <2>1. lost' \subseteq Proc BY <1>p DEF IInv
  <2>2. launcher' = [pc |-> "stopped", engine |-> Nil, task |-> Nil, proc |-> Nil, note |-> FALSE]
        OBVIOUS
  <2> QED BY <2>1, <2>2 DEF IInv
<1>2. Built' BY DEF IInv, Built
<1>3. Current' BY DEF Current, Launching
<1>4. Swept' BY DEF IInv, Swept, InLaunch
<1>5. Placed' BY <1>p DEF IInv, Placed, Current, OneProcessPerEngine, Owned, Unsignalled, InTable,
        Launching
<1>f. Forgotten' BY <1>p DEF IInv, Forgotten, Built, Current, Launching
<1> QED BY <1>1, <1>2, <1>3, <1>4, <1>5, <1>f DEF IInv

\* From here on no launch begins.
LEMMA SetClosedKeeps == ASSUME IInv, SetClosed PROVE IInv'
<1> USE DEF history, SetClosed, osVars, tables, TypeOK, Live
<1>1. TypeOK' BY DEF IInv
<1>2. Built' BY DEF IInv, Built
<1>3. Current' BY DEF IInv, Current, Launching
<1>4. Swept' BY DEF IInv, Swept
<1>5. Placed' BY DEF IInv, Placed, OneProcessPerEngine, Owned, Unsignalled, InTable, Launching
<1>f. Forgotten' BY ConstantsAssumption DEF IInv, Forgotten
<1> QED BY <1>1, <1>2, <1>3, <1>4, <1>5, <1>f DEF IInv

\* No launch holds the lock.
LEMMA TakeLockKeeps == ASSUME IInv, TakeLock PROVE IInv'
<1> USE DEF history, TakeLock, LockFree, osVars, tables, InLaunch, TypeOK, Live
<1>1. TypeOK' BY DEF IInv
<1>2. Built' BY DEF IInv, Built
<1>3. Current' BY DEF IInv, Current, Launching
<1>4. Swept' BY DEF IInv, Swept
<1>5. Placed' BY DEF IInv, Placed, OneProcessPerEngine, Owned, Unsignalled, InTable, Launching
<1>f. Forgotten' BY ConstantsAssumption DEF IInv, Forgotten
<1> QED BY <1>1, <1>2, <1>3, <1>4, <1>5, <1>f DEF IInv

\* A swept process is dead.
LEMMA SweepKeeps == ASSUME IInv, NEW e \in Engine, Sweep(e) PROVE IInv'
<1> USE DEF history, Sweep, Signal, Die, tables, InLaunch, TypeOK, Live
<1>1. TypeOK' BY DEF IInv
<1>2. Built' BY DEF IInv, Built
<1>3. Current' BY DEF IInv, Current, Launching
<1>4. Swept' BY DEF IInv, Swept
<1>5. Placed' BY DEF IInv, Placed, OneProcessPerEngine, Owned, Unsignalled, InTable, Launching
<1>f. Forgotten' BY ConstantsAssumption DEF IInv, Forgotten
<1> QED BY <1>1, <1>2, <1>3, <1>4, <1>5, <1>f DEF IInv

\* The sweep ends with a process that outlived SIGKILL.
LEMMA SweepTimesOutKeeps == ASSUME IInv, NEW e \in Engine, SweepTimesOut(e) PROVE IInv'
<1> USE DEF history, SweepTimesOut, tables, InLaunch, TypeOK, Live
<1>1. TypeOK' BY DEF IInv
<1>2. Built' BY DEF IInv, Built
<1>3. Current' BY DEF IInv, Current, Launching
<1>4. Swept' BY DEF IInv, Swept
<1>5. Placed' BY DEF IInv, Placed, OneProcessPerEngine, Owned, Unsignalled, InTable, Launching
<1>f. Forgotten' BY ConstantsAssumption DEF IInv, Forgotten
<1> QED BY <1>1, <1>2, <1>3, <1>4, <1>5, <1>f DEF IInv

\* Every entry has been swept, so clearing the table loses no live process.
LEMMA SweepDoneKeeps == ASSUME IInv, SweepDone PROVE IInv'
<1> USE ConstantsAssumption DEF history, SweepDone, osVars, InLaunch, TypeOK, Live
<1>1. TypeOK' BY DEF IInv
<1>2. Built' BY DEF IInv, Built
<1>3. Current' BY DEF IInv, Current, Launching, Swept
<1>4. Swept' BY DEF IInv, Swept
<1>5. Placed'
  <2> USE DEF IInv, Placed, Built, Swept, Unsignalled, Owned, Launching
  <2>1. \A p \in Proc : Live(p) => browser[p] # Nil /\ browser[p].engine \in Engine /\
          ~InTable(p)
        BY DEF InTable, BrowserProcess
  <2>2. Owned' = Owned /\ Unsignalled' = Unsignalled OBVIOUS
  <2>3. launcher.pc # "stopped" \/ ~LaunchInMain => Owned = {} BY <2>1
  <2>4. OneProcessPerEngine' BY DEF OneProcessPerEngine
  <2>5. Unsignalled \ lost = {} BY <2>1
  <2> QED BY <2>2, <2>3, <2>4, <2>5
<1>f. Forgotten' BY ConstantsAssumption DEF IInv, Forgotten
<1> QED BY <1>1, <1>2, <1>3, <1>4, <1>5, <1>f DEF IInv

\* close_all gives up; the table stays as it is.
LEMMA InterruptCloseKeeps == ASSUME IInv, InterruptClose PROVE IInv'
<1> USE DEF history, InterruptClose, osVars, tables, InLaunch, TypeOK, Live
<1>1. TypeOK' BY DEF IInv
<1>2. Built' BY DEF IInv, Built
<1>3. Current' BY DEF IInv, Current, Launching
<1>4. Swept' BY DEF IInv, Swept
<1>5. Placed' BY DEF IInv, Placed, OneProcessPerEngine, Owned, Unsignalled, InTable, Launching
<1>f. Forgotten' BY ConstantsAssumption DEF IInv, Forgotten
<1> QED BY <1>1, <1>2, <1>3, <1>4, <1>5, <1>f DEF IInv

\* The port is no part of the invariant.
LEMMA ListenKeeps == ASSUME IInv, NEW p \in Proc, Listen(p) PROVE IInv'
<1> USE DEF history, Listen, tables, closing, InLaunch, TypeOK, Live
<1>1. TypeOK' BY DEF IInv
<1>2. Built' BY DEF IInv, Built
<1>3. Current' BY DEF IInv, Current, Launching
<1>4. Swept' BY DEF IInv, Swept
<1>5. Placed' BY DEF IInv, Placed, OneProcessPerEngine, Owned, Unsignalled, InTable, Launching
<1>f. Forgotten' BY ConstantsAssumption DEF IInv, Forgotten
<1> QED BY <1>1, <1>2, <1>3, <1>4, <1>5, <1>f DEF IInv

\* Nor is what becomes of it.
LEMMA HangKeeps == ASSUME IInv, NEW p \in Proc, Hang(p) PROVE IInv'
<1> USE DEF history, Hang, tables, closing, InLaunch, TypeOK, Live
<1>1. TypeOK' BY DEF IInv
<1>2. Built' BY DEF IInv, Built
<1>3. Current' BY DEF IInv, Current, Launching
<1>4. Swept' BY DEF IInv, Swept
<1>5. Placed' BY DEF IInv, Placed, OneProcessPerEngine, Owned, Unsignalled, InTable, Launching
<1>f. Forgotten' BY ConstantsAssumption DEF IInv, Forgotten
<1> QED BY <1>1, <1>2, <1>3, <1>4, <1>5, <1>f DEF IInv

\* Nor that it answers again.
LEMMA RecoverKeeps == ASSUME IInv, NEW p \in Proc, Recover(p) PROVE IInv'
<1> USE DEF history, Recover, tables, closing, InLaunch, TypeOK, Live
<1>1. TypeOK' BY DEF IInv
<1>2. Built' BY DEF IInv, Built
<1>3. Current' BY DEF IInv, Current, Launching
<1>4. Swept' BY DEF IInv, Swept
<1>5. Placed' BY DEF IInv, Placed, OneProcessPerEngine, Owned, Unsignalled, InTable, Launching
<1>f. Forgotten' BY ConstantsAssumption DEF IInv, Forgotten
<1> QED BY <1>1, <1>2, <1>3, <1>4, <1>5, <1>f DEF IInv

\* A process that dies is owned by nobody.
LEMMA ExitKeeps == ASSUME IInv, NEW p \in Proc, Exit(p) PROVE IInv'
<1> USE DEF history, Exit, Die, tables, closing, InLaunch, TypeOK, Live
<1>1. TypeOK' BY DEF IInv
<1>2. Built' BY DEF IInv, Built
<1>3. Current' BY DEF IInv, Current, Launching
<1>4. Swept' BY DEF IInv, Swept
<1>5. Placed' BY DEF IInv, Placed, OneProcessPerEngine, Owned, Unsignalled, InTable, Launching
<1>f. Forgotten' BY ConstantsAssumption DEF IInv, Forgotten
<1> QED BY <1>1, <1>2, <1>3, <1>4, <1>5, <1>f DEF IInv

-----------------------------------------------------------------------------
\* No process is born yet, so nothing is owned.
LEMMA InitIInv == Init => IInv
<1> SUFFICES ASSUME Init PROVE IInv
    OBVIOUS
<1> USE ConstantsAssumption DEF Init, Idle, TypeOK, InLaunch, LaunchStep, Live
<1>1. TypeOK OBVIOUS
<1>2. Built BY DEF Built
<1>3. Current BY DEF Current, Launching
<1>4. Swept BY DEF Swept
<1>5. Placed BY DEF Placed, OneProcessPerEngine, Owned, Unsignalled
<1>6. Forgotten BY DEF Forgotten
<1> QED BY <1>1, <1>2, <1>3, <1>4, <1>5, <1>6 DEF IInv

\* Every step of the launcher, the closer and the engines keeps the invariant.
LEMMA NextKeeps == IInv /\ [Next]_vars => IInv'
<1> SUFFICES ASSUME IInv, [Next]_vars PROVE IInv'
    OBVIOUS
<1>1. CASE Launch
      BY <1>1, LaunchFirstKeeps, ReuseKeeps, ReplaceKeeps, DropKeeps DEF Launch
<1>2. CASE InsideLaunch
      BY <1>2, KillOldKeeps, KillTimesOutKeeps, SpawnFailsKeeps, SpawnKeeps, ReadyKeeps,
         NotReadyKeeps, KillNewKeeps, RegisterKeeps DEF InsideLaunch
<1>3. CASE LaunchBreaks \/ NoteTask \/ Leave
      BY <1>3, LaunchBreaksKeeps, NoteTaskKeeps, LeaveKeeps
<1>4. CASE SetClosed \/ InsideClose \/ InterruptClose
      BY <1>4, SetClosedKeeps, TakeLockKeeps, SweepKeeps, SweepTimesOutKeeps, SweepDoneKeeps,
         InterruptCloseKeeps DEF InsideClose
<1>5. CASE Environment
      BY <1>5, ListenKeeps, HangKeeps, RecoverKeeps, ExitKeeps DEF Environment
<1>6. CASE UNCHANGED vars
  <2> USE <1>6 DEF vars, osVars, tables, closing, history
  <2>1. TypeOK' BY DEF IInv, TypeOK
  <2>2. Built' BY DEF IInv, Built
  <2>3. Current' BY DEF IInv, Current, Launching, Live
  <2>4. Swept' BY DEF IInv, Swept, InLaunch, Live
  <2>5. Placed'
        BY DEF IInv, Placed, OneProcessPerEngine, Owned, Unsignalled, Live, InTable, Launching
  <2>6. Forgotten' BY DEF IInv, Forgotten
  <2> QED BY <2>1, <2>2, <2>3, <2>4, <2>5, <2>6 DEF IInv
<1> QED BY <1>1, <1>2, <1>3, <1>4, <1>5, <1>6 DEF Next

\* IInv is an invariant of every instance of BrowserManager.
THEOREM Invariance == Spec => []IInv
<1>1. Init => IInv BY InitIInv
<1>2. IInv /\ [Next]_vars => IInv' BY NextKeeps
<1> QED BY <1>1, <1>2, PTL DEF Spec

\* The variables keep their types: a handle never names a process without its
\* BrowserProcess, a killed process was signalled before.
THEOREM TypeCorrect == Spec => []TypeOK
<1>1. IInv => TypeOK BY DEF IInv
<1> QED BY <1>1, Invariance, PTL

\* A worker runs one process per engine, with the exceptions the property
\* names: a process that outlived SIGKILL, without cgroups a hung one that was
\* sent SIGTERM and not waited for, and one that its launch lost.
THEOREM OneProcess == Spec => []OneProcessPerEngine
<1>1. IInv => OneProcessPerEngine BY DEF IInv, Placed
<1> QED BY <1>1, Invariance, PTL

\* What the end of close_all leaves of the invariant: the table is empty and no
\* launch is under way, so that what is live and unsignalled was lost.
LEMMA DoneLeavesLost == IInv /\ closer = "done" => Unsignalled \subseteq lost
<1> SUFFICES ASSUME IInv, closer = "done", NEW p \in Unsignalled \ lost PROVE FALSE
    OBVIOUS
<1>1. \A e \in Engine : processes[e] = Nil BY DEF IInv, Swept
<1>2. ~Launching BY DEF IInv, Swept, Launching, InLaunch, LaunchStep
<1>3. p \in Proc /\ os[p] = "live" BY DEF Unsignalled, Live
<1>4. browser[p] \in BrowserProcess BY <1>3 DEF IInv, Built, TypeOK
<1>5. ~InTable(p) BY <1>1, <1>3, <1>4, ConstantsAssumption DEF InTable, BrowserProcess
<1> QED BY <1>2, <1>5 DEF IInv, Placed

\* A set without two members has one at most.
LEMMA AtMostOne == ASSUME NEW S, \A p, q \in S : p = q PROVE Cardinality(S) <= 1
<1>1. CASE S = {} BY <1>1, FS_EmptySet
<1>2. CASE S # {}
  <2>1. PICK p \in S : S = {p} BY <1>2
  <2>2. Cardinality({p}) = 1 BY FS_Singleton
  <2> QED BY <2>1, <2>2
<1> QED BY <1>1, <1>2

-----------------------------------------------------------------------------
(* What a launch hands over, and what the rows say of it.                  *)

\* The process in the hands of a launch was started for its task, was not
\* signalled, and holds its port once it was found ready; the table names a
\* signalled process only when SIGKILL did not take, or when a serial run was
\* interrupted while it waited for it.
Handing ==
    /\ \A p \in termed : Live(p)
    /\ Launching => browser[launcher.proc].args = Wanted(launcher.engine, launcher.task)
    /\ launcher.pc \in {"ready", "warm"} => launcher.proc \notin termed
    /\ \A e \in Engine : processes[e] # Nil /\ processes[e] \in termed =>
          \/ processes[e] \in killed
          \/ launcher.pc = "kill_old" /\ launcher.proc = processes[e]
          \/ launcher.pc = "stopped"
    /\ LaunchInMain /\ launcher.pc # "stopped" => killed = {} /\ closer = "off"
    /\ launcher.pc = "warm" /\ Live(launcher.proc) =>
          net[launcher.proc] # "none" \/ (LaunchInMain /\ ~HasCgroup)

\* Generations grow, and the task noted for an engine is the last that ran on
\* the process its table entry names.
Traced ==
    /\ \A p \in Proc : browser[p] # Nil =>
          browser[p].generation <= generations[browser[p].engine]
    /\ GenerationNamesProcess
    /\ \A p \in Proc : os[p] = "unborn" => ranLast[p] = Nil
    /\ \A p \in lost : ranLast[p] = Nil
    /\ Launching => ranLast[launcher.proc] = Nil
    /\ launcher.pc = "warm" => lastTask[launcher.engine] = Nil
    /\ \A e \in Engine : processes[e] # Nil => lastTask[e] = ranLast[processes[e]]
    /\ launcher.pc = "note" =>
          /\ lastTask[launcher.engine] = ranLast[launcher.proc]
          /\ processes[launcher.engine] \in {launcher.proc, Nil}

\* With IInv these two are inductive.
HInv == Handing /\ Traced

\* The new launch has no process yet.
LEMMA LaunchFirstTraces == ASSUME IInv, HInv, NEW e \in Engine, NEW t \in Task, LaunchFirst(e, t) PROVE HInv'
<1> USE ConstantsAssumption DEF history, LaunchFirst, MayLaunch, Call, HandlesReady, osVars, tables, closing, InLaunch, LaunchStep, TypeOK, Live
<1>1. Handing' BY DEF IInv, HInv, Handing, Launching, Current, Built
<1>2. Traced' BY DEF IInv, HInv, Traced, Launching, Current, Built, GenerationNamesProcess, BrowserProcess
<1> QED BY <1>1, <1>2 DEF HInv

\* What is reused is what the table names.
LEMMA ReuseTraces == ASSUME IInv, HInv, NEW e \in Engine, NEW t \in Task, Reuse(e, t) PROVE HInv'
<1> USE ConstantsAssumption DEF history, Reuse, MayLaunch, Call, HandlesReady, osVars, tables, closing, InLaunch, LaunchStep, TypeOK, Live
<1>1. Handing' BY DEF IInv, HInv, Handing, Launching, Current, Built
<1>2. Traced' BY DEF IInv, HInv, Traced, Launching, Current, Built, GenerationNamesProcess, BrowserProcess
<1> QED BY <1>1, <1>2 DEF HInv

\* The signalled process is the one the launch waits for.
LEMMA ReplaceTraces == ASSUME IInv, HInv, NEW e \in Engine, NEW t \in Task, Replace(e, t) PROVE HInv'
<1> USE ConstantsAssumption DEF history, Replace, MayLaunch, Call, HandlesReady, Signal, tables, closing, InLaunch, LaunchStep, TypeOK, Live
<1>1. Handing' BY DEF IInv, HInv, Handing, Launching, Current, Built
<1>2. Traced' BY DEF IInv, HInv, Traced, Launching, Current, Built, GenerationNamesProcess, BrowserProcess
<1> QED BY <1>1, <1>2 DEF HInv

\* What was signalled has left the table.
LEMMA DropTraces == ASSUME IInv, HInv, NEW e \in Engine, NEW t \in Task, Drop(e, t) PROVE HInv'
<1> USE ConstantsAssumption DEF history, Drop, MayLaunch, Call, HandlesReady, Signal, LetGo, Die, closing, InLaunch, LaunchStep, TypeOK, Live
<1>1. Handing' BY DEF IInv, HInv, Handing, Launching, Current, Built
<1>2. Traced' BY DEF IInv, HInv, Traced, Launching, Current, Built, GenerationNamesProcess, BrowserProcess
<1> QED BY <1>1, <1>2 DEF HInv

\* What died has left the table.
LEMMA KillOldTraces == ASSUME IInv, HInv, KillOld PROVE HInv'
<1> USE ConstantsAssumption DEF history, KillOld, Die, closing, InLaunch, LaunchStep, TypeOK, Live
<1>1. Handing' BY DEF IInv, HInv, Handing, Launching, Current, Built
<1>2. Traced' BY DEF IInv, HInv, Traced, Launching, Current, Built, GenerationNamesProcess, BrowserProcess
<1> QED BY <1>1, <1>2 DEF HInv

\* A serial run stops here; a worker goes on with a process counted as killed.
LEMMA KillTimesOutTraces == ASSUME IInv, HInv, KillTimesOut PROVE HInv'
<1> USE ConstantsAssumption DEF history, KillTimesOut, LaunchRaises, Idle, Stopped, osVars, tables, closing, InLaunch, LaunchStep, TypeOK, Live
<1>1. Handing' BY DEF IInv, HInv, Handing, Launching, Current, Built
<1>2. Traced' BY DEF IInv, HInv, Traced, Launching, Current, Built, GenerationNamesProcess, BrowserProcess
<1> QED BY <1>1, <1>2 DEF HInv

\* Nothing was started.
LEMMA SpawnFailsTraces == ASSUME IInv, HInv, SpawnFails PROVE HInv'
<1> USE ConstantsAssumption DEF history, SpawnFails, LaunchRaises, Idle, Stopped, osVars, tables, closing, InLaunch, LaunchStep, TypeOK, Live
<1>1. Handing' BY DEF IInv, HInv, Handing, Launching, Current, Built
<1>2. Traced' BY DEF IInv, HInv, Traced, Launching, Current, Built, GenerationNamesProcess, BrowserProcess
<1> QED BY <1>1, <1>2 DEF HInv

\* The process is started with the arguments of its task, and none ran on it.
LEMMA SpawnTraces == ASSUME IInv, HInv, NEW p \in Proc, Spawn(p) PROVE HInv'
<1> USE ConstantsAssumption DEF history, Spawn, tables, closing, InLaunch, LaunchStep, TypeOK, Live
<1>a. /\ launcher.pc = "spawn" /\ launcher'.pc = "ready" /\ launcher'.proc = p
      /\ launcher'.engine = launcher.engine /\ launcher'.task = launcher.task
      /\ browser'[p].args = Wanted(launcher.engine, launcher.task)
      BY DEF IInv
<1>b. p \notin termed /\ \A e \in Engine : processes[e] # p BY DEF IInv, Built, HInv, Handing
<1>1. Handing' BY <1>a, <1>b DEF IInv, HInv, Handing, Launching, Wanted
<1>2. Traced' BY DEF IInv, HInv, Traced, Launching, Current, Built, GenerationNamesProcess, BrowserProcess
<1> QED BY <1>1, <1>2 DEF HInv

\* The generation is above all others of the engine; the answer on the port is
\* the process's own, unless a hung one was dropped and left there.
LEMMA ReadyTraces == ASSUME IInv, HInv, Ready PROVE HInv'
<1> USE ConstantsAssumption DEF history, Ready, NextGeneration, ForgetPredecessor, osVars, closing, InLaunch, LaunchStep, TypeOK, Live
<1> DEFINE p == launcher.proc
<1>a. /\ p \in Proc /\ launcher'.pc = "warm" /\ launcher'.proc = p
      /\ launcher'.engine = launcher.engine /\ launcher'.task = launcher.task
      /\ browser'[p].args = browser[p].args /\ p \notin termed
      BY DEF IInv, Current, Launching, HInv, Handing
<1>b. net[p] # "none" \/ (LaunchInMain /\ ~HasCgroup)
  <2>1. SUFFICES ASSUME LaunchInMain, HasCgroup, net[p] = "none" PROVE FALSE
        BY DEF SamePort, Answers, Served
  <2>2. PICK q \in Proc : SamePort(p, q) /\ Answers(q) BY DEF Served
  <2>3. q # p /\ browser[q].engine = browser[p].engine BY <2>1, <2>2 DEF SamePort, Answers
  <2>4. {p, q} \cap (killed \cup lost) # {}
        BY <1>a, <2>1, <2>2, <2>3 DEF Answers, IInv, Placed, OneProcessPerEngine
  <2> QED BY <2>1, <2>4 DEF HInv, Handing, IInv, Forgotten
<1>1. Handing' BY <1>a, <1>b DEF IInv, HInv, Handing, Launching, Wanted
<1>2. Traced' BY DEF IInv, HInv, Traced, Launching, Current, Built, GenerationNamesProcess, BrowserProcess
<1> QED BY <1>1, <1>2 DEF HInv

\* The signalled process is not in the table.
LEMMA NotReadyTraces == ASSUME IInv, HInv, NotReady PROVE HInv'
<1> USE ConstantsAssumption DEF history, NotReady, Signal, tables, closing, InLaunch, LaunchStep, TypeOK, Live
<1>1. Handing' BY DEF IInv, HInv, Handing, Launching, Current, Built
<1>2. Traced' BY DEF IInv, HInv, Traced, Launching, Current, Built, GenerationNamesProcess, BrowserProcess
<1> QED BY <1>1, <1>2 DEF HInv

\* What died was not in the table.
LEMMA KillNewTraces == ASSUME IInv, HInv, KillNew PROVE HInv'
<1> USE ConstantsAssumption DEF history, KillNew, Die, LaunchRaises, Idle, Stopped, tables, closing, InLaunch, LaunchStep, TypeOK, Live
<1>1. Handing' BY DEF IInv, HInv, Handing, Launching, Current, Built
<1>2. Traced' BY DEF IInv, HInv, Traced, Launching, Current, Built, GenerationNamesProcess, BrowserProcess
<1> QED BY <1>1, <1>2 DEF HInv

\* The process enters the table, with no task noted for it.
LEMMA RegisterTraces == ASSUME IInv, HInv, Register PROVE HInv'
<1> USE ConstantsAssumption DEF history, Register, Idle, osVars, closing, InLaunch, LaunchStep, TypeOK, Live
<1>1. Handing' BY DEF IInv, HInv, Handing, Launching, Current, Built
<1>2. Traced' BY DEF IInv, HInv, Traced, Launching, Current, Built, GenerationNamesProcess, BrowserProcess
<1> QED BY <1>1, <1>2 DEF HInv

\* No task ever ran on the process that is lost.
LEMMA LaunchBreaksTraces == ASSUME IInv, HInv, LaunchBreaks PROVE HInv'
<1> USE ConstantsAssumption DEF LaunchBreaks, Abandon, Talking, LaunchRaises, Idle, Stopped, osVars, tables, closing, InLaunch, LaunchStep, TypeOK, Live
<1>1. Handing' BY DEF IInv, HInv, Handing, Launching, Current, Built
<1>2. Traced' BY DEF IInv, HInv, Traced, Launching, Current, Built, GenerationNamesProcess, BrowserProcess
<1> QED BY <1>1, <1>2 DEF HInv

\* The task is noted for the engine and for the process at once.
LEMMA NoteTaskTraces == ASSUME IInv, HInv, NoteTask PROVE HInv'
<1> USE ConstantsAssumption DEF NoteTask, Idle, osVars, closing, InLaunch, LaunchStep, TypeOK, Live
<1>1. Handing' BY DEF IInv, HInv, Handing, Launching, Current, Built
<1>2. Traced' BY DEF IInv, HInv, Traced, Forgotten, Launching, Current, Built, GenerationNamesProcess, BrowserProcess
<1> QED BY <1>1, <1>2 DEF HInv

\* The main thread has left the launch for good.
LEMMA LeaveTraces == ASSUME IInv, HInv, Leave PROVE HInv'
<1> USE ConstantsAssumption DEF Leave, Abandon, Talking, Idle, Stopped, osVars, tables, closing, InLaunch, LaunchStep, TypeOK, Live
<1>1. Handing' BY DEF IInv, HInv, Handing, Launching, Current, Built
<1>2. Traced' BY DEF IInv, HInv, Traced, Launching, Current, Built, GenerationNamesProcess, BrowserProcess
<1> QED BY <1>1, <1>2 DEF HInv

\* Nothing the rows name has changed.
LEMMA SetClosedTraces == ASSUME IInv, HInv, SetClosed PROVE HInv'
<1> USE ConstantsAssumption DEF history, SetClosed, osVars, tables, InLaunch, LaunchStep, TypeOK, Live
<1>1. Handing' BY DEF IInv, HInv, Handing, Launching, Current, Built
<1>2. Traced' BY DEF IInv, HInv, Traced, Launching, Current, Built, GenerationNamesProcess, BrowserProcess
<1> QED BY <1>1, <1>2 DEF HInv

\* Nor by the lock.
LEMMA TakeLockTraces == ASSUME IInv, HInv, TakeLock PROVE HInv'
<1> USE ConstantsAssumption DEF history, TakeLock, osVars, tables, InLaunch, LaunchStep, TypeOK, Live
<1>1. Handing' BY DEF IInv, HInv, Handing, Launching, Current, Built
<1>2. Traced' BY DEF IInv, HInv, Traced, Launching, Current, Built, GenerationNamesProcess, BrowserProcess
<1> QED BY <1>1, <1>2 DEF HInv

\* The dead are not signalled.
LEMMA SweepTraces == ASSUME IInv, HInv, NEW e \in Engine, Sweep(e) PROVE HInv'
<1> USE ConstantsAssumption DEF history, Sweep, Die, tables, InLaunch, LaunchStep, TypeOK, Live
<1>1. Handing' BY DEF IInv, HInv, Handing, Launching, Current, Built
<1>2. Traced' BY DEF IInv, HInv, Traced, Launching, Current, Built, GenerationNamesProcess, BrowserProcess
<1> QED BY <1>1, <1>2 DEF HInv

\* The process that outlives SIGKILL is counted as killed.
LEMMA SweepTimesOutTraces == ASSUME IInv, HInv, NEW e \in Engine, SweepTimesOut(e) PROVE HInv'
<1> USE ConstantsAssumption DEF history, SweepTimesOut, tables, InLaunch, LaunchStep, TypeOK, Live
<1>1. Handing' BY DEF IInv, HInv, Handing, Launching, Current, Built
<1>2. Traced' BY DEF IInv, HInv, Traced, Launching, Current, Built, GenerationNamesProcess, BrowserProcess
<1> QED BY <1>1, <1>2 DEF HInv

\* An empty table names nothing.
LEMMA SweepDoneTraces == ASSUME IInv, HInv, SweepDone PROVE HInv'
<1> USE ConstantsAssumption DEF history, SweepDone, osVars, InLaunch, LaunchStep, TypeOK, Live
<1>1. Handing' BY DEF IInv, HInv, Handing, Launching, Current, Built
<1>2. Traced' BY DEF IInv, HInv, Traced, Launching, Current, Built, GenerationNamesProcess, BrowserProcess
<1> QED BY <1>1, <1>2 DEF HInv

\* Nothing the rows name has changed.
LEMMA InterruptCloseTraces == ASSUME IInv, HInv, InterruptClose PROVE HInv'
<1> USE ConstantsAssumption DEF history, InterruptClose, osVars, tables, InLaunch, LaunchStep, TypeOK, Live
<1>1. Handing' BY DEF IInv, HInv, Handing, Launching, Current, Built
<1>2. Traced' BY DEF IInv, HInv, Traced, Launching, Current, Built, GenerationNamesProcess, BrowserProcess
<1> QED BY <1>1, <1>2 DEF HInv

\* A port that gets bound.
LEMMA ListenTraces == ASSUME IInv, HInv, NEW p \in Proc, Listen(p) PROVE HInv'
<1> USE ConstantsAssumption DEF history, Listen, tables, closing, InLaunch, LaunchStep, TypeOK, Live
<1>1. Handing' BY DEF IInv, HInv, Handing, Launching, Current, Built
<1>2. Traced' BY DEF IInv, HInv, Traced, Launching, Current, Built, GenerationNamesProcess, BrowserProcess
<1> QED BY <1>1, <1>2 DEF HInv

\* A hung process keeps its port.
LEMMA HangTraces == ASSUME IInv, HInv, NEW p \in Proc, Hang(p) PROVE HInv'
<1> USE ConstantsAssumption DEF history, Hang, tables, closing, InLaunch, LaunchStep, TypeOK, Live
<1>1. Handing' BY DEF IInv, HInv, Handing, Launching, Current, Built
<1>2. Traced' BY DEF IInv, HInv, Traced, Launching, Current, Built, GenerationNamesProcess, BrowserProcess
<1> QED BY <1>1, <1>2 DEF HInv

\* So does one that answers again.
LEMMA RecoverTraces == ASSUME IInv, HInv, NEW p \in Proc, Recover(p) PROVE HInv'
<1> USE ConstantsAssumption DEF history, Recover, tables, closing, InLaunch, LaunchStep, TypeOK, Live
<1>1. Handing' BY DEF IInv, HInv, Handing, Launching, Current, Built
<1>2. Traced' BY DEF IInv, HInv, Traced, Launching, Current, Built, GenerationNamesProcess, BrowserProcess
<1> QED BY <1>1, <1>2 DEF HInv

\* The dead are not signalled and hold no port.
LEMMA ExitTraces == ASSUME IInv, HInv, NEW p \in Proc, Exit(p) PROVE HInv'
<1> USE ConstantsAssumption DEF history, Exit, Die, tables, closing, InLaunch, LaunchStep, TypeOK, Live
<1>1. Handing' BY DEF IInv, HInv, Handing, Launching, Current, Built
<1>2. Traced' BY DEF IInv, HInv, Traced, Launching, Current, Built, GenerationNamesProcess, BrowserProcess
<1> QED BY <1>1, <1>2 DEF HInv

\* Before the first launch no process was started.
LEMMA InitHInv == Init => HInv
<1> SUFFICES ASSUME Init PROVE HInv
    OBVIOUS
<1> USE ConstantsAssumption DEF Init, Idle, InLaunch, LaunchStep, Live
<1>1. Handing BY DEF Handing, Launching
<1>2. Traced BY DEF Traced, Launching, GenerationNamesProcess
<1> QED BY <1>1, <1>2 DEF HInv

\* Every step keeps both invariants.
LEMMA NextTraces == IInv /\ HInv /\ [Next]_vars => HInv'
<1> SUFFICES ASSUME IInv, HInv, [Next]_vars PROVE HInv'
    OBVIOUS
<1>1. CASE Launch
      BY <1>1, LaunchFirstTraces, ReuseTraces, ReplaceTraces, DropTraces DEF Launch
<1>2. CASE InsideLaunch
      BY <1>2, KillOldTraces, KillTimesOutTraces, SpawnFailsTraces, SpawnTraces, ReadyTraces,
         NotReadyTraces, KillNewTraces, RegisterTraces DEF InsideLaunch
<1>3. CASE LaunchBreaks \/ NoteTask \/ Leave
      BY <1>3, LaunchBreaksTraces, NoteTaskTraces, LeaveTraces
<1>4. CASE SetClosed \/ InsideClose \/ InterruptClose
      BY <1>4, SetClosedTraces, TakeLockTraces, SweepTraces, SweepTimesOutTraces,
         SweepDoneTraces, InterruptCloseTraces DEF InsideClose
<1>5. CASE Environment
      BY <1>5, ListenTraces, HangTraces, RecoverTraces, ExitTraces DEF Environment
<1>6. CASE UNCHANGED vars
  <2> USE <1>6 DEF vars, osVars, tables, closing, history
  <2>1. Handing' BY DEF HInv, Handing, Launching, Live
  <2>2. Traced' BY DEF HInv, Traced, Launching, GenerationNamesProcess
  <2> QED BY <2>1, <2>2 DEF HInv
<1> QED BY <1>1, <1>2, <1>3, <1>4, <1>5, <1>6 DEF Next

\* HInv is an invariant of every instance of BrowserManager.
THEOREM HistoryInvariance == Spec => []HInv
<1>1. Init => HInv BY InitHInv
<1>2. IInv /\ HInv /\ [Next]_vars => HInv' BY NextTraces
<1> QED BY <1>1, <1>2, Invariance, PTL DEF Spec

\* After close_all has returned, every process this manager ever started is
\* dead or signalled, but for those their own launch has lost: no task ever got
\* one of these, and a serial run has one at most.
THEOREM LeavesNothing == Spec => []NothingLeftBehind
<1>1. IInv /\ HInv => NothingLeftBehind
  <2> SUFFICES ASSUME IInv, HInv PROVE NothingLeftBehind
      OBVIOUS
  <2>1. closer = "done" => Unsignalled \subseteq lost BY DoneLeavesLost
  <2>2. \A p \in lost : ranLast[p] = Nil /\ \A e \in Engine : processes[e] # p
        BY DEF IInv, HInv, Forgotten, Traced
  <2>3. LaunchInMain => Cardinality(lost) <= 1 BY AtMostOne DEF IInv, Forgotten
  <2> QED BY <2>1, <2>2, <2>3 DEF NothingLeftBehind
<1> QED BY <1>1, Invariance, HistoryInvariance, PTL

\* Only Reuse and Register hand a process over.
LEMMA NextHandsOver == IInv /\ HInv /\ [Next]_vars => [HandOver]_vars
<1> SUFFICES ASSUME IInv, HInv, Next, launcher.pc # "note", launcher'.pc = "note"
             PROVE  HandOver
    BY DEF HandOver
<1>1. ASSUME NEW e \in Engine, NEW t \in Task, Reuse(e, t) PROVE HandOver
  <2> USE <1>1 DEF Reuse, MayLaunch, Call, osVars, tables
  <2>1. /\ launcher'.proc = processes[e] /\ launcher'.engine = e /\ launcher'.task = t
        /\ processes' = processes /\ browser' = browser /\ termed' = termed
        /\ killed' = killed /\ os' = os /\ net' = net
        OBVIOUS
  <2>2. processes[e] \notin termed \/ processes[e] \in killed BY DEF HInv, Handing
  <2> QED BY <2>1, <2>2 DEF HandOver, Answers, SameArgs
<1>2. CASE Register
  <2> USE <1>2 DEF Register, osVars, Launching
  <2> DEFINE p == launcher.proc
  <2>1. launcher'.proc = p /\ launcher'.engine = launcher.engine /\ launcher'.task = launcher.task
        BY DEF IInv, TypeOK, Idle
  <2>2. /\ browser' = browser /\ termed' = termed /\ killed' = killed /\ os' = os /\ net' = net
        /\ processes' = [processes EXCEPT ![launcher.engine] = p]
        OBVIOUS
  <2>3. processes'[launcher.engine] = p
        BY <2>2 DEF IInv, TypeOK, Current, LaunchStep
  <2>4. /\ browser[p].args = Wanted(launcher.engine, launcher.task) /\ p \notin termed
        /\ os[p] = "live" => net[p] # "none" \/ (LaunchInMain /\ ~HasCgroup)
        BY DEF HInv, Handing, Live
  <2> QED BY <2>1, <2>2, <2>3, <2>4 DEF HandOver, Wanted
<1>3. CASE \E e \in Engine, t \in Task : LaunchFirst(e, t) \/ Replace(e, t) \/ Drop(e, t)
      BY <1>3 DEF LaunchFirst, Replace, Drop, Call
<1>4. CASE InsideLaunch /\ ~Register
  <2>1. KillTimesOut \/ SpawnFails \/ KillNew => launcher'.pc \in {"idle", "stopped"}
        BY DEF KillTimesOut, SpawnFails, KillNew, LaunchRaises, Idle, Stopped
  <2>2. KillOld \/ Ready \/ NotReady => launcher'.pc \in {"spawn", "warm", "kill_new"}
        BY DEF KillOld, Ready, NotReady, IInv, TypeOK
  <2>3. \A p \in Proc : Spawn(p) => launcher'.pc = "ready" BY DEF Spawn, IInv, TypeOK
  <2> QED BY <1>4, <2>1, <2>2, <2>3 DEF InsideLaunch
<1>5. CASE LaunchBreaks \/ NoteTask \/ Leave
      BY <1>5 DEF LaunchBreaks, LaunchRaises, NoteTask, Leave, Idle, Stopped
<1>6. CASE SetClosed \/ InsideClose \/ InterruptClose \/ Environment
      BY <1>6 DEF SetClosed, InsideClose, TakeLock, Sweep, SweepTimesOut, SweepDone,
         InterruptClose, Environment, Listen, Hang, Recover, Exit
<1> QED BY <1>1, <1>2, <1>3, <1>4, <1>5, <1>6 DEF Next, Launch

\* A task gets the registered process, started with the arguments its profile
\* wants, never one that was signalled and could have died of it, and on a port
\* of its own: only a serial run without cgroups can find a hung process there.
THEOREM UsableProcess == Spec => HandsOverUsableProcess
<1>1. IInv /\ HInv /\ [Next]_vars => [HandOver]_vars BY NextHandsOver
<1> QED BY <1>1, Invariance, HistoryInvariance, PTL DEF Spec, HandsOverUsableProcess

\* The predecessor a handle is given ran on the very same process.
PredecessorStep ==
    \A p \in Proc : browser[p] # Nil /\ browser'[p].prev_task_id # browser[p].prev_task_id
        => browser'[p].prev_task_id = ranLast[p]

\* Only note_task writes a predecessor.
LEMMA NextKeepsPredecessor == IInv /\ HInv /\ [Next]_vars => [PredecessorStep]_vars
<1> SUFFICES ASSUME IInv, HInv, Next PROVE PredecessorStep
    OBVIOUS
<1>1. CASE NoteTask
  <2>1. launcher.proc \in Proc /\ browser[launcher.proc] \in BrowserProcess
        BY <1>1 DEF NoteTask, IInv, TypeOK, Current
  <2>2. lastTask[launcher.engine] = ranLast[launcher.proc] BY <1>1 DEF NoteTask, HInv, Traced
  <2>3. browser'[launcher.proc].prev_task_id = lastTask[launcher.engine]
        BY <1>1, <2>1 DEF NoteTask, IInv, TypeOK, BrowserProcess
  <2>4. \A p \in Proc : p # launcher.proc => browser'[p] = browser[p]
        BY <1>1 DEF NoteTask, IInv, TypeOK
  <2> QED BY <2>2, <2>3, <2>4 DEF PredecessorStep
<1>2. CASE Ready
  <2>1. launcher.proc \in Proc /\ browser[launcher.proc] \in BrowserProcess
        BY <1>2 DEF Ready, IInv, TypeOK, Current, Launching
  <2>2. browser'[launcher.proc].prev_task_id = browser[launcher.proc].prev_task_id
        BY <1>2, <2>1 DEF Ready, IInv, TypeOK, BrowserProcess
  <2>3. \A p \in Proc : p # launcher.proc => browser'[p] = browser[p]
        BY <1>2 DEF Ready, IInv, TypeOK
  <2> QED BY <2>2, <2>3 DEF PredecessorStep
<1>3. ASSUME NEW p \in Proc, Spawn(p) PROVE PredecessorStep
  <2>1. browser[p] = Nil BY <1>3 DEF Spawn, IInv, Built
  <2>2. \A q \in Proc : q # p => browser'[q] = browser[q] BY <1>3 DEF Spawn, IInv, TypeOK
  <2> QED BY <2>1, <2>2 DEF PredecessorStep
<1>4. CASE browser' = browser BY <1>4 DEF PredecessorStep
<1>5. CASE Launch
      BY <1>4, <1>5 DEF Launch, LaunchFirst, Reuse, Replace, Drop
<1>6. CASE InsideLaunch
      BY <1>2, <1>3, <1>4, <1>6 DEF InsideLaunch, KillOld, KillTimesOut, SpawnFails, NotReady,
         KillNew, Register
<1>7. CASE LaunchBreaks \/ Leave \/ SetClosed \/ InsideClose \/ InterruptClose \/ Environment
      BY <1>4, <1>7 DEF LaunchBreaks, Leave, SetClosed, InsideClose, TakeLock, Sweep, SweepTimesOut, SweepDone,
         InterruptClose, Environment, Listen, Hang, Recover, Exit
<1> QED BY <1>1, <1>5, <1>6, <1>7 DEF Next

\* What a report takes for rows of one process are rows of one process, and the
\* order it reads off prev_task_id is the order they ran in.
THEOREM RowsNameProcess == Spec => RowsNameOneProcess
<1>1. IInv /\ HInv /\ [Next]_vars => [PredecessorStep]_vars BY NextKeepsPredecessor
<1>2. HInv => GenerationNamesProcess BY DEF HInv, Traced
<1> QED BY <1>1, <1>2, Invariance, HistoryInvariance, PTL
    DEF Spec, RowsNameOneProcess, PredecessorRanHere, PredecessorStep

-----------------------------------------------------------------------------
(* The manager keeps ManagerContract: it answers for the processes it has    *)
(* neither signalled nor lost.                                               *)

Answered == Unsignalled \ lost

\* Signalling or burying one process releases it, if it was answered for.
LEMMA ReleaseRefines ==
    ASSUME NEW p \in Proc, Phase' = Phase, lost' = lost,
           Unsignalled' = Unsignalled \ {p}
    PROVE  [Contract!Next]_Contract!vars
<1>1. CASE p \in Answered
  <2>1. Contract!Release(p) BY <1>1 DEF Contract!Release, Answered
  <2> QED BY <2>1 DEF Contract!Next
<1>2. CASE p \notin Answered BY <1>2 DEF Contract!vars, Answered
<1> QED BY <1>1, <1>2

\* A launch that breaks forgets the live process it has in hand.
LEMMA AbandonRefines ==
    ASSUME IInv, HInv, Talking, Abandon, Phase' = Phase, UNCHANGED osVars
    PROVE  [Contract!Next]_Contract!vars
<1> DEFINE p == launcher.proc
<1>1. p \in Proc /\ p \notin termed
      BY DEF Talking, IInv, Current, Launching, HInv, Handing
<1>2. Unsignalled' = Unsignalled BY DEF osVars, Unsignalled, Live
<1>3. CASE Live(p)
  <2>1. p \in Unsignalled \ lost BY <1>1, <1>3 DEF Unsignalled, IInv, Forgotten
  <2>2. Phase # "closed"
        BY DEF Phase, Talking, IInv, Swept, InLaunch, LaunchStep
  <2>3. Contract!Forget(p) BY <1>2, <1>3, <2>1, <2>2 DEF Abandon, Contract!Forget
  <2> QED BY <1>1, <2>3 DEF Contract!Next
<1>4. CASE ~Live(p) BY <1>2, <1>4 DEF Abandon, Contract!vars
<1> QED BY <1>3, <1>4

\* The launcher's steps start, forget, release or keep.
LEMMA LauncherRefines ==
    ASSUME IInv, HInv, Launch \/ InsideLaunch \/ LaunchBreaks \/ NoteTask \/ Leave
    PROVE  [Contract!Next]_Contract!vars
<1> USE DEF osVars, tables, closing, history, Live
<1>p. Phase' = Phase
      BY DEF Phase, Launch, LaunchFirst, Reuse, Replace, Drop, InsideLaunch, KillOld,
         KillTimesOut, SpawnFails, Spawn, Ready, NotReady, KillNew, Register, LaunchBreaks,
         NoteTask, Leave
<1>1. ASSUME NEW e \in Engine, NEW t \in Task, Replace(e, t) \/ Drop(e, t)
      PROVE  /\ processes[e] \in Proc /\ lost' = lost
             /\ Unsignalled' = Unsignalled \ {processes[e]}
  <2>1. processes[e] \in Proc BY <1>1 DEF Replace, Drop, IInv, TypeOK
  <2> QED BY <1>1, <2>1 DEF Replace, Drop, LetGo, Signal, Die, Answers, Unsignalled, IInv, TypeOK
<1>2. ASSUME KillOld \/ NotReady \/ KillNew
      PROVE  /\ launcher.proc \in Proc /\ lost' = lost
             /\ Unsignalled' = Unsignalled \ {launcher.proc}
  <2>1. launcher.proc \in Proc BY <1>2 DEF KillOld, NotReady, KillNew, IInv, Current, Launching
  <2> QED BY <1>2, <2>1 DEF KillOld, NotReady, KillNew, Signal, Die, Unsignalled, IInv, TypeOK
<1>3. ASSUME NEW p \in Proc, Spawn(p) PROVE Contract!Start(p)
  <2>1. p \notin Unsignalled /\ p \notin termed BY <1>3 DEF Spawn, Unsignalled, HInv, Handing
  <2>2. p \notin lost /\ lost' = lost BY <1>3 DEF Spawn, IInv, Forgotten
  <2>3. Unsignalled' = Unsignalled \cup {p} BY <1>3, <2>1 DEF Spawn, Unsignalled, IInv, TypeOK
  <2>4. Phase # "closed" BY <1>3 DEF Phase, Spawn, IInv, Swept, InLaunch, LaunchStep
  <2> QED BY <1>p, <2>1, <2>2, <2>3, <2>4 DEF Contract!Start
<1>4. ASSUME \/ \E e \in Engine, t \in Task : LaunchFirst(e, t) \/ Reuse(e, t)
             \/ KillTimesOut \/ SpawnFails \/ Ready \/ Register \/ NoteTask
             \/ Leave /\ ~Talking
      PROVE  Unsignalled' = Unsignalled /\ lost' = lost
      BY <1>4 DEF LaunchFirst, Reuse, KillTimesOut, SpawnFails, Ready, Register, NoteTask, Leave,
         Unsignalled
<1>5. CASE Unsignalled' = Unsignalled /\ lost' = lost BY <1>p, <1>5 DEF Contract!vars
<1>6. CASE \E e \in Engine, t \in Task : Replace(e, t) \/ Drop(e, t)
      BY <1>p, <1>1, <1>6, ReleaseRefines
<1>7. CASE KillOld \/ NotReady \/ KillNew BY <1>p, <1>2, <1>7, ReleaseRefines
<1>8. CASE \E p \in Proc : Spawn(p) BY <1>3, <1>8 DEF Contract!Next
<1>9. CASE LaunchBreaks \/ (Leave /\ Talking)
      BY <1>p, <1>9, AbandonRefines DEF LaunchBreaks, Leave
<1> QED BY <1>4, <1>5, <1>6, <1>7, <1>8, <1>9 DEF Launch, InsideLaunch

\* close_all begins, releases, and ends with nothing to answer for; engines
\* that exit are released.
LEMMA CloserRefines ==
    ASSUME IInv, IInv', SetClosed \/ InsideClose \/ InterruptClose \/ Environment
    PROVE  [Contract!Next]_Contract!vars
<1> USE DEF osVars, tables, closing, history, Live
<1>1. CASE SetClosed
  <2>1. Unsignalled' = Unsignalled /\ lost' = lost BY <1>1 DEF SetClosed, Unsignalled
  <2>2. Phase = "open" /\ Phase' = "closing" BY <1>1 DEF SetClosed, Phase
  <2>3. Contract!BeginClose BY <2>1, <2>2 DEF Contract!BeginClose
  <2> QED BY <2>3 DEF Contract!Next
<1>2. CASE SweepDone
  <2>1. Unsignalled' = Unsignalled /\ lost' = lost BY <1>2 DEF SweepDone, Unsignalled
  <2>2. Phase = "closing" /\ Phase' = "closed" BY <1>2 DEF SweepDone, Phase
  <2>3. (Unsignalled \ lost)' = {}
    <3>1. (IInv /\ closer = "done" => Unsignalled \subseteq lost)'
          BY DoneLeavesLost, PTL
    <3> QED BY <1>2, <3>1 DEF SweepDone
  <2>4. Contract!EndClose BY <2>1, <2>2, <2>3 DEF Contract!EndClose
  <2> QED BY <2>4 DEF Contract!Next
<1>3. CASE TakeLock \/ InterruptClose
  <2>1. Unsignalled' = Unsignalled /\ lost' = lost
        BY <1>3 DEF TakeLock, InterruptClose, Unsignalled
  <2>2. Phase' = Phase BY <1>3 DEF TakeLock, InterruptClose, Phase
  <2> QED BY <2>1, <2>2 DEF Contract!vars
<1>4. ASSUME NEW e \in Engine, Sweep(e) \/ SweepTimesOut(e)
      PROVE  [Contract!Next]_Contract!vars
  <2>1. processes[e] \in Proc BY <1>4 DEF Sweep, SweepTimesOut, IInv, TypeOK
  <2>2. Unsignalled' = Unsignalled \ {processes[e]} /\ lost' = lost
        BY <1>4, <2>1 DEF Sweep, SweepTimesOut, Die, Unsignalled, IInv, TypeOK
  <2>3. Phase' = Phase BY <1>4 DEF Sweep, SweepTimesOut, Phase
  <2> QED BY <2>1, <2>2, <2>3, ReleaseRefines
<1>5. ASSUME NEW p \in Proc, Exit(p) PROVE [Contract!Next]_Contract!vars
  <2>1. Unsignalled' = Unsignalled \ {p} /\ lost' = lost
        BY <1>5 DEF Exit, Die, Unsignalled, IInv, TypeOK
  <2>2. Phase' = Phase BY <1>5 DEF Exit, Phase
  <2> QED BY <2>1, <2>2, ReleaseRefines
<1>6. ASSUME NEW p \in Proc, Listen(p) \/ Hang(p) \/ Recover(p)
      PROVE  [Contract!Next]_Contract!vars
  <2>1. Unsignalled' = Unsignalled /\ lost' = lost BY <1>6 DEF Listen, Hang, Recover, Unsignalled
  <2>2. Phase' = Phase BY <1>6 DEF Listen, Hang, Recover, Phase
  <2> QED BY <2>1, <2>2 DEF Contract!vars
<1> QED BY <1>1, <1>2, <1>3, <1>4, <1>5, <1>6 DEF InsideClose, Environment

\* The manager answers for the processes it has neither signalled nor lost; it
\* loses only one it has just started, starts none once close_all is over, and
\* then answers for none.
THEOREM ContractKept == Spec => KeepsContract
<1>1. Init => Contract!Init
  <2> SUFFICES ASSUME Init PROVE Contract!Init
      OBVIOUS
  <2>1. Phase = "open" /\ Unsignalled = {} /\ lost = {} BY DEF Init, Phase, Unsignalled, Live
  <2> QED BY <2>1 DEF Contract!Init
<1>2. IInv /\ HInv /\ [Next]_vars => [Contract!Next]_Contract!vars
  <2> SUFFICES ASSUME IInv, HInv, [Next]_vars PROVE [Contract!Next]_Contract!vars
      OBVIOUS
  <2>1. CASE Launch \/ InsideLaunch \/ LaunchBreaks \/ NoteTask \/ Leave
        BY <2>1, LauncherRefines
  <2>2. CASE SetClosed \/ InsideClose \/ InterruptClose \/ Environment
    <3>1. IInv' BY NextKeeps
    <3> QED BY <2>2, <3>1, CloserRefines
  <2>3. CASE UNCHANGED vars
    <3>1. Unsignalled' = Unsignalled /\ Phase' = Phase /\ lost' = lost
          BY <2>3 DEF vars, osVars, closing, history, Unsignalled, Live, Phase
    <3> QED BY <3>1 DEF Contract!vars
  <2> QED BY <2>1, <2>2, <2>3 DEF Next
<1> QED BY <1>1, <1>2, Invariance, HistoryInvariance, PTL DEF Spec, KeepsContract, Contract!Spec
=============================================================================
