-------------------------- MODULE RunAttempts_proofs --------------------------
(***************************************************************************)
(* What run_attempts promises about its manifest, its rows and its         *)
(* engines, for any number of threads, items, engines and signals, and     *)
(* that a run directory keeps RunContract.  The inductive invariant IInv   *)
(* ties four things together that the code keeps in different places: the  *)
(* futures, the rows on disk, the managers each thread holds, and how far  *)
(* the main thread's teardown has come.                                    *)
(*                                                                         *)
(* Then what run_one and the scores promise about the rows of one item,    *)
(* whatever was selected and gated (ScoredRun): ScoreInv says of every     *)
(* selected engine that it has its row or still its place in the queue,    *)
(* and of every row what it was judged by.  The last part needs no         *)
(* invariant: how often a rotation gives an engine each ordinal.           *)
(***************************************************************************)
EXTENDS RunAttempts, ScoredRun, FiniteSetTheorems, SequenceTheorems, TLAPS

Busy(w) == thread[w].pc # "free"

HasRow(i, r) == \E s \in BOOLEAN : <<i, r, s>> \in results

\* A thread that is not free works on a running future of its own; a delivered
\* future is over; jobs = 1 starts an item when all before it were delivered.
Assigned ==
    /\ \A w \in Worker : Busy(w) =>
          thread[w].item \in Item /\ fut[thread[w].item] = "running"
    /\ \A v, w \in Worker : Busy(v) /\ Busy(w) /\ v # w => thread[v].item # thread[w].item
    /\ \A i \in collected : fut[i] \in {"done", "error"}
    /\ Serial => \A w \in Worker : Busy(w) =>
          \A j \in Item : j # thread[w].item => fut[j] = "pending" \/ j \in collected

\* The managers a thread holds, for good and for this item, are its alone.
Lanes ==
    /\ \A w \in Worker : thread[w].browsers <= Len(managers) /\ thread[w].mgr <= Len(managers)
    /\ \A v, w \in Worker : v # w =>
          {thread[v].browsers, thread[v].mgr} \cap {thread[w].browsers, thread[w].mgr} \subseteq {0}

\* The sweep goes through the managers in order and leaves closed ones behind;
\* before the teardown all are open.
SweptInOrder ==
    /\ main.next \in 1..(Len(managers) + 1)
    /\ \A m \in 1..Len(managers) : m < main.next => managers[m].phase = "closed" /\ ~managers[m].up
    /\ \A m \in 1..Len(managers) : m > main.next => managers[m].phase = "open"
    /\ main.next <= Len(managers) => managers[main.next].phase # "closed"
    /\ main.next <= Len(managers) /\ main.pc \notin {"close", "aborted"} =>
          managers[main.next].phase = "open"
    /\ main.pc \in {"collect", "cancel", "wait"} => main.next = 1

\* A thread inside a launch, or with engines, has them unless they were closed,
\* which a launch holds up.
Equipped ==
    \A w \in Worker :
        /\ thread[w].pc \in {"in_init", "in_launch"} =>
              thread[w].mgr > 0 /\ managers[thread[w].mgr].phase # "closed" /\ managers[thread[w].mgr].up
        /\ thread[w].pc = "attempt" =>
              /\ thread[w].mgr > 0
              /\ managers[thread[w].mgr].phase # "closed" => managers[thread[w].mgr].up

\* Without a signal, and with jobs = 1, no thread is at work beside the main
\* thread's teardown; a parallel run that was interrupted is never completed.
Quiet ==
    /\ main.pc # "collect" /\ (Serial \/ ~shutdown) => \A w \in Worker : ~Busy(w)
    /\ main.pc # "collect" /\ ~Serial /\ ~shutdown => collected = Item
    /\ main.pc = "wait" \/ main.completed => collected = Item
    /\ ~Serial /\ shutdown => main.pc \notin {"collect", "wait"}
    /\ ~Serial /\ shutdown /\ main.completed => main.pc = "aborted"
    /\ main.completed => main.pc \notin {"collect", "cancel", "wait"} /\ Succeeded

\* A finished item has all its rows, one in progress those of the engines it
\* has behind it.
Recorded ==
    /\ IsFiniteSet(results)
    /\ \A i \in Item : fut[i] = "done" => \A r \in 1..Rows : HasRow(i, r)
    /\ \A w \in Worker : Busy(w) => \A r \in 1..Rows : r < thread[w].row => HasRow(thread[w].item, r)
    /\ SpoiltOnlyByInterrupt

\* The workers that passed the check of shutdown_event and have no manager yet.
Entering == {w \in Worker : thread[w].pc = "init" /\ thread[w].mgr = 0}

\* Behind the sweep each of them may register one manager, and nobody else.
Late ==
    main.pc \in {"fixture", "manifest", "ended"} =>
        /\ Serial \/ ~shutdown => Len(managers) < main.next
        /\ Len(managers) + Cardinality(Entering) < main.next + Cardinality(Worker)

\* The manifest is written last, and once.
Written ==
    /\ ~fixture => main.pc \in {"manifest", "ended", "aborted"}
    /\ manifest.status = "started" => manifest.rows = 0
    /\ manifest.status # "started" => main.pc = "ended"
    /\ manifest.status = "completed" => main.completed /\ manifest.rows = Rows * Cardinality(Item)
    /\ ManifestCountsRowsOnDisk

\* The inductive invariant; the four properties below follow from it.
IInv == TypeOK /\ Assigned /\ Lanes /\ SweptInOrder /\ Equipped /\ Quiet /\ Recorded /\ Late /\ Written
-----------------------------------------------------------------------------
\* A worker's step touches its own record only.
Moves(w) ==
    /\ thread'[w] \in Thread
    /\ \A v \in Worker : v # w => thread'[v] = thread[v]

\* A worker that goes on keeps what it holds and what it works on.
LEMMA GoesMoves ==
    ASSUME TypeOK, NEW w \in Worker, NEW pc, Goes(w, pc),
           pc \in {"make", "init", "in_init", "launch", "in_launch"}
    PROVE  /\ thread' \in [Worker -> Thread]
           /\ Moves(w)
           /\ thread'[w].pc = pc
           /\ thread'[w].item = thread[w].item /\ thread'[w].row = thread[w].row
           /\ thread'[w].mgr = thread[w].mgr /\ thread'[w].browsers = thread[w].browsers
<1>1. thread[w] \in Thread BY DEF TypeOK
<1>2. thread'[w] = [thread[w] EXCEPT !.pc = pc] BY DEF Goes, TypeOK
<1>3. thread'[w] \in Thread BY <1>1, <1>2 DEF Thread
<1>4. \A v \in Worker : v # w => thread'[v] = thread[v] BY DEF Goes, TypeOK
<1>5. thread' \in [Worker -> Thread] BY <1>3, <1>4 DEF Goes, TypeOK
<1> QED BY <1>1, <1>2, <1>3, <1>4, <1>5 DEF Moves, Thread

\* A worker whose item raised is free again and keeps its browsers.
LEMMA RaisesMoves ==
    ASSUME TypeOK, NEW w \in Worker, thread[w].item \in Item, Raises(w)
    PROVE  /\ thread' \in [Worker -> Thread]
           /\ Moves(w)
           /\ thread'[w].pc = "free" /\ thread'[w].mgr = 0
           /\ thread'[w].browsers = thread[w].browsers
           /\ fut' \in [Item -> {"pending", "running", "done", "error", "cancelled"}]
           /\ fut'[thread[w].item] = "error"
           /\ \A i \in Item : i # thread[w].item => fut'[i] = fut[i]
<1>1. thread[w] \in Thread BY DEF TypeOK
<1>2. thread'[w] = [Free EXCEPT !.browsers = thread[w].browsers] BY DEF Raises, TypeOK
<1>3. thread'[w] \in Thread BY <1>1, <1>2, ConstantsAssumption DEF Thread, Free
<1>4. \A v \in Worker : v # w => thread'[v] = thread[v] BY DEF Raises, TypeOK
<1>5. thread' \in [Worker -> Thread] BY <1>3, <1>4 DEF Raises, TypeOK
<1>6. thread'[w].pc = "free" /\ thread'[w].mgr = 0 /\ thread'[w].browsers = thread[w].browsers
      BY <1>2 DEF Free
<1>7. /\ fut' \in [Item -> {"pending", "running", "done", "error", "cancelled"}]
      /\ fut'[thread[w].item] = "error"
      /\ \A i \in Item : i # thread[w].item => fut'[i] = fut[i]
      BY DEF Raises, TypeOK
<1> QED BY <1>3, <1>4, <1>5, <1>6, <1>7 DEF Moves

\* What the rows on disk say about the items stays true while no row is added,
\* no future becomes done and no thread enters an item or an engine's turn.
LEMMA RecordedStays ==
    ASSUME Recorded, results' = results, mode' = mode, shutdown => shutdown',
           \A i \in Item : fut'[i] = "done" => fut[i] = "done",
           \A w \in Worker : Busy(w)' =>
              \/ Busy(w) /\ thread'[w].item = thread[w].item /\ thread'[w].row = thread[w].row
              \/ thread'[w].row = 1
    PROVE  Recorded'
<1>1. \A i, r : HasRow(i, r)' <=> HasRow(i, r) BY DEF HasRow
<1>2. IsFiniteSet(results)' BY DEF Recorded
<1>3. \A i \in Item : fut'[i] = "done" => \A r \in 1..Rows : HasRow(i, r)'
      BY <1>1 DEF Recorded
<1>4. ASSUME NEW w \in Worker, Busy(w)', NEW r \in 1..Rows, r < thread'[w].row
      PROVE  HasRow(thread[w].item, r)'
  <2>1. Busy(w) /\ thread'[w].item = thread[w].item /\ thread'[w].row = thread[w].row
        BY <1>4
  <2>2. HasRow(thread[w].item, r) BY <1>4, <2>1 DEF Recorded
  <2> QED BY <2>1, <2>2 DEF HasRow
<1>5. SpoiltOnlyByInterrupt' BY DEF Recorded, SpoiltOnlyByInterrupt, Serial
<1> QED BY <1>2, <1>3, <1>4, <1>5 DEF Recorded

\* The count of late managers stays right while no manager is registered, no
\* worker passes the check and the main thread does not move.
LEMMA LateStays ==
    ASSUME Late, main' = main, mode' = mode, shutdown' = shutdown,
           Len(managers') = Len(managers), Len(managers) \in Nat, main.next \in Nat,
           Entering' \subseteq Entering
    PROVE  Late'
<1>1. IsFiniteSet(Entering) BY FS_Subset, ConstantsAssumption DEF Entering
<1>2. Cardinality(Entering') <= Cardinality(Entering) BY <1>1, FS_Subset
<1>3. Cardinality(Entering) \in Nat /\ Cardinality(Entering') \in Nat
      BY <1>1, FS_Subset, FS_CardinalityType
<1>4. Cardinality(Worker) \in Nat BY FS_CardinalityType, ConstantsAssumption
<1> QED BY <1>2, <1>3, <1>4 DEF Late, Serial

\* The first pending item goes to a free thread, with the browsers it has.
LEMMA TakeKeeps == ASSUME IInv, NEW w \in Worker, NEW i \in Item, Take(w, i) PROVE IInv'
<1> USE ConstantsAssumption DEF Take, Runs, Turn, files, outside, Serial, Busy
<1> DEFINE t == [thread[w] EXCEPT !.pc = "start", !.item = i, !.row = 1, !.mgr = thread[w].browsers]
<1>m. /\ thread' \in [Worker -> Thread]
      /\ thread'[w].pc = "start" /\ thread'[w].item = i /\ thread'[w].row = 1
      /\ thread'[w].mgr = thread[w].browsers /\ thread'[w].browsers = thread[w].browsers
      /\ \A v \in Worker : v # w => thread'[v] = thread[v]
  <2>1. thread[w] \in Thread /\ thread \in [Worker -> Thread] BY DEF IInv, TypeOK
  <2>2. t \in Thread
    <3>1. thread[w].browsers \in Nat /\ 1 \in 1..Rows BY <2>1 DEF Thread
    <3> HIDE DEF Take
    <3> QED BY <2>1, <3>1 DEF Thread
  <2>3. /\ t.pc = "start" /\ t.item = i /\ t.row = 1
        /\ t.mgr = thread[w].browsers /\ t.browsers = thread[w].browsers
        BY <2>1 DEF Thread
  <2>4. thread' = [thread EXCEPT ![w] = t] OBVIOUS
  <2> HIDE DEF t
  <2> QED BY <2>1, <2>2, <2>3, <2>4
<1>n. /\ fut \in [Item -> {"pending", "running", "done", "error", "cancelled"}]
      /\ fut' = [fut EXCEPT ![i] = "running"]
      BY DEF IInv, TypeOK
<1>1. TypeOK' BY <1>m, <1>n DEF IInv, TypeOK
<1>2. Assigned'
  <2>1. \A v \in Worker : v # w /\ Busy(v) => thread[v].item # i BY DEF IInv, Assigned
  <2>2. i \notin collected BY DEF IInv, Assigned
  <2>3. \A v \in Worker : Busy(v)' =>
            thread'[v].item \in Item /\ fut'[thread'[v].item] = "running"
        BY <1>m, <1>n DEF IInv, Assigned
  <2>4. \A u, v \in Worker : Busy(u)' /\ Busy(v)' /\ u # v => thread'[u].item # thread'[v].item
        BY <1>m, <2>1 DEF IInv, Assigned
  <2>5. \A j \in collected : fut'[j] \in {"done", "error"}
        BY <1>n, <2>2 DEF IInv, TypeOK, Assigned
  <2>6. Serial => \A v \in Worker : v # w => ~Busy(v)
        BY DEF IInv, Assigned
  <2>7. Serial => \A v \in Worker : Busy(v)' =>
            \A j \in Item : j # thread'[v].item => fut'[j] = "pending" \/ j \in collected
        BY <1>m, <1>n, <2>6
  <2> QED BY <2>3, <2>4, <2>5, <2>7 DEF Assigned
<1>3. Lanes' BY <1>m DEF IInv, TypeOK, Lanes
<1>4. SweptInOrder' BY DEF IInv, TypeOK, SweptInOrder
<1>5. Equipped' BY <1>m DEF IInv, TypeOK, Lanes, Equipped
<1>6. Quiet' BY <1>m, <1>n DEF IInv, TypeOK, Assigned, Quiet, Succeeded
<1>7. Recorded'
  <2>1. \A j \in Item : fut'[j] = "done" => fut[j] = "done" BY <1>n
  <2>2. \A v \in Worker : Busy(v)' => thread'[v].row = 1 \/ (Busy(v) /\ thread'[v] = thread[v])
        BY <1>m
  <2> QED BY <2>1, <2>2, RecordedStays DEF IInv
<1>8. Late'
  <2>1. Len(managers) \in Nat /\ main.next \in Nat BY DEF IInv, TypeOK, MainThread
  <2>2. Entering' \subseteq Entering BY <1>m DEF Entering
  <2> QED BY <2>1, <2>2, LateStays DEF IInv
<1>9. Written' BY DEF IInv, Written, ManifestCountsRowsOnDisk
<1> QED BY <1>1, <1>2, <1>3, <1>4, <1>5, <1>6, <1>7, <1>8, <1>9 DEF IInv

\* worker asks make_browsers for engines only when its thread has none.
LEMMA StartKeeps == ASSUME IInv, NEW w \in Worker, Start(w) PROVE IInv'
<1> USE DEF Start, Runs, files, outside, Serial, Busy
<1> DEFINE pc == IF thread[w].browsers = 0 THEN "make" ELSE "launch"
<1>a. TypeOK BY DEF IInv
<1>b. Goes(w, pc) /\ pc \in {"make", "init", "in_init", "launch", "in_launch"} OBVIOUS
<1>m. /\ thread' \in [Worker -> Thread] /\ thread'[w].pc = pc
      /\ thread'[w].item = thread[w].item /\ thread'[w].row = thread[w].row
      /\ thread'[w].mgr = thread[w].mgr /\ thread'[w].browsers = thread[w].browsers
      /\ \A v \in Worker : v # w => thread'[v] = thread[v]
      BY <1>a, <1>b, GoesMoves DEF Moves
<1>1. TypeOK' BY <1>m DEF IInv, TypeOK
<1>2. Assigned' BY <1>m DEF IInv, Assigned
<1>3. Lanes' BY <1>m DEF IInv, TypeOK, Lanes
<1>4. SweptInOrder' BY DEF IInv, TypeOK, SweptInOrder
<1>5. Equipped' BY <1>m DEF IInv, TypeOK, Lanes, Equipped
<1>6. Quiet' BY <1>m DEF IInv, Quiet, Succeeded
<1>7. Recorded' BY <1>m, RecordedStays DEF IInv
<1>8. Late'
  <2>1. Len(managers) \in Nat /\ main.next \in Nat BY DEF IInv, TypeOK, MainThread
  <2>2. Entering' \subseteq Entering BY <1>m DEF Entering
  <2> QED BY <2>1, <2>2, LateStays DEF IInv
<1>9. Written' BY DEF IInv, Written, ManifestCountsRowsOnDisk
<1> QED BY <1>1, <1>2, <1>3, <1>4, <1>5, <1>6, <1>7, <1>8, <1>9 DEF IInv

\* A worker that sees shutdown_event gives its item up.
LEMMA RefuseKeeps == ASSUME IInv, NEW w \in Worker, Refuse(w) PROVE IInv'
<1> USE DEF Refuse, Runs, files, outside, Serial, Busy
<1>a. TypeOK /\ thread[w].item \in Item /\ fut[thread[w].item] = "running" /\ Busy(w)
      BY DEF IInv, Assigned
<1>m. /\ thread' \in [Worker -> Thread] /\ thread'[w].pc = "free" /\ thread'[w].mgr = 0
      /\ thread'[w].browsers = thread[w].browsers
      /\ \A v \in Worker : v # w => thread'[v] = thread[v]
      BY <1>a, RaisesMoves DEF Moves
<1>n. /\ fut' \in [Item -> {"pending", "running", "done", "error", "cancelled"}]
      /\ fut'[thread[w].item] = "error"
      /\ \A i \in Item : i # thread[w].item => fut'[i] = fut[i]
      BY <1>a, RaisesMoves
<1>u. /\ managers' = managers /\ main' = main /\ collected' = collected /\ shutdown' = shutdown
      /\ fixture' = fixture /\ results' = results /\ manifest' = manifest
      /\ mode' = mode /\ signals' = signals
      OBVIOUS
<1> HIDE DEF Refuse, Runs
<1>1. TypeOK' BY <1>u, <1>m, <1>n DEF IInv, TypeOK
<1>2. Assigned'
  <2>1. \A v \in Worker : Busy(v)' => v # w /\ Busy(v) /\ thread'[v] = thread[v] BY <1>m
  <2>2. \A v \in Worker : Busy(v)' => fut'[thread'[v].item] = fut[thread[v].item]
        BY <1>a, <1>n, <2>1 DEF IInv, Assigned
  <2>3. \A i \in collected : fut'[i] = fut[i]
        BY <1>a, <1>n DEF IInv, TypeOK, Assigned
  <2>4. Serial => \A v \in Worker : ~Busy(v)'
        BY <1>a, <2>1 DEF IInv, Assigned
  <2> QED BY <1>u, <2>1, <2>2, <2>3, <2>4 DEF IInv, Assigned
<1>3. Lanes' BY <1>u, <1>m DEF IInv, TypeOK, Lanes
<1>4. SweptInOrder' BY <1>u DEF IInv, TypeOK, SweptInOrder
<1>5. Equipped' BY <1>u, <1>m DEF IInv, TypeOK, Lanes, Equipped
<1>6. Quiet' BY <1>u, <1>a, <1>m, <1>n DEF IInv, Quiet, Succeeded
<1>7. Recorded'
  <2>1. \A i \in Item : fut'[i] = "done" => fut[i] = "done" BY <1>a, <1>n
  <2>2. \A v \in Worker : Busy(v)' => Busy(v) /\ thread'[v] = thread[v] BY <1>m
  <2> QED BY <1>u, <2>1, <2>2, RecordedStays DEF IInv
<1>8. Late'
  <2>1. Len(managers) \in Nat /\ main.next \in Nat BY DEF IInv, TypeOK, MainThread
  <2>2. Entering' \subseteq Entering BY <1>m DEF Entering
  <2> QED BY <1>u, <2>1, <2>2, LateStays DEF IInv
<1>9. Written' BY <1>u DEF IInv, Written, ManifestCountsRowsOnDisk
<1> QED BY <1>1, <1>2, <1>3, <1>4, <1>5, <1>6, <1>7, <1>8, <1>9 DEF IInv

\* Only before a signal, and so before the teardown.
LEMMA PassCheckKeeps == ASSUME IInv, NEW w \in Worker, PassCheck(w) PROVE IInv'
<1> USE DEF PassCheck, Runs, files, outside, Serial, Busy
<1> DEFINE pc == "init"
<1>a. TypeOK BY DEF IInv
<1>b. Goes(w, pc) /\ pc \in {"make", "init", "in_init", "launch", "in_launch"} OBVIOUS
<1>m. /\ thread' \in [Worker -> Thread] /\ thread'[w].pc = pc
      /\ thread'[w].item = thread[w].item /\ thread'[w].row = thread[w].row
      /\ thread'[w].mgr = thread[w].mgr /\ thread'[w].browsers = thread[w].browsers
      /\ \A v \in Worker : v # w => thread'[v] = thread[v]
      BY <1>a, <1>b, GoesMoves DEF Moves
<1>1. TypeOK' BY <1>m DEF IInv, TypeOK
<1>2. Assigned' BY <1>m DEF IInv, Assigned
<1>3. Lanes' BY <1>m DEF IInv, TypeOK, Lanes
<1>4. SweptInOrder' BY DEF IInv, TypeOK, SweptInOrder
<1>5. Equipped' BY <1>m DEF IInv, TypeOK, Lanes, Equipped
<1>6. Quiet' BY <1>m DEF IInv, Quiet, Succeeded
<1>7. Recorded' BY <1>m, RecordedStays DEF IInv
<1>8. Late'
  <2>1. main.pc \notin {"fixture", "manifest", "ended"} BY DEF IInv, Quiet
  <2> QED BY <2>1 DEF Late
<1>9. Written' BY DEF IInv, Written, ManifestCountsRowsOnDisk
<1> QED BY <1>1, <1>2, <1>3, <1>4, <1>5, <1>6, <1>7, <1>8, <1>9 DEF IInv

\* The one step that adds a manager: behind the sweep it uses up the worker's
\* pass of the check.
LEMMA RegisterManagerKeeps == ASSUME IInv, NEW w \in Worker, RegisterManager(w) PROVE IInv'
<1> USE ConstantsAssumption DEF RegisterManager, Runs, NewSlot, files, outside, Serial, Busy
<1> DEFINE t == [thread[w] EXCEPT !.mgr = NewSlot]
           m == [phase |-> "open", up |-> FALSE]
<1>l. Len(managers) \in Nat /\ managers \in Seq(Manager) /\ m \in Manager
      BY DEF IInv, TypeOK, Manager
<1>s. /\ managers' \in Seq(Manager) /\ Len(managers') = Len(managers) + 1
      /\ managers'[Len(managers) + 1] = m
      /\ \A k \in 1..Len(managers) : managers'[k] = managers[k]
      BY <1>l
<1>m. /\ thread' \in [Worker -> Thread]
      /\ thread'[w].pc = "init" /\ thread'[w].mgr = Len(managers) + 1
      /\ thread'[w].item = thread[w].item /\ thread'[w].row = thread[w].row
      /\ thread'[w].browsers = thread[w].browsers
      /\ \A v \in Worker : v # w => thread'[v] = thread[v]
  <2>1. thread[w] \in Thread /\ thread \in [Worker -> Thread] BY DEF IInv, TypeOK
  <2>2. t \in Thread
    <3>1. NewSlot \in Nat BY <1>l
    <3> HIDE DEF RegisterManager, NewSlot
    <3> QED BY <2>1, <3>1 DEF Thread
  <2>3. /\ t.pc = "init" /\ t.mgr = Len(managers) + 1 /\ t.item = thread[w].item
        /\ t.row = thread[w].row /\ t.browsers = thread[w].browsers
        BY <2>1 DEF Thread
  <2>4. thread' = [thread EXCEPT ![w] = t] OBVIOUS
  <2> HIDE DEF t
  <2> QED BY <2>1, <2>2, <2>3, <2>4
<1>1. TypeOK' BY <1>m, <1>s DEF IInv, TypeOK
<1>2. Assigned' BY <1>m DEF IInv, Assigned
<1>3. Lanes'
  <2>1. \A v \in Worker : thread[v].browsers \in Nat /\ thread[v].mgr \in Nat
        BY DEF IInv, TypeOK, Thread
  <2> QED BY <1>l, <1>m, <1>s, <2>1 DEF IInv, Lanes
<1>4. SweptInOrder' BY <1>l, <1>s DEF IInv, TypeOK, SweptInOrder
<1>5. Equipped'
  <2>1. \A v \in Worker : thread[v].mgr \in Nat /\ thread[v].mgr <= Len(managers)
        BY DEF IInv, TypeOK, Thread, Lanes
  <2> QED BY <1>l, <1>m, <1>s, <2>1 DEF IInv, Equipped
<1>6. Quiet' BY <1>m DEF IInv, Quiet, Succeeded
<1>7. Recorded' BY <1>m, RecordedStays DEF IInv
<1>8. Late'
  <2>1. w \in Entering /\ Entering' = Entering \ {w}
        BY <1>m, <1>l DEF Entering
  <2>2. IsFiniteSet(Entering) BY FS_Subset DEF Entering
  <2>3. Cardinality(Entering') = Cardinality(Entering) - 1 BY <2>1, <2>2, FS_RemoveElement
  <2>4. Cardinality(Entering) \in Nat /\ Cardinality(Worker) \in Nat
        BY <2>2, FS_CardinalityType
  <2>5. main.pc \in {"fixture", "manifest", "ended"} => ~Serial /\ shutdown
        BY DEF IInv, Quiet
  <2> QED BY <1>l, <1>s, <2>3, <2>4, <2>5 DEF IInv, TypeOK, Late
<1>9. Written' BY DEF IInv, Written, ManifestCountsRowsOnDisk
<1> QED BY <1>1, <1>2, <1>3, <1>4, <1>5, <1>6, <1>7, <1>8, <1>9 DEF IInv

\* launch finds the manager open, so the sweep has not come to it.
LEMMA EnterLaunchKeeps == ASSUME IInv, NEW w \in Worker, EnterLaunch(w) PROVE IInv'
<1> USE DEF EnterLaunch, Runs, files, outside, Serial, Busy
<1> DEFINE pc == IF thread[w].pc = "init" THEN "in_init" ELSE "in_launch"
<1>a. TypeOK BY DEF IInv
<1>b. Goes(w, pc) /\ pc \in {"make", "init", "in_init", "launch", "in_launch"} OBVIOUS
<1>m. /\ thread' \in [Worker -> Thread] /\ thread'[w].pc = pc
      /\ thread'[w].item = thread[w].item /\ thread'[w].row = thread[w].row
      /\ thread'[w].mgr = thread[w].mgr /\ thread'[w].browsers = thread[w].browsers
      /\ \A v \in Worker : v # w => thread'[v] = thread[v]
      BY <1>a, <1>b, GoesMoves DEF Moves
<1>n. /\ thread[w].mgr \in 1..Len(managers)
      /\ Len(managers') = Len(managers)
      /\ managers'[thread[w].mgr].phase = "open" /\ managers'[thread[w].mgr].up
      /\ \A m \in 1..Len(managers) : m # thread[w].mgr => managers'[m] = managers[m]
      /\ managers' \in Seq(Manager)
  <2> DEFINE k == thread[w].mgr
             x == [managers[k] EXCEPT !.up = TRUE]
  <2>1. thread[w] \in Thread /\ managers \in Seq(Manager)
        BY DEF IInv, TypeOK
  <2>2. k \in 1..Len(managers) BY <2>1 DEF IInv, Lanes, Thread
  <2>3. managers[k] \in Manager /\ managers[k].phase = "open" BY <2>1, <2>2
  <2>4. x \in Manager /\ x.phase = "open" /\ x.up = TRUE BY <2>3 DEF Manager
  <2>5. managers' = [managers EXCEPT ![k] = x] OBVIOUS
  <2> HIDE DEF x, k
  <2> QED BY <2>1, <2>2, <2>4, <2>5 DEF k
<1>1. TypeOK' BY <1>m, <1>n DEF IInv, TypeOK
<1>2. Assigned' BY <1>m DEF IInv, Assigned
<1>3. Lanes' BY <1>m, <1>n DEF IInv, TypeOK, Lanes
<1>4. SweptInOrder' BY <1>n DEF IInv, TypeOK, SweptInOrder
<1>5. Equipped' BY <1>m, <1>n DEF IInv, TypeOK, Lanes, Equipped
<1>6. Quiet' BY <1>m DEF IInv, Quiet, Succeeded
<1>7. Recorded' BY <1>m, RecordedStays DEF IInv
<1>8. Late'
  <2>1. Len(managers') = Len(managers) /\ Len(managers) \in Nat /\ main.next \in Nat
        BY <1>n DEF IInv, TypeOK, MainThread
  <2>2. Entering' \subseteq Entering BY <1>m DEF Entering
  <2> QED BY <2>1, <2>2, LateStays DEF IInv
<1>9. Written' BY DEF IInv, Written, ManifestCountsRowsOnDisk
<1> QED BY <1>1, <1>2, <1>3, <1>4, <1>5, <1>6, <1>7, <1>8, <1>9 DEF IInv

\* A launch that finds its manager closed raises.
LEMMA LaunchClosedKeeps == ASSUME IInv, NEW w \in Worker, LaunchClosed(w) PROVE IInv'
<1> USE DEF LaunchClosed, Runs, files, outside, Serial, Busy
<1>a. TypeOK /\ thread[w].item \in Item /\ fut[thread[w].item] = "running" /\ Busy(w)
      BY DEF IInv, Assigned
<1>m. /\ thread' \in [Worker -> Thread] /\ thread'[w].pc = "free" /\ thread'[w].mgr = 0
      /\ thread'[w].browsers = thread[w].browsers
      /\ \A v \in Worker : v # w => thread'[v] = thread[v]
      BY <1>a, RaisesMoves DEF Moves
<1>n. /\ fut' \in [Item -> {"pending", "running", "done", "error", "cancelled"}]
      /\ fut'[thread[w].item] = "error"
      /\ \A i \in Item : i # thread[w].item => fut'[i] = fut[i]
      BY <1>a, RaisesMoves
<1>u. /\ managers' = managers /\ main' = main /\ collected' = collected /\ shutdown' = shutdown
      /\ fixture' = fixture /\ results' = results /\ manifest' = manifest
      /\ mode' = mode /\ signals' = signals
      OBVIOUS
<1> HIDE DEF LaunchClosed, Runs
<1>1. TypeOK' BY <1>u, <1>m, <1>n DEF IInv, TypeOK
<1>2. Assigned'
  <2>1. \A v \in Worker : Busy(v)' => v # w /\ Busy(v) /\ thread'[v] = thread[v] BY <1>m
  <2>2. \A v \in Worker : Busy(v)' => fut'[thread'[v].item] = fut[thread[v].item]
        BY <1>a, <1>n, <2>1 DEF IInv, Assigned
  <2>3. \A i \in collected : fut'[i] = fut[i]
        BY <1>a, <1>n DEF IInv, TypeOK, Assigned
  <2>4. Serial => \A v \in Worker : ~Busy(v)'
        BY <1>a, <2>1 DEF IInv, Assigned
  <2> QED BY <1>u, <2>1, <2>2, <2>3, <2>4 DEF IInv, Assigned
<1>3. Lanes' BY <1>u, <1>m DEF IInv, TypeOK, Lanes
<1>4. SweptInOrder' BY <1>u DEF IInv, TypeOK, SweptInOrder
<1>5. Equipped' BY <1>u, <1>m DEF IInv, TypeOK, Lanes, Equipped
<1>6. Quiet' BY <1>u, <1>a, <1>m, <1>n DEF IInv, Quiet, Succeeded
<1>7. Recorded'
  <2>1. \A i \in Item : fut'[i] = "done" => fut[i] = "done" BY <1>a, <1>n
  <2>2. \A v \in Worker : Busy(v)' => Busy(v) /\ thread'[v] = thread[v] BY <1>m
  <2> QED BY <1>u, <2>1, <2>2, RecordedStays DEF IInv
<1>8. Late'
  <2>1. Len(managers) \in Nat /\ main.next \in Nat BY DEF IInv, TypeOK, MainThread
  <2>2. Entering' \subseteq Entering BY <1>m DEF Entering
  <2> QED BY <1>u, <2>1, <2>2, LateStays DEF IInv
<1>9. Written' BY <1>u DEF IInv, Written, ManifestCountsRowsOnDisk
<1> QED BY <1>1, <1>2, <1>3, <1>4, <1>5, <1>6, <1>7, <1>8, <1>9 DEF IInv

\* The thread remembers the engines it has launched: they are those it held.
LEMMA LeaveLaunchKeeps == ASSUME IInv, NEW w \in Worker, LeaveLaunch(w) PROVE IInv'
<1> USE DEF LeaveLaunch, Runs, files, outside, Serial, Busy
<1> DEFINE pc == IF thread[w].pc = "in_init" THEN "launch" ELSE "attempt"
           t == [thread[w] EXCEPT !.browsers = thread[w].mgr, !.pc = pc]
<1>m. /\ thread' \in [Worker -> Thread]
      /\ thread'[w].pc = pc /\ thread'[w].item = thread[w].item /\ thread'[w].row = thread[w].row
      /\ thread'[w].mgr = thread[w].mgr /\ thread'[w].browsers = thread[w].mgr
      /\ \A v \in Worker : v # w => thread'[v] = thread[v]
  <2>1. thread[w] \in Thread /\ thread \in [Worker -> Thread] BY DEF IInv, TypeOK
  <2>2. t \in Thread BY <2>1 DEF Thread
  <2>3. /\ t.pc = pc /\ t.item = thread[w].item /\ t.row = thread[w].row
        /\ t.mgr = thread[w].mgr /\ t.browsers = thread[w].mgr
        BY <2>1 DEF Thread
  <2>4. thread' = [thread EXCEPT ![w] = t] BY <2>1 DEF Thread
  <2> HIDE DEF t
  <2> QED BY <2>1, <2>2, <2>3, <2>4
<1>1. TypeOK' BY <1>m DEF IInv, TypeOK
<1>2. Assigned' BY <1>m DEF IInv, Assigned
<1>3. Lanes' BY <1>m DEF IInv, TypeOK, Lanes
<1>4. SweptInOrder' BY DEF IInv, TypeOK, SweptInOrder
<1>5. Equipped' BY <1>m DEF IInv, TypeOK, Lanes, Equipped
<1>6. Quiet' BY <1>m DEF IInv, Quiet, Succeeded
<1>7. Recorded' BY <1>m, RecordedStays DEF IInv
<1>8. Late'
  <2>1. Len(managers) \in Nat /\ main.next \in Nat BY DEF IInv, TypeOK, MainThread
  <2>2. Entering' \subseteq Entering BY <1>m DEF Entering
  <2> QED BY <2>1, <2>2, LateStays DEF IInv
<1>9. Written' BY DEF IInv, Written, ManifestCountsRowsOnDisk
<1> QED BY <1>1, <1>2, <1>3, <1>4, <1>5, <1>6, <1>7, <1>8, <1>9 DEF IInv

\* A launch that fails leaves its engines to the manager.
LEMMA FailLaunchKeeps == ASSUME IInv, NEW w \in Worker, FailLaunch(w) PROVE IInv'
<1> USE DEF FailLaunch, Runs, files, outside, Serial, Busy
<1>a. TypeOK /\ thread[w].item \in Item /\ fut[thread[w].item] = "running" /\ Busy(w)
      BY DEF IInv, Assigned
<1>m. /\ thread' \in [Worker -> Thread] /\ thread'[w].pc = "free" /\ thread'[w].mgr = 0
      /\ thread'[w].browsers = thread[w].browsers
      /\ \A v \in Worker : v # w => thread'[v] = thread[v]
      BY <1>a, RaisesMoves DEF Moves
<1>n. /\ fut' \in [Item -> {"pending", "running", "done", "error", "cancelled"}]
      /\ fut'[thread[w].item] = "error"
      /\ \A i \in Item : i # thread[w].item => fut'[i] = fut[i]
      BY <1>a, RaisesMoves
<1>u. /\ managers' = managers /\ main' = main /\ collected' = collected /\ shutdown' = shutdown
      /\ fixture' = fixture /\ results' = results /\ manifest' = manifest
      /\ mode' = mode /\ signals' = signals
      OBVIOUS
<1> HIDE DEF FailLaunch, Runs
<1>1. TypeOK' BY <1>u, <1>m, <1>n DEF IInv, TypeOK
<1>2. Assigned'
  <2>1. \A v \in Worker : Busy(v)' => v # w /\ Busy(v) /\ thread'[v] = thread[v] BY <1>m
  <2>2. \A v \in Worker : Busy(v)' => fut'[thread'[v].item] = fut[thread[v].item]
        BY <1>a, <1>n, <2>1 DEF IInv, Assigned
  <2>3. \A i \in collected : fut'[i] = fut[i]
        BY <1>a, <1>n DEF IInv, TypeOK, Assigned
  <2>4. Serial => \A v \in Worker : ~Busy(v)'
        BY <1>a, <2>1 DEF IInv, Assigned
  <2> QED BY <1>u, <2>1, <2>2, <2>3, <2>4 DEF IInv, Assigned
<1>3. Lanes' BY <1>u, <1>m DEF IInv, TypeOK, Lanes
<1>4. SweptInOrder' BY <1>u DEF IInv, TypeOK, SweptInOrder
<1>5. Equipped' BY <1>u, <1>m DEF IInv, TypeOK, Lanes, Equipped
<1>6. Quiet' BY <1>u, <1>a, <1>m, <1>n DEF IInv, Quiet, Succeeded
<1>7. Recorded'
  <2>1. \A i \in Item : fut'[i] = "done" => fut[i] = "done" BY <1>a, <1>n
  <2>2. \A v \in Worker : Busy(v)' => Busy(v) /\ thread'[v] = thread[v] BY <1>m
  <2> QED BY <1>u, <2>1, <2>2, RecordedStays DEF IInv
<1>8. Late'
  <2>1. Len(managers) \in Nat /\ main.next \in Nat BY DEF IInv, TypeOK, MainThread
  <2>2. Entering' \subseteq Entering BY <1>m DEF Entering
  <2> QED BY <1>u, <2>1, <2>2, LateStays DEF IInv
<1>9. Written' BY <1>u DEF IInv, Written, ManifestCountsRowsOnDisk
<1> QED BY <1>1, <1>2, <1>3, <1>4, <1>5, <1>6, <1>7, <1>8, <1>9 DEF IInv

\* The row of one engine; the item is done with the row of the last one.  Only
\* the teardown of an interrupted pool can have closed what the attempt used.
LEMMA AppendRowKeeps == ASSUME IInv, NEW w \in Worker, AppendRow(w) PROVE IInv'
<1> USE ConstantsAssumption DEF AppendRow, Runs, MoreRows, files, outside, Serial, Busy
<1> DEFINE t == thread[w]
           spoilt == ~managers[t.mgr].up \/ ~fixture
<1>t. /\ t \in Thread /\ thread \in [Worker -> Thread] /\ Busy(w)
      /\ t.item \in Item /\ fut[t.item] = "running"
      /\ fut \in [Item -> {"pending", "running", "done", "error", "cancelled"}]
      BY DEF IInv, TypeOK, Assigned
<1>r. t.row \in 1..Rows /\ t.browsers \in Nat /\ t.mgr \in Nat BY <1>t DEF Thread
<1>m. /\ thread' \in [Worker -> Thread] /\ thread'[w].browsers = t.browsers
      /\ \A v \in Worker : v # w => thread'[v] = thread[v]
      /\ t.row < Rows => /\ thread'[w].pc = "launch" /\ thread'[w].item = t.item
                         /\ thread'[w].row = t.row + 1 /\ thread'[w].mgr = t.mgr /\ fut' = fut
      /\ ~(t.row < Rows) => /\ thread'[w].pc = "free" /\ thread'[w].mgr = 0
                            /\ fut' = [fut EXCEPT ![t.item] = "done"]
  <2>1. CASE t.row < Rows
    <3> DEFINE u == [t EXCEPT !.pc = "launch", !.row = t.row + 1]
    <3>1. t.row + 1 \in 1..Rows BY <1>r, <2>1
    <3>2. thread' = [thread EXCEPT ![w] = u] /\ fut' = fut BY <2>1, <1>t DEF Thread
    <3>3. u \in Thread /\ u.pc = "launch" /\ u.item = t.item /\ u.row = t.row + 1
          /\ u.mgr = t.mgr /\ u.browsers = t.browsers
      <4> HIDE DEF AppendRow
      <4> QED BY <1>t, <3>1 DEF Thread
    <3> HIDE DEF u
    <3> QED BY <1>t, <2>1, <3>2, <3>3
  <2>2. CASE ~(t.row < Rows)
    <3> DEFINE u == [Free EXCEPT !.browsers = t.browsers]
    <3>1. thread' = [thread EXCEPT ![w] = u] /\ fut' = [fut EXCEPT ![t.item] = "done"]
          BY <2>2
    <3>2. u \in Thread /\ u.pc = "free" /\ u.mgr = 0 /\ u.browsers = t.browsers
      <4> HIDE DEF AppendRow
      <4> QED BY <1>r DEF Thread, Free
    <3> HIDE DEF u
    <3> QED BY <1>t, <2>2, <3>1, <3>2
  <2> QED BY <2>1, <2>2
<1>a. results' = results \cup {<<t.item, t.row, spoilt>>} /\ spoilt \in BOOLEAN OBVIOUS
<1>u. /\ managers' = managers /\ main' = main /\ collected' = collected /\ shutdown' = shutdown
      /\ fixture' = fixture /\ manifest' = manifest /\ mode' = mode /\ signals' = signals
      OBVIOUS
<1>s. spoilt => shutdown /\ ~Serial
  <2>1. SUFFICES ASSUME spoilt PROVE main.pc # "collect"
        BY <1>t DEF IInv, Quiet
  <2>2. CASE ~fixture BY <2>2 DEF IInv, Written
  <2>3. CASE ~managers[t.mgr].up
    <3>1. t.mgr > 0 /\ managers[t.mgr].phase = "closed" BY <2>3 DEF IInv, Equipped
    <3>2. t.mgr \in 1..Len(managers) BY <1>r, <3>1 DEF IInv, Lanes
    <3>3. main.next \in Nat BY DEF IInv, TypeOK, MainThread
    <3>4. t.mgr < main.next BY <1>r, <3>1, <3>2, <3>3 DEF IInv, SweptInOrder
    <3> QED BY <1>r, <3>1, <3>3, <3>4 DEF IInv, SweptInOrder
  <2> QED BY <2>1, <2>2, <2>3
<1>p. Runs(w, "attempt") OBVIOUS
<1> HIDE DEF AppendRow, spoilt
<1>1. TypeOK'
  <2>1. <<t.item, t.row, spoilt>> \in Item \X (1..Rows) \X BOOLEAN BY <1>t, <1>r, <1>a
  <2>2. results' \subseteq Item \X (1..Rows) \X BOOLEAN BY <1>a, <2>1 DEF IInv, TypeOK
  <2>3. fut' \in [Item -> {"pending", "running", "done", "error", "cancelled"}]
        BY <1>t, <1>m
  <2> QED BY <1>m, <1>u, <2>2, <2>3 DEF IInv, TypeOK
<1>2. Assigned'
  <2>1. \A i \in Item : i # t.item => fut'[i] = fut[i] BY <1>t, <1>m
  <2>2. t.item \notin collected BY <1>t DEF IInv, Assigned
  <2>3. \A v \in Worker : Busy(v)' => Busy(v) /\ thread'[v].item = thread[v].item
        BY <1>t, <1>m
  <2>4. Busy(w)' => fut' = fut BY <1>m
  <2>5. \A v \in Worker : Busy(v)' /\ v # w => thread'[v].item # t.item
        BY <1>t, <2>3 DEF IInv, Assigned
  <2>6. \A v \in Worker : Busy(v)' => fut'[thread'[v].item] = "running"
        BY <1>t, <2>1, <2>3, <2>4, <2>5 DEF IInv, Assigned
  <2>7. \A i \in collected : fut'[i] \in {"done", "error"}
        BY <2>1, <2>2 DEF IInv, TypeOK, Assigned
  <2>8. Serial => \A v \in Worker : Busy(v)' => v = w
        BY <1>t, <2>2, <2>3, <2>5, ZenonT(40) DEF IInv, Assigned
  <2>9. Serial => \A v \in Worker : Busy(v)' =>
          \A j \in Item : j # thread'[v].item => fut'[j] = "pending" \/ j \in collected
        BY <1>t, <2>1, <2>3, <2>8 DEF IInv, Assigned
  <2> QED BY <1>u, <2>3, <2>6, <2>7, <2>9 DEF IInv, Assigned
<1>3. Lanes' BY <1>t, <1>m, <1>u DEF IInv, TypeOK, Lanes
<1>4. SweptInOrder' BY <1>u DEF IInv, TypeOK, SweptInOrder
<1>5. Equipped'
  <2>1. thread'[w].pc \in {"launch", "free"} BY <1>m
  <2> QED BY <1>m, <1>u, <2>1 DEF IInv, Equipped
<1>6. Quiet'
  <2>1. main.pc = "collect" \/ (~Serial /\ shutdown) BY <1>t DEF IInv, Quiet
  <2>2. ~main.completed
        BY <1>t DEF IInv, Quiet, Succeeded
  <2> QED BY <1>u, <2>1, <2>2 DEF IInv, Quiet, Succeeded
<1>7. Recorded'
  <2>1. IsFiniteSet(results)' BY <1>a, FS_AddElement DEF IInv, Recorded
  <2>2. \A i, r : HasRow(i, r) => HasRow(i, r)' BY <1>a DEF HasRow
  <2>k. PICK i0 \in Item, k0 \in 1..Rows : i0 = t.item /\ k0 = t.row BY <1>t, <1>r
  <2>3. HasRow(i0, k0)'
    <3>1. <<i0, k0, spoilt>> \in results' BY <1>a, <2>k
    <3> QED BY <1>a, <3>1 DEF HasRow
  <2>4. \A r \in 1..Rows : r <= k0 => HasRow(i0, r)'
    <3> SUFFICES ASSUME NEW r \in 1..Rows, r <= k0 PROVE HasRow(i0, r)'
        OBVIOUS
    <3>1. CASE r = k0 BY <2>3, <3>1
    <3>2. CASE r < k0
      <4>1. HasRow(i0, r) BY <1>t, <2>k, <3>2 DEF IInv, Recorded
      <4> QED BY <2>2, <4>1
    <3> QED BY <3>1, <3>2
  <2>5. \A i \in Item : fut'[i] = "done" => \A r \in 1..Rows : HasRow(i, r)'
    <3> SUFFICES ASSUME NEW i \in Item, fut'[i] = "done", NEW r \in 1..Rows
                 PROVE  HasRow(i, r)'
        OBVIOUS
    <3>1. CASE fut[i] = "done" BY <2>2, <3>1 DEF IInv, Recorded
    <3>2. CASE fut[i] # "done"
      <4>1. i = i0 /\ ~(k0 < Rows) BY <1>t, <1>m, <2>k, <3>2
      <4>2. r <= k0 BY <4>1
      <4> QED BY <2>4, <4>1, <4>2
    <3> QED BY <3>1, <3>2
  <2>6. ASSUME NEW v \in Worker, Busy(v)', NEW r \in 1..Rows, r < thread'[v].row
        PROVE  HasRow(thread[v].item, r)'
    <3>1. CASE v = w
      <4>1. thread'[v].item = i0 /\ thread'[v].row = k0 + 1 BY <1>m, <2>k, <2>6, <3>1
      <4>2. HasRow(i0, r)' BY <2>4, <2>6, <4>1
      <4> QED BY <4>1, <4>2 DEF HasRow
    <3>2. CASE v # w
      <4>1. thread'[v] = thread[v] BY <1>m, <3>2
      <4>2. HasRow(thread[v].item, r) BY <2>6, <4>1 DEF IInv, Recorded
      <4> QED BY <1>a, <4>1, <4>2 DEF HasRow
    <3> QED BY <3>1, <3>2
  <2>7. SpoiltOnlyByInterrupt'
    <3>1. <<t.item, t.row, spoilt>>[3] = spoilt OBVIOUS
    <3> QED BY <1>a, <1>s, <1>u, <3>1 DEF IInv, Recorded, SpoiltOnlyByInterrupt
  <2> QED BY <2>1, <2>5, <2>6, <2>7 DEF Recorded
<1>8. Late'
  <2>1. Len(managers) \in Nat /\ main.next \in Nat BY DEF IInv, TypeOK, MainThread
  <2>2. Entering' \subseteq Entering BY <1>m DEF Entering
  <2> QED BY <1>u, <2>1, <2>2, LateStays DEF IInv
<1>9. Written'
  <2>0. IsFiniteSet(results) /\ IsFiniteSet(results') /\ results \subseteq results'
        BY <1>a, FS_AddElement DEF IInv, Recorded
  <2>1. /\ Cardinality(results') \in Nat /\ Cardinality(results) \in Nat
        /\ Cardinality(results) <= Cardinality(results')
        BY <2>0, FS_Subset, FS_CardinalityType
  <2>2. manifest.rows \in Nat BY DEF IInv, TypeOK
  <2>3. ManifestCountsRowsOnDisk'
        BY <1>u, <2>1, <2>2 DEF IInv, Written, ManifestCountsRowsOnDisk
  <2> QED BY <1>u, <2>3 DEF IInv, Written
<1> QED BY <1>1, <1>2, <1>3, <1>4, <1>5, <1>6, <1>7, <1>8, <1>9 DEF IInv

\* A delivered future is over; with jobs = 1 an item that raised ends the run.
LEMMA CollectKeeps == ASSUME IInv, NEW i \in Item, Collect(i) PROVE IInv'
<1> USE ConstantsAssumption DEF Collect, MainGoes, files, outside, Serial, Busy
<1>m. /\ main' \in MainThread /\ main'.next = main.next /\ main'.completed = main.completed
      /\ main'.pc \in {"collect", "close"}
      /\ main'.pc = "close" => Serial /\ fut[i] = "error"
  <2>1. main \in MainThread BY DEF IInv, TypeOK
  <2>2. CASE Serial /\ fut[i] = "error"
    <3>1. main' = [main EXCEPT !.pc = "close"] BY <2>2
    <3> QED BY <2>1, <2>2, <3>1 DEF MainThread
  <2>3. CASE ~(Serial /\ fut[i] = "error")
    <3>1. main' = main BY <2>3
    <3> QED BY <2>1, <3>1 DEF MainThread
  <2> QED BY <2>2, <2>3
<1>1. TypeOK' BY <1>m DEF IInv, TypeOK
<1>2. Assigned' BY DEF IInv, TypeOK, Assigned
<1>3. Lanes' BY DEF IInv, TypeOK, Lanes
<1>4. SweptInOrder' BY <1>m DEF IInv, SweptInOrder
<1>5. Equipped' BY DEF IInv, TypeOK, Lanes, Equipped
<1>6. Quiet'
  <2>1. main'.pc = "close" => \A v \in Worker : ~Busy(v) BY <1>m DEF IInv, Assigned
  <2> QED BY <1>m, <2>1 DEF IInv, Quiet, Succeeded
<1>7. Recorded' BY DEF IInv, TypeOK, Recorded, Assigned, HasRow, SpoiltOnlyByInterrupt
<1>8. Late' BY <1>m DEF Late
<1>9. Written' BY <1>m DEF IInv, TypeOK, Written, ManifestCountsRowsOnDisk
<1> QED BY <1>1, <1>2, <1>3, <1>4, <1>5, <1>6, <1>7, <1>8, <1>9 DEF IInv

\* Every future is over, so no thread is at work.
LEMMA AllCollectedKeeps == ASSUME IInv, AllCollected PROVE IInv'
<1> USE ConstantsAssumption DEF AllCollected, NothingToCollect, MainGoes, files, outside, Serial, Busy
<1>1. TypeOK'
  <2>1. main \in MainThread BY DEF IInv, TypeOK
  <2>2. main' \in MainThread BY <2>1 DEF MainThread
  <2> QED BY <2>2 DEF IInv, TypeOK
<1>2. Assigned' BY DEF IInv, TypeOK, Assigned
<1>3. Lanes' BY DEF IInv, TypeOK, Lanes
<1>4. SweptInOrder' BY DEF IInv, TypeOK, SweptInOrder
<1>5. Equipped' BY DEF IInv, TypeOK, Lanes, Equipped
<1>6. Quiet' BY DEF IInv, TypeOK, Assigned, Quiet, Succeeded
<1>7. Recorded' BY DEF IInv, TypeOK, Recorded, Assigned, HasRow, SpoiltOnlyByInterrupt
<1>8. Late' BY DEF IInv, TypeOK, Late, Entering, Quiet
<1>9. Written' BY DEF IInv, TypeOK, Written, ManifestCountsRowsOnDisk
<1> QED BY <1>1, <1>2, <1>3, <1>4, <1>5, <1>6, <1>7, <1>8, <1>9 DEF IInv

\* The run is completed if all futures are done, and it was not interrupted.
LEMMA PoolDoneKeeps == ASSUME IInv, PoolDone PROVE IInv'
<1> USE ConstantsAssumption DEF PoolDone, files, outside, Serial, Busy
<1>1. TypeOK'
  <2>1. main \in MainThread BY DEF IInv, TypeOK
  <2>2. main' \in MainThread BY <2>1 DEF MainThread, Succeeded
  <2> QED BY <2>2 DEF IInv, TypeOK
<1>2. Assigned' BY DEF IInv, TypeOK, Assigned
<1>3. Lanes' BY DEF IInv, TypeOK, Lanes
<1>4. SweptInOrder' BY DEF IInv, TypeOK, SweptInOrder
<1>5. Equipped' BY DEF IInv, TypeOK, Lanes, Equipped
<1>6. Quiet' BY DEF IInv, TypeOK, Assigned, Quiet, Succeeded
<1>7. Recorded' BY DEF IInv, TypeOK, Recorded, Assigned, HasRow, SpoiltOnlyByInterrupt
<1>8. Late' BY DEF IInv, TypeOK, Late, Entering, Quiet
<1>9. Written' BY DEF IInv, TypeOK, Written, ManifestCountsRowsOnDisk
<1> QED BY <1>1, <1>2, <1>3, <1>4, <1>5, <1>6, <1>7, <1>8, <1>9 DEF IInv

\* From here on the run is over for jobs = 1, and will not be completed otherwise.
LEMMA InterruptKeeps == ASSUME IInv, Interrupt PROVE IInv'
<1> USE ConstantsAssumption DEF Interrupt, AfterInterrupt, MainGoes, Free, files, outside, Serial, Busy
<1>1. TypeOK'
  <2>1. main \in MainThread BY DEF IInv, TypeOK
  <2>2. main' = [main EXCEPT !.pc = AfterInterrupt] OBVIOUS
  <2>3. AfterInterrupt \in {"cancel", "close", "aborted"} OBVIOUS
  <2>4. main' \in MainThread BY <2>1, <2>2, <2>3 DEF MainThread
  <2>5. [v \in Worker |-> Free] \in [Worker -> Thread]
        BY DEF Thread
  <2> QED BY <2>4, <2>5 DEF IInv, TypeOK
<1>2. Assigned' BY DEF IInv, TypeOK, Assigned
<1>3. Lanes' BY DEF IInv, TypeOK, Lanes
<1>4. SweptInOrder' BY DEF IInv, TypeOK, SweptInOrder
<1>5. Equipped' BY DEF IInv, TypeOK, Lanes, Equipped
<1>6. Quiet' BY DEF IInv, TypeOK, Assigned, Quiet, Succeeded
<1>7. Recorded' BY DEF IInv, TypeOK, Recorded, Assigned, HasRow, SpoiltOnlyByInterrupt
<1>8. Late' BY DEF IInv, TypeOK, Late, Entering, Quiet
<1>9. Written' BY DEF IInv, TypeOK, Written, ManifestCountsRowsOnDisk
<1> QED BY <1>1, <1>2, <1>3, <1>4, <1>5, <1>6, <1>7, <1>8, <1>9 DEF IInv

\* Only with jobs = 1.
LEMMA SwallowedInterruptKeeps == ASSUME IInv, SwallowedInterrupt PROVE IInv'
<1> USE ConstantsAssumption DEF SwallowedInterrupt, files, outside, Serial, Busy
<1>1. TypeOK' BY DEF IInv, TypeOK
<1>2. Assigned' BY DEF IInv, TypeOK, Assigned
<1>3. Lanes' BY DEF IInv, TypeOK, Lanes
<1>4. SweptInOrder' BY DEF IInv, TypeOK, SweptInOrder
<1>5. Equipped' BY DEF IInv, TypeOK, Lanes, Equipped
<1>6. Quiet' BY DEF IInv, TypeOK, Assigned, Quiet, Succeeded
<1>7. Recorded' BY DEF IInv, TypeOK, Recorded, Assigned, HasRow, SpoiltOnlyByInterrupt
<1>8. Late' BY DEF IInv, TypeOK, Late, Entering, Quiet
<1>9. Written' BY DEF IInv, TypeOK, Written, ManifestCountsRowsOnDisk
<1> QED BY <1>1, <1>2, <1>3, <1>4, <1>5, <1>6, <1>7, <1>8, <1>9 DEF IInv

\* What no thread has taken is never run.
LEMMA CancelKeeps == ASSUME IInv, Cancel PROVE IInv'
<1> USE ConstantsAssumption DEF Cancel, MainGoes, files, outside, Serial, Busy
<1>1. TypeOK'
  <2>1. main \in MainThread BY DEF IInv, TypeOK
  <2>2. main' \in MainThread BY <2>1 DEF MainThread
  <2> QED BY <2>2 DEF IInv, TypeOK
<1>2. Assigned'
  <2>1. \A j \in Item : fut[j] # "pending" => fut'[j] = fut[j] BY DEF IInv, TypeOK
  <2>2. \A v \in Worker : Busy(v) => fut'[thread[v].item] = "running"
        BY <2>1 DEF IInv, Assigned
  <2>3. \A j \in collected : fut'[j] \in {"done", "error"}
        BY <2>1 DEF IInv, TypeOK, Assigned
  <2>4. Serial => \A v \in Worker : ~Busy(v) BY DEF IInv, Quiet
  <2> QED BY <2>2, <2>3, <2>4 DEF IInv, Assigned
<1>3. Lanes' BY DEF IInv, TypeOK, Lanes
<1>4. SweptInOrder' BY DEF IInv, TypeOK, SweptInOrder
<1>5. Equipped' BY DEF IInv, TypeOK, Lanes, Equipped
<1>6. Quiet' BY DEF IInv, TypeOK, Assigned, Quiet, Succeeded
<1>7. Recorded' BY DEF IInv, TypeOK, Recorded, Assigned, HasRow, SpoiltOnlyByInterrupt
<1>8. Late' BY DEF IInv, TypeOK, Late, Entering, Quiet
<1>9. Written' BY DEF IInv, TypeOK, Written, ManifestCountsRowsOnDisk
<1> QED BY <1>1, <1>2, <1>3, <1>4, <1>5, <1>6, <1>7, <1>8, <1>9 DEF IInv

\* The manager under the sweep takes no further launch.
LEMMA BeginCloseKeeps == ASSUME IInv, BeginClose PROVE IInv'
<1> USE ConstantsAssumption DEF BeginClose, files, outside, Serial, Busy
<1>1. TypeOK'
  <2>1. managers \in Seq(Manager) /\ main.next \in 1..Len(managers)
        BY DEF IInv, TypeOK, MainThread, SweptInOrder
  <2>2. managers[main.next] \in Manager BY <2>1
  <2>3. [managers[main.next] EXCEPT !.phase = "closing"] \in Manager
        BY <2>2 DEF Manager
  <2>4. managers' \in Seq(Manager) BY <2>1, <2>3
  <2> QED BY <2>4 DEF IInv, TypeOK
<1>2. Assigned' BY DEF IInv, TypeOK, Assigned
<1>3. Lanes' BY DEF IInv, TypeOK, Lanes
<1>4. SweptInOrder' BY DEF IInv, TypeOK, SweptInOrder
<1>5. Equipped' BY DEF IInv, TypeOK, Lanes, Equipped
<1>6. Quiet' BY DEF IInv, TypeOK, Assigned, Quiet, Succeeded
<1>7. Recorded' BY DEF IInv, TypeOK, Recorded, Assigned, HasRow, SpoiltOnlyByInterrupt
<1>8. Late' BY DEF IInv, TypeOK, Late, Entering, Quiet
<1>9. Written' BY DEF IInv, TypeOK, Written, ManifestCountsRowsOnDisk
<1> QED BY <1>1, <1>2, <1>3, <1>4, <1>5, <1>6, <1>7, <1>8, <1>9 DEF IInv

\* No launch holds the manager that is closed, so no thread is inside one.
LEMMA EndCloseKeeps == ASSUME IInv, EndClose PROVE IInv'
<1> USE ConstantsAssumption DEF EndClose, LockFree, Holds, files, outside, Serial, Busy
<1> DEFINE k == main.next
           x == [managers[k] EXCEPT !.phase = "closed", !.up = FALSE]
<1>k. main \in MainThread /\ managers \in Seq(Manager) /\ k \in 1..Len(managers)
      BY DEF IInv, TypeOK, MainThread, SweptInOrder
<1>x. x \in Manager /\ x.phase = "closed" /\ ~x.up
  <2>1. managers[k] \in Manager BY <1>k
  <2> QED BY <2>1 DEF Manager
<1>s. /\ managers' \in Seq(Manager) /\ Len(managers') = Len(managers)
      /\ managers'[k].phase = "closed" /\ ~managers'[k].up
      /\ \A m \in 1..Len(managers) : m # k => managers'[m] = managers[m]
  <2>1. managers' = [managers EXCEPT ![k] = x] OBVIOUS
  <2> HIDE DEF x, k, EndClose
  <2> QED BY <1>k, <1>x, <2>1
<1>n. main' \in MainThread /\ main'.pc = "close" /\ main'.next = k + 1
      /\ main'.completed = main.completed
      BY <1>k DEF MainThread
<1>1. TypeOK' BY <1>s, <1>n DEF IInv, TypeOK
<1>2. Assigned' BY DEF IInv, TypeOK, Assigned
<1>3. Lanes' BY <1>s DEF IInv, TypeOK, Lanes
<1>4. SweptInOrder' BY <1>k, <1>s, <1>n, SMTT(30) DEF IInv, SweptInOrder
<1>5. Equipped'
  <2>1. \A v \in Worker : thread[v].mgr > 0 => thread[v].mgr \in 1..Len(managers)
        BY DEF IInv, TypeOK, Thread, Lanes
  <2> QED BY <1>s, <2>1 DEF IInv, Equipped
<1>6. Quiet' BY <1>n DEF IInv, Quiet, Succeeded
<1>7. Recorded' BY DEF IInv, TypeOK, Recorded, Assigned, HasRow, SpoiltOnlyByInterrupt
<1>8. Late' BY <1>n DEF Late
<1>9. Written' BY <1>n DEF IInv, Written, ManifestCountsRowsOnDisk
<1> QED BY <1>1, <1>2, <1>3, <1>4, <1>5, <1>6, <1>7, <1>8, <1>9 DEF IInv

\* Nothing is claimed of an aborted teardown.
LEMMA FailCloseKeeps == ASSUME IInv, FailClose PROVE IInv'
<1> USE ConstantsAssumption DEF FailClose, MainGoes, files, outside, Serial, Busy
<1>1. TypeOK'
  <2>1. main \in MainThread BY DEF IInv, TypeOK
  <2>2. main' \in MainThread BY <2>1 DEF MainThread
  <2> QED BY <2>2 DEF IInv, TypeOK
<1>2. Assigned' BY DEF IInv, TypeOK, Assigned
<1>3. Lanes' BY DEF IInv, TypeOK, Lanes
<1>4. SweptInOrder' BY DEF IInv, TypeOK, SweptInOrder
<1>5. Equipped' BY DEF IInv, TypeOK, Lanes, Equipped
<1>6. Quiet' BY DEF IInv, TypeOK, Assigned, Quiet, Succeeded
<1>7. Recorded' BY DEF IInv, TypeOK, Recorded, Assigned, HasRow, SpoiltOnlyByInterrupt
<1>8. Late' BY DEF IInv, TypeOK, Late, Entering, Quiet
<1>9. Written' BY DEF IInv, TypeOK, Written, ManifestCountsRowsOnDisk
<1> QED BY <1>1, <1>2, <1>3, <1>4, <1>5, <1>6, <1>7, <1>8, <1>9 DEF IInv

\* All managers registered so far are closed; the workers that have passed the
\* check are the only ones to register another.
LEMMA SweepEndsKeeps == ASSUME IInv, SweepEnds PROVE IInv'
<1> USE ConstantsAssumption DEF SweepEnds, Swept, MainGoes, files, outside, Serial, Busy
<1>1. TypeOK'
  <2>1. main \in MainThread BY DEF IInv, TypeOK
  <2>2. main' \in MainThread BY <2>1 DEF MainThread
  <2> QED BY <2>2 DEF IInv, TypeOK
<1>2. Assigned' BY DEF IInv, TypeOK, Assigned
<1>3. Lanes' BY DEF IInv, TypeOK, Lanes
<1>4. SweptInOrder' BY DEF IInv, TypeOK, SweptInOrder
<1>5. Equipped' BY DEF IInv, TypeOK, Lanes, Equipped
<1>6. Quiet' BY DEF IInv, TypeOK, Assigned, Quiet, Succeeded
<1>7. Recorded' BY DEF IInv, TypeOK, Recorded, Assigned, HasRow, SpoiltOnlyByInterrupt
<1>8. Late'
  <2>1. Entering \subseteq Worker BY DEF Entering
  <2>2. Cardinality(Entering) <= Cardinality(Worker) BY <2>1, FS_Subset
  <2>3. Cardinality(Entering) \in Nat /\ Cardinality(Worker) \in Nat
        BY <2>1, FS_Subset, FS_CardinalityType
  <2>4. Len(managers) \in Nat /\ main.next \in Nat BY DEF IInv, TypeOK, MainThread
  <2>5. Entering' = Entering /\ main'.next = main.next BY DEF Entering, IInv, TypeOK, MainThread
  <2> QED BY <2>2, <2>3, <2>4, <2>5 DEF Late
<1>9. Written' BY DEF IInv, TypeOK, Written, ManifestCountsRowsOnDisk
<1> QED BY <1>1, <1>2, <1>3, <1>4, <1>5, <1>6, <1>7, <1>8, <1>9 DEF IInv

\* The attempts that still run belong to an interrupted pool.
LEMMA StopFixtureKeeps == ASSUME IInv, StopFixture PROVE IInv'
<1> USE ConstantsAssumption DEF StopFixture, MainGoes, files, outside, Serial, Busy
<1>1. TypeOK'
  <2>1. main \in MainThread BY DEF IInv, TypeOK
  <2>2. main' \in MainThread BY <2>1 DEF MainThread
  <2> QED BY <2>2 DEF IInv, TypeOK
<1>2. Assigned' BY DEF IInv, TypeOK, Assigned
<1>3. Lanes' BY DEF IInv, TypeOK, Lanes
<1>4. SweptInOrder' BY DEF IInv, TypeOK, SweptInOrder
<1>5. Equipped' BY DEF IInv, TypeOK, Lanes, Equipped
<1>6. Quiet' BY DEF IInv, TypeOK, Assigned, Quiet, Succeeded
<1>7. Recorded' BY DEF IInv, TypeOK, Recorded, Assigned, HasRow, SpoiltOnlyByInterrupt
<1>8. Late' BY DEF IInv, TypeOK, Late, Entering, Quiet
<1>9. Written' BY DEF IInv, TypeOK, Written, ManifestCountsRowsOnDisk
<1> QED BY <1>1, <1>2, <1>3, <1>4, <1>5, <1>6, <1>7, <1>8, <1>9 DEF IInv

\* The rows of the items that are done: as many on disk as are reported.
LEMMA ReportedIsOnDisk == ASSUME IInv PROVE /\ Reported \in Nat
                                            /\ Reported <= Cardinality(results)
<1> USE ConstantsAssumption
<1> DEFINE D == {i \in collected : fut[i] = "done"}
           T == D \X (1..Rows)
           S == {x \in results : <<x[1], x[2]>> \in T}
           f == [x \in S |-> <<x[1], x[2]>>]
<1>1. D \subseteq Item /\ IsFiniteSet(D) /\ Cardinality(D) \in Nat
      BY FS_Subset, FS_CardinalityType DEF IInv, TypeOK
<1>2. IsFiniteSet(1..Rows) /\ Cardinality(1..Rows) = Rows BY FS_Interval
<1>3. IsFiniteSet(T) /\ Cardinality(T) = Cardinality(D) * Rows BY <1>1, <1>2, FS_Product
<1>4. IsFiniteSet(results) /\ IsFiniteSet(S) /\ Cardinality(S) <= Cardinality(results)
      BY FS_Subset DEF IInv, Recorded
<1>5. f \in Surjection(S, T)
  <2>1. \A y \in T : \E x \in S : f[x] = y
    <3> SUFFICES ASSUME NEW y \in T PROVE \E x \in S : f[x] = y
        OBVIOUS
    <3>1. PICK i \in D, r \in 1..Rows : y = <<i, r>> OBVIOUS
    <3>2. HasRow(i, r) BY <1>1, <3>1 DEF IInv, Recorded
    <3>3. PICK b \in BOOLEAN : <<i, r, b>> \in results BY <3>2 DEF HasRow
    <3>4. <<i, r, b>> \in S /\ f[<<i, r, b>>] = y BY <3>1, <3>3
    <3> QED BY <3>4
  <2>2. f \in [S -> T] OBVIOUS
  <2> QED BY <2>1, <2>2 DEF Surjection
<1>6. Cardinality(T) <= Cardinality(S) BY <1>4, <1>5, FS_Surjection
<1>7. Cardinality(T) \in Nat /\ Cardinality(S) \in Nat /\ Cardinality(results) \in Nat
      BY <1>3, <1>4, FS_CardinalityType
<1>8. Reported = Rows * Cardinality(D) BY DEF Reported
<1> HIDE DEF D, T, S
<1> QED BY <1>1, <1>3, <1>4, <1>6, <1>7, <1>8

\* The manifest counts the rows of delivered and finished items.
LEMMA WriteManifestKeeps == ASSUME IInv, WriteManifest PROVE IInv'
<1> USE ConstantsAssumption DEF WriteManifest, MainGoes, files, outside, Serial, Busy
<1>1. TypeOK'
  <2>1. main \in MainThread BY DEF IInv, TypeOK
  <2>2. main' \in MainThread BY <2>1 DEF MainThread
  <2> QED BY <2>2, ReportedIsOnDisk DEF IInv, TypeOK
<1>2. Assigned' BY DEF IInv, TypeOK, Assigned
<1>3. Lanes' BY DEF IInv, TypeOK, Lanes
<1>4. SweptInOrder' BY DEF IInv, TypeOK, SweptInOrder
<1>5. Equipped' BY DEF IInv, TypeOK, Lanes, Equipped
<1>6. Quiet' BY DEF IInv, TypeOK, Assigned, Quiet, Succeeded
<1>7. Recorded' BY DEF IInv, TypeOK, Recorded, Assigned, HasRow, SpoiltOnlyByInterrupt
<1>8. Late' BY DEF IInv, TypeOK, Late, Entering, Quiet
<1>9. Written'
  <2>1. main'.pc = "ended" /\ main'.completed = main.completed BY DEF IInv, TypeOK, MainThread
  <2>2. manifest'.rows = Reported OBVIOUS
  <2>3. manifest'.rows <= Cardinality(results) BY <2>2, ReportedIsOnDisk
  <2>4. manifest'.status \in {"completed", "interrupted"}
        /\ (manifest'.status = "completed" => main.completed)
        OBVIOUS
  <2>5. main.completed => Reported = Rows * Cardinality(Item)
    <3>1. main.completed => {i \in collected : fut[i] = "done"} = Item
          BY DEF IInv, Quiet, Succeeded
    <3> QED BY <3>1 DEF Reported
  <2> QED BY <2>1, <2>2, <2>3, <2>4, <2>5 DEF Written, ManifestCountsRowsOnDisk
<1> QED BY <1>1, <1>2, <1>3, <1>4, <1>5, <1>6, <1>7, <1>8, <1>9 DEF IInv

-----------------------------------------------------------------------------
\* Nothing is registered, delivered or written yet.
LEMMA InitIInv == Init => IInv
<1> SUFFICES ASSUME Init PROVE IInv
    OBVIOUS
<1> USE ConstantsAssumption DEF Init, Free, Busy
<1>1. TypeOK
  <2>1. Free \in Thread BY DEF Thread
  <2>2. main \in MainThread BY DEF MainThread
  <2> HIDE DEF Free
  <2>3. thread \in [Worker -> Thread] /\ managers \in Seq(Manager) BY <2>1
  <2>4. signals \in 0..MaxSignals /\ mode \in Modes /\ collected \subseteq Item
        /\ results \subseteq Item \X (1..Rows) \X BOOLEAN
        OBVIOUS
  <2>5. manifest \in [status : {"started", "completed", "interrupted"}, rows : Nat]
        /\ fut \in [Item -> {"pending", "running", "done", "error", "cancelled"}]
        OBVIOUS
  <2> QED BY <2>2, <2>3, <2>4, <2>5 DEF TypeOK
<1>2. Assigned BY DEF Assigned
<1>3. Lanes BY DEF Lanes
<1>4. SweptInOrder BY DEF SweptInOrder
<1>5. Equipped BY DEF Equipped
<1>6. Quiet BY DEF Quiet
<1>7. Recorded BY FS_EmptySet DEF Recorded, SpoiltOnlyByInterrupt
<1>8. Late BY DEF Late
<1>9. Written BY FS_EmptySet DEF Written, ManifestCountsRowsOnDisk
<1> QED BY <1>1, <1>2, <1>3, <1>4, <1>5, <1>6, <1>7, <1>8, <1>9 DEF IInv

\* Every step of a worker, of the main thread and of a signal keeps the invariant.
LEMMA NextKeeps == IInv /\ [Next]_vars => IInv'
<1> SUFFICES ASSUME IInv, [Next]_vars PROVE IInv'
    OBVIOUS
<1>1. CASE MainStep
      BY <1>1, CollectKeeps, AllCollectedKeeps, PoolDoneKeeps, CancelKeeps, BeginCloseKeeps,
         EndCloseKeeps, FailCloseKeeps, SweepEndsKeeps, StopFixtureKeeps, WriteManifestKeeps
      DEF MainStep
<1>2. CASE Interrupt \/ SwallowedInterrupt
      BY <1>2, InterruptKeeps, SwallowedInterruptKeeps
<1>3. ASSUME NEW w \in Worker, WorkerStep(w) PROVE IInv'
      BY <1>3, TakeKeeps, StartKeeps, RefuseKeeps, PassCheckKeeps, RegisterManagerKeeps,
         EnterLaunchKeeps, LaunchClosedKeeps, LeaveLaunchKeeps, FailLaunchKeeps, AppendRowKeeps
      DEF WorkerStep
<1>4. CASE UNCHANGED vars
  <2> USE <1>4 DEF vars, Busy, Serial
  <2>1. TypeOK' BY DEF IInv, TypeOK
  <2>2. Assigned' BY DEF IInv, Assigned
  <2>3. Lanes' BY DEF IInv, Lanes
  <2>4. SweptInOrder' BY DEF IInv, SweptInOrder
  <2>5. Equipped' BY DEF IInv, Equipped
  <2>6. Quiet' BY DEF IInv, Quiet, Succeeded
  <2>7. Recorded' BY DEF IInv, Recorded, HasRow, SpoiltOnlyByInterrupt
  <2>8. Late' BY DEF IInv, Late, Entering
  <2>9. Written' BY DEF IInv, Written, ManifestCountsRowsOnDisk
  <2> QED BY <2>1, <2>2, <2>3, <2>4, <2>5, <2>6, <2>7, <2>8, <2>9 DEF IInv
<1> QED BY <1>1, <1>2, <1>3, <1>4 DEF Next

\* IInv is an invariant of every instance of RunAttempts.
THEOREM Invariance == Spec => []IInv
<1>1. Init => IInv BY InitIInv
<1>2. IInv /\ [Next]_vars => IInv' BY NextKeeps
<1> QED BY <1>1, <1>2, PTL DEF Spec

\* A full set of clean rows, counted.
LEMMA FullRows == ASSUME results = Item \X (1..Rows) \X {FALSE}, IsFiniteSet(results)
                  PROVE  Cardinality(results) = Rows * Cardinality(Item)
<1> USE ConstantsAssumption
<1> DEFINE T == Item \X (1..Rows)
           f == [x \in T |-> <<x[1], x[2], FALSE>>]
<1>1. IsFiniteSet(1..Rows) /\ Cardinality(1..Rows) = Rows BY FS_Interval
<1>2. IsFiniteSet(T) /\ Cardinality(T) = Cardinality(Item) * Rows BY <1>1, FS_Product
<1>3. f \in Bijection(T, results)
  <2>1. f \in [T -> results] OBVIOUS
  <2>2. \A x, y \in T : f[x] = f[y] => x = y
    <3> SUFFICES ASSUME NEW x \in T, NEW y \in T, f[x] = f[y] PROVE x = y
        OBVIOUS
    <3>1. <<x[1], x[2], FALSE>> = <<y[1], y[2], FALSE>> OBVIOUS
    <3>2. x[1] = y[1] /\ x[2] = y[2] BY <3>1
    <3>3. x = <<x[1], x[2]>> /\ y = <<y[1], y[2]>> OBVIOUS
    <3> QED BY <3>2, <3>3
  <2>3. \A z \in results : \E x \in T : f[x] = z
    <3> SUFFICES ASSUME NEW z \in results PROVE \E x \in T : f[x] = z
        OBVIOUS
    <3> DEFINE F == {FALSE}
    <3>0. z \in Item \X (1..Rows) \X F OBVIOUS
    <3> HIDE DEF F, T, f
    <3>1. PICK i \in Item, r \in 1..Rows, b \in F : z = <<i, r, b>> BY ONLY <3>0
    <3>2. b = FALSE BY DEF F
    <3>3. <<i, r>> \in T /\ f[<<i, r>>] = z BY <3>1, <3>2 DEF T, f
    <3> QED BY <3>3
  <2> HIDE DEF T, f
  <2>4. f \in Injection(T, results) BY <2>1, <2>2 DEF Injection, IsInjective
  <2>5. f \in Surjection(T, results) BY <2>1, <2>3 DEF Surjection
  <2> QED BY <2>4, <2>5 DEF Bijection
<1>4. Cardinality(results) = Cardinality(T)
      BY <1>2, <1>3, FS_Bijection DEF ExistsBijection
<1>5. Cardinality(Item) \in Nat BY FS_CardinalityType
<1> QED BY <1>2, <1>4, <1>5

\* A completed run has all futures done and was not interrupted, so its rows are
\* all there and none is spoilt, and no worker is left to bring up an engine.
LEMMA CompletedIsCleanHolds == ASSUME IInv, manifest.status = "completed"
                               PROVE  /\ results = Item \X (1..Rows) \X {FALSE}
                                      /\ manifest.rows = Cardinality(results)
                                      /\ \A m \in DOMAIN managers : ~managers[m].up
<1>1. main.completed /\ main.pc = "ended" /\ manifest.rows = Rows * Cardinality(Item)
      BY DEF IInv, Written
<1>2. Succeeded /\ (Serial \/ ~shutdown) BY <1>1 DEF IInv, Quiet
<1>3. results \subseteq Item \X (1..Rows) \X BOOLEAN BY DEF IInv, TypeOK
<1>4. \A x \in results : x \in Item \X (1..Rows) \X {FALSE}
  <2> SUFFICES ASSUME NEW x \in results PROVE x \in Item \X (1..Rows) \X {FALSE}
      OBVIOUS
  <2>1. ~x[3] BY <1>2 DEF IInv, Recorded, SpoiltOnlyByInterrupt
  <2>2. PICK i \in Item, r \in 1..Rows, b \in BOOLEAN : x = <<i, r, b>> BY <1>3
  <2>3. b = FALSE BY <2>1, <2>2
  <2> QED BY <2>2, <2>3
<1>5. \A i \in Item, r \in 1..Rows : <<i, r, FALSE>> \in results
  <2> SUFFICES ASSUME NEW i \in Item, NEW r \in 1..Rows PROVE <<i, r, FALSE>> \in results
      OBVIOUS
  <2>1. HasRow(i, r) BY <1>2 DEF IInv, Recorded, Succeeded
  <2>2. PICK b \in BOOLEAN : <<i, r, b>> \in results BY <2>1 DEF HasRow
  <2>3. <<i, r, b>>[3] = b OBVIOUS
  <2>4. ~b BY <1>2, <2>2, <2>3 DEF IInv, Recorded, SpoiltOnlyByInterrupt
  <2>5. b = FALSE BY <2>4
  <2> QED BY <2>2, <2>5
<1>6. results = Item \X (1..Rows) \X {FALSE}
  <2>1. ASSUME NEW x \in Item \X (1..Rows) \X {FALSE} PROVE x \in results
    <3> DEFINE F == {FALSE}
    <3>0. x \in Item \X (1..Rows) \X F BY <2>1
    <3> HIDE DEF F
    <3>1. PICK i \in Item, r \in 1..Rows, b \in F : x = <<i, r, b>> BY <3>0
    <3>2. x = <<i, r, FALSE>> BY <3>1 DEF F
    <3> QED BY <1>5, <3>2
  <2> QED BY <1>4, <2>1
<1>7. manifest.rows = Cardinality(results) BY <1>1, <1>6, FullRows DEF IInv, Recorded
<1>8. \A m \in DOMAIN managers : ~managers[m].up
  <2>1. Len(managers) < main.next BY <1>1, <1>2 DEF IInv, Late
  <2>2. DOMAIN managers = 1..Len(managers) BY DEF IInv, TypeOK
  <2>3. main.next \in Nat /\ Len(managers) \in Nat BY DEF IInv, TypeOK, MainThread
  <2>4. \A m \in 1..Len(managers) : m < main.next BY <2>1, <2>3
  <2> QED BY <2>2, <2>4 DEF IInv, SweptInOrder
<1> QED BY <1>6, <1>7, <1>8

\* What the manifest and results.jsonl say about a run is true: "completed"
\* means all rows, none spoilt and no engine left; no row is counted that is not
\* on disk; a row is spoilt by the teardown only in an interrupted pool.
THEOREM HonestRows == Spec => []RowsAreHonest
<1>1. IInv => RowsAreHonest
  <2> SUFFICES ASSUME IInv PROVE RowsAreHonest
      OBVIOUS
  <2>1. CompletedIsClean BY CompletedIsCleanHolds DEF CompletedIsClean
  <2> QED BY <2>1 DEF RowsAreHonest, IInv, Written, Recorded
<1> QED BY <1>1, Invariance, PTL

\* No two threads run on one manager's engines, and after a teardown that ran
\* to its end only managers registered behind the sweep have engines, at most
\* one a worker and none without a signal.
THEOREM OneOwner == Spec => []EnginesHaveOneOwner
<1>1. IInv => EnginesHaveOneOwner
  <2> SUFFICES ASSUME IInv PROVE EnginesHaveOneOwner
      OBVIOUS
  <2>1. LanesIsolated BY DEF IInv, Lanes, LanesIsolated
  <2>2. ASSUME main.pc \in {"fixture", "manifest", "ended"}
        PROVE  /\ \A m \in DOMAIN managers : managers[m].up => m >= main.next /\ shutdown
               /\ Len(managers) < main.next + Cardinality(Worker)
    <3>1. /\ DOMAIN managers = 1..Len(managers) /\ main.next \in Nat
          /\ Len(managers) \in Nat
          BY DEF IInv, TypeOK, MainThread
    <3>2. Cardinality(Entering) \in Nat /\ Cardinality(Worker) \in Nat
          BY FS_Subset, FS_CardinalityType, ConstantsAssumption DEF Entering
    <3>3. \A m \in DOMAIN managers : managers[m].up => m >= main.next
          BY <3>1 DEF IInv, SweptInOrder
    <3>4. ~shutdown => Len(managers) < main.next BY <2>2 DEF IInv, Late
    <3>5. Len(managers) < main.next + Cardinality(Worker)
          BY <2>2, <3>1, <3>2 DEF IInv, Late
    <3> QED BY <3>1, <3>3, <3>4, <3>5
  <2> QED BY <2>1, <2>2 DEF EnginesHaveOneOwner, OnlyLateManagersSurvive
<1> QED BY <1>1, Invariance, PTL

-----------------------------------------------------------------------------
(* The run directory keeps RunContract: of all steps only the row of an     *)
(* item's last engine and the manifest are seen by it.                      *)

FinishedItems == {i \in Item : \A r \in 1..Rows : \E s \in BOOLEAN : <<i, r, s>> \in results}

\* A row can finish its own item only, and none is added to a completed run.
LEMMA AppendRowRefines ==
    ASSUME IInv, NEW w \in Worker, AppendRow(w)
    PROVE  [Contract!Next]_Contract!vars
<1> DEFINE t == thread[w]
           spoilt == ~managers[t.mgr].up \/ ~fixture
<1>1. t.item \in Item /\ Busy(w) BY DEF IInv, TypeOK, Assigned, AppendRow, Runs, Busy
<1>2. manifest' = manifest /\ results' = results \cup {<<t.item, t.row, spoilt>>}
      BY DEF AppendRow
<1>3. manifest.status # "completed" BY <1>1 DEF IInv, Written, Quiet, Succeeded, Assigned
<1>4. FinishedItems' = FinishedItems \/ FinishedItems' = FinishedItems \cup {t.item}
  <2>1. \A i \in Item, r \in 1..Rows : HasRow(i, r) => HasRow(i, r)' BY <1>2 DEF HasRow
  <2>2. \A i \in Item, r \in 1..Rows : i # t.item /\ HasRow(i, r)' => HasRow(i, r)
        BY <1>2 DEF HasRow
  <2>3. FinishedItems \subseteq FinishedItems' BY <2>1 DEF FinishedItems, HasRow
  <2>4. FinishedItems' \subseteq FinishedItems \cup {t.item}
        BY <2>2 DEF FinishedItems, HasRow
  <2> QED BY <2>3, <2>4
<1>5. CASE FinishedItems' = FinishedItems
      BY <1>2, <1>5 DEF Contract!vars, FinishedItems
<1>6. CASE FinishedItems' # FinishedItems
  <2>1. t.item \notin FinishedItems /\ FinishedItems' = FinishedItems \cup {t.item}
        BY <1>4, <1>6
  <2>2. PICK i \in Item : i = t.item BY <1>1
  <2>3. Contract!FinishItem(i)
        BY <1>2, <1>3, <2>1, <2>2 DEF Contract!FinishItem, FinishedItems
  <2> QED BY <2>3 DEF Contract!Next
<1> QED BY <1>5, <1>6

\* The manifest is written once, and "completed" when all items are finished.
LEMMA WriteManifestRefines ==
    ASSUME IInv, WriteManifest
    PROVE  [Contract!Next]_Contract!vars
<1>1. /\ results' = results /\ main.pc = "manifest"
      /\ manifest'.status = IF main.completed THEN "completed" ELSE "interrupted"
      BY DEF WriteManifest, files
<1>2. manifest.status = "started" BY <1>1 DEF IInv, TypeOK, Written
<1>3. FinishedItems' = FinishedItems BY <1>1 DEF FinishedItems
<1>4. CASE main.completed
  <2>1. FinishedItems = Item
        BY <1>4 DEF FinishedItems, HasRow, IInv, Quiet, Recorded, Succeeded
  <2>2. Contract!Complete BY <1>1, <1>2, <1>3, <1>4, <2>1 DEF Contract!Complete, FinishedItems
  <2> QED BY <2>2 DEF Contract!Next
<1>5. CASE ~main.completed
  <2>1. Contract!GiveUp BY <1>1, <1>2, <1>3, <1>5 DEF Contract!GiveUp, FinishedItems
  <2> QED BY <2>1 DEF Contract!Next
<1> QED BY <1>4, <1>5

\* Every other step leaves the files alone.
LEMMA StepRefines == IInv /\ [Next]_vars => [Contract!Next]_Contract!vars
<1> SUFFICES ASSUME IInv, [Next]_vars PROVE [Contract!Next]_Contract!vars
    OBVIOUS
<1>1. CASE \E w \in Worker : AppendRow(w) BY <1>1, AppendRowRefines
<1>2. CASE WriteManifest BY <1>2, WriteManifestRefines
<1>3. CASE results' = results /\ manifest' = manifest BY <1>3, SMTT(30) DEF Contract!vars
<1>4. ASSUME NEW w \in Worker, WorkerStep(w), ~AppendRow(w)
      PROVE  results' = results /\ manifest' = manifest
      BY <1>4 DEF WorkerStep, Take, Start, Refuse, PassCheck, RegisterManager, EnterLaunch,
         LaunchClosed, LeaveLaunch, FailLaunch, files
<1>5. ASSUME MainStep, ~WriteManifest
      PROVE  results' = results /\ manifest' = manifest
      BY <1>5 DEF MainStep, Collect, AllCollected, PoolDone, Cancel, BeginClose, EndClose,
         FailClose, SweepEnds, StopFixture, files
<1>6. ASSUME Interrupt \/ SwallowedInterrupt \/ UNCHANGED vars
      PROVE  results' = results /\ manifest' = manifest
      BY <1>6 DEF Interrupt, SwallowedInterrupt, vars, files
<1> QED BY <1>1, <1>2, <1>3, <1>4, <1>5, <1>6 DEF Next

\* The run directory keeps the promise its report is generated from: nothing is
\* added behind "completed", which is said once and when every item is finished.
THEOREM ContractKept == Spec => KeepsContract
<1>1. Init => Contract!Init
  <2> SUFFICES ASSUME Init PROVE Contract!Init
      OBVIOUS
  <2>1. FinishedItems = {} BY ConstantsAssumption DEF Init, FinishedItems
  <2> QED BY <2>1 DEF Init, Contract!Init, FinishedItems
<1>2. IInv /\ [Next]_vars => [Contract!Next]_Contract!vars BY StepRefines
<1> QED BY <1>1, <1>2, Invariance, PTL DEF Spec, KeepsContract, Contract!Spec
-----------------------------------------------------------------------------
(* Which engine runs when, and which rows count: ScoredRun                  *)

\* The members of a list, and that it has each of them once.
Elements(s) == {s[n] : n \in DOMAIN s}
Distinct(s) == \A m, n \in DOMAIN s : m # n => s[m] # s[n]

\* An item that has not begun has no rows; one that runs or skips has, of each selected
\* engine, a row or a place in its queue; behind a baseline Chrome has its row, which is
\* a pass where the others run.
Queued(i) ==
    /\ item[i].pc \in {"new", "error"} => item[i].queue = <<>>
    /\ item[i].pc = "new" => \A e \in Engine : rows[<<i, e>>] = <<>>
    /\ item[i].pc \in {"run", "skip"} =>
          /\ i[1] \in config.tasks
          /\ Distinct(item[i].queue)
          /\ \A e \in Engine :
                /\ e \in Selected(config) <=>
                      (rows[<<i, e>>] # <<>> \/ e \in Elements(item[i].queue))
                /\ rows[<<i, e>>] # <<>> => e \notin Elements(item[i].queue)
          /\ HasBaseline(i[1]) => rows[<<i, Chrome>>] # <<>>
    /\ item[i].pc = "run" /\ Required(i[1]) => rows[<<i, Chrome>>][1].status = "pass"
    /\ item[i].pc = "skip" => Required(i[1]) /\ rows[<<i, Chrome>>][1].status # "pass"

\* A row is the only one of its engine, is scored as the policy says, and tells of a skip
\* exactly behind a Chrome that was required and did not pass.
Judgement(i, e) ==
    /\ Len(rows[<<i, e>>]) <= 1
    /\ rows[<<i, e>>] # <<>> =>
          LET row == rows[<<i, e>>][1] IN
          /\ e \in Selected(config) /\ i[1] \in config.tasks
          /\ row.scored <=>
                ShouldIncludeScore(config, ScoreEligible(config), i[1], e, row.status)
          /\ row.status = "chrome_gate_fail" => Required(i[1]) /\ e # Chrome
          /\ Required(i[1]) =>
                /\ rows[<<i, Chrome>>] # <<>>
                /\ e # Chrome => (row.status = "chrome_gate_fail" <=>
                                  rows[<<i, Chrome>>][1].status # "pass")

ScoreInv ==
    /\ ScoreTypeOK
    /\ \A i \in TaskAttempt : Queued(i) /\ \A e \in Engine : Judgement(i, e)
-----------------------------------------------------------------------------
\* ENGINE_ORDER names every engine once.
LEMMA Ranks ==
    /\ Len(EngineOrder) \in Nat /\ DOMAIN EngineOrder = 1 .. Len(EngineOrder)
    /\ \A e \in Engine : Rank(e) \in DOMAIN EngineOrder /\ EngineOrder[Rank(e)] = e
    /\ \A d, e \in Engine : Rank(d) = Rank(e) => d = e
    /\ IsFiniteSet(Engine)
<1>1. EngineOrder \in Seq(Engine) BY ScoreAssumption DEF ScoreAssumption
<1>2. Len(EngineOrder) \in Nat /\ DOMAIN EngineOrder = 1 .. Len(EngineOrder)
      BY <1>1, LenProperties
<1>3. \A e \in Engine : Rank(e) \in DOMAIN EngineOrder /\ EngineOrder[Rank(e)] = e
      BY DEF Rank, Engine
<1>4. \A d, e \in Engine : Rank(d) = Rank(e) => d = e BY <1>3
<1>5. IsFiniteSet(Engine)
  <2>1. [e \in Engine |-> Rank(e)] \in Injection(Engine, 1 .. Len(EngineOrder))
        BY <1>2, <1>3, <1>4 DEF Injection, IsInjective
  <2>2. IsFiniteSet(1 .. Len(EngineOrder)) BY <1>2, FS_Interval
  <2> QED BY <2>1, <2>2, FS_Injection
<1> QED BY <1>2, <1>3, <1>4, <1>5

\* Any set of engines can be listed in that order.
LEMMA Sorted ==
    ASSUME NEW S \in SUBSET Engine
    PROVE  /\ Selection(S) \in [1 .. Cardinality(S) -> S]
           /\ \A m, n \in 1 .. Cardinality(S) :
                 m < n => Rank(Selection(S)[m]) < Rank(Selection(S)[n])
<1> DEFINE upto(e) == {d \in S : Rank(d) <= Rank(e)}
           place == [e \in S |-> Cardinality(upto(e))]
           k == Cardinality(S)
           s == [n \in 1 .. k |-> CHOOSE e \in S : place[e] = n]
<1>1. IsFiniteSet(S) /\ k \in Nat BY Ranks, FS_Subset, FS_CardinalityType
<1>2. \A e \in S : Rank(e) \in Nat BY Ranks
<1>3. \A e \in S : IsFiniteSet(upto(e)) /\ upto(e) \subseteq S /\ Cardinality(upto(e)) \in 1 .. k
  <2> SUFFICES ASSUME NEW e \in S
               PROVE  IsFiniteSet(upto(e)) /\ upto(e) \subseteq S /\ Cardinality(upto(e)) \in 1 .. k
      OBVIOUS
  <2>1. IsFiniteSet(upto(e)) /\ Cardinality(upto(e)) <= k BY <1>1, FS_Subset
  <2>2. e \in upto(e) BY <1>2
  <2>3. Cardinality(upto(e)) \in Nat /\ Cardinality(upto(e)) # 0
        BY <2>1, <2>2, FS_CardinalityType, FS_EmptySet
  <2> QED BY <1>1, <2>1, <2>3
<1>4. \A d, e \in S : Rank(d) < Rank(e) => place[d] < place[e]
  <2> SUFFICES ASSUME NEW d \in S, NEW e \in S, Rank(d) < Rank(e)
               PROVE  Cardinality(upto(d)) < Cardinality(upto(e))
      OBVIOUS
  <2>1. upto(d) \subseteq upto(e) BY <1>2
  <2>2. e \in upto(e) /\ e \notin upto(d) BY <1>2
  <2>3. /\ Cardinality(upto(d)) <= Cardinality(upto(e))
        /\ Cardinality(upto(d)) # Cardinality(upto(e))
    <3> HIDE DEF upto
    <3> QED BY <2>1, <2>2, <1>3, FS_Subset
  <2>4. Cardinality(upto(d)) \in Nat /\ Cardinality(upto(e)) \in Nat BY <1>3
  <2> QED BY <2>3, <2>4
<1>5. place \in [S -> 1 .. k] BY <1>3
<1> HIDE DEF place, k, upto
<1>6. \A d, e \in S : d # e => place[d] # place[e]
  <2> SUFFICES ASSUME NEW d \in S, NEW e \in S, d # e PROVE place[d] # place[e]
      OBVIOUS
  <2>1. Rank(d) < Rank(e) \/ Rank(e) < Rank(d) BY <1>2, Ranks
  <2>2. place[d] \in Nat /\ place[e] \in Nat BY <1>5, <1>1
  <2> QED BY <2>1, <2>2, <1>4
<1>7. place \in Surjection(S, 1 .. k)
  <2>1. place \in Injection(S, 1 .. k) BY <1>5, <1>6 DEF Injection, IsInjective
  <2>2. IsFiniteSet(1 .. k) /\ Cardinality(1 .. k) = Cardinality(S)
        BY <1>1, FS_Interval DEF k
  <2> QED BY <2>1, <2>2, FS_Injection
<1>8. \A n \in 1 .. k : s[n] \in S /\ place[s[n]] = n
  <2> SUFFICES ASSUME NEW n \in 1 .. k PROVE s[n] \in S /\ place[s[n]] = n
      OBVIOUS
  <2>1. \E e \in S : place[e] = n BY <1>7 DEF Surjection
  <2> QED BY <2>1
<1>9. s \in [1 .. k -> S] BY <1>8
<1> HIDE DEF s
<1>10. \A m, n \in 1 .. k : m < n => Rank(s[m]) < Rank(s[n])
  <2> SUFFICES ASSUME NEW m \in 1 .. k, NEW n \in 1 .. k, m < n PROVE Rank(s[m]) < Rank(s[n])
      OBVIOUS
  <2>1. s[m] \in S /\ s[n] \in S /\ place[s[m]] = m /\ place[s[n]] = n BY <1>8
  <2>2. Rank(s[m]) # Rank(s[n]) BY <2>1, Ranks, <1>1
  <2>3. ~(Rank(s[n]) < Rank(s[m])) BY <2>1, <1>4, <1>1
  <2> QED BY <2>1, <2>2, <2>3, <1>2
<1> QED BY <1>9, <1>10 DEF Selection, k

\* So a list of engines holds each of them once.
LEMMA Listed ==
    ASSUME NEW S \in SUBSET Engine
    PROVE  Selection(S) \in Seq(S) /\ Distinct(Selection(S)) /\ Elements(Selection(S)) = S
<1> DEFINE s == Selection(S)  k == Cardinality(S)
<1>1. IsFiniteSet(S) /\ k \in Nat BY Ranks, FS_Subset, FS_CardinalityType
<1>2. s \in [1 .. k -> S] /\ \A m, n \in 1 .. k : m < n => Rank(s[m]) < Rank(s[n]) BY Sorted
<1>3. \A e \in S : Rank(e) \in Nat BY Ranks
<1> HIDE DEF s
<1>4. \A m, n \in 1 .. k : m # n => s[m] # s[n]
  <2> SUFFICES ASSUME NEW m \in 1 .. k, NEW n \in 1 .. k, m # n PROVE s[m] # s[n]
      OBVIOUS
  <2>1. m < n \/ n < m BY <1>1
  <2>2. s[m] \in S /\ s[n] \in S BY <1>2
  <2> QED BY <2>1, <2>2, <1>2, <1>3
<1>5. s \in Injection(1 .. k, S) BY <1>2, <1>4 DEF Injection, IsInjective
<1>6. IsFiniteSet(1 .. k) /\ Cardinality(1 .. k) = Cardinality(S) BY <1>1, FS_Interval
<1>7. s \in Surjection(1 .. k, S) BY <1>1, <1>5, <1>6, FS_Injection
<1>8. s \in Seq(S) BY <1>1, <1>2, IsASeq
<1>9. DOMAIN s = 1 .. k BY <1>2
<1> QED BY <1>4, <1>7, <1>8, <1>9 DEF s, Distinct, Elements, Surjection

\* A configuration's engines are some of ENGINE_ORDER's, each of them once.
LEMMA Configured ==
    ASSUME NEW c \in Config
    PROVE  /\ Selected(c) \subseteq Engine
           /\ c.engines \in Seq(Selected(c)) /\ Distinct(c.engines)
           /\ Elements(c.engines) = Selected(c)
           /\ c.tasks \subseteq Task /\ c.seed \in Nat
           /\ Accepted(c) /\ Canonical(c)
<1>1. PICK S \in SUBSET Engine : c.engines = Selection(S) BY DEF Config
<1>2. c.engines \in Seq(S) /\ Distinct(c.engines) /\ Elements(c.engines) = S BY <1>1, Listed
<1>3. Selected(c) = S BY <1>2 DEF Selected, Elements
<1>4. Len(EngineOrder) \in Nat BY Ranks
<1>5. c.seed \in 0 .. Len(EngineOrder) - 1 BY DEF Config
<1>6. c.tasks \subseteq Task /\ Accepted(c) /\ Canonical(c) BY DEF Config
<1> QED BY <1>2, <1>3, <1>4, <1>5, <1>6

\* The rotated order, position by position.
LEMMA Rotation ==
    ASSUME NEW E, NEW c, c.engines \in Seq(E), NEW offset \in 0 .. Len(c.engines) - 1
    PROVE  /\ Rotated(c, offset) \in Seq(E)
           /\ Len(Rotated(c, offset)) = Len(c.engines)
           /\ \A n \in 1 .. Len(c.engines) : Rotated(c, offset)[n] =
                 IF n <= Len(c.engines) - offset THEN c.engines[offset + n]
                 ELSE c.engines[n - (Len(c.engines) - offset)]
<1> DEFINE len == Len(c.engines)
           front == SubSeq(c.engines, offset + 1, len)
           back == SubSeq(c.engines, 1, offset)
<1>1. len \in Nat /\ offset \in Nat /\ offset < len
      /\ \A n \in 1 .. len : c.engines[n] \in E
      BY LenProperties
<1>2. /\ front \in Seq(E) /\ Len(front) = len - offset
      /\ \A n \in 1 .. len - offset : front[n] = c.engines[offset + n]
  <2>1. \A n \in offset + 1 .. len : c.engines[n] \in E BY <1>1
  <2>2. /\ front \in Seq(E)
        /\ Len(front) = IF offset + 1 <= len THEN len - (offset + 1) + 1 ELSE 0
        /\ \A n \in 1 .. len - (offset + 1) + 1 : front[n] = c.engines[offset + 1 + n - 1]
        BY <1>1, <2>1, SubSeqProperties
  <2> QED BY <1>1, <2>2
<1>3. /\ back \in Seq(E) /\ Len(back) = offset
      /\ \A n \in 1 .. offset : back[n] = c.engines[n]
  <2>1. \A n \in 1 .. offset : c.engines[n] \in E BY <1>1
  <2>2. /\ back \in Seq(E)
        /\ Len(back) = IF 1 <= offset THEN offset - 1 + 1 ELSE 0
        /\ \A n \in 1 .. offset - 1 + 1 : back[n] = c.engines[1 + n - 1]
        BY <1>1, <2>1, SubSeqProperties
  <2> QED BY <1>1, <2>2
<1> HIDE DEF front, back
<1>4. /\ front \o back \in Seq(E) /\ Len(front \o back) = len
      /\ \A n \in 1 .. len : (front \o back)[n] =
            IF n <= len - offset THEN front[n] ELSE back[n - (len - offset)]
  <2>1. Len(front) + Len(back) = len BY <1>1, <1>2, <1>3
  <2>2. /\ front \o back \in Seq(E) /\ Len(front \o back) = Len(front) + Len(back)
        /\ \A n \in 1 .. Len(front) + Len(back) : (front \o back)[n] =
              IF n <= Len(front) THEN front[n] ELSE back[n - Len(front)]
        BY <1>2, <1>3, ConcatProperties
  <2> QED BY <1>2, <2>1, <2>2
<1>5. Rotated(c, offset) = front \o back BY DEF Rotated, front, back
<1> HIDE DEF len
<1>6. ASSUME NEW n \in 1 .. len
      PROVE  (front \o back)[n] = IF n <= len - offset THEN c.engines[offset + n]
                                   ELSE c.engines[n - (len - offset)]
  <2>1. CASE n <= len - offset BY <2>1, <1>1, <1>2, <1>4, <1>6
  <2>2. CASE ~(n <= len - offset)
    <3>1. n - (len - offset) \in 1 .. offset BY <2>2, <1>1
    <3> QED BY <2>2, <3>1, <1>3, <1>4, <1>6
  <2> QED BY <2>1, <2>2
<1> QED BY <1>4, <1>5, <1>6 DEF len

\* In whatever order an item takes them, it takes each selected engine once.
LEMMA OrderIsPermutation ==
    ASSUME NEW c \in Config, NEW n \in Nat, NEW k \in Nat, NEW a \in Nat \ {0}
    PROVE  LET s == ResourceEngineOrder(c, n, k, a) IN
           s \in Seq(Selected(c)) /\ Distinct(s) /\ Elements(s) = Selected(c)
<1> DEFINE q == c.engines
           len == Len(q)
           x == c.seed + (n * k + a - 1)
           s == ResourceEngineOrder(c, n, k, a)
           r == Rotated(c, x % len)
           E == Selected(c)
<1>1. /\ q \in Seq(E) /\ Distinct(q) /\ Elements(q) = E /\ len \in Nat
      /\ DOMAIN q = 1 .. len /\ c.seed \in Nat
      BY Configured, LenProperties
<1>2. s = q \/ (len >= 2 /\ s = r) BY <1>1 DEF ResourceEngineOrder
<1>3. ASSUME len >= 2 PROVE r \in Seq(E) /\ Distinct(r) /\ Elements(r) = E
  <2>1. x \in Nat
    <3>1. n * k \in Nat OBVIOUS
    <3> QED BY <3>1, <1>1
  <2> DEFINE offset == x % len
  <2>2. offset \in 0 .. len - 1
    <3> HIDE DEF x, len
    <3> QED BY <2>1, <1>1, <1>3
  <2>3. offset \in Nat /\ offset < len BY <2>2, <1>1
  <2> HIDE DEF offset, len, q
  <2>4. /\ r \in Seq(E) /\ Len(r) = len
        /\ \A m \in 1 .. len : r[m] = IF m <= len - offset THEN q[offset + m]
                                       ELSE q[m - (len - offset)]
        BY <1>1, <2>2, Rotation DEF offset, len, q
  <2> HIDE DEF r
  <2>5. DOMAIN r = 1 .. len BY <2>4, LenProperties
  <2> DEFINE at(m) == IF m <= len - offset THEN offset + m ELSE m - (len - offset)
  <2>6. \A m \in 1 .. len : at(m) \in 1 .. len /\ r[m] = q[at(m)] BY <2>3, <2>4, <1>1
  <2>7. \A l, m \in 1 .. len : l # m => at(l) # at(m) BY <2>3, <1>1
  <2>8. Distinct(r)
    <3> SUFFICES ASSUME NEW l \in 1 .. len, NEW m \in 1 .. len, l # m PROVE r[l] # r[m]
        BY <2>5 DEF Distinct
    <3>1. at(l) # at(m) /\ at(l) \in 1 .. len /\ at(m) \in 1 .. len BY <2>6, <2>7
    <3>2. r[l] = q[at(l)] /\ r[m] = q[at(m)] BY <2>6
    <3> HIDE DEF at
    <3> QED BY <3>1, <3>2, <1>1 DEF Distinct
  <2>9. Elements(r) \subseteq E BY <2>5, <2>6, <1>1 DEF Elements
  <2>10. ASSUME NEW e \in E PROVE e \in Elements(r)
    <3>1. PICK p \in 1 .. len : q[p] = e BY <1>1 DEF Elements
    <3> DEFINE m == IF p > offset THEN p - offset ELSE p + (len - offset)
    <3>2. m \in 1 .. len /\ at(m) = p BY <2>3, <1>1
    <3>3. r[m] = e BY <3>1, <3>2, <2>6
    <3> QED BY <3>2, <3>3, <2>5 DEF Elements
  <2> QED BY <2>4, <2>8, <2>9, <2>10
<1> HIDE DEF r, s, E
<1>4. s \in Seq(E) /\ Distinct(s) /\ Elements(s) = E BY <1>1, <1>2, <1>3
<1> QED BY <1>4 DEF s, E
-----------------------------------------------------------------------------
\* A row of an engine that has none yet becomes its only one.
LEMMA Appended ==
    ASSUME ScoreTypeOK, NEW i \in TaskAttempt, NEW e \in Engine, NEW status \in Status,
           NEW eligible, AppendResult(i, e, status, eligible), rows[<<i, e>>] = <<>>
    PROVE  /\ rows' \in [TaskAttempt \X Engine -> Seq(Row)]
           /\ rows'[<<i, e>>] # <<>> /\ Len(rows'[<<i, e>>]) = 1
           /\ rows'[<<i, e>>][1].status = status
           /\ rows'[<<i, e>>][1].scored <=>
                 ShouldIncludeScore(config, eligible, i[1], e, status)
           /\ \A j \in TaskAttempt, f \in Engine :
                 j # i \/ f # e => rows'[<<j, f>>] = rows[<<j, f>>]
<1> DEFINE p == <<i, e>>
           scored == ShouldIncludeScore(config, eligible, i[1], e, status)
           row == [status |-> status, scored |-> scored]
<1>1. rows' = [rows EXCEPT ![p] = Append(@, row)] BY DEF AppendResult
<1>2. rows \in [TaskAttempt \X Engine -> Seq(Row)] BY DEF ScoreTypeOK
<1>3. p \in TaskAttempt \X Engine OBVIOUS
<1>4. scored \in BOOLEAN BY DEF ShouldIncludeScore
<1> HIDE DEF scored
<1>5. row \in Row BY <1>4 DEF Row
<1>6. row.status = status /\ row.scored = scored OBVIOUS
<1>7. \A j \in TaskAttempt, f \in Engine : j # i \/ f # e => <<j, f>> # p OBVIOUS
<1> HIDE DEF row, p
<1>8. Append(<<>>, row) \in Seq(Row) /\ Len(Append(<<>>, row)) = 1
      /\ Append(<<>>, row)[1] = row /\ Append(<<>>, row) # <<>>
      BY <1>5, EmptySeq, AppendProperties
<1>9. rows[p] = <<>> BY DEF p
<1>10. rows'[p] = Append(<<>>, row) BY <1>1, <1>2, <1>3, <1>9
<1>11. rows' \in [TaskAttempt \X Engine -> Seq(Row)] BY <1>1, <1>2, <1>3, <1>8, <1>9
<1>12. \A j \in TaskAttempt, f \in Engine : j # i \/ f # e => rows'[<<j, f>>] = rows[<<j, f>>]
       BY <1>1, <1>2, <1>7
<1> QED BY <1>6, <1>8, <1>10, <1>11, <1>12 DEF p, scored

\* A step of one item leaves the others as they are.
LEMMA Elsewhere ==
    ASSUME ScoreInv, NEW i \in TaskAttempt, config' = config, ScoreTypeOK',
           \A j \in TaskAttempt : j # i => item'[j] = item[j],
           \A j \in TaskAttempt, e \in Engine : j # i => rows'[<<j, e>>] = rows[<<j, e>>],
           Queued(i)', \A e \in Engine : Judgement(i, e)'
    PROVE  ScoreInv'
<1> SUFFICES ASSUME NEW j \in TaskAttempt, j # i
             PROVE  Queued(j)' /\ \A e \in Engine : Judgement(j, e)'
    BY DEF ScoreInv
<1>1. Chrome \in Engine BY ScoreAssumption DEF ScoreAssumption
<1>2. Queued(j) /\ \A e \in Engine : Judgement(j, e) BY DEF ScoreInv
<1>3. item'[j] = item[j] /\ \A e \in Engine : rows'[<<j, e>>] = rows[<<j, e>>] OBVIOUS
<1>4. Queued(j)' BY <1>1, <1>2, <1>3 DEF Queued, HasBaseline, Required, BestEffort
<1>5. \A e \in Engine : Judgement(j, e)' BY <1>1, <1>2, <1>3 DEF Judgement, Required
<1> QED BY <1>4, <1>5

\* The first engine of a queue leaves it.
LEMMA Dequeued ==
    ASSUME NEW E, NEW s \in Seq(E), s # <<>>, Distinct(s)
    PROVE  /\ Head(s) \in E /\ Head(s) \in Elements(s)
           /\ Tail(s) \in Seq(E) /\ Distinct(Tail(s))
           /\ Elements(Tail(s)) = Elements(s) \ {Head(s)}
<1>1. /\ Len(s) \in Nat /\ DOMAIN s = 1 .. Len(s) /\ Head(s) \in E /\ Tail(s) \in Seq(E)
      /\ Len(Tail(s)) = Len(s) - 1
      /\ \A n \in 1 .. Len(s) - 1 : Tail(s)[n] = s[n + 1]
      BY HeadTailProperties, LenProperties
<1>2. Head(s) = s[1] /\ Len(s) >= 1 BY EmptySeq, LenProperties
<1>3. DOMAIN Tail(s) = 1 .. Len(s) - 1 BY <1>1, LenProperties
<1>4. Distinct(Tail(s)) BY <1>1, <1>3 DEF Distinct
<1>5. Head(s) \in Elements(s) BY <1>1, <1>2 DEF Elements
<1>6. ASSUME NEW e \in Elements(Tail(s)) PROVE e \in Elements(s) \ {Head(s)}
  <2>1. PICK n \in 1 .. Len(s) - 1 : e = s[n + 1] BY <1>1, <1>3 DEF Elements
  <2>2. n + 1 \in DOMAIN s /\ 1 \in DOMAIN s /\ n + 1 # 1 BY <1>1, <1>2
  <2>3. s[n + 1] # s[1] BY <2>2 DEF Distinct
  <2> QED BY <1>2, <2>1, <2>2, <2>3 DEF Elements
<1>7. ASSUME NEW e \in Elements(s) \ {Head(s)} PROVE e \in Elements(Tail(s))
  <2>1. PICK n \in 1 .. Len(s) : e = s[n] BY <1>1 DEF Elements
  <2>2. n # 1 BY <1>2, <2>1
  <2>3. n - 1 \in 1 .. Len(s) - 1 /\ (n - 1) + 1 = n BY <2>2, <1>1
  <2>4. Tail(s)[n - 1] = s[n] BY <1>1, <2>3
  <2> QED BY <2>1, <2>3, <2>4, <1>3 DEF Elements
<1> QED BY <1>1, <1>4, <1>5, <1>6, <1>7
-----------------------------------------------------------------------------
\* Before any item has begun the invariant holds.
LEMMA InitScore == ScoreInit => ScoreInv
<1> SUFFICES ASSUME ScoreInit PROVE ScoreInv OBVIOUS
<1>1. ScoreTypeOK
  <2>1. item \in [TaskAttempt -> [pc : {"new", "run", "skip", "error"},
                                  queue : Seq(Selected(config))]]
        BY EmptySeq DEF ScoreInit
  <2>2. rows \in [TaskAttempt \X Engine -> Seq(Row)] BY EmptySeq DEF ScoreInit
  <2> QED BY <2>1, <2>2 DEF ScoreTypeOK, ScoreInit
<1>2. ASSUME NEW i \in TaskAttempt
      PROVE  Queued(i) /\ \A e \in Engine : Judgement(i, e)
  <2>1. item[i].pc = "new" /\ item[i].queue = <<>> BY DEF ScoreInit
  <2>2. \A e \in Engine : rows[<<i, e>>] = <<>> BY DEF ScoreInit
  <2>3. Queued(i) BY <2>1, <2>2 DEF Queued
  <2>4. \A e \in Engine : Judgement(i, e) BY <2>2, EmptySeq DEF Judgement
  <2> QED BY <2>3, <2>4
<1> QED BY <1>1, <1>2 DEF ScoreInv

\* What an item works with.
Given(i) ==
    /\ config \in Config
    /\ item \in [TaskAttempt -> [pc : {"new", "run", "skip", "error"},
                                 queue : Seq(Selected(config))]]
    /\ rows \in [TaskAttempt \X Engine -> Seq(Row)]
    /\ item[i].queue \in Seq(Selected(config))
    /\ Selected(config) \subseteq Engine /\ Chrome \in Engine
    /\ Queued(i) /\ \A e \in Engine : Judgement(i, e)

\* The invariant says so of every item.
LEMMA Known == ASSUME ScoreInv, NEW i \in TaskAttempt PROVE Given(i)
<1>1. config \in Config BY DEF ScoreInv, ScoreTypeOK
<1>2. item \in [TaskAttempt -> [pc : {"new", "run", "skip", "error"},
                                queue : Seq(Selected(config))]]
      BY DEF ScoreInv, ScoreTypeOK
<1>3. item[i].queue \in Seq(Selected(config)) BY <1>2
<1> QED BY <1>1, <1>2, <1>3, Configured, ScoreAssumption
        DEF ScoreInv, ScoreTypeOK, ScoreAssumption, Given

\* The engines of an item without a baseline are all that were selected, and those behind a
\* baseline all but Chrome.
LEMMA OthersListed ==
    ASSUME NEW c \in Config
    PROVE  LET s == Others(c) IN
           /\ s \in Seq(Selected(c)) /\ Distinct(s)
           /\ Elements(s) = Selected(c) \ {Chrome}
<1> DEFINE S == Selected(c) \ {Chrome}
<1>1. S \in SUBSET Engine /\ S \subseteq Selected(c) BY Configured
<1>2. Others(c) \in Seq(S) /\ Distinct(Others(c)) /\ Elements(Others(c)) = S
      BY <1>1, Listed DEF Others
<1>3. Others(c) \in Seq(Selected(c)) BY <1>1, <1>2, SeqMonotonic
<1> QED BY <1>2, <1>3

\* An item without a baseline runs all engines that were selected.
LEMMA AllToRun ==
    ASSUME ScoreInv, NEW i \in TaskAttempt, i[1] \in config.tasks, ~HasBaseline(i[1])
    PROVE  LET s == EnginesToRun(i) IN
           s \in Seq(Selected(config)) /\ Distinct(s) /\ Elements(s) = Selected(config)
<1>1. config \in Config BY Known DEF Given
<1>2. CASE BestEffort(i[1])
  <2>1. Chrome \notin Selected(config) BY <1>2 DEF HasBaseline
  <2>2. EnginesToRun(i) = Others(config) BY <1>2 DEF EnginesToRun
  <2> QED BY <1>1, <2>1, <2>2, OthersListed
<1>3. CASE ~BestEffort(i[1])
  <2>1. TaskIndex(i[1]) \in Nat
    <3>1. {u \in config.tasks : u < i[1]} \subseteq Task /\ IsFiniteSet(Task)
          BY <1>1, Configured, ScoreAssumption DEF ScoreAssumption
    <3> QED BY <3>1, FS_Subset, FS_CardinalityType DEF TaskIndex
  <2>2. K \in Nat /\ i[2] \in Nat \ {0} BY ScoreAssumption DEF ScoreAssumption, TaskAttempt
  <2> DEFINE n == TaskIndex(i[1])  a == i[2]  s == ResourceEngineOrder(config, n, K, a)
  <2>3. EnginesToRun(i) = s BY <1>3 DEF EnginesToRun
  <2> HIDE DEF n, a
  <2>4. s \in Seq(Selected(config)) /\ Distinct(s) /\ Elements(s) = Selected(config)
        BY <1>1, <2>1, <2>2, OrderIsPermutation DEF n, a
  <2> QED BY <2>3, <2>4
<1> QED BY <1>2, <1>3

\* An item without a baseline starts with a queue of all selected engines.
LEMMA BeginKeeps == ASSUME ScoreInv, NEW i \in TaskAttempt, Begin(i) PROVE ScoreInv'
<1> DEFINE s == EnginesToRun(i)
<1>1. /\ item[i].pc = "new" /\ i[1] \in config.tasks /\ ~HasBaseline(i[1])
      /\ item' = [item EXCEPT ![i] = [pc |-> "run", queue |-> s]]
      /\ config' = config /\ rows' = rows
      BY DEF Begin, Waiting
<1>2. s \in Seq(Selected(config)) /\ Distinct(s) /\ Elements(s) = Selected(config)
      BY <1>1, AllToRun
<1> HIDE DEF s
<1>3. Given(i) BY Known
<1> USE DEF Given
<1>4. item'[i].pc = "run" /\ item'[i].queue = s
      /\ \A j \in TaskAttempt : j # i => item'[j] = item[j]
      BY <1>1, <1>3
<1>5. ScoreTypeOK'
  <2>1. item' \in [TaskAttempt -> [pc : {"new", "run", "skip", "error"},
                                   queue : Seq(Selected(config))]]
        BY <1>1, <1>2, <1>3
  <2> QED BY <1>1, <1>3, <2>1 DEF ScoreTypeOK
<1>6. \A e \in Engine : rows[<<i, e>>] = <<>> BY <1>1, <1>3 DEF Queued
<1>7. Queued(i)'
  <2>1. ~HasBaseline(i[1])' /\ ~Required(i[1])'
        BY <1>1 DEF HasBaseline, Required, BestEffort
  <2> QED BY <1>1, <1>2, <1>3, <1>4, <1>6, <2>1 DEF Queued
<1>8. \A e \in Engine : Judgement(i, e)' BY <1>1, <1>3 DEF Judgement, Required
<1> QED BY <1>1, <1>4, <1>5, <1>7, <1>8, Elsewhere

\* What raises ends the item: its queue is gone and its rows stay.
LEMMA RaiseKeeps == ASSUME ScoreInv, NEW i \in TaskAttempt, Raise(i) PROVE ScoreInv'
<1>1. /\ item' = [item EXCEPT ![i] = [pc |-> "error", queue |-> <<>>]]
      /\ config' = config /\ rows' = rows
      BY DEF Raise
<1>3. Given(i) BY Known
<1> USE DEF Given
<1>4. item'[i].pc = "error" /\ item'[i].queue = <<>>
      /\ \A j \in TaskAttempt : j # i => item'[j] = item[j]
      BY <1>1, <1>3
<1>5. ScoreTypeOK'
  <2>1. item' \in [TaskAttempt -> [pc : {"new", "run", "skip", "error"},
                                   queue : Seq(Selected(config))]]
        BY <1>1, <1>3, EmptySeq
  <2> QED BY <1>1, <1>3, <2>1 DEF ScoreTypeOK
<1>7. Queued(i)' BY <1>4 DEF Queued
<1>8. \A e \in Engine : Judgement(i, e)' BY <1>1, <1>3 DEF Judgement, Required
<1> QED BY <1>1, <1>4, <1>5, <1>7, <1>8, Elsewhere

\* The baseline writes Chrome's row, which decides between running and skipping.
LEMMA RunBaselineKeeps == ASSUME ScoreInv, NEW i \in TaskAttempt, RunBaseline(i) PROVE ScoreInv'
<1> DEFINE s == Others(config)
           pc == IF GateFails(i[1], rows'[<<i, Chrome>>][1].status) THEN "skip" ELSE "run"
<1>1. Given(i) BY Known
<1> USE DEF Given
<1>2. PICK status \in {"pass", "fail", "infra"} :
          /\ item[i].pc = "new" /\ i[1] \in config.tasks /\ HasBaseline(i[1])
          /\ AppendResult(i, Chrome, status, FALSE)
          /\ item' = [item EXCEPT ![i] =
                        [pc |-> IF GateFails(i[1], status) THEN "skip" ELSE "run", queue |-> s]]
          /\ config' = config
      BY DEF RunBaseline, Waiting
<1>3. \A e \in Engine : rows[<<i, e>>] = <<>> BY <1>1, <1>2 DEF Queued
<1>4. status \in Status BY DEF Status
<1>5. ScoreTypeOK BY DEF ScoreInv
<1>6. /\ rows' \in [TaskAttempt \X Engine -> Seq(Row)]
      /\ rows'[<<i, Chrome>>] # <<>> /\ Len(rows'[<<i, Chrome>>]) = 1
      /\ rows'[<<i, Chrome>>][1].status = status
      /\ rows'[<<i, Chrome>>][1].scored <=>
            ShouldIncludeScore(config, FALSE, i[1], Chrome, status)
      /\ \A j \in TaskAttempt, f \in Engine :
            j # i \/ f # Chrome => rows'[<<j, f>>] = rows[<<j, f>>]
      BY <1>1, <1>2, <1>3, <1>4, <1>5, Appended
<1>7. s \in Seq(Selected(config)) /\ Distinct(s) /\ Elements(s) = Selected(config) \ {Chrome}
      BY <1>1, OthersListed
<1> HIDE DEF s
<1>8. Gating(config) /\ Chrome \in Selected(config)
  <2>1. Accepted(config) BY <1>1, Configured
  <2> QED BY <1>2, <2>1 DEF HasBaseline, Required, BestEffort, Accepted
<1>9. item'[i].pc = pc /\ item'[i].queue = s /\ pc \in {"run", "skip"}
      /\ \A j \in TaskAttempt : j # i => item'[j] = item[j]
      BY <1>1, <1>2, <1>6
<1>10. ScoreTypeOK'
  <2>1. item' \in [TaskAttempt -> [pc : {"new", "run", "skip", "error"},
                                   queue : Seq(Selected(config))]]
        BY <1>1, <1>2, <1>7
  <2> QED BY <1>1, <1>2, <1>6, <2>1 DEF ScoreTypeOK
<1>11. Queued(i)'
  <2>1. pc = "skip" <=> Required(i[1]) /\ rows'[<<i, Chrome>>][1].status # "pass"
        BY DEF GateFails
  <2>2. \A e \in Engine :
          /\ e \in Selected(config) <=> (rows'[<<i, e>>] # <<>> \/ e \in Elements(s))
          /\ rows'[<<i, e>>] # <<>> => e \notin Elements(s)
        BY <1>3, <1>6, <1>7, <1>8
  <2> HIDE DEF pc
  <2> QED BY <1>2, <1>6, <1>7, <1>9, <2>1, <2>2 DEF Queued, Required
<1>12. ASSUME NEW e \in Engine PROVE Judgement(i, e)'
  <2>1. CASE e # Chrome BY <2>1, <1>3, <1>6, EmptySeq DEF Judgement
  <2>2. CASE e = Chrome
    <3>1. Chrome \notin ScoredEngines(config) BY <1>8 DEF ScoredEngines, Candidate
    <3> QED BY <2>2, <3>1, <1>2, <1>6, <1>8 DEF Judgement, ShouldIncludeScore, Required
  <2> QED BY <2>1, <2>2
<1> QED BY <1>2, <1>6, <1>9, <1>10, <1>11, <1>12, Elsewhere

\* An engine of the queue gets its row.
LEMMA NextEngine ==
    ASSUME ScoreInv, NEW i \in TaskAttempt, item[i].pc \in {"run", "skip"},
           item[i].queue # <<>>, NEW status \in Status, NEW eligible,
           AppendResult(i, Head(item[i].queue), status, eligible),
           item' = [item EXCEPT ![i].queue = Tail(@)], config' = config,
           item[i].pc = "run" => status # "chrome_gate_fail" /\ eligible = ScoreEligible(config),
           item[i].pc = "skip" => status = "chrome_gate_fail"
    PROVE  ScoreInv'
<1> DEFINE s == item[i].queue  e == Head(s)
<1>1. Given(i) BY Known
<1> USE DEF Given
<1>2. /\ Distinct(s) /\ i[1] \in config.tasks
      /\ \A f \in Engine :
            /\ f \in Selected(config) <=> (rows[<<i, f>>] # <<>> \/ f \in Elements(s))
            /\ rows[<<i, f>>] # <<>> => f \notin Elements(s)
      /\ HasBaseline(i[1]) => rows[<<i, Chrome>>] # <<>>
      BY <1>1 DEF Queued
<1>3. /\ e \in Selected(config) /\ e \in Elements(s) /\ e \in Engine
      /\ Tail(s) \in Seq(Selected(config)) /\ Distinct(Tail(s))
      /\ Elements(Tail(s)) = Elements(s) \ {e}
      BY <1>1, <1>2, Dequeued
<1>4. rows[<<i, e>>] = <<>> BY <1>2, <1>3
<1>5. ScoreTypeOK BY DEF ScoreInv
<1>6. /\ rows' \in [TaskAttempt \X Engine -> Seq(Row)]
      /\ rows'[<<i, e>>] # <<>> /\ Len(rows'[<<i, e>>]) = 1
      /\ rows'[<<i, e>>][1].status = status
      /\ rows'[<<i, e>>][1].scored <=> ShouldIncludeScore(config, eligible, i[1], e, status)
      /\ \A j \in TaskAttempt, f \in Engine : j # i \/ f # e => rows'[<<j, f>>] = rows[<<j, f>>]
      BY <1>3, <1>4, <1>5, Appended
<1>7. /\ item'[i].pc = item[i].pc /\ item'[i].queue = Tail(s)
      /\ \A j \in TaskAttempt : j # i => item'[j] = item[j]
      BY <1>1
<1>8. ScoreTypeOK'
  <2>1. item' \in [TaskAttempt -> [pc : {"new", "run", "skip", "error"},
                                   queue : Seq(Selected(config))]]
        BY <1>1, <1>3
  <2> QED BY <1>1, <1>6, <2>1 DEF ScoreTypeOK
<1>9. /\ HasBaseline(i[1])' <=> HasBaseline(i[1])
      /\ Required(i[1])' <=> Required(i[1])
      /\ Required(i[1]) => HasBaseline(i[1])
      BY DEF HasBaseline, Required, BestEffort
<1>10. item[i].pc = "skip" => Required(i[1]) BY <1>1 DEF Queued
<1>11. HasBaseline(i[1]) => e # Chrome /\ rows'[<<i, Chrome>>] = rows[<<i, Chrome>>]
       BY <1>1, <1>2, <1>4, <1>6
<1> HIDE DEF e, s
<1>12. Queued(i)'
  <2>1. \A f \in Engine :
          /\ f \in Selected(config) <=> (rows'[<<i, f>>] # <<>> \/ f \in Elements(Tail(s)))
          /\ rows'[<<i, f>>] # <<>> => f \notin Elements(Tail(s))
        BY <1>2, <1>3, <1>6
  <2>2. HasBaseline(i[1]) => rows'[<<i, Chrome>>] # <<>> BY <1>2, <1>11
  <2>3. /\ item[i].pc = "run" /\ Required(i[1]) => rows'[<<i, Chrome>>][1].status = "pass"
        /\ item[i].pc = "skip" => Required(i[1]) /\ rows'[<<i, Chrome>>][1].status # "pass"
        BY <1>1, <1>9, <1>11 DEF Queued
  <2> QED BY <1>2, <1>3, <1>7, <1>9, <2>1, <2>2, <2>3 DEF Queued
<1>13. ASSUME NEW f \in Engine PROVE Judgement(i, f)'
  <2>1. Judgement(i, f) BY <1>1
  <2>2. Required(i[1]) => rows'[<<i, Chrome>>] = rows[<<i, Chrome>>] /\ rows[<<i, Chrome>>] # <<>>
        BY <1>2, <1>9, <1>11
  <2>3. CASE f # e BY <2>1, <2>2, <2>3, <1>6, <1>9 DEF Judgement
  <2>4. CASE f = e
    <3>1. rows'[<<i, e>>][1].scored <=>
             ShouldIncludeScore(config, ScoreEligible(config), i[1], e, status)
          BY <1>6 DEF ShouldIncludeScore
    <3>2. status = "chrome_gate_fail" <=> item[i].pc = "skip" OBVIOUS
    <3>3. status = "chrome_gate_fail" => Required(i[1]) /\ e # Chrome BY <3>2, <1>9, <1>10, <1>11
    <3>4. Required(i[1]) => (status = "chrome_gate_fail" <=> rows[<<i, Chrome>>][1].status # "pass")
          BY <1>1, <3>2 DEF Queued
    <3>5. Len(rows'[<<i, e>>]) <= 1 BY <1>6
    <3> QED BY <2>2, <2>4, <3>1, <3>3, <3>4, <3>5, <1>2, <1>3, <1>6, <1>9 DEF Judgement
  <2> QED BY <2>3, <2>4
<1> QED BY <1>6, <1>7, <1>8, <1>12, <1>13, Elsewhere

\* An engine behind a baseline that passed, or without one, is judged by the policy.
LEMMA RunEngineKeeps == ASSUME ScoreInv, NEW i \in TaskAttempt, RunEngine(i) PROVE ScoreInv'
<1>1. PICK status \in {"pass", "fail", "infra"} :
          /\ item[i].pc = "run" /\ item[i].queue # <<>>
          /\ AppendResult(i, Head(item[i].queue), status, ScoreEligible(config))
          /\ item' = [item EXCEPT ![i].queue = Tail(@)] /\ config' = config
      BY DEF RunEngine
<1>2. status \in Status /\ status # "chrome_gate_fail" BY DEF Status
<1> QED BY <1>1, <1>2, NextEngine

\* An engine behind a gate that failed is never scored.
LEMMA SkipEngineKeeps == ASSUME ScoreInv, NEW i \in TaskAttempt, SkipEngine(i) PROVE ScoreInv'
<1> DEFINE status == "chrome_gate_fail"  eligible == FALSE
<1>1. /\ item[i].pc = "skip" /\ item[i].queue # <<>>
      /\ AppendResult(i, Head(item[i].queue), status, eligible)
      /\ item' = [item EXCEPT ![i].queue = Tail(@)] /\ config' = config
      BY DEF SkipEngine
<1>2. status \in Status /\ status = "chrome_gate_fail" BY DEF Status
<1> HIDE DEF status, eligible
<1> QED BY <1>1, <1>2, NextEngine

\* Every step, a stuttering one included, keeps the invariant.
LEMMA ScoreNextKeeps == ScoreInv /\ [ScoreNext]_scoreVars => ScoreInv'
<1> SUFFICES ASSUME ScoreInv, [ScoreNext]_scoreVars PROVE ScoreInv' OBVIOUS
<1>1. CASE UNCHANGED scoreVars
  <2>1. config' = config /\ item' = item /\ rows' = rows BY <1>1 DEF scoreVars
  <2>2. ScoreTypeOK' BY <2>1 DEF ScoreInv, ScoreTypeOK
  <2>3. ASSUME NEW i \in TaskAttempt PROVE Queued(i)' /\ \A e \in Engine : Judgement(i, e)'
        BY <2>1 DEF ScoreInv, Queued, Judgement, HasBaseline, Required, BestEffort
  <2> QED BY <2>2, <2>3 DEF ScoreInv
<1>2. CASE ScoreNext
      BY <1>2, BeginKeeps, RunBaselineKeeps, RunEngineKeeps, SkipEngineKeeps, RaiseKeeps
      DEF ScoreNext
<1> QED BY <1>1, <1>2

\* What the order of the engines, the gate and the policy of scores rest on is inductive
\* (run_one).
THEOREM ScoreInvariance == ScoreSpec => []ScoreInv
<1>1. ScoreInit => ScoreInv BY InitScore
<1>2. ScoreInv /\ [ScoreNext]_scoreVars => ScoreInv' BY ScoreNextKeeps
<1> QED BY <1>1, <1>2, PTL DEF ScoreSpec

\* The rows of an item say who ran and why the others did not, whatever was selected, gated
\* or raised (run_one).
THEOREM GateIsFollowed == ScoreSpec => []RowsFollowTheGate
<1>1. ScoreInv => RowsFollowTheGate
  <2> SUFFICES ASSUME ScoreInv PROVE RowsFollowTheGate OBVIOUS
  <2>1. ScoreTypeOK BY DEF ScoreInv
  <2>2. OneRowEach
    <3> SUFFICES ASSUME NEW i \in TaskAttempt, NEW e \in Engine
                 PROVE  /\ Len(rows[<<i, e>>]) <= 1
                        /\ Completed(i) => (rows[<<i, e>>] # <<>> <=> e \in Selected(config))
        BY DEF OneRowEach
    <3>1. Given(i) BY Known
    <3>2. Len(rows[<<i, e>>]) <= 1 BY <3>1 DEF Given, Judgement
    <3>3. ASSUME Completed(i) PROVE rows[<<i, e>>] # <<>> <=> e \in Selected(config)
      <4>1. e \notin Elements(<<>>) BY DEF Elements
      <4> QED BY <3>1, <3>3, <4>1 DEF Given, Queued, Completed
    <3> QED BY <3>2, <3>3
  <2>3. GateDecidesThisAttempt
    <3> SUFFICES ASSUME NEW i \in TaskAttempt, NEW e \in Candidate, rows[<<i, e>>] # <<>>
                 PROVE  LET skipped == rows[<<i, e>>][1].status = "chrome_gate_fail" IN
                        IF Required(i[1])
                        THEN /\ rows[<<i, Chrome>>] # <<>>
                             /\ skipped <=> rows[<<i, Chrome>>][1].status # "pass"
                        ELSE ~skipped
        BY DEF GateDecidesThisAttempt
    <3>1. e \in Engine /\ e # Chrome BY DEF Candidate
    <3>2. Judgement(i, e) BY <3>1 DEF ScoreInv
    <3> QED BY <3>1, <3>2 DEF Judgement
  <2> QED BY <2>1, <2>2, <2>3 DEF RowsFollowTheGate
<1> QED BY <1>1, ScoreInvariance, PTL

\* What the verdicts read of a row.
LEMMA LastIsOnly ==
    ASSUME ScoreInv, NEW t \in config.probes, NEW a \in 1..K, NEW e \in Engine,
           RowsOf(t, a, e) # <<>>
    PROVE  /\ t \in Task /\ <<t, a>> \in TaskAttempt
           /\ LastRow(t, a, e) = rows[<<<<t, a>>, e>>][1]
           /\ rows[<<<<t, a>>, e>>][1] \in Row
           /\ Judgement(<<t, a>>, e)
<1>1. t \in Task BY DEF ScoreInv, ScoreTypeOK, Config
<1>2. <<t, a>> \in TaskAttempt BY <1>1 DEF TaskAttempt
<1>3. Judgement(<<t, a>>, e) BY <1>2 DEF ScoreInv
<1> DEFINE s == rows[<<<<t, a>>, e>>]
<1>4. s \in Seq(Row) /\ s # <<>> /\ Len(s) <= 1
      BY <1>2, <1>3 DEF ScoreInv, ScoreTypeOK, RowsOf, Judgement
<1> HIDE DEF s
<1>5. Len(s) = 1 /\ s[1] \in Row
  <2>1. Len(s) \in Nat /\ s \in [1 .. Len(s) -> Row] BY <1>4, LenProperties
  <2>2. Len(s) # 0 BY <1>4, EmptySeq
  <2>3. Len(s) = 1 BY <1>4, <2>1, <2>2
  <2> QED BY <2>1, <2>3
<1>6. LastRow(t, a, e) = s[1] BY <1>5 DEF LastRow, RowsOf, s
<1> QED BY <1>1, <1>2, <1>3, <1>5, <1>6 DEF s

\* Two scored engines of an attempt met the same gate, and the same roster.
LEMMA Footing == ScoreInv => EqualFooting
<1> SUFFICES ASSUME ScoreInv, NEW a \in 1..K, NEW x \in Engine, NEW y \in Engine,
                    Scored(a, x), y \in ScoredEngines(config), ~Scored(a, y),
                    \A t \in config.probes : y \in Selected(config) => RowsOf(t, a, y) # <<>>,
                    \A t \in Rowed(a, y) : LastRow(t, a, y).status # "infra"
             PROVE  FALSE
    BY DEF EqualFooting
<1>1. /\ config.probes # {} /\ config.probes \subseteq config.tasks
      /\ \A t \in config.probes : RowsOf(t, a, x) # <<>> /\ LastRow(t, a, x).scored
      BY DEF Scored, Judged, Rowed
<1>2. \A t \in config.probes :
         ShouldIncludeScore(config, ScoreEligible(config), t, x, LastRow(t, a, x).status)
  <2> SUFFICES ASSUME NEW t \in config.probes
               PROVE  ShouldIncludeScore(config, ScoreEligible(config), t, x,
                                         LastRow(t, a, x).status)
      OBVIOUS
  <2>1. LastRow(t, a, x).scored BY <1>1
  <2>2. Judgement(<<t, a>>, x) /\ LastRow(t, a, x) = rows[<<<<t, a>>, x>>][1]
        /\ rows[<<<<t, a>>, x>>] # <<>>
        BY <1>1, LastIsOnly DEF RowsOf
  <2> QED BY <2>1, <2>2 DEF Judgement
<1>3. ScoreEligible(config) /\ x \in ScoredEngines(config)
      BY <1>1, <1>2 DEF ShouldIncludeScore
<1>4. y \in Selected(config)
  <2>1. config.tasks # {} BY <1>1
  <2>2. Selected(config) = Engine \/ (Gating(config) /\ Selected(config) = Candidate)
        BY <1>3, <2>1 DEF ScoreEligible, CompleteRoster
  <2> QED BY <2>2 DEF ScoredEngines
<1>5. \A t \in config.probes : RowsOf(t, a, y) # <<>> BY <1>4
<1>6. PICK t \in config.probes : ~LastRow(t, a, y).scored
      BY <1>1, <1>5 DEF Scored, Judged, Rowed
<1>7. /\ Judgement(<<t, a>>, y) /\ LastRow(t, a, y) = rows[<<<<t, a>>, y>>][1]
      /\ rows[<<<<t, a>>, y>>] # <<>>
      BY <1>5, LastIsOnly DEF RowsOf
<1>8. /\ Judgement(<<t, a>>, x) /\ LastRow(t, a, x) = rows[<<<<t, a>>, x>>][1]
      /\ rows[<<<<t, a>>, x>>] # <<>>
      BY <1>1, LastIsOnly DEF RowsOf
<1>9. LastRow(t, a, y).status = "chrome_gate_fail"
  <2>1. ~ShouldIncludeScore(config, ScoreEligible(config), t, y, LastRow(t, a, y).status)
        BY <1>6, <1>7 DEF Judgement
  <2>2. LastRow(t, a, y).status # "infra" BY <1>5 DEF Rowed
  <2>3. t \in config.probes OBVIOUS
  <2> QED BY <2>1, <2>2, <2>3, <1>3 DEF ShouldIncludeScore
<1>10. LastRow(t, a, x).status # "chrome_gate_fail" BY <1>2 DEF ShouldIncludeScore
<1>11. Required(t) BY <1>7, <1>9 DEF Judgement
<1>12. x # Chrome /\ y # Chrome
       BY <1>3, <1>11 DEF Required, ScoredEngines, Candidate
<1> QED BY <1>7, <1>8, <1>9, <1>10, <1>11, <1>12 DEF Judgement

\* A scored attempt has a scored row of every probe, and so a Chrome that passed before it.
LEMMA WholeEvidence == ScoreInv => ScoredOnWholeEvidence
<1> SUFFICES ASSUME ScoreInv, NEW a \in 1..K, NEW e \in Engine, Scored(a, e)
             PROVE  /\ Rowed(a, e) = config.probes
                    /\ \A t \in config.probes : Required(t) =>
                          RowsOf(t, a, Chrome) # <<>> /\ LastRow(t, a, Chrome).status = "pass"
    BY DEF ScoredOnWholeEvidence
<1>1. Rowed(a, e) = config.probes BY DEF Scored, Judged, Rowed
<1>2. ASSUME NEW t \in config.probes, Required(t)
      PROVE  RowsOf(t, a, Chrome) # <<>> /\ LastRow(t, a, Chrome).status = "pass"
  <2>1. Chrome \in Engine BY ScoreAssumption DEF ScoreAssumption
  <2>2. RowsOf(t, a, e) # <<>> /\ LastRow(t, a, e).scored BY DEF Scored, Judged, Rowed
  <2>3. /\ Judgement(<<t, a>>, e) /\ LastRow(t, a, e) = rows[<<<<t, a>>, e>>][1]
        /\ rows[<<<<t, a>>, e>>] # <<>>
        BY <2>2, LastIsOnly DEF RowsOf
  <2>4. ShouldIncludeScore(config, ScoreEligible(config), t, e, LastRow(t, a, e).status)
        BY <2>2, <2>3 DEF Judgement
  <2>5. e # Chrome /\ LastRow(t, a, e).status # "chrome_gate_fail"
        BY <2>4, <1>2 DEF ShouldIncludeScore, ScoredEngines, Candidate, Required
  <2>6. rows[<<<<t, a>>, Chrome>>] # <<>> /\ rows[<<<<t, a>>, Chrome>>][1].status = "pass"
        BY <2>3, <2>5, <1>2 DEF Judgement
  <2>7. LastRow(t, a, Chrome) = rows[<<<<t, a>>, Chrome>>][1]
        BY <2>1, <2>6, LastIsOnly DEF RowsOf
  <2> QED BY <2>6, <2>7 DEF RowsOf
<1> QED BY <1>1, <1>2

\* A score is comparable: the same attempts for every engine, all of each, whatever was gated
\* (should_include_score, summarize_semantic_results).
THEOREM ScoresCompare == ScoreSpec => []ScoresAreComparable
<1>1. ScoreInv => ScoresAreComparable BY Footing, WholeEvidence DEF ScoresAreComparable
<1> QED BY <1>1, ScoreInvariance, PTL
-----------------------------------------------------------------------------
(* The rotation.                                                              *)

\* A position is its task's index times k, and its attempt.
LEMMA Divided ==
    ASSUME NEW p \in Nat, NEW k \in Nat \ {0}
    PROVE  /\ p \div k \in Nat /\ p % k \in 0 .. k - 1
           /\ p = ((p \div k) * k) + (p % k)
OBVIOUS

\* The remainder of a multiple and something smaller.
LEMMA Remainder ==
    ASSUME NEW q \in Nat, NEW b \in Nat \ {0}, NEW r \in 0 .. b - 1
    PROVE  ((q * b) + r) % b = r
OBVIOUS

\* Two numbers with one remainder are a period apart.
LEMMA Apart ==
    ASSUME NEW x \in Nat, NEW y \in Nat, NEW b \in Nat \ {0}, x % b = y % b, x < y
    PROVE  y >= x + b
<1> DEFINE m == x \div b  n == y \div b  r == x % b
<1>1. m \in Nat /\ r \in 0 .. b - 1 /\ x = (m * b) + r BY Divided
<1>2. n \in Nat /\ y = (n * b) + r BY Divided
<1> HIDE DEF m, n, r
<1>3. m < n
  <2> SUFFICES ASSUME n <= m PROVE FALSE BY <1>1, <1>2
  <2>1. n * b <= m * b BY <1>1, <1>2
  <2>2. n * b \in Nat /\ m * b \in Nat BY <1>1, <1>2
  <2> QED BY <1>1, <1>2, <2>1, <2>2
<1>4. n * b >= (m + 1) * b BY <1>1, <1>2, <1>3
<1>5. (m + 1) * b = (m * b) + b BY <1>1
<1>6. n * b \in Nat /\ m * b \in Nat BY <1>1, <1>2
<1> QED BY <1>1, <1>2, <1>4, <1>5, <1>6

\* A step from one remainder to another.
LEMMA Stepped ==
    ASSUME NEW x \in Nat, NEW b \in Nat \ {0}, NEW h \in 0 .. b - 1
    PROVE  LET g == x % b  j == IF h >= g THEN h - g ELSE (h - g) + b IN
           j \in 0 .. b - 1 /\ (x + j) % b = h
<1> DEFINE m == x \div b  g == x % b  j == IF h >= g THEN h - g ELSE (h - g) + b
<1>1. m \in Nat /\ g \in 0 .. b - 1 /\ x = (m * b) + g BY Divided
<1> HIDE DEF m, g
<1>2. j \in 0 .. b - 1 BY <1>1
<1>3. m * b \in Nat BY <1>1
<1>4. CASE h >= g
  <2>1. x + j = (m * b) + h BY <1>1, <1>3, <1>4
  <2>2. ((m * b) + h) % b = h BY <1>1, Remainder
  <2> QED BY <1>2, <2>1, <2>2 DEF g
<1>5. CASE ~(h >= g)
  <2>1. (m + 1) * b = (m * b) + b BY <1>1
  <2>2. x + j = ((m + 1) * b) + h BY <1>1, <1>3, <1>5, <2>1
  <2>3. m + 1 \in Nat BY <1>1
  <2>4. (((m + 1) * b) + h) % b = h BY <2>3, Remainder
  <2> QED BY <1>2, <2>2, <2>4 DEF g
<1> QED BY <1>4, <1>5

\* The numbers with a remainder, and the positions at which an engine has an ordinal.
Met(s, b, g, first, last) == {p \in first .. last : (s + p) % b = g}
Positions(c, k, e, n, first, last) == {p \in first .. last : Ordinal(c, k, p, e) = n}
OrdinalAt(c, k, e, n, g) ==
    \A p \in Nat : Ordinal(c, k, p, e) = n <=> (c.seed + p) % Len(c.engines) = g

\* Among consecutive numbers no remainder is met twice more often than another.
LEMMA Evenly ==
    ASSUME NEW s \in Nat, NEW b \in Nat \ {0}, NEW g \in 0 .. b - 1, NEW h \in 0 .. b - 1,
           NEW first \in Nat, NEW last \in Nat
    PROVE  Cardinality(Met(s, b, g, first, last)) <= Cardinality(Met(s, b, h, first, last)) + 1
<1> DEFINE G == {p \in first .. last : (s + p) % b = g}
           H == {p \in first .. last : (s + p) % b = h}
           early == {p \in G : p + b <= last}
           j == IF h >= g THEN h - g ELSE (h - g) + b
           f == [p \in early |-> p + j]
<1>1. IsFiniteSet(first .. last) BY FS_Interval
<1>2. IsFiniteSet(G) /\ IsFiniteSet(H) /\ IsFiniteSet(early) BY <1>1, FS_Subset
<1>3. Cardinality(G) \in Nat /\ Cardinality(H) \in Nat /\ Cardinality(early) \in Nat
      BY <1>2, FS_CardinalityType
<1>4. Cardinality(early) <= Cardinality(H)
  <2>1. ASSUME NEW p \in early PROVE p + j \in H
    <3>1. p \in Nat /\ p >= first /\ p + b <= last /\ (s + p) % b = g OBVIOUS
    <3>2. s + p \in Nat BY <3>1
    <3>3. j \in 0 .. b - 1 /\ ((s + p) + j) % b = h BY <3>1, <3>2, Stepped
    <3>4. (s + p) + j = s + (p + j) BY <3>1, <3>3
    <3>5. p + j \in first .. last BY <3>1, <3>3
    <3> QED BY <3>3, <3>4, <3>5
  <2>2. j \in Int OBVIOUS
  <2>3. \A p \in early : p \in Nat OBVIOUS
  <2>4. f \in [early -> H] BY <2>1
  <2> HIDE DEF early, H, j
  <2>5. \A p, q \in early : f[p] = f[q] => p = q BY <2>2, <2>3
  <2>6. DOMAIN f = early OBVIOUS
  <2> HIDE DEF f
  <2>7. f \in Injection(early, H) BY <2>4, <2>5, <2>6 DEF Injection, IsInjective
  <2> QED BY <2>7, <1>2, FS_Injection
<1>5. \A p, q \in G \ early : p = q
  <2> SUFFICES ASSUME NEW p \in G \ early, NEW q \in G \ early, p < q PROVE FALSE
    <3>1. \A p \in G : p \in Nat OBVIOUS
    <3> HIDE DEF G, early
    <3> QED BY <3>1
  <2>1. /\ p \in Nat /\ q \in Nat /\ q <= last /\ ~(p + b <= last)
        /\ (s + p) % b = (s + q) % b
        OBVIOUS
  <2> DEFINE x == s + p  y == s + q
  <2>2. x \in Nat /\ y \in Nat /\ x < y /\ x % b = y % b BY <2>1
  <2> HIDE DEF x, y
  <2>3. y >= x + b BY <2>2, Apart
  <2> QED BY <2>1, <2>3 DEF x, y
<1>6. Cardinality(G) <= Cardinality(early) + 1
  <2>1. CASE G \ early = {}
    <3>1. G = early BY <2>1
    <3> HIDE DEF G, early
    <3> QED BY <3>1, <1>3
  <2>2. CASE G \ early # {}
    <3>1. PICK p \in G \ early : TRUE BY <2>2
    <3>2. G = early \cup {p} /\ p \notin early BY <3>1, <1>5
    <3> HIDE DEF G, early
    <3>3. Cardinality(early \cup {p}) = Cardinality(early) + 1 BY <3>2, <1>2, FS_AddElement
    <3> QED BY <3>2, <3>3, <1>3
  <2> QED BY <2>1, <2>2
<1> HIDE DEF G, H, early
<1>7. Cardinality(G) <= Cardinality(H) + 1 BY <1>3, <1>4, <1>6
<1> QED BY <1>7 DEF G, H, Met

\* The order of a run that rotates, as one sum.
LEMMA InRotation ==
    ASSUME NEW c, NEW n, NEW k, NEW a, ~(~c.rotates \/ Gating(c) \/ Len(c.engines) < 2)
    PROVE  ResourceEngineOrder(c, n, k, a)
             = Rotated(c, (c.seed + ((n * k) + (a - 1))) % Len(c.engines))
BY Zenon DEF ResourceEngineOrder

\* An engine has an ordinal at the positions of one remainder.
LEMMA OrdinalIsRemainder ==
    ASSUME NEW c \in Config, c.rotates, Len(c.engines) >= 2, NEW k \in Nat \ {0},
           NEW n \in DOMAIN c.engines, NEW e \in Selected(c)
    PROVE  \E g \in 0 .. Len(c.engines) - 1 : OrdinalAt(c, k, e, n, g)
<1> DEFINE q == c.engines  len == Len(q)
<1>1. /\ q \in Seq(Selected(c)) /\ Distinct(q) /\ Elements(q) = Selected(c)
      /\ len \in Nat /\ DOMAIN q = 1 .. len /\ c.seed \in Nat /\ ~Gating(c)
      BY Configured, LenProperties DEF Canonical
<1>2. PICK m \in 1 .. len : q[m] = e BY <1>1 DEF Elements
<1> DEFINE g == IF m >= n THEN m - n ELSE (m - n) + len
<1>3. g \in 0 .. len - 1 /\ n \in 1 .. len BY <1>1
<1>4. ASSUME NEW p \in Nat PROVE Ordinal(c, k, p, e) = n <=> (c.seed + p) % len = g
  <2> DEFINE d == p \div k  a == (p % k) + 1
             order == ResourceEngineOrder(c, d, k, a)
             offset == (c.seed + p) % len
  <2>1. d \in Nat /\ p % k \in 0 .. k - 1 /\ p = (d * k) + (p % k) BY Divided
  <2>2. a \in Nat \ {0} /\ p = (d * k) + (a - 1)
    <3>1. d * k \in Nat BY <2>1
    <3> QED BY <2>1, <3>1
  <2>3. offset \in 0 .. len - 1
    <3> DEFINE x == c.seed + p
    <3>1. x \in Nat /\ len \in Nat \ {0} BY <1>1
    <3> HIDE DEF x, len
    <3>2. x % len \in 0 .. len - 1 BY <3>1, Divided
    <3> QED BY <3>2 DEF x
  <2> HIDE DEF d, a
  <2>4. order = Rotated(c, offset)
    <3>1. ~(~c.rotates \/ Gating(c) \/ Len(c.engines) < 2) BY <1>1
    <3>2. order = Rotated(c, (c.seed + ((d * k) + (a - 1))) % Len(c.engines))
          BY <3>1, InRotation
    <3> QED BY <3>2, <2>2
  <2>5. order \in Seq(Selected(c)) /\ Distinct(order) /\ Elements(order) = Selected(c)
        BY <2>1, <2>2, OrderIsPermutation
  <2>6. /\ Len(order) = len /\ DOMAIN order = 1 .. len
        /\ order[n] = IF n <= len - offset THEN q[offset + n] ELSE q[n - (len - offset)]
        BY <1>1, <1>3, <2>3, <2>4, <2>5, Rotation, LenProperties
  <2>7. Ordinal(c, k, p, e) = CHOOSE l \in DOMAIN order : order[l] = e
        BY DEF Ordinal, d, a
  <2> HIDE DEF order, offset, q, len
  <2>8. Ordinal(c, k, p, e) = n <=> order[n] = e
    <3>1. \E l \in DOMAIN order : order[l] = e BY <2>5 DEF Elements
    <3>2. Ordinal(c, k, p, e) \in DOMAIN order /\ order[Ordinal(c, k, p, e)] = e
          BY <2>7, <3>1
    <3> QED BY <3>2, <2>5, <2>6, <1>3 DEF Distinct
  <2>9. order[n] = e <=> offset = g
    <3>1. CASE n <= len - offset
      <4>1. order[n] = q[offset + n] /\ offset + n \in 1 .. len BY <3>1, <2>6, <2>3, <1>1, <1>3
      <4>2. order[n] = e <=> offset + n = m BY <4>1, <1>1, <1>2 DEF Distinct
      <4> QED BY <4>2, <3>1, <2>3, <1>1, <1>2, <1>3
    <3>2. CASE ~(n <= len - offset)
      <4>1. order[n] = q[n - (len - offset)] /\ n - (len - offset) \in 1 .. len
            BY <3>2, <2>6, <2>3, <1>1, <1>3
      <4>2. order[n] = e <=> n - (len - offset) = m BY <4>1, <1>1, <1>2 DEF Distinct
      <4> QED BY <4>2, <3>2, <2>3, <1>1, <1>2, <1>3, SMTT(30)
    <3> QED BY <3>1, <3>2
  <2> QED BY <2>8, <2>9 DEF offset, len, q
<1> QED BY <1>3, <1>4 DEF OrdinalAt

\* Any number of consecutive items of any number of tasks and attempts gives two engines
\* each ordinal equally often, but for one.
LEMMA PlanIsFair ==
    ASSUME NEW c \in Config, c.rotates, NEW k \in Nat \ {0}, NEW first \in Nat, NEW last \in Nat,
           NEW n \in DOMAIN c.engines, NEW d \in Selected(c), NEW e \in Selected(c)
    PROVE  Cardinality(Positions(c, k, d, n, first, last))
             <= Cardinality(Positions(c, k, e, n, first, last)) + 1
<1> DEFINE len == Len(c.engines)  s == c.seed
           D == Positions(c, k, d, n, first, last)
           E == Positions(c, k, e, n, first, last)
<1>1. /\ c.engines \in Seq(Selected(c)) /\ Elements(c.engines) = Selected(c)
      /\ len \in Nat /\ DOMAIN c.engines = 1 .. len /\ s \in Nat
      BY Configured, LenProperties
<1>2. CASE len >= 2
  <2>1. PICK g \in 0 .. len - 1 : OrdinalAt(c, k, d, n, g) BY <1>2, OrdinalIsRemainder
  <2>2. PICK h \in 0 .. len - 1 : OrdinalAt(c, k, e, n, h) BY <1>2, OrdinalIsRemainder
  <2>3. \A p \in first .. last : p \in Nat OBVIOUS
  <2>4. D = Met(s, len, g, first, last) BY <2>1, <2>3 DEF OrdinalAt, Positions, Met
  <2>5. E = Met(s, len, h, first, last) BY <2>2, <2>3 DEF OrdinalAt, Positions, Met
  <2>6. s \in Nat /\ len \in Nat \ {0} BY <1>1, <1>2
  <2> HIDE DEF s, len, D, E
  <2>7. Cardinality(Met(s, len, g, first, last)) <= Cardinality(Met(s, len, h, first, last)) + 1
        BY <2>6, Evenly
  <2>8. Cardinality(D) <= Cardinality(E) + 1 BY <2>4, <2>5, <2>7
  <2> QED BY <2>8 DEF D, E
<1>3. CASE len < 2
  <2>1. d = e BY <1>1, <1>3 DEF Elements
  <2>2. IsFiniteSet(first .. last) BY FS_Interval
  <2>3. IsFiniteSet(D) /\ D = E BY <2>1, <2>2, FS_Subset DEF Positions
  <2> HIDE DEF D, E
  <2>4. Cardinality(D) \in Nat /\ Cardinality(E) = Cardinality(D) BY <2>3, FS_CardinalityType
  <2>5. Cardinality(D) <= Cardinality(E) + 1 BY <2>4
  <2> QED BY <2>5 DEF D, E
<1> QED BY <1>1, <1>2, <1>3

\* Consecutive items of a run give two engines each ordinal equally often, but for one
\* (resource_engine_order).
THEOREM RotationFair == ScoreSpec => []RotationIsFair
<1>1. ScoreInv => RotationIsFair
  <2> SUFFICES ASSUME ScoreInv, config.rotates, NEW k \in 1 .. MaxAttempts,
                      NEW last \in 0 .. ((MaxTasks * k) - 1), NEW first \in 0 .. last,
                      NEW n \in DOMAIN config.engines,
                      NEW d \in Selected(config), NEW e \in Selected(config)
               PROVE  Cardinality(Positions(config, k, d, n, first, last))
                        <= Cardinality(Positions(config, k, e, n, first, last)) + 1
      BY DEF RotationIsFair, Positions
  <2>1. config \in Config BY DEF ScoreInv, ScoreTypeOK
  <2>2. k \in Nat \ {0} /\ last \in Nat /\ first \in Nat BY DEF MaxAttempts, MaxTasks
  <2> QED BY <2>1, <2>2, PlanIsFair
<1> QED BY <1>1, ScoreInvariance, PTL
=============================================================================
