-------------------------- MODULE DriverSession_proofs --------------------------
(***************************************************************************)
(* What the containment of a driver promises, for any process numbers, any *)
(* number of processes and any number of interrupts: it signals no         *)
(* stranger, and what it was bound to reach is gone.  The inductive        *)
(* invariant IInv rests on one fact, Anchored: while the adapter is not    *)
(* reaped its number names its own session and group and nobody else's;    *)
(* the rest says when that is so, what the scans of /proc have not missed, *)
(* and how old whatever they missed must be.                               *)
(***************************************************************************)
EXTENDS DriverSession, TLAPS

\* While the adapter is not reaped, its number is taken by it, and who is in the
\* session or the group of that number descends from it.
Anchored ==
    ~reaped =>
        /\ Busy(Leader) /\ os[Leader].sess = Leader /\ os[Leader].grp = Leader
        /\ Zombie(Leader) => status # Nil
        /\ \A p \in Pid : Busy(p) /\ os[p].sess = Leader => os[p].kin
        /\ \A p \in Pid : Busy(p) /\ os[p].grp = Leader => os[p].sess = Leader

\* No process is younger than the clock, nor are the two lists; a descendant
\* that got the number of the reaped adapter is younger than both.
Aged ==
    /\ \A p \in Pid : os[p].born <= clock
    /\ listedAt <= clock /\ killedAt <= clock
    /\ reaped /\ Live(Leader) /\ os[Leader].kin =>
          os[Leader].born > listedAt /\ os[Leader].born > killedAt

\* Where a harness thread can be, and where the adapter is not reaped yet.
Placed ==
    /\ kind = "pinned" =>
          /\ h.pc \in {"spawned", "wait", "list", "read", "signal", "reap", "return",
                       "finish", "done"}
          /\ reaped => h.pc \in {"return", "finish", "done"}
    /\ kind = "unpinned" =>
          /\ h.pc \in {"spawned", "kill", "gone", "probe", "return", "finish", "done"}
          /\ signals = 0 /\ h.pc \in {"spawned", "kill"} => ~reaped
    /\ kind = "plain" =>
          /\ h.pc \in {"spawned", "communicate", "term", "grace", "killpg", "collect",
                       "finish", "done"}
          /\ signals = 0 /\ ~run.garbled
             /\ h.pc \in {"spawned", "communicate", "term", "grace", "killpg"} => ~reaped
    /\ h.phase = "grace" => h.pc \in {"list", "read"}
    /\ kind = "pinned" /\ h.pc \in {"reap", "return"} =>
          h.phase = "clean" \/ (h.phase = "last" /\ late)

\* A process that is listed was a descendant, and so is the process that has its
\* number and its start time now.
Kept(m) ==
    /\ m[2].kin /\ m[2].born <= clock
    /\ Busy(m[1]) /\ os[m[1]].born = m[2].born => os[m[1]].kin
Listed ==
    /\ \A m \in h.seen \cup h.todo : Kept(m)
    /\ h.fd # Nil => Kept(h.fd)

\* A scan has still to read whatever was there when /proc was listed, or found it,
\* or could not read it.
Scanned ==
    h.pc = "read" =>
        /\ Checks => \A p \in Pid :
              Live(p) /\ os[p].kin /\ os[p].sess = Leader /\ os[p].born <= listedAt =>
              p \in h.names \/ os[p].born \in unread
        /\ ~Checks => \A p \in Pid :
              Live(p) /\ os[p].kin /\ os[p].grp = Leader /\ os[p].born <= listedAt =>
              p \in h.names \/ GroupListed \/ os[p].born \in unread

\* What a clean scan has shown stays true until /proc is listed again.
Emptied ==
    \A p \in Pid : Live(p) /\ os[p].kin /\ os[p].sess = Leader =>
        os[p].born > listedAt \/ os[p].born \in unread
Shown ==
    kind = "pinned" =>
        /\ run.confirmed => h.pc \in {"finish", "done"} /\ Emptied
        /\ h.pc \in {"reap", "return"} /\ h.phase = "clean" => Emptied

\* StrangersSpared without TypeOK.
Spared == stray => kind # "pinned" /\ (signals > 0 \/ (kind = "plain" /\ run.garbled))

\* The inductive invariant: StrangersSpared needs Anchored where Placed says so,
\* and Listed for the signals by pidfd; CleanupIsThorough needs Scanned while a
\* scan goes on, and Aged for the processes that come later.
IInv ==
    TypeOK /\ Anchored /\ Aged /\ Placed /\ Listed /\ Scanned /\ Shown
    /\ KillReachesGroup /\ Spared

-----------------------------------------------------------------------------
(* Steps under which processes only go away                                 *)

\* Every step but a fork or a new stranger: a process that runs afterwards ran
\* before, and is in the session or the group only if it was, but for a later
\* process of the adapter's number.
Again(p) == p = Leader /\ reaped
Fades ==
    /\ clock' = clock
    /\ \A p \in Pid :
          /\ os'[p].born <= clock
          /\ Busy(p)' =>
                /\ Busy(p) /\ (Live(p)' => Live(p))
                /\ os'[p].kin = os[p].kin /\ os'[p].born = os[p].born
                /\ os'[p].sess = Leader => os[p].sess = Leader \/ Again(p)
                /\ os'[p].grp = Leader =>
                      \/ os[p].grp = Leader /\ os'[p].sess = os[p].sess
                      \/ Again(p)

\* The adapter is reaped once and its number free then; until then it keeps it.
Holds ==
    /\ reaped => reaped'
    /\ reaped' => reaped \/ ~Busy(Leader)'
    /\ ~reaped' =>
          /\ Busy(Leader)' /\ os'[Leader].sess = Leader /\ os'[Leader].grp = Leader
          /\ Zombie(Leader)' => status' # Nil

\* A step that touches no process fades and holds.
LEMMA Still ==
    ASSUME IInv, UNCHANGED <<os, clock, status, reaped>>
    PROVE  Fades /\ Holds
<1> USE DEF IInv, TypeOK, Anchored, Aged, Busy, Live, Zombie, Process
<1>1. Fades BY DEF Fades
<1>2. Holds BY DEF Holds
<1> QED BY <1>1, <1>2

\* What has been listed stays a descendant when processes only go away.
LEMMA FadingKept ==
    ASSUME IInv, Fades, NEW m \in Stat, Kept(m)
    PROVE  Kept(m)'
BY DEF IInv, TypeOK, Fades, Kept, Stat, Process, Busy

\* Anchored, Aged and the two promises about what is gone survive such a step,
\* as long as /proc is not listed and no round of SIGKILL recorded.
LEMMA Fading ==
    ASSUME IInv, Fades, Holds
    PROVE  /\ Anchored'
           /\ listedAt' \in {listedAt, 0} /\ killedAt' \in {killedAt, 0} => Aged'
           /\ listedAt' = listedAt /\ unread' = unread /\ Emptied => Emptied'
           /\ killedAt' \in {killedAt, 0} => KillReachesGroup'
<1> USE DEF IInv, TypeOK, Fades, Holds, Again
<1>1. Anchored' BY DEF Anchored, Process, Busy, Zombie
<1>2. ASSUME listedAt' \in {listedAt, 0}, killedAt' \in {killedAt, 0} PROVE Aged'
  <2>1. clock \in Nat /\ listedAt \in Nat /\ killedAt \in Nat BY ConstantsAssumption
  <2>2. listedAt' \in Nat /\ listedAt' <= listedAt /\ killedAt' \in Nat /\ killedAt' <= killedAt
    BY <1>2, <2>1
  <2>3. listedAt' <= clock' /\ killedAt' <= clock' BY <2>1, <2>2 DEF Aged
  <2>4. ASSUME reaped', Live(Leader)', os'[Leader].kin
        PROVE  os'[Leader].born > listedAt' /\ os'[Leader].born > killedAt'
    <3>0. Leader \in Pid BY ConstantsAssumption
    <3>1. Live(Leader) /\ os[Leader].kin /\ os[Leader].born = os'[Leader].born
      BY <2>4, <3>0 DEF Busy, Live
    <3>2. reaped BY <2>4, <3>0 DEF Busy, Live
    <3>3. os[Leader].born \in Nat BY <3>0 DEF Process
    <3> QED BY <2>1, <2>2, <3>1, <3>2, <3>3 DEF Aged
  <2> QED BY <2>3, <2>4 DEF Aged
<1>3. ASSUME listedAt' = listedAt, unread' = unread, Emptied PROVE Emptied'
  <2> SUFFICES ASSUME NEW p \in Pid, Live(p)', os'[p].kin, os'[p].sess = Leader
               PROVE  os'[p].born > listedAt \/ os'[p].born \in unread
    BY <1>3 DEF Emptied
  <2>1. Live(p) /\ os[p].kin /\ os[p].born = os'[p].born BY DEF Busy, Live
  <2>2. CASE os[p].sess = Leader BY <2>1, <2>2, <1>3 DEF Emptied
  <2>3. CASE p = Leader /\ reaped BY <2>1, <2>3 DEF Aged
  <2> QED BY <2>2, <2>3 DEF Busy, Live
<1>4. ASSUME killedAt' \in {killedAt, 0} PROVE KillReachesGroup'
  <2> SUFFICES ASSUME NEW p \in Pid, Live(p)', os'[p].kin, os'[p].grp = Leader, killedAt > 0,
                      killedAt' = killedAt
               PROVE  os'[p].born > killedAt
    BY <1>4 DEF KillReachesGroup
  <2>1. Live(p) /\ os[p].kin /\ os[p].born = os'[p].born BY DEF Busy, Live
  <2>2. CASE os[p].grp = Leader BY <2>1, <2>2 DEF KillReachesGroup
  <2>3. CASE p = Leader /\ reaped BY <2>1, <2>3 DEF Aged
  <2> QED BY <2>2, <2>3 DEF Busy, Live
<1> QED BY <1>1, <1>2, <1>3, <1>4

\* A step of the kernel in which processes only go away keeps the invariant.
LEMMA KernelFading ==
    ASSUME IInv, TypeOK', Fades, Holds, UNCHANGED harness
    PROVE  IInv'
<1> USE DEF IInv, harness, fixed, history
<1>1. Anchored' /\ Aged' /\ KillReachesGroup' BY Fading
<1>2. Placed' BY DEF Placed
<1>3. Listed'
  <2>1. \A m \in h.seen \cup h.todo : m \in Stat BY DEF TypeOK, Harness
  <2>2. h.fd # Nil => h.fd \in Stat BY DEF TypeOK, Harness
  <2> QED BY <2>1, <2>2, FadingKept DEF Listed
<1>4. Scanned'
  <2> SUFFICES ASSUME h.pc = "read" PROVE Scanned' BY DEF Scanned
  <2>0. ~reaped BY DEF Placed, TypeOK
  <2>1. \A p \in Pid : Live(p)' => Live(p) /\ os[p].kin = os'[p].kin /\ os[p].born = os'[p].born
           /\ (os'[p].sess = Leader => os[p].sess = Leader)
           /\ (os'[p].grp = Leader => os[p].grp = Leader)
    BY <2>0 DEF Fades, Again, Busy, Live
  <2> QED BY <2>1 DEF Scanned, Checks, GroupListed
<1>5. Shown' BY Fading DEF Shown
<1>6. Spared' BY DEF Spared
<1> QED BY <1>1, <1>2, <1>3, <1>4, <1>5, <1>6

\* A number is free for a new process, which is younger than anything recorded.
LEMMA Grown ==
    ASSUME IInv, NEW q \in Pid, ~Busy(q), NEW new \in Process,
           new.state = "live", new.born = clock + 1,
           ~reaped => /\ q # Leader
                      /\ new.sess = Leader => new.kin
                      /\ new.grp = Leader => new.sess = Leader,
           clock < MaxBorn, clock' = clock + 1, os' = [os EXCEPT ![q] = new],
           UNCHANGED <<status, harness>>
    PROVE  IInv'
<1> USE DEF IInv, harness, fixed, history
<1>0. /\ \A p \in Pid : os'[p] = IF p = q THEN new ELSE os[p]
      /\ clock \in Nat /\ listedAt \in Nat /\ killedAt \in Nat /\ clock + 1 \in 1..MaxBorn
      /\ listedAt <= clock /\ killedAt <= clock
  BY ConstantsAssumption DEF TypeOK, Aged
<1>1. TypeOK' BY <1>0 DEF TypeOK
<1>2. Anchored' BY <1>0 DEF Anchored, Busy, Zombie
<1>3. Aged' BY <1>0 DEF Aged, Live, TypeOK, Process
<1>4. Placed' BY DEF Placed
<1>5. Listed'
  <2>1. ASSUME NEW m \in Stat, Kept(m) PROVE Kept(m)'
    BY <1>0, <2>1 DEF Kept, Busy, Stat, Process, TypeOK
  <2>2. \A m \in h.seen \cup h.todo : m \in Stat BY DEF TypeOK, Harness
  <2>3. h.fd # Nil => h.fd \in Stat BY DEF TypeOK, Harness
  <2> QED BY <2>1, <2>2, <2>3 DEF Listed
<1>6. Scanned' BY <1>0 DEF Scanned, Checks, GroupListed, Live
<1>7. Shown' BY <1>0 DEF Shown, Emptied, Live
<1>8. KillReachesGroup' BY <1>0 DEF KillReachesGroup, Live
<1>9. Spared' BY DEF Spared
<1> QED BY <1>1, <1>2, <1>3, <1>4, <1>5, <1>6, <1>7, <1>8, <1>9

-----------------------------------------------------------------------------
(* Processes come and go                                                    *)

\* A child is in the session and the group of its parent.
LEMMA ForkKeeps ==
    ASSUME IInv, NEW p \in Pid, NEW q \in Pid, Fork(p, q)
    PROVE  IInv'
<1> DEFINE new == [os[p] EXCEPT !.born = clock + 1]
<1>1. os[p] \in Process /\ clock \in Nat /\ clock + 1 \in 0..MaxBorn
  BY ConstantsAssumption DEF Fork, IInv, TypeOK
<1>2. new \in Process /\ new.state = "live" /\ new.born = clock + 1 /\ new.kin
      /\ new.sess = os[p].sess /\ new.grp = os[p].grp
  BY <1>1 DEF Fork, Process, Live
<1>3. ~Busy(q) BY DEF Fork, Given, Free
<1>4. ~reaped => q # Leader /\ (new.grp = Leader => new.sess = Leader)
  BY <1>2, <1>3 DEF IInv, Anchored, Fork, Live, Busy
<1>5. clock < MaxBorn /\ clock' = clock + 1 /\ os' = [os EXCEPT ![q] = new]
      /\ UNCHANGED <<status, harness>>
  BY DEF Fork
<1> HIDE DEF new
<1> QED BY <1>2, <1>3, <1>4, <1>5, Grown

\* A stranger is in a session and a group of its own.
LEMMA StrangerKeeps ==
    ASSUME IInv, NEW q \in Pid, Stranger(q)
    PROVE  IInv'
<1> DEFINE new == [state |-> "live", sess |-> q, grp |-> q, born |-> clock + 1, kin |-> FALSE]
<1>1. clock \in Nat /\ clock + 1 \in 0..MaxBorn
  BY ConstantsAssumption DEF Stranger, IInv, TypeOK
<1>2. new \in Process /\ new.state = "live" /\ new.born = clock + 1
      /\ new.sess = q /\ new.grp = q
  BY <1>1 DEF Process
<1>3. ~Busy(q) BY DEF Stranger, Given, Free
<1>4. ~reaped => q # Leader BY <1>3 DEF IInv, Anchored
<1>5. clock < MaxBorn /\ clock' = clock + 1 /\ os' = [os EXCEPT ![q] = new]
      /\ UNCHANGED <<status, harness>>
  BY DEF Stranger
<1> HIDE DEF new
<1> QED BY <1>2, <1>3, <1>4, <1>5, Grown

\* The adapter leads its group and cannot leave it; what does leave joins no other.
LEMMA LeaveGroupKeeps ==
    ASSUME IInv, NEW p \in Pid, LeaveGroup(p)
    PROVE  IInv'
<1> USE DEF IInv, LeaveGroup
<1>0. os \in [Pid -> Process] BY DEF TypeOK
<1>1. \A q \in Pid : /\ os'[q].state = os[q].state /\ os'[q].born = os[q].born
                     /\ os'[q].kin = os[q].kin
                     /\ q # p => os'[q] = os[q]
  BY <1>0 DEF Process
<1>2. os'[p].grp = p /\ (os'[p].sess = os[p].sess \/ os'[p].sess = p) /\ os[p].grp # p
  BY <1>0 DEF Process
<1>3. os' \in [Pid -> Process] BY <1>0 DEF Process
<1>4. TypeOK' BY <1>3 DEF TypeOK, harness, fixed, history
<1>5. Fades
  <2>1. \A q \in Pid : os'[q].born <= clock BY <1>1 DEF Aged
  <2>2. \A q \in Pid : Busy(q)' => Busy(q) /\ (Live(q)' => Live(q)) BY <1>1 DEF Busy, Live
  <2>3. p = Leader => reaped BY <1>2 DEF Anchored
  <2> QED BY <1>1, <1>2, <2>1, <2>2, <2>3 DEF Fades, Again
<1>6. Holds
  <2>1. ~reaped => p # Leader BY <1>2 DEF Anchored
  <2>2. ~reaped => os'[Leader] = os[Leader] BY <1>1, <2>1, ConstantsAssumption
  <2> QED BY <2>2 DEF Holds, harness, Anchored, Busy, Zombie
<1> QED BY <1>4, <1>5, <1>6, KernelFading

\* The adapter leads its session and cannot leave it; what does leave joins no other.
LEMMA LeaveSessionKeeps ==
    ASSUME IInv, NEW p \in Pid, LeaveSession(p)
    PROVE  IInv'
<1> USE DEF IInv, LeaveSession
<1>0. os \in [Pid -> Process] BY DEF TypeOK
<1>1. \A q \in Pid : /\ os'[q].state = os[q].state /\ os'[q].born = os[q].born
                     /\ os'[q].kin = os[q].kin
                     /\ q # p => os'[q] = os[q]
  BY <1>0 DEF Process
<1>2. os'[p].grp = p /\ (os'[p].sess = os[p].sess \/ os'[p].sess = p) /\ os[p].grp # p
  BY <1>0 DEF Process
<1>3. os' \in [Pid -> Process] BY <1>0 DEF Process
<1>4. TypeOK' BY <1>3 DEF TypeOK, harness, fixed, history
<1>5. Fades
  <2>1. \A q \in Pid : os'[q].born <= clock BY <1>1 DEF Aged
  <2>2. \A q \in Pid : Busy(q)' => Busy(q) /\ (Live(q)' => Live(q)) BY <1>1 DEF Busy, Live
  <2>3. p = Leader => reaped BY <1>2 DEF Anchored
  <2> QED BY <1>1, <1>2, <2>1, <2>2, <2>3, ZenonT(40) DEF Fades, Again
<1>6. Holds
  <2>1. ~reaped => p # Leader BY <1>2 DEF Anchored
  <2>2. ~reaped => os'[Leader] = os[Leader] BY <1>1, <2>1, ConstantsAssumption
  <2> QED BY <2>2 DEF Holds, harness, Anchored, Busy, Zombie
<1> QED BY <1>4, <1>5, <1>6, KernelFading

\* A process that exits is dead where it was; the adapter then has a status.
LEMMA ExitKeeps ==
    ASSUME IInv, NEW p \in Pid, Exit(p)
    PROVE  IInv'
<1> USE DEF IInv, Exit
<1>0. os \in [Pid -> Process] BY DEF TypeOK
<1>1. \A q \in Pid : /\ os'[q].sess = os[q].sess /\ os'[q].born = os[q].born
                     /\ os'[q].grp = os[q].grp /\ os'[q].kin = os[q].kin
                     /\ q # p => os'[q] = os[q]
  BY <1>0 DEF Process
<1>2. os[p].state = "live" /\ os'[p].state = "zombie" BY <1>0 DEF Process, Live
<1>3. os' \in [Pid -> Process] BY <1>0 DEF Process
<1>4. status' \in {"zero", "nonzero", Nil} /\ (reaped => status' # Nil)
  BY ConstantsAssumption DEF TypeOK, Adapter
<1>5. TypeOK' BY <1>3, <1>4 DEF TypeOK, harness, fixed, history
<1>6. \A q \in Pid : Busy(q)' => Busy(q) /\ (Live(q)' => Live(q)) BY <1>1, <1>2 DEF Busy, Live
<1>7. Fades BY <1>1, <1>6 DEF Fades, Aged
<1>8. Holds
  <2>1. ~reaped /\ p = Leader => status' # Nil
    <3>1. "zero" # Nil /\ "nonzero" # Nil BY ConstantsAssumption
    <3> QED BY <3>1 DEF Adapter
  <2>2. ~reaped /\ p # Leader => status' = status BY DEF Adapter
  <2>3. ~reaped => Busy(Leader)' BY <1>1, <1>2 DEF Anchored, Busy
  <2> QED BY <1>1, <2>1, <2>2, <2>3 DEF Holds, harness, Anchored, Zombie
<1> QED BY <1>5, <1>7, <1>8, KernelFading

\* Only the harness collects the adapter.
LEMMA CollectedKeeps ==
    ASSUME IInv, NEW p \in Pid, Collected(p)
    PROVE  IInv'
<1> USE DEF IInv, Collected
<1>0. os \in [Pid -> Process] /\ Vacant \in Process BY ConstantsAssumption DEF TypeOK, Vacant, Process
<1>1. os' \in [Pid -> Process] /\ os'[p] = Vacant /\ (\A q \in Pid : q # p => os'[q] = os[q])
  BY <1>0
<1>2. ~Busy(p)' /\ Vacant.born = 0 BY <1>1 DEF Busy, Vacant
<1>3. TypeOK' BY <1>1 DEF TypeOK, harness, fixed, history
<1>4. Fades
  <2>1. 0 <= clock BY ConstantsAssumption DEF TypeOK
  <2>2. \A q \in Pid : Busy(q)' => q # p BY <1>2
  <2>3. \A q \in Pid : Busy(q)' => Busy(q) /\ (Live(q)' => Live(q))
    BY <1>1, <2>2 DEF Busy, Live
  <2> QED BY <1>1, <1>2, <2>1, <2>2, <2>3 DEF Fades, Aged
<1>5. Holds
  <2>1. ~reaped => p # Leader BY DEF Adapter
  <2> QED BY <1>1, <2>1 DEF Holds, harness, Anchored, Busy, Zombie
<1> QED BY <1>3, <1>4, <1>5, KernelFading

-----------------------------------------------------------------------------
(* Steps of the harness                                                     *)

\* What the harness does to processes only takes them away, and signals no
\* stranger but where StrangersSpared excepts it.
Tame ==
    /\ Fades /\ Holds
    /\ os' \in [Pid -> Process] /\ reaped' \in BOOLEAN /\ stray' \in BOOLEAN
    /\ status' \in {"zero", "nonzero", Nil} /\ (reaped' => status' # Nil)
    /\ stray' => stray \/ (kind # "pinned" /\ (signals > 0 \/ (kind = "plain" /\ run.garbled)))

\* A step that leaves the processes alone is tame.
LEMMA StillTame ==
    ASSUME IInv, UNCHANGED <<kernel, reaped, stray>>
    PROVE  Tame
<1>1. Fades /\ Holds BY Still DEF kernel
<1>2. TypeOK BY DEF IInv
<1> QED BY <1>1, <1>2 DEF Tame, TypeOK, kernel

\* So is a signal to live processes that descend from the adapter; none of them
\* outlives SIGKILL.
LEMMA DeliverTame ==
    ASSUME IInv, NEW lethal \in BOOLEAN, NEW S \in SUBSET Pid, \A p \in S : Live(p),
           Deliver(lethal, S), UNCHANGED <<clock, reaped>>,
           (\A p \in S : os[p].kin) \/ (kind # "pinned" /\ (signals > 0 \/ (kind = "plain" /\ run.garbled)))
    PROVE  Tame /\ (lethal => \A p \in S : ~Live(p)')
<1> USE DEF IInv
<1>0. os \in [Pid -> Process] BY DEF TypeOK
<1>1. /\ os' \in [Pid -> Process]
      /\ \A p \in Pid : IF lethal /\ p \in S
                        THEN os'[p] = [os[p] EXCEPT !.state = "zombie"] ELSE os'[p] = os[p]
  BY <1>0 DEF Deliver, Process
<1>2. \A p \in Pid : /\ os'[p].sess = os[p].sess /\ os'[p].born = os[p].born
                     /\ os'[p].grp = os[p].grp /\ os'[p].kin = os[p].kin
                     /\ lethal /\ p \in S => os'[p].state = "zombie" /\ os[p].state = "live"
                     /\ ~lethal \/ p \notin S => os'[p] = os[p]
  BY <1>0, <1>1 DEF Process, Live
<1>3. \A p \in Pid : (Busy(p)' <=> Busy(p)) /\ (Live(p)' => Live(p)) BY <1>2 DEF Busy, Live
<1>4. Fades BY <1>2, <1>3 DEF Fades, Aged
<1>5. status' \in {"zero", "nonzero", Nil} /\ (reaped' => status' # Nil)
  BY DEF Deliver, Adapter, TypeOK
<1>6. Holds
  <2>1. ~reaped /\ Zombie(Leader)' => status' # Nil
    <3>1. CASE lethal /\ Leader \in S BY <3>1, ConstantsAssumption DEF Deliver, Adapter
    <3>2. CASE ~(lethal /\ Leader \in S)
      <4>1. os'[Leader] = os[Leader] BY <1>2, <3>2, ConstantsAssumption
      <4> QED BY <4>1, ConstantsAssumption DEF Deliver, Anchored, Zombie
    <3> QED BY <3>1, <3>2
  <2> QED BY <1>2, <1>3, <2>1, ConstantsAssumption DEF Holds, Anchored
<1>7. stray' \in BOOLEAN BY DEF Deliver
<1>8. stray' => stray \/ (kind # "pinned" /\ (signals > 0 \/ (kind = "plain" /\ run.garbled)))
  BY DEF Deliver
<1>9. lethal => \A p \in S : ~Live(p)' BY <1>2 DEF Live
<1> QED BY <1>1, <1>4, <1>5, <1>6, <1>7, <1>8, <1>9 DEF Tame, TypeOK

\* So is collecting the adapter once it has exited.
LEMMA ReapTame ==
    ASSUME IInv, PerhapsReap, UNCHANGED <<clock, status, stray>>
    PROVE  Tame
<1> USE DEF IInv
<1>1. CASE UNCHANGED <<os, reaped>> BY <1>1, StillTame DEF kernel
<1>2. CASE Terminal /\ Reap
  <2>0. os \in [Pid -> Process] /\ Vacant \in Process /\ Leader \in Pid
    BY ConstantsAssumption DEF TypeOK, Vacant, Process
  <2>1. /\ os' \in [Pid -> Process] /\ os'[Leader] = Vacant
        /\ \A q \in Pid : q # Leader => os'[q] = os[q]
    BY <1>2, <2>0 DEF Reap
  <2>2. ~Busy(Leader)' /\ Vacant.born = 0 BY <2>1 DEF Busy, Vacant
  <2>3. reaped' /\ ~reaped /\ status # Nil BY <1>2 DEF Reap, Terminal, Anchored
  <2>4. reaped' = TRUE BY <1>2 DEF Reap
  <2>5. Fades
    <3>1. 0 <= clock BY ConstantsAssumption DEF TypeOK
    <3>2. \A q \in Pid : Busy(q)' => q # Leader BY <2>2
    <3>3. \A q \in Pid : Busy(q)' => Busy(q) /\ (Live(q)' => Live(q))
      BY <2>1, <3>2 DEF Busy, Live
    <3> QED BY <2>1, <2>2, <3>1, <3>2, <3>3 DEF Fades, Aged
  <2>6. Holds BY <2>2, <2>3 DEF Holds
  <2> QED BY <2>1, <2>3, <2>4, <2>5, <2>6 DEF Tame, TypeOK
<1> QED BY <1>1, <1>2 DEF PerhapsReap

\* Nothing new is on the lists of a scan that is not a descendant's.
Relisted ==
    /\ \A m \in h'.seen \cup h'.todo : m \in h.seen \cup h.todo \/ Kept(m)'
    /\ h'.fd # Nil => h'.fd = h.fd \/ Kept(h.fd)'

Advances ==
    /\ kind' = kind /\ late' \in BOOLEAN
    /\ signals' \in 0..MaxSignals /\ signals <= signals'
    /\ h' \in Harness /\ run' \in Locals /\ (run.garbled => run'.garbled)

\* A tame step of the harness keeps the invariant if what it says about its own
\* position, lists and verdict is true.
LEMMA HarnessKeeps ==
    ASSUME IInv, Tame, Advances, Relisted, Placed', Scanned', Shown',
           Aged', KillReachesGroup', listedAt' \in 0..MaxBorn, killedAt' \in 0..MaxBorn,
           unread' \subseteq 0..MaxBorn
    PROVE  IInv'
<1> USE DEF IInv, Tame, Advances
<1>1. TypeOK' BY DEF TypeOK, Fades
<1>2. Anchored' BY Fading
<1>3. Listed'
  <2>1. \A m \in h.seen \cup h.todo : m \in Stat BY DEF TypeOK, Harness
  <2>2. h.fd # Nil => h.fd \in Stat BY DEF TypeOK, Harness
  <2>3. \A m \in Stat : Kept(m) => Kept(m)' BY FadingKept
  <2>4. \A m \in h'.seen \cup h'.todo : Kept(m)' BY <2>1, <2>3 DEF Listed, Relisted
  <2>5. ASSUME h'.fd # Nil, h'.fd = h.fd PROVE Kept(h.fd)'
    <3>1. PICK f \in Stat : f = h.fd BY <2>2, <2>5
    <3>2. Kept(f)' BY <2>3, <2>5, <3>1 DEF Listed
    <3> QED BY <2>5, <3>1, <3>2 DEF Kept
  <2> QED BY <2>4, <2>5 DEF Listed, Relisted
<1>4. Spared' BY DEF Spared, TypeOK
<1> QED BY <1>1, <1>2, <1>3, <1>4

\* The same when nothing is listed and no round of SIGKILL recorded, a scan that
\* is done with being forgotten ...
LEMMA ForgettingKeeps ==
    ASSUME IInv, Tame, Advances, Relisted, Placed', Scanned', Shown',
           killedAt' = killedAt, ScanDone
    PROVE  IInv'
<1>1. Aged' /\ KillReachesGroup' BY Fading DEF Tame, ScanDone
<1>2. listedAt' \in 0..MaxBorn /\ killedAt' \in 0..MaxBorn /\ unread' \subseteq 0..MaxBorn
  BY ConstantsAssumption DEF IInv, TypeOK, ScanDone
<1> QED BY <1>1, <1>2, HarnessKeeps

\* ... or not.
LEMMA QuietKeeps ==
    ASSUME IInv, Tame, Advances, Relisted, Placed', Scanned', Shown', UNCHANGED history
    PROVE  IInv'
<1>1. Aged' /\ KillReachesGroup' BY Fading DEF Tame, history
<1>2. listedAt' \in 0..MaxBorn /\ killedAt' \in 0..MaxBorn /\ unread' \subseteq 0..MaxBorn BY DEF IInv, TypeOK, history
<1> QED BY <1>1, <1>2, HarnessKeeps

\* A fresh position has empty lists.
LEMMA AtTyped ==
    ASSUME NEW pc \in Position, NEW phase \in Phase, h' = At(pc, phase)
    PROVE  /\ h' \in Harness /\ Relisted
           /\ h'.pc = pc /\ h'.phase = phase
BY DEF At, Harness, Relisted

\* A new position alone changes no list.
LEMMA GoesTyped ==
    ASSUME h \in Harness, NEW pc \in Position, Goes(pc)
    PROVE  /\ h' \in Harness /\ Relisted
           /\ h'.pc = pc /\ h'.phase = h.phase /\ h'.seen = h.seen /\ h'.names = h.names
BY DEF Goes, Harness, Relisted

\* The cleanup a driver gets is settled when it has been started.
LEMMA SpawnedKeeps ==
    ASSUME IInv, Spawned
    PROVE  IInv'
<1> USE DEF IInv
<1>0. h \in Harness /\ run \in Locals /\ late \in BOOLEAN /\ signals \in 0..MaxSignals
      /\ kind \in {"pinned", "unpinned", "plain"}
  BY DEF TypeOK
<1>k. UNCHANGED <<clock, history>> BY DEF Spawned, kernel, history
<1>1. Tame BY StillTame DEF Spawned, kernel
<1>2. h' \in Harness /\ Relisted /\ h'.pc = (IF kind = "pinned" THEN "wait" ELSE IF kind = "unpinned" THEN "kill" ELSE "communicate") /\ h'.phase = "first"
  <2>1. (IF kind = "pinned" THEN "wait" ELSE IF kind = "unpinned" THEN "kill" ELSE "communicate") \in Position /\ "first" \in Phase BY <1>0 DEF Position, Phase, Spawned
  <2>2. h' = At((IF kind = "pinned" THEN "wait" ELSE IF kind = "unpinned" THEN "kill" ELSE "communicate"), "first") BY <1>0 DEF Spawned, AfterSignals, Check, Checks, Phase, Harness
  <2> QED BY <2>1, <2>2, AtTyped
<1>3. Advances BY <1>0, <1>2 DEF Advances, Spawned, kernel, fixed, Locals
<1>4. Placed' BY <1>0, <1>2 DEF Placed, Spawned, kernel, fixed
<1>5. Scanned' BY <1>2 DEF Scanned
<1>6. Shown' BY <1>0, <1>1, <1>2, <1>k, Fading DEF Shown, Placed, Tame, Spawned, kernel, fixed, history
<1> QED BY <1>1, <1>2, <1>3, <1>4, <1>5, <1>6, <1>k, QuietKeeps

\* The cleanup of a pinned session begins with the adapter still unreaped.
LEMMA WaitEndsKeeps ==
    ASSUME IInv, WaitEnds
    PROVE  IInv'
<1> USE DEF IInv
<1>0. h \in Harness /\ run \in Locals /\ late \in BOOLEAN /\ signals \in 0..MaxSignals
      /\ kind \in {"pinned", "unpinned", "plain"}
  BY DEF TypeOK
<1>k. UNCHANGED <<clock, history>> BY DEF WaitEnds, kernel, history
<1>1. Tame BY StillTame DEF WaitEnds, kernel
<1>2. h' \in Harness /\ Relisted /\ h'.pc = "list" /\ h'.phase = "first"
  <2>1. "list" \in Position /\ "first" \in Phase BY <1>0 DEF Position, Phase, WaitEnds
  <2>2. h' = At("list", "first") BY <1>0 DEF WaitEnds, AfterSignals, Check, Checks, Phase, Harness
  <2> QED BY <2>1, <2>2, AtTyped
<1>3. Advances
  <2>1. PICK b \in BOOLEAN : b = (~Zombie(Leader)) OBVIOUS
  <2>2. run' = [run EXCEPT !.timedOut = b] BY <2>1 DEF WaitEnds
  <2> QED BY <1>0, <1>2, <2>2 DEF Advances, WaitEnds, kernel, fixed, Locals
<1>4. Placed' BY <1>0, <1>2 DEF Placed, WaitEnds, kernel, fixed
<1>5. Scanned' BY <1>2 DEF Scanned
<1>6. Shown' BY <1>0, <1>1, <1>2, <1>k, Fading DEF Shown, Placed, Tame, WaitEnds, kernel, fixed, history
<1> QED BY <1>1, <1>2, <1>3, <1>4, <1>5, <1>6, <1>k, QuietKeeps

\* The last loop ends with the deadline.
LEMMA LastChanceKeeps ==
    ASSUME IInv, LastChance
    PROVE  IInv'
<1> USE DEF IInv
<1>0. h \in Harness /\ run \in Locals /\ late \in BOOLEAN /\ signals \in 0..MaxSignals
      /\ kind \in {"pinned", "unpinned", "plain"}
  BY DEF TypeOK
<1>k. UNCHANGED <<clock, history>> BY DEF LastChance, kernel, history
<1>1. Tame BY StillTame DEF LastChance, kernel
<1>2. h' \in Harness /\ Relisted /\ h'.pc = "reap" /\ h'.phase = h.phase
  <2>1. "reap" \in Position BY DEF Position
  <2> QED BY <1>0, <2>1, GoesTyped DEF LastChance
<1>3. Advances BY <1>0, <1>2 DEF Advances, LastChance, kernel, fixed, Locals
<1>4. Placed' BY <1>0, <1>2 DEF Placed, LastChance, kernel, fixed
<1>5. Scanned' BY <1>2 DEF Scanned
<1>6. Shown' BY <1>0, <1>1, <1>2, <1>k, Fading DEF Shown, Placed, Tame, LastChance, kernel, fixed, history
<1> QED BY <1>1, <1>2, <1>3, <1>4, <1>5, <1>6, <1>k, QuietKeeps

\* The grace period ends between two looks.
LEMMA GraceOverKeeps ==
    ASSUME IInv, GraceOver
    PROVE  IInv'
<1> USE DEF IInv
<1>0. h \in Harness /\ run \in Locals /\ late \in BOOLEAN /\ signals \in 0..MaxSignals
      /\ kind \in {"pinned", "unpinned", "plain"}
  BY DEF TypeOK
<1>k. UNCHANGED <<clock, history>> BY DEF GraceOver, kernel, history
<1>1. Tame BY StillTame DEF GraceOver, kernel
<1>2. h' \in Harness /\ Relisted /\ h'.pc = "list" /\ h'.phase = "kill"
  <2>1. "list" \in Position /\ "kill" \in Phase BY <1>0 DEF Position, Phase, GraceOver
  <2>2. h' = At("list", "kill") BY <1>0 DEF GraceOver, AfterSignals, Check, Checks, Phase, Harness
  <2> QED BY <2>1, <2>2, AtTyped
<1>3. Advances BY <1>0, <1>2 DEF Advances, GraceOver, kernel, fixed, Locals
<1>4. Placed' BY <1>0, <1>2 DEF Placed, GraceOver, kernel, fixed
<1>5. Scanned' BY <1>2 DEF Scanned
<1>6. Shown' BY <1>0, <1>1, <1>2, <1>k, Fading DEF Shown, Placed, Tame, GraceOver, kernel, fixed, history
<1> QED BY <1>1, <1>2, <1>3, <1>4, <1>5, <1>6, <1>k, QuietKeeps

\* A round of signals ends, and /proc is listed again.
LEMMA SignalsSentKeeps ==
    ASSUME IInv, SignalsSent
    PROVE  IInv'
<1> USE DEF IInv
<1>0. h \in Harness /\ run \in Locals /\ late \in BOOLEAN /\ signals \in 0..MaxSignals
      /\ kind \in {"pinned", "unpinned", "plain"}
  BY DEF TypeOK
<1>k. UNCHANGED <<clock, history>> BY DEF SignalsSent, kernel, history
<1>1. Tame BY StillTame DEF SignalsSent, kernel
<1>2. h' \in Harness /\ Relisted /\ h'.pc = "list" /\ h'.phase = (IF h.phase = "term" THEN "grace" ELSE "last")
  <2>1. "list" \in Position /\ (IF h.phase = "term" THEN "grace" ELSE "last") \in Phase BY <1>0 DEF Position, Phase, SignalsSent
  <2>2. h' = At("list", (IF h.phase = "term" THEN "grace" ELSE "last")) BY <1>0 DEF SignalsSent, AfterSignals, Check, Checks, Phase, Harness
  <2> QED BY <2>1, <2>2, AtTyped
<1>3. Advances BY <1>0, <1>2 DEF Advances, SignalsSent, kernel, fixed, Locals
<1>4. Placed' BY <1>0, <1>2 DEF Placed, SignalsSent, kernel, fixed
<1>5. Scanned' BY <1>2 DEF Scanned
<1>6. Shown' BY <1>0, <1>1, <1>2, <1>k, Fading DEF Shown, Placed, Tame, SignalsSent, kernel, fixed, history
<1> QED BY <1>1, <1>2, <1>3, <1>4, <1>5, <1>6, <1>k, QuietKeeps

\* A scan that fails shows nothing.
LEMMA UnreadableKeeps ==
    ASSUME IInv, Unreadable
    PROVE  IInv'
<1> USE DEF IInv
<1>0. h \in Harness /\ run \in Locals /\ late \in BOOLEAN /\ signals \in 0..MaxSignals
      /\ kind \in {"pinned", "unpinned", "plain"}
  BY DEF TypeOK
<1>k. UNCHANGED <<clock, killedAt>> /\ ScanDone BY DEF Unreadable, ScanFails, kernel
<1>1. Tame BY StillTame DEF Unreadable, kernel
<1>2. h' \in Harness /\ Relisted /\ h'.pc = "list" /\ h'.phase = (IF Checks THEN IF h.phase = "first" THEN "term" ELSE IF h.phase = "grace" THEN "grace" ELSE "rekill" ELSE IF h.phase = "term" THEN "grace" ELSE "last")
  <2>1. "list" \in Position /\ (IF Checks THEN IF h.phase = "first" THEN "term" ELSE IF h.phase = "grace" THEN "grace" ELSE "rekill" ELSE IF h.phase = "term" THEN "grace" ELSE "last") \in Phase BY <1>0 DEF Position, Phase, Unreadable
  <2>2. h' = At("list", (IF Checks THEN IF h.phase = "first" THEN "term" ELSE IF h.phase = "grace" THEN "grace" ELSE "rekill" ELSE IF h.phase = "term" THEN "grace" ELSE "last")) BY <1>0 DEF Unreadable, ScanFails, AfterSignals, Check, Checks, Phase, Harness
  <2> QED BY <2>1, <2>2, AtTyped
<1>3. Advances BY <1>0, <1>2 DEF Advances, Unreadable, kernel, fixed, Locals
<1>4. Placed' BY <1>0, <1>2 DEF Placed, Unreadable, kernel, fixed
<1>5. Scanned' BY <1>2 DEF Scanned
<1>6. Shown' BY <1>0, <1>2 DEF Shown, Unreadable, kernel, fixed
<1> QED BY <1>1, <1>2, <1>3, <1>4, <1>5, <1>6, <1>k, ForgettingKeeps

\* The adapter is reaped behind its session, which stays as empty as it was.
LEMMA ReapLeaderKeeps ==
    ASSUME IInv, ReapLeader
    PROVE  IInv'
<1> USE DEF IInv
<1>0. h \in Harness /\ run \in Locals /\ late \in BOOLEAN /\ signals \in 0..MaxSignals
      /\ kind \in {"pinned", "unpinned", "plain"}
  BY DEF TypeOK
<1>k. UNCHANGED <<clock, history>> BY DEF ReapLeader, kernel, history
<1>1. Tame BY ReapTame DEF ReapLeader, PerhapsReap, ReapIfTerminal
<1>2. h' \in Harness /\ Relisted /\ h'.pc = "return" /\ h'.phase = h.phase
  <2>1. "return" \in Position BY DEF Position
  <2> QED BY <1>0, <2>1, GoesTyped DEF ReapLeader
<1>3. Advances BY <1>0, <1>2 DEF Advances, ReapLeader, kernel, fixed, Locals
<1>4. Placed' BY <1>0, <1>2 DEF Placed, ReapLeader, kernel, fixed
<1>5. Scanned' BY <1>2 DEF Scanned
<1>6. Shown' BY <1>0, <1>1, <1>2, <1>k, Fading DEF Shown, Placed, Tame, ReapLeader, kernel, fixed, history
<1> QED BY <1>1, <1>2, <1>3, <1>4, <1>5, <1>6, <1>k, QuietKeeps

\* A session is confirmed by the scan that showed it clean.
LEMMA ReturnKeeps ==
    ASSUME IInv, Return
    PROVE  IInv'
<1> USE DEF IInv
<1>0. h \in Harness /\ run \in Locals /\ late \in BOOLEAN /\ signals \in 0..MaxSignals
      /\ kind \in {"pinned", "unpinned", "plain"}
  BY DEF TypeOK
<1>k. UNCHANGED <<clock, history>> BY DEF Return, kernel, history
<1>1. Tame BY StillTame DEF Return, kernel
<1>2. h' \in Harness /\ Relisted /\ h'.pc = "finish" /\ h'.phase = h.phase
  <2>1. "finish" \in Position BY DEF Position
  <2> QED BY <1>0, <2>1, GoesTyped DEF Return
<1>3. Advances
  <2>1. PICK b \in BOOLEAN : b = (h.phase = "clean") OBVIOUS
  <2>2. run' = [run EXCEPT !.confirmed = b] BY <2>1 DEF Return
  <2> QED BY <1>0, <1>2, <2>2 DEF Advances, Return, kernel, fixed, Locals
<1>4. Placed' BY <1>0, <1>2 DEF Placed, Return, kernel, fixed
<1>5. Scanned' BY <1>2 DEF Scanned
<1>6. Shown' 
  <2>1. kind = "pinned" /\ h.phase = "clean" => Emptied' BY <1>1, <1>k, Fading DEF Return, Shown, Tame, history
  <2>2. run'.confirmed <=> h.phase = "clean" BY <1>0 DEF Return, Locals
  <2> QED BY <1>2, <2>1, <2>2 DEF Shown, Return, fixed
<1> QED BY <1>1, <1>2, <1>3, <1>4, <1>5, <1>6, <1>k, QuietKeeps

\* The number of an unpinned adapter is freed once it has exited.
LEMMA GoneKeeps ==
    ASSUME IInv, Gone
    PROVE  IInv'
<1> USE DEF IInv
<1>0. h \in Harness /\ run \in Locals /\ late \in BOOLEAN /\ signals \in 0..MaxSignals
      /\ kind \in {"pinned", "unpinned", "plain"}
  BY DEF TypeOK
<1>k. UNCHANGED <<clock, history>> BY DEF Gone, kernel, history
<1>1. Tame BY ReapTame DEF Gone, PerhapsReap, ReapIfTerminal
<1>2. h' \in Harness /\ Relisted /\ h'.pc = "probe" /\ h'.phase = h.phase
  <2>1. "probe" \in Position BY DEF Position
  <2> QED BY <1>0, <2>1, GoesTyped DEF Gone
<1>3. Advances BY <1>0, <1>2 DEF Advances, Gone, kernel, fixed, Locals
<1>4. Placed' BY <1>0, <1>2 DEF Placed, Gone, kernel, fixed
<1>5. Scanned' BY <1>2 DEF Scanned
<1>6. Shown' BY <1>0, <1>1, <1>2, <1>k, Fading DEF Shown, Placed, Tame, Gone, kernel, fixed, history
<1> QED BY <1>1, <1>2, <1>3, <1>4, <1>5, <1>6, <1>k, QuietKeeps

\* The adapter is reaped, or given up.
LEMMA CollectKeeps ==
    ASSUME IInv, Collect
    PROVE  IInv'
<1> USE DEF IInv
<1>0. h \in Harness /\ run \in Locals /\ late \in BOOLEAN /\ signals \in 0..MaxSignals
      /\ kind \in {"pinned", "unpinned", "plain"}
  BY DEF TypeOK
<1>k. UNCHANGED <<clock, history>> BY DEF Collect, kernel, history
<1>1. Tame BY ReapTame DEF Collect, PerhapsReap, ReapIfTerminal
<1>2. h' \in Harness /\ Relisted /\ h'.pc = "finish" /\ h'.phase = h.phase
  <2>1. "finish" \in Position BY DEF Position
  <2> QED BY <1>0, <2>1, GoesTyped DEF Collect
<1>3. Advances BY <1>0, <1>2 DEF Advances, Collect, kernel, fixed, Locals
<1>4. Placed' BY <1>0, <1>2 DEF Placed, Collect, kernel, fixed
<1>5. Scanned' BY <1>2 DEF Scanned
<1>6. Shown' BY <1>0, <1>1, <1>2, <1>k, Fading DEF Shown, Placed, Tame, Collect, kernel, fixed, history
<1> QED BY <1>1, <1>2, <1>3, <1>4, <1>5, <1>6, <1>k, QuietKeeps

\* The verdict on the driver changes no process.
LEMMA FinishKeeps ==
    ASSUME IInv, Finish
    PROVE  IInv'
<1> USE DEF IInv
<1>0. h \in Harness /\ run \in Locals /\ late \in BOOLEAN /\ signals \in 0..MaxSignals
      /\ kind \in {"pinned", "unpinned", "plain"}
  BY DEF TypeOK
<1>k. UNCHANGED <<clock, history>> BY DEF Finish, kernel, history
<1>1. Tame BY StillTame DEF Finish, kernel
<1>2. h' \in Harness /\ Relisted /\ h'.pc = "done" /\ h'.phase = "first"
  <2>1. "done" \in Position /\ "first" \in Phase BY <1>0 DEF Position, Phase, Finish
  <2>2. h' = At("done", "first") BY <1>0 DEF Finish, AfterSignals, Check, Checks, Phase, Harness
  <2> QED BY <2>1, <2>2, AtTyped
<1>3. Advances
  <2>1. PICK o \in {"raised", "timeout", "infra", "graded"} : run' = [run EXCEPT !.outcome = o]
    BY DEF Finish, Outcomes
  <2> QED BY <1>0, <1>2, <2>1 DEF Advances, Finish, kernel, fixed, Locals
<1>4. Placed' BY <1>0, <1>2 DEF Placed, Finish, kernel, fixed
<1>5. Scanned' BY <1>2 DEF Scanned
<1>6. Shown' BY <1>0, <1>1, <1>2, <1>k, Fading DEF Shown, Placed, Tame, Finish, kernel, fixed, history
<1> QED BY <1>1, <1>2, <1>3, <1>4, <1>5, <1>6, <1>k, QuietKeeps

\* The deadline passes while a thread waits for it.
LEMMA HardDeadlineKeeps ==
    ASSUME IInv, HardDeadline
    PROVE  IInv'
<1> USE DEF IInv
<1>0. h \in Harness /\ run \in Locals /\ late \in BOOLEAN /\ signals \in 0..MaxSignals
      /\ kind \in {"pinned", "unpinned", "plain"} /\ os \in [Pid -> Process]
  BY DEF TypeOK
<1>1. Tame BY StillTame DEF HardDeadline
<1>2. Relisted BY DEF Relisted, HardDeadline
<1>3. Advances BY <1>0 DEF Advances, HardDeadline
<1>4. Placed' BY <1>0 DEF Placed, HardDeadline
<1>5. Scanned' BY <1>0 DEF Scanned, HardDeadline, kernel, history, Checks, GroupListed, Live
<1>6. Shown' BY <1>0, <1>1, Fading DEF Shown, HardDeadline, Tame, history
<1>7. UNCHANGED history BY DEF HardDeadline
<1> QED BY <1>1, <1>2, <1>3, <1>4, <1>5, <1>6, <1>7, QuietKeeps

\* /proc lists whatever runs, for an adapter that is not reaped.
LEMMA ListKeeps ==
    ASSUME IInv, List
    PROVE  IInv'
<1> USE DEF IInv
<1>0. h \in Harness /\ run \in Locals /\ late \in BOOLEAN /\ signals \in 0..MaxSignals
      /\ kind \in {"pinned", "unpinned", "plain"} /\ os \in [Pid -> Process]
  BY DEF TypeOK
<1>1. Tame BY StillTame DEF List
<1>2. /\ h' \in Harness /\ h'.pc = "read" /\ h'.phase = h.phase
      /\ h'.names = {p \in Pid : Busy(p)} /\ h'.seen = {} /\ h'.todo = {} /\ h'.fd = Nil
  BY <1>0 DEF List, At, Harness, Position
<1>3. Relisted BY <1>2 DEF Relisted
<1>4. Advances BY <1>0, <1>2 DEF Advances, List, kernel, fixed
<1>5. kind = "pinned" /\ ~reaped BY <1>0 DEF Placed, List
<1>6. Placed' BY <1>0, <1>2, <1>5 DEF Placed, List, fixed
<1>7. Scanned'
  <2>1. \A p \in Pid : Live(p)' => p \in h'.names BY <1>2 DEF Live, Busy, List, kernel
  <2> QED BY <2>1 DEF Scanned
<1>8. Shown' BY <1>0, <1>2 DEF Shown, List, fixed
<1>9. Aged' BY <1>5 DEF Aged, List, kernel, TypeOK
<1>10. KillReachesGroup' BY DEF KillReachesGroup, List
<1>11. listedAt' \in 0..MaxBorn /\ killedAt' \in 0..MaxBorn /\ unread' \subseteq 0..MaxBorn
  BY ConstantsAssumption DEF List, TypeOK
<1> QED BY <1>1, <1>3, <1>4, <1>6, <1>7, <1>8, <1>9, <1>10, <1>11, HarnessKeeps

\* A member that is read is a descendant; it stays to be read, is on the list,
\* or decides the check.
LEMMA ReadKeeps ==
    ASSUME IInv, NEW p \in Pid, Read(p)
    PROVE  IInv'
<1> USE DEF IInv
<1>0. h \in Harness /\ run \in Locals /\ late \in BOOLEAN /\ signals \in 0..MaxSignals
      /\ kind \in {"pinned", "unpinned", "plain"} /\ os \in [Pid -> Process]
  BY DEF TypeOK
<1>1. Tame BY StillTame DEF Read
<1>2. UNCHANGED <<os, clock, kind, late, signals, run, reaped, killedAt>> /\ h.pc = "read"
  BY DEF Read, kernel, fixed
<1>3. kind = "pinned" /\ ~reaped BY <1>0, <1>2 DEF Placed
<1>4. CASE Checks /\ InSession(p) /\ ~TerminalLeader(p)
  <2>1. PICK phase \in Phase : phase \notin {"clean", "last"} /\ h' = At("list", phase)
    BY <1>0, <1>4 DEF Read, ScanFails, Check, Checks, Phase
  <2>2. "list" \in Position BY DEF Position
  <2>3. h' \in Harness /\ Relisted /\ h'.pc = "list" /\ h'.phase = phase BY <2>1, <2>2, AtTyped
  <2>4. Advances BY <1>0, <1>2, <2>3 DEF Advances
  <2>5. Placed' BY <1>2, <1>3, <2>3 DEF Placed
  <2>6. Scanned' BY <2>3 DEF Scanned
  <2>7. Shown' BY <1>0, <1>2, <2>3 DEF Shown
  <2>8. ScanDone BY <1>4 DEF Read, ScanFails
  <2> QED BY <1>1, <1>2, <2>3, <2>4, <2>5, <2>6, <2>7, <2>8, ForgettingKeeps
<1>5. CASE ~(Checks /\ InSession(p) /\ ~TerminalLeader(p))
  <2>0. UNCHANGED history BY <1>2, <1>5 DEF Read, history
  <2>1. PICK new : /\ new = IF ~Checks /\ InSession(p) /\ Live(p)
                            THEN h.seen \cup {<<p, os[p]>>} ELSE h.seen
                   /\ h' = [h EXCEPT !.names = @ \ {p}, !.seen = new]
    BY <1>5 DEF Read
  <2>2. new \in SUBSET Stat BY <1>0, <2>1 DEF Harness, Stat
  <2>3. /\ h' \in Harness /\ h'.pc = "read" /\ h'.phase = h.phase /\ h'.names = h.names \ {p}
        /\ h'.seen = new /\ h'.todo = h.todo /\ h'.fd = h.fd
    BY <1>0, <1>2, <2>1, <2>2 DEF Harness
  <2>4. InSession(p) => os[p].kin BY <1>3 DEF InSession, Anchored
  <2>5. Relisted
    <3>1. PICK m \in Stat : m = <<p, os[p]>> BY <1>0 DEF Stat
    <3>2. InSession(p) => Kept(m) BY <1>0, <2>4, <3>1 DEF Kept, Aged
    <3>3. InSession(p) => Kept(m)' BY <3>1, <3>2, <1>1, FadingKept DEF Tame
    <3>4. \A n \in new : n \in h.seen \/ (n = m /\ InSession(p)) BY <2>1, <3>1
    <3>5. \A n \in new : n \in h.seen \/ Kept(n)' BY <3>3, <3>4 DEF Kept
    <3> QED BY <2>3, <3>5 DEF Relisted
  <2>6. Advances BY <1>0, <1>2, <2>3 DEF Advances
  <2>7. Placed' BY <1>2, <1>3, <2>3 DEF Placed
  <2>8. Scanned'
    <3>1. Checks => ~(Live(p) /\ os[p].sess = Leader)
      BY <1>5 DEF InSession, TerminalLeader, Live, Busy, Zombie
    <3>2. ~Checks /\ Live(p) /\ os[p].grp = Leader => \E m \in new : m[2].grp = Leader
      <4> SUFFICES ASSUME ~Checks, Live(p), os[p].grp = Leader PROVE <<p, os[p]>> \in new
        OBVIOUS
      <4>1. InSession(p) BY <1>3 DEF InSession, Anchored, Live, Busy
      <4> QED BY <2>1, <4>1
    <3>3. GroupListed => \E m \in new : m[2].grp = Leader BY <2>1 DEF GroupListed
    <3>4. Checks' <=> Checks BY <2>3 DEF Checks
    <3>5. ASSUME Checks, NEW q \in Pid, Live(q)', os'[q].kin, os'[q].sess = Leader,
                 os'[q].born <= listedAt'
          PROVE  q \in h'.names \/ os'[q].born \in unread'
      <4>1. Live(q) /\ os[q].kin /\ os[q].sess = Leader /\ os[q].born <= listedAt
        BY <1>2, <2>0, <3>5 DEF Live, history
      <4>2. unread' = unread BY <2>0 DEF history
      <4> QED BY <4>2, <1>2, <2>3, <3>1, <3>5, <4>1 DEF Scanned
    <3>6. ASSUME ~Checks, NEW q \in Pid, Live(q)', os'[q].kin, os'[q].grp = Leader,
                 os'[q].born <= listedAt'
          PROVE  \/ q \in h'.names \/ os'[q].born \in unread'
                 \/ \E m \in new : m[2].grp = Leader
      <4>1. Live(q) /\ os[q].kin /\ os[q].grp = Leader /\ os[q].born <= listedAt
        BY <1>2, <2>0, <3>6 DEF Live, history
      <4>2. q \in h.names \/ GroupListed \/ os[q].born \in unread BY <1>2, <3>6, <4>1 DEF Scanned
      <4>3. unread' = unread BY <2>0 DEF history
      <4> QED BY <1>2, <2>3, <3>2, <3>3, <3>6, <4>1, <4>2, <4>3
    <3>7. GroupListed' <=> \E m \in new : m[2].grp = Leader BY <2>3 DEF GroupListed
    <3> QED BY <3>4, <3>5, <3>6, <3>7 DEF Scanned
  <2>9. Shown' BY <1>0, <1>2, <2>3 DEF Shown
  <2> QED BY <1>1, <2>0, <2>3, <2>5, <2>6, <2>7, <2>8, <2>9, QuietKeeps
<1> QED BY <1>4, <1>5

\* A member whose stat cannot be read is remembered as such.
LEMMA OverlookKeeps ==
    ASSUME IInv, NEW p \in Pid, Overlook(p)
    PROVE  IInv'
<1> USE DEF IInv
<1>0. h \in Harness /\ run \in Locals /\ late \in BOOLEAN /\ signals \in 0..MaxSignals
      /\ kind \in {"pinned", "unpinned", "plain"} /\ os \in [Pid -> Process]
  BY DEF TypeOK
<1>1. Tame BY StillTame DEF Overlook
<1>2. UNCHANGED <<os, clock, kind, late, signals, run, reaped, listedAt, killedAt>> /\ h.pc = "read"
  BY DEF Overlook, kernel, fixed
<1>3. /\ h' \in Harness /\ h'.pc = "read" /\ h'.phase = h.phase /\ h'.names = h.names \ {p}
      /\ h'.seen = h.seen /\ h'.todo = h.todo /\ h'.fd = h.fd
  BY <1>0, <1>2 DEF Overlook, Harness
<1>4. unread' = unread \cup {os[p].born} BY DEF Overlook
<1>5. Relisted BY <1>3 DEF Relisted
<1>6. Advances BY <1>0, <1>2, <1>3 DEF Advances
<1>7. Placed' BY <1>2, <1>3 DEF Placed
<1>8. Scanned'
  <2>1. (Checks' <=> Checks) /\ (GroupListed' <=> GroupListed) BY <1>3 DEF Checks, GroupListed
  <2>2. \A q \in Pid : (Live(q)' <=> Live(q)) BY <1>2 DEF Live
  <2>3. \A q \in h.names : q \in h'.names \/ os[q].born \in unread' BY <1>3, <1>4
  <2> QED BY <1>2, <1>4, <2>1, <2>2, <2>3 DEF Scanned
<1>9. Shown' BY <1>0, <1>2, <1>3 DEF Shown
<1>10. Aged' /\ KillReachesGroup' BY <1>1, <1>2, Fading DEF Tame
<1>11. listedAt' \in 0..MaxBorn /\ killedAt' \in 0..MaxBorn /\ unread' \subseteq 0..MaxBorn
  BY <1>0, <1>2, <1>4 DEF TypeOK, Process
<1> QED BY <1>1, <1>5, <1>6, <1>7, <1>8, <1>9, <1>10, <1>11, HarnessKeeps

\* A scan that read every name and found no other member shows a session that
\* has nobody in it from before.
LEMMA CleanKeeps ==
    ASSUME IInv, Clean
    PROVE  IInv'
<1> USE DEF IInv
<1>0. h \in Harness /\ run \in Locals /\ late \in BOOLEAN /\ signals \in 0..MaxSignals
      /\ kind \in {"pinned", "unpinned", "plain"} /\ os \in [Pid -> Process]
  BY DEF TypeOK
<1>1. Tame BY StillTame DEF Clean
<1>2. UNCHANGED <<os, clock, kind, late, signals, run, reaped, history>> /\ h.pc = "read"
  BY DEF Clean, kernel, fixed
<1>3. kind = "pinned" /\ ~reaped BY <1>0, <1>2 DEF Placed
<1>4. h' \in Harness /\ Relisted /\ h'.pc = "reap" /\ h'.phase = "clean"
  <2>1. "reap" \in Position /\ "clean" \in Phase BY DEF Position, Phase
  <2>2. h' = At("reap", "clean") BY DEF Clean, Check
  <2> QED BY <2>1, <2>2, AtTyped
<1>5. Advances BY <1>0, <1>2, <1>4 DEF Advances
<1>6. Placed' BY <1>2, <1>3, <1>4 DEF Placed
<1>7. Scanned' BY <1>4 DEF Scanned
<1>8. Shown'
  <2>1. Emptied BY <1>0, <1>2 DEF Clean, Scanned, Emptied, Process, TypeOK
  <2>2. Emptied' BY <1>1, <1>2, <2>1, Fading DEF Tame, history
  <2> QED BY <1>0, <1>2, <1>4, <2>2 DEF Shown
<1> QED BY <1>1, <1>2, <1>4, <1>5, <1>6, <1>7, <1>8, QuietKeeps

\* The group is signalled while its leader anchors the number; a round of
\* SIGKILL then ends all who were in it when /proc was listed.
LEMMA SignalGroupKeeps ==
    ASSUME IInv, SignalGroup
    PROVE  IInv'
<1> USE DEF IInv
<1>0. h \in Harness /\ run \in Locals /\ late \in BOOLEAN /\ signals \in 0..MaxSignals
      /\ kind \in {"pinned", "unpinned", "plain"} /\ os \in [Pid -> Process]
  BY DEF TypeOK
<1>1. UNCHANGED <<clock, kind, late, signals, run, reaped>> /\ listedAt' = 0 /\ h.pc = "read"
  BY DEF SignalGroup, ScanDone, fixed
<1>2. kind = "pinned" /\ ~reaped BY <1>0, <1>1 DEF Placed
<1>3. /\ Tame
      /\ Lethal /\ GroupListed => \A p \in GroupOf(Leader) : ~Live(p)'
  <2>1. CASE GroupListed
    <3>1. \E b \in BOOLEAN : (b <=> Lethal) /\ Deliver(b, GroupOf(Leader))
      <4>1. Deliver(Lethal, GroupOf(Leader)) BY <2>1 DEF SignalGroup
      <4>2. CASE Lethal
        <5>1. Deliver(TRUE, GroupOf(Leader)) BY <4>1, <4>2 DEF Deliver
        <5> QED BY <4>2, <5>1
      <4>3. CASE ~Lethal
        <5>1. Deliver(FALSE, GroupOf(Leader)) BY <4>1, <4>3 DEF Deliver
        <5> QED BY <4>3, <5>1
      <4> QED BY <4>2, <4>3
    <3>2. \A p \in GroupOf(Leader) : os[p].kin BY <1>2 DEF GroupOf, Anchored, Live, Busy
    <3>3. GroupOf(Leader) \in SUBSET Pid /\ \A p \in GroupOf(Leader) : Live(p) BY DEF GroupOf
    <3> QED BY <1>1, <3>1, <3>2, <3>3, DeliverTame
  <2>2. CASE ~GroupListed BY <1>1, <2>2, StillTame DEF SignalGroup, Silence, kernel
  <2> QED BY <2>1, <2>2
<1>4. /\ h' \in Harness /\ h'.pc = "signal" /\ h'.phase = h.phase
      /\ h'.seen = {} /\ h'.todo = h.seen /\ h'.fd = h.fd
  BY <1>0 DEF SignalGroup, Harness, Position
<1>5. Relisted BY <1>4 DEF Relisted
<1>6. Advances BY <1>0, <1>1, <1>4 DEF Advances
<1>7. Placed' BY <1>1, <1>2, <1>4 DEF Placed, SignalGroup, Checks
<1>8. Scanned' BY <1>4 DEF Scanned
<1>9. Shown' BY <1>0, <1>1, <1>4 DEF Shown
<1>10. \/ killedAt' = killedAt
       \/ Lethal /\ killedAt' = listedAt /\ (GroupListed \/ unread = {})
  BY DEF SignalGroup
<1>11. Aged'
  <2>1. CASE killedAt' = killedAt BY <1>1, <1>3, <2>1, Fading DEF Tame
  <2>2. CASE killedAt' = listedAt
    <3>1. ~reaped' BY <1>1, <1>2
    <3>2. clock \in Nat /\ listedAt <= clock BY ConstantsAssumption DEF TypeOK, Aged
    <3> QED BY <1>1, <1>3, <2>2, <3>1, <3>2 DEF Aged, Tame, Fades
  <2> QED BY <1>10, <2>1, <2>2
<1>12. KillReachesGroup'
  <2>1. CASE killedAt' = killedAt BY <1>3, <2>1, Fading DEF Tame
  <2>2. CASE Lethal /\ killedAt' = listedAt /\ (GroupListed \/ unread = {})
    <3> SUFFICES ASSUME NEW p \in Pid, Live(p)', os'[p].kin, os'[p].grp = Leader
                 PROVE  os'[p].born > listedAt
      BY <2>2 DEF KillReachesGroup
    <3>1. /\ Live(p) /\ os[p].kin /\ os[p].grp = Leader /\ os[p].born = os'[p].born
          /\ os[p] \in Process
      BY <1>0, <1>2, <1>3 DEF Tame, Fades, Again, Live, Busy
    <3>2. ~GroupListed BY <1>3, <2>2, <3>1 DEF GroupOf
    <3>3. p \notin h.names /\ ~Checks BY DEF SignalGroup
    <3>4. ~(os[p].born <= listedAt) BY <1>1, <2>2, <3>1, <3>2, <3>3 DEF Scanned
    <3> QED BY <3>1, <3>4 DEF Process, TypeOK
  <2> QED BY <1>10, <2>1, <2>2
<1>13. listedAt' \in 0..MaxBorn /\ killedAt' \in 0..MaxBorn /\ unread' \subseteq 0..MaxBorn
  BY <1>1, <1>10, ConstantsAssumption DEF TypeOK, SignalGroup, ScanDone
<1> QED BY <1>3, <1>5, <1>6, <1>7, <1>8, <1>9, <1>11, <1>12, <1>13, HarnessKeeps

\* A pidfd names the process that was listed.
LEMMA OpenPidFdKeeps ==
    ASSUME IInv, NEW m \in h.todo, OpenPidFd(m)
    PROVE  IInv'
<1> USE DEF IInv
<1>0. h \in Harness /\ run \in Locals /\ late \in BOOLEAN /\ signals \in 0..MaxSignals
      /\ kind \in {"pinned", "unpinned", "plain"} /\ os \in [Pid -> Process]
  BY DEF TypeOK
<1>1. Tame BY StillTame DEF OpenPidFd
<1>2. UNCHANGED <<os, clock, kind, late, signals, run, reaped, history>> /\ h.pc = "signal"
  BY DEF OpenPidFd, kernel, fixed
<1>3. m \in Stat /\ <<m[1], os[m[1]]>> \in Stat BY <1>0 DEF Harness, Stat
<1>4. PICK f : /\ f = IF SameProcess(m) THEN <<m[1], os[m[1]]>> ELSE Nil
               /\ h' = [h EXCEPT !.todo = @ \ {m}, !.fd = f]
  BY DEF OpenPidFd
<1>5. /\ h' \in Harness /\ h'.pc = "signal" /\ h'.phase = h.phase
      /\ h'.seen = h.seen /\ h'.todo = h.todo \ {m} /\ h'.fd = f
  <2>1. f \in Stat \cup {Nil} BY <1>3, <1>4
  <2> QED BY <1>0, <1>2, <1>4, <2>1 DEF Harness
<1>6. Relisted
  <2>1. ASSUME f # Nil PROVE Kept(h.fd)'
    <3>1. SameProcess(m) BY <1>4, <2>1
    <3>2. f = m BY <1>3, <1>4, <3>1 DEF SameProcess, Stat
    <3>3. Kept(m)' BY <1>1, <1>3, FadingKept DEF Listed, Tame
    <3> QED BY <1>5, <3>2, <3>3 DEF Kept
  <2> QED BY <1>5, <2>1 DEF Relisted
<1>7. Advances BY <1>0, <1>2, <1>5 DEF Advances
<1>8. Placed' BY <1>2, <1>5 DEF Placed
<1>9. Scanned' BY <1>5 DEF Scanned
<1>10. Shown' BY <1>0, <1>2, <1>5 DEF Shown
<1> QED BY <1>1, <1>2, <1>6, <1>7, <1>8, <1>9, <1>10, QuietKeeps

\* A process that cannot be opened is left out.
LEMMA SkipMemberKeeps ==
    ASSUME IInv, NEW m \in h.todo, SkipMember(m)
    PROVE  IInv'
<1> USE DEF IInv
<1>0. h \in Harness /\ run \in Locals /\ late \in BOOLEAN /\ signals \in 0..MaxSignals
      /\ kind \in {"pinned", "unpinned", "plain"} /\ os \in [Pid -> Process]
  BY DEF TypeOK
<1>1. Tame BY StillTame DEF SkipMember
<1>2. UNCHANGED <<os, clock, kind, late, signals, run, reaped, history>> /\ h.pc = "signal"
  BY DEF SkipMember, kernel, fixed
<1>3. /\ h' \in Harness /\ h'.pc = "signal" /\ h'.phase = h.phase
      /\ h'.seen = h.seen /\ h'.todo = h.todo \ {m} /\ h'.fd = h.fd
  BY <1>0, <1>2 DEF SkipMember, Harness
<1>4. Relisted BY <1>3 DEF Relisted
<1>5. Advances BY <1>0, <1>2, <1>3 DEF Advances
<1>6. Placed' BY <1>2, <1>3 DEF Placed
<1>7. Scanned' BY <1>3 DEF Scanned
<1>8. Shown' BY <1>0, <1>2, <1>3 DEF Shown
<1> QED BY <1>1, <1>2, <1>4, <1>5, <1>6, <1>7, <1>8, QuietKeeps

\* The process behind a pidfd was a descendant when it was listed and is the
\* same one still.
LEMMA SendPidFdKeeps ==
    ASSUME IInv, SendPidFd
    PROVE  IInv'
<1> USE DEF IInv
<1>0. h \in Harness /\ run \in Locals /\ late \in BOOLEAN /\ signals \in 0..MaxSignals
      /\ kind \in {"pinned", "unpinned", "plain"} /\ os \in [Pid -> Process]
  BY DEF TypeOK
<1>1. UNCHANGED <<clock, kind, late, signals, run, reaped, history>> /\ h.pc = "signal"
  BY DEF SendPidFd, fixed
<1>2. h.fd \in Stat /\ h.fd # Nil BY <1>0 DEF SendPidFd, Harness
<1>3. Tame
  <2>1. CASE Live(h.fd[1]) /\ os[h.fd[1]].born = h.fd[2].born
    <3>1. \E b \in BOOLEAN : (b <=> Lethal) /\ Deliver(b, {h.fd[1]})
      <4>1. Deliver(Lethal, {h.fd[1]}) BY <2>1 DEF SendPidFd
      <4>2. CASE Lethal
        <5>1. Deliver(TRUE, {h.fd[1]}) BY <4>1, <4>2 DEF Deliver
        <5> QED BY <4>2, <5>1
      <4>3. CASE ~Lethal
        <5>1. Deliver(FALSE, {h.fd[1]}) BY <4>1, <4>3 DEF Deliver
        <5> QED BY <4>3, <5>1
      <4> QED BY <4>2, <4>3
    <3>2. os[h.fd[1]].kin BY <1>2, <2>1 DEF Listed, Kept, Live, Busy
    <3>3. {h.fd[1]} \in SUBSET Pid BY <1>2 DEF Stat
    <3> QED BY <1>1, <2>1, <3>1, <3>2, <3>3, DeliverTame
  <2>2. CASE ~(Live(h.fd[1]) /\ os[h.fd[1]].born = h.fd[2].born)
    BY <1>1, <2>2, StillTame DEF SendPidFd, Silence, kernel
  <2> QED BY <2>1, <2>2
<1>4. /\ h' \in Harness /\ h'.pc = "signal" /\ h'.phase = h.phase
      /\ h'.seen = h.seen /\ h'.todo = h.todo /\ h'.fd = Nil
  BY <1>0, <1>1 DEF SendPidFd, Harness
<1>5. Relisted BY <1>4 DEF Relisted
<1>6. Advances BY <1>0, <1>1, <1>4 DEF Advances
<1>7. Placed' BY <1>1, <1>4 DEF Placed
<1>8. Scanned' BY <1>4 DEF Scanned
<1>9. Shown' BY <1>0, <1>1, <1>4 DEF Shown
<1> QED BY <1>1, <1>3, <1>5, <1>6, <1>7, <1>8, <1>9, QuietKeeps

\* The number of an unpinned adapter is safe to signal until it is reaped; the
\* SIGKILL ends its group.
LEMMA KillUnidentifiedKeeps ==
    ASSUME IInv, KillUnidentified
    PROVE  IInv'
<1> USE DEF IInv
<1>0. h \in Harness /\ run \in Locals /\ late \in BOOLEAN /\ signals \in 0..MaxSignals
      /\ kind \in {"pinned", "unpinned", "plain"} /\ os \in [Pid -> Process]
  BY DEF TypeOK
<1>1. UNCHANGED <<clock, kind, late, signals, run, reaped, listedAt>> /\ h.pc = "kill"
  BY DEF KillUnidentified, fixed
<1>2. kind = "unpinned" BY <1>0, <1>1 DEF Placed
<1>3. PICK S \in SUBSET Pid :
        /\ Deliver(TRUE, S) /\ \A p \in S : Live(p)
        /\ Safe => S = GroupOf(Leader)
  <2>1. CASE Safe
    <3>1. Deliver(TRUE, GroupOf(Leader)) BY <2>1 DEF KillUnidentified
    <3> QED BY <2>1, <3>1 DEF GroupOf
  <2>2. CASE ~Safe
    <3>1. Deliver(TRUE, {p \in {Leader} : Live(p)}) BY <2>2 DEF KillUnidentified
    <3>2. {p \in {Leader} : Live(p)} \in SUBSET Pid BY ConstantsAssumption
    <3>3. \A q \in {p \in {Leader} : Live(p)} : Live(q) OBVIOUS
    <3> QED BY <2>2, <3>1, <3>2, <3>3
  <2> QED BY <2>1, <2>2
<1>4. (\A p \in S : os[p].kin) \/ signals > 0
  <2> SUFFICES ASSUME signals = 0 PROVE \A p \in S : os[p].kin BY <1>0, ConstantsAssumption
  <2>1. ~reaped BY <1>1, <1>2 DEF Placed
  <2>2. Safe BY <2>1 DEF Anchored, Safe
  <2> QED BY <1>3, <2>1, <2>2 DEF Anchored, GroupOf, Live, Busy
<1>5. Tame /\ \A p \in S : ~Live(p)' BY <1>1, <1>2, <1>3, <1>4, DeliverTame
<1>6. /\ h' \in Harness /\ Relisted
      /\ \/ h'.pc = "gone" /\ h'.phase = "first"
         \/ h'.pc = "return" /\ h'.phase = "clean"
  <2>1. {"gone", "return"} \subseteq Position /\ {"first", "clean"} \subseteq Phase
    BY DEF Position, Phase
  <2>2. h' = At("gone", "first") \/ h' = At("return", "clean") BY DEF KillUnidentified
  <2> QED BY <2>1, <2>2, AtTyped
<1>7. Advances BY <1>0, <1>1, <1>6 DEF Advances
<1>8. Placed' BY <1>1, <1>2, <1>6 DEF Placed
<1>9. Scanned' BY <1>6 DEF Scanned
<1>10. Shown' BY <1>1, <1>2 DEF Shown
<1>11. killedAt' = killedAt \/ (Safe /\ killedAt' = clock) BY DEF KillUnidentified
<1>12. Safe => \A p \in Pid : ~(Live(p)' /\ os'[p].grp = Leader)
  <2> SUFFICES ASSUME Safe, NEW p \in Pid, Live(p)', os'[p].grp = Leader PROVE FALSE
    OBVIOUS
  <2>1. Live(p) BY <1>5 DEF Tame, Fades, Live, Busy
  <2>2. os[p].grp = Leader BY <1>5 DEF Tame, Fades, Again, Live, Busy, Safe
  <2> QED BY <1>3, <1>5, <2>1, <2>2 DEF GroupOf
<1>13. Aged'
  <2>1. CASE killedAt' = killedAt BY <1>1, <1>5, <2>1, Fading DEF Tame
  <2>2. CASE Safe /\ killedAt' = clock
    <3>1. ~Live(Leader)'
      <4>1. Leader \in Pid BY ConstantsAssumption
      <4>2. Live(Leader) => Leader \in S BY <1>3, <2>2, <4>1 DEF GroupOf, Safe
      <4> QED BY <1>5, <4>1, <4>2 DEF Tame, Fades, Live, Busy
    <3> QED BY <1>1, <1>5, <2>2, <3>1 DEF Aged, Tame, Fades, TypeOK
  <2> QED BY <1>11, <2>1, <2>2
<1>14. KillReachesGroup'
  <2>1. CASE killedAt' = killedAt BY <1>5, <2>1, Fading DEF Tame
  <2>2. CASE Safe BY <1>12, <2>2 DEF KillReachesGroup
  <2> QED BY <1>11, <2>1, <2>2
<1>15. listedAt' \in 0..MaxBorn /\ killedAt' \in 0..MaxBorn /\ unread' \subseteq 0..MaxBorn
  BY <1>1, <1>11, ConstantsAssumption DEF TypeOK, KillUnidentified
<1> QED BY <1>5, <1>6, <1>7, <1>8, <1>9, <1>10, <1>13, <1>14, <1>15, HarnessKeeps

\* The probe of an unpinned group ends with the group or with the time.
LEMMA ProbeKeeps ==
    ASSUME IInv, Probe
    PROVE  IInv'
<1> USE DEF IInv
<1>0. h \in Harness /\ run \in Locals /\ late \in BOOLEAN /\ signals \in 0..MaxSignals
      /\ kind \in {"pinned", "unpinned", "plain"} /\ os \in [Pid -> Process]
  BY DEF TypeOK
<1>1. Tame BY StillTame DEF Probe
<1>2. UNCHANGED <<kind, late, signals, run, reaped, history>> /\ h.pc = "probe"
  BY DEF Probe, fixed
<1>3. kind = "unpinned" BY <1>0, <1>2 DEF Placed
<1>4. h' \in Harness /\ Relisted /\ h'.pc = "return" /\ h'.phase \in {"clean", "last"}
  <2>1. "return" \in Position /\ {"last", "clean"} \subseteq Phase
    BY DEF Position, Phase
  <2>2. h' = At("return", "clean") \/ h' = At("return", "last") BY DEF Probe
  <2> QED BY <2>1, <2>2, AtTyped
<1>5. Advances BY <1>0, <1>2, <1>4 DEF Advances
<1>6. Placed' BY <1>2, <1>3, <1>4 DEF Placed
<1>7. Scanned' BY <1>4 DEF Scanned
<1>8. Shown' BY <1>2, <1>3 DEF Shown
<1> QED BY <1>1, <1>2, <1>4, <1>5, <1>6, <1>7, <1>8, QuietKeeps

\* communicate reaps the adapter when it comes back, and only output that is no
\* text then leads to the signals.
LEMMA CommunicateKeeps ==
    ASSUME IInv, Communicate
    PROVE  IInv'
<1> USE DEF IInv
<1>0. h \in Harness /\ run \in Locals /\ late \in BOOLEAN /\ signals \in 0..MaxSignals
      /\ kind \in {"pinned", "unpinned", "plain"} /\ os \in [Pid -> Process]
  BY DEF TypeOK
<1>1. UNCHANGED <<clock, status, kind, late, signals, history, stray>> /\ h.pc = "communicate"
  BY DEF Communicate, fixed
<1>2. Tame BY <1>1, ReapTame DEF Communicate, PerhapsReap
<1>3. kind = "plain" BY <1>0, <1>1 DEF Placed
<1>4. h' \in Harness /\ Relisted /\ h'.pc \in {"finish", "term"} /\ h'.phase = h.phase
  <2>1. {"finish", "term"} \subseteq Position BY DEF Position
  <2>2. Goes("finish") \/ Goes("term") BY DEF Communicate
  <2> QED BY <1>0, <2>1, <2>2, GoesTyped
<1>5. Advances
  <2>1. \/ run' = run
        \/ run' = [run EXCEPT !.original = TRUE, !.garbled = TRUE]
        \/ run' = [run EXCEPT !.timedOut = TRUE]
    BY DEF Communicate
  <2>2. run' \in Locals /\ (run.garbled => run'.garbled) BY <1>0, <2>1 DEF Locals
  <2> QED BY <1>0, <1>1, <1>4, <2>2 DEF Advances
<1>6. Placed'
  <2>1. h'.phase # "grace" BY <1>1, <1>4 DEF Placed
  <2>2. CASE Goes("finish") BY <1>1, <1>3, <1>4, <2>1, <2>2 DEF Placed, Goes, Harness
  <2>3. CASE run' = [run EXCEPT !.original = TRUE, !.garbled = TRUE]
    BY <1>0, <1>1, <1>3, <1>4, <2>1, <2>3 DEF Placed, Locals
  <2>4. CASE UNCHANGED reaped /\ run' = [run EXCEPT !.timedOut = TRUE]
    BY <1>0, <1>1, <1>3, <1>4, <2>1, <2>4 DEF Placed, Locals
  <2>5. Goes("finish") => h'.pc = "finish" BY <1>0 DEF Goes, Harness
  <2> QED BY <1>1, <1>3, <1>4, <2>1, <2>3, <2>4, <2>5 DEF Communicate, Placed
<1>7. Scanned' BY <1>4 DEF Scanned
<1>8. Shown' BY <1>1, <1>3 DEF Shown
<1> QED BY <1>1, <1>2, <1>4, <1>5, <1>6, <1>7, <1>8, QuietKeeps

\* SIGTERM to the group of an adapter that is not reaped, or behind what let it
\* be reaped.
LEMMA TermGroupKeeps ==
    ASSUME IInv, TermGroup
    PROVE  IInv'
<1> USE DEF IInv
<1>0. h \in Harness /\ run \in Locals /\ late \in BOOLEAN /\ signals \in 0..MaxSignals
      /\ kind \in {"pinned", "unpinned", "plain"} /\ os \in [Pid -> Process]
  BY DEF TypeOK
<1>1. UNCHANGED <<clock, kind, late, signals, run, reaped, history>> /\ h.pc = "term"
  BY DEF TermGroup, fixed
<1>2. kind = "plain" BY <1>0, <1>1 DEF Placed
<1>3. Tame
  <2>1. GroupOf(Leader) \in SUBSET Pid /\ \A p \in GroupOf(Leader) : Live(p) BY DEF GroupOf
  <2>2. (\A p \in GroupOf(Leader) : os[p].kin) \/ signals > 0 \/ run.garbled
    <3> SUFFICES ASSUME signals = 0, ~run.garbled PROVE \A p \in GroupOf(Leader) : os[p].kin
      BY <1>0, ConstantsAssumption
    <3>1. ~reaped BY <1>1, <1>2 DEF Placed
    <3> QED BY <3>1 DEF Anchored, GroupOf, Live, Busy
  <2>3. Deliver(FALSE, GroupOf(Leader)) BY DEF TermGroup
  <2> QED BY <1>1, <1>2, <2>1, <2>2, <2>3, DeliverTame
<1>4. h' \in Harness /\ Relisted /\ h'.pc = "grace" /\ h'.phase = h.phase
  <2>1. "grace" \in Position BY DEF Position
  <2> QED BY <1>0, <2>1, GoesTyped DEF TermGroup
<1>5. Advances BY <1>0, <1>1, <1>4 DEF Advances
<1>6. Placed' BY <1>1, <1>2, <1>4 DEF Placed
<1>7. Scanned' BY <1>4 DEF Scanned
<1>8. Shown' BY <1>1, <1>2 DEF Shown
<1> QED BY <1>1, <1>3, <1>4, <1>5, <1>6, <1>7, <1>8, QuietKeeps

\* SIGKILL to the same group.
LEMMA KillGroupKeeps ==
    ASSUME IInv, KillGroup
    PROVE  IInv'
<1> USE DEF IInv
<1>0. h \in Harness /\ run \in Locals /\ late \in BOOLEAN /\ signals \in 0..MaxSignals
      /\ kind \in {"pinned", "unpinned", "plain"} /\ os \in [Pid -> Process]
  BY DEF TypeOK
<1>1. UNCHANGED <<clock, kind, late, signals, run, reaped, history>> /\ h.pc = "killpg"
  BY DEF KillGroup, fixed
<1>2. kind = "plain" BY <1>0, <1>1 DEF Placed
<1>3. Tame
  <2>1. GroupOf(Leader) \in SUBSET Pid /\ \A p \in GroupOf(Leader) : Live(p) BY DEF GroupOf
  <2>2. (\A p \in GroupOf(Leader) : os[p].kin) \/ signals > 0 \/ run.garbled
    <3> SUFFICES ASSUME signals = 0, ~run.garbled PROVE \A p \in GroupOf(Leader) : os[p].kin
      BY <1>0, ConstantsAssumption
    <3>1. ~reaped BY <1>1, <1>2 DEF Placed
    <3> QED BY <3>1 DEF Anchored, GroupOf, Live, Busy
  <2>3. Deliver(TRUE, GroupOf(Leader)) BY DEF KillGroup
  <2> QED BY <1>1, <1>2, <2>1, <2>2, <2>3, DeliverTame
<1>4. h' \in Harness /\ Relisted /\ h'.pc = "collect" /\ h'.phase = h.phase
  <2>1. "collect" \in Position BY DEF Position
  <2> QED BY <1>0, <2>1, GoesTyped DEF KillGroup
<1>5. Advances BY <1>0, <1>1, <1>4 DEF Advances
<1>6. Placed' BY <1>1, <1>2, <1>4 DEF Placed
<1>7. Scanned' BY <1>4 DEF Scanned
<1>8. Shown' BY <1>1, <1>2 DEF Shown
<1> QED BY <1>1, <1>3, <1>4, <1>5, <1>6, <1>7, <1>8, QuietKeeps

\* A cleanup that collects the adapter in its grace period ends there, or goes on
\* behind output that is no text.
LEMMA GraceKeeps ==
    ASSUME IInv, Grace
    PROVE  IInv'
<1> USE DEF IInv
<1>0. h \in Harness /\ run \in Locals /\ late \in BOOLEAN /\ signals \in 0..MaxSignals
      /\ kind \in {"pinned", "unpinned", "plain"} /\ os \in [Pid -> Process]
  BY DEF TypeOK
<1>1. UNCHANGED <<clock, status, kind, late, signals, history, stray>> /\ h.pc = "grace"
  BY DEF Grace, fixed
<1>2. Tame BY <1>1, ReapTame DEF Grace, PerhapsReap, ReapIfTerminal
<1>3. kind = "plain" BY <1>0, <1>1 DEF Placed
<1>4. \/ Goes("finish") /\ run' = run
      \/ Goes("killpg") /\ run' = [run EXCEPT !.garbled = TRUE]
      \/ Goes("killpg") /\ run' = run /\ reaped' = reaped
  BY DEF Grace
<1>5. run' \in Locals /\ (run.garbled => run'.garbled) BY <1>0, <1>4 DEF Locals
<1>6. /\ h' \in Harness /\ Relisted /\ h'.phase = h.phase
      /\ \/ h'.pc = "finish"
         \/ h'.pc = "killpg" /\ (reaped' = reaped \/ run'.garbled)
  <2>1. "finish" \in Position /\ "killpg" \in Position BY DEF Position
  <2>2. Goes("killpg") => reaped' = reaped \/ run'.garbled \/ Goes("finish")
    BY <1>0, <1>4 DEF Locals
  <2>3. CASE Goes("finish") BY <1>0, <2>1, <2>3, GoesTyped
  <2>4. CASE Goes("killpg") /\ (reaped' = reaped \/ run'.garbled)
    BY <1>0, <2>1, <2>4, GoesTyped
  <2> QED BY <1>4, <2>2, <2>3, <2>4
<1>7. Advances BY <1>0, <1>1, <1>5, <1>6 DEF Advances
<1>8. Placed' BY <1>1, <1>3, <1>4, <1>5, <1>6 DEF Placed
<1>9. Scanned' BY <1>6 DEF Scanned
<1>10. Shown' BY <1>1, <1>3 DEF Shown
<1> QED BY <1>1, <1>2, <1>6, <1>7, <1>8, <1>9, <1>10, QuietKeeps

-----------------------------------------------------------------------------
(* KeyboardInterrupt                                                        *)

\* Before the driver is waited for, and behind its cleanup, an interrupt leaves.
LEMMA LeaveKeeps ==
    ASSUME IInv, Leave, UNCHANGED <<kernel, kind, late, reaped, history, stray>>,
           signals' \in 0..MaxSignals, signals <= signals'
    PROVE  IInv'
<1> USE DEF IInv
<1>0. h \in Harness /\ run \in Locals /\ late \in BOOLEAN /\ signals \in 0..MaxSignals
      /\ kind \in {"pinned", "unpinned", "plain"} /\ os \in [Pid -> Process]
  BY DEF TypeOK
<1>1. Tame BY StillTame
<1>2. h' \in Harness /\ Relisted /\ h'.pc = "done" /\ h'.phase = "first"
  <2>1. "done" \in Position /\ "first" \in Phase BY DEF Position, Phase
  <2> QED BY <2>1, AtTyped DEF Leave
<1>3. Advances BY <1>0, <1>2 DEF Advances, Leave, Locals
<1>4. Placed' BY <1>2 DEF Placed
<1>5. Scanned' BY <1>2 DEF Scanned
<1>6. Shown' BY <1>0, <1>1, <1>2, Fading DEF Shown, Leave, Locals, Tame, history
<1> QED BY <1>1, <1>2, <1>3, <1>4, <1>5, <1>6, QuietKeeps

\* Behind an interrupt a plain adapter may be reaped before its group is
\* signalled, which StrangersSpared excepts.
LEMMA InPlainKeeps ==
    ASSUME IInv, InPlain, kind = "plain", h.pc \notin {"spawned", "finish", "done"},
           UNCHANGED <<clock, status, kind, late, history, stray>>,
           signals' \in 0..MaxSignals, signals < signals', signals <= signals'
    PROVE  IInv'
<1> USE DEF IInv
<1>0. h \in Harness /\ run \in Locals /\ late \in BOOLEAN /\ signals \in 0..MaxSignals
      /\ kind \in {"pinned", "unpinned", "plain"} /\ os \in [Pid -> Process]
  BY DEF TypeOK
<1>1. PerhapsReap BY DEF InPlain, PerhapsReap
<1>2. Tame BY <1>1, ReapTame
<1>3. /\ h' \in Harness /\ Relisted /\ h'.phase = h.phase
      /\ h'.pc \in {"term", "killpg", "finish"}
  <2>1. {"term", "killpg", "finish"} \subseteq Position BY DEF Position
  <2>2. \E pc \in {"term", "killpg", "finish"} : Goes(pc) BY DEF InPlain
  <2> QED BY <1>0, <2>1, <2>2, GoesTyped
<1>4. run' = run \/ run' = [run EXCEPT !.original = TRUE] BY DEF InPlain
<1>5. Advances BY <1>0, <1>3, <1>4 DEF Advances, Locals
<1>6. h.phase # "grace" BY <1>0 DEF Placed
<1>7. Placed' BY <1>0, <1>3, <1>6 DEF Placed
<1>8. Scanned' BY <1>3 DEF Scanned
<1>9. Shown' BY DEF Shown
<1> QED BY <1>2, <1>3, <1>5, <1>7, <1>8, <1>9, QuietKeeps

\* A cleanup that is repeated for an adapter that was reaped answers for the one
\* that was interrupted, which had shown the session clean unless its deadline
\* had passed.
LEMMA InCleanupKeeps ==
    ASSUME IInv, InCleanup, kind # "plain", h.pc \notin {"spawned", "wait", "finish", "done"},
           UNCHANGED <<clock, status, kind, history, stray>>,
           signals' \in 0..MaxSignals, signals < signals', signals <= signals'
    PROVE  IInv'
<1> USE DEF IInv
<1>0. h \in Harness /\ run \in Locals /\ late \in BOOLEAN /\ signals \in 0..MaxSignals
      /\ kind \in {"pinned", "unpinned", "plain"} /\ os \in [Pid -> Process]
  BY DEF TypeOK
<1>1. UNCHANGED <<os, reaped>> BY DEF InCleanup
<1>2. Tame BY <1>1, StillTame DEF kernel
<1>3. /\ h' \in Harness /\ Relisted /\ h'.phase = "first"
      /\ h'.pc \in {"finish", "kill", "list"}
      /\ h'.pc = "kill" => kind = "unpinned"
      /\ h'.pc = "list" => ~reaped /\ kind = "pinned"
      /\ late' \/ run.calls = 2 => h'.pc = "finish"
      /\ kind = "pinned" /\ reaped => h'.pc = "finish"
  <2>1. {"finish", "kill", "list"} \subseteq Position /\ "first" \in Phase
    BY DEF Position, Phase
  <2>2. PICK pc \in {"finish", "kill", "list"} :
          /\ h' = At(pc, "first")
          /\ pc = "kill" => kind = "unpinned"
          /\ pc = "list" => ~reaped /\ kind = "pinned"
          /\ late' \/ run.calls = 2 => pc = "finish"
          /\ kind = "pinned" /\ reaped => pc = "finish"
    BY <1>0 DEF InCleanup
  <2> QED BY <2>1, <2>2, AtTyped
<1>4. late' \in BOOLEAN /\ (late => late') BY <1>0 DEF InCleanup
<1>5. /\ run' \in Locals /\ (run.garbled => run'.garbled)
      /\ run'.confirmed => \/ ~late' /\ kind = "pinned" /\ reaped
                           \/ run.confirmed
  <2>1. CASE run.calls = 1
    <3>1. PICK b \in BOOLEAN : b <=> (~late' /\ kind = "pinned" /\ reaped) OBVIOUS
    <3>2. PICK c \in 0..2 : c = IF late' THEN 1 ELSE 2 OBVIOUS
    <3>3. run' = [run EXCEPT !.cleanupError = TRUE, !.calls = c, !.confirmed = b]
      BY <2>1, <3>1, <3>2 DEF InCleanup
    <3> QED BY <1>0, <3>1, <3>3 DEF Locals
  <2>2. CASE run.calls # 1 BY <1>0, <2>2 DEF InCleanup
  <2> QED BY <2>1, <2>2
<1>6. Advances BY <1>0, <1>3, <1>4, <1>5 DEF Advances
<1>7. Placed' BY <1>0, <1>1, <1>3 DEF Placed
<1>8. Scanned' BY <1>3 DEF Scanned
<1>9. Shown'
  <2>1. kind = "pinned" /\ reaped /\ ~late' => Emptied
    BY <1>4 DEF Placed, Shown
  <2>2. Emptied => Emptied' BY <1>2, Fading DEF Tame, history
  <2>3. kind = "pinned" => ~run.confirmed BY DEF Shown
  <2> QED BY <1>0, <1>3, <1>5, <2>1, <2>2, <2>3 DEF Shown
<1> QED BY <1>2, <1>3, <1>6, <1>7, <1>8, <1>9, QuietKeeps

\* An interrupt at any point of the call.
LEMMA InterruptKeeps ==
    ASSUME IInv, Interrupt
    PROVE  IInv'
<1> USE DEF IInv
<1>0. h \in Harness /\ run \in Locals /\ late \in BOOLEAN /\ signals \in 0..MaxSignals
      /\ kind \in {"pinned", "unpinned", "plain"} /\ os \in [Pid -> Process]
  BY DEF TypeOK
<1>1. /\ UNCHANGED <<clock, status, kind, history, stray>> /\ h.pc # "done"
      /\ signals' \in 0..MaxSignals /\ signals < signals' /\ signals <= signals'
  BY <1>0, ConstantsAssumption DEF Interrupt
<1>2. CASE h.pc \in {"spawned", "finish"}
  BY <1>1, <1>2, LeaveKeeps DEF Interrupt, kernel, history
<1>3. CASE h.pc = "wait"
  <2>1. run' = [run EXCEPT !.original = TRUE] /\ h' = At("list", "first") /\ UNCHANGED <<os, reaped, late>>
    BY <1>3 DEF Interrupt
  <2>2. Tame BY <1>1, <2>1, StillTame DEF kernel
  <2>3. "list" \in Position /\ "first" \in Phase BY DEF Position, Phase
  <2>4. h' \in Harness /\ Relisted /\ h'.pc = "list" /\ h'.phase = "first" BY <2>1, <2>3, AtTyped
  <2>5. Advances BY <1>0, <1>1, <2>1, <2>4 DEF Advances, Locals
  <2>6. Placed' BY <1>0, <1>1, <1>3, <2>1, <2>4 DEF Placed
  <2>7. Scanned' BY <2>4 DEF Scanned
  <2>8. Shown' BY <1>0, <1>1, <1>3, <2>1, <2>4 DEF Shown, Locals
  <2> QED BY <1>1, <2>2, <2>4, <2>5, <2>6, <2>7, <2>8, QuietKeeps
<1>4. CASE h.pc \notin {"spawned", "finish", "wait"} /\ kind = "plain"
  <2>1. InPlain /\ UNCHANGED late BY <1>4 DEF Interrupt
  <2> QED BY <1>1, <1>4, <2>1, InPlainKeeps
<1>5. CASE h.pc \notin {"spawned", "finish", "wait"} /\ kind # "plain"
  <2>1. InCleanup BY <1>5 DEF Interrupt
  <2> QED BY <1>1, <1>5, <2>1, InCleanupKeeps
<1> QED BY <1>2, <1>3, <1>4, <1>5

-----------------------------------------------------------------------------
(* All steps                                                                *)

\* A driver starts as the leader of its own session and group, alone.
LEMMA InitIInv ==
    ASSUME Init
    PROVE  IInv
<1> USE DEF Init
<1>0. /\ MaxBorn \in Nat /\ 1 <= MaxBorn /\ MaxSignals \in Nat /\ Leader \in Pid
      /\ Nil \notin Pid
  BY ConstantsAssumption
<1>1. /\ \A p \in Pid : p # Leader => os[p] = Vacant
      /\ os[Leader] = [state |-> "live", sess |-> Leader, grp |-> Leader, born |-> 1, kin |-> TRUE]
      /\ os \in [Pid -> Process]
  <2>1. Vacant \in Process BY <1>0 DEF Vacant, Process
  <2>2. [state |-> "live", sess |-> Leader, grp |-> Leader, born |-> 1, kin |-> TRUE] \in Process
    BY <1>0 DEF Process
  <2> QED BY <1>0, <2>1, <2>2
<1>2. h \in Harness /\ h.pc = "spawned" /\ h.phase = "first" /\ h.seen = {} /\ h.todo = {} /\ h.fd = Nil
  BY DEF At, Harness, Position, Phase
<1>3. run \in Locals /\ ~run.confirmed BY DEF Locals
<1>4. TypeOK
  <2>1. clock \in 1..MaxBorn /\ signals \in 0..MaxSignals BY <1>0
  <2>2. listedAt \in 0..MaxBorn /\ killedAt \in 0..MaxBorn BY <1>0
  <2>3. late \in BOOLEAN /\ reaped \in BOOLEAN /\ stray \in BOOLEAN /\ ~reaped OBVIOUS
  <2> QED BY <1>1, <1>2, <1>3, <2>1, <2>2, <2>3 DEF TypeOK
<1>5. \A p \in Pid : Busy(p) => p = Leader BY <1>1 DEF Busy, Vacant
<1>6. Anchored BY <1>1, <1>5 DEF Anchored, Busy, Zombie
<1>7. Aged BY <1>0, <1>1 DEF Aged, Vacant
<1>8. Placed BY <1>2 DEF Placed
<1>9. Listed BY <1>2 DEF Listed
<1>10. Scanned BY <1>2 DEF Scanned
<1>11. Shown BY <1>2, <1>3 DEF Shown
<1>12. KillReachesGroup BY DEF KillReachesGroup
<1>13. Spared BY DEF Spared
<1> QED BY <1>4, <1>6, <1>7, <1>8, <1>9, <1>10, <1>11, <1>12, <1>13 DEF IInv

\* Every step of the kernel, the deadlines, the harness and the interrupts keeps
\* the invariant.
LEMMA NextKeeps ==
    ASSUME IInv, [Next]_vars
    PROVE  IInv'
<1>1. CASE Kernel
  BY <1>1, ForkKeeps, StrangerKeeps, LeaveGroupKeeps, LeaveSessionKeeps, ExitKeeps, CollectedKeeps
  DEF Kernel
<1>2. CASE Scan
  BY <1>2, ListKeeps, LastChanceKeeps, CleanKeeps, SignalGroupKeeps, SendPidFdKeeps,
     SignalsSentKeeps, UnreadableKeeps, ReadKeeps, OverlookKeeps, OpenPidFdKeeps, SkipMemberKeeps
  DEF Scan
<1>3. CASE Step
  BY <1>2, <1>3, SpawnedKeeps, WaitEndsKeeps, ReapLeaderKeeps, ReturnKeeps,
     KillUnidentifiedKeeps, GoneKeeps, ProbeKeeps, CommunicateKeeps, TermGroupKeeps,
     GraceKeeps, KillGroupKeeps, CollectKeeps, FinishKeeps
  DEF Step
<1>4. CASE HardDeadline \/ GraceOver \/ Interrupt
  BY <1>4, HardDeadlineKeeps, GraceOverKeeps, InterruptKeeps
<1>5. CASE UNCHANGED vars
  <2>1. UNCHANGED harness /\ UNCHANGED kernel BY <1>5 DEF vars, harness, kernel, fixed, history
  <2>2. Fades /\ Holds BY <2>1, Still DEF kernel, harness
  <2>3. TypeOK' BY <2>1 DEF IInv, TypeOK, harness, kernel, fixed, history
  <2> QED BY <2>1, <2>2, <2>3, KernelFading
<1> QED BY <1>1, <1>3, <1>4, <1>5 DEF Next

\* The inductive invariant holds of every behaviour.
THEOREM Invariance == Spec => []IInv
BY InitIInv, NextKeeps, PTL DEF Spec

\* However many processes come and go and however often the cleanup of a pinned
\* session is interrupted, no stranger is signalled for it; in the other paths
\* only behind what let the adapter be reaped (_signal_driver_session,
\* _cleanup_unidentified_selenium_process_group).
THEOREM SparesStrangers == Spec => []StrangersSpared
<1>1. IInv => StrangersSpared BY DEF IInv, Spared, StrangersSpared
<1> QED BY Invariance, <1>1, PTL

\* What the confirming list of a session or a round of SIGKILL was bound to
\* reach is gone from the session or the group for good
\* (_driver_session_is_clean, _cleanup_selenium_process_group).
THEOREM ThoroughCleanup == Spec => []CleanupIsThorough
<1>1. IInv => CleanupIsThorough
  <2>1. IInv => ConfirmedMeansGone BY DEF IInv, Shown, Emptied, ConfirmedMeansGone
  <2> QED BY <2>1 DEF IInv, CleanupIsThorough
<1> QED BY Invariance, <1>1, PTL

=============================================================================
