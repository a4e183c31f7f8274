---------------------------- MODULE DriverSession ----------------------------
(***************************************************************************)
(* run_driver_subprocess (runner/run.py): one driver adapter in a session  *)
(* of its own, the deadlines it gets, and how the harness contains what it *)
(* leaves behind.  A Selenium adapter is waited for without being reaped,  *)
(* so that its number stays taken while its session is listed from /proc,  *)
(* signalled and checked (Linux).  Every other adapter is run by           *)
(* communicate and its process group signalled by number.                  *)
(*                                                                         *)
(* The kernel side is external: processes of the session fork, exit, leave *)
(* the group or the session at any time, and strangers take free numbers.  *)
(* A process does not join a group it was not born into or made itself.    *)
(* The Darwin branches are not modelled.                                   *)
(***************************************************************************)
EXTENDS Naturals

CONSTANTS
    Pid,          \* process numbers, reused
    Leader,       \* the number of the adapter
    MaxBorn,      \* bound: processes ever started
    MaxSignals,   \* bound: KeyboardInterrupts
    Nil

ASSUME ConstantsAssumption ==
    /\ Pid \subseteq Nat
    /\ Leader \in Pid
    /\ MaxBorn \in Nat \ {0}
    /\ MaxSignals \in Nat
    /\ Nil \notin Pid /\ Nil \notin {"zero", "nonzero"}

VARIABLES
    os,        \* what runs under each number: state, session, group, start time
    clock,     \* start_ticks of the youngest process
    kind,      \* "pinned": Selenium with an identity, "unpinned": without, "plain"
    late,      \* the hard deadline has passed
    status,    \* exit status of the adapter, Nil while it runs
    reaped,    \* proc.returncode is set
    h,         \* the harness thread: position, phase of the cleanup, scan of /proc
    run,       \* its local variables: timed_out, original_error, cleanup_error,
               \* cleanup_complete, the number of cleanup calls, the outcome;
               \* garbled: output that is no text has made communicate raise
    signals,   \* KeyboardInterrupts so far
    listedAt,  \* start time of the youngest process when /proc was last listed,
               \* 0 when that scan is done with and not clean
    killedAt,  \* the same for the SIGKILL round that went out whole since, or 0
    unread,    \* start times of those this scan could not read
    stray      \* a signal has reached a stranger

kernel == <<os, clock, status>>
vars == <<os, clock, kind, late, status, reaped, h, run, signals,
          listedAt, killedAt, unread, stray>>
history == <<listedAt, killedAt, unread>>
fixed == <<kind, late, signals>>

Vacant == [state |-> "none", sess |-> Nil, grp |-> Nil, born |-> 0, kin |-> FALSE]
Busy(p) == os[p].state # "none"
Live(p) == os[p].state = "live"

\* A number stays taken while a group or a session is called by it.
Free(p) == \A q \in Pid : Busy(q) => p \notin {q, os[q].grp, os[q].sess}

\* The unreaped adapter itself, not a later process of the same number.
Adapter(p) == p = Leader /\ ~reaped
InGroup(p) == Busy(p) /\ os[p].grp = Leader  \* mutated: who has left the group is missed
InSession(p) == Busy(p) /\ os[p].sess = Leader
GroupOf(n) == {p \in Pid : Live(p) /\ os[p].grp = n}

Position == {"spawned", "wait", "list", "read", "signal", "reap", "return",
             "finish", "done", "kill", "gone", "probe", "communicate", "term",
             "grace", "killpg", "collect"}
Phase == {"first", "term", "grace", "kill", "last", "rekill", "clean"}
Process == [state : {"none", "live", "zombie"}, sess : Pid \cup {Nil},
            grp : Pid \cup {Nil}, born : 0..MaxBorn, kin : BOOLEAN]
Stat == Pid \X Process  \* a line read from /proc/<pid>/stat
Harness == [pc : Position, phase : Phase, names : SUBSET Pid, seen : SUBSET Stat,
            todo : SUBSET Stat, fd : Stat \cup {Nil}]
Locals == [timedOut : BOOLEAN, original : BOOLEAN, garbled : BOOLEAN,
           cleanupError : BOOLEAN, confirmed : BOOLEAN, calls : 0..2,
           outcome : {"running", "raised", "timeout", "infra", "graded"}]

TypeOK ==
    /\ os \in [Pid -> Process]
    /\ clock \in 1..MaxBorn
    /\ kind \in {"pinned", "unpinned", "plain"}
    /\ late \in BOOLEAN /\ reaped \in BOOLEAN /\ stray \in BOOLEAN
    /\ status \in {"zero", "nonzero", Nil}
    /\ reaped => status # Nil
    /\ h \in Harness /\ run \in Locals
    /\ signals \in 0..MaxSignals
    /\ listedAt \in 0..MaxBorn /\ killedAt \in 0..MaxBorn
    /\ unread \subseteq 0..MaxBorn

At(pc, phase) == [pc |-> pc, phase |-> phase, names |-> {}, seen |-> {},
                  todo |-> {}, fd |-> Nil]
Goes(pc) == h' = [h EXCEPT !.pc = pc]

Init ==
    /\ os = [p \in Pid |-> IF p = Leader
                THEN [state |-> "live", sess |-> p, grp |-> p, born |-> 1, kin |-> TRUE]
                ELSE Vacant]
    /\ clock = 1
    /\ kind \in {"pinned", "unpinned", "plain"}
    /\ late = FALSE
    /\ status = Nil /\ reaped = FALSE
    /\ h = At("spawned", "first")
    /\ run = [timedOut |-> FALSE, original |-> FALSE, garbled |-> FALSE,
              cleanupError |-> FALSE, confirmed |-> FALSE, calls |-> 0, outcome |-> "running"]
    /\ signals = 0
    /\ listedAt = 0 /\ killedAt = 0 /\ unread = {}
    /\ stray = FALSE

-----------------------------------------------------------------------------
(* Processes come and go.                                                   *)

harness == <<fixed, reaped, h, run, history, stray>>

\* Free numbers that the harness has in no list differ in name only: of those
\* the next process gets the lowest.
Remembered == {Leader} \cup h.names \cup {s[1] : s \in h.seen \cup h.todo \cup ({h.fd} \ {Nil})}
Given(q) ==
    /\ Free(q)
    /\ q \in Remembered \/ \A p \in Pid \ Remembered : Free(p) => q <= p

\* A child has the session and the group of its parent.
Fork(p, q) ==
    /\ Live(p) /\ os[p].kin
    /\ Given(q) /\ clock < MaxBorn
    /\ clock' = clock + 1
    /\ os' = [os EXCEPT ![q] = [os[p] EXCEPT !.born = clock + 1]]
    /\ UNCHANGED <<status, harness>>

Stranger(q) ==
    /\ Given(q) /\ clock < MaxBorn
    /\ clock' = clock + 1
    /\ os' = [os EXCEPT ![q] = [state |-> "live", sess |-> q, grp |-> q,
                                born |-> clock + 1, kin |-> FALSE]]
    /\ UNCHANGED <<status, harness>>

\* setpgid and setsid; what has left its group does not come back.
LeaveGroup(p) ==
    /\ Live(p) /\ os[p].kin /\ os[p].sess # p /\ os[p].grp # p
    /\ os' = [os EXCEPT ![p].grp = p]
    /\ UNCHANGED <<clock, status, harness>>

LeaveSession(p) ==
    /\ Live(p) /\ os[p].kin /\ os[p].grp # p
    /\ os' = [os EXCEPT ![p].sess = p, ![p].grp = p]
    /\ UNCHANGED <<clock, status, harness>>

Exit(p) ==
    /\ Live(p)
    /\ os' = [os EXCEPT ![p].state = "zombie"]
    /\ IF Adapter(p) THEN status' \in {"zero", "nonzero"} ELSE UNCHANGED status
    /\ UNCHANGED <<clock, harness>>

\* A parent, or init, collects a child; only the harness collects the adapter.
Collected(p) ==
    /\ os[p].state = "zombie" /\ ~Adapter(p)
    /\ os' = [os EXCEPT ![p] = Vacant]
    /\ UNCHANGED <<clock, status, harness>>

\* What processes do behind the call changes nothing that it promises.
Kernel ==
    /\ h.pc # "done"
    /\ \E p \in Pid : \/ \E q \in Pid : Fork(p, q)
                      \/ Stranger(p) \/ LeaveGroup(p) \/ LeaveSession(p)
                      \/ Exit(p) \/ Collected(p)

\* The hard deadline, a step of its own in the waits that end with it.  For an
\* interrupted cleanup it may have passed at any time before (InCleanup);
\* nobody else looks at it.
HardDeadline ==
    /\ ~late
    /\ h.phase \in {"last", "rekill"} \/ h.pc \in {"gone", "probe"}
    /\ late' = TRUE
    /\ UNCHANGED <<kernel, kind, reaped, h, run, signals, history, stray>>

-----------------------------------------------------------------------------
(* Signals                                                                  *)

\* A signal reaches the processes of S.  SIGKILL ends them; what SIGTERM does
\* is theirs to decide (Exit).
Deliver(lethal, S) ==
    /\ stray' = (stray \/ \E p \in S : ~os[p].kin)
    /\ os' = IF lethal
             THEN [p \in Pid |-> IF p \in S THEN [os[p] EXCEPT !.state = "zombie"] ELSE os[p]]
             ELSE os
    /\ status' = IF lethal /\ \E p \in S : Adapter(p) THEN "nonzero" ELSE status

Silence == UNCHANGED <<os, status, stray>>

Zombie(p) == os[p].state = "zombie"

\* proc.wait() on the terminal adapter: its number becomes free.
Reap ==
    /\ reaped' = TRUE
    /\ os' = [os EXCEPT ![Leader] = Vacant]

Terminal == ~reaped /\ Zombie(Leader)
ReapIfTerminal == IF Terminal THEN Reap ELSE UNCHANGED <<os, reaped>>

-----------------------------------------------------------------------------
(* The session of a Selenium adapter with an identity                       *)

Spawned ==
    /\ h.pc = "spawned"
    /\ run' = [run EXCEPT !.calls = 1]
    /\ h' = CASE kind = "pinned" -> At("wait", "first")
              [] kind = "unpinned" -> At("kill", "first")
              [] kind = "plain" -> At("communicate", "first")
    /\ UNCHANGED <<kernel, fixed, reaped, history, stray>>

\* _wait_driver_without_reaping: the adapter has exited, or the time of the
\* task is up.
WaitEnds ==
    /\ h.pc = "wait"
    /\ run' = [run EXCEPT !.timedOut = ~Zombie(Leader)]
    /\ h' = At("list", "first")
    /\ UNCHANGED <<kernel, fixed, reaped, history, stray>>

LastWhenTerminal ==  \* mutated: the loop ends only with the adapter
    /\ h.pc = "list" /\ h.phase = "last" /\ late /\ Terminal
    /\ Goes("reap")
    /\ UNCHANGED <<kernel, fixed, reaped, run, history, stray>>

\* The loop behind the first SIGKILL ends with the hard deadline, the one
\* behind SIGTERM with a deadline of its own.
LastChance ==
    /\ h.pc = "list" /\ h.phase = "last" /\ late
    /\ Goes("reap")
    /\ UNCHANGED <<kernel, fixed, reaped, run, history, stray>>

\* The last look of the grace period may find nothing it can read (Unreadable)
\* and is then left out.
GraceOver ==
    /\ h.phase = "grace"
    /\ h' = At("list", "kill")
    /\ UNCHANGED <<kernel, fixed, reaped, run, history, stray>>

\* _driver_session_members takes the names in /proc first ...
List ==
    /\ h.pc = "list"
    /\ ~(h.phase = "last" /\ late)
    /\ h' = [At("read", h.phase) EXCEPT !.names = {p \in Pid : Busy(p)}]
    /\ listedAt' = clock /\ killedAt' = 0 /\ unread' = {}
    /\ UNCHANGED <<kernel, fixed, reaped, run, stray>>

\* ... and then the stat of each, which may be gone or someone else's by now.
ScanDone == listedAt' = 0 /\ unread' = {}
TerminalLeader(p) == p = Leader /\ Zombie(p)
Checks == h.phase \in {"first", "grace", "last"}
Check(clean) ==
    h' = IF clean THEN At("reap", "clean")
         ELSE At("list", CASE h.phase = "first" -> "term"
                           [] h.phase = "grace" -> "grace"
                           [] h.phase = "last" -> "rekill")
ScanFails == Check(FALSE) /\ ScanDone

\* What is signalled is what was alive in the session when it was read; what
\* is clean is a session of the terminal leader alone, so that a check is
\* decided by the first other member it reads.
Read(p) ==
    /\ h.pc = "read" /\ p \in h.names
    /\ IF Checks /\ InSession(p) /\ ~TerminalLeader(p)
       THEN ScanFails
       ELSE /\ h' = [h EXCEPT !.names = @ \ {p},
                         !.seen = IF ~Checks /\ InSession(p) /\ Live(p) THEN @ \cup {<<p, os[p]>>} ELSE @]
            /\ UNCHANGED <<listedAt, unread>>
    /\ UNCHANGED <<kernel, fixed, reaped, run, killedAt, stray>>

\* A stat that cannot be read, or is no text (the name of the process is in it),
\* counts as none: the scan goes on as if the process were gone.  A check that
\* has not read its leader is not clean, whoever else it missed (Unreadable).
Overlook(p) ==
    /\ h.pc = "read" /\ p \in h.names /\ InSession(p) /\ Live(p)
    /\ Checks => p # Leader
    /\ h' = [h EXCEPT !.names = @ \ {p}]
    /\ unread' = unread \cup {os[p].born}
    /\ UNCHANGED <<kernel, fixed, reaped, run, listedAt, killedAt, stray>>

\* _driver_session_is_clean
Clean ==
    /\ h.pc = "read" /\ h.names = {} /\ Checks
    /\ Check(TRUE)
    /\ UNCHANGED <<kernel, fixed, reaped, run, history, stray>>

Lethal == h.phase \in {"kill", "rekill"}
AfterSignals == At("list", CASE h.phase = "term" -> "grace" [] OTHER -> "last")

GroupListed == \E m \in h.seen : m[2].grp = Leader

\* _signal_driver_session: the group while its leader anchors the number, if
\* the list shows a member of it alive ...
SignalGroup ==
    /\ h.pc = "read" /\ h.names = {} /\ ~Checks
    /\ IF GroupListed
       THEN Deliver(Lethal, GroupOf(Leader))
       ELSE Silence
    /\ killedAt' = IF Lethal /\ (GroupListed \/ unread = {}) THEN listedAt ELSE killedAt
    /\ h' = [h EXCEPT !.pc = "signal", !.seen = {}, !.todo = h.seen]
    /\ ScanDone
    /\ UNCHANGED <<clock, fixed, reaped, run>>

SameNumber(m) == Busy(m[1])  \* mutated: the number alone
SameProcess(m) == os[m[1]] = m[2]

\* ... and each listed process by a pidfd that is opened before its stat is
\* compared, so that the two name one process.  Both may fail.
OpenPidFd(m) ==
    /\ h.pc = "signal" /\ h.fd = Nil /\ m \in h.todo
    /\ h' = [h EXCEPT !.todo = @ \ {m}, !.fd = IF SameProcess(m) THEN <<m[1], os[m[1]]>> ELSE Nil]
    /\ UNCHANGED <<kernel, fixed, reaped, run, history, stray>>

SkipMember(m) ==
    /\ h.pc = "signal" /\ h.fd = Nil /\ m \in h.todo
    /\ h' = [h EXCEPT !.todo = @ \ {m}]
    /\ UNCHANGED <<kernel, fixed, reaped, run, history, stray>>

SendPidFd ==
    /\ h.pc = "signal" /\ h.fd # Nil
    /\ h' = [h EXCEPT !.fd = Nil]
    /\ IF Live(h.fd[1]) /\ os[h.fd[1]].born = h.fd[2].born
       THEN Deliver(Lethal, {h.fd[1]})
       ELSE Silence
    /\ UNCHANGED <<clock, fixed, reaped, run, history>>

SignalsSent ==
    /\ h.pc = "signal" /\ h.fd = Nil /\ h.todo = {}
    /\ h' = AfterSignals
    /\ UNCHANGED <<kernel, fixed, reaped, run, history, stray>>

\* /proc cannot be listed, or the stat of the leader not read before or behind
\* the list: not clean, and nobody is signalled.  The leader that anchors the
\* session is not reaped while it is scanned, so that the last reason for None,
\* another process of its number, does not arise.
Unreadable ==
    /\ h.pc = "read"
    /\ IF Checks THEN ScanFails ELSE h' = AfterSignals /\ ScanDone
    /\ UNCHANGED <<kernel, fixed, reaped, run, killedAt, stray>>

\* _driver_leader_is_terminal, then proc.wait.
ReapLeader ==
    /\ h.pc = "reap"
    /\ ReapIfTerminal
    /\ Goes("return")
    /\ UNCHANGED <<clock, status, fixed, run, history, stray>>

Return ==
    /\ h.pc = "return"
    /\ run' = [run EXCEPT !.confirmed = (h.phase = "clean")]
    /\ Goes("finish")
    /\ UNCHANGED <<kernel, fixed, reaped, history, stray>>

-----------------------------------------------------------------------------
(* A Selenium adapter whose identity could not be captured.  Its number is   *)
(* safe to signal until it is reaped; a repeated cleanup may find it reaped. *)

Safe == Busy(Leader) /\ os[Leader].grp = Leader /\ os[Leader].sess = Leader

KillUnidentified ==
    /\ h.pc = "kill"
    /\ IF Safe
       THEN Deliver(TRUE, GroupOf(Leader)) /\ h' = At("gone", "first")
       ELSE Deliver(TRUE, {p \in {Leader} : Live(p)}) /\ h' = At("return", "clean")
    /\ killedAt' = IF Safe THEN clock ELSE killedAt
    /\ UNCHANGED <<clock, fixed, reaped, run, listedAt, unread>>

Gone ==
    /\ h.pc = "gone"
    /\ Terminal \/ reaped \/ late
    /\ ReapIfTerminal
    /\ Goes("probe")
    /\ UNCHANGED <<clock, status, fixed, run, history, stray>>

\* killpg(pid, 0) until the group is gone or the time is up.
Probe ==
    /\ h.pc = "probe"
    /\ \/ ~late /\ {p \in Pid : Busy(p) /\ os[p].grp = Leader} = {} /\ h' = At("return", "clean")
       \/ late /\ h' = At("return", "last")
    /\ UNCHANGED <<kernel, fixed, reaped, run, history, stray>>

-----------------------------------------------------------------------------
(* communicate, and _terminate_driver_process_group behind a deadline or an  *)
(* interrupt                                                                 *)

\* Ends when the adapter has exited and the pipes are closed, or with time.
\* Output that is no text raises behind the wait: the adapter is reaped then.
Communicate ==
    /\ h.pc = "communicate"
    /\ \/ Terminal /\ Reap /\ Goes("finish") /\ UNCHANGED run
       \/ /\ Terminal /\ Reap /\ Goes("term")
          /\ run' = [run EXCEPT !.original = TRUE, !.garbled = TRUE]
       \/ /\ Goes("term") /\ UNCHANGED <<os, reaped>>
          /\ run' = [run EXCEPT !.timedOut = TRUE]
    /\ UNCHANGED <<clock, status, fixed, history, stray>>

TermGroup ==
    /\ h.pc = "term"
    /\ Deliver(FALSE, GroupOf(Leader))
    /\ Goes("grace")
    /\ UNCHANGED <<clock, fixed, reaped, run, history>>

\* A communicate that returns ends the cleanup without a SIGKILL.  One that runs
\* out of time goes on to it, and so does one that raises: what output that is
\* no text raises, behind the wait that reaps the adapter, is dropped.
Grace ==
    /\ h.pc = "grace"
    /\ \/ (Terminal \/ reaped) /\ ReapIfTerminal /\ Goes("finish") /\ UNCHANGED run
       \/ /\ (Terminal \/ reaped) /\ ReapIfTerminal /\ Goes("killpg")
          /\ run' = [run EXCEPT !.garbled = TRUE]
       \/ Goes("killpg") /\ UNCHANGED <<os, reaped, run>>
    /\ UNCHANGED <<clock, status, fixed, history, stray>>

KillGroup ==
    /\ h.pc = "killpg"
    /\ Deliver(TRUE, GroupOf(Leader))
    /\ Goes("collect")
    /\ UNCHANGED <<clock, fixed, reaped, run, history>>

Collect ==
    /\ h.pc = "collect"
    /\ ReapIfTerminal
    /\ Goes("finish")
    /\ UNCHANGED <<clock, status, fixed, run, history, stray>>

-----------------------------------------------------------------------------
(* The end of run_driver_subprocess                                         *)

Outcomes ==
    IF run.original THEN {"raised"}
    ELSE IF run.timedOut THEN {"timeout"}
    ELSE IF run.cleanupError THEN {"raised"}
    ELSE IF kind = "unpinned" \/ ~reaped \/ status # "zero" THEN {"infra"}
    ELSE IF kind = "pinned" /\ ~run.confirmed THEN {"infra"}
    ELSE {"infra", "graded"}

Finish ==
    /\ h.pc = "finish"
    /\ \E o \in Outcomes : run' = [run EXCEPT !.outcome = o]
    /\ h' = At("done", "first")
    /\ UNCHANGED <<kernel, fixed, reaped, history, stray>>

-----------------------------------------------------------------------------
(* KeyboardInterrupt in the thread of the driver                            *)

\* Popen.communicate waits a moment for its child before it passes one on.
PerhapsReap == (Terminal /\ Reap) \/ UNCHANGED <<os, reaped>>

Leave == run' = [run EXCEPT !.outcome = "raised"] /\ h' = At("done", "first")

InPlain ==
    CASE h.pc = "communicate" -> PerhapsReap /\ Goes("term") /\ run' = [run EXCEPT !.original = TRUE]
      [] h.pc = "grace" -> PerhapsReap /\ Goes("killpg") /\ UNCHANGED run
      [] h.pc = "collect" -> PerhapsReap /\ Goes("finish") /\ UNCHANGED run
      [] OTHER -> Goes("finish") /\ UNCHANGED <<os, reaped, run>>

\* The first one in a cleanup is kept and the cleanup repeated if there is
\* time; the second one is dropped.
InCleanup ==
    /\ late' \in {late, TRUE}
    /\ UNCHANGED <<os, reaped>>
    /\ IF run.calls = 1
       THEN run' = [run EXCEPT !.cleanupError = TRUE, !.calls = IF late' THEN 1 ELSE 2,
                               !.confirmed = ~late' /\ kind = "pinned" /\ reaped]
       ELSE UNCHANGED run
    /\ h' = At(IF late' \/ run.calls = 2 THEN "finish"
               ELSE IF kind = "unpinned" THEN "kill"
               ELSE IF reaped THEN "finish" ELSE "list", "first")

Interrupt ==
    /\ signals < MaxSignals /\ h.pc # "done"
    /\ signals' = signals + 1
    /\ CASE h.pc \in {"spawned", "finish"} -> Leave /\ UNCHANGED <<os, reaped, late>>
         [] h.pc = "wait" -> /\ run' = [run EXCEPT !.original = TRUE]
                             /\ h' = At("list", "first")
                             /\ UNCHANGED <<os, reaped, late>>
         [] OTHER -> IF kind = "plain" THEN InPlain /\ UNCHANGED late ELSE InCleanup
    /\ UNCHANGED <<clock, status, kind, history, stray>>

-----------------------------------------------------------------------------
Scan ==
    \/ List \/ LastChance \/ Clean \/ SignalGroup \/ SendPidFd \/ SignalsSent \/ Unreadable
    \/ \E p \in Pid : Read(p) \/ Overlook(p)
    \/ \E m \in h.todo : OpenPidFd(m) \/ SkipMember(m)

Step ==
    \/ Spawned \/ WaitEnds \/ Scan \/ ReapLeader \/ Return
    \/ KillUnidentified \/ Gone \/ Probe
    \/ Communicate \/ TermGroup \/ Grace \/ KillGroup \/ Collect
    \/ Finish

Next == Kernel \/ HardDeadline \/ Step \/ GraceOver \/ Interrupt

Spec == Init /\ [][Next]_vars

\* Deadlines pass, grace periods end, the thread runs.
FairSpec == Spec /\ WF_vars(HardDeadline) /\ WF_vars(GraceOver) /\ WF_vars(Step)

-----------------------------------------------------------------------------
(* Properties                                                               *)

\* The containment signals by number what it can only hold by not reaping it.
\* A stranger is never signalled for a pinned session, whatever number it
\* takes and however the cleanup is interrupted and repeated; in the two other
\* paths only behind an interrupt or, for an adapter that communicate runs,
\* output that is no text, which let the adapter be reaped in the wait for it or
\* in its grace period and have its group signalled all the same.
StrangersSpared ==
    /\ TypeOK
    /\ stray => kind # "pinned" /\ (signals > 0 \/ (kind = "plain" /\ run.garbled))

\* A descendant that was in the adapter's session when the confirming list was
\* begun is dead, or has left the session.  A confirmation given by the repeated
\* cleanup, for an adapter reaped by the interrupted one, is no exception.  One
\* forked behind that list may live on, /proc not being read at one moment, and
\* one whose stat the confirming scan could not read counts as gone.
ConfirmedMeansGone ==
    kind = "pinned" /\ run.confirmed =>
        \A p \in Pid : Live(p) /\ os[p].kin /\ os[p].sess = Leader =>
            os[p].born > listedAt \/ os[p].born \in unread

\* A SIGKILL round over the session ends every process that was in the
\* adapter's group when the round listed it, also those it read too late or
\* could not open or read, provided it read one of the group alive or none at
\* all was left unread; the SIGKILL for an unpinned adapter ends the whole group.
KillReachesGroup ==
    killedAt > 0 =>
        \A p \in Pid : Live(p) /\ os[p].kin /\ os[p].grp = Leader => os[p].born > killedAt

\* No descendant that a round of the cleanup was bound to reach, the confirming
\* list or a SIGKILL, is left in the session or the group.
CleanupIsThorough == ConfirmedMeansGone /\ KillReachesGroup

\* The driver call returns, whatever its processes do with SIGTERM, the pipes
\* and /proc, and whatever interrupts it.
HarnessEnds == <>(h.pc = "done")
=============================================================================
