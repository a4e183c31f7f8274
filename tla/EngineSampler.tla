----------------------------- MODULE EngineSampler -----------------------------
(* The resource sampler of one attempt (resources.py): a thread that samples  *)
(* the process tree of an engine until it is told to stop, and the caller     *)
(* that takes the first and the last sample itself, joins the thread for a    *)
(* while, and summarises the list the thread may still append to.             *)
(*                                                                            *)
(* The engine goes on while a sample is taken: it forks, its processes exit,  *)
(* are reaped, and their pids come back as those of other processes of the    *)
(* engine.  A process is named here by the order of its birth, which stands   *)
(* for the pair of pid and start time.  The memory of a sample is the set of  *)
(* the processes whose PSS or RSS it adds up.                                 *)
EXTENDS Integers, Sequences, FiniteSets, FiniteSetsExt

CONSTANTS MaxBorn,        \* processes the engine may ever have
          Pids,           \* the pids they use
          ScanAttempts,   \* pss_scan_attempts
          MaxMoves,       \* bound: steps of the engine
          MaxFaults,      \* bound: reads of a live process that fail or miss
          MaxRounds,      \* bound: samples of the thread
          None            \* no value

ASSUME SamplerAssumption ==
    /\ MaxBorn \in Nat \ {0}
    /\ Cardinality(Pids) >= 2
    /\ ScanAttempts \in Nat \ {0}
    /\ MaxMoves \in Nat /\ MaxFaults \in Nat /\ MaxRounds \in Nat
    /\ None \notin Nat \cup Pids \cup {"baseline", "sample", "end"}

VARIABLES backend,      \* where process tables come from
          group,        \* the engine's cgroup
          proc,         \* the processes of the engine
          moves,        \* steps the engine has taken
          faults,       \* reads that failed so far
          caps,         \* the capture each thread is in
          samples,      \* self.samples
          main,         \* the caller: start, the attempt, stop
          thread,       \* the sampling thread
          stopSet,      \* self._stop
          summary,      \* what _summarize has computed so far
          truth         \* ghost: the CPU of every process when the baseline
                        \* was begun and when it was taken, whom its reads
                        \* missed, and whether the join timed out

samplerVars ==
    <<backend, group, proc, moves, faults, caps, samples, main, thread, stopSet,
      summary, truth>>
processes == <<group, proc, moves>>
control == <<main, thread, stopSet>>

Born == 1 .. MaxBorn
Root == 1

Unborn == [state |-> "unborn", pid |-> None, parent |-> 0, cpu |-> 0]
Process(pid, parent, cpu) ==
    [state |-> "run", pid |-> pid, parent |-> parent, cpu |-> cpu]

Exists(b) == proc[b].state \in {"run", "zombie"}
Runs(b) == proc[b].state = "run"
\* The process a pid names now: a singleton, or empty.
Holder(pid) == {b \in Born : Exists(b) /\ proc[b].pid = pid}
Children(b) == {c \in Born : Exists(c) /\ proc[c].parent = b}
RootPid == proc[Root].pid
\* A set of processes and all that descend from them: what is in every set that
\* holds them and the children of its members.
Below(roots) ==
    {b \in Born :
        /\ Exists(b)
        /\ \A tree \in SUBSET Born :
              roots \subseteq tree /\ (\A c \in tree : Children(c) \subseteq tree)
                  => b \in tree}
Descendants == Below({Root})
CpuNow == [b \in Born |-> proc[b].cpu]
\* The sum over all processes.
SumOf(f) ==
    LET upto[n \in 0 .. MaxBorn] == IF n = 0 THEN 0 ELSE upto[n - 1] + f[n]
    IN upto[MaxBorn]

NoCapture ==
    [pc |-> "idle", phase |-> None, tries |-> 0, listed |-> {}, todo |-> {},
     at |-> None, seen |-> {}, table |-> {}, unread |-> {}, recheck |-> {},
     memory |-> {}, failed |-> FALSE, usage |-> None, tree |-> {}, missed |-> {}]

NoSummary ==
    [last |-> None, values |-> {}, peak |-> None, ends |-> None,
     cpu |-> None, flags |-> {}, seen |-> 0, rows |-> 0]

SamplerInit ==
    /\ backend \in {"proc", "ps"}
    /\ group \in (IF backend = "ps" THEN {"none"} ELSE {"none", "live"})
    /\ LET p == CHOOSE pid \in Pids : TRUE
           q == CHOOSE pid \in Pids : pid # p
       IN proc = [b \in Born |->
                    IF b = Root THEN Process(p, 0, 1)
                    ELSE IF b = Root + 1 THEN Process(q, Root, 1) ELSE Unborn]
    /\ moves = 0 /\ faults = 0
    /\ caps = [t \in {"main", "thread"} |-> NoCapture]
    /\ samples = <<>>
    /\ main = "new" /\ thread = "none" /\ stopSet = FALSE
    /\ summary = NoSummary
    /\ truth = [begun |-> CpuNow, taken |-> CpuNow, missed |-> {}, late |-> FALSE]
-----------------------------------------------------------------------------
(* The engine.                                                                *)

Fork ==
    \E b, c \in Born, pid \in Pids :
        /\ Runs(b) /\ proc[c].state = "unborn"
        /\ \A d \in Born : proc[d].state = "unborn" => c <= d
        /\ Holder(pid) = {}
        /\ proc' = [proc EXCEPT ![c] = Process(pid, b, 1)]
        /\ UNCHANGED group

Work ==
    \E b \in Born :
        /\ Runs(b)
        /\ proc' = [proc EXCEPT ![b].cpu = @ + 1]
        /\ UNCHANGED group

\* The children of a process that exits leave the tree.  Its parent may reap it
\* at once.
Exit ==
    \E b \in Born, state \in {"zombie", "gone"} :
        /\ Runs(b)
        /\ proc' = [c \in Born |->
                      IF c = b THEN [proc[c] EXCEPT !.state = state]
                      ELSE IF proc[c].parent = b THEN [proc[c] EXCEPT !.parent = 0]
                      ELSE proc[c]]
        /\ UNCHANGED group

Reap ==
    \E b \in Born :
        /\ proc[b].state = "zombie"
        /\ proc' = [proc EXCEPT ![b].state = "gone"]
        /\ UNCHANGED group

\* CgroupV2Group.cleanup, called by a manager that is closed from another
\* thread: every process of the group is killed and the directory goes.
RemoveGroup ==
    /\ group = "live"
    /\ group' = "removed"
    /\ proc' = [b \in Born |-> IF Exists(b) THEN [proc[b] EXCEPT !.state = "gone"]
                               ELSE proc[b]]

\* The engine matters while something is still to be read.
EngineStep ==
    /\ main \in {"baseline", "attempt", "join", "end"} \/ caps["thread"].pc # "idle"
    /\ main \notin {"done", "unavailable", "failed"}
    /\ moves < MaxMoves /\ moves' = moves + 1
    /\ Fork \/ Work \/ Exit \/ Reap \/ RemoveGroup
    /\ UNCHANGED <<backend, faults, caps, samples, control, summary, truth>>
-----------------------------------------------------------------------------
(* _capture and process_tree_snapshot.                                        *)

\* The pids a scan begins with: those of the group and the root, or the root,
\* whose descendants are then found through /proc.
ProcessIds ==
    IF group = "live" THEN {proc[b].pid : b \in {c \in Born : Runs(c)}} ELSE {}

\* tree and missed are ghosts: the processes a scan is about, and those that a
\* read of it has missed.
Scan(phase, tries, listed) ==
    [NoCapture EXCEPT !.pc = "scan", !.phase = phase, !.tries = tries,
                      !.listed = listed, !.todo = listed \cup {RootPid},
                      !.tree = IF listed = {} THEN Descendants
                               ELSE UNION {Holder(pid) : pid \in listed \cup {RootPid}}]
Begun(phase) == Scan(phase, 1, ProcessIds)

Item(b) == [b |-> b, pid |-> proc[b].pid, cpu |-> proc[b].cpu, zombie |-> ~Runs(b)]

\* When no pid is left the memory is read.
Advanced(c) == [c EXCEPT !.pc = IF c.todo = {} THEN "read" ELSE "scan",
                         !.unread = {i \in c.table : c.todo = {}}]

\* Who is missed with these: nobody else when the pids were listed, all below
\* them when they had to be found.
Hidden(c, missed) == IF c.listed # {} THEN missed ELSE Below(missed)

\* The stat of one pid.  A pid that names nothing any more is passed over, and
\* so is one whose stat cannot be read or parsed though its process lives.  The
\* children are read next, unless the pids were listed.
StatRead(c, pid, read) ==
    LET d == [c EXCEPT !.seen = @ \cup {pid}, !.todo = @ \ {pid},
                       !.table = @ \cup {Item(b) : b \in read},
                       !.missed = @ \cup Hidden(c, Holder(pid) \ read)]
    IN IF c.listed = {} /\ read # {} THEN [d EXCEPT !.pc = "children", !.at = pid]
       ELSE Advanced(d)

ReadStat(t) ==
    /\ backend = "proc" /\ caps[t].pc = "scan"
    /\ \E pid \in caps[t].todo : \E read \in {{}, Holder(pid)} :
          /\ read # Holder(pid) => faults < MaxFaults
          /\ faults' = IF read # Holder(pid) THEN faults + 1 ELSE faults
          /\ caps' = [caps EXCEPT ![t] = StatRead(caps[t], pid, read)]
    /\ UNCHANGED <<backend, processes, samples, control, summary, truth>>

\* The children of one pid, thread after thread: those of the process that has
\* the pid now.  The list of threads or the children of one may not be read, or
\* a child may pass from a thread yet unread to one already read.
ChildrenRead(c, found) ==
    LET kids == UNION {Children(b) : b \in Holder(c.at)}
    IN Advanced([c EXCEPT !.at = None,
                          !.todo = (@ \cup {proc[b].pid : b \in found}) \ c.seen,
                          !.missed = @ \cup Hidden(c, kids \ found)])

ReadChildren(t) ==
    /\ caps[t].pc = "children"
    /\ LET kids == UNION {Children(b) : b \in Holder(caps[t].at)}
       IN \E found \in SUBSET kids :
             /\ found # kids => faults < MaxFaults
             /\ faults' = IF found # kids THEN faults + 1 ELSE faults
             /\ caps' = [caps EXCEPT ![t] = ChildrenRead(caps[t], found)]
    /\ UNCHANGED <<backend, processes, samples, control, summary, truth>>

\* smaps_rollup of one pid, in any order: eight readers share the work.  It
\* gives the PSS of the process that has the pid now.  The read fails for a
\* process that has exited; it may also fail for one that lives.
ReadPss(t) ==
    /\ caps[t].pc = "read"
    /\ \E i \in caps[t].unread :
          LET here == {b \in Holder(i.pid) : Runs(b)}
              c == [caps[t] EXCEPT !.unread = @ \ {i}]
          IN \/ /\ here # {}
                /\ caps' = [caps EXCEPT ![t] = [c EXCEPT !.memory = @ \cup here]]
                /\ UNCHANGED faults
             \/ /\ here # {} => faults < MaxFaults
                /\ faults' = IF here # {} THEN faults + 1 ELSE faults
                /\ caps' = [caps EXCEPT ![t] =
                              [c EXCEPT !.recheck = IF i.zombie THEN @ ELSE @ \cup {i}]]
    /\ UNCHANGED <<backend, processes, samples, control, summary, truth>>

\* Mutant: what could not be read is taken for gone.
FailedMeansGone(i) == i \in UNION {caps[t].recheck : t \in DOMAIN caps}

\* A process whose PSS could not be read counts as zero only when it is gone:
\* nothing has its pid, something else has it, or it is a zombie.
ConfirmedGone(i) == \A b \in Holder(i.pid) : b # i.b \/ ~Runs(b)

Recheck(t) ==
    /\ caps[t].pc = "read" /\ caps[t].unread = {}
    /\ caps' = [caps EXCEPT ![t].pc = "judge",
                            ![t].recheck = {},
                            ![t].failed = \E i \in caps[t].recheck : ~ConfirmedGone(i)]
    /\ UNCHANGED <<backend, processes, faults, samples, control, summary, truth>>

\* A scan that missed a measurement is repeated while the root is there.
RootAlive(c) == \E i \in c.table : i.pid = RootPid
Whole(c) == c.table # {} /\ ~c.failed

ScanAgain(t) ==
    LET c == caps[t] IN
    /\ c.pc = "judge"
    /\ ~Whole(c) /\ RootAlive(c) /\ c.tries < ScanAttempts
    /\ caps' = [caps EXCEPT ![t] = Scan(c.phase, c.tries + 1, c.listed)]
    /\ UNCHANGED <<backend, processes, faults, samples, control, summary, truth>>

ScanEnds(t) ==
    LET c == caps[t] IN
    /\ c.pc = "judge"
    /\ Whole(c) \/ ~RootAlive(c) \/ c.tries = ScanAttempts
    /\ caps' = [caps EXCEPT ![t].pc = "append",
                            ![t].usage = IF group = "live" THEN SumOf(CpuNow) ELSE None]
    /\ UNCHANGED <<backend, processes, faults, samples, control, summary, truth>>

\* Darwin: one ps lists every process, which gives the tree and its RSS.
PsScan(t) ==
    /\ backend = "ps" /\ caps[t].pc = "scan"
    /\ caps' = [caps EXCEPT ![t].pc = "append",
                            ![t].table = {Item(b) : b \in Descendants},
                            ![t].memory = Descendants]
    /\ UNCHANGED <<backend, processes, faults, samples, control, summary, truth>>

\* ps may time out or fail, which nothing in _capture catches.
PsRaises(t) ==
    /\ backend = "ps" /\ caps[t].pc = "scan" /\ faults < MaxFaults
    /\ faults' = faults + 1
    /\ caps' = [caps EXCEPT ![t] = [NoCapture EXCEPT !.pc = "raised"]]
    /\ UNCHANGED <<backend, processes, samples, control, summary, truth>>

\* Ghost: who was there when the scan began, still is, and was not missed.
Steady(c) == {b \in c.tree \ c.missed : Exists(b) /\ (c.listed = {} => b \in Descendants)}

Sample(c) ==
    [phase |-> c.phase, memory |-> IF Whole(c) THEN c.memory ELSE {None},
     counters |-> [b \in {i.b : i \in c.table} |->
                     (CHOOSE i \in c.table : i.b = b).cpu],
     root |-> RootAlive(c), tries |-> c.tries, usage |-> c.usage,
     steady |-> {b \in Steady(c) : Runs(b)}]
Measured(s) == s.memory # {None}

AppendSample(t) ==
    /\ caps[t].pc = "append"
    /\ samples' = Append(samples, Sample(caps[t]))
    /\ caps' = [caps EXCEPT ![t] = NoCapture]
    /\ truth' = IF caps[t].phase = "baseline"
                THEN [truth EXCEPT !.taken = CpuNow, !.missed = caps[t].missed] ELSE truth
    /\ UNCHANGED <<backend, processes, faults, control, summary>>

Capture(t) ==
    \/ ReadStat(t) \/ ReadChildren(t) \/ ReadPss(t) \/ Recheck(t) \/ ScanAgain(t) \/ ScanEnds(t)
    \/ PsScan(t) \/ PsRaises(t) \/ AppendSample(t)
-----------------------------------------------------------------------------
(* The caller and the thread.                                                 *)

Start ==
    /\ main = "new"
    /\ main' = "baseline"
    /\ caps' = [caps EXCEPT !["main"] = Begun("baseline")]
    /\ truth' = [truth EXCEPT !.begun = CpuNow]
    /\ UNCHANGED <<backend, processes, faults, samples, thread, stopSet, summary>>

StartThread ==
    /\ main = "baseline" /\ caps["main"].pc = "idle"
    /\ main' = "attempt" /\ thread' = "runs"
    /\ UNCHANGED <<backend, processes, faults, caps, samples, stopSet, summary, truth>>

CaptureRaised(from, to) ==
    /\ main = from /\ caps["main"].pc = "raised"
    /\ main' = to
    /\ caps' = [caps EXCEPT !["main"] = NoCapture]
    /\ UNCHANGED <<backend, processes, faults, samples, thread, stopSet, summary, truth>>

\* The attempt goes on without resources; or its row says that the sampler failed.
SamplerUnavailable == CaptureRaised("baseline", "unavailable")
SamplerFailed == CaptureRaised("end", "failed")

\* The thread waits for the event or for its interval to pass.
Waiting == thread = "runs" /\ caps["thread"].pc = "idle"
Capturing == thread = "runs" /\ caps["thread"].pc # "idle"

Round ==
    /\ Waiting /\ ~stopSet
    /\ Len(samples) <= MaxRounds
    /\ caps' = [caps EXCEPT !["thread"] = Begun("sample")]
    /\ UNCHANGED <<backend, processes, faults, samples, control, summary, truth>>

\* The event is set, or an exception ends the thread.
ThreadEnds ==
    /\ \/ Waiting /\ stopSet
       \/ thread = "runs" /\ caps["thread"].pc = "raised"
    /\ thread' = "ended"
    /\ caps' = [caps EXCEPT !["thread"] = NoCapture]
    /\ UNCHANGED <<backend, processes, faults, samples, main, stopSet, summary, truth>>

Stop ==
    /\ main = "attempt"
    /\ main' = "join" /\ stopSet' = TRUE
    /\ UNCHANGED <<backend, processes, faults, caps, samples, thread, summary, truth>>

\* Mutant: the thread is not joined.
TakeEndAtOnce ==
    /\ main = "join"
    /\ main' = "end"
    /\ caps' = [caps EXCEPT !["main"] = Begun("end")]
    /\ UNCHANGED <<backend, processes, faults, samples, thread, stopSet, summary, truth>>

\* join(timeout): a second at least, so it is a capture that outlasts it, not a
\* thread that only has to see the event.
Join ==
    /\ main = "join"
    /\ thread = "ended" \/ Capturing
    /\ main' = "end"
    /\ caps' = [caps EXCEPT !["main"] = Begun("end")]
    /\ truth' = [truth EXCEPT !.late = thread # "ended"]
    /\ UNCHANGED <<backend, processes, faults, samples, thread, stopSet, summary>>
-----------------------------------------------------------------------------
(* _summarize reads the list again and again; the thread may be between.      *)

First == samples[1]
Latest == samples[Len(samples)]

SummarizeStep(from, to) ==
    /\ main = from /\ main' = to
    /\ UNCHANGED <<backend, processes, faults, caps, samples, thread, stopSet, truth>>

SummarizeEnds ==
    /\ caps["main"].pc = "idle"
    /\ SummarizeStep("end", "values")
    /\ summary' = [summary EXCEPT !.last = Latest]

SummarizeValues ==
    /\ SummarizeStep("values", "peak")
    /\ summary' = [summary EXCEPT !.values = {i \in DOMAIN samples : Measured(samples[i])}]

\* The peak is there only when every sample has a measurement.
SummarizePeak ==
    /\ SummarizeStep("peak", "cpu")
    /\ summary' = [summary EXCEPT
                     !.peak = IF Cardinality(summary.values) # Len(samples) THEN @
                              ELSE Max({Cardinality(samples[i].memory) :
                                          i \in summary.values}),
                     !.ends = IF Measured(summary.last)
                              THEN Cardinality(summary.last.memory) ELSE @]

\* The CPU of the group between the first and the last sample; without a group,
\* of every process that was seen, from what it had used at the baseline.
CountersOf(b) == {samples[i].counters[b] :
              i \in {j \in DOMAIN samples : b \in DOMAIN samples[j].counters}}
\* Mutant: counters kept by pid.
InitialOfPid(b) ==
    LET same == {d \in DOMAIN First.counters : proc[d].pid = proc[b].pid}
    IN IF same = {} THEN 0 ELSE First.counters[CHOOSE d \in same : TRUE]
Initial(b) == IF b \in DOMAIN First.counters THEN First.counters[b] ELSE 0
TreeCpu == SumOf([b \in Born |-> IF CountersOf(b) = {} THEN 0
                                 ELSE Max({0, Max(CountersOf(b)) - Initial(b)})])
ByGroup == First.usage # None /\ summary.last.usage # None

SummarizeCpu ==
    /\ SummarizeStep("cpu", "counts")
    /\ summary' = [summary EXCEPT
                     !.cpu = IF ByGroup THEN Max({0, summary.last.usage - First.usage})
                             ELSE TreeCpu,
                     !.flags = IF ByGroup THEN @
                               ELSE @ \cup {"proc_tree_child_exit_loss_risk"}]

SummarizeCounts ==
    /\ SummarizeStep("counts", "rows")
    /\ summary' = [summary EXCEPT
                     !.flags = @ \cup {f \in {"engine_root_exited"} : ~summary.last.root}
                                 \cup {f \in {"baseline_end_only"} : Len(samples) <= 2},
                     !.seen = Len(samples)]

\* The rows of the samples file.
SamplesReturned ==
    /\ SummarizeStep("rows", "done")
    /\ summary' = [summary EXCEPT !.rows = Len(samples)]

Summarize ==
    \/ SummarizeEnds \/ SummarizeValues \/ SummarizePeak \/ SummarizeCpu
    \/ SummarizeCounts \/ SamplesReturned
-----------------------------------------------------------------------------
Caller ==
    \/ Start \/ StartThread \/ SamplerUnavailable \/ SamplerFailed \/ Stop \/ Join
    \/ Summarize \/ Capture("main")
Thread == Round \/ ThreadEnds \/ Capture("thread")
SamplerNext == Caller \/ Thread \/ EngineStep

SamplerSpec == SamplerInit /\ [][SamplerNext]_samplerVars
-----------------------------------------------------------------------------
SamplerTypeOK ==
    /\ backend \in {"proc", "ps"} /\ group \in {"none", "live", "removed"}
    /\ \A b \in Born :
          /\ proc[b].state \in {"unborn", "run", "zombie", "gone"}
          /\ proc[b].pid \in Pids \cup {None}
          /\ proc[b].parent \in 0 .. MaxBorn /\ proc[b].cpu \in 0 .. MaxMoves + 1
    /\ moves \in 0 .. MaxMoves /\ faults \in 0 .. MaxFaults
    /\ \A t \in DOMAIN caps :
          /\ caps[t].pc \in {"idle", "scan", "children", "read", "judge", "append", "raised"}
          /\ caps[t].todo \cup caps[t].seen \subseteq Pids
          /\ caps[t].memory \subseteq Born
    /\ main \in {"new", "baseline", "attempt", "join", "end", "values",
                 "peak", "cpu", "counts", "rows", "done", "unavailable", "failed"}
    /\ thread \in {"none", "runs", "ended"}

\* A memory that the scan reports misses nobody who was listed or was in the tree
\* when the scan began and still is when it ends, but those whose own stat was
\* passed over and, in a tree, those below a stat or a child that was (an orphan
\* is in no tree).  A summary that gives a peak rests on such samples only: it is
\* at least the memory of the first sample and of the one the summary calls the
\* last, though the thread may append while the summary is made
\* (read_process_tree, process_tree_snapshot, _summarize).
PeakIsWhole ==
    /\ SamplerTypeOK
    /\ \A i \in DOMAIN samples :
          Measured(samples[i]) => samples[i].steady \subseteq samples[i].memory
    /\ main = "done" /\ summary.peak # None =>
          /\ Measured(First) /\ Measured(summary.last)
          /\ summary.peak >= Cardinality(First.memory)
          /\ summary.ends # None /\ summary.peak >= summary.ends

\* The CPU an attempt is charged was all used after its baseline was begun, but
\* for that of processes a read of the baseline missed when there is no group to
\* meter; and it is not less than what the processes the last sample saw had used
\* since the baseline was taken, whatever exited, came in with an old pid, or was
\* appended late (read_process_tree, _summarize, ProcStat.identity).
Before(b) == IF b \in truth.missed /\ ~ByGroup THEN 0 ELSE truth.begun[b]
CpuIsOfThisAttempt ==
    summary.cpu # None =>
        /\ summary.cpu <= SumOf([b \in Born |-> proc[b].cpu - Before(b)])
        /\ summary.cpu >=
              SumOf([b \in Born |->
                       IF b \in DOMAIN summary.last.counters
                       THEN Max({0, summary.last.counters[b] - truth.taken[b]}) ELSE 0])

\* Unless the join timed out, the summary and the rows are of one list: it
\* begins with the baseline, ends with the sample stop took, every sample is
\* counted and every counted sample is a row (stop, _summarize).
EndsWithTheEnd ==
    main \in {"values", "peak", "cpu", "counts", "rows", "done"} /\ ~truth.late =>
        /\ First.phase = "baseline" /\ Latest.phase = "end"
        /\ \A i \in 2 .. Len(samples) - 1 : samples[i].phase = "sample"
        /\ summary.last = Latest
        /\ main = "done" => summary.seen = Len(samples) /\ summary.rows = Len(samples)
=============================================================================
