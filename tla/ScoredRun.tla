------------------------------ MODULE ScoredRun ------------------------------
(***************************************************************************)
(* Which engine runs when, and which rows count: run_one under a score     *)
(* mode and a Chrome baseline policy, score_eligible_for_run,              *)
(* should_include_score (runner/run.py), and the capability verdicts that  *)
(* summarize_semantic_results (runner/semantics.py) reads off the rows.    *)
(*                                                                         *)
(* The tasks are those that the capability map lists under one capability. *)
(* Items (task, attempt) run side by side; what happens inside an attempt  *)
(* is the choice of its status: "pass", "infra", or "fail" for all those   *)
(* that blame the engine (fail, unsupported, timeout, crash).              *)
(***************************************************************************)
EXTENDS Naturals, Sequences, FiniteSets

CONSTANTS
    EngineOrder,  \* ENGINE_ORDER
    Chrome,       \* the engine that may be the baseline
    Task,         \* the tasks of one capability, numbered in the order of the run
    K,            \* attempts of each task
    ScoreModes    \* score modes: "independent", "baseline_checked"

Engine == {EngineOrder[n] : n \in DOMAIN EngineOrder}
Candidate == Engine \ {Chrome}  \* NATIVE_CANDIDATES

ASSUME ScoreAssumption ==
    /\ EngineOrder \in Seq(Engine)
    /\ \A m, n \in DOMAIN EngineOrder : m # n => EngineOrder[m] # EngineOrder[n]
    /\ Chrome \in Engine
    /\ Task \subseteq Nat /\ IsFiniteSet(Task)
    /\ K \in Nat \ {0}
    /\ ScoreModes \subseteq {"independent", "baseline_checked"}

Policy == {"off", "required", "best_effort"}
Status == {"pass", "fail", "infra", "chrome_gate_fail"}
TaskAttempt == Task \X (1..K)

VARIABLES
    config,  \* the run: its mode, tasks, engines, policies; never changes
    item,    \* run_one for each item: its position and the engines left
    rows     \* results.jsonl: the rows of an item and engine, in order

scoreVars == <<config, item, rows>>

Row == [status : Status, scored : BOOLEAN]

-----------------------------------------------------------------------------
(* The configuration                                                        *)

Rank(e) == CHOOSE n \in DOMAIN EngineOrder : EngineOrder[n] = e

\* parse_engines: some engines, in the order of ENGINE_ORDER.
Selection(S) ==
    CHOOSE s \in [1..Cardinality(S) -> S] :
        \A m, n \in 1..Cardinality(S) : m < n => Rank(s[m]) < Rank(s[n])
Selected(c) == {c.engines[n] : n \in DOMAIN c.engines}

Gating(c) == c.mode # "independent"

\* Chrome must be selected where a baseline is required of it.
Accepted(c) ==
    Gating(c) /\ (\E t \in c.tasks : c.policy[t] = "required") => Chrome \in Selected(c)

\* Options that the run never looks at have one value.
Canonical(c) ==
    /\ \A t \in Task \ c.tasks : c.policy[t] = "off"
    /\ c.rotates => ~Gating(c)
    /\ ~c.rotates => c.seed = 0

Config ==
    {c \in [mode : ScoreModes,
            tasks : SUBSET Task,      \* the selected ones
            probes : SUBSET Task,     \* role semantic_probe; the others are diagnostics
            engines : {Selection(S) : S \in SUBSET Engine},
            policy : [Task -> Policy],
            flawed : BOOLEAN,         \* --debug, or fallback_allowed
            rotates : BOOLEAN,        \* --resource-profile is not off
            seed : 0..Len(EngineOrder) - 1] :
        Accepted(c) /\ Canonical(c)}

AnyRoster(c) == Selected(c) # {}  \* mutated: an incomplete set of engines is scored

\* score_eligible_for_run: the complete roster, or all candidates without Chrome.
CompleteRoster(c) ==
    \/ Selected(c) = Engine
    \/ /\ Gating(c)
       /\ Selected(c) = Candidate
       /\ \A t \in c.tasks : c.policy[t] = "off"
ScoreEligible(c) == ~c.flawed /\ (c.tasks # {} => CompleteRoster(c))

ScoredEngines(c) == IF Gating(c) THEN Candidate ELSE Engine

ShouldIncludeScore(c, eligible, t, e, status) ==
    /\ eligible
    /\ e \in ScoredEngines(c)
    /\ status \notin {"chrome_gate_fail", "infra"}
    /\ t \in c.probes

Rotated(c, offset) ==
    SubSeq(c.engines, offset + 1, Len(c.engines)) \o SubSeq(c.engines, 1, offset)

\* resource_engine_order: the task with index n (from 0), its attempt a of k.
RotateByAttempt(c, n, k, a) ==  \* mutated: tasks do not move the rotation by k
    LET len == Len(c.engines)  offset == (c.seed + n + a - 1) % len IN
    IF ~c.rotates \/ Gating(c) \/ len < 2 THEN c.engines
    ELSE Rotated(c, offset)
ResourceEngineOrder(c, n, k, a) ==
    LET len == Len(c.engines)
        position == n * k + a - 1
        offset == (c.seed + position) % len IN
    IF ~c.rotates \/ Gating(c) \/ len < 2 THEN c.engines
    ELSE Rotated(c, offset)

-----------------------------------------------------------------------------
ScoreTypeOK ==
    /\ config \in Config
    /\ item \in [TaskAttempt -> [pc : {"new", "run", "skip", "error"},
                                queue : Seq(Selected(config))]]
    /\ rows \in [TaskAttempt \X Engine -> Seq(Row)]

ScoreInit ==
    /\ config \in Config
    /\ item = [i \in TaskAttempt |-> [pc |-> "new", queue |-> <<>>]]
    /\ rows = [r \in TaskAttempt \X Engine |-> <<>>]

Others(c) == Selection(Selected(c) \ {Chrome})

Required(t) == Gating(config) /\ config.policy[t] = "required"
BestEffort(t) == Gating(config) /\ config.policy[t] = "best_effort"

\* Chrome runs first, as a baseline.
HasBaseline(t) == Required(t) \/ (BestEffort(t) /\ Chrome \in Selected(config))

\* task_order_index: the position of the task among the selected ones.
TaskIndex(t) == Cardinality({u \in config.tasks : u < t})

\* The engines of an item without a baseline.
EnginesToRun(i) ==
    IF BestEffort(i[1]) THEN Others(config)
    ELSE ResourceEngineOrder(config, TaskIndex(i[1]), K, i[2])

Waiting(i) == item[i].pc = "new" /\ i[1] \in config.tasks

\* run_driver_attempt and run_gate_skip_attempt end in append_result.
AppendResult(i, e, status, eligible) ==
    rows' = [rows EXCEPT ![<<i, e>>] = Append(@,
        [status |-> status,
         scored |-> ShouldIncludeScore(config, eligible, i[1], e, status)])]

\* No oracle at all, a baseline that is off, or one that cannot be run.
Begin(i) ==
    /\ Waiting(i)
    /\ ~HasBaseline(i[1])
    /\ item' = [item EXCEPT ![i] = [pc |-> "run", queue |-> EnginesToRun(i)]]
    /\ UNCHANGED <<config, rows>>

GateFailedOnly(t, status) == Required(t) /\ status = "fail"  \* mutated: infra passes
GateFails(t, status) == Required(t) /\ status # "pass"

\* run_required_gate or the best-effort baseline: never scored.
RunBaseline(i) ==
    \E status \in {"pass", "fail", "infra"} :
        /\ Waiting(i)
        /\ HasBaseline(i[1])
        /\ AppendResult(i, Chrome, status, FALSE)
        /\ item' = [item EXCEPT ![i] =
               [pc |-> IF GateFails(i[1], status) THEN "skip" ELSE "run",
                queue |-> Others(config)]]
        /\ UNCHANGED config

RunEngine(i) ==
    \E status \in {"pass", "fail", "infra"} :
        /\ item[i].pc = "run" /\ item[i].queue # <<>>
        /\ AppendResult(i, Head(item[i].queue), status, ScoreEligible(config))
        /\ item' = [item EXCEPT ![i].queue = Tail(@)]
        /\ UNCHANGED config

\* run_gate_skip_attempt
SkipEngine(i) ==
    /\ item[i].pc = "skip" /\ item[i].queue # <<>>
    /\ AppendResult(i, Head(item[i].queue), "chrome_gate_fail", FALSE)
    /\ item' = [item EXCEPT ![i].queue = Tail(@)]
    /\ UNCHANGED config

\* A launch or an artifact directory raises: the item ends with the rows it
\* has.  (With jobs = 1 no other item goes on, which is one of the behaviours.)
Raise(i) ==
    /\ Waiting(i) \/ item[i].queue # <<>>
    /\ item' = [item EXCEPT ![i] = [pc |-> "error", queue |-> <<>>]]
    /\ UNCHANGED <<config, rows>>

ScoreNext ==
    \E i \in TaskAttempt :
        Begin(i) \/ RunBaseline(i) \/ RunEngine(i) \/ SkipEngine(i) \/ Raise(i)

ScoreSpec == ScoreInit /\ [][ScoreNext]_scoreVars
-----------------------------------------------------------------------------
(* What the reports read off the rows                                       *)

RowsOf(t, a, e) == rows[<<<<t, a>>, e>>]

\* summarize_semantic_results: an engine has a verdict on an attempt of the
\* capability when every probe was selected and has a row.
Judged(a, e) ==
    /\ config.probes # {}
    /\ config.probes \subseteq config.tasks
    /\ \A t \in config.probes : RowsOf(t, a, e) # <<>>

\* The row_index keeps the last row of a task, engine and attempt.
LastRow(t, a, e) == RowsOf(t, a, e)[Len(RowsOf(t, a, e))]
Rowed(a, e) == {t \in config.probes : RowsOf(t, a, e) # <<>>}

\* The verdict enters scored_total.
Scored(a, e) == Judged(a, e) /\ \A t \in Rowed(a, e) : LastRow(t, a, e).scored

-----------------------------------------------------------------------------
(* Properties                                                               *)

Completed(i) == item[i].pc \in {"run", "skip"} /\ item[i].queue = <<>>

\* run_one gives a finished item one row of every selected engine, and never
\* two: expected_result_rows counts on it, and a report keeps the last of two.
OneRowEach ==
    \A i \in TaskAttempt, e \in Engine :
        /\ Len(rows[<<i, e>>]) <= 1
        /\ Completed(i) => (rows[<<i, e>>] # <<>> <=> e \in Selected(config))

\* Under a required baseline a candidate is executed in an item exactly when
\* Chrome's row of this very item is a pass; otherwise its row says so.  No
\* other policy keeps a candidate from running.
GateDecidesThisAttempt ==
    \A i \in TaskAttempt, e \in Candidate : rows[<<i, e>>] # <<>> =>
        LET skipped == rows[<<i, e>>][1].status = "chrome_gate_fail" IN
        IF Required(i[1])
        THEN /\ rows[<<i, Chrome>>] # <<>>
             /\ skipped <=> rows[<<i, Chrome>>][1].status # "pass"
        ELSE ~skipped

\* The rows of an item say who ran and why the others did not.
RowsFollowTheGate == ScoreTypeOK /\ OneRowEach /\ GateDecidesThisAttempt

\* Scores compare like with like: a capability attempt enters the score of one
\* engine only if it enters that of every scored engine, unless that engine
\* has no row of a probe yet or never will, or was not reached (infra).
EqualFooting ==
    \A a \in 1..K, x, y \in Engine :
        Scored(a, x) /\ y \in ScoredEngines(config) =>
            \/ Scored(a, y)
            \/ \E t \in config.probes : RowsOf(t, a, y) = <<>> /\ y \in Selected(config)
            \/ \E t \in Rowed(a, y) : LastRow(t, a, y).status = "infra"

\* A probe that Chrome failed under a required baseline, or that was not
\* selected or has no row, takes its capability attempt out of every score.
ScoredOnWholeEvidence ==
    \A a \in 1..K, e \in Engine : Scored(a, e) =>
        /\ Rowed(a, e) = config.probes
        /\ \A t \in config.probes : Required(t) =>
              RowsOf(t, a, Chrome) # <<>> /\ LastRow(t, a, Chrome).status = "pass"

\* A score is comparable: the same attempts for every engine, all of each.
ScoresAreComparable == EqualFooting /\ ScoredOnWholeEvidence

\* Bounds of the next property: attempts per task, and tasks of the run.
MaxAttempts == 3
MaxTasks == 3

\* Where engine e comes in the item at a position of the run.
Ordinal(c, k, position, e) ==
    LET order == ResourceEngineOrder(c, position \div k, k, (position % k) + 1)
    IN CHOOSE n \in DOMAIN order : order[n] = e

\* The plan that a run with a resource profile starts from: any number of
\* consecutive items gives every two engines every ordinal equally often, but
\* for a difference of one.
RotationIsFair ==
    config.rotates /\ (\A i \in TaskAttempt : item[i].pc = "new") =>
        \A k \in 1..MaxAttempts : \A last \in 0..(MaxTasks * k - 1) :
        \A first \in 0..last, n \in DOMAIN config.engines :
            LET Times(e) == Cardinality(
                    {p \in first..last : Ordinal(config, k, p, e) = n})
            IN \A d, e \in Selected(config) : Times(d) <= Times(e) + 1
=============================================================================
