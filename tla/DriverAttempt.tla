---------------------------- MODULE DriverAttempt ----------------------------
(***************************************************************************)
(* run_driver_attempt (runner/run.py): one attempt of one task on one      *)
(* engine.  The driver returns or raises, the outcome is classified, the   *)
(* page targets and the resource samplers are cleaned up, an engine exit   *)
(* seen by then is promoted over whatever the driver said, the artifact    *)
(* directory is published and the row appended.                            *)
(*                                                                         *)
(* The engine may exit at any step.  An exited child is a zombie until it  *)
(* is waited for; process_diagnostic peeks at the zombie (the only moment  *)
(* that still tells whether it dumped core) and then polls, which waits.   *)
(***************************************************************************)
EXTENDS Naturals

CONSTANTS
    Nil,
    TornDown  \* another thread may poll the engine meanwhile (close_all)

VARIABLES
    pc,         \* the step of run_driver_attempt
    engine,     \* the child: running, zombie or waited, and its core-dump bit
    driver,     \* what the driver did: a status it returned or an exception
    peeked,     \* the core-dump bit _peek_core_dumped has just read
    observed,   \* observed_engine_process
    result,     \* the row being built: status, failure.origin, .process, secondary
    graderOk,   \* grader["ok"], written to grader.json
    dir,        \* the artifact directory: absent, tmp, written or final
    row,        \* the line of results.jsonl
    saw         \* history: a peek of this attempt read the zombie's bit

vars == <<pc, engine, driver, peeked, observed, result, graderOk, dir, row, saw>>

\* The driver returns one of these, already resolved from "status" and "ok".
Returned == {"pass", "fail", "unsupported", "infra"}

\* The exceptions run_driver_attempt tells apart, in the order of its handlers.
Raised == {"SubprocessTimeout", "TimeoutError", "CDPUnsupported", "CDPError",
           "ConnectionError", "ETIMEDOUT", "SocketOSError", "PlainOSError", "Exception"}

\* The handlers that look at the engine before they choose a status.
Diagnosing == {"SubprocessTimeout", "TimeoutError", "ConnectionError", "ETIMEDOUT",
               "SocketOSError", "PlainOSError"}

Core == {"dumped", "not_dumped", "unknown"}
Diagnostic == [state : {"running", "exited"}, core : Core]

ASSUME ConstantsAssumption == TornDown \in BOOLEAN /\ Nil \notin Diagnostic

Origin == {"none", "engine_process", "task_timeout", "client_transport", "binding_catalog",
           "driver_process"}
Result == [status : Returned \cup {"timeout", "crash"}, origin : Origin,
           process : Diagnostic \cup {Nil}, secondary : Returned \cup {"timeout", "crash", Nil},
           score_included : BOOLEAN]

Base == [status |-> "infra", origin |-> "none", process |-> Nil, secondary |-> Nil,
         score_included |-> FALSE]

TypeOK ==
    /\ pc \in {"begin", "drive", "handler_peek", "handler_poll", "cleanup", "promote",
               "final_peek", "final_poll", "score", "publish", "append", "done", "aborted"}
    /\ engine \in [life : {"running", "zombie", "waited"}, core : {"dumped", "not_dumped"}]
    /\ driver \in Returned \cup Raised \cup {"unavailable", Nil}
    /\ peeked \in Core
    /\ observed \in Diagnostic \cup {Nil}
    /\ result \in Result
    /\ graderOk \in BOOLEAN
    /\ dir \in {"absent", "tmp", "written", "final"}
    /\ row \in Result \cup {Nil}
    /\ saw \in BOOLEAN

Init ==
    /\ pc = "begin"
    /\ engine = [life |-> "running", core |-> "not_dumped"]
    /\ driver = Nil
    /\ peeked = "unknown"
    /\ observed = Nil
    /\ result = Base
    /\ graderOk = FALSE
    /\ dir = "absent"
    /\ row = Nil
    /\ saw = FALSE

-----------------------------------------------------------------------------
\* Nothing is overwritten: the final directory does not exist yet.
Begin ==
    /\ pc = "begin"
    /\ dir = "absent"
    /\ dir' = "tmp"
    /\ pc' = "drive"
    /\ UNCHANGED <<engine, driver, peeked, observed, result, graderOk, row, saw>>

\* The driver returned a payload.  Only a script that exited non-zero names an
\* origin of its own; grader["ok"] is what made it a pass.
DriverReturns(s) ==
    /\ pc = "drive"
    /\ driver' = s
    /\ \E o \in IF s = "infra" THEN {"none", "driver_process"} ELSE {"none"} :
          result' = [result EXCEPT !.status = s, !.origin = o]
    /\ graderOk' = (s = "pass")
    /\ pc' = "cleanup"
    /\ UNCHANGED <<engine, peeked, observed, dir, row, saw>>

\* The binding catalog says the engine cannot run this driver; none is started.
Unavailable ==
    /\ pc = "drive"
    /\ driver' = "unavailable"
    /\ result' = [result EXCEPT !.status = "unsupported", !.origin = "binding_catalog"]
    /\ pc' = "cleanup"
    /\ UNCHANGED <<engine, peeked, observed, graderOk, dir, row, saw>>

DriverRaises(x) ==
    /\ pc = "drive"
    /\ driver' = x
    /\ result' = IF x \in Diagnosing THEN result
                 ELSE [result EXCEPT !.status =
                         CASE x = "CDPUnsupported" -> "unsupported"
                           [] x = "CDPError" -> "fail"
                           [] OTHER -> "infra"]
    /\ pc' = IF x \in Diagnosing THEN "handler_peek" ELSE "cleanup"
    /\ UNCHANGED <<engine, peeked, observed, graderOk, dir, row, saw>>

\* _peek_core_dumped: waitid(WNOWAIT) sees a zombie only; a child that still
\* runs or was waited for is reported as unknown.
Bit == IF engine.life = "zombie" THEN engine.core ELSE "unknown"

Peek(at, next) ==
    /\ pc = at
    /\ peeked' = Bit
    /\ saw' = (saw \/ engine.life = "zombie")
    /\ pc' = next
    /\ UNCHANGED <<engine, driver, observed, result, graderOk, dir, row>>

HandlerPeek == Peek("handler_peek", "handler_poll")
FinalPeek == Peek("final_peek", "final_poll")

\* proc.poll() waits for a zombie; a child another thread waited for still has
\* its returncode.
Waited == IF engine.life = "running" THEN engine ELSE [engine EXCEPT !.life = "waited"]
Seen ==
    IF engine.life = "running" THEN [state |-> "running", core |-> peeked]
                               ELSE [state |-> "exited", core |-> peeked]

\* A dead engine turns a timeout into a crash; a transport error is a "crash"
\* with the engine alive too, told apart by its origin; ETIMEDOUT and socket
\* errors leave the dead engine to promote_observed_engine_exit.
Classified(x, d) ==
    LET dead == d.state = "exited" IN
    CASE x \in {"SubprocessTimeout", "TimeoutError"} ->
           [Base EXCEPT !.status = IF dead THEN "crash" ELSE "timeout",
                        !.origin = IF dead THEN "engine_process" ELSE "task_timeout",
                        !.process = IF dead \/ x = "TimeoutError" THEN d ELSE Nil]
      [] x = "ConnectionError" ->
           [Base EXCEPT !.status = "crash",
                        !.origin = IF dead THEN "engine_process" ELSE "client_transport",
                        !.process = d]
      [] x = "ETIMEDOUT" ->
           [Base EXCEPT !.status = "timeout", !.origin = "task_timeout", !.process = d]
      [] x = "SocketOSError" ->
           [Base EXCEPT !.status = "crash", !.origin = "client_transport", !.process = d]
      [] OTHER -> Base

HandlerPoll ==
    /\ pc = "handler_poll"
    /\ engine' = Waited
    /\ observed' = Seen
    /\ result' = Classified(driver, Seen)
    /\ pc' = "cleanup"
    /\ UNCHANGED <<driver, peeked, graderOk, dir, row, saw>>

\* Target cleanup, end of the traffic window, stop of the sampler: long, and
\* with no effect on the verdict but the time they leave the engine to die.
Cleanup ==
    /\ pc = "cleanup"
    /\ pc' = "promote"
    /\ UNCHANGED <<engine, driver, peeked, observed, result, graderOk, dir, row, saw>>

\* mutated: what the handler saw is forgotten
ForgetObserved == FALSE
ExitObserved == observed # Nil /\ observed.state = "exited"

\* mutated: grader.json keeps the driver's word
KeepGrader == graderOk
FailGrader == FALSE

Primary(d) ==
    /\ result' = [result EXCEPT !.status = "crash", !.origin = "engine_process",
                                !.process = d, !.secondary = result.status]
    /\ graderOk' = FailGrader

\* promote_observed_engine_exit
AlreadyPrimary ==
    /\ pc = "promote"
    /\ result.origin = "engine_process"
    /\ pc' = "score"
    /\ UNCHANGED <<engine, driver, peeked, observed, result, graderOk, dir, row, saw>>

PromoteObserved ==
    /\ pc = "promote"
    /\ result.origin # "engine_process"
    /\ ExitObserved
    /\ Primary(observed)
    /\ pc' = "score"
    /\ UNCHANGED <<engine, driver, peeked, observed, dir, row, saw>>

LookAgain ==
    /\ pc = "promote"
    /\ result.origin # "engine_process"
    /\ ~ExitObserved
    /\ pc' = "final_peek"
    /\ UNCHANGED <<engine, driver, peeked, observed, result, graderOk, dir, row, saw>>

\* mutated: only a failing attempt is promoted
OnlyFailures(d) == d.state = "exited" /\ result.status # "pass"
Promotes(d) == d.state = "exited"

FinalPoll ==
    /\ pc = "final_poll"
    /\ engine' = Waited
    /\ IF Promotes(Seen) THEN Primary(Seen) ELSE UNCHANGED <<result, graderOk>>
    /\ pc' = "score"
    /\ UNCHANGED <<driver, peeked, observed, dir, row, saw>>

\* should_include_score for a scored engine of an eligible run.
Scored == result.status # "infra"

\* The score is settled after every promotion, then
\* grader.json, run.json and the profile files.
ScoreAndWrite ==
    /\ pc = "score"
    /\ result' = [result EXCEPT !.score_included = Scored]
    /\ dir' = "written"
    /\ pc' = "publish"
    /\ UNCHANGED <<engine, driver, peeked, observed, graderOk, row, saw>>

Publish ==
    /\ pc = "publish"
    /\ dir' = "final"
    /\ pc' = "append"
    /\ UNCHANGED <<engine, driver, peeked, observed, result, graderOk, row, saw>>

AppendRow ==
    /\ pc = "append"
    /\ row' = result
    /\ pc' = "done"
    /\ UNCHANGED <<engine, driver, peeked, observed, result, graderOk, dir, saw>>

\* KeyboardInterrupt is no Exception: the attempt is left where it is.
Abort ==
    /\ pc \notin {"done", "aborted"}
    /\ pc' = "aborted"
    /\ UNCHANGED <<engine, driver, peeked, observed, result, graderOk, dir, row, saw>>

-----------------------------------------------------------------------------
EngineExits(core) ==
    /\ engine.life = "running"
    /\ engine' = [life |-> "zombie", core |-> core]
    /\ UNCHANGED <<pc, driver, peeked, observed, result, graderOk, dir, row, saw>>

PolledElsewhere ==
    /\ TornDown
    /\ engine.life = "zombie"
    /\ engine' = Waited
    /\ UNCHANGED <<pc, driver, peeked, observed, result, graderOk, dir, row, saw>>

Next ==
    \/ Begin \/ Unavailable
    \/ \E s \in Returned : DriverReturns(s)
    \/ \E x \in Raised : DriverRaises(x)
    \/ HandlerPeek \/ HandlerPoll \/ Cleanup
    \/ AlreadyPrimary \/ PromoteObserved \/ LookAgain \/ FinalPeek \/ FinalPoll
    \/ ScoreAndWrite \/ Publish \/ AppendRow
    \/ Abort \/ PolledElsewhere
    \/ \E core \in Core \ {"unknown"} : EngineExits(core)

Spec == Init /\ [][Next]_vars

-----------------------------------------------------------------------------
(* Properties                                                               *)

\* An exit of the engine that the attempt can see by its end is the verdict,
\* whatever the driver returned or raised, and no attempt is blamed on an
\* engine that still ran: the step that settles the verdict says crash by
\* engine_process exactly when the engine has been waited for.
EngineExitIsPrimary ==
    [][pc # "score" /\ pc' = "score" =>
          /\ engine'.life = "waited" <=> result'.origin = "engine_process"
          /\ result'.origin = "engine_process" => result'.status = "crash"]_vars

\* The core-dump bit can be read once, before the child is waited for.  When
\* the attempt read it, the row has it; when it did not, the row says unknown
\* and never a guess.
CoreEvidenceKept ==
    /\ TypeOK
    /\ row # Nil /\ row.origin = "engine_process" =>
          row.process.core = IF saw THEN engine.core ELSE "unknown"

\* grader.json and run.json of one artifact directory agree on success.
FilesAgree == row # Nil => (graderOk <=> row.status = "pass")

\* A row in results.jsonl has its published artifact directory, wherever the
\* attempt was interrupted.
RowHasArtifact == row # Nil => dir = "final"

\* An engine that died is never excused as harness territory: its row counts
\* against it, also when the driver had reported trouble of its own.
DeadEngineCounts ==
    row # Nil /\ row.origin = "engine_process" => row.score_included

\* The row, its artifact files and its score tell one story, although they are
\* written at different steps and a promotion comes between them.
RowAndFilesAgree == FilesAgree /\ RowHasArtifact /\ DeadEngineCounts
=============================================================================
