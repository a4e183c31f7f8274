---------------------------- MODULE SeleniumAdapter ----------------------------
(* One attempt of the Selenium adapter: a child process of the runner that    *)
(* takes a binding on stdin, proves that it talks to the engine under test,   *)
(* drives a session and prints one result.  On the chromedriver route it owns *)
(* a ChromeDriver process; on the native route the engine is the server.      *)
(*                                                                            *)
(* The world around it: the artifact set behind the conventional path may be  *)
(* switched, ChromeDriver may die or hang, a session request may be answered  *)
(* after the client stopped waiting, deadlines pass, and the runner kills the *)
(* adapter when the time of the task is over.                                 *)
EXTENDS SeleniumBinding

CONSTANTS Row,          \* the catalog rows a run may begin with
          Steps         \* the scenario: a sequence of "op" and "wait"

ASSUME RowAssumption == Row \subseteq CatalogRow

ASSUME StepsAssumption == Steps \in Seq({"op", "wait"})

VARIABLES pc,           \* where the run, then the adapter, is
          row,          \* the catalog row of the attempt
          disk,         \* where the path of ChromeDriver leads now
          resolved,     \* where it led when the binding was resolved
          expect,       \* the identity the payload names
          past,         \* the deadlines that have passed
          bridge,       \* the ChromeDriver process
          binary,       \* what was executed as ChromeDriver
          killSent,     \* it was sent SIGKILL
          stops,        \* calls of ChromeDriverBridge.stop still to come
          session,      \* the WebDriver session, as its server sees it
          live,         \* the product the session reported
          results,      \* the results of the steps
          failure,      \* why the adapter gives up, or "none"
          out           \* what it printed

vars == <<pc, row, disk, resolved, expect, past, bridge, binary, killSent,
          stops, session, live, results, failure, out>>
world == <<disk, past>>
harness == <<row, resolved, expect>>
chrome == <<bridge, binary, killSent, stops>>
probe == <<session, live, results>>

Native == row.id = "native_webdriver"
Running ==
    {"validate", "http", "connect", "spawn", "ready", "request", "answer",
     "live", "steps", "checks", "quit", "stop", "kill", "report"}
Over == {"refused", "unavailable", "exit", "killed"}
Value == {"ours", "other", Blank}
Ref == {"expect_product", "expect_ua", "browser_ws", "expect_product_live",
        "expect_browser_name"}

Init ==
    /\ pc = "resolve"
    /\ row \in Row
    /\ disk \in Target /\ resolved = disk
    /\ expect = [r \in Ref |-> Blank]
    /\ past = {}
    /\ bridge = "none" /\ binary = "none" /\ killSent = FALSE /\ stops = 0
    /\ session = "none" /\ live = Blank /\ results = <<>>
    /\ failure = "none" /\ out = <<>>

\* The one JSON object on stdout.
Emit(kind, rows) == out' = Append(out, [kind |-> kind, rows |-> rows])
-----------------------------------------------------------------------------
(* The runner, before the adapter starts.                                     *)

\* resolve_selenium_runtime_bindings, before any browser is launched.
Resolve ==
    /\ pc = "resolve"
    /\ \E installed \in BOOLEAN :
          LET is == Resolution(row, disk, installed) IN
          pc' = IF is = "resolved" THEN "payload" ELSE is
    /\ resolved' = disk
    /\ UNCHANGED <<row, expect, world, chrome, probe, failure, out>>

\* What the discovery endpoint said at launch: the product, the user agent, and
\* on the native route the field that the engine's version is read from, which
\* need not be one of those the product is read from.  On the other route the
\* product over CDP, which may be unreadable, and the product then stands in.
BuildPayload ==
    /\ pc = "payload" /\ row.id \in SupportedRoutes
    /\ \E product, ua, version \in {"ours", Blank} :
          expect' = [expect_product |-> product, expect_ua |-> ua,
                     browser_ws |-> "ours",
                     expect_product_live |->
                        IF Native \/ version # Blank THEN version ELSE product,
                     expect_browser_name |-> IF Native THEN "ours" ELSE Blank]
    /\ pc' = "validate"
    /\ UNCHANGED <<row, resolved, world, chrome, probe, failure, out>>

\* A route without a name here, or a native one of an engine without an identity
\* to report, raises in the runner.
PayloadFails ==
    /\ pc = "payload"
    /\ Native \/ row.id \notin SupportedRoutes
    /\ pc' = "refused"
    /\ UNCHANGED <<harness, world, chrome, probe, failure, out>>
-----------------------------------------------------------------------------
(* The gates in front of the connection.                                      *)

Refuse ==
    /\ failure' = "payload"
    /\ Emit("script_error", {})
    /\ pc' = "exit"

\* The client is installed: the resolution looked, and it does not go away.
ValidatePayload ==
    /\ pc = "validate"
    /\ IF ValidateRuntimeBinding(row, expect, resolved, disk, TRUE)
       THEN pc' = "http" /\ UNCHANGED <<failure, out>>
       ELSE Refuse
    /\ UNCHANGED <<harness, world, chrome, probe>>

\* Gate one: what listens on the port is the engine the runner launched.
HttpGate ==
    /\ pc = "http"
    /\ \E product, ws \in Value, ua \in {"ours", "other"}, reachable \in BOOLEAN :
          LET actual == [a \in {b.path : b \in row.http} |->
                            CASE a = "Browser|Product" -> product
                              [] a = "User-Agent" -> ua
                              [] OTHER -> ws] IN
          IF reachable /\ VerifyIdentityAssertions(row.http, actual, expect)
          THEN pc' = "connect" /\ UNCHANGED <<failure, out>>
          ELSE /\ failure' = "http" /\ pc' = "exit" /\ Emit("script_error", {})
    /\ UNCHANGED <<harness, world, chrome, probe>>
-----------------------------------------------------------------------------
(* The connection.                                                            *)

\* connect_webdriver looks at the executable once more.
ConnectWebdriver ==
    /\ pc = "connect"
    /\ \/ Native /\ pc' = "request" /\ UNCHANGED <<failure, out>>
       \/ /\ ~Native /\ BridgeExecutable(row, resolved, disk)
          /\ pc' = "spawn" /\ UNCHANGED <<failure, out>>
       \/ ~Native /\ ~BridgeExecutable(row, resolved, disk) /\ Refuse
    /\ UNCHANGED <<harness, world, chrome, probe>>

\* A failure of the client or of the bridge: calls of stop, then the report.
GiveUp(why, calls) ==
    /\ failure' = why
    /\ stops' = IF Native THEN 0 ELSE calls
    /\ pc' = IF Native THEN "report" ELSE "stop"

\* Popen executes the resolved path, whatever the conventional one leads to.
SpawnBridge ==
    /\ pc = "spawn"
    /\ \/ /\ bridge' = "up" /\ binary' = Holds[resolved]
          /\ pc' = "ready" /\ UNCHANGED <<stops, failure>>
       \/ GiveUp("config", 1) /\ UNCHANGED <<bridge, binary>>
    /\ UNCHANGED <<harness, world, killSent, probe, out>>


\* start_until: /status answers, or the process is gone, or the time is over.
\* start_until stops the bridge itself, and its caller does so again.
AwaitBridge ==
    /\ pc = "ready"
    /\ \/ /\ bridge = "up" /\ "connect" \notin past
          /\ pc' = "request" /\ UNCHANGED <<stops, failure>>
       \/ bridge = "down" /\ GiveUp("config", 2)
       \/ "connect" \in past /\ GiveUp("config", 2)
    /\ UNCHANGED <<harness, world, bridge, binary, killSent, probe, out>>

\* Mutant: whatever the constructor raises is the answer of the engine.
EveryErrorIsTheEngines ==
    /\ pc = "request"
    /\ \/ /\ Native \/ "connect" \notin past
          /\ session' = "asked" /\ pc' = "answer" /\ UNCHANGED <<stops, failure>>
       \/ GiveUp("connect", 1) /\ UNCHANGED session
    /\ UNCHANGED <<harness, world, bridge, binary, killSent, live, results, out>>

\* start_remote_session: an error before the request reached the wire is an
\* error of the client, never of the engine.
RequestSession ==
    /\ pc = "request"
    /\ \/ /\ Native \/ "connect" \notin past
          /\ session' = "asked" /\ pc' = "answer" /\ UNCHANGED <<stops, failure>>
       \/ GiveUp("config", 1) /\ UNCHANGED session
    /\ UNCHANGED <<harness, world, bridge, binary, killSent, live, results, out>>

Served == Native \/ bridge = "up"

\* The answer to newSession, a refusal, or the timeout of the client.
SessionAnswer ==
    /\ pc = "answer"
    /\ \/ /\ Served /\ session' = "open"
          /\ pc' = "live" /\ UNCHANGED <<stops, failure>>
       \/ session' = "refused" /\ GiveUp("connect", 1)
       \/ "connect" \in past /\ GiveUp("connect", 1) /\ UNCHANGED session
    /\ UNCHANGED <<harness, world, bridge, binary, killSent, live, results, out>>

\* The outcome of connect_webdriver, when it raised.
Report ==
    /\ pc = "report"
    /\ IF failure = "connect" THEN Emit("connect_fail", {"fail"})
       ELSE Emit("script_error", {})
    /\ pc' = "exit"
    /\ UNCHANGED <<harness, world, chrome, probe, failure>>
-----------------------------------------------------------------------------
(* The session.                                                               *)

\* Gate two: the session is one of the engine under test.
LiveGate ==
    /\ pc = "live"
    /\ \E product \in Value, name \in IF Native THEN Value ELSE {Blank} :
          LET actual == [a \in {b.path : b \in row.live} |->
                            IF a = "browserName" THEN name ELSE product] IN
          /\ session # "open" /\ ~Native => product = Blank
          /\ live' = product
          /\ IF VerifyIdentityAssertions(row.live, actual, expect)
             THEN pc' = "steps" /\ UNCHANGED <<failure, out>>
             ELSE /\ failure' = "live" /\ pc' = "quit"
                  /\ Emit("script_error", {})
    /\ UNCHANGED <<harness, world, chrome, session, results>>

\* run_op: a call needs budget and a session; a wait needs neither.
RunOp ==
    /\ pc = "steps" /\ Len(results) < Len(Steps)
    /\ \E ok \in BOOLEAN :
          /\ CASE Steps[Len(results) + 1] = "wait" -> ok
               [] OTHER -> ok => session = "open" /\ "budget" \notin past
          /\ results' = Append(results, ok)
    /\ UNCHANGED <<pc, harness, world, chrome, session, live, failure, out>>

\* evaluate_check: a step that did not run is neither ok nor failed.
EvaluateCheck(check) ==
    LET ran == check.step \in DOMAIN results IN
    CASE check.kind = "step_ok" -> ran /\ results[check.step]
      [] check.kind = "step_fails" -> ran /\ ~results[check.step]

CheckSet == [kind : {"step_ok", "step_fails"}, step : 1..Len(Steps) + 1]

RowsOf(checks) == {IF EvaluateCheck(c) THEN "pass" ELSE "fail" : c \in checks}

\* The checks, or an exception in one of them.
EvaluateChecks ==
    /\ pc = "steps" /\ Len(results) = Len(Steps)
    /\ \/ \E check \in CheckSet : Emit("graded", RowsOf({check}))
       \/ Emit("script_error", {})
    /\ pc' = "quit"
    /\ UNCHANGED <<harness, world, chrome, probe, failure>>

\* driver.quit in the finally: it may fail, and is not repeated.
Quit ==
    /\ pc = "quit"
    /\ \/ Served /\ session' = "closed" /\ UNCHANGED failure
       \/ failure' = "quit" /\ UNCHANGED session
    /\ IF Native THEN pc' = "exit" /\ UNCHANGED stops
       ELSE pc' = "stop" /\ stops' = 1
    /\ UNCHANGED <<harness, world, bridge, binary, killSent, live, results, out>>
-----------------------------------------------------------------------------
(* ChromeDriverBridge.stop, and where its callers go on.                      *)

AfterStop ==
    IF stops > 1 THEN "stop" ELSE IF out = <<>> THEN "report" ELSE "exit"

\* A session lives no longer than the ChromeDriver that serves it.
Ended(s) == IF s \in {"asked", "open"} THEN "closed" ELSE s

Reap ==
    /\ bridge' = "reaped" /\ session' = Ended(session)
    /\ pc' = AfterStop /\ stops' = stops - 1

\* Nothing to stop, or a process that exits within the grace, or not.
StopTerminates ==
    /\ pc = "stop"
    /\ \/ /\ bridge \in {"none", "reaped"}
          /\ pc' = AfterStop /\ stops' = stops - 1 /\ UNCHANGED <<bridge, session>>
       \/ bridge \in {"up", "down"} /\ Reap
       \/ bridge = "up" /\ pc' = "kill" /\ UNCHANGED <<bridge, session, stops>>
    /\ UNCHANGED <<harness, world, binary, killSent, live, results, failure, out>>

\* Mutant: SIGTERM was enough.
StopGivesUp ==
    /\ pc = "kill"
    /\ pc' = AfterStop /\ stops' = stops - 1
    /\ UNCHANGED <<harness, world, bridge, binary, killSent, probe, failure, out>>

\* SIGKILL, and a wait of what is left of the time, which may be nothing.
StopKills ==
    /\ pc = "kill"
    /\ killSent' = (killSent \/ bridge = "up")
    /\ \/ Reap
       \/ /\ bridge = "up" /\ pc' = AfterStop /\ stops' = stops - 1
          /\ UNCHANGED <<bridge, session>>
    /\ UNCHANGED <<harness, world, binary, live, results, failure, out>>
-----------------------------------------------------------------------------
(* The world.                                                                 *)

\* tools/select_engine_set.sh points the path at another set.
SelectSet ==
    /\ pc \notin Over
    /\ disk' \in Target \ {disk}
    /\ UNCHANGED <<pc, harness, past, chrome, probe, failure, out>>

BridgeDies ==
    /\ bridge = "up"
    /\ bridge' = "down" /\ session' = Ended(session)
    /\ UNCHANGED <<pc, harness, world, binary, killSent, stops, live, results,
                   failure, out>>

\* The answer the client no longer waits for.
LateSession ==
    /\ session = "asked" /\ pc # "answer" /\ Served
    /\ session' = "open"
    /\ UNCHANGED <<pc, harness, world, chrome, live, results, failure, out>>

DeadlinePasses ==
    /\ pc \in Running
    /\ \E d \in {"connect", "budget"} \ past : past' = past \cup {d}
    /\ UNCHANGED <<pc, harness, disk, chrome, probe, failure, out>>

\* The runner's own timeout is later than the budget of the adapter.
RunnerKills ==
    /\ pc \in Running /\ "budget" \in past
    /\ pc' = "killed"
    /\ UNCHANGED <<harness, world, chrome, probe, failure, out>>
-----------------------------------------------------------------------------
Runner == Resolve \/ BuildPayload \/ PayloadFails
Adapter ==
    \/ ValidatePayload \/ HttpGate \/ ConnectWebdriver \/ SpawnBridge
    \/ AwaitBridge \/ RequestSession \/ SessionAnswer \/ Report \/ LiveGate
    \/ RunOp \/ EvaluateChecks \/ Quit \/ StopTerminates \/ StopKills
World == SelectSet \/ BridgeDies \/ LateSession \/ DeadlinePasses \/ RunnerKills

Next == Runner \/ Adapter \/ World

Spec == Init /\ [][Next]_vars

\* Every wait of the adapter has a timeout, and time passes.
FairSpec == Spec /\ WF_vars(Runner) /\ WF_vars(Adapter) /\ WF_vars(DeadlinePasses)
-----------------------------------------------------------------------------
IsShipped(r) == r.id \in SupportedRoutes /\ r = Shipped(r.id)

TypeOK ==
    /\ pc \in Running \cup Over \cup {"resolve", "payload"}
    /\ row \in Row /\ disk \in Target /\ resolved \in Target
    /\ expect \in [Ref -> Value]
    /\ past \subseteq {"connect", "budget"}
    /\ bridge \in {"none", "up", "down", "reaped"}
    /\ binary \in {"none", "pinned", "other", "missing"}
    /\ killSent \in BOOLEAN /\ stops \in 0..2
    /\ session \in {"none", "asked", "open", "refused", "closed"}
    /\ live \in Value
    /\ results \in Seq(BOOLEAN)
    /\ failure \in {"none", "payload", "http", "config", "connect", "live", "quit"}
    /\ Len(out) <= 1
    /\ pc = "exit" => Len(out) = 1

\* A step runs, and a check passes, only in a session whose browser said it is
\* the engine under test, over the route the repository froze: no weakened
\* assertion, no blank compared with a blank, whatever row the catalog let in.
OnlyTheEngineIsDriven ==
    /\ TypeOK
    /\ pc = "steps" \/ results # <<>> \/ (out # <<>> /\ "pass" \in out[1].rows) =>
          live = "ours" /\ IsShipped(row)

\* What the engine had to say of itself is missing from the payload: its product,
\* or on the native route the version that the live gate is to compare with.
Unnamed ==
    \/ expect["expect_product"] = Blank
    \/ Native /\ expect["expect_product_live"] = Blank

\* An engine is failed for a session it did not open only when a request for
\* one was sent; and a row of the repository is refused as a payload only when
\* the executable moved under it or the engine did not say what it is.
BlameIsEarned ==
    /\ out # <<>> /\ out[1].kind = "connect_fail" => session # "none"
    /\ failure = "payload" /\ IsShipped(row) => disk # resolved \/ Unnamed

\* What is executed is the pinned ChromeDriver.  An adapter that comes to its
\* end leaves no ChromeDriver it has not killed, and a session only on the
\* native route, where nobody can end one that was opened too late or whose
\* quit failed.
NothingStays ==
    /\ binary \in {"none", "pinned"}
    /\ pc = "exit" /\ bridge = "up" => killSent
    /\ pc = "exit" /\ session = "open" =>
          IF Native THEN failure \in {"connect", "quit"} ELSE killSent

=============================================================================
