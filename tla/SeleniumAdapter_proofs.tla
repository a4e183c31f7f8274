------------------------- MODULE SeleniumAdapter_proofs -------------------------
(***************************************************************************)
(* What the Selenium adapter promises of one attempt, for every catalog    *)
(* row that can be written down, every pair of artifact sets and every     *)
(* scenario: what it drives, whom it blames, and what it leaves behind.    *)
(* The inductive invariant IInv says what each gate has established once   *)
(* the adapter is past it, and follows the ChromeDriver process and the    *)
(* session through every way the adapter may give up.                      *)
(***************************************************************************)
EXTENDS SeleniumAdapter, SequenceTheorems, TLAPS

BeforeSession == {"resolve", "payload", "validate", "http", "connect", "spawn", "ready",
                  "request", "answer"}
Leaving == {"quit", "stop", "kill", "report"}
Kind == [kind : {"script_error", "connect_fail", "graded"}, rows : SUBSET {"pass", "fail"}]

\* What the variables are.
Shape ==
    /\ pc \in Running \cup Over \cup {"resolve", "payload"}
    /\ row \in CatalogRow /\ row \in Row /\ disk \in Target /\ resolved \in Target
    /\ expect \in [Ref -> {"ours", Blank}]
    /\ past \subseteq {"connect", "budget"}
    /\ bridge \in {"none", "up", "down", "reaped"}
    /\ binary \in {"none", "pinned"}
    /\ killSent \in BOOLEAN /\ stops \in 0..2
    /\ session \in {"none", "asked", "open", "refused", "closed"}
    /\ live \in Value
    /\ results \in Seq(BOOLEAN)
    /\ failure \in {"none", "payload", "http", "config", "connect", "live", "quit"}

\* The one result is printed on the way out, once.
Printed ==
    /\ out \in Seq(Kind) /\ Len(out) <= 1
    /\ pc \in BeforeSession \cup {"live", "steps", "report", "refused", "unavailable"} => out = <<>>
    /\ pc \in {"quit", "exit"} => Len(out) = 1
    /\ pc \in {"stop", "kill"} => stops > 0

\* What the resolution established of the row holds until the executable is
\* looked at again.
Resolved ==
    pc \notin {"resolve", "refused", "unavailable"} =>
        /\ row.available
        /\ row.pins # <<>> => Holds[resolved] = "pinned"

\* Past the gate of the payload the row is one of the repository's and names
\* the product that the live gate is to compare with; before it, an engine that
\* named what it had to has named that.
Validated ==
    /\ pc \notin {"resolve", "refused", "unavailable", "payload", "validate", "exit", "killed"} =>
          IsShipped(row) /\ expect["expect_product_live"] = "ours"
    /\ pc = "validate" /\ ~Unnamed =>
          /\ expect["expect_product_live"] # Blank
          /\ Native => expect["expect_browser_name"] # Blank

\* Past the live gate the session is one of the engine.
Proved ==
    /\ pc \in BeforeSession \cup {"live"} => results = <<>>
    /\ pc = "steps" \/ results # <<>> \/ (out # <<>> /\ "pass" \in out[1].rows) =>
          live = "ours" /\ IsShipped(row)

\* Whom a result blames.
Blamed ==
    /\ pc \in {"answer", "live", "steps", "quit"} => session # "none"
    /\ failure = "connect" => session # "none"
    /\ out # <<>> /\ out[1].kind = "connect_fail" => pc = "exit" /\ failure = "connect"
    /\ failure = "payload" =>
          /\ pc = "exit"
          /\ IsShipped(row) => disk # resolved \/ Unnamed

\* Where the processes and the session are.
Owned ==
    /\ Native \/ pc \in {"resolve", "refused", "unavailable", "payload", "validate", "http",
                         "connect", "spawn"} => bridge = "none"
    /\ Native => pc \notin {"spawn", "ready", "stop", "kill"}
    /\ pc \in {"report", "exit"} /\ bridge = "up" => killSent
    /\ ~Native /\ session = "open" => bridge = "up"
    /\ pc \in BeforeSession \ {"answer"} => session = "none"
    /\ Native /\ pc \in {"report", "exit"} /\ session \in {"asked", "open"} =>
          failure \in {"connect", "quit"}
    /\ pc \in BeforeSession \cup {"live", "steps"} => failure = "none"

\* The inductive invariant.  OnlyTheEngineIsDriven needs Validated, without
\* which the live gate may compare a blank with a blank; BlameIsEarned needs
\* Resolved, without which a row of the repository may be refused for a
\* ChromeDriver that was never the pinned one; NothingStays needs all of Owned.
IInv == Shape /\ Printed /\ Resolved /\ Validated /\ Proved /\ Blamed /\ Owned

-----------------------------------------------------------------------------
\* What is printed when nothing was.
LEMMA PrintsOne ==
    ASSUME NEW r \in Kind
    PROVE  Append(<<>>, r) \in Seq(Kind) /\ Len(Append(<<>>, r)) = 1 /\ Append(<<>>, r)[1] = r
           /\ Append(<<>>, r) # <<>>
OBVIOUS

\* One result was printed, or none.
LEMMA OneOrNone == ASSUME NEW s \in Seq(Kind), Len(s) <= 1 PROVE s = <<>> \/ Len(s) = 1
<1>1. \A t \in Seq(Kind) : t # <<>> => Len(t) \in Nat \ {0} BY EmptySeq
<1>2. s # <<>> => Len(s) \in Nat \ {0} BY <1>1
<1>3. \A n \in Nat \ {0} : n <= 1 => n = 1 OBVIOUS
<1> QED BY <1>2, <1>3

(* The gates.                                                                 *)

\* A row that passes the gate of the payload is one of the repository's, and
\* names what its live assertions compare with.
LEMMA GatePasses ==
    ASSUME row \in CatalogRow, expect \in [Ref -> {"ours", Blank}], row.available,
           ValidateRuntimeBinding(row, expect, resolved, disk, TRUE)
    PROVE  IsShipped(row) /\ expect["expect_product_live"] = "ours"
<1> USE DEF ValidateRuntimeBinding
<1>1. row.id \in SupportedRoutes /\ row.route = RouteContracts[row.id] BY DEF MatchesRouteContract
<1>2. row.id \in {"native_webdriver", "chromedriver_cdp"} BY <1>1 DEF SupportedRoutes, RouteContracts
<1>3. row.http = HttpContract /\ row.live = LiveContract[row.id]
      BY DEF HttpAssertionsMatch, LiveAssertionsMatch
<1>4. row.pins = IF row.id = "native_webdriver" THEN <<>> ELSE <<"chromedriver">>
      BY DEF BridgeMatches, BridgeExecutable
<1>5. row = Shipped(row.id) BY <1>1, <1>3, <1>4 DEF Shipped, CatalogRow
<1>6. Assertion("browserVersion", "expect_product_live", "always") \in row.live
      \/ Assertion("getVersion.product", "expect_product_live", "always") \in row.live
      BY <1>2, <1>3 DEF LiveContract
<1>7. expect["expect_product_live"] # Blank
      BY <1>6 DEF ExpectationsPresent, Assertion
<1> QED BY <1>1, <1>5, <1>7 DEF IsShipped, Ref

\* A row of the repository passes that gate unless the executable moved under
\* it or the payload leaves blank what is to be compared.
LEMMA GateIsFair ==
    ASSUME row \in CatalogRow, expect \in [Ref -> {"ours", Blank}], IsShipped(row),
           disk = resolved, row.pins # <<>> => Holds[resolved] = "pinned",
           expect["expect_product"] # Blank, expect["expect_product_live"] # Blank,
           Native => expect["expect_browser_name"] # Blank
    PROVE  ValidateRuntimeBinding(row, expect, resolved, disk, TRUE)
<1>1. row.id \in {"native_webdriver", "chromedriver_cdp"}
      BY DEF IsShipped, SupportedRoutes, RouteContracts
<1>2. /\ row.route = RouteContracts[row.id] /\ row.http = HttpContract
      /\ row.live = LiveContract[row.id] /\ row.named /\ ~row.fallback_allowed
      /\ row.pins = IF row.id = "native_webdriver" THEN <<>> ELSE <<"chromedriver">>
      BY DEF IsShipped, Shipped
<1>3. Continuous(row.route.hops)
  <2>1. CASE row.id = "native_webdriver"
    <3> DEFINE hops == row.route.hops
    <3>1. hops = <<Hop("adapter", "client", "library"), Hop("client", "browser", "webdriver_http")>>
          BY <1>2, <2>1 DEF RouteContracts
    <3>2. /\ hops[1].to = "client" /\ hops[2].from = "client" /\ hops[2].to = "browser"
          /\ Len(hops) = 2
          BY <3>1 DEF Hop
    <3>3. \A i \in 1..1 : i = 1 OBVIOUS
    <3>4. hops # <<>> BY <3>1
    <3> HIDE DEF hops
    <3>5. \A i \in 1..1 : hops[i].to = hops[i + 1].from BY <3>2, <3>3
    <3> QED BY <3>2, <3>4, <3>5 DEF Continuous, hops
  <2>2. CASE row.id = "chromedriver_cdp"
    <3> DEFINE hops == row.route.hops
    <3>1. hops = <<Hop("adapter", "client", "library"),
                   Hop("client", "chromedriver", "chromedriver_http"),
                   Hop("chromedriver", "browser", "cdp_port")>>
          BY <1>2, <2>2 DEF RouteContracts
    <3>2. /\ hops[1].to = "client" /\ hops[2].from = "client" /\ hops[2].to = "chromedriver"
          /\ hops[3].from = "chromedriver" /\ hops[3].to = "browser" /\ Len(hops) = 3
          BY <3>1 DEF Hop
    <3>3. \A i \in 1..2 : i = 1 \/ i = 2 OBVIOUS
    <3>4. hops # <<>> BY <3>1
    <3> HIDE DEF hops
    <3>5. \A i \in 1..2 : hops[i].to = hops[i + 1].from BY <3>2, <3>3
    <3> QED BY <3>2, <3>4, <3>5 DEF Continuous, hops
  <2> QED BY <1>1, <2>1, <2>2
<1>4. \A a \in row.http : a.operator = "equals" /\ a.fallback = FALSE
      BY <1>2 DEF HttpContract, Assertion
<1>5. \A a \in row.live : a.operator = "equals" /\ a.fallback = FALSE
      BY <1>1, <1>2 DEF LiveContract, Assertion
<1>6. row.http # {} /\ row.live # {} BY <1>1, <1>2, SMTT(30) DEF HttpContract, LiveContract
<1>7. \A a \in row.http : a.condition = "always" => a.ref = "expect_product"
      BY <1>2 DEF HttpContract, Assertion
<1>8. \A a \in row.live : a.condition = "always" =>
         \/ a.ref = "expect_product_live"
         \/ Native /\ a.ref = "expect_browser_name"
  <2>1. CASE row.id = "native_webdriver"
    <3>1. row.live = {Assertion("browserName", "expect_browser_name", "always"),
                      Assertion("browserVersion", "expect_product_live", "always")}
          BY <1>2, <2>1 DEF LiveContract
    <3>2. Assertion("browserName", "expect_browser_name", "always").ref = "expect_browser_name"
          BY DEF Assertion
    <3>3. Assertion("browserVersion", "expect_product_live", "always").ref = "expect_product_live"
          BY DEF Assertion
    <3> QED BY <2>1, <3>1, <3>2, <3>3 DEF Native
  <2>2. CASE row.id = "chromedriver_cdp"
    <3>1. row.live = {Assertion("getVersion.product", "expect_product_live", "always")}
          BY <1>2, <2>2 DEF LiveContract
    <3>2. Assertion("getVersion.product", "expect_product_live", "always").ref
             = "expect_product_live"
          BY DEF Assertion
    <3> QED BY <3>1, <3>2
  <2> QED BY <1>1, <2>1, <2>2
<1>9. BridgeMatches(row, resolved, disk)
      BY <1>1, <1>2 DEF BridgeMatches, BridgeExecutable, RouteContracts
<1> QED BY <1>2, <1>3, <1>4, <1>5, <1>6, <1>7, <1>8, <1>9, <1>1
        DEF ValidateRuntimeBinding, MatchesRouteContract, IsShipped, ValidAssertions,
            ExpectationsPresent, HttpAssertionsMatch, LiveAssertionsMatch

\* A session that passes the live gate reports the product of the engine.
LEMMA LiveIsOurs ==
    ASSUME row \in CatalogRow, IsShipped(row), expect["expect_product_live"] = "ours",
           NEW product, NEW name,
           VerifyIdentityAssertions(row.live,
               [a \in {b.path : b \in row.live} |-> IF a = "browserName" THEN name ELSE product],
               expect)
    PROVE  product = "ours"
<1>1. row.id \in {"native_webdriver", "chromedriver_cdp"} /\ row.live = LiveContract[row.id]
      BY DEF IsShipped, Shipped, SupportedRoutes, RouteContracts
<1>2. PICK a \in row.live : /\ a.ref = "expect_product_live" /\ a.condition = "always"
                            /\ a.path # "browserName"
  <2>1. CASE row.id = "native_webdriver"
    <3>1. Assertion("browserVersion", "expect_product_live", "always") \in row.live
          BY <1>1, <2>1 DEF LiveContract
    <3> QED BY <3>1 DEF Assertion
  <2>2. CASE row.id = "chromedriver_cdp"
    <3>1. Assertion("getVersion.product", "expect_product_live", "always") \in row.live
          BY <1>1, <2>2 DEF LiveContract
    <3> QED BY <3>1 DEF Assertion
  <2> QED BY <1>1, <2>1, <2>2
<1> QED BY <1>2 DEF VerifyIdentityAssertions, NotApplicable, Blank

-----------------------------------------------------------------------------
(* One lemma per action.                                                      *)

\* The resolution lets through only what can be driven.
LEMMA ResolveKeeps == ASSUME IInv, Resolve PROVE IInv'
<1> USE DEF IInv, Resolve, Resolution, NormalizeSeleniumBinding, HarnessPinPayload, world, harness, chrome, probe, Native, Running, Over, BeforeSession
<1>1. Shape' BY DEF Shape, Owned, Printed
<1>2. Printed' BY DEF Shape, Printed
<1>3. Resolved' BY DEF Shape, Resolved
<1>4. Validated' BY DEF Shape, Validated, Unnamed, IsShipped
<1>5. Proved' BY DEF Shape, Printed, Validated, Proved, IsShipped
<1>6. Blamed' BY DEF Shape, Printed, Blamed, Owned, Unnamed, IsShipped
<1>7. Owned' BY DEF Shape, Owned, Printed, Blamed
<1> QED BY <1>1, <1>2, <1>3, <1>4, <1>5, <1>6, <1>7

\* A payload that names what it has to names what the live gate needs.
LEMMA BuildPayloadKeeps == ASSUME IInv, BuildPayload PROVE IInv'
<1> USE DEF IInv, BuildPayload, world, harness, chrome, probe, Native, Running, Over, BeforeSession
<1>1. Shape'
  <2>1. PICK product \in {"ours", Blank}, ua \in {"ours", Blank}, version \in {"ours", Blank} :
           expect' = [expect_product |-> product, expect_ua |-> ua,
                      browser_ws |-> "ours",
                      expect_product_live |->
                         IF Native \/ version # Blank THEN version ELSE product,
                      expect_browser_name |-> IF Native THEN "ours" ELSE Blank]
        OBVIOUS
  <2>2. expect' \in [Ref -> {"ours", Blank}] BY <2>1 DEF Ref
  <2> QED BY <2>2 DEF Shape
<1>2. Printed' BY DEF Shape, Printed
<1>3. Resolved' BY DEF Shape, Resolved
<1>4. Validated' BY DEF Shape, Validated, Unnamed, IsShipped
<1>5. Proved' BY DEF Shape, Printed, Validated, Proved, IsShipped
<1>6. Blamed' BY DEF Shape, Printed, Blamed, Owned, Unnamed, IsShipped
<1>7. Owned' BY DEF Shape, Owned, Printed, Blamed
<1> QED BY <1>1, <1>2, <1>3, <1>4, <1>5, <1>6, <1>7

\* A route nobody can describe goes no further.
LEMMA PayloadFailsKeeps == ASSUME IInv, PayloadFails PROVE IInv'
<1> USE DEF IInv, PayloadFails, world, harness, chrome, probe, Native, Running, Over, BeforeSession
<1>1. Shape' BY DEF Shape
<1>2. Printed' BY DEF Shape, Printed
<1>3. Resolved' BY DEF Shape, Resolved
<1>4. Validated' BY DEF Shape, Validated, Unnamed, IsShipped
<1>5. Proved' BY DEF Shape, Printed, Validated, Proved, IsShipped
<1>6. Blamed' BY DEF Shape, Printed, Blamed, Owned, Unnamed, IsShipped
<1>7. Owned' BY DEF Shape, Owned, Printed, Blamed
<1> QED BY <1>1, <1>2, <1>3, <1>4, <1>5, <1>6, <1>7

\* Only a row of the repository passes; one of them is refused for a reason.
LEMMA ValidatePayloadKeeps == ASSUME IInv, ValidatePayload PROVE IInv'
<1> USE DEF IInv, ValidatePayload, Refuse, Emit, world, harness, chrome, probe, Native, Running, Over, BeforeSession
<1>1. CASE ValidateRuntimeBinding(row, expect, resolved, disk, TRUE)
  <2>1. /\ pc = "validate" /\ pc' = "http"
        /\ UNCHANGED <<row, resolved, expect, disk, past, bridge, binary, killSent, stops,
                       session, live, results, failure, out>>
        BY <1>1
  <2>2. IsShipped(row) /\ expect["expect_product_live"] = "ours"
        BY <1>1, <2>1, GatePasses DEF Shape, Resolved
  <2> HIDE DEF ValidatePayload
  <2>3. Shape' /\ Printed' BY <2>1 DEF Shape, Printed
  <2>4. Resolved' /\ Validated' BY <2>1, <2>2 DEF Resolved, Validated, IsShipped
  <2>5. Proved' BY <2>1, <2>2 DEF Proved, IsShipped
  <2>6. Blamed' BY <2>1 DEF Blamed
  <2>7. Owned' BY <2>1 DEF Owned
  <2> QED BY <2>3, <2>4, <2>5, <2>6, <2>7
<1>2. CASE ~ValidateRuntimeBinding(row, expect, resolved, disk, TRUE)
  <2>1. /\ pc = "validate" /\ pc' = "exit" /\ failure' = "payload"
        /\ out' = Append(out, [kind |-> "script_error", rows |-> {}])
        /\ UNCHANGED <<row, resolved, expect, disk, past, bridge, binary, killSent, stops,
                       session, live, results>>
        BY <1>2
  <2>2. out = <<>> BY <2>1 DEF Printed
  <2>3. /\ out' \in Seq(Kind) /\ Len(out') = 1 /\ out' # <<>>
        /\ out'[1] = [kind |-> "script_error", rows |-> {}]
        BY <2>1, <2>2, PrintsOne DEF Kind
  <2>4. IsShipped(row) => disk # resolved \/ Unnamed
        BY <1>2, <2>1, GateIsFair DEF Shape, Resolved, Validated, Unnamed
  <2> HIDE DEF ValidatePayload, Emit
  <2>5. Shape' BY <2>1 DEF Shape
  <2>6. Printed' BY <2>1, <2>3 DEF Printed
  <2>7. Resolved' /\ Validated' BY <2>1 DEF Resolved, Validated
  <2>8. Proved' BY <2>1, <2>2, <2>3 DEF Proved, IsShipped
  <2>9. Blamed' BY <2>1, <2>3, <2>4 DEF Blamed, Unnamed, IsShipped
  <2>10. Owned' BY <2>1 DEF Owned
  <2> QED BY <2>5, <2>6, <2>7, <2>8, <2>9, <2>10
<1> QED BY <1>1, <1>2

\* Either gate one passes or the adapter is over.
LEMMA HttpGateKeeps == ASSUME IInv, HttpGate PROVE IInv'
<1> USE DEF IInv, HttpGate, Emit, world, harness, chrome, probe, Native, Running, Over, BeforeSession
<1>1. Shape' BY DEF Shape, Owned, Printed
<1>2. Printed'
  <2>1. pc \in BeforeSession \cup {"live", "steps", "report"} /\ out = <<>> BY DEF Printed
  <2>2. CASE out' = out /\ pc' \in {"connect", "request", "spawn", "steps"}
        BY <2>1, <2>2, EmptySeq DEF Printed
  <2>3. CASE pc' \in {"quit", "exit"} /\ \E r \in Kind : out' = Append(<<>>, r)
        BY <2>3, PrintsOne DEF Printed
  <2> QED BY <2>1, <2>2, <2>3 DEF Kind
<1>3. Resolved' BY DEF Shape, Resolved
<1>4. Validated' BY DEF Shape, Validated, Unnamed, IsShipped
<1>5. Proved' BY DEF Shape, Printed, Validated, Proved, IsShipped
<1>6. Blamed' BY DEF Shape, Printed, Blamed, Owned, Unnamed, IsShipped
<1>7. Owned' BY DEF Shape, Owned, Printed, Blamed
<1> QED BY <1>1, <1>2, <1>3, <1>4, <1>5, <1>6, <1>7

\* A row of the repository is refused only when the executable moved.
LEMMA ConnectWebdriverKeeps == ASSUME IInv, ConnectWebdriver PROVE IInv'
<1> USE DEF IInv, ConnectWebdriver, Refuse, Emit, world, harness, chrome, probe, Native, Running, Over, BeforeSession
<1>1. Shape' BY DEF Shape, Owned, Printed
<1>2. Printed'
  <2>1. pc \in BeforeSession \cup {"live", "steps", "report"} /\ out = <<>> BY DEF Printed
  <2>2. CASE out' = out /\ pc' \in {"connect", "request", "spawn", "steps"}
        BY <2>1, <2>2, EmptySeq DEF Printed
  <2>3. CASE pc' \in {"quit", "exit"} /\ \E r \in Kind : out' = Append(<<>>, r)
        BY <2>3, PrintsOne DEF Printed
  <2> QED BY <2>1, <2>2, <2>3 DEF Kind
<1>3. Resolved' BY DEF Shape, Resolved
<1>4. Validated' BY DEF Shape, Validated, Unnamed, IsShipped
<1>5. Proved' BY DEF Shape, Printed, Validated, Proved, IsShipped
<1>6. Blamed'
  <2>1. CASE out' = out /\ failure' = failure BY <2>1 DEF Shape, Printed, Blamed, Owned, IsShipped
  <2>2. CASE Refuse /\ ~Native /\ ~BridgeExecutable(row, resolved, disk)
    <3>1. out = <<>> BY DEF Printed
    <3>2. out' # <<>> /\ out'[1] = [kind |-> "script_error", rows |-> {}]
          BY <2>2, <3>1, PrintsOne DEF Kind
    <3>3. IsShipped(row) /\ row.pins = <<"chromedriver">>
          BY <2>2 DEF Validated, IsShipped, Shipped
    <3>4. row.pins # <<>> BY <3>3
    <3>5. Holds[resolved] = "pinned" BY <3>4 DEF Resolved
    <3>6. disk # resolved BY <2>2, <3>3, <3>5 DEF BridgeExecutable
    <3> QED BY <2>2, <3>2, <3>6 DEF Blamed, IsShipped
  <2> QED BY <2>1, <2>2
<1>7. Owned' BY DEF Shape, Owned, Printed, Blamed
<1> QED BY <1>1, <1>2, <1>3, <1>4, <1>5, <1>6, <1>7

\* What is executed is the pinned ChromeDriver.
LEMMA SpawnBridgeKeeps == ASSUME IInv, SpawnBridge PROVE IInv'
<1> USE DEF IInv, SpawnBridge, GiveUp, world, harness, chrome, probe, Native, Running, Over, BeforeSession
<1>a. Holds[resolved] = "pinned"
  <2>1. row.id # "native_webdriver" /\ IsShipped(row) BY DEF Owned, Validated
  <2>2. row.pins = <<"chromedriver">> BY <2>1 DEF IsShipped, Shipped
  <2>3. row.pins # <<>> BY <2>2
  <2> QED BY <2>3 DEF Resolved
<1>1. Shape' BY <1>a DEF Shape, Owned
<1>2. Printed' BY DEF Shape, Printed
<1>3. Resolved' BY DEF Shape, Resolved
<1>4. Validated' BY DEF Shape, Validated, Unnamed, IsShipped
<1>5. Proved' BY DEF Shape, Printed, Validated, Proved, IsShipped
<1>6. Blamed' BY DEF Shape, Printed, Blamed, Owned, Unnamed, IsShipped
<1>7. Owned' BY DEF Shape, Owned, Printed, Blamed
<1> QED BY <1>1, <1>2, <1>3, <1>4, <1>5, <1>6, <1>7

\* The bridge is stopped twice when it does not come up.
LEMMA AwaitBridgeKeeps == ASSUME IInv, AwaitBridge PROVE IInv'
<1> USE DEF IInv, AwaitBridge, GiveUp, world, harness, chrome, probe, Native, Running, Over, BeforeSession
<1>1. Shape' BY DEF Shape, Owned, Printed
<1>2. Printed' BY DEF Shape, Printed
<1>3. Resolved' BY DEF Shape, Resolved
<1>4. Validated' BY DEF Shape, Validated, Unnamed, IsShipped
<1>5. Proved' BY DEF Shape, Printed, Validated, Proved, IsShipped
<1>6. Blamed' BY DEF Shape, Printed, Blamed, Owned, Unnamed, IsShipped
<1>7. Owned' BY DEF Shape, Owned, Printed, Blamed
<1> QED BY <1>1, <1>2, <1>3, <1>4, <1>5, <1>6, <1>7

\* An error before the request is not one of the engine.
LEMMA RequestSessionKeeps == ASSUME IInv, RequestSession PROVE IInv'
<1> USE DEF IInv, RequestSession, GiveUp, world, harness, chrome, probe, Native, Running, Over, BeforeSession
<1>1. Shape' BY DEF Shape, Owned, Printed
<1>2. Printed' BY DEF Shape, Printed
<1>3. Resolved' BY DEF Shape, Resolved
<1>4. Validated' BY DEF Shape, Validated, Unnamed, IsShipped
<1>5. Proved' BY DEF Shape, Printed, Validated, Proved, IsShipped
<1>6. Blamed' BY DEF Shape, Printed, Blamed, Owned, Unnamed, IsShipped
<1>7. Owned' BY DEF Shape, Owned, Printed, Blamed
<1> QED BY <1>1, <1>2, <1>3, <1>4, <1>5, <1>6, <1>7

\* A session that is not opened was asked for.
LEMMA SessionAnswerKeeps == ASSUME IInv, SessionAnswer PROVE IInv'
<1> USE DEF IInv, SessionAnswer, GiveUp, Served, world, harness, chrome, probe, Native, Running, Over, BeforeSession
<1>1. Shape' BY DEF Shape, Owned, Printed
<1>2. Printed' BY DEF Shape, Printed
<1>3. Resolved' BY DEF Shape, Resolved
<1>4. Validated' BY DEF Shape, Validated, Unnamed, IsShipped
<1>5. Proved' BY DEF Shape, Printed, Validated, Proved, IsShipped
<1>6. Blamed' BY DEF Shape, Printed, Blamed, Owned, Unnamed, IsShipped
<1>7. Owned' BY DEF Shape, Owned, Printed, Blamed
<1> QED BY <1>1, <1>2, <1>3, <1>4, <1>5, <1>6, <1>7

\* A failed connection is reported as what it was.
LEMMA ReportKeeps == ASSUME IInv, Report PROVE IInv'
<1> USE DEF IInv, Report, Emit, world, harness, chrome, probe, Native, Running, Over, BeforeSession
<1>1. Shape' BY DEF Shape, Owned, Printed
<1>2. Printed'
  <2>1. pc \in BeforeSession \cup {"live", "steps", "report"} /\ out = <<>> BY DEF Printed
  <2>2. CASE out' = out /\ pc' \in {"connect", "request", "spawn", "steps"}
        BY <2>1, <2>2, EmptySeq DEF Printed
  <2>3. CASE pc' \in {"quit", "exit"} /\ \E r \in Kind : out' = Append(<<>>, r)
        BY <2>3, PrintsOne DEF Printed
  <2> QED BY <2>1, <2>2, <2>3 DEF Kind
<1>3. Resolved' BY DEF Shape, Resolved
<1>4. Validated' BY DEF Shape, Validated, Unnamed, IsShipped
<1>5. Proved' BY DEF Shape, Printed, Validated, Proved, IsShipped
<1>6. Blamed' BY DEF Shape, Printed, Blamed, Owned, Unnamed, IsShipped
<1>7. Owned' BY DEF Shape, Owned, Printed, Blamed
<1> QED BY <1>1, <1>2, <1>3, <1>4, <1>5, <1>6, <1>7

\* Past gate two the session is one of the engine.
LEMMA LiveGateKeeps == ASSUME IInv, LiveGate PROVE IInv'
<1> USE DEF IInv, LiveGate, Emit, world, harness, chrome, probe, Native, Running, Over, BeforeSession
<1>1. Shape' BY DEF Shape, Owned, Printed
<1>2. Printed'
  <2>1. pc \in BeforeSession \cup {"live", "steps", "report"} /\ out = <<>> BY DEF Printed
  <2>2. CASE out' = out /\ pc' \in {"connect", "request", "spawn", "steps"}
        BY <2>1, <2>2, EmptySeq DEF Printed
  <2>3. CASE pc' \in {"quit", "exit"} /\ \E r \in Kind : out' = Append(<<>>, r)
        BY <2>3, PrintsOne DEF Printed
  <2> QED BY <2>1, <2>2, <2>3 DEF Kind
<1>3. Resolved' BY DEF Shape, Resolved
<1>4. Validated' BY DEF Shape, Validated, Unnamed, IsShipped
<1>5. Proved'
  <2>1. PICK product \in Value, name \in Value :
           /\ live' = product
           /\ LET actual == [a \in {b.path : b \in row.live} |->
                                IF a = "browserName" THEN name ELSE product] IN
              IF VerifyIdentityAssertions(row.live, actual, expect)
              THEN pc' = "steps" /\ UNCHANGED <<failure, out>>
              ELSE pc' = "quit" /\ out' = Append(out, [kind |-> "script_error", rows |-> {}])
        BY ZenonT(40) DEF Value
  <2>2. /\ pc = "live" /\ out = <<>> /\ results = <<>> /\ UNCHANGED <<row, expect, results>>
        /\ IsShipped(row) /\ expect["expect_product_live"] = "ours"
        BY DEF Printed, Proved, Validated
  <2> HIDE DEF LiveGate, Emit
  <2>3. CASE pc' = "steps" /\ out' = out
        BY <2>1, <2>2, <2>3, LiveIsOurs DEF Proved, IsShipped, Shape
  <2>4. CASE pc' = "quit" /\ out' = Append(out, [kind |-> "script_error", rows |-> {}])
    <3>1. out' # <<>> /\ out'[1] = [kind |-> "script_error", rows |-> {}]
          BY <2>2, <2>4, PrintsOne DEF Kind
    <3> QED BY <2>2, <2>4, <3>1 DEF Proved
  <2> QED BY <2>1, <2>3, <2>4
<1>6. Blamed' BY DEF Shape, Printed, Blamed, Owned, Unnamed, IsShipped
<1>7. Owned' BY DEF Shape, Owned, Printed, Blamed
<1> QED BY <1>1, <1>2, <1>3, <1>4, <1>5, <1>6, <1>7

\* A step runs behind gate two.
LEMMA RunOpKeeps == ASSUME IInv, RunOp PROVE IInv'
<1> USE DEF IInv, RunOp, world, harness, chrome, probe, Native, Running, Over, BeforeSession
<1>1. Shape' BY DEF Shape, Owned, Printed
<1>2. Printed' BY DEF Shape, Printed
<1>3. Resolved' BY DEF Shape, Resolved
<1>4. Validated' BY DEF Shape, Validated, Unnamed, IsShipped
<1>5. Proved' BY DEF Shape, Printed, Validated, Proved, IsShipped
<1>6. Blamed' BY DEF Shape, Printed, Blamed, Owned, Unnamed, IsShipped
<1>7. Owned' BY DEF Shape, Owned, Printed, Blamed
<1> QED BY <1>1, <1>2, <1>3, <1>4, <1>5, <1>6, <1>7

\* So does a check.
LEMMA EvaluateChecksKeeps == ASSUME IInv, EvaluateChecks PROVE IInv'
<1> USE DEF IInv, EvaluateChecks, Emit, world, harness, chrome, probe, Native, Running, Over, BeforeSession
<1>a. PICK r \in Kind : r.kind # "connect_fail" /\ out' = Append(out, r)
  <2>1. \A check \in CheckSet : RowsOf({check}) \subseteq {"pass", "fail"} BY DEF RowsOf
  <2>2. CASE \E check \in CheckSet : Emit("graded", RowsOf({check}))
    <3>1. PICK check \in CheckSet : Emit("graded", RowsOf({check})) BY <2>2
    <3>2. [kind |-> "graded", rows |-> RowsOf({check})] \in Kind BY <2>1 DEF Kind
    <3> QED BY <3>1, <3>2
  <2>3. CASE Emit("script_error", {}) BY <2>3 DEF Kind
  <2> QED BY <2>2, <2>3
<1>b. pc = "steps" /\ pc' = "quit" /\ out = <<>>
      /\ UNCHANGED <<row, resolved, expect, disk, past, bridge, binary, killSent, stops,
                     session, live, results, failure>>
      BY DEF Printed
<1>c. out' \in Seq(Kind) /\ Len(out') = 1 /\ out'[1] = r /\ out' # <<>>
      BY <1>a, <1>b, PrintsOne
<1> HIDE DEF EvaluateChecks, Emit
<1>1. Shape' BY <1>b DEF Shape
<1>2. Printed' BY <1>b, <1>c DEF Printed
<1>3. Resolved' BY <1>b DEF Resolved
<1>4. Validated' BY <1>b DEF Validated, IsShipped
<1>5. Proved' BY <1>b, <1>c DEF Proved, IsShipped
<1>6. Blamed' BY <1>a, <1>b, <1>c DEF Blamed, Owned
<1>7. Owned' BY <1>b DEF Owned
<1> QED BY <1>1, <1>2, <1>3, <1>4, <1>5, <1>6, <1>7

\* A quit that fails leaves the session to the bridge, or to nobody.
LEMMA QuitKeeps == ASSUME IInv, Quit PROVE IInv'
<1> USE DEF IInv, Quit, Served, world, harness, chrome, probe, Native, Running, Over, BeforeSession
<1>1. Shape' BY DEF Shape, Owned, Printed
<1>2. Printed' BY DEF Shape, Printed
<1>3. Resolved' BY DEF Shape, Resolved
<1>4. Validated' BY DEF Shape, Validated, Unnamed, IsShipped
<1>5. Proved' BY DEF Shape, Printed, Validated, Proved, IsShipped
<1>6. Blamed' BY DEF Shape, Printed, Blamed, Owned, Unnamed, IsShipped
<1>7. Owned' BY DEF Shape, Owned, Printed, Blamed
<1> QED BY <1>1, <1>2, <1>3, <1>4, <1>5, <1>6, <1>7

\* A process that does not exit within the grace is killed next.
LEMMA StopTerminatesKeeps == ASSUME IInv, StopTerminates PROVE IInv'
<1> USE DEF IInv, StopTerminates, Reap, AfterStop, Ended, world, harness, chrome, probe, Native, Running, Over, BeforeSession
<1>1. Shape' BY DEF Shape, Owned, Printed
<1>2. Printed' BY PrintsOne, OneOrNone DEF Shape, Printed, Kind
<1>3. Resolved' BY DEF Shape, Resolved
<1>4. Validated' BY DEF Shape, Validated, Unnamed, IsShipped
<1>5. Proved' BY DEF Shape, Printed, Validated, Proved, IsShipped
<1>6. Blamed' BY DEF Shape, Printed, Blamed, Owned, Unnamed, IsShipped
<1>7. Owned' BY DEF Shape, Owned, Printed, Blamed
<1> QED BY <1>1, <1>2, <1>3, <1>4, <1>5, <1>6, <1>7

\* A process that is left was sent SIGKILL.
LEMMA StopKillsKeeps == ASSUME IInv, StopKills PROVE IInv'
<1> USE DEF IInv, StopKills, Reap, AfterStop, Ended, world, harness, chrome, probe, Native, Running, Over, BeforeSession
<1>1. Shape' BY DEF Shape, Owned, Printed
<1>2. Printed' BY PrintsOne, OneOrNone DEF Shape, Printed, Kind
<1>3. Resolved' BY DEF Shape, Resolved
<1>4. Validated' BY DEF Shape, Validated, Unnamed, IsShipped
<1>5. Proved' BY DEF Shape, Printed, Validated, Proved, IsShipped
<1>6. Blamed' BY DEF Shape, Printed, Blamed, Owned, Unnamed, IsShipped
<1>7. Owned' BY DEF Shape, Owned, Printed, Blamed
<1> QED BY <1>1, <1>2, <1>3, <1>4, <1>5, <1>6, <1>7

\* The path leads elsewhere while the adapter runs.
LEMMA SelectSetKeeps == ASSUME IInv, SelectSet PROVE IInv'
<1> USE DEF IInv, SelectSet, world, harness, chrome, probe, Native, Running, Over, BeforeSession
<1>1. Shape' BY DEF Shape, Owned, Printed
<1>2. Printed' BY DEF Shape, Printed
<1>3. Resolved' BY DEF Shape, Resolved
<1>4. Validated' BY DEF Shape, Validated, Unnamed, IsShipped
<1>5. Proved' BY DEF Shape, Printed, Validated, Proved, IsShipped
<1>6. Blamed' BY DEF Shape, Printed, Blamed, Owned, Unnamed, IsShipped
<1>7. Owned' BY DEF Shape, Owned, Printed, Blamed
<1> QED BY <1>1, <1>2, <1>3, <1>4, <1>5, <1>6, <1>7

\* A session goes with its ChromeDriver.
LEMMA BridgeDiesKeeps == ASSUME IInv, BridgeDies PROVE IInv'
<1> USE DEF IInv, BridgeDies, Ended, world, harness, chrome, probe, Native, Running, Over, BeforeSession
<1>1. Shape' BY DEF Shape, Owned, Printed
<1>2. Printed' BY DEF Shape, Printed
<1>3. Resolved' BY DEF Shape, Resolved
<1>4. Validated' BY DEF Shape, Validated, Unnamed, IsShipped
<1>5. Proved' BY DEF Shape, Printed, Validated, Proved, IsShipped
<1>6. Blamed' BY DEF Shape, Printed, Blamed, Owned, Unnamed, IsShipped
<1>7. Owned' BY DEF Shape, Owned, Printed, Blamed
<1> QED BY <1>1, <1>2, <1>3, <1>4, <1>5, <1>6, <1>7

\* A late session needs a server that is up.
LEMMA LateSessionKeeps == ASSUME IInv, LateSession PROVE IInv'
<1> USE DEF IInv, LateSession, Served, world, harness, chrome, probe, Native, Running, Over, BeforeSession
<1>1. Shape' BY DEF Shape, Owned, Printed
<1>2. Printed' BY DEF Shape, Printed
<1>3. Resolved' BY DEF Shape, Resolved
<1>4. Validated' BY DEF Shape, Validated, Unnamed, IsShipped
<1>5. Proved' BY DEF Shape, Printed, Validated, Proved, IsShipped
<1>6. Blamed' BY DEF Shape, Printed, Blamed, Owned, Unnamed, IsShipped
<1>7. Owned' BY DEF Shape, Owned, Printed, Blamed
<1> QED BY <1>1, <1>2, <1>3, <1>4, <1>5, <1>6, <1>7

\* Only the clock moves.
LEMMA DeadlinePassesKeeps == ASSUME IInv, DeadlinePasses PROVE IInv'
<1> USE DEF IInv, DeadlinePasses, world, harness, chrome, probe, Native, Running, Over, BeforeSession
<1>1. Shape' BY DEF Shape, Owned, Printed
<1>2. Printed' BY DEF Shape, Printed
<1>3. Resolved' BY DEF Shape, Resolved
<1>4. Validated' BY DEF Shape, Validated, Unnamed, IsShipped
<1>5. Proved' BY DEF Shape, Printed, Validated, Proved, IsShipped
<1>6. Blamed' BY DEF Shape, Printed, Blamed, Owned, Unnamed, IsShipped
<1>7. Owned' BY DEF Shape, Owned, Printed, Blamed
<1> QED BY <1>1, <1>2, <1>3, <1>4, <1>5, <1>6, <1>7

\* The runner kills the adapter.
LEMMA RunnerKillsKeeps == ASSUME IInv, RunnerKills PROVE IInv'
<1> USE DEF IInv, RunnerKills, world, harness, chrome, probe, Native, Running, Over, BeforeSession
<1>1. Shape' BY DEF Shape, Owned, Printed
<1>2. Printed' BY DEF Shape, Printed
<1>3. Resolved' BY DEF Shape, Resolved
<1>4. Validated' BY DEF Shape, Validated, Unnamed, IsShipped
<1>5. Proved' BY DEF Shape, Printed, Validated, Proved, IsShipped
<1>6. Blamed' BY DEF Shape, Printed, Blamed, Owned, Unnamed, IsShipped
<1>7. Owned' BY DEF Shape, Owned, Printed, Blamed
<1> QED BY <1>1, <1>2, <1>3, <1>4, <1>5, <1>6, <1>7

-----------------------------------------------------------------------------
\* Nothing was printed, driven or started.
LEMMA InitIInv == Init => IInv
<1> SUFFICES ASSUME Init PROVE IInv OBVIOUS
<1> USE DEF Init, BeforeSession, Running, Over
<1>1. expect \in [Ref -> {"ours", Blank}] BY DEF Blank
<1>2. row \in CatalogRow BY RowAssumption
<1>8. Shape
  <2>1. results \in Seq(BOOLEAN) BY EmptySeq
  <2>2. live \in Value BY DEF Value
  <2>3. row \in Row /\ disk \in Target /\ resolved \in Target OBVIOUS
  <2>4. pc \in Running \cup Over \cup {"resolve", "payload"} OBVIOUS
  <2>5. past \subseteq {"connect", "budget"} OBVIOUS
  <2>6. killSent \in BOOLEAN OBVIOUS
  <2>8. stops \in 0..2 OBVIOUS
  <2>7. bridge = "none" /\ binary = "none" /\ session = "none" /\ failure = "none" OBVIOUS
  <2> HIDE DEF Init, Running, Over
  <2> QED BY <1>1, <1>2, <2>1, <2>2, <2>3, <2>4, <2>5, <2>6, <2>7, <2>8 DEF Shape
<1>3. Printed BY DEF Printed
<1>4. Resolved /\ Validated BY DEF Resolved, Validated
<1>5. Proved BY DEF Proved
<1>6. Blamed BY DEF Blamed
<1>7. Owned BY DEF Owned
<1> QED BY <1>8, <1>3, <1>4, <1>5, <1>6, <1>7 DEF IInv

\* Every step keeps the invariant.
LEMMA NextKeeps == IInv /\ [Next]_vars => IInv'
<1> SUFFICES ASSUME IInv, [Next]_vars PROVE IInv' OBVIOUS
<1>1. CASE UNCHANGED vars
      BY <1>1 DEF vars, IInv, Shape, Printed, Resolved, Validated, Proved, Blamed, Owned, Unnamed, Native
<1>2. CASE Runner BY <1>2, ResolveKeeps, BuildPayloadKeeps, PayloadFailsKeeps DEF Runner
<1>3. CASE Adapter
      BY <1>3, ValidatePayloadKeeps, HttpGateKeeps, ConnectWebdriverKeeps, SpawnBridgeKeeps,
         AwaitBridgeKeeps, RequestSessionKeeps, SessionAnswerKeeps, ReportKeeps, LiveGateKeeps,
         RunOpKeeps, EvaluateChecksKeeps, QuitKeeps, StopTerminatesKeeps, StopKillsKeeps
      DEF Adapter
<1>4. CASE World
      BY <1>4, SelectSetKeeps, BridgeDiesKeeps, LateSessionKeeps, DeadlinePassesKeeps,
         RunnerKillsKeeps
      DEF World
<1> QED BY <1>1, <1>2, <1>3, <1>4 DEF Next

\* The inductive invariant holds of every behaviour.
THEOREM Invariance == Spec => []IInv
BY InitIInv, NextKeeps, PTL DEF Spec

\* Whatever row the catalog let in, a step runs and a check passes only in a
\* session whose browser said it is the engine under test, over a route the
\* repository froze (validate_runtime_binding, verify_identity_assertions).
THEOREM DrivesTheEngine == Spec => []OnlyTheEngineIsDriven
<1>1. ASSUME IInv PROVE OnlyTheEngineIsDriven
  <2>1. TypeOK
        BY <1>1 DEF IInv, Shape, Printed, TypeOK, Value
  <2> QED BY <1>1, <2>1 DEF IInv, Proved, OnlyTheEngineIsDriven
<1> QED BY Invariance, <1>1, PTL

\* Whatever fails and whenever, the engine is failed only for a request that was
\* sent, and a row of the repository refused only for an executable that moved,
\* a product that was not named, or on the native route a version that was not
\* (start_remote_session, connect_webdriver, run_scenario_adapter_driver).
THEOREM BlamesFairly == Spec => []BlameIsEarned
<1>1. IInv => BlameIsEarned BY DEF IInv, Blamed, BlameIsEarned
<1> QED BY Invariance, <1>1, PTL

\* An adapter that comes to its end has killed the ChromeDriver it leaves, which
\* was the pinned one, and leaves a session only where nobody could end it
\* (ChromeDriverBridge.stop).
THEOREM LeavesNothing == Spec => []NothingStays
<1>1. IInv => NothingStays BY DEF IInv, Shape, Owned, NothingStays
<1> QED BY Invariance, <1>1, PTL
=============================================================================
