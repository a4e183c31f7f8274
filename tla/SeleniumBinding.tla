---------------------------- MODULE SeleniumBinding ----------------------------
(* A row of the browser/driver catalog on its way to the Selenium adapter.    *)
(* Three programs judge it, in three places: the catalog loader               *)
(* (runner/bindings.py), the resolution before any browser is launched        *)
(* (runner/run.py), and the adapter, which trusts neither of them             *)
(* (selenium_adapter.py).  A row here is the route, the binding and its pins  *)
(* in one record.  Texts that are only compared are members of small sets,    *)
(* and of the fields that are only compared one of each kind is kept.         *)
EXTENDS Naturals, Sequences, FiniteSets

Blank == ""

\* An identity assertion of a route: what is read, and what it must equal when.
Assertion(path, ref, condition) ==
    [path |-> path, operator |-> "equals", ref |-> ref,
     condition |-> condition, fallback |-> FALSE]

HttpContract ==
    {Assertion("Browser|Product", "expect_product", "always"),
     Assertion("User-Agent", "expect_ua", "expected_nonempty"),
     Assertion("webSocketDebuggerUrl", "browser_ws", "when_present")}

LiveContract ==
    [native_webdriver |->
        {Assertion("browserName", "expect_browser_name", "always"),
         Assertion("browserVersion", "expect_product_live", "always")},
     chromedriver_cdp |->
        {Assertion("getVersion.product", "expect_product_live", "always")}]

Hop(from, to, endpoint) == [from |-> from, to |-> to, endpoint |-> endpoint]

RouteContracts ==
    [native_webdriver |->
        [client |-> "webdriver_http", browser |-> "webdriver_http",
         mode |-> "connect_existing", provider |-> "browser_native",
         hops |-> <<Hop("adapter", "client", "library"),
                    Hop("client", "browser", "webdriver_http")>>,
         bridge_owner |-> "none", discovered |-> "webdriver_http"],
     chromedriver_cdp |->
        [client |-> "chromedriver_http", browser |-> "cdp_port",
         mode |-> "attach_existing", provider |-> "chromedriver",
         hops |-> <<Hop("adapter", "client", "library"),
                    Hop("client", "chromedriver", "chromedriver_http"),
                    Hop("chromedriver", "browser", "cdp_port")>>,
         bridge_owner |-> "adapter_child", discovered |-> "chromedriver_http"]]

SupportedRoutes == DOMAIN RouteContracts

\* A row of the catalog, whatever it says.
CatalogAssertion ==
    [path : STRING, operator : STRING, ref : STRING, condition : STRING, fallback : BOOLEAN]
CatalogRoute ==
    [client : STRING, browser : STRING, mode : STRING, provider : STRING,
     hops : Seq([from : STRING, to : STRING, endpoint : STRING]),
     bridge_owner : STRING, discovered : STRING]
CatalogRow ==
    [id : STRING, route : CatalogRoute,
     http : SUBSET CatalogAssertion, live : SUBSET CatalogAssertion,
     pins : Seq(STRING), available : BOOLEAN, named : BOOLEAN, fallback_allowed : BOOLEAN]

\* The row the repository ships for a route.
Shipped(id) ==
    [id |-> id, route |-> RouteContracts[id],
     http |-> HttpContract, live |-> LiveContract[id],
     pins |-> IF id = "native_webdriver" THEN <<>> ELSE <<"chromedriver">>,
     available |-> TRUE, named |-> TRUE, fallback_allowed |-> FALSE]
-----------------------------------------------------------------------------
(* The catalog loader.                                                        *)

Endpoints(hops) == {hops[i].endpoint : i \in DOMAIN hops}
Components(hops) ==
    {hops[i].from : i \in DOMAIN hops} \cup {hops[i].to : i \in DOMAIN hops}

Continuous(hops) ==
    /\ hops # <<>>
    /\ \A i \in 1..Len(hops) - 1 : hops[i].to = hops[i + 1].from
    /\ hops[Len(hops)].to = "browser"

\* _parse_route: any connected route that agrees with itself.
RouteParses(row) ==
    LET r == row.route IN
    /\ Continuous(r.hops)
    /\ r.client \in Endpoints(r.hops)
    /\ r.browser = r.hops[Len(r.hops)].endpoint
    /\ r.discovered = r.client
    /\ (r.bridge_owner = "none") <=> (r.provider = "browser_native")
    /\ row.http # {} /\ row.live # {}

\* _parse_binding: identifiers, and bridge pins exactly where a bridge is.
BindingParses(row) ==
    LET pins == {row.pins[i] : i \in DOMAIN row.pins} IN
    /\ row.named
    /\ ~row.fallback_allowed
    /\ Cardinality(pins) = Len(row.pins)
    /\ row.available => pins \subseteq Components(row.route.hops) \ {"browser"}
    /\ (pins # {}) <=> (row.available /\ row.route.bridge_owner # "none")

CatalogAccepts(row) == RouteParses(row) /\ BindingParses(row)
-----------------------------------------------------------------------------
(* The resolution of run.py, with the pin file and the disk it finds.  A disk *)
(* says which artifact set the conventional path leads to now; a set holds    *)
(* the pinned executable, another one, or none.                               *)

CONSTANTS Target,       \* the sets the path of ChromeDriver may lead to
          Holds         \* [Target -> {"pinned", "other", "missing"}]

ASSUME HoldsAssumption == Holds \in [Target -> {"pinned", "other", "missing"}]

\* The pin of a driver, and the resolved executable of a bridge.
HarnessPinPayload(disk) == Holds[disk] = "pinned"

NormalizeSeleniumBinding(row, disk) ==
    LET bridge == row.route.bridge_owner # "none" IN
    /\ bridge <=> row.pins # <<>>
    /\ bridge => HarnessPinPayload(disk)

\* What becomes of a row before any browser is launched.
Resolution(row, disk, installed) ==
    CASE ~CatalogAccepts(row) -> "refused"
      [] CatalogAccepts(row) /\ ~row.available -> "unavailable"
      [] OTHER -> IF installed /\ NormalizeSeleniumBinding(row, disk)
                  THEN "resolved" ELSE "refused"
-----------------------------------------------------------------------------
(* The adapter: validate_runtime_binding and the assertions.                  *)

\* The assertions are of the one form the adapter can evaluate.
ValidAssertions(rows) ==
    /\ rows # {}
    /\ \A a \in rows : a.operator = "equals" /\ ~a.fallback

\* Mutant: a blank may be asserted.
BlankIsExpected(rows, expect) == rows # {}

\* An assertion that always holds needs something to compare with.
ExpectationsPresent(rows, expect) ==
    \A a \in rows : a.condition = "always" => expect[a.ref] # Blank

MatchesRouteContract(row) ==
    /\ row.id \in SupportedRoutes
    /\ row.route = RouteContracts[row.id]

HttpAssertionsMatch(row) == row.http = HttpContract

LiveAssertionsMatch(row) == row.live = LiveContract[row.id]

\* The executable is still where the payload says, under the conventional
\* path, and is still the pinned one.
BridgeExecutable(row, resolved, disk) ==
    /\ row.pins = <<"chromedriver">>
    /\ disk = resolved
    /\ Holds[disk] = "pinned"

BridgeMatches(row, resolved, disk) ==
    IF row.id = "native_webdriver"
    THEN row.route.bridge_owner = "none" /\ row.pins = <<>>
    ELSE row.route.bridge_owner # "none" /\ BridgeExecutable(row, resolved, disk)

ValidateRuntimeBinding(row, expect, resolved, disk, installed) ==
    /\ row.named /\ ~row.fallback_allowed
    /\ Continuous(row.route.hops)
    /\ MatchesRouteContract(row)
    /\ ValidAssertions(row.http) /\ ValidAssertions(row.live)
    /\ ExpectationsPresent(row.http \cup row.live, expect)
    /\ HttpAssertionsMatch(row)
    /\ installed
    /\ LiveAssertionsMatch(row)
    /\ BridgeMatches(row, resolved, disk)

\* The assertion asks for nothing, here.
NotApplicable(a, actual, expect) ==
    \/ a.condition = "expected_nonempty" /\ expect[a.ref] = Blank
    \/ a.condition = "when_present" /\ actual[a.path] = Blank

VerifyIdentityAssertions(rows, actual, expect) ==
    \A a \in rows :
        NotApplicable(a, actual, expect) \/ actual[a.path] = expect[a.ref]
=============================================================================
