--------------------------- MODULE MCSeleniumAdapter ---------------------------
(* SeleniumAdapter with two artifact sets, both of which hold an executable   *)
(* ChromeDriver, and with the shipped rows and their neighbours: rows with    *)
(* one thing changed, some of which the catalog refuses and some of which it  *)
(* takes.                                                                     *)
EXTENDS SeleniumAdapter, TLC

MCSteps == <<"op", "wait">>

MCHolds == "old" :> "pinned" @@ "new" :> "other"

HttpProduct == CHOOSE a \in HttpContract : a.ref = "expect_product"
LiveProduct(r) == CHOOSE a \in r.live : a.ref = "expect_product_live"

Weakened(a) == {[a EXCEPT !.condition = "when_present"], [a EXCEPT !.operator = "contains"],
                [a EXCEPT !.fallback = TRUE]}

Neighbours(r) ==
    {r, [r EXCEPT !.available = FALSE], [r EXCEPT !.available = FALSE, !.pins = <<>>],
     [r EXCEPT !.named = FALSE], [r EXCEPT !.fallback_allowed = TRUE],
     [r EXCEPT !.id = "cdp_route"],
     [r EXCEPT !.pins = <<"chromedriver">>], [r EXCEPT !.pins = <<>>],
     [r EXCEPT !.route.hops = <<>>], [r EXCEPT !.route.hops = Tail(@)],
     [r EXCEPT !.route.hops = <<@[1], @[Len(@)]>>],
     [r EXCEPT !.route.mode = "other"], [r EXCEPT !.route.provider = "driver_managed"],
     [r EXCEPT !.route.bridge_owner = "adapter_session"],
     [r EXCEPT !.route.browser = "chromedriver_http"],
     [r EXCEPT !.route.discovered = "library"],
     [r EXCEPT !.http = {}], [r EXCEPT !.live = {}]}
    \cup {[r EXCEPT !.http = @ \ {a}] : a \in r.http}
    \cup {[r EXCEPT !.http = (@ \ {HttpProduct}) \cup {b}] : b \in Weakened(HttpProduct)}
    \cup {[r EXCEPT !.live = (@ \ {LiveProduct(r)}) \cup {b}] : b \in Weakened(LiveProduct(r))}

MCRow == UNION {Neighbours(Shipped(id)) : id \in SupportedRoutes}
=============================================================================
