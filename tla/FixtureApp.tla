----------------------------- MODULE FixtureApp -----------------------------
(***************************************************************************)
(* The shopping mini-app: its page (fixtures/v0_4/app/app.html) and the    *)
(* handlers of FixtureServer that serve it (run.py).                       *)
(*                                                                         *)
(* The page never waits: a click sends a request while the answers of      *)
(* earlier ones, and the requests those lead to, are still under way.  The *)
(* server is a ThreadingHTTPServer, every request is a thread of its own,  *)
(* and the threads share app_sessions and the carts in it without a lock:  *)
(* a handler checks the session, looks it up, reads and writes in separate *)
(* steps.                                                                  *)
(***************************************************************************)
EXTENDS Naturals, FiniteSets, FiniteSetsExt, Functions

CONSTANTS
    Items,        \* goods of the catalogue
    Price,        \* their prices
    NoItem,       \* for a request that names none
    Slots,        \* requests a page may have under way at once
    MaxClicks,    \* bound on the clicks
    MaxSessions,  \* bound on the logins
    MaxCarts      \* bound on the cart objects

ASSUME FixtureAppAssumption ==
    /\ NoItem \notin Items
    /\ Price \in [Items -> Nat \ {0}]
    /\ {MaxClicks, MaxSessions, MaxCarts} \subseteq Nat

VARIABLES
    appSessions,  \* app_sessions: sid -> its cart object, 0 when there is none
    carts,        \* cart object -> item -> quantity, 0 when the item is no key
    issued,       \* sids given out
    made,         \* cart objects made
    loggedOut,    \* sids that a logout removed
    appRequest,   \* slot -> a request and the handler that serves it
    jar,          \* the page's cookie, 0 when it has none
    gen,          \* itemsGen
    shown,        \* what #items shows: "nothing", "locked" or "items"
    clicks,
    ideal,        \* what the cart of a sid holds if its requests came one at a time
    overlap       \* sids of which two requests were served at once

server  == <<appSessions, carts, issued, made, loggedOut>>
page    == <<jar, gen, shown, clicks>>
appVars == <<server, appRequest, page, ideal, overlap>>

Sid  == 1 .. MaxSessions
Cart == 1 .. MaxCarts
EmptyCart == [i \in Items |-> 0]
Kinds(cart) == Cardinality({i \in Items : cart[i] > 0})   \* the keys of the dict
Badge(cart) == SumFunction(cart)
Total(cart) == SumFunction([i \in Items |-> cart[i] * Price[i]])

Free == [pc |-> "free"]
(* gen: which loadItems an items request belongs to; then: whether the    *)
(* page refreshes the cart after it.                                      *)
NewRequest(op, item, cookie, g, then) ==
    [pc |-> "sent", op |-> op, item |-> item, cookie |-> cookie, gen |-> g, then |-> then,
     cart |-> 0, qty |-> 0, badge |-> 0, total |-> 0, keys |-> 0, status |-> 0, due |-> EmptyCart]

AppInit ==
    /\ appSessions = [s \in Sid |-> 0] /\ carts = [c \in Cart |-> EmptyCart]
    /\ issued = 0 /\ made = 0 /\ loggedOut = {}
    /\ jar = 0 /\ gen = 1 /\ shown = "nothing" /\ clicks = 0
    /\ \E first \in Slots :
        appRequest = [r \in Slots |->
                         IF r = first THEN NewRequest("items", NoItem, 0, 1, TRUE) ELSE Free]
    /\ ideal = [s \in Sid |-> EmptyCart] /\ overlap = {}

Live(sid)     == sid # 0 /\ appSessions[sid] # 0
Serving(r)    == appRequest[r].pc \notin {"free", "sent", "answered", "crashed"}
ServedFor(s)  == {r \in Slots : Serving(r) /\ appRequest[r].cookie = s}

Goes(r, pc)    == appRequest' = [appRequest EXCEPT ![r].pc = pc]
Answers(r, status) ==
    appRequest' = [appRequest EXCEPT ![r] = [@ EXCEPT !.pc = "answered", !.status = status]]
(* An exception in a handler: the connection is closed without an answer. *)
Crashes(r) == Goes(r, "crashed")

----------------------------------------------------------------------------
(* The handlers.  The first step of each is _app_sid.                     *)

Login(r) ==
    /\ appRequest[r].pc = "sent" /\ appRequest[r].op = "login"
    /\ issued < MaxSessions /\ made < MaxCarts
    /\ issued' = issued + 1 /\ made' = made + 1
    /\ appSessions' = [appSessions EXCEPT ![issued + 1] = made + 1]
    /\ appRequest' = [appRequest EXCEPT ![r] = [@ EXCEPT !.pc = "answered", !.status = 200,
                                                     !.cookie = issued + 1]]
    /\ UNCHANGED <<carts, loggedOut, page, ideal, overlap>>

GetItems(r) ==
    /\ appRequest[r].pc = "sent" /\ appRequest[r].op = "items"
    /\ Answers(r, IF Live(appRequest[r].cookie) THEN 200 ELSE 401)
    /\ UNCHANGED <<server, page, ideal, overlap>>

(* Logout and the four cart requests: without a session they are         *)
(* answered at once.                                                      *)
CheckSession(r) ==
    /\ appRequest[r].pc = "sent"
    /\ appRequest[r].op \in {"logout", "cart", "add", "remove", "checkout"}
    /\ LET s == appRequest[r].cookie IN
        /\ IF Live(s) THEN Goes(r, IF appRequest[r].op = "logout" THEN "pop" ELSE "lookup")
           ELSE Answers(r, IF appRequest[r].op = "logout" THEN 200 ELSE 401)
        /\ overlap' = IF Live(s) /\ ServedFor(s) # {} THEN overlap \union {s} ELSE overlap
    /\ UNCHANGED <<server, page, ideal>>

(* app_sessions.pop(sid, {})                                              *)
PopSession(r) ==
    /\ appRequest[r].pc = "pop"
    /\ appSessions' = [appSessions EXCEPT ![appRequest[r].cookie] = 0]
    /\ loggedOut' = loggedOut \union {appRequest[r].cookie}
    /\ Answers(r, 200)
    /\ UNCHANGED <<carts, issued, made, page, ideal, overlap>>

(* app_sessions[sid]["cart"]: a KeyError if the session has gone since.   *)
LookUp(r) ==
    /\ appRequest[r].pc = "lookup"
    /\ IF Live(appRequest[r].cookie)
       THEN appRequest' = [appRequest EXCEPT ![r] = [@ EXCEPT
                !.cart = appSessions[appRequest[r].cookie],
                !.pc = CASE appRequest[r].op = "add"    -> "read"
                         [] appRequest[r].op = "remove" -> "drop"
                         [] OTHER                    -> "badge"]]
       ELSE Crashes(r)
    /\ UNCHANGED <<server, page, ideal, overlap>>

(* cart[item] = cart.get(item, 0) + 1, in two steps.                      *)
ReadQuantity(r) ==
    /\ appRequest[r].pc = "read"
    /\ appRequest' = [appRequest EXCEPT ![r] = [@ EXCEPT
            !.pc = "write", !.qty = carts[appRequest[r].cart][appRequest[r].item]]]
    /\ UNCHANGED <<server, page, ideal, overlap>>

(* Mutant: the quantity is set, not raised.                               *)
SetQuantity(r) ==
    /\ appRequest[r].pc = "write"
    /\ carts' = [carts EXCEPT ![appRequest[r].cart][appRequest[r].item] = 1]
    /\ ideal' = [ideal EXCEPT ![appRequest[r].cookie][appRequest[r].item] = @ + 1]
    /\ Answers(r, 200)
    /\ UNCHANGED <<appSessions, issued, made, loggedOut, page, overlap>>

WriteQuantity(r) ==
    /\ appRequest[r].pc = "write"
    /\ carts' = [carts EXCEPT ![appRequest[r].cart][appRequest[r].item] = appRequest[r].qty + 1]
    /\ ideal' = [ideal EXCEPT ![appRequest[r].cookie][appRequest[r].item] = @ + 1]
    /\ Answers(r, 200)
    /\ UNCHANGED <<appSessions, issued, made, loggedOut, page, overlap>>

RemoveItem(r) ==
    /\ appRequest[r].pc = "drop"
    /\ carts' = [carts EXCEPT ![appRequest[r].cart][appRequest[r].item] = 0]
    /\ ideal' = [ideal EXCEPT ![appRequest[r].cookie][appRequest[r].item] = 0]
    /\ Answers(r, 200)
    /\ UNCHANGED <<appSessions, issued, made, loggedOut, page, overlap>>

(* _app_cart_view, three passes over a cart that others may change: the   *)
(* badge, the total (whose generator raises when the number of keys       *)
(* changed under it), and the list of items.                              *)
ViewBadge(r) ==
    /\ appRequest[r].pc = "badge"
    /\ appRequest' = [appRequest EXCEPT ![r] = [@ EXCEPT
            !.pc = "total", !.badge = Badge(carts[appRequest[r].cart]),
            !.keys = Kinds(carts[appRequest[r].cart])]]
    /\ UNCHANGED <<server, page, ideal, overlap>>

ViewTotal(r) ==
    /\ appRequest[r].pc = "total"
    /\ LET cart == carts[appRequest[r].cart] IN
        IF Kinds(cart) = appRequest[r].keys
        THEN appRequest' = [appRequest EXCEPT ![r] = [@ EXCEPT
                !.pc = "list", !.total = Total(cart)]]
        ELSE Crashes(r)
    /\ UNCHANGED <<server, page, ideal, overlap>>

ViewItems(r) ==
    /\ appRequest[r].pc = "list"
    /\ appRequest' = [appRequest EXCEPT ![r] = [@ EXCEPT
            !.keys = Kinds(carts[appRequest[r].cart]), !.due = ideal[appRequest[r].cookie],
            !.pc = IF appRequest[r].op = "checkout" THEN "reset" ELSE "answered", !.status = 200]]
    /\ UNCHANGED <<server, page, ideal, overlap>>

(* Mutant: a session that has gone is made again by its checkout.         *)
ResetAnyway(r) ==
    /\ appRequest[r].pc = "reset" /\ made < MaxCarts
    /\ made' = made + 1
    /\ appSessions' = [appSessions EXCEPT ![appRequest[r].cookie] = made + 1]
    /\ ideal' = [ideal EXCEPT ![appRequest[r].cookie] = EmptyCart]
    /\ Answers(r, 200)
    /\ UNCHANGED <<carts, issued, loggedOut, page, overlap>>

(* The order is placed: the session gets a new cart object.               *)
ResetCart(r) ==
    /\ appRequest[r].pc = "reset" /\ made < MaxCarts
    /\ IF Live(appRequest[r].cookie)
       THEN /\ made' = made + 1
            /\ appSessions' = [appSessions EXCEPT ![appRequest[r].cookie] = made + 1]
            /\ ideal' = [ideal EXCEPT ![appRequest[r].cookie] = EmptyCart]
            /\ Answers(r, 200)
       ELSE Crashes(r) /\ UNCHANGED <<made, appSessions, ideal>>
    /\ UNCHANGED <<carts, issued, loggedOut, page, overlap>>

Handler(r) ==
    \/ Login(r) \/ GetItems(r) \/ CheckSession(r) \/ PopSession(r) \/ LookUp(r)
    \/ ReadQuantity(r) \/ WriteQuantity(r) \/ RemoveItem(r)
    \/ ViewBadge(r) \/ ViewTotal(r) \/ ViewItems(r) \/ ResetCart(r)

----------------------------------------------------------------------------
(* The page. *)

Click(r, op, item) ==
    /\ appRequest[r] = Free /\ clicks < MaxClicks /\ clicks' = clicks + 1
    /\ op \in {"add", "remove"} <=> item \in Items
    /\ op \in {"add", "remove"} => shown = "items"
    /\ appRequest' = [appRequest EXCEPT ![r] = NewRequest(op, item, jar, 0, FALSE)]
    /\ UNCHANGED <<server, jar, gen, shown, ideal, overlap>>

Ready(r, op) == appRequest[r].pc = "answered" /\ appRequest[r].op = op

(* login and logout set the cookie when their answer arrives, and load    *)
(* the items with it; each load is a new generation.                      *)
Reload(r, cookie, then) ==
    /\ jar' = cookie /\ gen' = gen + 1
    /\ appRequest' = [appRequest EXCEPT ![r] = NewRequest("items", NoItem, cookie, gen + 1, then)]

LoginAnswered(r) ==
    /\ Ready(r, "login") /\ Reload(r, appRequest[r].cookie, TRUE)
    /\ UNCHANGED <<server, shown, clicks, ideal, overlap>>

LogoutAnswered(r) ==
    /\ Ready(r, "logout") /\ Reload(r, 0, FALSE)
    /\ UNCHANGED <<server, shown, clicks, ideal, overlap>>

(* Mutant: every answer is rendered.                                      *)
Current(r) == TRUE

(* Only the newest generation may write the list.                         *)
Newest(r) == appRequest[r].gen = gen

ItemsAnswered(r) ==
    /\ Ready(r, "items")
    /\ shown' = IF Newest(r) THEN (IF appRequest[r].status = 200 THEN "items" ELSE "locked")
                ELSE shown
    /\ appRequest' = [appRequest EXCEPT ![r] =
            IF appRequest[r].then THEN NewRequest("cart", NoItem, jar, 0, FALSE) ELSE Free]
    /\ UNCHANGED <<server, jar, gen, clicks, ideal, overlap>>

(* What changed the cart is followed by a refresh of it.                  *)
CartChangeAnswered(r) ==
    /\ Ready(r, "add") \/ Ready(r, "remove") \/ Ready(r, "checkout")
    /\ appRequest' = [appRequest EXCEPT ![r] = NewRequest("cart", NoItem, jar, 0, FALSE)]
    /\ UNCHANGED <<server, page, ideal, overlap>>

CartAnswered(r) ==
    /\ Ready(r, "cart") /\ appRequest' = [appRequest EXCEPT ![r] = Free]
    /\ UNCHANGED <<server, page, ideal, overlap>>

(* fetch() rejects and nothing follows.                                   *)
FetchRejected(r) ==
    /\ appRequest[r].pc = "crashed" /\ appRequest' = [appRequest EXCEPT ![r] = Free]
    /\ UNCHANGED <<server, page, ideal, overlap>>

PageStep(r) ==
    \/ LoginAnswered(r) \/ LogoutAnswered(r) \/ ItemsAnswered(r)
    \/ CartChangeAnswered(r) \/ CartAnswered(r) \/ FetchRejected(r)

AppNext ==
    \E r \in Slots :
        \/ Handler(r) \/ PageStep(r)
        \/ \E op \in {"login", "logout", "checkout"} : Click(r, op, NoItem)
        \/ \E op \in {"add", "remove"}, item \in Items : Click(r, op, item)

AppSpec == AppInit /\ [][AppNext]_appVars

----------------------------------------------------------------------------
AppTypeOK ==
    /\ appSessions \in [Sid -> 0 .. MaxCarts] /\ carts \in [Cart -> [Items -> Nat]]
    /\ issued \in 0 .. MaxSessions /\ made \in 0 .. MaxCarts
    /\ loggedOut \subseteq Sid /\ overlap \subseteq Sid
    /\ jar \in 0 .. issued /\ gen \in Nat /\ shown \in {"nothing", "locked", "items"}

(* The unlocked dictionaries are enough for a page that has one request   *)
(* at a time: the cart holds exactly what was added and not removed or    *)
(* ordered since, and what a view or an order says was in it.             *)
OneAtATimeIsExact ==
    AppTypeOK /\ \A s \in Sid \ overlap :
        /\ Live(s) /\ ServedFor(s) = {} => carts[appSessions[s]] = ideal[s]
        /\ \A r \in Slots :
            appRequest[r].pc = "answered" /\ appRequest[r].op \in {"cart", "checkout"}
                    /\ appRequest[r].cookie = s /\ appRequest[r].status = 200 =>
                /\ appRequest[r].total = Total(appRequest[r].due)
                /\ appRequest[r].keys = Kinds(appRequest[r].due)

(* A handler dies without an answer only when another request of the same *)
(* session ran at the same time.                                          *)
CrashNeedsOverlap ==
    \A r \in Slots : appRequest[r].pc = "crashed" => appRequest[r].cookie \in overlap

(* What the missing lock costs is paid by overlapping requests of one     *)
(* session only.                                                          *)
CartsAreExact == OneAtATimeIsExact /\ CrashNeedsOverlap

(* A session that was logged out is never valid again, whatever requests  *)
(* were under way with it.                                                *)
LoggedOutForGood == \A s \in loggedOut : ~Live(s)

(* app.html: "only the newest generation may write the DOM".  When        *)
(* nothing is under way, the list shows the goods if and only if the      *)
(* server knows the page's session, however the answers to the clicks     *)
(* overtook each other.                                                   *)
QuietShowsTruth ==
    (\A r \in Slots : appRequest[r] = Free) =>
        shown = IF Live(jar) THEN "items" ELSE "locked"

=============================================================================
