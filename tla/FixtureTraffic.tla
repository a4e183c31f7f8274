---------------------------- MODULE FixtureTraffic ----------------------------
(***************************************************************************)
(* FixtureTrafficTracker (runner/resources.py): which attempt the requests *)
(* that reach the fixture server are charged to, and what an attempt is    *)
(* told of its traffic when it ends.                                       *)
(*                                                                         *)
(* The attempts (one per worker, run_driver_attempt) and the handler       *)
(* threads of the fixture server (one per request) meet in the tracker's   *)
(* lock; every action is one critical section.  A page may go on sending   *)
(* requests after its attempt has ended: the targets are closed, the       *)
(* engine is not.  Counters of bytes, headers and requests, and the two    *)
(* scopes they are kept in, change together and are one count here.        *)
(***************************************************************************)
EXTENDS Naturals, FiniteSets

CONSTANTS
    Attempt,     \* traffic tokens; every attempt has a session of its own
    Request,     \* the requests that reach the server; bounds the run
    Nil

\* _FixtureTrafficContext
Context == [requests : Nat, ambiguous : Nat, inflight : Nat]

ASSUME ConstantsAssumption ==
    /\ Nil \notin Attempt \cup Request \cup Context
    /\ IsFiniteSet(Attempt) /\ IsFiniteSet(Request)

VARIABLES
    attempt,   \* run_driver_attempt: idle, running, ending, closing, ended, abandoned
    active,    \* _active
    sessions,  \* _sessions: the tokens whose session is registered
    contexts,  \* _contexts: the count, ambiguous_requests and inflight of a token
    request,   \* a handler: new, open, finished, gone; its token, who sent it and when
    payload    \* what end_attempt returned

vars == <<attempt, active, sessions, contexts, request, payload>>

Empty == [requests |-> 0, ambiguous |-> 0, inflight |-> 0]
New == [pc |-> "new", token |-> Nil, sender |-> Nil, late |-> FALSE]

TypeOK ==
    /\ attempt \in [Attempt -> {"idle", "running", "ending", "closing", "ended", "abandoned"}]
    /\ active \subseteq Attempt
    /\ sessions \subseteq Attempt
    /\ contexts \in [Attempt -> Context \cup {Nil}]
    /\ request \in [Request -> [pc : {"new", "open", "finished", "gone"},
                                token : Attempt \cup {Nil}, sender : Attempt \cup {Nil},
                                late : BOOLEAN]]
    /\ payload \in [Attempt -> [available : BOOLEAN, requests : Nat] \cup {Nil}]

Init ==
    /\ attempt = [a \in Attempt |-> "idle"]
    /\ active = {}
    /\ sessions = {}
    /\ contexts = [a \in Attempt |-> Nil]
    /\ request = [r \in Request |-> New]
    /\ payload = [a \in Attempt |-> Nil]

-----------------------------------------------------------------------------
(* The attempts.  With jobs = 1 they come one after the other, which is one  *)
(* of the orders here.                                                       *)

Begin(a) ==
    /\ attempt[a] = "idle"
    /\ attempt' = [attempt EXCEPT ![a] = "running"]
    /\ active' = active \cup {a}
    /\ sessions' = sessions \cup {a}
    /\ contexts' = [contexts EXCEPT ![a] = Empty]
    /\ UNCHANGED <<request, payload>>

\* The driver and the target cleanup are over.
End(a) ==
    /\ attempt[a] = "running"
    /\ attempt' = [attempt EXCEPT ![a] = "ending"]
    /\ UNCHANGED <<active, sessions, contexts, request, payload>>

\* An exception or KeyboardInterrupt leaves run_driver_attempt between the two
\* calls: the token stays active.
Abandon(a) ==
    /\ attempt[a] = "running"
    /\ attempt' = [attempt EXCEPT ![a] = "abandoned"]
    /\ UNCHANGED <<active, sessions, contexts, request, payload>>

\* The grace loop of end_attempt polls under the lock, closes under it later.
Quiet(a) ==
    /\ attempt[a] = "ending"
    /\ contexts[a].inflight = 0
    /\ attempt' = [attempt EXCEPT ![a] = "closing"]
    /\ UNCHANGED <<active, sessions, contexts, request, payload>>

\* mutated: waits until nothing is in flight
GraceWithoutEnd(a) == Quiet(a)
\* 0.2 s have passed.
GraceOver(a) ==
    /\ attempt[a] = "ending"
    /\ attempt' = [attempt EXCEPT ![a] = "closing"]
    /\ UNCHANGED <<active, sessions, contexts, request, payload>>

\* mutated: a request in flight does not matter
NoneAmbiguous(c) == c.ambiguous = 0
Available(c) == c.ambiguous = 0 /\ c.inflight = 0

Close(a) ==
    LET c == contexts[a] IN
    /\ attempt[a] = "closing"
    /\ payload' = [payload EXCEPT ![a] = [available |-> Available(c), requests |-> c.requests]]
    /\ active' = active \ {a}
    /\ sessions' = sessions \ {a}
    /\ contexts' = [contexts EXCEPT ![a] = Nil]
    /\ attempt' = [attempt EXCEPT ![a] = "ended"]
    /\ UNCHANGED request

-----------------------------------------------------------------------------
(* The handlers.  A request is sent by the page of an attempt that has      *)
(* begun; its path, referrer, cookies and body may carry that session or    *)
(* none (a favicon, a beacon, a script of a shared cache).                  *)

Named(a, shows) == IF shows THEN {a} \cap sessions \cap active ELSE {}

\* mutated: without a match the request goes to any attempt that is active
AnyActive(a, shows) ==
    IF Named(a, shows) # {} THEN Named(a, shows)
    ELSE IF active = {} THEN {} ELSE {CHOOSE b \in active : TRUE}
\* _resolve_token: the one attempt whose session shows, else the only one active.
Resolved(a, shows) ==
    IF Named(a, shows) # {} THEN Named(a, shows)
    ELSE IF Cardinality(active) = 1 THEN active ELSE {}

\* begin_request
Charge(r, a, b) ==
    /\ request' = [request EXCEPT ![r] =
            [pc |-> "open", token |-> b, sender |-> a, late |-> a \notin active]]
    /\ contexts' = [contexts EXCEPT ![b].inflight = @ + 1]

\* Nobody is charged; every attempt that might have been is told so.
Ambiguous(r, a) ==
    /\ request' = [request EXCEPT ![r] =
            [pc |-> "open", token |-> Nil, sender |-> a, late |-> a \notin active]]
    /\ contexts' = [b \in Attempt |->
            IF b \in active THEN [contexts[b] EXCEPT !.ambiguous = @ + 1] ELSE contexts[b]]

Arrive(r, a, shows) ==
    /\ request[r].pc = "new"
    /\ attempt[a] # "idle"
    /\ \/ \E b \in Resolved(a, shows) : Charge(r, a, b)
       \/ Resolved(a, shows) = {} /\ Ambiguous(r, a)
    /\ UNCHANGED <<attempt, active, sessions, payload>>

Count(c) == [c EXCEPT !.requests = @ + 1, !.inflight = IF @ = 0 THEN 0 ELSE @ - 1]

\* finish_request: an attempt that has ended in the meantime has no context.
Finish(r) ==
    LET b == request[r].token IN
    /\ request[r].pc = "open"
    /\ request' = [request EXCEPT ![r].pc = "finished"]
    /\ contexts' = IF b # Nil /\ contexts[b] # Nil
                   THEN [contexts EXCEPT ![b] = Count(contexts[b])]
                   ELSE contexts
    /\ UNCHANGED <<attempt, active, sessions, payload>>

\* The handler raised before its response (a mini-app session that another
\* handler has just removed, a body that is no object): finish_request is
\* never called.
HandlerDies(r) ==
    /\ request[r].pc = "open"
    /\ request' = [request EXCEPT ![r].pc = "gone"]
    /\ UNCHANGED <<attempt, active, sessions, contexts, payload>>

Next ==
    \/ \E a \in Attempt :
          Begin(a) \/ End(a) \/ Abandon(a) \/ Quiet(a) \/ GraceOver(a) \/ Close(a)
    \/ \E r \in Request : Finish(r) \/ HandlerDies(r)
    \/ \E r \in Request, a \in Attempt, shows \in BOOLEAN : Arrive(r, a, shows)

Spec == Init /\ [][Next]_vars

\* end_attempt runs on; nothing is assumed of the pages and the handlers.
Fairness == \A a \in Attempt : WF_vars(GraceOver(a)) /\ WF_vars(Close(a))
FairSpec == Spec /\ Fairness

-----------------------------------------------------------------------------
(* Properties                                                               *)

Charged(a) == {r \in Request : request[r].token = a}
InTime(a) == {r \in Request : request[r].sender = a /\ ~request[r].late}

\* The in-flight count is exact while an attempt lives, however its requests
\* interleave with those of others: it neither sticks nor is clipped at zero.
InFlightIsExact ==
    \A a \in Attempt : contexts[a] # Nil =>
        contexts[a].inflight =
            Cardinality({r \in Charged(a) : request[r].pc \in {"open", "gone"}})

\* A measurement that is called available is complete: every request that the
\* attempt's pages sent while it lived is charged to it and counted, once, and
\* none of its requests was in flight when it was told.  Otherwise the payload
\* says unavailable, never a number that is too small.
AvailableIsComplete ==
    \A a \in Attempt : payload[a] # Nil /\ payload[a].available =>
        /\ InTime(a) \subseteq Charged(a)
        /\ payload[a].requests = Cardinality(Charged(a))

\* What an attempt is told of its traffic is the truth, and so is the count of
\* requests in flight it waits on.
TrafficIsExact == TypeOK /\ InFlightIsExact /\ AvailableIsComplete

\* Traffic of a living attempt is never charged to another one: what is
\* charged to the wrong attempt was sent by one that had ended.
OnlyLateRequestsStray ==
    \A r \in Request :
        request[r].token # Nil /\ request[r].token # request[r].sender => request[r].late

\* end_attempt comes back within its grace, even when a request never finishes.
EndReturns == \A a \in Attempt : attempt[a] = "ending" ~> attempt[a] = "ended"
=============================================================================
