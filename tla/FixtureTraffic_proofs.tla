------------------------ MODULE FixtureTraffic_proofs ------------------------
(* The two sides of the fixture server.  Its tracker: the traffic an attempt  *)
(* is told of is exact, and only late requests stray, for any number of       *)
(* attempts and requests.  Its mini-app: carts, logouts and the page, for any *)
(* number of clicks and of requests under way.                                *)
EXTENDS FixtureTraffic, FixtureApp, FiniteSetTheorems, TLAPS

Waiting(a) == {r \in Charged(a) : request[r].pc \in {"open", "gone"}}
Counted(a) == {r \in Charged(a) : request[r].pc = "finished"}

\* A token lives from begin_attempt to the close of end_attempt: it is active, its
\* session is registered and it has a context, all three or none.
Registered ==
    /\ sessions = active
    /\ \A a \in Attempt :
          /\ a \in active <=> contexts[a] # Nil
          /\ a \in active <=> attempt[a] \in {"running", "ending", "closing", "abandoned"}
          /\ attempt[a] = "idle" => payload[a] = Nil
          /\ payload[a] # Nil => a \notin active

\* Requests are only of attempts that have begun.
Traced ==
    \A r \in Request :
        /\ request[r].pc = "new" => request[r] = New
        /\ \A a \in Attempt : attempt[a] = "idle" =>
              request[r].token # a /\ request[r].sender # a

\* The counts of a living attempt, and the only excuse for a request of its own that it
\* was not charged.
Exact ==
    \A a \in Attempt : contexts[a] # Nil =>
        /\ contexts[a].inflight = Cardinality(Waiting(a))
        /\ contexts[a].requests = Cardinality(Counted(a))
        /\ contexts[a].ambiguous = 0 => InTime(a) \subseteq Charged(a)

IInv == TypeOK /\ Registered /\ Traced /\ Exact /\ AvailableIsComplete /\ OnlyLateRequestsStray
-----------------------------------------------------------------------------
\* The sets that are counted are finite.
LEMMA Finite == ASSUME NEW a PROVE IsFiniteSet(Waiting(a)) /\ IsFiniteSet(Counted(a))
<1>1. Waiting(a) \subseteq Request /\ Counted(a) \subseteq Request
      BY DEF Waiting, Counted, Charged
<1> QED BY <1>1, FS_Subset, ConstantsAssumption

\* A request that resolves while its sender lives is its sender's.
LEMMA ResolvedToSender ==
    ASSUME IInv, NEW a \in Attempt, NEW shows, NEW b \in Resolved(a, shows)
    PROVE  b \in active /\ (a \in active => b = a)
<1> USE DEF IInv, TypeOK
<1>1. CASE Named(a, shows) # {} BY <1>1 DEF Resolved, Named
<1>2. CASE Named(a, shows) = {}
  <2>1. b \in active /\ Cardinality(active) = 1 BY <1>2 DEF Resolved
  <2>2. IsFiniteSet(active) BY FS_Subset, ConstantsAssumption
  <2>3. PICK x : active = {x} BY <2>1, <2>2, FS_Singleton
  <2> QED BY <2>1, <2>3
<1> QED BY <1>1, <1>2

\* Nothing was sent yet.
LEMMA InitIInv == Init => IInv
<1> SUFFICES ASSUME Init PROVE IInv
    OBVIOUS
<1> USE ConstantsAssumption DEF Init, New
<1>1. TypeOK BY DEF TypeOK
<1>2. Registered BY DEF Registered
<1>3. Traced BY DEF Traced
<1>4. Exact BY DEF Exact
<1>5. AvailableIsComplete BY DEF AvailableIsComplete
<1>6. OnlyLateRequestsStray BY DEF OnlyLateRequestsStray
<1> QED BY <1>1, <1>2, <1>3, <1>4, <1>5, <1>6 DEF IInv

\* An attempt begins with empty counts, and nothing was sent in its name before.
LEMMA BeginKeeps == ASSUME IInv, NEW a \in Attempt, Begin(a) PROVE IInv'
<1> USE ConstantsAssumption DEF Begin
<1>1. Empty \in Context /\ Empty # Nil BY DEF Empty, Context
<1>2. TypeOK' BY <1>1 DEF IInv, TypeOK
<1>3. Registered' BY <1>1 DEF IInv, TypeOK, Registered
<1>4. Traced' BY DEF IInv, TypeOK, Traced
<1>5. Charged(a) = {} /\ InTime(a) = {}
      BY DEF IInv, Traced, Charged, InTime
<1>6. \A b \in Attempt : Waiting(b)' = Waiting(b) /\ Counted(b)' = Counted(b)
                         /\ Charged(b)' = Charged(b) /\ InTime(b)' = InTime(b)
      BY DEF Waiting, Counted, Charged, InTime
<1>7. contexts'[a] = Empty /\ \A b \in Attempt \ {a} : contexts'[b] = contexts[b]
      BY DEF IInv, TypeOK
<1>8. Exact'
  <2> SUFFICES ASSUME NEW b \in Attempt, contexts'[b] # Nil
               PROVE  /\ contexts'[b].inflight = Cardinality(Waiting(b))
                      /\ contexts'[b].requests = Cardinality(Counted(b))
                      /\ contexts'[b].ambiguous = 0 => InTime(b) \subseteq Charged(b)
      BY <1>6 DEF Exact
  <2>1. CASE b = a
    <3>1. Waiting(a) = {} /\ Counted(a) = {} BY <1>5 DEF Waiting, Counted
    <3> QED BY <2>1, <3>1, <1>5, <1>7, FS_EmptySet DEF Empty
  <2>2. CASE b # a BY <2>2, <1>7 DEF IInv, Exact
  <2> QED BY <2>1, <2>2
<1>9. AvailableIsComplete' BY <1>6 DEF IInv, AvailableIsComplete
<1>10. OnlyLateRequestsStray' BY DEF IInv, OnlyLateRequestsStray
<1> QED BY <1>2, <1>3, <1>4, <1>8, <1>9, <1>10 DEF IInv

\* The steps to the end of an attempt but the last change its position only.
LEMMA MoveKeeps ==
    ASSUME IInv, NEW a \in Attempt, End(a) \/ Abandon(a) \/ Quiet(a) \/ GraceOver(a)
    PROVE  IInv'
<1> USE DEF End, Abandon, Quiet, GraceOver
<1>1. TypeOK' BY DEF IInv, TypeOK
<1>2. Registered' BY DEF IInv, TypeOK, Registered
<1>3. Traced' BY DEF IInv, TypeOK, Traced
<1>4. \A b \in Attempt : Waiting(b)' = Waiting(b) /\ Counted(b)' = Counted(b)
                         /\ Charged(b)' = Charged(b) /\ InTime(b)' = InTime(b)
      BY DEF Waiting, Counted, Charged, InTime
<1>5. Exact' BY <1>4 DEF IInv, Exact
<1>6. AvailableIsComplete' BY <1>4 DEF IInv, AvailableIsComplete
<1>7. OnlyLateRequestsStray' BY DEF IInv, OnlyLateRequestsStray
<1> QED BY <1>1, <1>2, <1>3, <1>5, <1>6, <1>7 DEF IInv

\* The payload is what the context says; a number that is called available is complete
\* because nothing is in flight and nothing was left uncharged.
LEMMA CloseKeeps == ASSUME IInv, NEW a \in Attempt, Close(a) PROVE IInv'
<1> USE DEF Close
<1> DEFINE c == contexts[a]
<1>1. c \in Context /\ c # Nil BY DEF IInv, TypeOK, Registered
<1>2. Available(c) \in BOOLEAN /\ c.requests \in Nat BY <1>1 DEF Available, Context
<1>3. TypeOK' BY <1>2 DEF IInv, TypeOK
<1>4. Registered' BY DEF IInv, TypeOK, Registered
<1>5. Traced' BY DEF IInv, TypeOK, Traced
<1>6. \A b \in Attempt : Waiting(b)' = Waiting(b) /\ Counted(b)' = Counted(b)
                         /\ Charged(b)' = Charged(b) /\ InTime(b)' = InTime(b)
      BY DEF Waiting, Counted, Charged, InTime
<1>7. contexts'[a] = Nil /\ \A b \in Attempt \ {a} : contexts'[b] = contexts[b]
      BY DEF IInv, TypeOK
<1>8. Exact' BY <1>6, <1>7 DEF IInv, Exact
<1>9. payload'[a] = [available |-> Available(c), requests |-> c.requests]
      /\ \A b \in Attempt \ {a} : payload'[b] = payload[b]
      BY DEF IInv, TypeOK
<1>10. Available(c) => InTime(a) \subseteq Charged(a) /\ c.requests = Cardinality(Charged(a))
  <2> SUFFICES ASSUME Available(c)
               PROVE  InTime(a) \subseteq Charged(a) /\ c.requests = Cardinality(Charged(a))
      OBVIOUS
  <2>1. c.ambiguous = 0 /\ c.inflight = 0 BY DEF Available
  <2>2. InTime(a) \subseteq Charged(a) BY <1>1, <2>1 DEF IInv, Exact
  <2>3. Waiting(a) = {}
    <3>1. Cardinality(Waiting(a)) = 0 BY <1>1, <2>1 DEF IInv, Exact
    <3> QED BY <3>1, Finite, FS_EmptySet
  <2>4. Charged(a) = Counted(a)
    <3>1. \A r \in Charged(a) : request[r].pc # "new"
          BY ConstantsAssumption DEF Charged, IInv, Traced, New
    <3>2. \A r \in Charged(a) : request[r].pc = "finished"
          BY <2>3, <3>1 DEF Charged, Waiting, IInv, TypeOK
    <3> QED BY <3>2 DEF Counted
  <2>5. c.requests = Cardinality(Counted(a)) BY <1>1 DEF IInv, Exact
  <2> QED BY <2>2, <2>4, <2>5
<1>11. AvailableIsComplete' BY <1>6, <1>9, <1>10 DEF IInv, AvailableIsComplete
<1>12. OnlyLateRequestsStray' BY DEF IInv, OnlyLateRequestsStray
<1> QED BY <1>3, <1>4, <1>5, <1>8, <1>11, <1>12 DEF IInv

\* What an arrival changes of the sets: the request joins those of its token and, if its
\* sender lives, those sent in time.
LEMMA Arrival ==
    ASSUME IInv, NEW r \in Request, request[r].pc = "new",
           NEW a \in Attempt, NEW b \in Attempt \cup {Nil},
           request' = [request EXCEPT ![r] =
              [pc |-> "open", token |-> b, sender |-> a, late |-> a \notin active]]
    PROVE  /\ r \notin UNION {Charged(x) \cup InTime(x) : x \in Attempt}
           /\ \A x \in Attempt :
                /\ Charged(x)' = IF x = b THEN Charged(x) \cup {r} ELSE Charged(x)
                /\ Waiting(x)' = IF x = b THEN Waiting(x) \cup {r} ELSE Waiting(x)
                /\ Counted(x)' = Counted(x)
                /\ InTime(x)' = IF x = a /\ a \in active THEN InTime(x) \cup {r} ELSE InTime(x)
<1> DEFINE R == [pc |-> "open", token |-> b, sender |-> a, late |-> a \notin active]
<1>1. request'[r] = R /\ \A q \in Request \ {r} : request'[q] = request[q]
      BY DEF IInv, TypeOK
<1>2. request[r].token = Nil /\ request[r].sender = Nil BY DEF IInv, Traced, New
<1>3. r \notin UNION {Charged(x) \cup InTime(x) : x \in Attempt}
      BY <1>2, ConstantsAssumption DEF Charged, InTime
<1>4. ASSUME NEW x \in Attempt
      PROVE  /\ Charged(x)' = IF x = b THEN Charged(x) \cup {r} ELSE Charged(x)
             /\ Waiting(x)' = IF x = b THEN Waiting(x) \cup {r} ELSE Waiting(x)
             /\ Counted(x)' = Counted(x)
             /\ InTime(x)' = IF x = a /\ a \in active THEN InTime(x) \cup {r} ELSE InTime(x)
  <2>1. r \notin Charged(x) /\ r \notin InTime(x) BY <1>3
  <2>2. Charged(x)' = IF x = b THEN Charged(x) \cup {r} ELSE Charged(x)
        BY <1>1, <2>1 DEF Charged
  <2>3. Waiting(x)' = IF x = b THEN Waiting(x) \cup {r} ELSE Waiting(x)
        BY <1>1, <2>1, <2>2 DEF Waiting, Charged
  <2>4. Counted(x)' = Counted(x) BY <1>1, <2>1, <2>2 DEF Counted, Charged
  <2>5. InTime(x)' = IF x = a /\ a \in active THEN InTime(x) \cup {r} ELSE InTime(x)
    <3>1. request'[r].sender = a /\ request'[r].late = (a \notin active)
          BY <1>1
    <3>2. CASE a \in active
      <4>1. ~request'[r].late BY <3>1, <3>2
      <4> QED BY <1>1, <2>1, <3>1, <3>2, <4>1 DEF InTime
    <3>3. CASE a \notin active
      <4>1. request'[r].late BY <3>1, <3>3
      <4> QED BY <1>1, <2>1, <3>1, <3>3, <4>1 DEF InTime
    <3> QED BY <3>2, <3>3
  <2> QED BY <2>2, <2>3, <2>4, <2>5
<1> QED BY <1>3, <1>4

\* A request that resolves is in flight for its token, and that is its sender's if the
\* sender lives.
LEMMA ChargeKeeps ==
    ASSUME IInv, NEW r \in Request, NEW a \in Attempt, NEW shows, NEW b \in Resolved(a, shows),
           request[r].pc = "new", attempt[a] # "idle", Charge(r, a, b),
           UNCHANGED <<attempt, active, sessions, payload>>
    PROVE  IInv'
<1> USE DEF Charge
<1>1. b \in active /\ (a \in active => b = a) BY ResolvedToSender
<1>2. b \in Attempt BY <1>1 DEF IInv, TypeOK
<1>3. contexts[b] \in Context /\ contexts[b] # Nil
      BY <1>1, <1>2 DEF IInv, TypeOK, Registered
<1>4. /\ contexts' = [contexts EXCEPT ![b].inflight = @ + 1]
      /\ contexts'[b] \in Context
      /\ contexts'[b].inflight = contexts[b].inflight + 1
      /\ contexts'[b].requests = contexts[b].requests
      /\ contexts'[b].ambiguous = contexts[b].ambiguous
      /\ \A x \in Attempt \ {b} : contexts'[x] = contexts[x]
      BY <1>2, <1>3 DEF IInv, TypeOK, Context
<1>5. contexts'[b] # Nil BY <1>4, ConstantsAssumption
<1>6. request'[r] = [pc |-> "open", token |-> b, sender |-> a, late |-> a \notin active]
      /\ \A q \in Request \ {r} : request'[q] = request[q]
      BY DEF IInv, TypeOK
<1>7. TypeOK'
  <2>1. contexts' \in [Attempt -> Context \cup {Nil}] BY <1>2, <1>4 DEF IInv, TypeOK
  <2>2. request' \in [Request -> [pc : {"new", "open", "finished", "gone"},
                                  token : Attempt \cup {Nil}, sender : Attempt \cup {Nil},
                                  late : BOOLEAN]]
        BY <1>2 DEF IInv, TypeOK
  <2> QED BY <2>1, <2>2 DEF IInv, TypeOK
<1>8. Registered' BY <1>2, <1>3, <1>4, <1>5 DEF IInv, Registered
<1>9. Traced' BY <1>1, <1>2, <1>6 DEF IInv, Traced, Registered
<1>10. /\ r \notin UNION {Charged(x) \cup InTime(x) : x \in Attempt}
       /\ \A x \in Attempt :
            /\ Charged(x)' = IF x = b THEN Charged(x) \cup {r} ELSE Charged(x)
            /\ Waiting(x)' = IF x = b THEN Waiting(x) \cup {r} ELSE Waiting(x)
            /\ Counted(x)' = Counted(x)
            /\ InTime(x)' = IF x = a /\ a \in active THEN InTime(x) \cup {r} ELSE InTime(x)
      BY <1>2, Arrival
<1>11. Exact'
  <2> SUFFICES ASSUME NEW x \in Attempt, contexts'[x] # Nil
               PROVE  /\ contexts'[x].inflight = Cardinality(Waiting(x)')
                      /\ contexts'[x].requests = Cardinality(Counted(x)')
                      /\ contexts'[x].ambiguous = 0 => InTime(x)' \subseteq Charged(x)'
      BY DEF Exact
  <2>1. CASE x = b
    <3>1. r \notin Waiting(b) BY <1>2, <1>10 DEF Waiting
    <3>2. Cardinality(Waiting(b) \cup {r}) = Cardinality(Waiting(b)) + 1
          BY <3>1, Finite, FS_AddElement
    <3>3. /\ contexts[b].inflight = Cardinality(Waiting(b))
          /\ contexts[b].requests = Cardinality(Counted(b))
          /\ contexts[b].ambiguous = 0 => InTime(b) \subseteq Charged(b)
          BY <1>2, <1>3 DEF IInv, Exact
    <3> QED BY <2>1, <1>2, <1>4, <1>10, <3>2, <3>3
  <2>2. CASE x # b
    <3>1. /\ contexts[x].inflight = Cardinality(Waiting(x))
          /\ contexts[x].requests = Cardinality(Counted(x))
          /\ contexts[x].ambiguous = 0 => InTime(x) \subseteq Charged(x)
          BY <1>4, <2>2 DEF IInv, Exact
    <3>2. InTime(x)' = InTime(x) BY <1>1, <1>10, <2>2
    <3> QED BY <1>4, <1>10, <2>2, <3>1, <3>2
  <2> QED BY <2>1, <2>2
<1>12. AvailableIsComplete'
  <2>1. \A x \in Attempt : payload[x] # Nil => x # b /\ x \notin active
        BY <1>1 DEF IInv, Registered
  <2>2. \A x \in Attempt : payload[x] # Nil => Charged(x)' = Charged(x) /\ InTime(x)' = InTime(x)
        BY <1>10, <2>1
  <2>3. payload' = payload OBVIOUS
  <2> QED BY <2>2, <2>3 DEF IInv, AvailableIsComplete
<1>13. OnlyLateRequestsStray'
  <2>1. request'[r].token = b /\ request'[r].sender = a /\ request'[r].late = (a \notin active)
        BY <1>6
  <2>2. b # a => a \notin active BY <1>1
  <2>3. b # a => request'[r].late BY <2>1, <2>2
  <2> QED BY <1>6, <2>1, <2>3 DEF IInv, OnlyLateRequestsStray
<1> QED BY <1>7, <1>8, <1>9, <1>11, <1>12, <1>13 DEF IInv

\* A request that does not resolve is nobody's, and every living attempt is told that one
\* of its own may be missing.
LEMMA AmbiguousKeeps ==
    ASSUME IInv, NEW r \in Request, NEW a \in Attempt,
           request[r].pc = "new", attempt[a] # "idle", Ambiguous(r, a),
           UNCHANGED <<attempt, active, sessions, payload>>
    PROVE  IInv'
<1> USE DEF Ambiguous
<1>1. \A x \in active : x \in Attempt /\ contexts[x] \in Context /\ contexts[x] # Nil
      BY DEF IInv, TypeOK, Registered
<1>2. \A x \in active : /\ contexts'[x] \in Context
                        /\ contexts'[x].inflight = contexts[x].inflight
                        /\ contexts'[x].requests = contexts[x].requests
                        /\ contexts'[x].ambiguous = contexts[x].ambiguous + 1
                        /\ contexts'[x].ambiguous # 0
      BY <1>1 DEF Context
<1>3. \A x \in Attempt : x \notin active => contexts'[x] = contexts[x]
      OBVIOUS
<1>4. request'[r] = [pc |-> "open", token |-> Nil, sender |-> a, late |-> a \notin active]
      /\ \A q \in Request \ {r} : request'[q] = request[q]
      BY DEF IInv, TypeOK
<1>5. TypeOK'
  <2>1. contexts' \in [Attempt -> Context \cup {Nil}] BY <1>2, <1>3 DEF IInv, TypeOK
  <2>2. request' \in [Request -> [pc : {"new", "open", "finished", "gone"},
                                  token : Attempt \cup {Nil}, sender : Attempt \cup {Nil},
                                  late : BOOLEAN]]
        BY DEF IInv, TypeOK
  <2> QED BY <2>1, <2>2 DEF IInv, TypeOK
<1>6. Registered' BY <1>1, <1>2, <1>3, ConstantsAssumption DEF IInv, Registered
<1>7. Traced' BY <1>4, ConstantsAssumption DEF IInv, Traced
<1>8. \A x \in Attempt :
            /\ Charged(x)' = Charged(x)
            /\ Waiting(x)' = Waiting(x)
            /\ Counted(x)' = Counted(x)
            /\ InTime(x)' = IF x = a /\ a \in active THEN InTime(x) \cup {r} ELSE InTime(x)
  <2>1. Nil \notin Attempt BY ConstantsAssumption
  <2>2. request' = [request EXCEPT ![r] =
              [pc |-> "open", token |-> Nil, sender |-> a, late |-> a \notin active]]
        OBVIOUS
  <2>3. \A x \in Attempt :
            /\ Charged(x)' = IF x = Nil THEN Charged(x) \cup {r} ELSE Charged(x)
            /\ Waiting(x)' = IF x = Nil THEN Waiting(x) \cup {r} ELSE Waiting(x)
            /\ Counted(x)' = Counted(x)
            /\ InTime(x)' = IF x = a /\ a \in active THEN InTime(x) \cup {r} ELSE InTime(x)
        BY <2>2, Arrival
  <2> QED BY <2>1, <2>3
<1>9. Exact'
  <2> SUFFICES ASSUME NEW x \in Attempt, contexts'[x] # Nil
               PROVE  /\ contexts'[x].inflight = Cardinality(Waiting(x))
                      /\ contexts'[x].requests = Cardinality(Counted(x))
                      /\ contexts'[x].ambiguous = 0 => InTime(x)' \subseteq Charged(x)
      BY <1>8 DEF Exact
  <2>1. x \in active BY <1>3 DEF IInv, Registered
  <2> QED BY <1>1, <1>2, <2>1 DEF IInv, Exact
<1>10. AvailableIsComplete'
  <2>1. \A x \in Attempt : payload[x] # Nil => Charged(x)' = Charged(x) /\ InTime(x)' = InTime(x)
        BY <1>8 DEF IInv, Registered
  <2>2. payload' = payload OBVIOUS
  <2> QED BY <2>1, <2>2 DEF IInv, AvailableIsComplete
<1>11. OnlyLateRequestsStray' BY <1>4 DEF IInv, OnlyLateRequestsStray
<1> QED BY <1>5, <1>6, <1>7, <1>9, <1>10, <1>11 DEF IInv

\* A context that has a request in flight counts it.
LEMMA Counting == ASSUME NEW c \in Context, c.inflight # 0
                  PROVE  /\ Count(c) \in Context
                         /\ Count(c).inflight = c.inflight - 1
                         /\ Count(c).requests = c.requests + 1
                         /\ Count(c).ambiguous = c.ambiguous
<1>1. c.inflight \in Nat /\ c.requests \in Nat /\ c.ambiguous \in Nat BY DEF Context
<1>2. c.inflight - 1 \in Nat /\ c.requests + 1 \in Nat BY <1>1
<1> DEFINE i == c.inflight - 1  n == c.requests + 1
<1> HIDE DEF i, n
<1>3. Count(c) = [c EXCEPT !.requests = n, !.inflight = i] BY DEF Count, i, n
<1>4. i \in Nat /\ n \in Nat BY <1>2 DEF i, n
<1>5. /\ Count(c) \in Context
      /\ Count(c).inflight = i
      /\ Count(c).requests = n
      /\ Count(c).ambiguous = c.ambiguous
      BY <1>3, <1>4 DEF Context
<1> QED BY <1>5 DEF i, n

\* A response moves its request from those in flight to those counted, if the attempt it
\* was charged to still has its context.
LEMMA FinishKeeps == ASSUME IInv, NEW r \in Request, Finish(r) PROVE IInv'
<1> USE DEF Finish
<1> DEFINE b == request[r].token
<1>1. /\ request'[r].pc = "finished"
      /\ request'[r].token = request[r].token
      /\ request'[r].sender = request[r].sender
      /\ request'[r].late = request[r].late
      /\ \A q \in Request \ {r} : request'[q] = request[q]
      /\ request' \in [Request -> [pc : {"new", "open", "finished", "gone"},
                                   token : Attempt \cup {Nil}, sender : Attempt \cup {Nil},
                                   late : BOOLEAN]]
      BY DEF IInv, TypeOK
<1>2. \A x \in Attempt : Charged(x)' = Charged(x) /\ InTime(x)' = InTime(x)
  <2>1. \A x \in Attempt : Charged(x)' = Charged(x) BY <1>1 DEF Charged
  <2>2. \A x \in Attempt : InTime(x)' = InTime(x) BY <1>1 DEF InTime
  <2> QED BY <2>1, <2>2
<1>3. \A x \in Attempt \ {b} : Waiting(x)' = Waiting(x) /\ Counted(x)' = Counted(x)
      BY <1>1, <1>2 DEF Waiting, Counted, Charged
<1>4. b \in Attempt => /\ r \in Waiting(b)
                       /\ r \notin Counted(b)
                       /\ Waiting(b)' = Waiting(b) \ {r}
                       /\ Counted(b)' = Counted(b) \cup {r}
      BY <1>1, <1>2 DEF Waiting, Counted, Charged
<1>5. Traced' BY <1>1 DEF IInv, Traced
<1>6. AvailableIsComplete'
  <2>1. payload' = payload OBVIOUS
  <2> QED BY <1>2, <2>1 DEF IInv, AvailableIsComplete
<1>7. OnlyLateRequestsStray' BY <1>1 DEF IInv, OnlyLateRequestsStray
<1>8. CASE b # Nil /\ contexts[b] # Nil
  <2> DEFINE c == contexts[b]
  <2>1. b \in Attempt BY <1>8 DEF IInv, TypeOK
  <2>2. c \in Context BY <1>8, <2>1 DEF IInv, TypeOK
  <2>3. /\ c.inflight = Cardinality(Waiting(b))
        /\ c.requests = Cardinality(Counted(b))
        /\ c.ambiguous = 0 => InTime(b) \subseteq Charged(b)
        BY <1>8, <2>1 DEF IInv, Exact
  <2>4. c.inflight # 0
    <3>1. Waiting(b) # {} BY <1>4, <2>1
    <3> QED BY <3>1, <2>3, Finite, FS_EmptySet
  <2>5. /\ contexts'[b] = Count(c)
        /\ \A x \in Attempt \ {b} : contexts'[x] = contexts[x]
        /\ DOMAIN contexts' = Attempt
        /\ contexts' = [x \in Attempt |-> contexts'[x]]
        BY <1>8, <2>1 DEF IInv, TypeOK
  <2>6. /\ Count(c) \in Context
        /\ Count(c).inflight = c.inflight - 1
        /\ Count(c).requests = c.requests + 1
        /\ Count(c).ambiguous = c.ambiguous
    BY <2>2, <2>4, Counting
  <2>7. Count(c) # Nil BY <2>6, ConstantsAssumption
  <2>8. TypeOK'
    <3>1. contexts' \in [Attempt -> Context \cup {Nil}] BY <2>5, <2>6 DEF IInv, TypeOK
    <3> QED BY <1>1, <3>1 DEF IInv, TypeOK
  <2>9. Registered' BY <1>8, <2>1, <2>5, <2>7 DEF IInv, Registered
  <2>10. Exact'
    <3> SUFFICES ASSUME NEW x \in Attempt, contexts'[x] # Nil
                 PROVE  /\ contexts'[x].inflight = Cardinality(Waiting(x)')
                        /\ contexts'[x].requests = Cardinality(Counted(x)')
                        /\ contexts'[x].ambiguous = 0 => InTime(x) \subseteq Charged(x)
        BY <1>2 DEF Exact
    <3>1. CASE x = b
      <4>1. Cardinality(Waiting(b) \ {r}) = Cardinality(Waiting(b)) - 1
        <5>1. r \in Waiting(b) /\ IsFiniteSet(Waiting(b)) BY <1>4, <2>1, Finite
        <5> QED BY <5>1, FS_RemoveElement
      <4>2. Cardinality(Counted(b) \cup {r}) = Cardinality(Counted(b)) + 1
            BY <1>4, <2>1, Finite, FS_AddElement
      <4> QED BY <1>4, <2>1, <2>3, <2>5, <2>6, <3>1, <4>1, <4>2
    <3>2. CASE x # b BY <1>3, <2>5, <3>2 DEF IInv, Exact
    <3> QED BY <3>1, <3>2
  <2> QED BY <1>5, <1>6, <1>7, <2>8, <2>9, <2>10 DEF IInv
<1>9. CASE ~(b # Nil /\ contexts[b] # Nil)
  <2>1. contexts' = contexts BY <1>9
  <2>2. TypeOK' BY <1>1, <2>1 DEF IInv, TypeOK
  <2>3. Registered' BY <2>1 DEF IInv, Registered
  <2>4. Exact'
    <3>1. \A x \in Attempt : contexts[x] # Nil =>
             Waiting(x)' = Waiting(x) /\ Counted(x)' = Counted(x)
          BY <1>3, <1>9, ConstantsAssumption
    <3> QED BY <1>2, <2>1, <3>1 DEF IInv, Exact
  <2> QED BY <1>5, <1>6, <1>7, <2>2, <2>3, <2>4 DEF IInv
<1> QED BY <1>8, <1>9

\* The request of a handler that died stays in flight.
LEMMA HandlerDiesKeeps == ASSUME IInv, NEW r \in Request, HandlerDies(r) PROVE IInv'
<1> USE DEF HandlerDies
<1>1. /\ request'[r].pc = "gone"
      /\ request'[r].token = request[r].token
      /\ request'[r].sender = request[r].sender
      /\ request'[r].late = request[r].late
      /\ \A q \in Request \ {r} : request'[q] = request[q]
      BY DEF IInv, TypeOK
<1>2. TypeOK' BY DEF IInv, TypeOK
<1>3. Registered' BY DEF IInv, Registered
<1>4. Traced' BY <1>1 DEF IInv, Traced
<1>5. \A x \in Attempt : Charged(x)' = Charged(x) BY <1>1 DEF Charged
<1>6. \A x \in Attempt : InTime(x)' = InTime(x) BY <1>1 DEF InTime
<1>7. \A x \in Attempt : Waiting(x)' = Waiting(x) /\ Counted(x)' = Counted(x)
      BY <1>1, <1>5 DEF Waiting, Counted, Charged
<1>8. Exact' BY <1>5, <1>6, <1>7 DEF IInv, Exact
<1>9. AvailableIsComplete' BY <1>5, <1>6 DEF IInv, AvailableIsComplete
<1>10. OnlyLateRequestsStray' BY <1>1 DEF IInv, OnlyLateRequestsStray
<1> QED BY <1>2, <1>3, <1>4, <1>8, <1>9, <1>10 DEF IInv

-----------------------------------------------------------------------------
\* Every step of the attempts and of the handlers.
LEMMA NextKeeps == IInv /\ [Next]_vars => IInv'
<1> SUFFICES ASSUME IInv, [Next]_vars PROVE IInv'
    OBVIOUS
<1>1. CASE \E a \in Attempt :
              Begin(a) \/ End(a) \/ Abandon(a) \/ Quiet(a) \/ GraceOver(a) \/ Close(a)
      BY <1>1, BeginKeeps, MoveKeeps, CloseKeeps
<1>2. CASE \E r \in Request : Finish(r) \/ HandlerDies(r)
      BY <1>2, FinishKeeps, HandlerDiesKeeps
<1>3. CASE \E r \in Request, a \in Attempt, shows \in BOOLEAN : Arrive(r, a, shows)
  <2>1. PICK r \in Request, a \in Attempt, shows \in BOOLEAN : Arrive(r, a, shows)
        BY <1>3
  <2>2. CASE \E b \in Resolved(a, shows) : Charge(r, a, b)
        BY <2>1, <2>2, ChargeKeeps DEF Arrive
  <2>3. CASE Ambiguous(r, a) BY <2>1, <2>3, AmbiguousKeeps DEF Arrive
  <2> QED BY <2>1, <2>2, <2>3 DEF Arrive
<1>4. CASE UNCHANGED vars
  <2> USE <1>4 DEF vars
  <2>1. TypeOK' BY DEF IInv, TypeOK
  <2>2. Registered' BY DEF IInv, Registered
  <2>3. Traced' BY DEF IInv, Traced
  <2>4. Exact' BY DEF IInv, Exact, Waiting, Counted, Charged, InTime
  <2>5. AvailableIsComplete' BY DEF IInv, AvailableIsComplete, Charged, InTime
  <2>6. OnlyLateRequestsStray' BY DEF IInv, OnlyLateRequestsStray
  <2> QED BY <2>1, <2>2, <2>3, <2>4, <2>5, <2>6 DEF IInv
<1> QED BY <1>1, <1>2, <1>3, <1>4 DEF Next

\* IInv holds for any number of attempts and requests.
THEOREM Invariance == Spec => []IInv
<1>1. Init => IInv BY InitIInv
<1>2. IInv /\ [Next]_vars => IInv' BY NextKeeps
<1> QED BY <1>1, <1>2, PTL DEF Spec

\* What an attempt waits on and what it is told are exact.
THEOREM ExactTraffic == Spec => []TrafficIsExact
<1>1. IInv => TrafficIsExact
  <2> SUFFICES ASSUME IInv PROVE TrafficIsExact
      OBVIOUS
  <2>1. InFlightIsExact BY DEF IInv, Exact, InFlightIsExact, Waiting
  <2> QED BY <2>1 DEF IInv, TrafficIsExact
<1> QED BY <1>1, Invariance, PTL

\* A request charged to another attempt than its sender's came after its sender had ended.
THEOREM StraysAreLate == Spec => []OnlyLateRequestsStray
<1>1. IInv => OnlyLateRequestsStray BY DEF IInv
<1> QED BY <1>1, Invariance, PTL
-----------------------------------------------------------------------------
(* The other side of the fixture server: what its handlers do for the         *)
(* shopping mini-app.  Tracker and mini-app share no variable.                *)

Operation == {"login", "logout", "items", "cart", "add", "remove", "checkout"}
Position == {"sent", "pop", "lookup", "read", "write", "drop", "badge", "total", "list",
             "reset", "answered", "crashed"}
InCart == {"read", "write", "drop", "badge", "total", "list"}

\* What a cart may hold, and what a view may make of it.
Content == [Items -> Nat]
Totals == {0} \cup {Total(c) : c \in Content}
Badges == {0} \cup {Badge(c) : c \in Content}
Counts == {0} \cup {Kinds(c) : c \in Content}
\* A request, from the click to its answer.
Call == [pc : Position, op : Operation, item : Items \cup {NoItem}, cookie : Nat, gen : Nat,
         then : BOOLEAN, cart : Nat, qty : Nat, badge : Badges, total : Totals, keys : Counts,
         status : {0, 200, 401}, due : Content]

\* Where the handler of each operation can stand.
Fits(c) ==
    /\ c.pc = "pop" => c.op = "logout"
    /\ c.pc \in {"lookup", "crashed"} => c.op \in {"cart", "add", "remove", "checkout"}
    /\ c.pc \in {"read", "write"} => c.op = "add"
    /\ c.pc = "drop" => c.op = "remove"
    /\ c.pc \in {"badge", "total", "list"} => c.op \in {"cart", "checkout"}
    /\ c.pc = "reset" => c.op = "checkout"
    /\ c.op \in {"add", "remove"} => c.item \in Items

Under(r) == appRequest[r].pc # "free"

\* Every place holds a request of a sid that was given out, or nothing.
Calls ==
    /\ appRequest \in [Slots -> Call \cup {Free}]
    /\ ideal \in [Sid -> Content]
    /\ \A r \in Slots : Under(r) => Fits(appRequest[r]) /\ appRequest[r].cookie <= issued
    /\ \A r \in Slots : Serving(r) => appRequest[r].cookie # 0

\* Sids and cart objects that were not given out are unused.
Fresh ==
    /\ overlap \subseteq 1 .. issued /\ loggedOut \subseteq 1 .. issued
    /\ \A s \in Sid : s > issued => appSessions[s] = 0 /\ ideal[s] = EmptyCart
    /\ \A s \in Sid : appSessions[s] <= made
    /\ \A c \in Cart : c > made => carts[c] = EmptyCart

\* The cart a handler holds was its session's and is no other session's.
OwnCart(r) ==
    Under(r) /\ appRequest[r].pc \in InCart =>
        /\ appRequest[r].cart \in 1 .. made
        /\ \A s \in Sid : appSessions[s] = appRequest[r].cart => s = appRequest[r].cookie

\* A handler whose session is not known to overlap is alone in it, the session lives, and
\* what it has read so far is what the session's cart should hold.
AloneAt(r) ==
    Serving(r) /\ appRequest[r].cookie \notin overlap =>
        LET c == appRequest[r]  s == appRequest[r].cookie IN
        /\ Live(s)
        /\ \A q \in Slots : Serving(q) /\ appRequest[q].cookie = s => q = r
        /\ c.pc \in InCart => c.cart = appSessions[s]
        /\ c.pc = "write" => c.qty = ideal[s][c.item]
        /\ c.pc = "total" => c.keys = Kinds(ideal[s])
        /\ c.pc = "list" => c.total = Total(ideal[s])

\* A view that was complete before anything overlapped says what was due.
ViewedAt(r) ==
    LET c == appRequest[r] IN
    (/\ Under(r) /\ c.pc \in {"answered", "reset"} /\ c.op \in {"cart", "checkout"}
     /\ c.cookie \notin overlap
     /\ c.pc = "answered" => c.status = 200)
    => /\ c.total = Total(c.due)
       /\ c.keys = Kinds(c.due)

\* A handler that died had company.
CrashedAt(r) == appRequest[r].pc = "crashed" => appRequest[r].cookie \in overlap

\* No two sessions share a cart object.
OwnSession == \A s, t \in Sid : appSessions[s] = appSessions[t] /\ s # t => appSessions[s] = 0
\* The cart of a session without overlaps is what it should be.
Kept == \A s \in Sid \ overlap : Live(s) => carts[appSessions[s]] = ideal[s]

FaithfulAt(r) == OwnCart(r) /\ AloneAt(r) /\ ViewedAt(r) /\ CrashedAt(r)
Faithful == OwnSession /\ Kept /\ \A r \in Slots : FaithfulAt(r)

\* What the list should show for a cookie, and who may still change it: a logout under way,
\* and the newest load of the list.
Truth(c) == IF Live(c) THEN "items" ELSE "locked"
Reloads == \E r \in Slots : Under(r) /\ appRequest[r].op = "logout"
Lists(r) == Under(r) /\ appRequest[r].op = "items"

\* The newest load is for the page's cookie and was answered truly, and without it or a logout
\* the list is what it should be.
Rendered ==
    /\ gen > 0
    /\ \A r \in Slots : Lists(r) =>
            /\ appRequest[r].gen <= gen
            /\ Newest(r) => appRequest[r].cookie = jar
            /\ Newest(r) /\ appRequest[r].pc = "answered" =>
                   Reloads \/ (appRequest[r].status = 200 <=> Live(jar))
    /\ \/ Reloads
       \/ \E r \in Slots : Lists(r) /\ Newest(r)
       \/ shown = Truth(jar)

AppInv ==
    /\ AppTypeOK /\ Calls /\ Fresh
    /\ Faithful /\ Rendered /\ LoggedOutForGood
-----------------------------------------------------------------------------
\* What a place holds is a call or nothing.
LEMMA Shape ==
    ASSUME Calls, NEW r \in Slots
    PROVE  /\ Under(r) => appRequest[r] \in Call
           /\ ~Under(r) => appRequest[r] = Free
           /\ Serving(r) => Under(r)
<1>1. appRequest[r] \in Call \cup {Free} BY DEF Calls
<1>2. appRequest[r] \in Call => appRequest[r].pc # "free" BY DEF Call, Position
<1>3. Free.pc = "free" BY DEF Free
<1> QED BY <1>1, <1>2, <1>3 DEF Under, Serving

\* A step that changes one place.
Turn(r) == \A q \in Slots \ {r} : appRequest'[q] = appRequest[q]

\* The calls are still of sids that were given out.
LEMMA CallsTurn ==
    ASSUME AppInv, NEW r \in Slots, Turn(r),
        appRequest' = [appRequest EXCEPT ![r] = appRequest'[r]],
           issued <= issued', issued' \in Nat, issued \in Nat,
           \/ appRequest'[r] = Free
           \/ /\ appRequest'[r] \in Call /\ Fits(appRequest'[r])
              /\ appRequest'[r].cookie <= issued'
              /\ Serving(r)' => appRequest'[r].cookie # 0,
           ideal' \in [Sid -> Content]
    PROVE  Calls'
<1>1. appRequest' \in [Slots -> Call \cup {Free}] BY Zenon DEF AppInv, Calls
<1>2. Free.pc = "free" BY DEF Free
<1>3. ASSUME NEW q \in Slots, Under(q)'
      PROVE  Fits(appRequest'[q]) /\ appRequest'[q].cookie <= issued'
  <2>1. CASE q = r BY <2>1, <1>2, <1>3 DEF Under
  <2>2. CASE q # r
    <3>1. appRequest'[q] = appRequest[q] BY <2>2 DEF Turn
    <3>2. Fits(appRequest[q]) /\ appRequest[q].cookie <= issued
          BY <3>1, <1>3 DEF AppInv, Calls, Under
    <3>3. appRequest[q] \in Call BY <3>1, <1>3, Shape DEF AppInv, Under
    <3>4. appRequest[q].cookie \in Nat BY <3>3 DEF Call
    <3> QED BY <3>1, <3>2, <3>4
  <2> QED BY <2>1, <2>2
<1>4. ASSUME NEW q \in Slots, Serving(q)' PROVE appRequest'[q].cookie # 0
  <2>1. CASE q = r BY <2>1, <1>2, <1>4 DEF Serving
  <2>2. CASE q # r BY <2>2, <1>4 DEF Serving, Turn, AppInv, Calls
  <2> QED BY <2>1, <2>2
<1>5. \A q \in Slots : Under(q)' => Fits(appRequest'[q]) /\ appRequest'[q].cookie <= issued'
      BY <1>3
<1>6. Fits(appRequest[r])' <=> Fits(appRequest'[r]) BY DEF Fits
<1> QED BY <1>1, <1>4, <1>5 DEF Calls, Fits, Under

\* The call changes, its server and its page do not.
LEMMA FaithfulTurn ==
    ASSUME AppInv, NEW r \in Slots, Turn(r), UNCHANGED <<server, ideal>>,
           overlap \subseteq overlap', FaithfulAt(r)'
    PROVE  Faithful'
<1> USE DEF server
<1>1. OwnSession' BY DEF AppInv, Faithful, OwnSession
<1>2. Kept' BY DEF AppInv, Faithful, Kept, Live
<1>3. ASSUME NEW q \in Slots, q # r PROVE FaithfulAt(q)'
  <2>1. appRequest'[q] = appRequest[q] /\ FaithfulAt(q) BY <1>3 DEF Turn, AppInv, Faithful
  <2>2. OwnCart(q)' BY <2>1 DEF FaithfulAt, OwnCart, Under
  <2>3. AloneAt(q)'
    <3> SUFFICES ASSUME Serving(q)', appRequest'[q].cookie \notin overlap'
                 PROVE  AloneAt(q)'
        BY DEF AloneAt
    <3>1. Serving(q) /\ appRequest[q].cookie \notin overlap BY <2>1 DEF Serving
    <3>2. AloneAt(q) BY <2>1 DEF FaithfulAt
    <3>3. ASSUME NEW p \in Slots, Serving(p)', appRequest'[p].cookie = appRequest[q].cookie
          PROVE  p = q
      <4>1. CASE p = r
        <5>1. AloneAt(r)' BY DEF FaithfulAt
        <5> QED BY <5>1, <4>1, <3>3, <2>1 DEF AloneAt
      <4>2. CASE p # r BY <4>2, <3>3, <3>1, <3>2 DEF AloneAt, Serving, Turn
      <4> QED BY <4>1, <4>2
    <3> QED BY <3>1, <3>2, <3>3, <2>1 DEF AloneAt, Live
  <2>4. ViewedAt(q)' BY <2>1 DEF FaithfulAt, ViewedAt, Under
  <2>5. CrashedAt(q)' BY <2>1 DEF FaithfulAt, CrashedAt
  <2> QED BY <2>2, <2>3, <2>4, <2>5 DEF FaithfulAt
<1> QED BY <1>1, <1>2, <1>3 DEF Faithful

\* A handler goes on: what the page will show stays on its way.
LEMMA RenderedTurn ==
    ASSUME AppInv, NEW r \in Slots, Turn(r), UNCHANGED page, Under(r), Under(r)',
           appRequest'[r].op = appRequest[r].op, appRequest'[r].gen = appRequest[r].gen,
           appRequest[r].op = "items" => appRequest'[r].cookie = appRequest[r].cookie,
           (Live(jar)' <=> Live(jar)) \/ appRequest[r].op = "logout",
           appRequest[r].op = "items" /\ appRequest'[r].pc = "answered"
               => (appRequest'[r].status = 200 <=> Live(appRequest[r].cookie))
    PROVE  Rendered'
<1> USE DEF page
<1>1. Rendered BY DEF AppInv
<1>2. \A q \in Slots : /\ Lists(q)' <=> Lists(q)
                       /\ Under(q)' <=> Under(q)
                       /\ Under(q) => appRequest'[q].op = appRequest[q].op
                             /\ appRequest'[q].gen = appRequest[q].gen
                       /\ Lists(q) => appRequest'[q].cookie = appRequest[q].cookie
      BY DEF Lists, Under, Turn
<1>3. Reloads' <=> Reloads BY <1>2 DEF Reloads
<1>4. (Live(jar)' <=> Live(jar)) \/ Reloads BY DEF Reloads
<1>5. ASSUME NEW q \in Slots, Lists(q)'
      PROVE  /\ appRequest'[q].gen <= gen
             /\ Newest(q)' => appRequest'[q].cookie = jar
             /\ Newest(q)' /\ appRequest'[q].pc = "answered" =>
                  Reloads \/ (appRequest'[q].status = 200 <=> Live(jar)')
  <2>1. Lists(q) /\ appRequest'[q].gen = appRequest[q].gen
        /\ appRequest'[q].cookie = appRequest[q].cookie
        BY <1>2, <1>5 DEF Lists
  <2>2. /\ appRequest[q].gen <= gen
        /\ Newest(q) => appRequest[q].cookie = jar
        /\ Newest(q) /\ appRequest[q].pc = "answered" =>
             Reloads \/ (appRequest[q].status = 200 <=> Live(jar))
        BY <2>1, <1>1 DEF Rendered
  <2>3. Newest(q)' <=> Newest(q) BY <2>1 DEF Newest
  <2>4. CASE q = r BY <2>1, <2>2, <2>3, <2>4, <1>4 DEF Lists
  <2>5. CASE q # r BY <2>1, <2>2, <2>3, <2>5, <1>4 DEF Turn
  <2> QED BY <2>4, <2>5
<1>6. \/ Reloads
      \/ \E q \in Slots : Lists(q)' /\ Newest(q)'
      \/ shown = Truth(jar)'
  <2>1. CASE Reloads BY <2>1, Zenon
  <2>2. CASE \E q \in Slots : Lists(q) /\ Newest(q)
        BY <2>2, <1>2 DEF Newest, Lists
  <2>3. CASE shown = Truth(jar) BY <2>3, <1>4 DEF Truth
  <2> QED BY <2>1, <2>2, <2>3, <1>1 DEF Rendered
<1>7. gen' > 0 BY <1>1 DEF Rendered
<1> QED BY <1>3, <1>5, <1>6, <1>7 DEF Rendered, Newest, Lists, Truth

\* Nothing is known and the first call is the newest.
LEMMA InitAppInv == AppInit => AppInv
<1> SUFFICES ASSUME AppInit PROVE AppInv
    OBVIOUS
<1> DEFINE fresh == NewRequest("items", NoItem, 0, 1, TRUE)
<1>1. PICK first \in Slots : appRequest = [r \in Slots |-> IF r = first THEN fresh ELSE Free]
      BY Zenon DEF AppInit
<1>2. EmptyCart \in Content BY DEF EmptyCart, Content
<1>3. fresh \in Call
      BY <1>2 DEF NewRequest, Call, Position, Operation, Badges, Totals, Counts
<1>4. fresh.pc = "sent" /\ fresh.op = "items" /\ fresh.cookie = 0 /\ fresh.gen = 1
      /\ Free.pc = "free"
      BY DEF NewRequest, Free
<1> HIDE DEF fresh
<1>5. AppTypeOK BY <1>2, FixtureAppAssumption DEF AppInit, AppTypeOK, FixtureAppAssumption, Content, Cart,
      Sid
<1>6. Calls
  <2>1. Fits(fresh) BY <1>4 DEF Fits
  <2>2. \A r \in Slots : Under(r) => appRequest[r] = fresh BY <1>1, <1>4 DEF Under
  <2>3. \A r \in Slots : Serving(r) => FALSE BY <1>1, <1>4 DEF Serving
  <2>4. \A r \in Slots : Under(r) => Fits(appRequest[r]) /\ appRequest[r].cookie <= issued
    <3> SUFFICES ASSUME NEW r \in Slots, Under(r) PROVE Fits(appRequest[r])
        /\ appRequest[r].cookie <= issued
        OBVIOUS
    <3>1. appRequest[r] = fresh BY <2>2
    <3>2. issued = 0 /\ fresh.cookie = 0 BY <1>4 DEF AppInit
    <3> QED BY <3>1, <3>2, <2>1
  <2> QED BY <2>3, <2>4, <1>1, <1>2, <1>3, Zenon DEF Calls, AppInit
<1>7. Fresh BY DEF Fresh, AppInit
<1>8. Faithful
  <2>1. OwnSession BY DEF OwnSession, AppInit
  <2>2. Kept BY DEF Kept, AppInit, Live
  <2>3. ASSUME NEW r \in Slots PROVE FaithfulAt(r)
        BY <1>1, <1>4 DEF FaithfulAt, OwnCart, AloneAt, ViewedAt, CrashedAt, Serving, InCart
  <2> QED BY <2>1, <2>2, <2>3 DEF Faithful
<1>9. Rendered
  <2>1. Lists(first) /\ Newest(first)
        BY <1>1, <1>4, Zenon DEF Lists, Newest, Under, AppInit
  <2>2. \A r \in Slots : Lists(r) => appRequest[r] = fresh BY <1>1, <1>4 DEF Lists, Under
  <2>3. gen > 0 /\ jar = 0 /\ gen = 1 BY DEF AppInit
  <2> QED BY <2>1, <2>2, <2>3, <1>4 DEF Rendered, Newest
<1>10. LoggedOutForGood BY DEF LoggedOutForGood, AppInit
<1> QED BY <1>5, <1>6, <1>7, <1>8, <1>9, <1>10 DEF AppInv

\* What a handler finds in its place.
LEMMA InHand ==
    ASSUME AppInv, NEW r \in Slots, Under(r)
    PROVE  /\ appRequest[r] \in Call /\ Fits(appRequest[r])
           /\ appRequest[r].cookie \in 0 .. issued /\ issued \in 0 .. MaxSessions
                 /\ made \in 0 .. MaxCarts
           /\ MaxSessions \in Nat /\ MaxCarts \in Nat
           /\ Serving(r) => appRequest[r].cookie \in 1 .. issued
                 /\ appRequest[r].cookie \in Sid
           /\ FaithfulAt(r)
<1>1. appRequest[r] \in Call BY Shape DEF AppInv
<1>2. appRequest[r].cookie \in Nat BY <1>1 DEF Call
<1>3. Fits(appRequest[r]) /\ appRequest[r].cookie <= issued BY DEF AppInv, Calls
<1>4. Serving(r) => appRequest[r].cookie # 0 BY DEF AppInv, Calls
<1>5. issued \in 0 .. MaxSessions /\ made \in 0 .. MaxCarts /\ MaxSessions \in Nat
      /\ MaxCarts \in Nat
      BY FixtureAppAssumption DEF AppInv, AppTypeOK, FixtureAppAssumption
<1>6. FaithfulAt(r) BY DEF AppInv, Faithful
<1> QED BY <1>1, <1>2, <1>3, <1>4, <1>5, <1>6 DEF Sid

\* A handler that leaves the server and the page alone.
Reads(r) ==
    /\ Turn(r) /\ appRequest' = [appRequest EXCEPT ![r] = appRequest'[r]]
    /\ UNCHANGED <<server, page, ideal>>
    /\ Under(r) /\ appRequest'[r] \in Call /\ Fits(appRequest'[r])
    /\ appRequest'[r].op = appRequest[r].op /\ appRequest'[r].gen = appRequest[r].gen
    /\ appRequest'[r].cookie = appRequest[r].cookie

LEMMA ReadsKeeps ==
    ASSUME AppInv, NEW r \in Slots, Reads(r),
           overlap' = overlap \/ (overlap' = overlap \cup {appRequest[r].cookie}
              /\ appRequest[r].cookie \in 1 .. issued),
           Serving(r)' => appRequest[r].cookie # 0,
           appRequest[r].op = "items" /\ appRequest'[r].pc = "answered"
               => (appRequest'[r].status = 200 <=> Live(appRequest[r].cookie)),
           FaithfulAt(r)'
    PROVE  AppInv'
<1>0. /\ UNCHANGED <<appSessions, carts, issued, made, loggedOut, jar, gen, shown, clicks, ideal>>
      BY DEF Reads, server, page
<1>1. appRequest[r].cookie \in 0 .. issued /\ issued \in 0 .. MaxSessions /\ MaxSessions \in Nat
      BY InHand DEF Reads
<1>2. overlap \subseteq overlap' OBVIOUS
<1>3. AppTypeOK'
  <2>1. overlap' \subseteq Sid
    <3>1. CASE overlap' = overlap BY <3>1 DEF AppInv, AppTypeOK
    <3>2. CASE overlap' = overlap \cup {appRequest[r].cookie}
          /\ appRequest[r].cookie \in 1 .. issued
      <4>1. appRequest[r].cookie \in Sid BY <3>2, <1>1 DEF Sid
      <4> QED BY <4>1, <3>2 DEF AppInv, AppTypeOK
    <3> QED BY <3>1, <3>2
  <2> QED BY <2>1, <1>0 DEF AppInv, AppTypeOK
<1>4. Calls'
  <2>1. issued \in Nat /\ issued' = issued /\ ideal' \in [Sid -> Content]
        BY <1>0, <1>1 DEF AppInv, Calls
  <2>2. appRequest[r].cookie <= issued BY <1>1
  <2> QED BY <2>1, <2>2, CallsTurn DEF Reads
<1>5. Fresh'
  <2>1. overlap' \subseteq 1 .. issued
    <3>1. overlap \subseteq 1 .. issued BY DEF AppInv, Fresh
    <3>2. CASE overlap' = overlap BY <3>1, <3>2
    <3>3. CASE overlap' = overlap \cup {appRequest[r].cookie}
          /\ appRequest[r].cookie \in 1 .. issued
      <4> SUFFICES ASSUME NEW s \in overlap' PROVE s \in 1 .. issued
          OBVIOUS
      <4>1. s \in overlap \/ s = appRequest[r].cookie BY <3>3
      <4> QED BY <4>1, <3>1, <3>3
    <3> QED BY <3>2, <3>3
  <2> QED BY <2>1, <1>0 DEF AppInv, Fresh
<1>6. Faithful' BY <1>2, FaithfulTurn DEF Reads
<1>7. Rendered'
  <2>1. Under(r)' BY DEF Reads, Under, Call, Position
  <2>2. Live(jar)' <=> Live(jar) BY <1>0 DEF Live
  <2> QED BY <2>1, <2>2, RenderedTurn DEF Reads
<1>8. LoggedOutForGood' BY <1>0 DEF AppInv, LoggedOutForGood, Live
<1> QED BY <1>3, <1>4, <1>5, <1>6, <1>7, <1>8 DEF AppInv

\* A step that writes fields of the call in one place.
Same(d, c) ==
    /\ d.op = c.op /\ d.item = c.item /\ d.cookie = c.cookie /\ d.gen = c.gen /\ d.then = c.then
    /\ d.due = c.due

LEMMA Replaced ==
    ASSUME Calls, NEW r \in Slots, NEW d, appRequest' = [appRequest EXCEPT ![r] = d]
    PROVE  appRequest'[r] = d /\ Turn(r)
       /\ appRequest' = [appRequest EXCEPT ![r] = appRequest'[r]]
BY DEF Calls, Turn

LEMMA Answering ==
    ASSUME Calls, NEW r \in Slots, appRequest[r] \in Call, NEW status \in {0, 200, 401},
           Answers(r, status)
    PROVE  /\ Turn(r) /\ appRequest' = [appRequest EXCEPT ![r] = appRequest'[r]]
           /\ appRequest'[r] \in Call
           /\ appRequest'[r].pc = "answered" /\ appRequest'[r].status = status
           /\ Same(appRequest'[r], appRequest[r])
           /\ appRequest'[r].total = appRequest[r].total
                 /\ appRequest'[r].keys = appRequest[r].keys
<1> DEFINE c == appRequest[r]
           d == [c EXCEPT !.pc = "answered", !.status = status]
<1>1. appRequest' = [appRequest EXCEPT ![r] = d] BY Zenon DEF Answers, Calls
<1>2. appRequest'[r] = d /\ Turn(r) /\ appRequest' = [appRequest EXCEPT ![r] = appRequest'[r]]
  <2> HIDE DEF d
  <2> QED BY <1>1, Replaced, Zenon
<1>3. d \in Call /\ d.pc = "answered" /\ d.status = status /\ Same(d, c)
      /\ d.total = c.total /\ d.keys = c.keys
  <2>1. d \in Call BY ZenonT(60) DEF Call, Position
  <2>2. d.pc = "answered" /\ d.status = status BY DEF Call
  <2>3. Same(d, c) BY DEF Call, Same
  <2>4. d.total = c.total /\ d.keys = c.keys BY DEF Call
  <2> QED BY <2>1, <2>2, <2>3, <2>4
<1> QED BY <1>2, <1>3

LEMMA Going ==
    ASSUME Calls, NEW r \in Slots, appRequest[r] \in Call, NEW pc \in Position, Goes(r, pc)
    PROVE  /\ Turn(r) /\ appRequest' = [appRequest EXCEPT ![r] = appRequest'[r]]
           /\ appRequest'[r] \in Call
           /\ appRequest'[r].pc = pc /\ appRequest'[r].status = appRequest[r].status
           /\ Same(appRequest'[r], appRequest[r])
           /\ appRequest'[r].cart = appRequest[r].cart
<1> DEFINE c == appRequest[r]
           d == [c EXCEPT !.pc = pc]
<1>1. appRequest' = [appRequest EXCEPT ![r] = d] BY DEF Goes, Calls
<1>2. appRequest'[r] = d /\ Turn(r) /\ appRequest' = [appRequest EXCEPT ![r] = appRequest'[r]]
  <2> HIDE DEF d
  <2> QED BY <1>1, Replaced, Zenon
<1>3. d \in Call /\ d.pc = pc /\ d.status = c.status /\ Same(d, c) /\ d.cart = c.cart
      BY DEF Call, Same
<1> QED BY <1>2, <1>3

\* The items are locked exactly for a cookie without a session.
LEMMA GetItemsKeeps == ASSUME AppInv, NEW r \in Slots, GetItems(r) PROVE AppInv'
<1> DEFINE c == appRequest[r]
           answer == IF Live(c.cookie) THEN 200 ELSE 401
<1>1. /\ c.pc = "sent" /\ c.op = "items" /\ Answers(r, answer)
      /\ UNCHANGED <<server, page, ideal, overlap>>
      BY DEF GetItems
<1>2. Under(r) /\ c \in Call /\ Fits(c) BY <1>1, InHand DEF Under
<1>3. answer \in {0, 200, 401} /\ (answer = 200 <=> Live(c.cookie)) OBVIOUS
<1> HIDE DEF answer
<1>4. /\ Turn(r) /\ appRequest' = [appRequest EXCEPT ![r] = appRequest'[r]]
      /\ appRequest'[r] \in Call /\ appRequest'[r].pc = "answered"
            /\ appRequest'[r].status = answer
      /\ Same(appRequest'[r], c)
      BY <1>1, <1>2, <1>3, Answering DEF AppInv
<1>5. Reads(r) BY <1>1, <1>2, <1>4 DEF Reads, Fits, Same
<1>6. FaithfulAt(r)'
      BY <1>1, <1>4 DEF FaithfulAt, OwnCart, AloneAt, ViewedAt, CrashedAt, Serving, InCart,
          Same
<1>7. ~Serving(r)' BY <1>4 DEF Serving
<1> QED BY <1>1, <1>3, <1>4, <1>5, <1>6, <1>7, ReadsKeeps

\* A handler that has found a session goes on alone, or the session is noted as one of two.
LEMMA CheckSessionKeeps == ASSUME AppInv, NEW r \in Slots, CheckSession(r) PROVE AppInv'
<1> DEFINE c == appRequest[r]
           s == c.cookie
           answer == IF c.op = "logout" THEN 200 ELSE 401
           pc == IF c.op = "logout" THEN "pop" ELSE "lookup"
<1>1. /\ c.pc = "sent" /\ c.op \in {"logout", "cart", "add", "remove", "checkout"}
      /\ IF Live(s) THEN Goes(r, pc) ELSE Answers(r, answer)
      /\ overlap' = IF Live(s) /\ ServedFor(s) # {} THEN overlap \union {s} ELSE overlap
      /\ UNCHANGED <<server, page, ideal>>
      BY DEF CheckSession
<1>2. Under(r) /\ c \in Call /\ Fits(c) /\ s \in 0 .. issued /\ issued \in Nat
      BY <1>1, InHand DEF Under
<1>3. answer \in {0, 200, 401} /\ pc \in Position BY DEF Position
<1>4. CASE ~Live(s)
  <2>1. /\ Turn(r) /\ appRequest' = [appRequest EXCEPT ![r] = appRequest'[r]]
        /\ appRequest'[r] \in Call /\ appRequest'[r].pc = "answered"
              /\ appRequest'[r].status = answer
        /\ Same(appRequest'[r], c)
        BY <1>1, <1>2, <1>3, <1>4, Answering DEF AppInv
  <2>2. Reads(r) BY <1>1, <1>2, <2>1 DEF Reads, Fits, Same
  <2>3. FaithfulAt(r)'
    <3>1. c.op \in {"cart", "checkout"} => appRequest'[r].status = 401 BY <2>1
    <3> QED BY <1>1, <2>1, <3>1
            DEF FaithfulAt, OwnCart, AloneAt, ViewedAt, CrashedAt, Serving, InCart, Same
  <2>4. ~Serving(r)' /\ overlap' = overlap BY <1>1, <1>4, <2>1 DEF Serving
  <2> QED BY <1>1, <2>2, <2>3, <2>4, ReadsKeeps, Zenon
<1>5. CASE Live(s)
  <2>1. /\ Turn(r) /\ appRequest' = [appRequest EXCEPT ![r] = appRequest'[r]]
        /\ appRequest'[r] \in Call /\ appRequest'[r].pc = pc /\ Same(appRequest'[r], c)
        BY <1>1, <1>2, <1>3, <1>5, Going DEF AppInv
  <2>2. Reads(r) BY <1>1, <1>2, <2>1 DEF Reads, Fits, Same
  <2>3. s # 0 /\ s \in 1 .. issued BY <1>2, <1>5 DEF Live
  <2>4. FaithfulAt(r)'
    <3>1. AloneAt(r)'
      <4> SUFFICES ASSUME s \notin overlap'
                   PROVE  AloneAt(r)'
          BY <2>1 DEF AloneAt, Same
      <4>1. ServedFor(s) = {} BY <1>1, <1>5
      <4>2. \A q \in Slots : ~(Serving(q) /\ appRequest[q].cookie = s)
            BY <4>1 DEF ServedFor
      <4>3. \A q \in Slots : Serving(q)' /\ appRequest'[q].cookie = s => q = r
            BY <4>2, <2>1, Zenon DEF Turn, Serving
      <4>4. appRequest'[r].cookie = s /\ appRequest'[r].pc \in {"pop", "lookup"} BY <2>1 DEF Same
      <4>5. s # 0 /\ appSessions'[s] # 0 BY <1>1, <1>5 DEF Live, server
      <4> QED BY <4>3, <4>4, <4>5 DEF AloneAt, InCart, Live
    <3>2. OwnCart(r)' /\ ViewedAt(r)' /\ CrashedAt(r)'
          BY <2>1 DEF OwnCart, ViewedAt, CrashedAt, InCart
    <3> QED BY <3>1, <3>2 DEF FaithfulAt
  <2>5. overlap' = overlap \/ (overlap' = overlap \cup {s} /\ s \in 1 .. issued) BY <1>1, <2>3
  <2>6. c.op # "items" BY <1>1
  <2> QED BY <2>2, <2>3, <2>4, <2>5, <2>6, ReadsKeeps
<1> QED BY <1>4, <1>5

\* What a handler that reads may rely on: its session is served by nobody else, unless it is
\* noted as overlapping.
LEMMA StaysAlone ==
    ASSUME AppInv, NEW r \in Slots, Serving(r), Turn(r), UNCHANGED <<server, ideal,
        overlap>>,
           appRequest'[r].cookie = appRequest[r].cookie, appRequest[r].cookie \notin overlap
    PROVE  /\ appRequest[r].cookie # 0 /\ appSessions'[appRequest[r].cookie] # 0
           /\ \A q \in Slots : Serving(q)'
                 /\ appRequest'[q].cookie = appRequest[r].cookie => q = r
<1>1. AloneAt(r) BY DEF AppInv, Faithful, FaithfulAt
<1>2. Live(appRequest[r].cookie)
      /\ \A q \in Slots : Serving(q) /\ appRequest[q].cookie = appRequest[r].cookie => q = r
      BY <1>1 DEF AloneAt
<1> QED BY <1>2 DEF Live, server, Turn, Serving

\* The cart is the session's own, and a session that has gone had company.
LEMMA LookUpKeeps == ASSUME AppInv, NEW r \in Slots, LookUp(r) PROVE AppInv'
<1> DEFINE c == appRequest[r]
           s == c.cookie
           pc == CASE c.op = "add" -> "read" [] c.op = "remove" -> "drop" [] OTHER -> "badge"
           d == [c EXCEPT !.cart = appSessions[s], !.pc = pc]
<1>1. /\ c.pc = "lookup"
      /\ IF Live(s) THEN appRequest' = [appRequest EXCEPT ![r] = d] ELSE Crashes(r)
      /\ UNCHANGED <<server, page, ideal, overlap>>
      BY DEF LookUp
<1>2. /\ Under(r) /\ Serving(r) /\ c \in Call /\ Fits(c) /\ s \in 1 .. issued /\ s \in Sid
      /\ issued \in Nat /\ FaithfulAt(r)
      BY <1>1, InHand DEF Under, Serving
<1>3. CASE ~Live(s)
  <2>1. Goes(r, "crashed") BY <1>1, <1>3 DEF Crashes
  <2>2. /\ Turn(r) /\ appRequest' = [appRequest EXCEPT ![r] = appRequest'[r]]
        /\ appRequest'[r] \in Call /\ appRequest'[r].pc = "crashed" /\ Same(appRequest'[r], c)
        BY <1>2, <2>1, Going DEF AppInv, Position
  <2>3. Reads(r) BY <1>1, <1>2, <2>2 DEF Reads, Fits, Same
  <2>4. s \in overlap BY <1>2, <1>3 DEF FaithfulAt, AloneAt
  <2>5. FaithfulAt(r)'
        BY <1>1, <2>2, <2>4
           DEF FaithfulAt, OwnCart, AloneAt, ViewedAt, CrashedAt, Serving, InCart, Same
  <2> QED BY <1>1, <1>2, <2>2, <2>3, <2>5, ReadsKeeps DEF Serving
<1>4. CASE Live(s)
  <2>1. appSessions[s] \in Nat /\ appSessions[s] # 0 /\ appSessions[s] <= made
        /\ appSessions[s] = appSessions'[s]
        BY <1>1, <1>2, <1>4 DEF AppInv, AppTypeOK, Fresh, Live, server
  <2>2. pc \in Position /\ pc \in {"read", "drop", "badge"}
        /\ (pc = "read" => c.op = "add") /\ (pc = "drop" => c.op = "remove")
        /\ (pc = "badge" => c.op \in {"cart", "checkout"})
        BY <1>1, <1>2 DEF Position, Fits
  <2> HIDE DEF pc
  <2>3. /\ d \in Call /\ d.pc = pc /\ d.cart = appSessions[s] /\ Same(d, c)
    <3>1. d \in Call BY <1>2, <2>1, <2>2, ZenonT(60) DEF Call
    <3>2. d.pc = pc /\ d.cart = appSessions[s] BY <1>2 DEF Call
    <3>3. Same(d, c) BY <1>2 DEF Call, Same
    <3> QED BY <3>1, <3>2, <3>3
  <2> HIDE DEF d
  <2>4. appRequest'[r] = d /\ Turn(r) /\ appRequest' = [appRequest EXCEPT ![r] = appRequest'[r]]
        BY <1>1, <1>4, Replaced DEF AppInv
  <2>5. Reads(r) BY <1>1, <1>2, <2>2, <2>3, <2>4 DEF Reads, Fits, Same
  <2>6. FaithfulAt(r)'
    <3>1. OwnCart(r)'
      <4>1. \A t \in Sid : appSessions'[t] = appSessions[s] => t = s
            BY <1>1, <1>2, <2>1 DEF AppInv, Faithful, OwnSession, server
      <4>2. appRequest'[r].cart \in 1 .. made' /\ appRequest'[r].cart = appSessions[s]
            BY <1>1, <2>1, <2>3, <2>4 DEF AppInv, AppTypeOK, server
      <4>3. appRequest'[r].cookie = s BY <2>3, <2>4 DEF Same
      <4> QED BY <4>1, <4>2, <4>3 DEF OwnCart
    <3>2. AloneAt(r)'
      <4>1. appRequest'[r].cookie = s BY <2>3, <2>4 DEF Same
      <4> QED BY <1>1, <1>2, <4>1, <2>1, <2>2, <2>3, <2>4, StaysAlone DEF AloneAt, Live
    <3>3. ViewedAt(r)' /\ CrashedAt(r)' BY <2>2, <2>3, <2>4 DEF ViewedAt, CrashedAt
    <3> QED BY <3>1, <3>2, <3>3 DEF FaithfulAt
  <2> QED BY <1>1, <1>2, <2>2, <2>3, <2>4, <2>5, <2>6, ReadsKeeps DEF Fits
<1> QED BY <1>3, <1>4

\* A handler that reads the cart it holds.
LEMMA CartReadKeeps ==
    ASSUME AppInv, NEW r \in Slots, Serving(r), appRequest[r].pc \in InCart,
           NEW d \in Call, appRequest' = [appRequest EXCEPT ![r] = d],
           UNCHANGED <<server, page, ideal, overlap>>,
           d.op = appRequest[r].op, d.item = appRequest[r].item, d.cookie = appRequest[r].cookie,
           d.gen = appRequest[r].gen, d.cart = appRequest[r].cart, Fits(d),
           d.pc \in {"write", "total", "list", "reset", "answered", "crashed"},
           ViewedAt(r)', CrashedAt(r)',
           appRequest[r].cookie \notin overlap =>
               /\ d.pc = "write" => d.qty = ideal[d.cookie][d.item]
               /\ d.pc = "total" => d.keys = Kinds(ideal[d.cookie])
               /\ d.pc = "list" => d.total = Total(ideal[d.cookie])
    PROVE  AppInv'
<1> DEFINE c == appRequest[r]
           s == c.cookie
<1>1. /\ Under(r) /\ c \in Call /\ Fits(c) /\ s \in 1 .. issued /\ FaithfulAt(r)
      BY InHand, Shape DEF AppInv
<1>2. appRequest'[r] = d /\ Turn(r) /\ appRequest' = [appRequest EXCEPT ![r] = appRequest'[r]]
      BY Replaced, Zenon DEF AppInv
<1>3. Reads(r) BY <1>1, <1>2 DEF Reads
<1>4. OwnCart(r)' BY <1>1, <1>2 DEF FaithfulAt, OwnCart, server
<1>5. AloneAt(r)'
  <2> SUFFICES ASSUME s \notin overlap, Serving(r)' PROVE AloneAt(r)'
      BY <1>2 DEF AloneAt
  <2>1. c.cart = appSessions[s] BY <1>1 DEF FaithfulAt, AloneAt
  <2>2. /\ s # 0 /\ appSessions'[s] # 0
        /\ \A q \in Slots : Serving(q)' /\ appRequest'[q].cookie = s => q = r
        BY <1>2, StaysAlone
  <2> QED BY <1>2, <2>1, <2>2 DEF AloneAt, Live, server
<1>6. FaithfulAt(r)' BY <1>4, <1>5 DEF FaithfulAt
<1>7. c.op # "items" BY <1>1 DEF Fits, InCart
<1> QED BY <1>1, <1>3, <1>6, <1>7, ReadsKeeps

\* The cart of a session that is served alone is what it should be.
LEMMA CartIsIdeal ==
    ASSUME AppInv, NEW r \in Slots, Serving(r), appRequest[r].pc \in InCart,
           appRequest[r].cookie \notin overlap
    PROVE  /\ appRequest[r].cart = appSessions[appRequest[r].cookie]
           /\ carts[appRequest[r].cart] = ideal[appRequest[r].cookie]
<1>1. AloneAt(r) BY DEF AppInv, Faithful, FaithfulAt
<1>2. appRequest[r].cookie \in Sid BY InHand, Shape DEF AppInv
<1> QED BY <1>1, <1>2 DEF AloneAt, AppInv, Faithful, Kept

\* The cart in hand exists.
LEMMA CartIsThere ==
    ASSUME AppInv, NEW r \in Slots, Under(r), appRequest[r].pc \in InCart
    PROVE  /\ appRequest[r].cart \in Cart /\ appRequest[r].cart \in 1 .. made
           /\ carts[appRequest[r].cart] \in Content
           /\ ideal[appRequest[r].cookie] \in Content
<1>1. appRequest[r].cart \in 1 .. made BY DEF AppInv, Faithful, FaithfulAt, OwnCart
<1>2. made \in 0 .. MaxCarts /\ MaxCarts \in Nat
      BY FixtureAppAssumption DEF AppInv, AppTypeOK, FixtureAppAssumption
<1>3. appRequest[r].cart \in Cart BY <1>1, <1>2 DEF Cart
<1>4. Serving(r) BY DEF Serving, InCart
<1>5. appRequest[r].cookie \in Sid BY <1>4, InHand
<1> QED BY <1>1, <1>3, <1>5 DEF AppInv, AppTypeOK, Calls, Content

\* The quantity read is that of the session's item.
LEMMA ReadQuantityKeeps == ASSUME AppInv, NEW r \in Slots, ReadQuantity(r) PROVE AppInv'
<1> DEFINE c == appRequest[r]
           d == [c EXCEPT !.pc = "write", !.qty = carts[c.cart][c.item]]
<1>1. c.pc = "read" /\ appRequest' = [appRequest EXCEPT ![r] = d]
      /\ UNCHANGED <<server, page, ideal, overlap>>
      BY DEF ReadQuantity
<1>2. Under(r) /\ Serving(r) /\ c \in Call /\ Fits(c) /\ c.pc \in InCart /\ c.item \in Items
      BY <1>1, InHand DEF Under, Serving, InCart, Fits
<1>3. carts[c.cart][c.item] \in Nat BY <1>2, CartIsThere DEF Content
<1>4. d \in Call BY <1>2, <1>3, ZenonT(60) DEF Call, Position
<1>5. d.pc = "write" /\ d.qty = carts[c.cart][c.item] BY <1>2 DEF Call
<1>6. d.op = c.op /\ d.item = c.item /\ d.cookie = c.cookie /\ d.gen = c.gen /\ d.cart = c.cart
      BY <1>2 DEF Call
<1> HIDE DEF d
<1>7. Fits(d) BY <1>1, <1>2, <1>5, <1>6 DEF Fits
<1>8. appRequest'[r] = d BY <1>1, Replaced, Zenon DEF AppInv
<1>9. ViewedAt(r)' /\ CrashedAt(r)' BY <1>5, <1>8 DEF ViewedAt, CrashedAt
<1>10. c.cookie \notin overlap => d.qty = ideal[d.cookie][d.item] BY <1>2, <1>5, <1>6, CartIsIdeal
<1> QED BY <1>1, <1>2, <1>4, <1>5, <1>6, <1>7, <1>9, <1>10, CartReadKeeps, Zenon

\* The first pass: the badge, and the number of keys the second pass counts on.
LEMMA ViewBadgeKeeps == ASSUME AppInv, NEW r \in Slots, ViewBadge(r) PROVE AppInv'
<1> DEFINE c == appRequest[r]
           held == carts[c.cart]
           d == [c EXCEPT !.pc = "total", !.badge = Badge(held), !.keys = Kinds(held)]
<1>1. c.pc = "badge" /\ appRequest' = [appRequest EXCEPT ![r] = d]
      /\ UNCHANGED <<server, page, ideal, overlap>>
      BY DEF ViewBadge
<1>2. Under(r) /\ Serving(r) /\ c \in Call /\ Fits(c) /\ c.pc \in InCart
      BY <1>1, InHand DEF Under, Serving, InCart
<1>3. Badge(held) \in Badges /\ Kinds(held) \in Counts
      BY <1>2, CartIsThere DEF Badges, Counts
<1>4. d \in Call BY <1>2, <1>3, ZenonT(60) DEF Call, Position
<1>5. d.pc = "total" /\ d.keys = Kinds(held) BY <1>2 DEF Call
<1>6. d.op = c.op /\ d.item = c.item /\ d.cookie = c.cookie /\ d.gen = c.gen /\ d.cart = c.cart
      BY <1>2 DEF Call
<1> HIDE DEF d
<1>7. Fits(d) BY <1>1, <1>2, <1>5, <1>6 DEF Fits
<1>8. appRequest'[r] = d BY <1>1, Replaced, Zenon DEF AppInv
<1>9. ViewedAt(r)' /\ CrashedAt(r)' BY <1>5, <1>8 DEF ViewedAt, CrashedAt
<1>10. c.cookie \notin overlap => d.keys = Kinds(ideal[d.cookie])
       BY <1>2, <1>5, <1>6, CartIsIdeal
<1> QED BY <1>1, <1>2, <1>4, <1>5, <1>6, <1>7, <1>9, <1>10, CartReadKeeps, Zenon

\* The second pass: its generator sees another number of keys only when the session had company.
LEMMA ViewTotalKeeps == ASSUME AppInv, NEW r \in Slots, ViewTotal(r) PROVE AppInv'
<1> DEFINE c == appRequest[r]
           held == carts[c.cart]
<1>1. /\ c.pc = "total"
      /\ IF Kinds(held) = c.keys
         THEN appRequest' = [appRequest EXCEPT ![r] = [c EXCEPT !.pc = "list",
             !.total = Total(held)]]
         ELSE Crashes(r)
      /\ UNCHANGED <<server, page, ideal, overlap>>
      BY DEF ViewTotal
<1>2. Under(r) /\ Serving(r) /\ c \in Call /\ Fits(c) /\ c.pc \in InCart /\ AloneAt(r)
      BY <1>1, InHand DEF Under, Serving, InCart, FaithfulAt
<1>3. CASE Kinds(held) = c.keys
  <2> DEFINE d == [c EXCEPT !.pc = "list", !.total = Total(held)]
  <2>1. Total(held) \in Totals BY <1>2, CartIsThere DEF Totals
  <2>2. d \in Call BY <1>2, <2>1, ZenonT(60) DEF Call, Position
  <2>3. d.pc = "list" /\ d.total = Total(held) BY <1>2 DEF Call
  <2>4. d.op = c.op /\ d.item = c.item /\ d.cookie = c.cookie /\ d.gen = c.gen /\ d.cart = c.cart
        BY <1>2 DEF Call
  <2>5. appRequest' = [appRequest EXCEPT ![r] = d] BY <1>1, <1>3
  <2> HIDE DEF d
  <2>6. Fits(d) BY <1>1, <1>2, <2>3, <2>4 DEF Fits
  <2>7. appRequest'[r] = d BY <2>5, Replaced, Zenon DEF AppInv
  <2>8. ViewedAt(r)' /\ CrashedAt(r)' BY <2>3, <2>7 DEF ViewedAt, CrashedAt
  <2>9. c.cookie \notin overlap => d.total = Total(ideal[d.cookie])
        BY <1>2, <2>3, <2>4, CartIsIdeal
  <2> QED BY <1>1, <1>2, <2>2, <2>3, <2>4, <2>5, <2>6, <2>8, <2>9, CartReadKeeps, Zenon
<1>4. CASE Kinds(held) # c.keys
  <2> DEFINE d == [c EXCEPT !.pc = "crashed"]
  <2>2. d \in Call BY <1>2 DEF Call, Position
  <2>3. d.pc = "crashed" BY <1>2 DEF Call
  <2>4. d.op = c.op /\ d.item = c.item /\ d.cookie = c.cookie /\ d.gen = c.gen /\ d.cart = c.cart
        BY <1>2 DEF Call
  <2>5. appRequest' = [appRequest EXCEPT ![r] = d]
        BY <1>1, <1>4 DEF Crashes, Goes, AppInv, Calls
  <2> HIDE DEF d
  <2>6. Fits(d) BY <1>1, <1>2, <2>3, <2>4 DEF Fits
  <2>7. appRequest'[r] = d BY <2>5, Replaced, Zenon DEF AppInv
  <2>8. c.cookie \in overlap BY <1>1, <1>2, <1>4, CartIsIdeal DEF AloneAt
  <2>9. ViewedAt(r)' /\ CrashedAt(r)' BY <1>1, <2>3, <2>4, <2>7, <2>8 DEF ViewedAt, CrashedAt
  <2> QED BY <1>1, <1>2, <2>2, <2>3, <2>4, <2>5, <2>6, <2>8, <2>9, CartReadKeeps, Zenon
<1> QED BY <1>3, <1>4

\* The third pass: what is answered is what was due.
LEMMA ViewItemsKeeps == ASSUME AppInv, NEW r \in Slots, ViewItems(r) PROVE AppInv'
<1> DEFINE c == appRequest[r]
           held == carts[c.cart]
           pc == IF c.op = "checkout" THEN "reset" ELSE "answered"
           d == [c EXCEPT !.keys = Kinds(held), !.due = ideal[c.cookie],
                          !.pc = pc, !.status = 200]
<1>1. c.pc = "list" /\ appRequest' = [appRequest EXCEPT ![r] = d]
      /\ UNCHANGED <<server, page, ideal, overlap>>
      BY DEF ViewItems
<1>2. Under(r) /\ Serving(r) /\ c \in Call /\ Fits(c) /\ c.pc \in InCart /\ AloneAt(r)
      BY <1>1, InHand DEF Under, Serving, InCart, FaithfulAt
<1>3. Kinds(held) \in Counts /\ ideal[c.cookie] \in Content
      BY <1>2, CartIsThere DEF Counts
<1>a. pc \in {"reset", "answered"} /\ (pc = "reset" => c.op = "checkout") OBVIOUS
<1> HIDE DEF pc
<1>4. d \in Call
  <2> DEFINE n == Kinds(held)
             w == ideal[c.cookie]
             ok == 200
  <2>1. n \in Counts /\ w \in Content /\ pc \in Position /\ c \in Call /\ ok \in {0, 200, 401}
        BY <1>2, <1>3, <1>a DEF Position
  <2> HIDE DEF n, w, c, ok
  <2>2. [c EXCEPT !.keys = n, !.due = w, !.pc = pc, !.status = ok] \in Call
        BY <2>1, ZenonT(60) DEF Call
  <2> QED BY <2>2 DEF n, w, c, ok
<1>5. d.pc = pc /\ d.keys = Kinds(held) /\ d.due = ideal[c.cookie] /\ d.total = c.total
      BY <1>2 DEF Call
<1>6. d.op = c.op /\ d.item = c.item /\ d.cookie = c.cookie /\ d.gen = c.gen /\ d.cart = c.cart
      BY <1>2 DEF Call
<1> HIDE DEF d
<1>7. Fits(d) BY <1>1, <1>2, <1>5, <1>6, <1>a DEF Fits
<1>8. appRequest'[r] = d BY <1>1, Replaced, Zenon DEF AppInv
<1>9. CrashedAt(r)' BY <1>5, <1>8, <1>a DEF CrashedAt
<1>10. c.cookie \notin overlap => d.total = Total(d.due) /\ d.keys = Kinds(d.due)
       BY <1>1, <1>2, <1>5, CartIsIdeal DEF AloneAt
<1>11. ViewedAt(r)' BY <1>1, <1>6, <1>8, <1>10 DEF ViewedAt
<1> QED BY <1>1, <1>2, <1>4, <1>5, <1>6, <1>7, <1>9, <1>11, <1>a, CartReadKeeps, Zenon

\* A handler writes to the cart it holds and answers; alone, it writes what is due.
LEMMA CartWriteKeeps ==
    ASSUME AppInv, NEW r \in Slots, appRequest[r].pc \in {"write", "drop"},
           NEW n \in Nat, NEW m \in Nat,
           carts' = [carts EXCEPT ![appRequest[r].cart][appRequest[r].item] = n],
           ideal' = [ideal EXCEPT ![appRequest[r].cookie][appRequest[r].item] = m],
           appRequest[r].cookie \notin overlap => n = m,
           Answers(r, 200),
           UNCHANGED <<appSessions, issued, made, loggedOut, page, overlap>>
    PROVE  AppInv'
<1> DEFINE c == appRequest[r]
           s == c.cookie
           k == c.cart
           i == c.item
<1>1. /\ Under(r) /\ Serving(r) /\ c \in Call /\ Fits(c) /\ c.pc \in InCart /\ FaithfulAt(r)
      /\ s \in 1 .. issued /\ s \in Sid /\ issued \in Nat /\ i \in Items
            /\ c.op \in {"add", "remove"}
      BY InHand DEF Under, Serving, InCart, Fits
<1>2. k \in Cart /\ k \in 1 .. made /\ carts[k] \in Content /\ ideal[s] \in Content
      BY <1>1, CartIsThere
<1>3. /\ Turn(r) /\ appRequest' = [appRequest EXCEPT ![r] = appRequest'[r]]
      /\ appRequest'[r] \in Call /\ appRequest'[r].pc = "answered" /\ Same(appRequest'[r], c)
      BY <1>1, Answering DEF AppInv
<1>4. carts \in [Cart -> Content] /\ ideal \in [Sid -> Content]
      BY DEF AppInv, AppTypeOK, Calls, Content
<1>5. carts' \in [Cart -> Content] /\ ideal' \in [Sid -> Content]
      BY <1>1, <1>2, <1>4 DEF Content
<1>6. /\ \A o \in Cart \ {k} : carts'[o] = carts[o]
      /\ \A t \in Sid \ {s} : ideal'[t] = ideal[t]
      BY <1>4
<1>7. AppTypeOK' BY <1>5 DEF AppInv, AppTypeOK, Content, page
<1>8. Calls'
  <2>1. Fits(appRequest'[r]) /\ appRequest'[r].cookie <= issued /\ ~Serving(r)'
        BY <1>1, <1>3 DEF Fits, Same, Serving
  <2> QED BY <2>1, <1>1, <1>3, <1>5, CallsTurn
<1>9. Fresh'
  <2>1. \A t \in Sid : t > issued => ideal'[t] = EmptyCart
        BY <1>1, <1>6 DEF AppInv, Fresh, Sid
  <2>2. \A o \in Cart : o > made => carts'[o] = EmptyCart
        BY <1>2, <1>6 DEF AppInv, Fresh, Cart, AppTypeOK
  <2> QED BY <2>1, <2>2 DEF AppInv, Fresh
<1>10. Faithful'
  <2>1. OwnSession' BY DEF AppInv, Faithful, OwnSession
  <2>2. Kept'
    <3> SUFFICES ASSUME NEW t \in Sid, t \notin overlap, Live(t)
                 PROVE carts'[appSessions[t]] = ideal'[t]
        BY DEF Kept, Live
    <3>1. carts[appSessions[t]] = ideal[t] BY DEF AppInv, Faithful, Kept
    <3>2. appSessions[t] \in Cart
          BY FixtureAppAssumption DEF AppInv, AppTypeOK, Live, FixtureAppAssumption, Cart
    <3>3. CASE t = s
      <4>1. appSessions[t] = k /\ n = m BY <1>1, <3>3, CartIsIdeal
      <4> QED BY <3>1, <3>3, <4>1, <1>2, <1>4, <1>1 DEF Content
    <3>4. CASE t # s
      <4>1. appSessions[t] # k BY <1>1, <3>4 DEF FaithfulAt, OwnCart
      <4> QED BY <4>1, <3>1, <3>2, <3>4, <1>6
    <3> QED BY <3>3, <3>4
  <2>3. ASSUME NEW q \in Slots PROVE FaithfulAt(q)'
    <3>1. CASE q = r
          BY <1>1, <1>3, <3>1
             DEF FaithfulAt, OwnCart, AloneAt, ViewedAt, CrashedAt, Serving, InCart, Same
    <3>2. CASE q # r
      <4>1. appRequest'[q] = appRequest[q] /\ FaithfulAt(q)
            BY <1>3, <3>2 DEF Turn, AppInv, Faithful
      <4>2. AloneAt(q)'
        <5> SUFFICES ASSUME Serving(q)', appRequest'[q].cookie \notin overlap'
                     PROVE AloneAt(q)'
            BY DEF AloneAt
        <5>1. Serving(q) /\ appRequest[q].cookie \notin overlap /\ AloneAt(q)
              BY <4>1 DEF Serving, FaithfulAt
        <5>2. appRequest[q].cookie # s BY <5>1, <1>1, <3>2 DEF AloneAt
        <5>3. appRequest[q].cookie \in Sid BY <5>1, InHand, Shape DEF AppInv
        <5>4. ideal'[appRequest[q].cookie] = ideal[appRequest[q].cookie] BY <1>6, <5>2, <5>3
        <5>5. \A p \in Slots : Serving(p)' => Serving(p) /\ appRequest'[p] = appRequest[p]
              BY <1>3 DEF Serving, Turn
        <5> QED BY <5>1, <5>4, <5>5, <4>1 DEF AloneAt, Live
      <4> QED BY <4>1, <4>2 DEF FaithfulAt, OwnCart, ViewedAt, CrashedAt, Under
    <3> QED BY <3>1, <3>2
  <2> QED BY <2>1, <2>2, <2>3 DEF Faithful
<1>11. Rendered'
  <2>1. Under(r)' /\ c.op # "items" BY <1>1, <1>3 DEF Under
  <2>2. Live(jar)' <=> Live(jar) BY DEF Live, page
  <2> QED BY <2>1, <2>2, <1>1, <1>3, RenderedTurn DEF Same
<1>12. LoggedOutForGood' BY DEF AppInv, LoggedOutForGood, Live
<1> QED BY <1>7, <1>8, <1>9, <1>10, <1>11, <1>12 DEF AppInv

\* One more.
LEMMA WriteQuantityKeeps == ASSUME AppInv, NEW r \in Slots, WriteQuantity(r) PROVE AppInv'
<1> DEFINE c == appRequest[r]
           n == c.qty + 1
           m == ideal[c.cookie][c.item] + 1
<1>1. /\ c.pc = "write"
      /\ carts' = [carts EXCEPT ![c.cart][c.item] = n]
      /\ ideal' = [ideal EXCEPT ![c.cookie][c.item] = @ + 1]
      /\ Answers(r, 200)
      /\ UNCHANGED <<appSessions, issued, made, loggedOut, page, overlap>>
      BY DEF WriteQuantity
<1>2. Under(r) /\ Serving(r) /\ c \in Call /\ c.pc \in InCart /\ AloneAt(r)
      /\ c.item \in Items
      /\ c.cookie \in Sid
      BY <1>1, InHand DEF Under, Serving, InCart, FaithfulAt, Fits
<1>3. ideal[c.cookie] \in Content /\ ideal \in [Sid -> Content]
      BY <1>2, CartIsThere DEF AppInv, Calls
<1>4. n \in Nat /\ m \in Nat BY <1>2, <1>3 DEF Call, Content
<1>5. ideal' = [ideal EXCEPT ![c.cookie][c.item] = m] BY <1>1, <1>2, <1>3 DEF Content
<1>6. c.cookie \notin overlap => n = m BY <1>1, <1>2 DEF AloneAt
<1> QED BY <1>1, <1>4, <1>5, <1>6, CartWriteKeeps, Zenon

\* None left.
LEMMA RemoveItemKeeps == ASSUME AppInv, NEW r \in Slots, RemoveItem(r) PROVE AppInv'
BY CartWriteKeeps, Zenon DEF RemoveItem

\* A logout: what is served for its session beside it is noted as overlapping.
LEMMA PopSessionKeeps == ASSUME AppInv, NEW r \in Slots, PopSession(r) PROVE AppInv'
<1> DEFINE c == appRequest[r]
           s == c.cookie
<1>1. /\ c.pc = "pop"
      /\ appSessions' = [appSessions EXCEPT ![s] = 0] /\ loggedOut' = loggedOut \union {s}
      /\ Answers(r, 200)
      /\ UNCHANGED <<carts, issued, made, page, ideal, overlap>>
      BY DEF PopSession
<1>2. /\ Under(r) /\ Serving(r) /\ c \in Call /\ Fits(c) /\ FaithfulAt(r) /\ c.op = "logout"
      /\ s \in 1 .. issued /\ s \in Sid /\ issued \in Nat /\ issued \in 0 .. MaxSessions
      BY <1>1, InHand DEF Under, Serving, Fits
<1>3. /\ Turn(r) /\ appRequest' = [appRequest EXCEPT ![r] = appRequest'[r]]
      /\ appRequest'[r] \in Call /\ appRequest'[r].pc = "answered" /\ Same(appRequest'[r], c)
      BY <1>1, <1>2, Answering DEF AppInv
<1>4. appSessions'[s] = 0 /\ \A t \in Sid \ {s} : appSessions'[t] = appSessions[t]
      BY <1>1, <1>2 DEF AppInv, AppTypeOK
<1>5. AppTypeOK' BY <1>1, <1>2, FixtureAppAssumption DEF AppInv, AppTypeOK, page, FixtureAppAssumption
<1>6. Calls'
  <2>1. Fits(appRequest'[r]) /\ appRequest'[r].cookie <= issued /\ ~Serving(r)'
        BY <1>2, <1>3 DEF Fits, Same, Serving
  <2> QED BY <2>1, <1>1, <1>2, <1>3, CallsTurn DEF AppInv, Calls
<1>7. Fresh'
  <2>1. \A t \in Sid : appSessions'[t] = appSessions[t] \/ appSessions'[t] = 0 BY <1>4
  <2>2. loggedOut' \subseteq 1 .. issued BY <1>1, <1>2, Zenon DEF AppInv, Fresh
  <2>3. made \in Nat BY FixtureAppAssumption DEF AppInv, AppTypeOK, FixtureAppAssumption
  <2>4. \A t \in Sid : appSessions'[t] <= made BY <2>1, <2>3 DEF AppInv, Fresh
  <2>5. \A t \in Sid : t > issued => appSessions'[t] = 0 BY <2>1 DEF AppInv, Fresh
  <2> QED BY <2>2, <2>4, <2>5, <1>1 DEF AppInv, Fresh
<1>8. Faithful'
  <2>1. OwnSession' BY <1>4 DEF AppInv, Faithful, OwnSession
  <2>2. Kept' BY <1>1, <1>4 DEF AppInv, Faithful, Kept, Live
  <2>3. ASSUME NEW q \in Slots PROVE FaithfulAt(q)'
    <3>1. CASE q = r
          BY <1>2, <1>3, <3>1
             DEF FaithfulAt, OwnCart, AloneAt, ViewedAt, CrashedAt, Serving, InCart, Same
    <3>2. CASE q # r
      <4>1. appRequest'[q] = appRequest[q] /\ FaithfulAt(q)
            BY <1>3, <3>2 DEF Turn, AppInv, Faithful
      <4>2. AloneAt(q)'
        <5> SUFFICES ASSUME Serving(q)', appRequest'[q].cookie \notin overlap'
                     PROVE AloneAt(q)'
            BY DEF AloneAt
        <5>1. Serving(q) /\ appRequest[q].cookie \notin overlap /\ AloneAt(q)
              BY <4>1, <1>1 DEF Serving, FaithfulAt
        <5>2. appRequest[q].cookie # s BY <5>1, <1>2, <3>2 DEF AloneAt
        <5>3. appRequest[q].cookie \in Sid BY <5>1, InHand, Shape DEF AppInv
        <5>4. appSessions'[appRequest[q].cookie] = appSessions[appRequest[q].cookie]
              BY <1>4, <5>2, <5>3
        <5>5. \A p \in Slots : Serving(p)' => Serving(p) /\ appRequest'[p] = appRequest[p]
              BY <1>3 DEF Serving, Turn
        <5> QED BY <5>1, <5>4, <5>5, <4>1, <1>1 DEF AloneAt, Live
      <4>3. OwnCart(q)'
        <5> SUFFICES ASSUME Under(q), appRequest[q].pc \in InCart
                     PROVE  /\ appRequest[q].cart \in 1 .. made
                           
                                  /\ \A t \in Sid : appSessions'[t] = appRequest[q].cart => t = appRequest[q].cookie
            BY <4>1, <1>1 DEF OwnCart, Under
        <5>1. /\ appRequest[q].cart \in 1 .. made
              /\ \A t \in Sid : appSessions[t] = appRequest[q].cart => t = appRequest[q].cookie
              BY <4>1 DEF FaithfulAt, OwnCart
        <5>2. appRequest[q].cart # 0 BY <5>1 DEF AppInv, AppTypeOK
        <5> QED BY <5>1, <5>2, <1>4
      <4> QED BY <4>1, <4>2, <4>3, <1>1 DEF FaithfulAt, ViewedAt, CrashedAt, Under
    <3> QED BY <3>1, <3>2
  <2> QED BY <2>1, <2>2, <2>3 DEF Faithful
<1>9. Rendered'
  <2>1. Under(r)' BY <1>3 DEF Under
  <2> QED BY <2>1, <1>1, <1>2, <1>3, RenderedTurn DEF Same
<1>10. LoggedOutForGood'
  <2>1. \A t \in loggedOut : t \in Sid /\ appSessions[t] = 0
        BY DEF AppInv, AppTypeOK, LoggedOutForGood, Live, Fresh, Sid
  <2>2. \A t \in loggedOut' : appSessions'[t] = 0 BY <2>1, <1>1, <1>4
  <2> QED BY <2>2 DEF LoggedOutForGood, Live
<1> QED BY <1>5, <1>6, <1>7, <1>8, <1>9, <1>10 DEF AppInv

\* An order: the session starts again with an empty cart of its own, unless a logout beside it
\* has taken the session.
LEMMA ResetCartKeeps == ASSUME AppInv, NEW r \in Slots, ResetCart(r) PROVE AppInv'
<1> DEFINE c == appRequest[r]
           s == c.cookie
           k == made + 1
<1>1. /\ c.pc = "reset" /\ made < MaxCarts
      /\ IF Live(s) THEN /\ made' = k
                         /\ appSessions' = [appSessions EXCEPT ![s] = k]
                         /\ ideal' = [ideal EXCEPT ![s] = EmptyCart]
                         /\ Answers(r, 200)
         ELSE Crashes(r) /\ UNCHANGED <<made, appSessions, ideal>>
      /\ UNCHANGED <<carts, issued, loggedOut, page, overlap>>
      BY DEF ResetCart
<1>2. /\ Under(r) /\ Serving(r) /\ c \in Call /\ Fits(c) /\ FaithfulAt(r) /\ c.op = "checkout"
      /\ s \in 1 .. issued /\ s \in Sid /\ issued \in Nat /\ issued \in 0 .. MaxSessions
      /\ made \in 0 .. MaxCarts /\ MaxCarts \in Nat /\ MaxSessions \in Nat
      BY <1>1, InHand DEF Under, Serving, Fits
<1>3. CASE ~Live(s)
  <2>1. Goes(r, "crashed") /\ UNCHANGED <<server, page, ideal, overlap>>
        BY <1>1, <1>3 DEF Crashes, server
  <2>2. /\ Turn(r) /\ appRequest' = [appRequest EXCEPT ![r] = appRequest'[r]]
        /\ appRequest'[r] \in Call /\ appRequest'[r].pc = "crashed" /\ Same(appRequest'[r], c)
        BY <1>2, <2>1, Going DEF AppInv, Position
  <2>3. Reads(r) BY <1>1, <1>2, <2>1, <2>2 DEF Reads, Fits, Same
  <2>4. s \in overlap BY <1>2, <1>3 DEF FaithfulAt, AloneAt
  <2>5. FaithfulAt(r)'
        BY <1>1, <2>2, <2>4
           DEF FaithfulAt, OwnCart, AloneAt, ViewedAt, CrashedAt, Serving, InCart, Same
  <2> QED BY <1>1, <1>2, <2>1, <2>2, <2>3, <2>5, ReadsKeeps DEF Serving
<1>4. CASE Live(s)
  <2>1. /\ made' = k /\ appSessions' = [appSessions EXCEPT ![s] = k]
        /\ ideal' = [ideal EXCEPT ![s] = EmptyCart] /\ Answers(r, 200)
        BY <1>1, <1>4
  <2>2. /\ Turn(r) /\ appRequest' = [appRequest EXCEPT ![r] = appRequest'[r]]
        /\ appRequest'[r] \in Call /\ appRequest'[r].pc = "answered"
              /\ appRequest'[r].status = 200
        /\ Same(appRequest'[r], c) /\ appRequest'[r].total = c.total
              /\ appRequest'[r].keys = c.keys
        BY <1>2, <2>1, Answering DEF AppInv
  <2>3. /\ k \in 1 .. MaxCarts /\ k \in Cart /\ k > made /\ k # 0 /\ made \in Nat
        BY <1>1, <1>2 DEF Cart
  <2>4. /\ appSessions'[s] = k /\ \A t \in Sid \ {s} : appSessions'[t] = appSessions[t]
        /\ ideal'[s] = EmptyCart /\ \A t \in Sid \ {s} : ideal'[t] = ideal[t]
        BY <1>2, <2>1 DEF AppInv, AppTypeOK, Calls
  <2>5. \A t \in Sid : appSessions[t] <= made /\ appSessions[t] \in Nat /\ appSessions[t] # k
    <3>1. \A t \in Sid : appSessions[t] \in 0 .. MaxCarts BY DEF AppInv, AppTypeOK
    <3>2. \A t \in Sid : appSessions[t] <= made BY DEF AppInv, Fresh
    <3> QED BY <3>1, <3>2, <2>3, <1>2
  <2>6. AppTypeOK' BY <1>1, <1>2, <2>1, <2>3 DEF AppInv, AppTypeOK, page
  <2>7. Calls'
    <3>1. Fits(appRequest'[r]) /\ appRequest'[r].cookie <= issued /\ ~Serving(r)'
          BY <1>2, <2>2 DEF Fits, Same, Serving
    <3>2. EmptyCart \in Content BY DEF EmptyCart, Content
    <3>3. ideal' \in [Sid -> Content] BY <2>1, <3>2, Zenon DEF AppInv, Calls
    <3> QED BY <3>1, <3>3, <1>1, <1>2, <2>2, CallsTurn
  <2>8. Fresh'
    <3>1. \A t \in Sid : appSessions'[t] <= made' BY <2>1, <2>3, <2>4, <2>5
    <3>2. \A t \in Sid : t > issued => appSessions'[t] = 0 /\ ideal'[t] = EmptyCart
          BY <1>2, <2>4 DEF AppInv, Fresh, Sid
    <3>3. \A o \in Cart : o > made' => carts'[o] = EmptyCart
          BY <1>1, <2>1, <2>3 DEF AppInv, Fresh, Cart
    <3> QED BY <3>1, <3>2, <3>3, <1>1 DEF AppInv, Fresh
  <2>9. Faithful'
    <3>1. OwnSession' BY <2>4, <2>5 DEF AppInv, Faithful, OwnSession
    <3>2. Kept'
      <4> SUFFICES ASSUME NEW t \in Sid, t \notin overlap, Live(t)'
                   PROVE  carts'[appSessions'[t]] = ideal'[t]
          BY <1>1 DEF Kept
      <4>1. CASE t = s
        <5>1. carts[k] = EmptyCart BY <2>3 DEF AppInv, Fresh
        <5> QED BY <5>1, <4>1, <2>4, <1>1
      <4>2. CASE t # s BY <4>2, <2>4, <1>1 DEF AppInv, Faithful, Kept, Live
      <4> QED BY <4>1, <4>2
    <3>3. ASSUME NEW q \in Slots PROVE FaithfulAt(q)'
      <4>1. CASE q = r
        <5>1. ViewedAt(r)'
              BY <1>1, <1>2, <2>2 DEF FaithfulAt, ViewedAt, Under, Same
        <5> QED BY <1>2, <2>2, <4>1, <5>1
                DEF FaithfulAt, OwnCart, AloneAt, CrashedAt, Serving, InCart, Same
      <4>2. CASE q # r
        <5>1. appRequest'[q] = appRequest[q] /\ FaithfulAt(q)
              BY <2>2, <4>2 DEF Turn, AppInv, Faithful
        <5>2. AloneAt(q)'
          <6> SUFFICES ASSUME Serving(q)', appRequest'[q].cookie \notin overlap'
                       PROVE AloneAt(q)'
              BY DEF AloneAt
          <6>1. Serving(q) /\ appRequest[q].cookie \notin overlap /\ AloneAt(q)
                BY <5>1, <1>1 DEF Serving, FaithfulAt
          <6>2. appRequest[q].cookie # s BY <6>1, <1>2, <4>2 DEF AloneAt
          <6>3. appRequest[q].cookie \in Sid BY <6>1, InHand, Shape DEF AppInv
          <6>4. appSessions'[appRequest[q].cookie] = appSessions[appRequest[q].cookie]
                /\ ideal'[appRequest[q].cookie] = ideal[appRequest[q].cookie]
                BY <2>4, <6>2, <6>3
          <6>5. \A p \in Slots : Serving(p)' => Serving(p)
                /\ appRequest'[p] = appRequest[p]
                BY <2>2 DEF Serving, Turn
          <6> QED BY <6>1, <6>4, <6>5, <5>1 DEF AloneAt, Live
        <5>3. OwnCart(q)'
          <6> SUFFICES ASSUME Under(q), appRequest[q].pc \in InCart
                       PROVE  /\ appRequest[q].cart \in 1 .. made'
                              /\ \A t \in Sid : appSessions'[t] = appRequest[q].cart
                                                  => t = appRequest[q].cookie
              BY <5>1 DEF OwnCart, Under
          <6>1. /\ appRequest[q].cart \in 1 .. made
                /\ \A t \in Sid : appSessions[t] = appRequest[q].cart => t = appRequest[q].cookie
                BY <5>1 DEF FaithfulAt, OwnCart
          <6>2. appRequest[q].cart # k /\ appRequest[q].cart \in 1 .. made' BY <6>1, <2>1, <2>3
          <6> QED BY <6>1, <6>2, <2>4
        <5> QED BY <5>1, <5>2, <5>3, <1>1 DEF FaithfulAt, ViewedAt, CrashedAt, Under
      <4> QED BY <4>1, <4>2
    <3> QED BY <3>1, <3>2, <3>3 DEF Faithful
  <2>10. Rendered'
    <3>1. Under(r)' BY <2>2 DEF Under
    <3>2. jar \in 0 .. issued /\ jar' = jar BY <1>1 DEF AppInv, AppTypeOK, page
    <3>3. Live(jar)' <=> Live(jar)
      <4>1. CASE jar = s BY <3>2, <4>1, <1>4, <2>3, <2>4 DEF Live
      <4>2. CASE jar # s
        <5>1. jar = 0 \/ jar \in Sid BY <3>2, <1>2 DEF Sid
        <5> QED BY <3>2, <5>1, <4>2, <2>4 DEF Live
      <4> QED BY <4>1, <4>2
    <3> QED BY <3>1, <3>3, <1>1, <1>2, <2>2, RenderedTurn DEF Same
  <2>11. LoggedOutForGood'
    <3>1. s \notin loggedOut BY <1>4 DEF AppInv, LoggedOutForGood
    <3>2. \A t \in loggedOut : t \in Sid BY DEF AppInv, AppTypeOK
    <3> QED BY <3>1, <3>2, <2>4, <1>1 DEF AppInv, LoggedOutForGood, Live
  <2> QED BY <2>6, <2>7, <2>8, <2>9, <2>10, <2>11 DEF AppInv
<1> QED BY <1>3, <1>4

\* A login: a sid and a cart that nobody knows yet.
LEMMA LoginKeeps == ASSUME AppInv, NEW r \in Slots, Login(r) PROVE AppInv'
<1> DEFINE c == appRequest[r]
           n == issued + 1
           k == made + 1
           d == [c EXCEPT !.pc = "answered", !.status = 200, !.cookie = n]
<1>1. /\ c.pc = "sent" /\ c.op = "login" /\ issued < MaxSessions /\ made < MaxCarts
      /\ issued' = n /\ made' = k
      /\ appSessions' = [appSessions EXCEPT ![n] = k]
      /\ appRequest' = [appRequest EXCEPT ![r] = d]
      /\ UNCHANGED <<carts, loggedOut, page, ideal, overlap>>
      BY DEF Login
<1>2. /\ Under(r) /\ ~Serving(r) /\ c \in Call /\ Fits(c) /\ issued \in 0 .. MaxSessions
      /\ made \in 0 .. MaxCarts /\ MaxSessions \in Nat /\ MaxCarts \in Nat
      BY <1>1, InHand DEF Under, Serving
<1>3. /\ n \in Sid /\ n \in Nat /\ n # 0 /\ n > issued /\ issued \in Nat /\ made \in Nat
      /\ k \in Cart /\ k > made /\ k # 0 /\ n \in 0 .. MaxSessions /\ k \in 0 .. MaxCarts
      BY <1>1, <1>2 DEF Sid, Cart
<1>4. d \in Call
  <2> DEFINE ok == 200
             pc == "answered"
  <2>1. c \in Call /\ n \in Nat /\ ok \in {0, 200, 401} /\ pc \in Position
        BY <1>2, <1>3 DEF Position
  <2> HIDE DEF c, n, ok, pc
  <2>2. [c EXCEPT !.pc = pc, !.status = ok, !.cookie = n] \in Call BY <2>1, ZenonT(60) DEF Call
  <2> QED BY <2>2 DEF c, n, ok, pc
<1>5. d.pc = "answered" /\ d.op = "login" /\ d.cookie = n /\ d.item = c.item
      BY <1>1, <1>2 DEF Call
<1> HIDE DEF d
<1>6. appRequest'[r] = d /\ Turn(r) /\ appRequest' = [appRequest EXCEPT ![r] = appRequest'[r]]
      BY <1>1, Replaced, Zenon DEF AppInv
<1>7. appSessions'[n] = k /\ \A t \in Sid \ {n} : appSessions'[t] = appSessions[t]
      BY <1>1, <1>3 DEF AppInv, AppTypeOK
<1>8. /\ appSessions[n] = 0 /\ ideal[n] = EmptyCart /\ carts[k] = EmptyCart
      /\ n \notin overlap /\ n \notin loggedOut
      BY <1>3 DEF AppInv, Fresh
<1>9. \A t \in Sid : appSessions[t] <= made /\ appSessions[t] \in Nat /\ appSessions[t] # k
  <2>1. \A t \in Sid : appSessions[t] \in 0 .. MaxCarts BY DEF AppInv, AppTypeOK
  <2>2. \A t \in Sid : appSessions[t] <= made BY DEF AppInv, Fresh
  <2> QED BY <2>1, <2>2, <1>3
<1>10. AppTypeOK'
  <2>1. jar \in 0 .. issued' BY <1>1, <1>3 DEF AppInv, AppTypeOK
  <2> QED BY <2>1, <1>1, <1>3 DEF AppInv, AppTypeOK, page
<1>11. Calls'
  <2>1. Fits(d) BY <1>2, <1>5, <1>1 DEF Fits
  <2>2. ~Serving(r)' BY <1>5, <1>6 DEF Serving
  <2>3. issued <= issued' /\ issued' \in Nat /\ d.cookie <= issued' BY <1>1, <1>3, <1>5
  <2> QED BY <2>1, <2>2, <2>3, <1>1, <1>3, <1>4, <1>6, CallsTurn, Zenon DEF AppInv, Calls
<1>12. Fresh'
  <2>1. \A t \in Sid : appSessions'[t] <= made' BY <1>1, <1>3, <1>7, <1>9
  <2>2. \A t \in Sid : t > issued' => t # n /\ t > issued BY <1>1, <1>3 DEF Sid
  <2>3. \A t \in Sid : t > issued' => appSessions'[t] = 0 /\ ideal'[t] = EmptyCart
        BY <2>2, <1>1, <1>7 DEF AppInv, Fresh
  <2>4. \A o \in Cart : o > made' => carts'[o] = EmptyCart
        BY <1>1, <1>3 DEF AppInv, Fresh, Cart
  <2>5. overlap \subseteq 1 .. issued' /\ loggedOut \subseteq 1 .. issued'
        BY <1>1, <1>3 DEF AppInv, Fresh
  <2> QED BY <2>1, <2>3, <2>4, <2>5, <1>1 DEF Fresh
<1>13. Faithful'
  <2>1. OwnSession' BY <1>7, <1>9 DEF AppInv, Faithful, OwnSession
  <2>2. Kept'
    <3> SUFFICES ASSUME NEW t \in Sid, t \notin overlap, Live(t)'
                 PROVE  carts'[appSessions'[t]] = ideal'[t]
        BY <1>1 DEF Kept
    <3>1. CASE t = n BY <3>1, <1>1, <1>7, <1>8
    <3>2. CASE t # n BY <3>2, <1>1, <1>7 DEF AppInv, Faithful, Kept, Live
    <3> QED BY <3>1, <3>2
  <2>3. ASSUME NEW q \in Slots PROVE FaithfulAt(q)'
    <3>1. CASE q = r
          BY <1>5, <1>6, <3>1 DEF FaithfulAt, OwnCart, AloneAt, ViewedAt, CrashedAt, Serving,
              InCart
    <3>2. CASE q # r
      <4>1. appRequest'[q] = appRequest[q] /\ FaithfulAt(q)
            BY <1>6, <3>2 DEF Turn, AppInv, Faithful
      <4>2. AloneAt(q)'
        <5> SUFFICES ASSUME Serving(q)', appRequest'[q].cookie \notin overlap'
                     PROVE AloneAt(q)'
            BY DEF AloneAt
        <5>1. Serving(q) /\ appRequest[q].cookie \notin overlap /\ AloneAt(q)
              BY <4>1, <1>1 DEF Serving, FaithfulAt
        <5>2. appRequest[q].cookie \in Sid /\ appRequest[q].cookie \in 1 .. issued
              BY <5>1, InHand, Shape DEF AppInv
        <5>3. appRequest[q].cookie # n BY <5>2, <1>3
        <5>4. appSessions'[appRequest[q].cookie] = appSessions[appRequest[q].cookie]
              BY <1>7, <5>2, <5>3
        <5>5. ~Serving(r)' BY <1>5, <1>6 DEF Serving
        <5>6. \A p \in Slots : Serving(p)' => Serving(p) /\ appRequest'[p] = appRequest[p]
              BY <5>5, <1>6 DEF Serving, Turn
        <5> QED BY <5>1, <5>4, <5>6, <4>1, <1>1 DEF AloneAt, Live
      <4>3. OwnCart(q)'
        <5> SUFFICES ASSUME Under(q), appRequest[q].pc \in InCart
                     PROVE  /\ appRequest[q].cart \in 1 .. made'
                            /\ \A t \in Sid : appSessions'[t] = appRequest[q].cart
                                                => t = appRequest[q].cookie
            BY <4>1 DEF OwnCart, Under
        <5>1. /\ appRequest[q].cart \in 1 .. made
              /\ \A t \in Sid : appSessions[t] = appRequest[q].cart => t = appRequest[q].cookie
              BY <4>1 DEF FaithfulAt, OwnCart
        <5>2. appRequest[q].cart # k /\ appRequest[q].cart \in 1 .. made' BY <5>1, <1>1, <1>3
        <5> QED BY <5>1, <5>2, <1>7
      <4> QED BY <4>1, <4>2, <4>3, <1>1 DEF FaithfulAt, ViewedAt, CrashedAt, Under
    <3> QED BY <3>1, <3>2
  <2> QED BY <2>1, <2>2, <2>3 DEF Faithful
<1>14. Rendered'
  <2>1. Under(r)' BY <1>5, <1>6 DEF Under
  <2>2. d.op = c.op /\ d.gen = c.gen BY <1>2, <1>1, <1>5 DEF d, Call
  <2>3. jar \in 0 .. issued /\ jar' = jar BY <1>1 DEF AppInv, AppTypeOK, page
  <2>4. jar # n /\ (jar = 0 \/ jar \in Sid) BY <2>3, <1>2, <1>3 DEF Sid
  <2>5. Live(jar)' <=> Live(jar) BY <2>3, <2>4, <1>7 DEF Live
  <2> QED BY <2>1, <2>2, <2>5, <1>1, <1>2, <1>6, RenderedTurn
<1>15. LoggedOutForGood'
  <2>1. \A t \in loggedOut : t \in Sid BY DEF AppInv, AppTypeOK
  <2> QED BY <2>1, <1>1, <1>7, <1>8 DEF AppInv, LoggedOutForGood, Live
<1> QED BY <1>10, <1>11, <1>12, <1>13, <1>14, <1>15 DEF AppInv

\* A request that leaves the page.
LEMMA NewCall ==
    ASSUME NEW op \in Operation, NEW item \in Items \cup {NoItem}, NEW cookie \in Nat,
        NEW g \in Nat,
           NEW then \in BOOLEAN, op \in {"add", "remove"} => item \in Items
    PROVE  /\ NewRequest(op, item, cookie, g, then) \in Call
       /\ Fits(NewRequest(op, item, cookie, g, then))
           /\ NewRequest(op, item, cookie, g, then).pc = "sent"
                 /\ NewRequest(op, item, cookie, g, then).op = op
           /\ NewRequest(op, item, cookie, g, then).cookie = cookie
                 /\ NewRequest(op, item, cookie, g, then).gen = g
<1> DEFINE d == NewRequest(op, item, cookie, g, then)
<1>1. EmptyCart \in Content BY DEF EmptyCart, Content
<1>2. d \in Call BY <1>1 DEF NewRequest, Call, Position, Badges, Totals, Counts
<1>3. d.pc = "sent" /\ d.op = op /\ d.cookie = cookie /\ d.gen = g /\ d.item = item BY DEF NewRequest
<1>4. Fits(d)
  <2> HIDE DEF d
  <2> QED BY <1>3 DEF Fits
<1> QED BY <1>2, <1>3, <1>4

\* The page takes an answer or sends a request: the server has nothing to do with it.
LEMMA PageTurn ==
    ASSUME AppInv, NEW r \in Slots, ~Serving(r), NEW d,
           d = Free \/ (d \in Call /\ Fits(d) /\ d.pc = "sent" /\ d.cookie <= issued),
           appRequest' = [appRequest EXCEPT ![r] = d], UNCHANGED <<server, ideal, overlap>>,
           jar' \in 0 .. issued, gen' \in Nat, shown' \in {"nothing", "locked", "items"},
           Rendered'
    PROVE  AppInv'
<1>1. appRequest'[r] = d /\ Turn(r) /\ appRequest' = [appRequest EXCEPT ![r] = appRequest'[r]]
      BY Replaced, Zenon DEF AppInv
<1>2. d.pc \in {"free", "sent"} BY DEF Free
<1>3. AppTypeOK' BY DEF AppInv, AppTypeOK, server
<1>4. Calls'
  <2>1. ~Serving(r)' BY <1>1, <1>2 DEF Serving
  <2>2. issued \in Nat /\ issued' = issued
        BY FixtureAppAssumption DEF AppInv, AppTypeOK, FixtureAppAssumption, server
  <2>3. issued <= issued' /\ issued' \in Nat /\ ideal' \in [Sid -> Content]
        BY <2>2 DEF AppInv, Calls
  <2>4. CASE d = Free BY <2>2, <2>3, <2>4, <1>1, CallsTurn, Zenon
  <2>5. CASE d \in Call /\ Fits(d) /\ d.pc = "sent" /\ d.cookie <= issued
        BY <2>1, <2>2, <2>3, <2>5, <1>1, CallsTurn, Zenon
  <2> QED BY <2>4, <2>5
<1>5. Fresh' BY DEF AppInv, Fresh, server
<1>6. FaithfulAt(r)'
      BY <1>1, <1>2 DEF FaithfulAt, OwnCart, AloneAt, ViewedAt, CrashedAt, Serving, InCart
<1>7. Faithful' BY <1>1, <1>6, FaithfulTurn
<1>8. LoggedOutForGood' BY DEF AppInv, LoggedOutForGood, Live, server
<1> QED BY <1>3, <1>4, <1>5, <1>7, <1>8 DEF AppInv

\* Neither a list nor a logout is answered here: the page still shows what it did.
LEMMA RenderedQuiet ==
    ASSUME AppInv, NEW r \in Slots, Turn(r), UNCHANGED <<server, jar, gen, shown>>,
           ~Lists(r), ~Lists(r)', Under(r) => appRequest[r].op # "logout"
    PROVE  Rendered'
<1>1. Rendered BY DEF AppInv
<1>2. \A q \in Slots : Lists(q)' => Lists(q) /\ q # r /\ appRequest'[q] = appRequest[q]
      BY DEF Lists, Under, Turn
<1>3. \A q \in Slots : Lists(q) => Lists(q)' /\ q # r /\ appRequest'[q] = appRequest[q]
      BY DEF Lists, Under, Turn
<1>4. Reloads => Reloads' BY DEF Reloads, Under, Turn
<1>5. Live(jar)' <=> Live(jar) BY DEF Live, server
<1>6. Truth(jar)' = Truth(jar) BY <1>5 DEF Truth
<1>7. (\E q \in Slots : Lists(q) /\ Newest(q)) => (\E q \in Slots : Lists(q)
      /\ Newest(q))'
      BY <1>3 DEF Newest
<1>8. (\A q \in Slots : Lists(q) =>
            /\ appRequest[q].gen <= gen
            /\ Newest(q) => appRequest[q].cookie = jar
            /\ Newest(q) /\ appRequest[q].pc = "answered" =>
                   Reloads \/ (appRequest[q].status = 200 <=> Live(jar)))'
      BY <1>1, <1>2, <1>4, <1>5 DEF Rendered, Newest
<1> QED BY <1>1, <1>4, <1>6, <1>7, <1>8 DEF Rendered

\* The cookie changes and the list is loaded with it.
LEMMA ReloadKeeps ==
    ASSUME AppInv, NEW r \in Slots, Under(r), ~Serving(r), NEW cookie \in 0 .. issued,
           NEW then \in BOOLEAN, Reload(r, cookie, then),
           UNCHANGED <<server, shown, clicks, ideal, overlap>>
    PROVE  AppInv'
<1> DEFINE d == NewRequest("items", NoItem, cookie, gen + 1, then)
<1>1. jar' = cookie /\ gen' = gen + 1 /\ appRequest' = [appRequest EXCEPT ![r] = d]
      BY DEF Reload
<1>2. gen \in Nat /\ gen + 1 \in Nat /\ cookie \in Nat /\ issued \in Nat /\ cookie <= issued
      BY InHand DEF AppInv, AppTypeOK
<1>3. d \in Call /\ Fits(d) /\ d.pc = "sent" /\ d.op = "items" /\ d.cookie = cookie
      /\ d.gen = gen + 1
      BY <1>2, NewCall DEF Operation
<1> HIDE DEF d
<1>4. appRequest'[r] = d /\ Turn(r) BY <1>1, Replaced, Zenon DEF AppInv
<1>5. Rendered'
  <2>1. Lists(r)' /\ Newest(r)' BY <1>1, <1>3, <1>4 DEF Lists, Under, Newest
  <2>2. ASSUME NEW q \in Slots, q # r, Lists(q)' PROVE appRequest'[q].gen <= gen'
        /\ ~Newest(q)'
    <3>1. Lists(q) /\ appRequest'[q] = appRequest[q] BY <2>2, <1>4 DEF Lists, Under, Turn
    <3>2. appRequest[q].gen <= gen BY <3>1 DEF AppInv, Rendered
    <3>3. appRequest[q].gen \in Nat BY <3>1, InHand DEF Lists, Call
    <3> QED BY <3>1, <3>2, <3>3, <1>1, <1>2 DEF Newest
  <2>3. appRequest'[r].gen <= gen' /\ appRequest'[r].cookie = jar'
        /\ appRequest'[r].pc # "answered"
        BY <1>1, <1>2, <1>3, <1>4
  <2>4. gen' > 0 BY <1>1, <1>2
  <2> QED BY <2>1, <2>2, <2>3, <2>4 DEF Rendered
<1>6. shown' \in {"nothing", "locked", "items"} BY DEF AppInv, AppTypeOK
<1> QED BY <1>1, <1>2, <1>3, <1>5, <1>6, PageTurn, Zenon

\* What holds an answer is no handler any more.
LEMMA Answered ==
    ASSUME AppInv, NEW r \in Slots, appRequest[r].pc \in {"answered", "crashed"}
    PROVE  Under(r) /\ ~Serving(r) /\ appRequest[r] \in Call /\ Fits(appRequest[r])
           /\ appRequest[r].cookie \in 0 .. issued
BY InHand DEF Under, Serving

\* A cookie is set or taken away.
LEMMA SessionAnsweredKeeps ==
    ASSUME AppInv, NEW r \in Slots, LoginAnswered(r) \/ LogoutAnswered(r)
    PROVE  AppInv'
<1>1. Under(r) /\ ~Serving(r) /\ appRequest[r].cookie \in 0 .. issued
      BY Answered, Zenon DEF LoginAnswered, LogoutAnswered, Ready
<1>2. 0 \in 0 .. issued BY FixtureAppAssumption DEF AppInv, AppTypeOK, FixtureAppAssumption
<1> QED BY <1>1, <1>2, ReloadKeeps, Zenon DEF LoginAnswered, LogoutAnswered

\* Only the newest list is shown, and it tells what the server knows of the page's cookie.
LEMMA ItemsAnsweredKeeps == ASSUME AppInv, NEW r \in Slots, ItemsAnswered(r) PROVE AppInv'
<1> DEFINE c == appRequest[r]
           d == IF c.then THEN NewRequest("cart", NoItem, jar, 0, FALSE) ELSE Free
<1>1. /\ c.pc = "answered" /\ c.op = "items"
      /\ shown' = IF Newest(r) THEN (IF c.status = 200 THEN "items" ELSE "locked") ELSE shown
      /\ appRequest' = [appRequest EXCEPT ![r] = d]
      /\ UNCHANGED <<server, jar, gen, clicks, ideal, overlap>>
      BY DEF ItemsAnswered, Ready
<1>2. Under(r) /\ ~Serving(r) /\ Lists(r) BY <1>1, Answered DEF Lists
<1>3. jar \in Nat /\ jar <= issued /\ jar \in 0 .. issued
      BY FixtureAppAssumption DEF AppInv, AppTypeOK, FixtureAppAssumption
<1>4. d = Free \/ (d \in Call /\ Fits(d) /\ d.pc = "sent" /\ d.op = "cart"
      /\ d.cookie <= issued)
  <2> DEFINE look == NewRequest("cart", NoItem, jar, 0, FALSE)
  <2>0. d = look \/ d = Free BY Zenon
  <2> HIDE DEF d
  <2>1. EmptyCart \in Content BY DEF EmptyCart, Content
  <2>2. look \in Call BY <1>3, <2>1 DEF NewRequest, Call, Position, Operation, Badges, Totals, Counts
  <2>3. look.pc = "sent" /\ look.op = "cart" /\ look.cookie = jar /\ look.item = NoItem
        BY DEF NewRequest
  <2> HIDE DEF look
  <2>4. Fits(look) BY <2>3 DEF Fits
  <2> QED BY <1>3, <2>0, <2>2, <2>3, <2>4
<1> HIDE DEF d
<1>5. appRequest'[r] = d /\ Turn(r) BY <1>1, Replaced, Zenon DEF AppInv
<1>6. ~Lists(r)' /\ ~(Under(r)' /\ appRequest'[r].op = "logout")
      BY <1>4, <1>5 DEF Lists, Under, Free
<1>7. Rendered'
  <2>1. Rendered BY DEF AppInv
  <2>2. \A q \in Slots : Lists(q)' => Lists(q) /\ q # r /\ appRequest'[q] = appRequest[q]
        BY <1>5, <1>6 DEF Lists, Under, Turn
  <2>3. \A q \in Slots \ {r} : Lists(q) => Lists(q)' /\ appRequest'[q] = appRequest[q]
        BY <1>5 DEF Lists, Under, Turn
  <2>4. Reloads' <=> Reloads BY <1>1, <1>5, <1>6 DEF Reloads, Under, Turn
  <2>5. Live(jar)' <=> Live(jar) BY <1>1 DEF Live, server
  <2>6. Truth(jar)' = Truth(jar) BY <2>5 DEF Truth
  <2>7. Newest(r) => Reloads \/ shown' = Truth(jar)
        BY <2>1, <1>1, <1>2 DEF Rendered, Truth
  <2>8. \/ Reloads'
        \/ \E q \in Slots : Lists(q)' /\ Newest(q)'
        \/ shown' = Truth(jar)'
    <3>1. CASE Reloads BY <3>1, <2>4
    <3>2. CASE \E q \in Slots : Lists(q) /\ Newest(q)
      <4>1. PICK q \in Slots : Lists(q) /\ Newest(q) BY <3>2
      <4>2. CASE q = r BY <4>1, <4>2, <2>4, <2>6, <2>7
      <4>3. CASE q # r BY <4>1, <4>3, <2>3, <1>1 DEF Newest
      <4> QED BY <4>2, <4>3
    <3>3. CASE shown = Truth(jar) BY <3>3, <2>4, <2>6, <2>7, <1>1
    <3> QED BY <3>1, <3>2, <3>3, <2>1 DEF Rendered
  <2>9. (\A q \in Slots : Lists(q) =>
            /\ appRequest[q].gen <= gen
            /\ Newest(q) => appRequest[q].cookie = jar
            /\ Newest(q) /\ appRequest[q].pc = "answered" =>
                   Reloads \/ (appRequest[q].status = 200 <=> Live(jar)))'
        BY <2>1, <2>2, <2>4, <2>5, <1>1 DEF Rendered, Newest
  <2> QED BY <2>1, <2>8, <2>9, <1>1 DEF Rendered
<1>8. shown' \in {"nothing", "locked", "items"} /\ gen' \in Nat BY <1>1 DEF AppInv, AppTypeOK
<1> QED BY <1>1, <1>2, <1>3, <1>4, <1>7, <1>8, PageTurn, Zenon

\* The other answers lead to a look at the cart, or to nothing.
LEMMA OtherAnsweredKeeps ==
    ASSUME AppInv, NEW r \in Slots,
           CartChangeAnswered(r) \/ CartAnswered(r) \/ FetchRejected(r)
    PROVE  AppInv'
<1> DEFINE look == NewRequest("cart", NoItem, jar, 0, FALSE)
<1>1. jar \in Nat /\ jar <= issued /\ jar \in 0 .. issued /\ gen \in Nat
      /\ shown \in {"nothing", "locked", "items"}
      BY FixtureAppAssumption DEF AppInv, AppTypeOK, FixtureAppAssumption
<1>2. look \in Call /\ Fits(look) /\ look.pc = "sent" /\ look.op = "cart" /\ look.cookie = jar
  <2>1. EmptyCart \in Content BY DEF EmptyCart, Content
  <2>2. look \in Call BY <1>1, <2>1 DEF NewRequest, Call, Position, Operation, Badges, Totals, Counts
  <2>3. look.pc = "sent" /\ look.op = "cart" /\ look.cookie = jar /\ look.item = NoItem
        BY DEF NewRequest
  <2> HIDE DEF look
  <2>4. Fits(look) BY <2>3 DEF Fits
  <2> QED BY <2>2, <2>3, <2>4
<1>3. PICK d \in {look, Free} : appRequest' = [appRequest EXCEPT ![r] = d]
      BY Zenon DEF CartChangeAnswered, CartAnswered, FetchRejected
<1>4. UNCHANGED <<server, page, ideal, overlap>>
      BY Zenon DEF CartChangeAnswered, CartAnswered, FetchRejected
<1>5. appRequest[r].pc \in {"answered", "crashed"}
      BY Zenon DEF CartChangeAnswered, CartAnswered, FetchRejected, Ready
<1>6. Under(r) /\ ~Serving(r) /\ Fits(appRequest[r]) BY <1>5, Answered
<1>7. appRequest[r].op \notin {"items", "logout"}
      BY <1>6, Zenon DEF CartChangeAnswered, CartAnswered, FetchRejected, Ready,
          Fits
<1> HIDE DEF look
<1>8. appRequest'[r] = d /\ Turn(r) BY <1>3, Replaced, Zenon DEF AppInv
<1>9. ~Lists(r)' BY <1>2, <1>8 DEF Lists, Under, Free
<1>10. Rendered' BY <1>4, <1>7, <1>8, <1>9, RenderedQuiet DEF page, Lists
<1> QED BY <1>1, <1>2, <1>3, <1>4, <1>6, <1>10, PageTurn, Zenon DEF page

\* A click.
LEMMA ClickKeeps ==
    ASSUME AppInv, NEW r \in Slots, NEW op \in {"login", "logout", "checkout", "add", "remove"},
           NEW item \in Items \cup {NoItem}, Click(r, op, item)
    PROVE  AppInv'
<1> DEFINE d == NewRequest(op, item, jar, 0, FALSE)
<1>1. /\ appRequest[r] = Free /\ appRequest' = [appRequest EXCEPT ![r] = d]
      /\ UNCHANGED <<server, jar, gen, shown, ideal, overlap>>
      /\ op \in {"add", "remove"} => item \in Items
      BY DEF Click
<1>2. jar \in Nat /\ jar <= issued /\ jar \in 0 .. issued /\ gen \in Nat
      /\ shown \in {"nothing", "locked", "items"}
      BY FixtureAppAssumption DEF AppInv, AppTypeOK, FixtureAppAssumption
<1>3. op \in Operation /\ op # "items" BY DEF Operation
<1>4. d \in Call /\ Fits(d) /\ d.pc = "sent" /\ d.op = op /\ d.cookie = jar
  <2>1. EmptyCart \in Content BY DEF EmptyCart, Content
  <2>2. d \in Call BY <1>2, <2>1 DEF NewRequest, Call, Position, Operation, Badges, Totals, Counts
  <2>3. d.pc = "sent" /\ d.op = op /\ d.cookie = jar /\ d.item = item BY DEF NewRequest
  <2> HIDE DEF d
  <2>4. Fits(d) BY <1>1, <2>3 DEF Fits
  <2> QED BY <2>2, <2>3, <2>4
<1> HIDE DEF d
<1>5. appRequest'[r] = d /\ Turn(r) BY <1>1, Replaced, Zenon DEF AppInv
<1>6. ~Under(r) /\ ~Serving(r) /\ ~Lists(r) BY <1>1 DEF Free, Under, Serving, Lists
<1>7. ~Lists(r)' BY <1>3, <1>4, <1>5 DEF Lists
<1>8. Rendered' BY <1>1, <1>5, <1>6, <1>7, RenderedQuiet
<1> QED BY <1>1, <1>2, <1>4, <1>6, <1>8, PageTurn, Zenon

\* Every step of the handlers and of the page.
LEMMA AppNextKeeps == ASSUME AppInv, [AppNext]_appVars PROVE AppInv'
<1>1. ASSUME NEW r \in Slots, Handler(r) PROVE AppInv'
      BY <1>1, LoginKeeps, GetItemsKeeps, CheckSessionKeeps, PopSessionKeeps, LookUpKeeps,
         ReadQuantityKeeps, WriteQuantityKeeps, RemoveItemKeeps, ViewBadgeKeeps, ViewTotalKeeps,
         ViewItemsKeeps, ResetCartKeeps
      DEF Handler
<1>2. ASSUME NEW r \in Slots, PageStep(r) PROVE AppInv'
      BY <1>2, SessionAnsweredKeeps, ItemsAnsweredKeeps, OtherAnsweredKeeps DEF PageStep
<1>3. ASSUME NEW r \in Slots, NEW op \in {"login", "logout", "checkout"}, Click(r, op, NoItem)
      PROVE  AppInv'
      BY <1>3, ClickKeeps
<1>4. ASSUME NEW r \in Slots, NEW op \in {"add", "remove"}, NEW item \in Items, Click(r, op,
      item)
      PROVE  AppInv'
      BY <1>4, ClickKeeps
<1>5. CASE UNCHANGED appVars
  <2>1. UNCHANGED <<appSessions, carts, issued, made, loggedOut, appRequest, jar, gen, shown,
        clicks,
                    ideal, overlap>>
        BY <1>5 DEF appVars, server, page
  <2>2. AppTypeOK' /\ Calls' /\ Fresh' /\ LoggedOutForGood'
        BY <2>1 DEF AppInv, AppTypeOK, Calls, Fits, Under, Serving, Fresh,
            LoggedOutForGood, Live
  <2>3. Faithful'
        BY <2>1 DEF AppInv, Faithful, OwnSession, Kept, FaithfulAt, OwnCart, AloneAt, ViewedAt,
            CrashedAt,
                    Under, Serving, Live
  <2>4. Rendered' BY <2>1 DEF AppInv, Rendered, Reloads, Lists, Newest, Truth, Live, Under
  <2> QED BY <2>2, <2>3, <2>4 DEF AppInv
<1> QED BY <1>1, <1>2, <1>3, <1>4, <1>5 DEF AppNext

\* What the invariant is for.
LEMMA AppInvImplies == AppInv => CartsAreExact /\ LoggedOutForGood /\ QuietShowsTruth
<1> SUFFICES ASSUME AppInv PROVE CartsAreExact /\ QuietShowsTruth
    BY DEF AppInv
<1>1. OneAtATimeIsExact
  <2>1. AppTypeOK BY DEF AppInv
  <2>2. ASSUME NEW s \in Sid \ overlap, Live(s) PROVE carts[appSessions[s]] = ideal[s]
        BY <2>2 DEF AppInv, Faithful, Kept
  <2>3. ASSUME NEW r \in Slots, NEW s \in Sid \ overlap,
               appRequest[r].pc = "answered", appRequest[r].op \in {"cart", "checkout"},
               appRequest[r].cookie = s, appRequest[r].status = 200
        PROVE  /\ appRequest[r].total = Total(appRequest[r].due)
               /\ appRequest[r].keys = Kinds(appRequest[r].due)
        BY <2>3 DEF AppInv, Faithful, FaithfulAt, ViewedAt, Under
  <2> QED BY <2>1, <2>2, <2>3 DEF OneAtATimeIsExact
<1>2. CrashNeedsOverlap BY DEF AppInv, Faithful, FaithfulAt, CrashedAt, CrashNeedsOverlap
<1>3. QuietShowsTruth
  <2> SUFFICES ASSUME \A r \in Slots : appRequest[r] = Free PROVE shown = Truth(jar)
      BY DEF QuietShowsTruth, Truth
  <2>1. \A r \in Slots : ~Under(r) BY DEF Under, Free
  <2> QED BY <2>1 DEF AppInv, Rendered, Reloads, Lists
<1> QED BY <1>1, <1>2, <1>3 DEF CartsAreExact

\* AppInv holds for any goods, prices and bounds, and any number of requests under way.
THEOREM AppInvariance == AppSpec => []AppInv
<1>1. AppInit => AppInv BY InitAppInv
<1>2. AppInv /\ [AppNext]_appVars => AppInv' BY AppNextKeeps
<1> QED BY <1>1, <1>2, PTL DEF AppSpec

\* Without requests that overlap, a cart holds what was put into it, a view and an order say
\* so, and no handler dies (_app_cart_view, do_POST).
THEOREM CartsExact == AppSpec => []CartsAreExact
<1>1. AppInv => CartsAreExact BY AppInvImplies
<1> QED BY <1>1, AppInvariance, PTL

\* No request that was under way with it brings a session back after its logout.
THEOREM LogoutIsFinal == AppSpec => []LoggedOutForGood
<1>1. AppInv => LoggedOutForGood BY AppInvImplies
<1> QED BY <1>1, AppInvariance, PTL

\* However answers overtake each other, a quiet page shows what the server knows (loadItems).
THEOREM QuietPageIsTrue == AppSpec => []QuietShowsTruth
<1>1. AppInv => QuietShowsTruth BY AppInvImplies
<1> QED BY <1>1, AppInvariance, PTL
=============================================================================
