-------------------------- MODULE RawCdpDriver_proofs --------------------------
(***************************************************************************)
(* What the raw-CDP driver and its client promise, for any engine that     *)
(* answers, delays, fails and hangs up as it likes, any number of events   *)
(* and downloads and any steps.  Sound is the inductive invariant of the   *)
(* connection: the sequence of frames, the buffer and what was handed out  *)
(* partition what the engine sent, in its order.  Clean is that of the     *)
(* attempt: what the engine holds for it is known to the driver, and a     *)
(* command that was answered has had its effect, behind which no older     *)
(* command can come.                                                       *)
(***************************************************************************)
EXTENDS RawCdpDriver, FiniteSetTheorems, SequenceTheorems, TLAPS

Frame == [kind : {"event", "answer"}, n : Nat \ {0}, ok : BOOLEAN]
Cmds ==
    {Cmd("configure", k) : k \in Keys} \cup {Cmd("reset", k) : k \in Keys}
        \cup {Cmd("cancel", g) : g \in Guids} \cup {Cmd("other", "none")}
Request == [id : Nat \ {0}, cmd : Cmds]
Wants == {s.want : s \in {t \in Steps : t.kind = "wait"}} \cup {EndOf(g, d) : g \in Guids, d \in Domains}
Handed == [n : Nat \ {0}, want : Wants]

Sequences == wire \in Seq(Frame) /\ requests \in Seq(Request) /\ taken \in Seq(Handed)

\* Events are on the wire in the order in which they were sent.
InOrder ==
    \A i, j \in DOMAIN wire :
        i < j /\ IsEvent(wire[i]) /\ IsEvent(wire[j]) => wire[i].n < wire[j].n

\* Requests are looked at in the order of their numbers, and what was answered
\* is older than what was not looked at.
Numbered ==
    /\ \A i \in DOMAIN requests : requests[i].id < nextId
    /\ \A i, j \in DOMAIN requests : i < j => requests[i].id < requests[j].id
    /\ \A k \in DOMAIN wire : ~IsEvent(wire[k]) =>
          /\ wire[k].n < nextId
          /\ \A i \in DOMAIN requests : wire[k].n < requests[i].id
    /\ call # 0 => call = nextId - 1

Sound == Sequences /\ EventsConserved /\ InOrder /\ OldestMatchFirst /\ Numbered

\* The types, and what the driver is doing where it is.
Sending == {"commanding", "cancelling", "resetting"}
Placed ==
    /\ TypeOK
    /\ pc \in {"open", "prelude", "steps", "waiting", "commanding", "cleanup", "pump", "drain",
               "cancelling", "nextDomain", "draining", "reset", "resetting", "closed", "failed"}
    /\ call # 0 => pc \in Sending
    /\ pc = "waiting" => step \in Steps /\ step.kind = "wait"
    /\ pc = "draining" => \E d \in Domains : step.want = EndOf(guid, d)
    /\ pc \in {"cancelling", "nextDomain", "draining"} => guid \in Guids
    /\ pc = "resetting" => place \in DOMAIN configs
    /\ pc \in {"reset", "resetting"} => place # 0

\* Events speak of downloads that began, and their ends are the true ones.
Truthful ==
    /\ \A n \in DOMAIN log : IsDownloadEvent(n) =>
          /\ download[log[n].guid] # "none"
          /\ log[n].method \in ProgressMethods => download[log[n].guid] \in DOWNLOAD_TERMINAL_STATES
    /\ \A g \in Guids : domains[g] # {} => download[g] # "none"
    /\ \A g \in terminal : download[g] \in DOWNLOAD_TERMINAL_STATES

\* Every download event a wait consumed is in the driver's books.
Recorded ==
    \A n \in HandedOut : IsDownloadEvent(n) => domains[log[n].guid] # {}

\* What is not the default in the engine, or may still become so, was recorded
\* before it was sent.
Configured ==
    /\ \A k \in custom : \E i \in DOMAIN configs : configs[i] = k
    /\ \A r \in DOMAIN requests : requests[r].cmd.op = "configure" =>
          \E i \in DOMAIN configs : configs[i] = requests[r].cmd.arg

\* The command that waits is the one the driver thinks it is; one that was
\* answered without an error has had its effect.
Answered(ok) == \E k \in DOMAIN wire : ~IsEvent(wire[k]) /\ wire[k].n = call /\ wire[k].ok = ok
Waiting(cmd) == \A r \in DOMAIN requests : requests[r].id = call => requests[r].cmd = cmd
Effective ==
    /\ pc = "cancelling" =>
          /\ call # 0 /\ Waiting(Cmd("cancel", guid))
          /\ download[guid] # "none"
          /\ Answered(TRUE) => download[guid] # "active"
    /\ pc = "resetting" =>
          /\ call # 0 /\ Waiting(Cmd("reset", configs[place]))
          /\ Answered(TRUE) => configs[place] \notin custom

\* What has been reset stays reset: no older command can come behind it.
Settled(k) ==
    /\ k \notin custom
    /\ \A r \in DOMAIN requests : requests[r].cmd # Cmd("configure", k)
Behind == {configs[j] : j \in {i \in DOMAIN configs : i >= place}}
ResetSoFar ==
    ~errors =>
        /\ pc = "reset" => \A k \in Behind : Settled(k)
        /\ pc = "resetting" => \A k \in Behind \ {configs[place]} : Settled(k)
        /\ pc = "closed" => custom = {}

\* A download that the drain has done with has ended.
Drains == {"drain", "cancelling", "nextDomain", "draining"}
Drained ==
    /\ \A g \in known \cup todo : download[g] # "none"
    /\ pc \in Drains \cup {"reset", "resetting", "closed"} /\ ~errors =>
          \A g \in known : download[g] # "active" \/ g \in todo
    /\ pc \in {"reset", "resetting", "closed"} => todo = {}
    /\ pc \in {"nextDomain", "draining"} /\ ~errors => download[guid] # "active"
    /\ pc \in {"cancelling", "nextDomain", "draining"} => download[guid] # "none"

Clean == Placed /\ Truthful /\ Recorded /\ Configured /\ Effective /\ ResetSoFar /\ Drained

\* The inductive invariant: EventsReachTheirWait needs InOrder, SilentCleanup
\* the rest.
IInv == Sound /\ Clean

----------------------------------------------------------------------------
(* The connection.                                                        *)

\* The events under way are among those that were sent, so they are finitely many.
LEMMA FiniteFlight ==
  ASSUME Sound
  PROVE  /\ InFlight \subseteq 1 .. Len(log)
         /\ IsFiniteSet(InFlight) /\ Cardinality(InFlight) \in Nat
<1>1. Len(log) \in Nat /\ DOMAIN log = 1 .. Len(log)
  BY DEF Sound, EventsConserved, ConnectionTypeOK
<1>2. InFlight \subseteq 1 .. Len(log)
  BY <1>1 DEF Sound, EventsConserved
<1>3. IsFiniteSet(1 .. Len(log))
  BY <1>1, FS_Interval
<1>4. IsFiniteSet(InFlight)
  BY <1>2, <1>3, FS_Subset
<1> QED
  BY <1>2, <1>4, FS_CardinalityType

\* The first frame comes off the wire (CDPClient's receive): what is left keeps
\* its order, and an event that comes off is the oldest that was under way.
LEMMA HeadOff ==
  ASSUME Sound, wire # <<>>, wire' = Tail(wire)
  PROVE  /\ Head(wire) \in Frame /\ Head(wire) = wire[1] /\ 1 \in DOMAIN wire
         /\ wire' \in Seq(Frame) /\ Len(wire') = Len(wire) - 1
         /\ \A k \in DOMAIN wire' : k + 1 \in DOMAIN wire /\ wire'[k] = wire[k + 1]
         /\ InOrder'
         /\ IsEvent(Head(wire)) =>
               /\ Head(wire).n \in InFlight
               /\ InFlight' = InFlight \ {Head(wire).n}
               /\ Cardinality(InFlight') = Cardinality(InFlight) - 1
               /\ \A n \in InFlight' : Head(wire).n < n
         /\ ~IsEvent(Head(wire)) => InFlight' = InFlight
<1>1. wire \in Seq(Frame) /\ Len(wire) \in Nat \ {0} /\ DOMAIN wire = 1 .. Len(wire)
  BY EmptySeq DEF Sound, Sequences
<1>2. Head(wire) = wire[1] /\ 1 \in DOMAIN wire /\ Head(wire) \in Frame
  BY <1>1
<1>3. wire' \in Seq(Frame) /\ Len(wire') = Len(wire) - 1
      /\ \A k \in 1 .. Len(wire') : wire'[k] = wire[k + 1]
  BY <1>1, HeadTailProperties
<1>4. DOMAIN wire' = 1 .. Len(wire) - 1
  BY <1>1, <1>3
<1>5. \A k \in DOMAIN wire' : k + 1 \in DOMAIN wire /\ wire'[k] = wire[k + 1]
  BY <1>1, <1>3, <1>4
<1>6. \A k \in DOMAIN wire : k = 1 \/ (k - 1 \in DOMAIN wire' /\ wire'[k - 1] = wire[k])
  BY <1>1, <1>3, <1>4
<1>7. InOrder'
  <2> SUFFICES ASSUME NEW i \in DOMAIN wire', NEW j \in DOMAIN wire', i < j,
                      IsEvent(wire'[i]), IsEvent(wire'[j])
               PROVE  wire'[i].n < wire'[j].n
    BY DEF InOrder, IsEvent
  <2>1. i + 1 < j + 1 /\ i + 1 \in DOMAIN wire /\ j + 1 \in DOMAIN wire
    BY <1>4, <1>5
  <2> QED
    BY <1>5, <2>1 DEF Sound, InOrder
<1>8. InFlight' \subseteq InFlight
  BY <1>5 DEF InFlight, IsEvent
<1>9. \A n \in InFlight : n \in InFlight' \/ (IsEvent(Head(wire)) /\ n = Head(wire).n)
  BY <1>2, <1>6 DEF InFlight, IsEvent
<1>10. ASSUME IsEvent(Head(wire))
       PROVE  /\ Head(wire).n \in InFlight
              /\ InFlight' = InFlight \ {Head(wire).n}
              /\ Cardinality(InFlight') = Cardinality(InFlight) - 1
              /\ \A n \in InFlight' : Head(wire).n < n
  <2>1. Head(wire).n \in InFlight /\ Head(wire).n \in Nat
    BY <1>2, <1>10 DEF InFlight, Frame
  <2>2. \A n \in InFlight' : Head(wire).n < n
    <3> SUFFICES ASSUME NEW k \in DOMAIN wire', IsEvent(wire'[k])
                 PROVE  Head(wire).n < wire'[k].n
      BY DEF InFlight, IsEvent
    <3>1. 1 < k + 1 /\ k + 1 \in DOMAIN wire
      BY <1>4, <1>5
    <3> QED
      BY <1>2, <1>5, <1>10, <3>1 DEF Sound, InOrder
  <2>3. Head(wire).n \notin InFlight'
    BY <2>1, <2>2
  <2>4. InFlight' = InFlight \ {Head(wire).n}
    BY <1>8, <1>9, <2>3
  <2>5. Cardinality(InFlight') = Cardinality(InFlight) - 1
    BY <2>1, <2>4, FiniteFlight, FS_RemoveElement
  <2> QED
    BY <2>1, <2>2, <2>4, <2>5
<1>11. ~IsEvent(Head(wire)) => InFlight' = InFlight
  BY <1>8, <1>9
<1> QED
  BY <1>2, <1>3, <1>5, <1>7, <1>10, <1>11

\* A frame less on the wire leaves the numbers in order.
LEMMA StaysNumbered ==
  ASSUME Sound, wire # <<>>, wire' = Tail(wire), UNCHANGED <<requests, nextId>>, call' \in {0, call}
  PROVE  Numbered'
<1>1. \A k \in DOMAIN wire' : k + 1 \in DOMAIN wire /\ wire'[k] = wire[k + 1]
  BY HeadOff
<1> QED
  BY <1>1 DEF Sound, Numbered, IsEvent

\* What a match asks of an event that was sent does not change.
LEMMA SameMatch ==
  ASSUME NEW n, NEW want, log' = log
  PROVE  EventMatches(n, want)' = EventMatches(n, want)
BY DEF EventMatches, EventParamsMatch

\* Whoever reads a frame that is not for him (command, wait_for_event or
\* pump_pending_events) puts an event at the end of the buffer.
LEMMA BufferingKeeps ==
  ASSUME Sound, wire # <<>>, wire' = Tail(wire),
         events' = IF IsEvent(Head(wire)) THEN Append(events, Head(wire).n) ELSE events,
         UNCHANGED <<log, requests, peer, nextId, call, taken>>
  PROVE  Sound'
<1>1. Sequences'
  BY HeadOff DEF Sound, Sequences
<1>2. InOrder'
  BY HeadOff
<1>3. Numbered'
  BY StaysNumbered
<1>4. OldestMatchFirst'
  BY DEF Sound, OldestMatchFirst, EventMatches, EventParamsMatch
<1>5. EventsConserved'
  <2> DEFINE h == Head(wire).n
  <2>0. HandedOut' = HandedOut
    BY DEF HandedOut
  <2>1. CASE IsEvent(Head(wire))
    <3>1. events' = Append(events, h) /\ h \in InFlight /\ InFlight' = InFlight \ {h}
          /\ Cardinality(InFlight') = Cardinality(InFlight) - 1
          /\ \A n \in InFlight' : h < n
      BY <2>1, HeadOff
    <3>2. h \in DOMAIN log
      BY <3>1 DEF Sound, EventsConserved
    <3>3. events \in Seq(DOMAIN log) /\ events' \in Seq(DOMAIN log) /\ Len(events) \in Nat
          /\ Len(events') = Len(events) + 1 /\ DOMAIN events = 1 .. Len(events)
          /\ DOMAIN events' = 1 .. Len(events) + 1
          /\ events'[Len(events) + 1] = h
          /\ \A i \in 1 .. Len(events) : events'[i] = events[i]
      BY <3>1, <3>2 DEF Sound, EventsConserved, ConnectionTypeOK
    <3>4. Buffered' = Buffered \cup {h}
      BY <3>3 DEF Buffered, Range
    <3>5. \A m \in Buffered : m < h
      BY <3>1 DEF Sound, EventsConserved
    <3>6. ConnectionTypeOK'
      BY <1>1, <2>0, <3>3 DEF Sound, EventsConserved, ConnectionTypeOK, Sequences, Frame
    <3>7. (DOMAIN log = InFlight \cup Buffered \cup HandedOut)'
      BY <2>0, <3>1, <3>4 DEF Sound, EventsConserved
    <3>8. (Len(taken) + Len(events) + Cardinality(InFlight) = Len(log))'
      <4>1. Len(taken) \in Nat /\ Cardinality(InFlight) \in Nat
        BY FiniteFlight DEF Sound, Sequences
      <4>2. Len(taken) + Len(events) + Cardinality(InFlight) = Len(log)
        BY DEF Sound, EventsConserved
      <4> QED
        BY <3>1, <3>3, <4>1, <4>2
    <3>9. (\A i, j \in DOMAIN events : i < j => events[i] < events[j])'
      <4>1. \A i \in 1 .. Len(events) : events[i] \in Buffered
        BY <3>3 DEF Buffered, Range
      <4> QED
        BY <3>3, <3>5, <4>1 DEF Sound, EventsConserved
    <3>10. (\A n \in InFlight, m \in Buffered : m < n)'
      BY <3>1, <3>4 DEF Sound, EventsConserved
    <3> QED
      BY <3>6, <3>7, <3>8, <3>9, <3>10 DEF EventsConserved
  <2>2. CASE ~IsEvent(Head(wire))
    <3>1. events' = events /\ InFlight' = InFlight /\ Buffered' = Buffered
      BY <2>2, HeadOff DEF Buffered
    <3>2. ConnectionTypeOK'
      BY <1>1, <2>0, <3>1 DEF Sound, EventsConserved, ConnectionTypeOK, Sequences, Frame
    <3> QED
      BY <2>0, <3>1, <3>2 DEF Sound, EventsConserved
  <2> QED
    BY <2>1, <2>2
<1> QED
  BY <1>1, <1>2, <1>3, <1>4, <1>5 DEF Sound

\* command() sees its answer.
LEMMA AnsweredKeeps ==
  ASSUME Sound, NEW ok, CommandAnswered(ok)
  PROVE  Sound'
<1> USE DEF CommandAnswered
<1>0. wire # <<>> /\ wire' = Tail(wire) /\ ~IsEvent(Head(wire))
  BY DEF IsMyAnswer
<1>1. Sequences'
  BY <1>0, HeadOff DEF Sound, Sequences
<1>2. InOrder'
  BY <1>0, HeadOff
<1>3. Numbered'
  BY <1>0, StaysNumbered
<1>4. OldestMatchFirst'
  BY DEF Sound, OldestMatchFirst, EventMatches, EventParamsMatch
<1>5. EventsConserved'
  <2>1. InFlight' = InFlight /\ Buffered' = Buffered /\ HandedOut' = HandedOut
    BY <1>0, HeadOff DEF Buffered, HandedOut
  <2>2. ConnectionTypeOK'
    BY <1>1, <2>1 DEF Sound, EventsConserved, ConnectionTypeOK, Sequences, Frame
  <2> QED
    BY <2>1, <2>2 DEF Sound, EventsConserved
<1> QED
  BY <1>1, <1>2, <1>3, <1>4, <1>5 DEF Sound

\* command() ends without an answer.
LEMMA BreaksKeeps ==
  ASSUME Sound, CommandBreaks
  PROVE  Sound'
<1> USE DEF CommandBreaks
<1>1. InFlight' = InFlight /\ Buffered' = Buffered /\ HandedOut' = HandedOut
  BY DEF InFlight, Buffered, HandedOut
<1>2. EventsConserved'
  BY <1>1 DEF Sound, EventsConserved, ConnectionTypeOK
<1>3. OldestMatchFirst'
  BY DEF Sound, OldestMatchFirst, EventMatches, EventParamsMatch
<1>4. Sequences' /\ InOrder' /\ Numbered'
  BY DEF Sound, Sequences, InOrder, Numbered
<1> QED
  BY <1>2, <1>3, <1>4 DEF Sound

\* A step that does not touch the connection.
LEMMA QuietKeeps ==
  ASSUME Sound, UNCHANGED connection
  PROVE  Sound'
<1> USE DEF connection
<1>1. InFlight' = InFlight /\ Buffered' = Buffered /\ HandedOut' = HandedOut
  BY DEF InFlight, Buffered, HandedOut
<1>2. EventsConserved'
  BY <1>1 DEF Sound, EventsConserved, ConnectionTypeOK
<1>3. OldestMatchFirst'
  BY DEF Sound, OldestMatchFirst, EventMatches, EventParamsMatch
<1>4. Sequences' /\ InOrder' /\ Numbered'
  BY DEF Sound, Sequences, InOrder, Numbered
<1> QED
  BY <1>2, <1>3, <1>4 DEF Sound

\* One more event is handed out, to a wait to which every older event that
\* matches had been handed before.
LEMMA HandingOut ==
  ASSUME Sound, NEW n \in DOMAIN log, NEW want \in Wants,
         taken' = Append(taken, [n |-> n, want |-> want]), log' = log,
         \A m \in 1 .. n - 1 : EventMatches(m, want) => m \in HandedOut
  PROVE  /\ taken' \in Seq(Handed) /\ Len(taken') = Len(taken) + 1 /\ Len(taken) \in Nat
         /\ HandedOut' = HandedOut \cup {n}
         /\ OldestMatchFirst'
<1>0. n \in Nat \ {0}
  BY DEF Sound, EventsConserved, ConnectionTypeOK
<1>1. [n |-> n, want |-> want] \in Handed
  BY <1>0 DEF Handed
<1>2. taken \in Seq(Handed) /\ taken' \in Seq(Handed) /\ Len(taken') = Len(taken) + 1 /\ Len(taken) \in Nat
      /\ DOMAIN taken = 1 .. Len(taken) /\ DOMAIN taken' = 1 .. Len(taken) + 1
      /\ taken'[Len(taken) + 1] = [n |-> n, want |-> want]
      /\ \A k \in 1 .. Len(taken) : taken'[k] = taken[k]
  BY <1>1 DEF Sound, Sequences
<1>3. HandedOut' = HandedOut \cup {n}
  BY <1>2 DEF HandedOut
<1>4. OldestMatchFirst'
  <2> SUFFICES ASSUME NEW k \in DOMAIN taken', NEW m \in 1 .. taken'[k].n - 1,
                      EventMatches(m, taken[k].want)'
               PROVE  \E i \in 1 .. k - 1 : taken'[i].n = m
    BY DEF OldestMatchFirst
  <2>0. EventMatches(m, taken'[k].want)
    BY DEF EventMatches, EventParamsMatch
  <2>1. CASE k = Len(taken) + 1
    <3>1. m \in HandedOut
      BY <1>2, <2>0, <2>1
    <3>2. PICK i \in DOMAIN taken : taken[i].n = m
      BY <3>1 DEF HandedOut
    <3>3. i \in 1 .. k - 1 /\ taken'[i].n = m
      BY <1>2, <2>1, <3>2
    <3> QED
      BY <3>3
  <2>2. CASE k # Len(taken) + 1
    <3>1. k \in 1 .. Len(taken) /\ k \in DOMAIN taken /\ taken'[k] = taken[k]
      BY <1>2, <2>2
    <3>2. PICK i \in 1 .. k - 1 : taken[i].n = m
      BY <2>0, <3>1 DEF Sound, OldestMatchFirst
    <3>3. taken'[i].n = m
      BY <1>2, <3>1, <3>2
    <3> QED
      BY <3>3
  <2> QED
    BY <2>1, <2>2
<1> QED
  BY <1>2, <1>3, <1>4

\* wait_for_event() reads the event it waits for off the socket.
LEMMA WaitReadsKeeps ==
  ASSUME Sound, NEW want \in Wants, WaitReads(want)
  PROVE  /\ Sound'
         /\ \E n \in DOMAIN log : HandedOut' = HandedOut \cup {n} /\ taken'[Len(taken')].n = n
<1> DEFINE h == Head(wire).n
<1>0. /\ wire # <<>> /\ wire' = Tail(wire) /\ IsEvent(Head(wire)) /\ Matching(want) = {}
      /\ taken' = Append(taken, [n |-> h, want |-> want])
      /\ UNCHANGED <<log, requests, peer, nextId, call, events>>
  BY DEF WaitReads
<1>1. h \in InFlight /\ InFlight' = InFlight \ {h} /\ wire' \in Seq(Frame) /\ InOrder'
      /\ \A n \in InFlight' : h < n
  BY <1>0, HeadOff
<1>2. h \in DOMAIN log /\ DOMAIN log = 1 .. Len(log) /\ Len(log) \in Nat
  BY <1>1 DEF Sound, EventsConserved, ConnectionTypeOK
<1>3. ASSUME NEW m \in 1 .. h - 1, EventMatches(m, want)
      PROVE  m \in HandedOut
  <2>1. m \in DOMAIN log /\ m < h /\ m \in Nat /\ h \in Nat
    BY <1>2
  <2>2. m \notin InFlight
    <3>1. m # h /\ ~(h < m)
      BY <2>1
    <3> QED
      BY <1>1, <3>1
  <2>3. m \notin Buffered
    BY <1>0, <1>3 DEF Buffered, Range, Matching
  <2> QED
    BY <2>1, <2>2, <2>3 DEF Sound, EventsConserved
<1>4. taken' = Append(taken, [n |-> h, want |-> want]) /\ log' = log
  BY <1>0
<1>5. taken' \in Seq(Handed) /\ Len(taken') = Len(taken) + 1 /\ Len(taken) \in Nat
      /\ HandedOut' = HandedOut \cup {h} /\ OldestMatchFirst'
  BY <1>2, <1>3, <1>4, HandingOut
<1>6. Sequences'
  BY <1>0, <1>1, <1>5 DEF Sound, Sequences
<1>7. Numbered'
  BY <1>0, StaysNumbered
<1>8. EventsConserved'
  <2>0. Buffered' = Buffered
    BY <1>0 DEF Buffered
  <2>1. ConnectionTypeOK'
    <3>1. HandedOut' \subseteq DOMAIN log'
      BY <1>0, <1>2, <1>5 DEF Sound, EventsConserved, ConnectionTypeOK
    <3>2. \A k \in DOMAIN wire' : wire'[k] \in Frame
      BY <1>1
    <3> QED
      BY <1>0, <3>1, <3>2 DEF Sound, EventsConserved, ConnectionTypeOK, Frame
  <2>2. (DOMAIN log = InFlight \cup Buffered \cup HandedOut)'
    BY <1>0, <1>1, <1>2, <1>5, <2>0 DEF Sound, EventsConserved
  <2>3. (Len(taken) + Len(events) + Cardinality(InFlight) = Len(log))'
    <3>1. Cardinality(InFlight) \in Nat /\ Cardinality(InFlight') = Cardinality(InFlight) - 1
      BY <1>0, FiniteFlight, HeadOff
    <3>2. Len(taken) + Len(events) + Cardinality(InFlight) = Len(log) /\ Len(events) \in Nat
      BY DEF Sound, EventsConserved, ConnectionTypeOK
    <3> QED
      BY <1>0, <1>5, <3>1, <3>2
  <2>4. (\A n \in InFlight, m \in Buffered : m < n)'
    BY <1>1, <2>0 DEF Sound, EventsConserved
  <2> QED
    BY <1>0, <2>1, <2>2, <2>3, <2>4 DEF Sound, EventsConserved
<1>9. taken'[Len(taken')].n = h
  BY <1>0, <1>5 DEF Sound, Sequences
<1> QED
  BY <1>1, <1>2, <1>5, <1>6, <1>7, <1>8, <1>9 DEF Sound

\* Taking one place out of the buffer takes out that event and keeps the order.
LEMMA TakenOut ==
  ASSUME Sound, NEW k \in DOMAIN events, events' = RemoveAt(events, k), log' = log
  PROVE  /\ events' \in Seq(DOMAIN log) /\ Len(events') + 1 = Len(events)
         /\ \A i, j \in DOMAIN events' : i < j => events'[i] < events'[j]
         /\ Buffered' = Buffered \ {events[k]}
<1> DEFINE front == SubSeq(events, 1, k - 1)
           rest  == SubSeq(events, k + 1, Len(events))
           L     == Len(events)
<1>0. events \in Seq(DOMAIN log)
  BY DEF Sound, EventsConserved, ConnectionTypeOK
<1>1. events \in Seq(DOMAIN log) /\ L \in Nat /\ k \in 1 .. L /\ DOMAIN events = 1 .. L
      /\ \A i \in 1 .. L : events[i] \in DOMAIN log
  BY <1>0
<1>2. front \in Seq(DOMAIN log) /\ Len(front) = k - 1 /\ \A i \in 1 .. k - 1 : front[i] = events[i]
  <2>1. 1 \in Int /\ k - 1 \in Int /\ \A i \in 1 .. k - 1 : events[i] \in DOMAIN log
    BY <1>1
  <2>2. /\ front \in Seq(DOMAIN log)
        /\ Len(front) = IF 1 <= k - 1 THEN k - 1 - 1 + 1 ELSE 0
        /\ \A i \in 1 .. k - 1 - 1 + 1 : front[i] = events[1 + i - 1]
    BY <2>1, SubSeqProperties
  <2> QED
    BY <1>1, <2>2
<1>3. rest \in Seq(DOMAIN log) /\ Len(rest) = L - k /\ \A i \in 1 .. L - k : rest[i] = events[k + i]
  <2>1. L \in Int /\ k + 1 \in Int /\ \A i \in k + 1 .. L : events[i] \in DOMAIN log
    BY <1>1
  <2>2. /\ rest \in Seq(DOMAIN log)
        /\ Len(rest) = IF k + 1 <= L THEN L - (k + 1) + 1 ELSE 0
        /\ \A i \in 1 .. L - (k + 1) + 1 : rest[i] = events[k + 1 + i - 1]
    BY <2>1, SubSeqProperties
  <2> QED
    BY <1>1, <2>2
<1>4. events' = front \o rest
  BY DEF RemoveAt
<1> HIDE DEF front, rest
<1>5. /\ events' \in Seq(DOMAIN log)
      /\ Len(events') = L - 1
      /\ \A i \in 1 .. L - 1 : events'[i] = IF i < k THEN events[i] ELSE events[i + 1]
  <2>1. /\ front \o rest \in Seq(DOMAIN log)
        /\ Len(front \o rest) = Len(front) + Len(rest)
        /\ \A i \in 1 .. Len(front) + Len(rest) : (front \o rest)[i] =
               IF i <= Len(front) THEN front[i] ELSE rest[i - Len(front)]
    BY <1>2, <1>3, ConcatProperties
  <2>2. Len(front) + Len(rest) = L - 1
    BY <1>1, <1>2, <1>3
  <2>3. ASSUME NEW i \in 1 .. L - 1
        PROVE  events'[i] = IF i < k THEN events[i] ELSE events[i + 1]
    <3>1. CASE i < k
      <4>1. i \in 1 .. k - 1 /\ i <= Len(front)
        BY <1>1, <1>2, <3>1
      <4> QED
        BY <1>2, <1>4, <2>1, <2>2, <3>1, <4>1
    <3>2. CASE ~(i < k)
      <4>1. i - Len(front) \in 1 .. L - k /\ ~(i <= Len(front)) /\ k + (i - Len(front)) = i + 1
        BY <1>1, <1>2, <3>2
      <4> QED
        BY <1>3, <1>4, <2>1, <2>2, <3>2, <4>1
    <3> QED
      BY <3>1, <3>2
  <2> QED
    BY <1>4, <2>1, <2>2, <2>3
<1>6. DOMAIN events' = 1 .. L - 1
  BY <1>1, <1>5
<1>7. \A i, j \in 1 .. L : i < j => events[i] < events[j]
  BY <1>1 DEF Sound, EventsConserved
<1>8. \A i, j \in DOMAIN events' : i < j => events'[i] < events'[j]
  <2> SUFFICES ASSUME NEW i \in 1 .. L - 1, NEW j \in 1 .. L - 1, i < j
               PROVE  events'[i] < events'[j]
    BY <1>6
  <2>1. PICK p \in 1 .. L : events'[i] = events[p] /\ p = IF i < k THEN i ELSE i + 1
    BY <1>1, <1>5
  <2>2. PICK q \in 1 .. L : events'[j] = events[q] /\ q = IF j < k THEN j ELSE j + 1
    BY <1>1, <1>5
  <2>3. p < q
    BY <1>1, <2>1, <2>2
  <2> QED
    BY <1>7, <2>1, <2>2, <2>3
<1>9. Buffered' = Buffered \ {events[k]}
  <2>1. \A i \in 1 .. L - 1 : \E p \in 1 .. L : events'[i] = events[p] /\ p # k
    BY <1>1, <1>5
  <2>2. \A p \in 1 .. L : p # k => \E i \in 1 .. L - 1 : events'[i] = events[p]
    <3> SUFFICES ASSUME NEW p \in 1 .. L, p # k
                 PROVE  \E i \in 1 .. L - 1 : events'[i] = events[p]
      OBVIOUS
    <3>1. CASE p < k
      BY <1>1, <1>5, <3>1
    <3>2. CASE p > k
      <4>1. p - 1 \in 1 .. L - 1 /\ ~(p - 1 < k) /\ (p - 1) + 1 = p
        BY <1>1, <3>2
      <4>2. events'[p - 1] = events[p]
        BY <1>5, <4>1
      <4> QED
        BY <4>1, <4>2
    <3> QED
      BY <1>1, <3>1, <3>2
  <2>3. \A p \in 1 .. L : p # k => events[p] # events[k]
    <3> SUFFICES ASSUME NEW p \in 1 .. L, p # k
                 PROVE  events[p] # events[k]
      OBVIOUS
    <3>1. p < k \/ k < p
      BY <1>1
    <3>2. events[p] < events[k] \/ events[k] < events[p]
      BY <1>1, <1>7, <3>1
    <3>3. events[p] \in Nat /\ events[k] \in Nat
      BY <1>1 DEF Sound, EventsConserved, ConnectionTypeOK
    <3> QED
      BY <3>2, <3>3
  <2>4. Buffered = {events[p] : p \in 1 .. L} /\ Buffered' = {events'[i] : i \in 1 .. L - 1}
    BY <1>1, <1>6 DEF Buffered, Range
  <2>5. Buffered' \subseteq Buffered \ {events[k]}
    BY <2>1, <2>3, <2>4
  <2>6. Buffered \ {events[k]} \subseteq Buffered'
    BY <2>2, <2>4
  <2> QED
    BY <2>5, <2>6
<1> QED
  BY <1>1, <1>5, <1>8, <1>9

\* wait_for_event() finds what it waits for in the buffer.
LEMMA WaitFindsKeeps ==
  ASSUME Sound, NEW want \in Wants, WaitFindsBuffered(want)
  PROVE  /\ Sound'
         /\ \E n \in DOMAIN log : HandedOut' = HandedOut \cup {n} /\ taken'[Len(taken')].n = n
<1> USE DEF WaitFindsBuffered
<1>1. PICK k \in Matching(want) :
        /\ \A j \in Matching(want) : k <= j
        /\ events' = RemoveAt(events, k)
        /\ taken' = Append(taken, [n |-> events[k], want |-> want])
  OBVIOUS
<1>2. UNCHANGED <<log, wire, requests, peer, nextId, call>>
  OBVIOUS
<1> DEFINE h == events[k]
<1>3. k \in DOMAIN events /\ DOMAIN events = 1 .. Len(events) /\ Len(events) \in Nat
      /\ h \in DOMAIN log /\ h \in Buffered
  BY DEF Matching, Sound, EventsConserved, ConnectionTypeOK, Buffered, Range
<1>4. /\ events' \in Seq(DOMAIN log) /\ Len(events') + 1 = Len(events)
      /\ \A i, j \in DOMAIN events' : i < j => events'[i] < events'[j]
      /\ Buffered' = Buffered \ {h}
  BY <1>1, <1>2, <1>3, TakenOut
<1>5. InFlight' = InFlight
  BY <1>2 DEF InFlight, IsEvent
<1>6. ASSUME NEW m \in 1 .. h - 1, EventMatches(m, want)
      PROVE  m \in HandedOut
  <2>1. m \in DOMAIN log /\ m < h /\ h \in Nat
    BY <1>3 DEF Sound, EventsConserved, ConnectionTypeOK
  <2>2. m \notin InFlight
    <3>1. ~(h < m)
      BY <2>1
    <3> QED
      BY <1>3, <3>1 DEF Sound, EventsConserved
  <2>3. ASSUME m \in Buffered
        PROVE  FALSE
    <3>1. PICK j \in DOMAIN events : events[j] = m
      BY <2>3 DEF Buffered, Range
    <3>2. j \in Matching(want)
      BY <1>6, <3>1 DEF Matching
    <3>3. k <= j /\ j # k
      BY <1>1, <2>1, <3>1, <3>2
    <3>4. k < j
      BY <1>3, <3>3
    <3>5. h < m
      BY <1>3, <3>1, <3>4 DEF Sound, EventsConserved
    <3> QED
      BY <2>1, <3>5
  <2> QED
    BY <2>1, <2>2, <2>3 DEF Sound, EventsConserved
<1>7. taken' \in Seq(Handed) /\ Len(taken') = Len(taken) + 1 /\ Len(taken) \in Nat
      /\ HandedOut' = HandedOut \cup {h} /\ OldestMatchFirst'
  BY <1>1, <1>2, <1>3, <1>6, HandingOut
<1>8. Sequences'
  BY <1>2, <1>7 DEF Sound, Sequences
<1>9. Numbered' /\ InOrder'
  BY <1>2 DEF Sound, Numbered, InOrder, IsEvent
<1>10. EventsConserved'
  <2>1. ConnectionTypeOK'
    BY <1>2, <1>3, <1>4, <1>7 DEF Sound, EventsConserved, ConnectionTypeOK
  <2>2. (DOMAIN log = InFlight \cup Buffered \cup HandedOut)'
    BY <1>2, <1>3, <1>4, <1>5, <1>7 DEF Sound, EventsConserved
  <2>3. (Len(taken) + Len(events) + Cardinality(InFlight) = Len(log))'
    <3>1. Cardinality(InFlight) \in Nat
      BY FiniteFlight
    <3>2. Len(taken) + Len(events) + Cardinality(InFlight) = Len(log)
      BY DEF Sound, EventsConserved
    <3>3. Len(events') \in Nat
      BY <1>4
    <3>4. Cardinality(InFlight') = Cardinality(InFlight) /\ Len(log') = Len(log)
      BY <1>2, <1>5
    <3>5. Len(events') + 1 = Len(events) /\ Len(events) \in Nat /\ Len(taken') = Len(taken) + 1 /\ Len(taken) \in Nat
      BY <1>3, <1>4, <1>7
    <3> QED
      BY <3>1, <3>2, <3>3, <3>4, <3>5
  <2>4. (\A n \in InFlight, m \in Buffered : m < n)'
    BY <1>4, <1>5 DEF Sound, EventsConserved
  <2> QED
    BY <1>4, <2>1, <2>2, <2>3, <2>4 DEF EventsConserved
<1>11. taken'[Len(taken')].n = h
  BY <1>1, <1>7 DEF Sound, Sequences
<1> QED
  BY <1>3, <1>7, <1>8, <1>9, <1>10, <1>11 DEF Sound

\* The engine sends an event.
LEMMA EmitKeeps ==
  ASSUME Sound, NEW e, Emit(e)
  PROVE  /\ Sound' /\ HandedOut' = HandedOut
         /\ log' = Append(log, e) /\ log \in Seq(Event) /\ e \in Event
         /\ DOMAIN log' = DOMAIN log \cup {Len(log) + 1}
         /\ \A n \in DOMAIN log : log'[n] = log[n]
         /\ log'[Len(log) + 1] = e
<1> DEFINE L == Len(log)
           f == EventFrame(L + 1)
<1>0. /\ e \in Event /\ Len(log) < MaxEvents
      /\ log' = Append(log, e) /\ wire' = Append(wire, f)
      /\ UNCHANGED <<requests, peer, nextId, call, events, taken>>
  BY DEF Emit
<1>1. log \in Seq(Event) /\ L \in Nat /\ DOMAIN log = 1 .. L /\ log' \in Seq(Event)
      /\ Len(log') = L + 1 /\ DOMAIN log' = 1 .. L + 1 /\ log'[L + 1] = e
      /\ \A n \in 1 .. L : log'[n] = log[n]
  <2>1. log \in Seq(Event)
    BY DEF Sound, EventsConserved, ConnectionTypeOK
  <2> QED
    BY <1>0, <2>1
<1>2. f \in Frame /\ IsEvent(f) /\ f.n = L + 1
  BY <1>1 DEF EventFrame, Frame, IsEvent
<1>3. wire \in Seq(Frame) /\ wire' = Append(wire, f) /\ wire' \in Seq(Frame) /\ Len(wire) \in Nat
      /\ DOMAIN wire = 1 .. Len(wire) /\ DOMAIN wire' = 1 .. Len(wire) + 1
      /\ wire'[Len(wire) + 1] = f /\ \A k \in 1 .. Len(wire) : wire'[k] = wire[k]
  BY <1>0, <1>2 DEF Sound, Sequences
<1> HIDE DEF f
<1>4. InFlight' = InFlight \cup {L + 1}
  BY <1>2, <1>3 DEF InFlight, IsEvent
<1>5. InFlight \subseteq 1 .. L /\ IsFiniteSet(InFlight) /\ Cardinality(InFlight) \in Nat
  BY FiniteFlight
<1>6. L + 1 \notin InFlight
  BY <1>1, <1>5
<1>7. Buffered' = Buffered /\ HandedOut' = HandedOut
  BY <1>0 DEF Buffered, HandedOut
<1>8. Sequences'
  BY <1>0, <1>3 DEF Sound, Sequences
<1>9. InOrder'
  <2> SUFFICES ASSUME NEW i \in DOMAIN wire', NEW j \in DOMAIN wire', i < j,
                      IsEvent(wire'[i]), IsEvent(wire'[j])
               PROVE  wire'[i].n < wire'[j].n
    BY DEF InOrder, IsEvent
  <2>1. i \in DOMAIN wire /\ wire'[i] = wire[i]
    <3>1. i # Len(wire) + 1
      BY <1>3
    <3> QED
      BY <1>3, <3>1
  <2>2. CASE j = Len(wire) + 1
    <3>1. IsEvent(wire[i])
      BY <2>1
    <3>2. wire[i].n \in InFlight
      BY <2>1, <3>1 DEF InFlight
    <3>3. wire[i].n \in 1 .. L
      BY <1>5, <3>2
    <3>4. wire[i].n < L + 1
      BY <1>1, <3>3
    <3> QED
      BY <1>2, <1>3, <2>1, <2>2, <3>4
  <2>3. CASE j # Len(wire) + 1
    <3>1. j \in DOMAIN wire /\ wire'[j] = wire[j]
      BY <1>3, <2>3
    <3> QED
      BY <2>1, <3>1 DEF Sound, InOrder
  <2> QED
    BY <2>2, <2>3
<1>10. Numbered'
  <2>1. \A k \in DOMAIN wire' : ~IsEvent(wire'[k]) => k \in DOMAIN wire /\ wire'[k] = wire[k]
    BY <1>2, <1>3
  <2> QED
    BY <1>0, <2>1 DEF Sound, Numbered, IsEvent
<1>11. OldestMatchFirst'
  <2> SUFFICES ASSUME NEW k \in DOMAIN taken, NEW n \in 1 .. taken[k].n - 1,
                      EventMatches(n, taken[k].want)'
               PROVE  \E i \in 1 .. k - 1 : taken[i].n = n
    BY <1>0 DEF OldestMatchFirst, EventMatches, EventParamsMatch
  <2>1. taken[k].n \in 1 .. L
    BY <1>1 DEF Sound, EventsConserved, ConnectionTypeOK, HandedOut
  <2>2. n \in 1 .. L
    BY <1>1, <2>1
  <2>3. EventMatches(n, taken[k].want)
    BY <1>0, <1>1, <2>2 DEF EventMatches, EventParamsMatch
  <2> QED
    BY <2>3 DEF Sound, OldestMatchFirst
<1>12. EventsConserved'
  <2>1. ConnectionTypeOK'
    <3>1. events' \in Seq(DOMAIN log')
      <4>1. events \in Seq(DOMAIN log) /\ DOMAIN log \subseteq DOMAIN log'
        BY <1>1 DEF Sound, EventsConserved, ConnectionTypeOK
      <4>2. events \in Seq(DOMAIN log')
        BY <4>1, SeqMonotonic
      <4> QED
        BY <1>0, <4>2
    <3>2. Len(log') <= MaxEvents
      BY <1>0, <1>1, CdpClientAssumption
    <3>3. HandedOut' \subseteq DOMAIN log'
      BY <1>1, <1>7 DEF Sound, EventsConserved, ConnectionTypeOK
    <3>4. \A k \in DOMAIN wire' : wire'[k] \in Frame
      BY <1>3
    <3>5. nextId' \in Nat \ {0} /\ call' \in 0 .. nextId' - 1 /\ peer' \in BOOLEAN
      BY <1>0 DEF Sound, EventsConserved, ConnectionTypeOK
    <3> QED
      BY <1>1, <3>1, <3>2, <3>3, <3>4, <3>5 DEF ConnectionTypeOK, Frame
  <2>2. (DOMAIN log = InFlight \cup Buffered \cup HandedOut)'
    <3>1. DOMAIN log' = DOMAIN log \cup {L + 1}
      BY <1>1
    <3> QED
      BY <1>4, <1>7, <3>1 DEF Sound, EventsConserved
  <2>3. (Len(taken) + Len(events) + Cardinality(InFlight) = Len(log))'
    <3>1. Cardinality(InFlight') = Cardinality(InFlight) + 1
      BY <1>4, <1>5, <1>6, FS_AddElement
    <3>2. Len(taken) + Len(events) + Cardinality(InFlight) = Len(log)
          /\ Len(events) \in Nat /\ Len(taken) \in Nat
      BY DEF Sound, EventsConserved, ConnectionTypeOK, Sequences
    <3>3. Len(log') = L + 1 /\ L \in Nat /\ taken' = taken /\ events' = events /\ Cardinality(InFlight) \in Nat
      BY <1>0, <1>1, <1>5
    <3> QED
      BY <3>1, <3>2, <3>3
  <2>4. (\A n \in InFlight, m \in Buffered : m < n)'
    <3>1. Buffered \subseteq 1 .. L
      BY <1>1 DEF Sound, EventsConserved
    <3> QED
      BY <1>1, <1>4, <1>7, <3>1 DEF Sound, EventsConserved
  <2> QED
    BY <1>0, <2>1, <2>2, <2>3, <2>4 DEF Sound, EventsConserved
<1>13. DOMAIN log' = DOMAIN log \cup {L + 1}
  BY <1>1
<1> QED
  BY <1>0, <1>1, <1>7, <1>8, <1>9, <1>10, <1>11, <1>12, <1>13 DEF Sound

\* The engine looks at the oldest request.
LEMMA ServeKeeps ==
  ASSUME Sound, NEW outcome, Serve(outcome)
  PROVE  Sound'
<1>0. /\ requests # <<>> /\ requests' = Tail(requests)
      /\ wire' = wire \/ wire' = Append(wire, Answer(Head(requests).id, outcome = "ok"))
      /\ UNCHANGED <<log, peer, nextId, call, events, taken>>
  BY DEF Serve
<1>1. requests \in Seq(Request) /\ requests # <<>> /\ Len(requests) \in Nat \ {0}
      /\ DOMAIN requests = 1 .. Len(requests) /\ Head(requests) = requests[1]
      /\ requests' \in Seq(Request) /\ DOMAIN requests' = 1 .. Len(requests) - 1
      /\ \A i \in 1 .. Len(requests) - 1 : requests'[i] = requests[i + 1]
  BY <1>0, EmptySeq, HeadTailProperties DEF Sound, Sequences
<1> DEFINE id == Head(requests).id
           f  == Answer(id, outcome = "ok")
<1>2. id \in Nat \ {0} /\ id < nextId /\ \A i \in DOMAIN requests' : id < requests'[i].id
  <2>1. id \in Nat \ {0} /\ id < nextId
    <3>1. 1 \in DOMAIN requests /\ requests[1] \in Request
      BY <1>1
    <3>2. requests[1].id < nextId
      BY <3>1 DEF Sound, Numbered
    <3> QED
      BY <1>1, <3>1, <3>2 DEF Request
  <2>2. ASSUME NEW i \in DOMAIN requests'
        PROVE  id < requests'[i].id
    <3>1. i + 1 \in DOMAIN requests /\ 1 \in DOMAIN requests /\ 1 < i + 1
      BY <1>1
    <3> QED
      BY <1>1, <3>1 DEF Sound, Numbered
  <2> QED
    BY <2>1, <2>2
<1>3. f.kind = "answer" /\ f.n = id /\ f.ok \in BOOLEAN /\ f \in Frame /\ ~IsEvent(f)
  BY <1>2 DEF Answer, Frame, IsEvent
<1>4. wire' = wire \/ wire' = Append(wire, f)
  BY <1>0
<1> HIDE DEF f, id
<1>5. /\ wire \in Seq(Frame) /\ wire' \in Seq(Frame) /\ Len(wire) \in Nat
      /\ DOMAIN wire = 1 .. Len(wire)
      /\ \A k \in DOMAIN wire : k \in DOMAIN wire' /\ wire'[k] = wire[k]
      /\ \A k \in DOMAIN wire' : (k \in DOMAIN wire /\ wire'[k] = wire[k])
                                   \/ (wire'[k] = f /\ k = Len(wire) + 1)
  <2>1. wire \in Seq(Frame) /\ Len(wire) \in Nat /\ DOMAIN wire = 1 .. Len(wire)
    BY DEF Sound, Sequences
  <2>2. CASE wire' = wire
    BY <2>1, <2>2
  <2>3. CASE wire' = Append(wire, f)
    BY <1>3, <2>1, <2>3
  <2> QED
    BY <1>4, <2>1, <2>2, <2>3
<1>6. InFlight' = InFlight
  <2>1. \A k \in DOMAIN wire' : IsEvent(wire'[k]) => k \in DOMAIN wire /\ wire'[k] = wire[k]
    BY <1>3, <1>5
  <2>2. InFlight' \subseteq InFlight
    BY <2>1 DEF InFlight, IsEvent
  <2>3. InFlight \subseteq InFlight'
    BY <1>5 DEF InFlight, IsEvent
  <2> QED
    BY <2>2, <2>3
<1>7. Buffered' = Buffered /\ HandedOut' = HandedOut
  BY <1>0 DEF Buffered, HandedOut
<1>8. Sequences'
  BY <1>0, <1>1, <1>5 DEF Sound, Sequences
<1>9. InOrder'
  BY <1>3, <1>5 DEF Sound, InOrder, IsEvent
<1>10. Numbered'
  <2>1. \A i \in DOMAIN requests' : i + 1 \in DOMAIN requests /\ requests'[i] = requests[i + 1]
    BY <1>1
  <2>2. \A i \in DOMAIN requests' : requests'[i].id < nextId
    BY <1>0, <2>1 DEF Sound, Numbered
  <2>3. ASSUME NEW i \in DOMAIN requests', NEW j \in DOMAIN requests', i < j
        PROVE  requests'[i].id < requests'[j].id
    <3>1. i + 1 < j + 1
      BY <1>1, <2>3
    <3> QED
      BY <2>1, <3>1 DEF Sound, Numbered
  <2>4. ASSUME NEW j \in DOMAIN wire', ~IsEvent(wire'[j])
        PROVE  wire'[j].n < nextId /\ \A i \in DOMAIN requests' : wire'[j].n < requests'[i].id
    <3>1. CASE j \in DOMAIN wire /\ wire'[j] = wire[j]
      BY <2>1, <2>4, <3>1 DEF Sound, Numbered
    <3>2. CASE wire'[j] = f
      BY <1>2, <1>3, <3>2
    <3> QED
      BY <1>5, <3>1, <3>2
  <2>5. call' # 0 => call' = nextId' - 1
    BY <1>0 DEF Sound, Numbered
  <2> QED
    BY <1>0, <2>2, <2>3, <2>4, <2>5 DEF Numbered, IsEvent
<1>11. OldestMatchFirst'
  BY <1>0 DEF Sound, OldestMatchFirst, EventMatches, EventParamsMatch
<1>12. EventsConserved'
  <2>1. ConnectionTypeOK'
    <3>1. \A k \in DOMAIN wire' : wire'[k] \in Frame
      BY <1>5
    <3> QED
      BY <1>0, <1>7, <3>1 DEF Sound, EventsConserved, ConnectionTypeOK, Frame
  <2> QED
    BY <1>0, <1>6, <1>7, <2>1 DEF Sound, EventsConserved
<1> QED
  BY <1>8, <1>9, <1>10, <1>11, <1>12 DEF Sound

\* The engine goes away.
LEMMA HangUpKeeps ==
  ASSUME Sound, HangUp
  PROVE  Sound'
<1> USE DEF HangUp
<1>1. InFlight' = InFlight /\ Buffered' = Buffered /\ HandedOut' = HandedOut
  BY DEF InFlight, Buffered, HandedOut
<1>2. EventsConserved'
  BY <1>1 DEF Sound, EventsConserved, ConnectionTypeOK
<1>3. OldestMatchFirst'
  BY DEF Sound, OldestMatchFirst, EventMatches, EventParamsMatch
<1>4. Sequences' /\ InOrder' /\ Numbered'
  BY DEF Sound, Sequences, InOrder, Numbered
<1> QED
  BY <1>2, <1>3, <1>4 DEF Sound

\* A command is sent, under a number no request or answer bears.
LEMMA SendKeeps ==
  ASSUME Sound, NEW cmd \in Cmds, SendCommand(cmd)
  PROVE  /\ Sound' /\ HandedOut' = HandedOut /\ call' # 0
         /\ \A r \in DOMAIN requests' :
               \/ r \in DOMAIN requests /\ requests'[r] = requests[r] /\ requests'[r].id # call'
               \/ requests'[r] = [id |-> call', cmd |-> cmd]
         /\ \A k \in DOMAIN wire' : ~IsEvent(wire'[k]) => wire'[k].n # call'
<1> USE DEF SendCommand
<1> DEFINE q == [id |-> nextId, cmd |-> cmd]
<1>1. nextId \in Nat \ {0} /\ q \in Request /\ q.id = nextId /\ q.cmd = cmd
  BY DEF Sound, EventsConserved, ConnectionTypeOK, Request
<1>2. requests' = requests \/ requests' = Append(requests, q)
  OBVIOUS
<1>3. call' = nextId /\ nextId' = nextId + 1 /\ UNCHANGED <<log, wire, peer, events, taken>>
  OBVIOUS
<1> HIDE DEF q
<1>4. requests \in Seq(Request) /\ requests' \in Seq(Request) /\ Len(requests) \in Nat
      /\ DOMAIN requests = 1 .. Len(requests)
      /\ \A r \in DOMAIN requests' : (r \in DOMAIN requests /\ requests'[r] = requests[r])
                                      \/ (requests'[r] = q /\ r = Len(requests) + 1)
  <2>1. requests \in Seq(Request) /\ Len(requests) \in Nat /\ DOMAIN requests = 1 .. Len(requests)
    BY DEF Sound, Sequences
  <2>2. CASE requests' = requests
    BY <2>1, <2>2
  <2>3. CASE requests' = Append(requests, q)
    BY <1>1, <2>1, <2>3
  <2> QED
    BY <1>2, <2>1, <2>2, <2>3
<1>5. \A r \in DOMAIN requests : requests[r].id \in Nat /\ requests[r].id < nextId
  <2>1. \A r \in DOMAIN requests : requests[r] \in Request
    BY <1>4
  <2>2. \A r \in DOMAIN requests : requests[r].id < nextId
    BY DEF Sound, Numbered
  <2> QED
    BY <2>1, <2>2 DEF Request
<1>6. \A k \in DOMAIN wire : ~IsEvent(wire[k]) => wire[k].n \in Nat /\ wire[k].n < nextId
  <2>1. \A k \in DOMAIN wire : wire[k] \in Frame
    BY DEF Sound, Sequences
  <2>2. \A k \in DOMAIN wire : ~IsEvent(wire[k]) => wire[k].n < nextId
    BY DEF Sound, Numbered
  <2> QED
    BY <2>1, <2>2 DEF Frame
<1>7. Numbered'
  <2>1. \A i \in DOMAIN requests' : requests'[i].id < nextId'
    BY <1>1, <1>3, <1>4, <1>5
  <2>2. ASSUME NEW i \in DOMAIN requests', NEW j \in DOMAIN requests', i < j
        PROVE  requests'[i].id < requests'[j].id
    <3>1. i \in DOMAIN requests /\ requests'[i] = requests[i]
      <4>1. i # Len(requests) + 1
        BY <1>4, <2>2
      <4> QED
        BY <1>4, <4>1
    <3>2. CASE j \in DOMAIN requests /\ requests'[j] = requests[j]
      BY <2>2, <3>1, <3>2 DEF Sound, Numbered
    <3>3. CASE requests'[j] = q
      BY <1>1, <1>5, <3>1, <3>3
    <3> QED
      BY <1>4, <3>2, <3>3
  <2>3. ASSUME NEW k \in DOMAIN wire', ~IsEvent(wire'[k])
        PROVE  wire'[k].n < nextId' /\ \A i \in DOMAIN requests' : wire'[k].n < requests'[i].id
    <3>1. k \in DOMAIN wire /\ wire'[k] = wire[k] /\ wire[k].n \in Nat /\ wire[k].n < nextId
      BY <1>3, <1>6, <2>3
    <3>2. wire'[k].n < nextId'
      BY <1>1, <1>3, <3>1
    <3>3. ASSUME NEW i \in DOMAIN requests'
          PROVE  wire'[k].n < requests'[i].id
      <4>1. CASE i \in DOMAIN requests /\ requests'[i] = requests[i]
        BY <1>3, <2>3, <3>1, <4>1 DEF Sound, Numbered
      <4>2. CASE requests'[i] = q
        BY <1>1, <3>1, <4>2
      <4> QED
        BY <1>4, <4>1, <4>2
    <3> QED
      BY <3>2, <3>3
  <2>4. call' # 0 => call' = nextId' - 1
    BY <1>1, <1>3
  <2> QED
    BY <2>1, <2>2, <2>3, <2>4 DEF Numbered, IsEvent
<1>8. InFlight' = InFlight /\ Buffered' = Buffered /\ HandedOut' = HandedOut
  BY <1>3 DEF InFlight, Buffered, HandedOut
<1>9. Sequences' /\ InOrder'
  BY <1>3, <1>4 DEF Sound, Sequences, InOrder
<1>10. OldestMatchFirst'
  BY <1>3 DEF Sound, OldestMatchFirst, EventMatches, EventParamsMatch
<1>11. EventsConserved'
  <2>1. nextId' \in Nat \ {0} /\ call' \in 0 .. nextId' - 1
    BY <1>1, <1>3
  <2>2. ConnectionTypeOK'
    BY <1>3, <1>8, <2>1 DEF Sound, EventsConserved, ConnectionTypeOK
  <2> QED
    BY <1>3, <1>8, <2>2 DEF Sound, EventsConserved
<1>12. \A r \in DOMAIN requests' :
               \/ r \in DOMAIN requests /\ requests'[r] = requests[r] /\ requests'[r].id # call'
               \/ requests'[r] = [id |-> call', cmd |-> cmd]
  BY <1>1, <1>3, <1>4, <1>5 DEF q
<1>13. \A k \in DOMAIN wire' : ~IsEvent(wire'[k]) => wire'[k].n # call'
  BY <1>1, <1>3, <1>6
<1> QED
  BY <1>1, <1>3, <1>7, <1>8, <1>9, <1>10, <1>11, <1>12, <1>13 DEF Sound

\* Once the answer to the command that waits is under way, nothing is left to
\* be looked at.
LEMMA NothingBehind ==
  ASSUME Sound, call # 0, NEW k \in DOMAIN wire, ~IsEvent(wire[k]), wire[k].n = call
  PROVE  requests = <<>>
<1>1. requests \in Seq(Request) /\ DOMAIN requests = 1 .. Len(requests) /\ Len(requests) \in Nat
  BY DEF Sound, Sequences
<1>2. ASSUME requests # <<>>
      PROVE  FALSE
  <2>1. 1 \in DOMAIN requests
    BY <1>1, <1>2, EmptySeq
  <2>2. call < requests[1].id /\ requests[1].id < nextId /\ call = nextId - 1
    BY <2>1 DEF Sound, Numbered
  <2>3. nextId \in Nat
    BY DEF Sound, EventsConserved, ConnectionTypeOK
  <2>4. requests[1] \in Request
    BY <1>1, <2>1
  <2>5. requests[1].id \in Nat
    BY <2>4 DEF Request
  <2> QED
    BY <2>2, <2>3, <2>5
<1> QED
  BY <1>2

----------------------------------------------------------------------------
(* The driver.                                                            *)

\* The two domains and the events that belong to them.
LEMMA DomainsKnown ==
  /\ BeginMethods = {"Browser.downloadWillBegin", "Page.downloadWillBegin"}
  /\ ProgressMethods = {"Browser.downloadProgress", "Page.downloadProgress"}
  /\ \A m \in BeginMethods : DOWNLOAD_BEGIN_EVENTS[m] \in Domains
  /\ \A m \in ProgressMethods : DOWNLOAD_PROGRESS_EVENTS[m] \in Domains
<1>1. BeginMethods = {"Browser.downloadWillBegin", "Page.downloadWillBegin"}
  BY DEF BeginMethods, DOWNLOAD_BEGIN_EVENTS
<1>2. ProgressMethods = {"Browser.downloadProgress", "Page.downloadProgress"}
  BY DEF ProgressMethods, DOWNLOAD_PROGRESS_EVENTS
<1>3. \A m \in BeginMethods : DOWNLOAD_BEGIN_EVENTS[m] \in Domains
  BY DEF BeginMethods, Domains, Range
<1>4. /\ DOWNLOAD_BEGIN_EVENTS["Browser.downloadWillBegin"] = "Browser"
      /\ DOWNLOAD_BEGIN_EVENTS["Page.downloadWillBegin"] = "Page"
  BY DEF DOWNLOAD_BEGIN_EVENTS
<1>5. /\ DOWNLOAD_PROGRESS_EVENTS["Browser.downloadProgress"] = "Browser"
      /\ DOWNLOAD_PROGRESS_EVENTS["Page.downloadProgress"] = "Page"
  BY DEF DOWNLOAD_PROGRESS_EVENTS
<1>6. \A m \in ProgressMethods : DOWNLOAD_PROGRESS_EVENTS[m] \in Domains
  BY <1>1, <1>2, <1>3, <1>4, <1>5
<1> QED
  BY <1>1, <1>2, <1>3, <1>6

\* An event about a download names one, and its domain is one of the two.
LEMMA EventTyped ==
  ASSUME Sound, NEW n \in DOMAIN log, IsDownloadEvent(n)
  PROVE  log[n].guid \in Guids /\ DomainOf(n) \in Domains
<1>1. log[n] \in EngineEvent
  BY RawCdpAssumption DEF Sound, EventsConserved, ConnectionTypeOK
<1>2. log[n].method \in BeginMethods \cup ProgressMethods
  BY DEF IsDownloadEvent
<1>3. log[n].guid \in Guids
  BY <1>1, <1>2, DomainsKnown DEF EngineEvent
<1>4. DomainOf(n) \in Domains
  BY <1>2, DomainsKnown DEF DomainOf
<1> QED
  BY <1>3, <1>4

\* A download that began never becomes one that did not, and its end is final.
Onward ==
    /\ download' \in [Guids -> {"none", "active"} \cup DOWNLOAD_TERMINAL_STATES]
    /\ \A g \in Guids :
          /\ download[g] # "none" => download'[g] # "none"
          /\ download[g] \in DOWNLOAD_TERMINAL_STATES => download'[g] = download[g]

\* What the books say stays true while downloads move on.
LEMMA BooksStay ==
  ASSUME Sound, Clean, Onward, UNCHANGED <<log, domains, terminal>>, HandedOut' = HandedOut
  PROVE  Truthful' /\ Recorded'
<1>1. \A n \in DOMAIN log : IsDownloadEvent(n) => log[n].guid \in Guids
  BY EventTyped
<1>2. terminal \subseteq Guids /\ \A n \in DOMAIN log : IsDownloadEvent(n)' = IsDownloadEvent(n)
  BY DEF Clean, Placed, TypeOK, IsDownloadEvent
<1>3. Truthful'
  BY <1>1, <1>2 DEF Clean, Truthful, Onward
<1>4. Recorded'
  BY <1>2 DEF Clean, Recorded, Sound, EventsConserved, ConnectionTypeOK, IsDownloadEvent
<1> QED
  BY <1>3, <1>4

\* A new event that is true when it is sent leaves the books true.
LEMMA BooksGrow ==
  ASSUME Sound, Clean, Onward, UNCHANGED <<domains, terminal>>, NEW e, Emit(e),
         e.method \in BeginMethods \cup ProgressMethods =>
            /\ download'[e.guid] # "none"
            /\ e.method \in ProgressMethods => download'[e.guid] \in DOWNLOAD_TERMINAL_STATES
  PROVE  Truthful' /\ Recorded'
<1>1. /\ HandedOut' = HandedOut
      /\ DOMAIN log' = DOMAIN log \cup {Len(log) + 1}
      /\ \A n \in DOMAIN log : log'[n] = log[n]
      /\ log'[Len(log) + 1] = e
  BY EmitKeeps
<1>2. \A n \in DOMAIN log : IsDownloadEvent(n) => log[n].guid \in Guids
  BY EventTyped
<1>3. \A n \in DOMAIN log : IsDownloadEvent(n)' = IsDownloadEvent(n)
  BY <1>1 DEF IsDownloadEvent
<1>4. ASSUME NEW n \in DOMAIN log', IsDownloadEvent(n)'
      PROVE  /\ download'[log'[n].guid] # "none"
             /\ log'[n].method \in ProgressMethods => download'[log'[n].guid] \in DOWNLOAD_TERMINAL_STATES
  <2>1. CASE n \in DOMAIN log
    BY <1>1, <1>2, <1>3, <1>4, <2>1 DEF Clean, Truthful, Onward
  <2>2. CASE n = Len(log) + 1
    BY <1>1, <1>4, <2>2 DEF IsDownloadEvent
  <2> QED
    BY <1>1, <2>1, <2>2
<1>5. /\ \A g \in Guids : domains'[g] # {} => download'[g] # "none"
      /\ \A g \in terminal' : download'[g] \in DOWNLOAD_TERMINAL_STATES
  BY DEF Clean, Truthful, Onward, Placed, TypeOK
<1>6. Truthful'
  BY <1>4, <1>5 DEF Truthful
<1>7. HandedOut \subseteq DOMAIN log
  BY DEF Sound, EventsConserved
<1>8. Recorded'
  BY <1>1, <1>3, <1>7 DEF Clean, Recorded
<1> QED
  BY <1>6, <1>8

\* record_download_lifecycle_event writes down what is true.
LEMMA ScanKeeps ==
  ASSUME Sound, Clean, NEW received \in SUBSET DOMAIN log, RecordLifecycle(received),
         UNCHANGED <<log, download>>, HandedOut' \subseteq HandedOut \cup received
  PROVE  /\ domains' \in [Guids -> SUBSET Domains] /\ terminal' \subseteq Guids
         /\ Truthful' /\ Recorded'
         /\ \A g \in Guids : domains[g] \subseteq domains'[g]
         /\ \A n \in received : IsDownloadEvent(n) => domains'[log[n].guid] # {}
<1>1. domains' = [g \in Guids |-> domains[g] \cup {DomainOf(n) : n \in {m \in received : Reports(m, g)}}]
  BY DEF RecordLifecycle
<1>2. terminal' = terminal \cup {g \in Guids : \E n \in received :
          Reports(n, g) /\ log[n].method \in ProgressMethods /\ log[n].state \in DOWNLOAD_TERMINAL_STATES}
  BY DEF RecordLifecycle
<1>3. \A n \in received : IsDownloadEvent(n) => log[n].guid \in Guids /\ DomainOf(n) \in Domains
  BY EventTyped
<1>4. domains \in [Guids -> SUBSET Domains] /\ terminal \subseteq Guids
  BY DEF Clean, Placed, TypeOK
<1>5. domains' \in [Guids -> SUBSET Domains]
  <2>1. ASSUME NEW g \in Guids
        PROVE  domains[g] \cup {DomainOf(n) : n \in {m \in received : Reports(m, g)}} \subseteq Domains
    <3>1. \A n \in received : Reports(n, g) => DomainOf(n) \in Domains
      BY <1>3 DEF Reports
    <3> QED
      BY <1>4, <3>1
  <2> QED
    BY <1>1, <2>1
<1>6. terminal' \subseteq Guids
  BY <1>2, <1>4
<1>7. \A g \in Guids : domains[g] \subseteq domains'[g]
  BY <1>1
<1>8. ASSUME NEW n \in received, IsDownloadEvent(n)
      PROVE  domains'[log[n].guid] # {}
  <2>1. log[n].guid \in Guids /\ Reports(n, log[n].guid)
    BY <1>3, <1>8 DEF Reports
  <2>2. DomainOf(n) \in domains'[log[n].guid]
    BY <1>1, <2>1
  <2> QED
    BY <2>2
<1>9. \A n \in DOMAIN log : IsDownloadEvent(n)' = IsDownloadEvent(n)
  BY DEF IsDownloadEvent
<1>10. Truthful'
  <2>1. ASSUME NEW g \in Guids, domains'[g] # {}
        PROVE  download[g] # "none"
    <3>1. CASE domains[g] # {}
      BY <3>1 DEF Clean, Truthful
    <3>2. CASE domains[g] = {}
      <4>1. PICK n \in received : Reports(n, g)
        BY <1>1, <2>1, <3>2
      <4> QED
        BY <4>1 DEF Reports, Clean, Truthful
    <3> QED
      BY <3>1, <3>2
  <2>2. ASSUME NEW g \in terminal'
        PROVE  download[g] \in DOWNLOAD_TERMINAL_STATES
    <3>1. CASE g \in terminal
      BY <3>1 DEF Clean, Truthful
    <3>2. CASE g \notin terminal
      <4>1. PICK n \in received : Reports(n, g) /\ log[n].method \in ProgressMethods
        BY <1>2, <2>2, <3>2
      <4> QED
        BY <4>1 DEF Reports, Clean, Truthful
    <3> QED
      BY <3>1, <3>2
  <2> QED
    BY <1>9, <2>1, <2>2 DEF Clean, Truthful
<1>11. Recorded'
  <2> SUFFICES ASSUME NEW n \in HandedOut', IsDownloadEvent(n)
               PROVE  domains'[log[n].guid] # {}
    BY DEF Recorded, IsDownloadEvent
  <2>1. CASE n \in received
    BY <1>8, <2>1
  <2>2. CASE n \in HandedOut
    <3>1. n \in DOMAIN log
      BY <2>2 DEF Sound, EventsConserved
    <3>2. log[n].guid \in Guids
      BY <3>1, EventTyped
    <3>3. domains[log[n].guid] # {}
      BY <2>2 DEF Clean, Recorded
    <3> QED
      BY <1>7, <3>2, <3>3
  <2> QED
    BY <2>1, <2>2
<1> QED
  BY <1>5, <1>6, <1>7, <1>8, <1>10, <1>11

\* Nothing an engine or a reader does behind the driver's back, but serving a
\* request, touches what the driver relies on.
Calm ==
    /\ UNCHANGED <<driver, known, call, custom, requests>> /\ Onward
    /\ \A k \in DOMAIN wire' : ~IsEvent(wire'[k]) => \E j \in DOMAIN wire : wire'[k] = wire[j]

LEMMA DrainedStays ==
  ASSUME Clean, Onward, UNCHANGED <<driver, known>>
  PROVE  Drained'
<1>1. /\ \A g \in Guids : download[g] # "none" /\ download[g] # "active" => download'[g] # "active"
      /\ \A g \in Guids : download[g] # "none" => download'[g] # "none"
      /\ known \subseteq Guids /\ todo \subseteq Guids
      /\ pc \in {"cancelling", "nextDomain", "draining"} => guid \in Guids
  BY DEF Clean, Placed, TypeOK, Onward, DOWNLOAD_TERMINAL_STATES
<1>2. UNCHANGED <<pc, errors, todo, guid, known>>
  BY DEF driver, drain
<1> QED
  BY <1>1, <1>2 DEF Clean, Drained, Drains

LEMMA CalmKeeps ==
  ASSUME Sound, Clean, Calm
  PROVE  Placed' /\ Configured' /\ Effective' /\ ResetSoFar' /\ Drained'
<1>1. /\ UNCHANGED <<pc, step, steps, child, configs, domains, terminal, todo, guid, toWait, place, errors>>
      /\ UNCHANGED <<known, call, custom, requests>>
  BY DEF Calm, driver, task, books, drain
<1>2. Placed'
  BY <1>1 DEF Calm, Onward, Clean, Placed, TypeOK
<1>3. Configured'
  BY <1>1 DEF Clean, Configured
<1>4. Answered(TRUE)' => Answered(TRUE)
  BY <1>1 DEF Calm, Answered, IsEvent
<1>5. Effective'
  <2>1. pc = "cancelling" => guid \in Guids
    BY DEF Clean, Placed
  <2>2. pc = "cancelling" => (Answered(TRUE) => download'[guid] # "active") /\ download'[guid] # "none"
    BY <2>1 DEF Clean, Effective, Calm, Onward, DOWNLOAD_TERMINAL_STATES, Placed, TypeOK
  <2>3. pc = "cancelling" => Waiting(Cmd("cancel", guid))'
    BY <1>1 DEF Clean, Effective, Waiting, Cmd
  <2>4. pc = "resetting" => Waiting(Cmd("reset", configs[place]))'
    BY <1>1 DEF Clean, Effective, Waiting, Cmd
  <2> QED
    BY <1>1, <1>4, <2>2, <2>3, <2>4 DEF Clean, Effective
<1>6. ResetSoFar'
  BY <1>1 DEF Clean, ResetSoFar, Behind, Settled, Cmd
<1>7. Drained'
  BY DrainedStays DEF Calm
<1> QED
  BY <1>2, <1>3, <1>5, <1>6, <1>7

\* A reader other than the one whose frame it is (CDPClient) and an engine that
\* goes away change nothing the attempt's invariant speaks of.
LEMMA PassKeeps ==
  ASSUME Sound, Clean, wire' = wire \/ (wire # <<>> /\ wire' = Tail(wire)),
         UNCHANGED <<log, requests, call, taken, driver, world>>
  PROVE  Clean'
<1>1. Onward
  BY DEF Onward, world, engine, Clean, Placed, TypeOK
<1>2. \A k \in DOMAIN wire' : \E j \in DOMAIN wire : wire'[k] = wire[j]
  BY HeadOff
<1>3. Calm
  BY <1>1, <1>2 DEF Calm, world, engine
<1>4. UNCHANGED <<log, domains, terminal>> /\ HandedOut' = HandedOut
  BY DEF driver, books, HandedOut
<1> QED
  BY <1>1, <1>3, <1>4, CalmKeeps, BooksStay DEF Clean

\* A command reads a frame that is not its answer.
LEMMA ReadPastFrameKeeps ==
  ASSUME IInv, ReadPastFrame
  PROVE  IInv'
<1> USE DEF IInv
<1>1. /\ wire # <<>> /\ wire' = Tail(wire)
      /\ events' = IF IsEvent(Head(wire)) THEN Append(events, Head(wire).n) ELSE events
      /\ UNCHANGED <<log, requests, peer, nextId, call, taken, driver, world>>
  BY DEF ReadPastFrame, CommandPasses
<1>2. Sound'
  BY <1>1, BufferingKeeps
<1>3. Clean'
  BY <1>1, PassKeeps
<1> QED
  BY <1>2, <1>3

\* wait_for_event() reads a frame it does not wait for.
LEMMA WaitContinuesKeeps ==
  ASSUME IInv, WaitContinues
  PROVE  IInv'
<1> USE DEF IInv
<1>1. /\ wire # <<>> /\ wire' = Tail(wire)
      /\ events' = IF IsEvent(Head(wire)) THEN Append(events, Head(wire).n) ELSE events
      /\ UNCHANGED <<log, requests, peer, nextId, call, taken, driver, world>>
  BY DEF WaitContinues, WaitPasses
<1>2. Sound'
  BY <1>1, BufferingKeeps
<1>3. Clean'
  BY <1>1, PassKeeps
<1> QED
  BY <1>2, <1>3

\* pump_pending_events() reads a frame.
LEMMA PumpKeeps ==
  ASSUME IInv, Pump
  PROVE  IInv'
<1> USE DEF IInv
<1>1. /\ wire # <<>> /\ wire' = Tail(wire)
      /\ events' = IF IsEvent(Head(wire)) THEN Append(events, Head(wire).n) ELSE events
      /\ UNCHANGED <<log, requests, peer, nextId, call, taken, driver, world>>
  BY DEF Pump, PumpReads
<1>2. Sound'
  BY <1>1, BufferingKeeps
<1>3. Clean'
  BY <1>1, PassKeeps
<1> QED
  BY <1>2, <1>3

\* A wait of the cleanup reads a frame it does not wait for.
LEMMA DrainContinuesKeeps ==
  ASSUME IInv, DrainContinues
  PROVE  IInv'
<1> USE DEF IInv
<1>1. /\ wire # <<>> /\ wire' = Tail(wire)
      /\ events' = IF IsEvent(Head(wire)) THEN Append(events, Head(wire).n) ELSE events
      /\ UNCHANGED <<log, requests, peer, nextId, call, taken, driver, world>>
  BY DEF DrainContinues, WaitPasses
<1>2. Sound'
  BY <1>1, BufferingKeeps
<1>3. Clean'
  BY <1>1, PassKeeps
<1> QED
  BY <1>2, <1>3

\* The engine goes away.
LEMMA EngineHangsUpKeeps ==
  ASSUME IInv, EngineHangsUp
  PROVE  IInv'
<1> USE DEF IInv
<1>1. Sound'
  BY HangUpKeeps DEF EngineHangsUp
<1>2. Clean'
  BY PassKeeps DEF EngineHangsUp, HangUp
<1> QED
  BY <1>1, <1>2

\* Sending an event puts no answer on the wire.
LEMMA EmittedFrame ==
  ASSUME Sound, NEW e, Emit(e)
  PROVE  \A k \in DOMAIN wire' : ~IsEvent(wire'[k]) => \E j \in DOMAIN wire : wire'[k] = wire[j]
<1>1. wire' = Append(wire, EventFrame(Len(log) + 1)) /\ IsEvent(EventFrame(Len(log) + 1))
  BY DEF Emit, EventFrame, IsEvent
<1>2. wire \in Seq(Frame) /\ Len(log) \in Nat
  BY DEF Sound, Sequences, EventsConserved, ConnectionTypeOK
<1>3. EventFrame(Len(log) + 1) \in Frame
  BY <1>2 DEF EventFrame, Frame
<1>4. \A k \in DOMAIN wire' : (k \in DOMAIN wire /\ wire'[k] = wire[k]) \/ wire'[k] = EventFrame(Len(log) + 1)
  BY <1>1, <1>2, <1>3
<1> QED
  BY <1>1, <1>4

\* A download begins and is announced.
LEMMA BeginDownloadKeeps ==
  ASSUME IInv, NEW g \in Guids, NEW m \in BeginMethods, BeginDownload(g, m)
  PROVE  IInv'
<1> USE DEF IInv
<1> DEFINE e == [method |-> m, guid |-> g]
<1>1. /\ Emit(e) /\ UNCHANGED <<driver, known, custom>>
      /\ download[g] = "none" /\ download' = [download EXCEPT ![g] = "active"]
  BY DEF BeginDownload, EngineEmits
<1>2. Onward
  BY <1>1 DEF Onward, Clean, Placed, TypeOK, DOWNLOAD_TERMINAL_STATES
<1>3. e.method \in BeginMethods \cup ProgressMethods =>
            /\ download'[e.guid] # "none"
            /\ e.method \in ProgressMethods => download'[e.guid] \in DOWNLOAD_TERMINAL_STATES
  <2>1. e.method \notin ProgressMethods /\ e.guid = g
    BY DomainsKnown
  <2>2. download'[g] = "active"
    BY <1>1 DEF Clean, Placed, TypeOK
  <2> QED
    BY <2>1, <2>2
<1>4. Calm
  <2>1. UNCHANGED <<requests, call>>
    BY <1>1 DEF Emit
  <2>2. \A k \in DOMAIN wire' : ~IsEvent(wire'[k]) => \E j \in DOMAIN wire : wire'[k] = wire[j]
    BY <1>1, EmittedFrame
  <2> QED
    BY <1>1, <1>2, <2>1, <2>2 DEF Calm
<1>5. UNCHANGED <<domains, terminal>>
  BY <1>1 DEF driver, books
<1>6. Truthful' /\ Recorded'
  BY <1>1, <1>2, <1>3, <1>5, BooksGrow
<1>7. Sound'
  BY <1>1, EmitKeeps
<1> QED
  BY <1>4, <1>6, <1>7, CalmKeeps DEF Clean

\* A download is announced in the other domain too.
LEMMA AnnounceAgainKeeps ==
  ASSUME IInv, NEW g \in Guids, NEW m \in BeginMethods, AnnounceAgain(g, m)
  PROVE  IInv'
<1> USE DEF IInv
<1> DEFINE e == [method |-> m, guid |-> g]
<1>1. /\ Emit(e) /\ UNCHANGED <<driver, known, custom>>
      /\ download[g] = "active" /\ download' = download
  BY DEF AnnounceAgain, EngineEmits, engine
<1>2. Onward
  BY <1>1 DEF Onward, Clean, Placed, TypeOK
<1>3. e.method \in BeginMethods \cup ProgressMethods =>
            /\ download'[e.guid] # "none"
            /\ e.method \in ProgressMethods => download'[e.guid] \in DOWNLOAD_TERMINAL_STATES
  <2>1. e.method \notin ProgressMethods /\ e.guid = g
    BY DomainsKnown
  <2> QED
    BY <1>1, <2>1
<1>4. Calm
  <2>1. UNCHANGED <<requests, call>>
    BY <1>1 DEF Emit
  <2>2. \A k \in DOMAIN wire' : ~IsEvent(wire'[k]) => \E j \in DOMAIN wire : wire'[k] = wire[j]
    BY <1>1, EmittedFrame
  <2> QED
    BY <1>1, <1>2, <2>1, <2>2 DEF Calm
<1>5. UNCHANGED <<domains, terminal>>
  BY <1>1 DEF driver, books
<1>6. Truthful' /\ Recorded'
  BY <1>1, <1>2, <1>3, <1>5, BooksGrow
<1>7. Sound'
  BY <1>1, EmitKeeps
<1> QED
  BY <1>4, <1>6, <1>7, CalmKeeps DEF Clean

\* The end of a download is reported.
LEMMA ReportEndKeeps ==
  ASSUME IInv, NEW g \in Guids, NEW m \in ProgressMethods, ReportEnd(g, m)
  PROVE  IInv'
<1> USE DEF IInv
<1> DEFINE e == [method |-> m, guid |-> g, state |-> download[g]]
<1>1. /\ Emit(e) /\ UNCHANGED <<driver, known, custom>>
      /\ download[g] \in DOWNLOAD_TERMINAL_STATES /\ download' = download
  BY DEF ReportEnd, EngineEmits, engine
<1>2. Onward
  BY <1>1 DEF Onward, Clean, Placed, TypeOK
<1>3. e.method \in BeginMethods \cup ProgressMethods =>
            /\ download'[e.guid] # "none"
            /\ e.method \in ProgressMethods => download'[e.guid] \in DOWNLOAD_TERMINAL_STATES
  <2>1. e.guid = g
    OBVIOUS
  <2> QED
    BY <1>1, <2>1 DEF DOWNLOAD_TERMINAL_STATES
<1>4. Calm
  <2>1. UNCHANGED <<requests, call>>
    BY <1>1 DEF Emit
  <2>2. \A k \in DOMAIN wire' : ~IsEvent(wire'[k]) => \E j \in DOMAIN wire : wire'[k] = wire[j]
    BY <1>1, EmittedFrame
  <2> QED
    BY <1>1, <1>2, <2>1, <2>2 DEF Calm
<1>5. UNCHANGED <<domains, terminal>>
  BY <1>1 DEF driver, books
<1>6. Truthful' /\ Recorded'
  BY <1>1, <1>2, <1>3, <1>5, BooksGrow
<1>7. Sound'
  BY <1>1, EmitKeeps
<1> QED
  BY <1>4, <1>6, <1>7, CalmKeeps DEF Clean

\* A target is reported.
LEMMA ReportAttachedKeeps ==
  ASSUME IInv, NEW e \in Event, ReportAttached(e)
  PROVE  IInv'
<1> USE DEF IInv
<1>1. /\ Emit(e) /\ UNCHANGED <<driver, known, custom>>
      /\ e.method = "Target.attachedToTarget" /\ download' = download
  BY DEF ReportAttached, EngineEmits, engine
<1>2. Onward
  BY <1>1 DEF Onward, Clean, Placed, TypeOK
<1>3. e.method \notin BeginMethods \cup ProgressMethods
  BY <1>1, DomainsKnown
<1>4. Calm
  <2>1. UNCHANGED <<requests, call>>
    BY <1>1 DEF Emit
  <2>2. \A k \in DOMAIN wire' : ~IsEvent(wire'[k]) => \E j \in DOMAIN wire : wire'[k] = wire[j]
    BY <1>1, EmittedFrame
  <2> QED
    BY <1>1, <1>2, <2>1, <2>2 DEF Calm
<1>5. UNCHANGED <<domains, terminal>>
  BY <1>1 DEF driver, books
<1>6. Truthful' /\ Recorded'
  BY <1>1, <1>2, <1>3, <1>5, BooksGrow
<1>7. Sound'
  BY <1>1, EmitKeeps
<1> QED
  BY <1>4, <1>6, <1>7, CalmKeeps DEF Clean

\* A download comes to its end.
LEMMA CompleteDownloadKeeps ==
  ASSUME IInv, NEW g \in Guids, CompleteDownload(g)
  PROVE  IInv'
<1> USE DEF IInv
<1>1. /\ download[g] = "active" /\ download' = [download EXCEPT ![g] = "completed"]
      /\ UNCHANGED <<connection, driver, custom, known>>
  BY DEF CompleteDownload
<1>2. Onward
  BY <1>1 DEF Onward, Clean, Placed, TypeOK, DOWNLOAD_TERMINAL_STATES
<1>3. Calm
  BY <1>1, <1>2 DEF Calm, connection
<1>4. UNCHANGED <<log, domains, terminal>> /\ HandedOut' = HandedOut
  BY <1>1 DEF driver, books, HandedOut, connection
<1>5. Sound'
  BY <1>1, QuietKeeps
<1> QED
  BY <1>2, <1>3, <1>4, <1>5, CalmKeeps, BooksStay DEF Clean

\* The engine looks at a request: it may answer what it did not do, do what it
\* does not answer, and do nothing.
LEMMA EngineServesKeeps ==
  ASSUME IInv, NEW outcome \in {"ok", "error", "silent"}, EngineServes(outcome)
  PROVE  IInv'
<1> USE DEF IInv
<1> DEFINE cmd == Head(requests).cmd
           id  == Head(requests).id
<1>0. /\ requests # <<>> /\ requests' = Tail(requests)
      /\ wire' = IF outcome = "silent" THEN wire ELSE Append(wire, Answer(id, outcome = "ok"))
      /\ UNCHANGED <<log, peer, nextId, call, events, taken, driver, known>>
      /\ IF outcome = "error" THEN UNCHANGED engine ELSE Effect(cmd)
      /\ pc \notin {"closed", "failed"}
  BY DEF EngineServes, Serve, Ended
<1>00. /\ UNCHANGED <<pc, step, steps, child, configs, domains, terminal, todo, guid, toWait, place, errors>>
  BY <1>0 DEF driver, task, books, drain
<1>1. Sound'
  BY ServeKeeps DEF EngineServes
<1>2. /\ requests \in Seq(Request) /\ 1 \in DOMAIN requests /\ Head(requests) = requests[1]
      /\ cmd = requests[1].cmd /\ id = requests[1].id /\ cmd \in Cmds
      /\ \A r \in DOMAIN requests' : r + 1 \in DOMAIN requests /\ requests'[r] = requests[r + 1]
  <2>1. requests \in Seq(Request) /\ requests # <<>>
    BY <1>0 DEF Sound, Sequences
  <2>2. 1 \in DOMAIN requests /\ Head(requests) = requests[1] /\ requests[1] \in Request
    BY <2>1, EmptySeq
  <2>3. \A r \in DOMAIN requests' : r + 1 \in DOMAIN requests /\ requests'[r] = requests[r + 1]
    BY <1>0, <2>1, HeadTailProperties
  <2>4. requests[1].cmd \in Cmds
    BY <2>2 DEF Request
  <2> QED
    BY <2>1, <2>2, <2>3, <2>4
<1> HIDE DEF cmd, id
<1>3. \/ UNCHANGED <<custom, download>> /\ (outcome = "ok" => cmd.op = "other")
      \/ \E k \in Keys : cmd = Cmd("configure", k) /\ custom' = custom \cup {k} /\ download' = download
      \/ \E k \in Keys : cmd = Cmd("reset", k) /\ custom' = custom \ {k} /\ download' = download
      \/ \E g \in Guids : /\ cmd = Cmd("cancel", g) /\ custom' = custom
                          /\ download' = [download EXCEPT ![g] = IF @ = "active" THEN "canceled" ELSE @]
  <2>1. CASE outcome = "error"
    BY <1>0, <2>1 DEF engine
  <2>2. CASE outcome # "error"
    <3>0. Effect(cmd)
      BY <1>0, <2>2
    <3>1. CASE \E k \in Keys : cmd = Cmd("configure", k)
      BY <3>0, <3>1 DEF Effect, Cmd
    <3>2. CASE \E k \in Keys : cmd = Cmd("reset", k)
      BY <3>0, <3>2 DEF Effect, Cmd
    <3>3. CASE \E g \in Guids : cmd = Cmd("cancel", g)
      BY <3>0, <3>3 DEF Effect, Cmd
    <3>4. CASE cmd = Cmd("other", "none")
      BY <3>0, <3>4 DEF Effect, Cmd, engine
    <3> QED
      BY <1>2, <3>1, <3>2, <3>3, <3>4 DEF Cmds
  <2> QED
    BY <2>1, <2>2
<1>4. Onward
  <2>1. download \in [Guids -> {"none", "active"} \cup DOWNLOAD_TERMINAL_STATES]
    BY DEF Clean, Placed, TypeOK
  <2>2. CASE download' = download
    BY <2>1, <2>2 DEF Onward
  <2>3. ASSUME NEW g \in Guids, download' = [download EXCEPT ![g] = IF @ = "active" THEN "canceled" ELSE @]
        PROVE  Onward
    BY <2>1, <2>3 DEF Onward, DOWNLOAD_TERMINAL_STATES
  <2> QED
    BY <1>3, <2>2, <2>3
<1>5. Placed'
  <2>1. custom' \subseteq Keys
    BY <1>3 DEF Clean, Placed, TypeOK
  <2> QED
    BY <1>0, <1>00, <1>4, <2>1 DEF Clean, Placed, TypeOK, Onward
<1>6. Truthful' /\ Recorded'
  <2>1. HandedOut' = HandedOut
    BY <1>0 DEF HandedOut
  <2> QED
    BY <1>0, <1>00, <1>4, <2>1, BooksStay
<1>7. Configured'
  <2>1. \A r \in DOMAIN requests' : requests'[r].cmd.op = "configure" =>
            \E i \in DOMAIN configs : configs[i] = requests'[r].cmd.arg
    BY <1>2 DEF Clean, Configured
  <2>2. \A k \in custom' : \E i \in DOMAIN configs : configs[i] = k
    <3>1. \A k \in Keys : cmd = Cmd("configure", k) => \E i \in DOMAIN configs : configs[i] = k
      <4>1. \A k \in Keys : Cmd("configure", k).op = "configure" /\ Cmd("configure", k).arg = k
        BY DEF Cmd
      <4>2. cmd.op = "configure" => \E i \in DOMAIN configs : configs[i] = cmd.arg
        BY <1>2 DEF Clean, Configured
      <4> QED
        BY <4>1, <4>2
    <3> QED
      BY <1>3, <3>1 DEF Clean, Configured
  <2> QED
    BY <1>00, <2>1, <2>2 DEF Configured
<1>8. Effective'
  <2>1. ASSUME Answered(TRUE)', call # 0
        PROVE  Answered(TRUE) \/ (id = call /\ outcome = "ok")
    <3>1. PICK k \in DOMAIN wire' : ~IsEvent(wire'[k]) /\ wire'[k].n = call /\ wire'[k].ok = TRUE
      BY <1>0, <2>1 DEF Answered, IsEvent
    <3>2. wire \in Seq(Frame)
      BY DEF Sound, Sequences
    <3>3. CASE k \in DOMAIN wire /\ wire'[k] = wire[k]
      BY <3>1, <3>3 DEF Answered
    <3>4. CASE wire'[k] = Answer(id, outcome = "ok")
      <4>1. wire'[k].n = id /\ wire'[k].ok = (outcome = "ok")
        BY <3>4 DEF Answer
      <4>2. id = call
        BY <3>1, <4>1
      <4>3. ASSUME outcome # "ok"
            PROVE  FALSE
        <5>1. (outcome = "ok") = FALSE
          BY <4>3
        <5> QED
          BY <3>1, <4>1, <5>1
      <4> QED
        BY <4>2, <4>3
    <3>5. id \in Nat \ {0}
      <4>1. requests[1] \in Request
        BY <1>2
      <4> QED
        BY <1>2, <4>1 DEF Request
    <3>6. Answer(id, outcome = "ok") \in Frame
      BY <3>5 DEF Answer, Frame
    <3>7. (k \in DOMAIN wire /\ wire'[k] = wire[k]) \/ wire'[k] = Answer(id, outcome = "ok")
      <4>1. CASE wire' = wire
        BY <4>1
      <4>2. CASE wire' = Append(wire, Answer(id, outcome = "ok"))
        BY <3>2, <3>6, <4>2
      <4> QED
        BY <1>0, <4>1, <4>2
    <3> QED
      BY <3>3, <3>4, <3>7
  <2>2. ASSUME call # 0, Answered(TRUE)
        PROVE  FALSE
    BY <1>0, <2>2, NothingBehind DEF Answered
  <2>3. \A c : Waiting(c) => Waiting(c)'
    BY <1>0, <1>2 DEF Waiting
  <2>4. \A c : Waiting(c) /\ id = call => cmd = c
    BY <1>2 DEF Waiting
  <2>5. ASSUME pc = "cancelling"
        PROVE  /\ call' # 0 /\ Waiting(Cmd("cancel", guid))'
               /\ download'[guid] # "none"
               /\ Answered(TRUE)' => download'[guid] # "active"
    <3>1. /\ call # 0 /\ Waiting(Cmd("cancel", guid)) /\ download[guid] # "none" /\ guid \in Guids
          /\ download \in [Guids -> {"none", "active"} \cup DOWNLOAD_TERMINAL_STATES]
      BY <2>5 DEF Clean, Effective, Placed, TypeOK
    <3>2. Waiting(Cmd("cancel", guid))'
      BY <1>00, <2>3, <3>1 DEF Cmd, Waiting
    <3>3. ASSUME Answered(TRUE)'
          PROVE  download'[guid] # "active"
      <4>1. id = call /\ outcome = "ok" /\ cmd = Cmd("cancel", guid)
        BY <2>1, <2>2, <2>4, <3>1, <3>3
      <4>2. download' = [download EXCEPT ![guid] = IF @ = "active" THEN "canceled" ELSE @]
        BY <1>3, <4>1 DEF Cmd
      <4> QED
        BY <3>1, <4>2
    <3> QED
      BY <1>0, <1>4, <3>1, <3>2, <3>3 DEF Onward
  <2>6. ASSUME pc = "resetting"
        PROVE  /\ call' # 0 /\ Waiting(Cmd("reset", configs[place]))'
               /\ Answered(TRUE)' => configs[place] \notin custom'
    <3>1. call # 0 /\ Waiting(Cmd("reset", configs[place]))
      BY <2>6 DEF Clean, Effective
    <3>2. Waiting(Cmd("reset", configs[place]))'
      BY <1>00, <2>3, <3>1 DEF Cmd, Waiting
    <3>3. ASSUME Answered(TRUE)'
          PROVE  configs[place] \notin custom'
      <4>1. id = call /\ outcome = "ok" /\ cmd = Cmd("reset", configs[place])
        BY <2>1, <2>2, <2>4, <3>1, <3>3
      <4>2. custom' = custom \ {configs[place]}
        BY <1>3, <4>1 DEF Cmd
      <4> QED
        BY <4>2
    <3> QED
      BY <1>0, <3>1, <3>2, <3>3
  <2> QED
    BY <1>00, <2>5, <2>6 DEF Effective
<1>9. ResetSoFar'
  <2>1. ASSUME NEW k, Settled(k)
        PROVE  Settled(k)'
    <3>1. \A r \in DOMAIN requests' : requests'[r].cmd # Cmd("configure", k)
      BY <1>2, <2>1 DEF Settled
    <3>2. cmd # Cmd("configure", k)
      BY <1>2, <2>1 DEF Settled
    <3>3. k \notin custom'
      BY <1>3, <2>1, <3>2 DEF Settled
    <3> QED
      BY <3>1, <3>3 DEF Settled, Cmd
  <2>2. Behind' = Behind
    BY <1>00 DEF Behind
  <2> QED
    BY <1>0, <1>00, <2>1, <2>2 DEF Clean, ResetSoFar
<1>10. Drained'
  BY <1>0, <1>4, DrainedStays
<1> QED
  BY <1>1, <1>5, <1>6, <1>7, <1>8, <1>9, <1>10 DEF Clean


\* Between the page and the cleanup nothing is asked of the driver but that
\* its books are right.
Early == {"open", "prelude", "steps", "waiting"}

LEMMA EarlyMoves ==
  ASSUME IInv, pc \in Early, pc' \in {"prelude", "steps", "waiting", "cleanup", "failed"},
         UNCHANGED <<connection, child, configs, books, drain, world>>, steps' \in 0 .. MaxSteps,
         pc' = "waiting" => step' \in Steps /\ step'.kind = "wait"
  PROVE  IInv'
<1> USE DEF IInv
<1>1. /\ UNCHANGED <<child, configs, domains, terminal, todo, guid, toWait, place, errors, custom, download, known>>
      /\ UNCHANGED <<log, wire, requests, peer, nextId, call, events, taken>>
  BY DEF books, drain, world, engine, connection
<1>2. Sound'
  BY QuietKeeps
<1>3. Placed'
  BY <1>1 DEF Clean, Placed, TypeOK, Early, Sending
<1>4. Onward
  BY <1>1 DEF Onward, Clean, Placed, TypeOK
<1>5. Truthful' /\ Recorded'
  <2>1. HandedOut' = HandedOut
    BY <1>1 DEF HandedOut
  <2> QED
    BY <1>1, <1>4, <2>1, BooksStay
<1>6. Configured'
  BY <1>1 DEF Clean, Configured
<1>7. Effective' /\ ResetSoFar'
  BY DEF Effective, ResetSoFar
<1>8. Drained'
  BY <1>1 DEF Clean, Drained, Drains
<1> QED
  BY <1>2, <1>3, <1>5, <1>6, <1>7, <1>8 DEF Clean

\* The page is opened, or not.
LEMMA OpenPageKeeps ==
  ASSUME IInv, OpenPage
  PROVE  IInv'
<1>1. steps \in 0 .. MaxSteps
  BY DEF IInv, Clean, Placed, TypeOK
<1> QED
  BY <1>1, RawCdpAssumption, EarlyMoves DEF OpenPage, Early, task

\* The page is brought to the task's start.
LEMMA PreludeKeeps ==
  ASSUME IInv, Prelude
  PROVE  IInv'
<1>1. steps \in 0 .. MaxSteps
  BY DEF IInv, Clean, Placed, TypeOK
<1> QED
  BY <1>1, RawCdpAssumption, EarlyMoves DEF Prelude, Early, task

\* A wait of the task begins.
LEMMA BeginWaitKeeps ==
  ASSUME IInv, NEW s \in Steps, BeginWait(s)
  PROVE  IInv'
<1>1. steps \in 0 .. MaxSteps
  BY DEF IInv, Clean, Placed, TypeOK
<1> QED
  BY <1>1, RawCdpAssumption, EarlyMoves DEF BeginWait, BeginStep, Early, task

\* A step names a session nobody saved.
LEMMA StepRaisesKeeps ==
  ASSUME IInv, NEW s \in Steps, StepRaises(s)
  PROVE  IInv'
<1>1. steps \in 0 .. MaxSteps
  BY DEF IInv, Clean, Placed, TypeOK
<1> QED
  BY <1>1, RawCdpAssumption, EarlyMoves DEF StepRaises, BeginStep, Early, task

\* The steps are done.
LEMMA FinishStepsKeeps ==
  ASSUME IInv, FinishSteps
  PROVE  IInv'
<1>1. steps \in 0 .. MaxSteps
  BY DEF IInv, Clean, Placed, TypeOK
<1> QED
  BY <1>1, RawCdpAssumption, EarlyMoves DEF FinishSteps, Early, task

\* A wait of the task runs out or finds the connection gone.
LEMMA WaitFailsKeeps ==
  ASSUME IInv, WaitFails
  PROVE  IInv'
<1>1. steps \in 0 .. MaxSteps
  BY DEF IInv, Clean, Placed, TypeOK
<1> QED
  BY <1>1, RawCdpAssumption, EarlyMoves DEF WaitFails, WaitExpires, WaitBreaks, Early, task

\* A command of the task is sent; a download configuration is in the books
\* before it is on its way.
LEMMA BeginCommandKeeps ==
  ASSUME IInv, NEW s \in Steps, BeginCommand(s)
  PROVE  IInv'
<1> USE DEF IInv
<1> DEFINE cmd == Cmd(IF s.configures = "none" THEN "other" ELSE "configure", s.configures)
<1>1. /\ s.kind = "command" /\ pc = "steps" /\ steps < MaxSteps /\ steps' = steps + 1 /\ step' = s
      /\ configs' = IF s.configures = "none" THEN configs ELSE Append(configs, s.configures)
      /\ SendCommand(cmd) /\ pc' = "commanding"
      /\ UNCHANGED <<child, domains, terminal, todo, guid, toWait, place, errors, custom, download, known>>
  BY DEF BeginCommand, BeginStep, Send, books, drain, world, engine
<1>2. s.configures \in Keys \cup {"none"}
  BY <1>1, RawCdpAssumption DEF Step
<1>3. cmd \in Cmds
  BY <1>2 DEF Cmds
<1>4. Sound' /\ HandedOut' = HandedOut
      /\ \A r \in DOMAIN requests' :
               \/ r \in DOMAIN requests /\ requests'[r] = requests[r]
               \/ requests'[r] = [id |-> call', cmd |-> cmd]
  BY <1>1, <1>3, SendKeeps
<1>5. /\ configs \in Seq(Keys) /\ configs' \in Seq(Keys) /\ Len(configs) \in Nat
      /\ Len(configs') \in Nat /\ Len(configs) <= Len(configs')
      /\ \A i \in DOMAIN configs : i \in DOMAIN configs' /\ configs'[i] = configs[i]
      /\ s.configures # "none" => \E i \in DOMAIN configs' : configs'[i] = s.configures
  <2>1. configs \in Seq(Keys) /\ Len(configs) \in Nat
    BY DEF Clean, Placed, TypeOK
  <2>2. CASE s.configures = "none"
    BY <1>1, <2>1, <2>2
  <2>3. CASE s.configures # "none"
    <3>1. configs' = Append(configs, s.configures) /\ s.configures \in Keys
      BY <1>1, <1>2, <2>3
    <3>2. Len(configs') = Len(configs) + 1 /\ Len(configs) + 1 \in DOMAIN configs'
          /\ configs'[Len(configs) + 1] = s.configures
      BY <2>1, <3>1
    <3> QED
      BY <2>1, <3>1, <3>2
  <2> QED
    BY <2>2, <2>3
<1> HIDE DEF cmd
<1>6. Placed'
  <2>1. place' \in 0 .. Len(configs') + 1
    BY <1>1, <1>5 DEF Clean, Placed, TypeOK
  <2>2. steps' \in 0 .. MaxSteps
    BY <1>1, RawCdpAssumption DEF Clean, Placed, TypeOK
  <2> QED
    BY <1>1, <1>5, <2>1, <2>2 DEF Clean, Placed, TypeOK, Sending
<1>7. Onward
  BY <1>1 DEF Onward, Clean, Placed, TypeOK
<1>8. Truthful' /\ Recorded'
  BY <1>1, <1>4, <1>7, BooksStay DEF SendCommand
<1>9. Configured'
  <2>1. \A k \in custom' : \E i \in DOMAIN configs' : configs'[i] = k
    BY <1>1, <1>5 DEF Clean, Configured
  <2>2. ASSUME NEW r \in DOMAIN requests', requests'[r].cmd.op = "configure"
        PROVE  \E i \in DOMAIN configs' : configs'[i] = requests'[r].cmd.arg
    <3>1. CASE r \in DOMAIN requests /\ requests'[r] = requests[r]
      BY <1>5, <2>2, <3>1 DEF Clean, Configured
    <3>2. CASE requests'[r] = [id |-> call', cmd |-> cmd]
      <4>1. cmd.op = "configure" /\ requests'[r].cmd.arg = s.configures
        BY <2>2, <3>2 DEF cmd, Cmd
      <4>2. s.configures # "none"
        BY <4>1 DEF cmd, Cmd
      <4> QED
        BY <1>5, <4>1, <4>2
    <3> QED
      BY <1>4, <3>1, <3>2
  <2> QED
    BY <2>1, <2>2 DEF Configured
<1>10. Effective' /\ ResetSoFar'
  BY <1>1 DEF Effective, ResetSoFar
<1>11. Drained'
  BY <1>1 DEF Clean, Drained, Drains
<1> QED
  BY <1>4, <1>6, <1>8, <1>9, <1>10, <1>11 DEF Clean

\* What a command gives its caller leaves requests, events and what was handed
\* out alone; a result was an answer on the wire.
LEMMA GetsKeeps ==
  ASSUME Sound, NEW outcome \in Outcomes, Gets(outcome)
  PROVE  /\ Sound' /\ HandedOut' = HandedOut /\ Buffered' = Buffered
         /\ UNCHANGED <<log, requests, peer, nextId, events, taken>> /\ call' = 0 /\ call # 0
         /\ outcome = "result" => Answered(TRUE)
<1>1. CASE outcome = "result"
  <2>1. CommandAnswered(TRUE)
    BY <1>1 DEF Gets
  <2>2. wire # <<>> /\ IsMyAnswer(Head(wire)) /\ Head(wire).ok = TRUE /\ wire' = Tail(wire)
    BY <2>1 DEF CommandAnswered
  <2>3. Head(wire) = wire[1] /\ 1 \in DOMAIN wire
    BY <2>2, HeadOff
  <2>4. Answered(TRUE)
    BY <2>2, <2>3 DEF Answered, IsMyAnswer
  <2> QED
    BY <2>1, <2>4, AnsweredKeeps DEF CommandAnswered, HandedOut, Buffered
<1>2. CASE outcome = "error"
  <2>1. CommandAnswered(FALSE)
    BY <1>2 DEF Gets
  <2> QED
    BY <1>2, <2>1, AnsweredKeeps DEF CommandAnswered, HandedOut, Buffered
<1>3. CASE outcome = "broken"
  <2>1. CommandBreaks
    BY <1>3 DEF Gets
  <2> QED
    BY <1>3, <2>1, BreaksKeeps DEF CommandBreaks, HandedOut, Buffered
<1> QED
  BY <1>1, <1>2, <1>3 DEF Outcomes

\* A command of the task returns or raises.
LEMMA CommandReturnsKeeps ==
  ASSUME IInv, CommandReturns
  PROVE  IInv'
<1> USE DEF IInv
<1>1. PICK outcome \in Outcomes, session \in {"real", "none"} :
        /\ Gets(outcome)
        /\ child' = IF outcome = "result" /\ step.saves THEN session ELSE child
        /\ pc' = IF outcome = "result" \/ (outcome = "error" /\ step.tolerated)
                 THEN "steps" ELSE "cleanup"
  BY DEF CommandReturns
<1>2. /\ pc = "commanding" /\ pc' \in {"steps", "cleanup"}
      /\ UNCHANGED <<steps, configs, domains, terminal, todo, guid, toWait, place, errors, custom, download, known>>
  BY <1>1 DEF CommandReturns, books, drain, world, engine
<1>3. Sound' /\ HandedOut' = HandedOut /\ UNCHANGED <<log, requests>> /\ call' = 0
  BY <1>1, GetsKeeps
<1>4. child' \in {"unset", "none", "real"}
  BY <1>1 DEF Clean, Placed, TypeOK
<1>5. Placed'
  BY <1>2, <1>3, <1>4 DEF Clean, Placed, TypeOK
<1>6. Onward
  BY <1>2 DEF Onward, Clean, Placed, TypeOK
<1>7. Truthful' /\ Recorded'
  BY <1>2, <1>3, <1>6, BooksStay
<1>8. Configured'
  BY <1>2, <1>3 DEF Clean, Configured
<1>9. Effective' /\ ResetSoFar'
  BY <1>2 DEF Effective, ResetSoFar
<1>10. Drained'
  BY <1>2 DEF Clean, Drained, Drains
<1> QED
  BY <1>3, <1>5, <1>7, <1>8, <1>9, <1>10 DEF Clean

\* A wait that ends with an event puts it in the books.
LEMMA WaitEnds ==
  ASSUME IInv, step.want \in Wants, WaitFindsBuffered(step.want) \/ WaitReads(step.want),
         RecordLifecycle({Given}), UNCHANGED world
  PROVE  /\ Sound' /\ domains' \in [Guids -> SUBSET Domains] /\ terminal' \subseteq Guids
         /\ Truthful' /\ Recorded' /\ UNCHANGED <<log, requests, call>>
<1> USE DEF IInv
<1>1. Sound' /\ \E n \in DOMAIN log : HandedOut' = HandedOut \cup {n} /\ taken'[Len(taken')].n = n
  BY WaitFindsKeeps, WaitReadsKeeps
<1>2. PICK n \in DOMAIN log : HandedOut' = HandedOut \cup {n} /\ Given = n
  BY <1>1 DEF Given
<1>3. RecordLifecycle({n})
  BY <1>2
<1>4. {n} \in SUBSET DOMAIN log /\ HandedOut' \subseteq HandedOut \cup {n}
  BY <1>2
<1>5. UNCHANGED <<log, requests, call>>
  BY DEF WaitFindsBuffered, WaitReads
<1>6. UNCHANGED <<log, download>>
  BY <1>5 DEF world, engine
<1> QED
  BY <1>1, <1>3, <1>4, <1>5, <1>6, ScanKeeps

\* A wait of the task gets its event.
LEMMA WaitReturnsKeeps ==
  ASSUME IInv, WaitReturns
  PROVE  IInv'
<1> USE DEF IInv
<1>1. /\ pc = "waiting" /\ pc' \in {"steps", "cleanup"}
      /\ WaitFindsBuffered(step.want) \/ WaitReads(step.want)
      /\ RecordLifecycle({Given}) /\ child' \in {"real", child}
      /\ UNCHANGED <<steps, configs, todo, guid, toWait, place, errors, custom, download, known, world>>
  BY DEF WaitReturns, world, engine
<1>2. step.want \in Wants
  BY <1>1 DEF Clean, Placed, Wants
<1>3. Sound' /\ domains' \in [Guids -> SUBSET Domains] /\ terminal' \subseteq Guids
      /\ Truthful' /\ Recorded' /\ UNCHANGED <<log, requests, call>>
  BY <1>1, <1>2, WaitEnds
<1>4. call = 0
  BY <1>1 DEF Clean, Placed, Sending
<1>5. Placed'
  BY <1>1, <1>3, <1>4 DEF Clean, Placed, TypeOK
<1>6. Configured'
  BY <1>1, <1>3 DEF Clean, Configured
<1>7. Effective' /\ ResetSoFar'
  BY <1>1 DEF Effective, ResetSoFar
<1>8. Drained'
  BY <1>1 DEF Clean, Drained, Drains
<1> QED
  BY <1>3, <1>5, <1>6, <1>7, <1>8 DEF Clean

\* A wait of the cleanup gets the end of its download.
LEMMA DrainReturnsKeeps ==
  ASSUME IInv, DrainReturns
  PROVE  IInv'
<1> USE DEF IInv
<1>1. /\ pc = "draining" /\ pc' = "drain" /\ todo' = todo \ {guid}
      /\ WaitFindsBuffered(step.want) \/ WaitReads(step.want)
      /\ RecordLifecycle({Given})
      /\ UNCHANGED <<steps, child, configs, guid, toWait, place, errors, custom, download, known, world>>
  BY DEF DrainReturns, world, engine
<1>2. step.want \in Wants
  BY <1>1 DEF Clean, Placed, Wants
<1>3. Sound' /\ domains' \in [Guids -> SUBSET Domains] /\ terminal' \subseteq Guids
      /\ Truthful' /\ Recorded' /\ UNCHANGED <<log, requests, call>>
  BY <1>1, <1>2, WaitEnds
<1>4. call = 0
  BY <1>1 DEF Clean, Placed, Sending
<1>5. Placed'
  BY <1>1, <1>3, <1>4 DEF Clean, Placed, TypeOK
<1>6. Configured'
  BY <1>1, <1>3 DEF Clean, Configured
<1>7. Effective' /\ ResetSoFar'
  BY <1>1 DEF Effective, ResetSoFar
<1>8. Drained'
  BY <1>1 DEF Clean, Drained, Drains
<1> QED
  BY <1>3, <1>5, <1>6, <1>7, <1>8 DEF Clean

\* A wait of the cleanup runs out or finds the connection gone.
LEMMA DrainFailsKeeps ==
  ASSUME IInv, DrainFails
  PROVE  IInv'
<1> USE DEF IInv
<1>1. /\ pc = "draining" /\ pc' = "nextDomain" /\ errors' = TRUE /\ UNCHANGED connection
      /\ UNCHANGED <<steps, child, configs, domains, terminal, todo, guid, toWait, place, custom, download, known>>
  BY DEF DrainFails, world, engine, WaitExpires, WaitBreaks
<1>2. UNCHANGED <<log, requests, call, taken>>
  BY <1>1 DEF connection
<1>3. Sound'
  BY <1>1, QuietKeeps
<1>4. Placed'
  BY <1>1, <1>2 DEF Clean, Placed, TypeOK, Sending
<1>5. Onward
  BY <1>1 DEF Onward, Clean, Placed, TypeOK
<1>6. Truthful' /\ Recorded'
  BY <1>1, <1>2, <1>5, BooksStay DEF HandedOut
<1>7. Configured'
  BY <1>1, <1>2 DEF Clean, Configured
<1>8. Effective' /\ ResetSoFar'
  BY <1>1 DEF Effective, ResetSoFar
<1>9. Drained'
  BY <1>1 DEF Clean, Drained, Drains
<1> QED
  BY <1>3, <1>4, <1>6, <1>7, <1>8, <1>9 DEF Clean

\* The next domain is waited for, or the download is done with.
LEMMA NextDomainKeeps ==
  ASSUME IInv, NextDomain
  PROVE  IInv'
<1> USE DEF IInv
<1>1. /\ pc = "nextDomain" /\ UNCHANGED connection
      /\ UNCHANGED <<steps, child, configs, domains, terminal, guid, place, errors, custom, download, known>>
      /\ \/ todo' = todo \ {guid} /\ pc' = "drain" /\ UNCHANGED <<step, toWait>>
         \/ \E d \in toWait :
                /\ toWait' = toWait \ {d}
                /\ step' = [kind |-> "wait", want |-> EndOf(guid, d)]
                /\ pc' = "draining" /\ UNCHANGED todo
  BY DEF NextDomain, world, engine
<1>2. UNCHANGED <<log, requests, call, taken>>
  BY <1>1 DEF connection
<1>3. Sound'
  BY <1>1, QuietKeeps
<1>4. Placed'
  <2>0. /\ pc' \in {"drain", "draining"} /\ todo' \subseteq todo /\ toWait' \subseteq toWait
    BY <1>1
  <2>1. TypeOK'
    BY <1>1, <2>0 DEF Clean, Placed, TypeOK
  <2>2. pc' = "draining" => \E d \in Domains : step'.want = EndOf(guid, d)
    BY <1>1 DEF Clean, Placed, TypeOK
  <2> QED
    BY <1>1, <1>2, <2>0, <2>1, <2>2 DEF Clean, Placed, Sending, EndOf
<1>5. Onward
  BY <1>1 DEF Onward, Clean, Placed, TypeOK
<1>6. Truthful' /\ Recorded'
  BY <1>1, <1>2, <1>5, BooksStay DEF HandedOut
<1>7. Configured'
  BY <1>1, <1>2 DEF Clean, Configured
<1>8. Effective' /\ ResetSoFar'
  BY <1>1 DEF Effective, ResetSoFar
<1>9. Drained'
  BY <1>1 DEF Clean, Drained, Drains
<1> QED
  BY <1>3, <1>4, <1>6, <1>7, <1>8, <1>9 DEF Clean

\* The drain list holds every download that runs and that the client has heard
\* of, in the buffer or through a wait.
LEMMA DrainPlanned ==
  ASSUME Sound, Clean, ScanBuffer, PlanDrain, UNCHANGED <<log, download>>, HandedOut' = HandedOut
  PROVE  /\ domains' \in [Guids -> SUBSET Domains] /\ terminal' \subseteq Guids
         /\ Truthful' /\ Recorded'
         /\ todo' \subseteq Guids /\ known' \subseteq Guids
         /\ \A g \in known' \cup todo' : download[g] # "none"
         /\ \A g \in known' : download[g] # "active" \/ g \in todo'
<1>1. Buffered \in SUBSET DOMAIN log /\ HandedOut \subseteq DOMAIN log
  BY DEF Sound, EventsConserved
<1>2. /\ domains' \in [Guids -> SUBSET Domains] /\ terminal' \subseteq Guids
      /\ Truthful' /\ Recorded'
      /\ \A g \in Guids : domains[g] \subseteq domains'[g]
      /\ \A n \in Buffered : IsDownloadEvent(n) => domains'[log[n].guid] # {}
  BY <1>1, ScanKeeps DEF ScanBuffer
<1>3. /\ todo' = {g \in Guids : domains'[g] # {}} \ terminal'
      /\ known' = {log[n].guid : n \in {m \in Buffered \union HandedOut : IsDownloadEvent(m)}}
  BY DEF PlanDrain, KnownTo
<1>4. ASSUME NEW g \in known'
      PROVE  g \in Guids /\ domains'[g] # {}
  <2>1. PICK n \in Buffered \cup HandedOut : IsDownloadEvent(n) /\ g = log[n].guid
    BY <1>3, <1>4
  <2>2. g \in Guids
    BY <1>1, <2>1, EventTyped
  <2>3. CASE n \in Buffered
    BY <1>2, <2>1, <2>2, <2>3
  <2>4. CASE n \in HandedOut
    <3>1. domains[g] # {}
      BY <2>1, <2>4 DEF Clean, Recorded
    <3> QED
      BY <1>2, <2>2, <3>1
  <2> QED
    BY <2>1, <2>2, <2>3, <2>4
<1>5. /\ \A g \in Guids : domains'[g] # {} => download[g] # "none"
      /\ \A g \in terminal' : download[g] \in DOWNLOAD_TERMINAL_STATES
  BY <1>2 DEF Truthful
<1>6. \A g \in known' : download[g] # "active" \/ g \in todo'
  BY <1>3, <1>4, <1>5 DEF DOWNLOAD_TERMINAL_STATES
<1>7. todo' \subseteq Guids /\ known' \subseteq Guids
  BY <1>3, <1>4
<1>8. \A g \in known' \cup todo' : download[g] # "none"
  BY <1>3, <1>4, <1>5
<1> QED
  BY <1>2, <1>6, <1>7, <1>8

\* The cleanup looks through the buffer: it pumps when it knows of no download
\* although one was configured, and plans the drain otherwise.
LEMMA FirstScanKeeps ==
  ASSUME IInv, FirstScan
  PROVE  IInv'
<1> USE DEF IInv
<1>1. /\ pc = "cleanup" /\ ScanBuffer /\ UNCHANGED connection
      /\ UNCHANGED <<step, steps, child, configs, guid, toWait, place, errors, custom, download>>
      /\ (pc' = "pump" /\ UNCHANGED <<todo, known>>) \/ PlanDrain
  BY DEF FirstScan, task, engine
<1>2. UNCHANGED <<log, requests, call, taken, nextId>> /\ HandedOut' = HandedOut
  BY <1>1 DEF connection, HandedOut
<1>3. Sound'
  BY <1>1, QuietKeeps
<1>4. /\ domains' \in [Guids -> SUBSET Domains] /\ terminal' \subseteq Guids
      /\ Truthful' /\ Recorded'
  <2>1. Buffered \in SUBSET DOMAIN log
    BY DEF Sound, EventsConserved
  <2> QED
    BY <1>1, <1>2, <2>1, ScanKeeps DEF ScanBuffer
<1>5. Configured'
  BY <1>1, <1>2 DEF Clean, Configured
<1>6. pc' \in {"pump", "drain"}
  BY <1>1 DEF PlanDrain
<1>7. Effective' /\ ResetSoFar'
  BY <1>6 DEF Effective, ResetSoFar
<1>8. CASE pc' = "pump" /\ UNCHANGED <<todo, known>>
  <2>1. Placed'
    BY <1>1, <1>2, <1>4, <1>8 DEF Clean, Placed, TypeOK, Sending
  <2>2. Drained'
    BY <1>1, <1>8 DEF Clean, Drained, Drains
  <2> QED
    BY <1>3, <1>4, <1>5, <1>7, <2>1, <2>2 DEF Clean
<1>9. CASE PlanDrain
  <2>1. /\ todo' \subseteq Guids /\ known' \subseteq Guids /\ pc' = "drain"
        /\ \A g \in known' \cup todo' : download[g] # "none"
        /\ \A g \in known' : download[g] # "active" \/ g \in todo'
    <3>1. pc' = "drain"
      BY <1>9 DEF PlanDrain
    <3> QED
      BY <1>1, <1>2, <1>9, <3>1, DrainPlanned
  <2>2. Placed'
    BY <1>1, <1>2, <1>4, <2>1 DEF Clean, Placed, TypeOK, Sending
  <2>3. Drained'
    BY <1>1, <2>1 DEF Drained, Drains
  <2> QED
    BY <1>3, <1>4, <1>5, <1>7, <2>2, <2>3 DEF Clean
<1> QED
  BY <1>1, <1>8, <1>9

\* The pump is over and the drain is planned.
LEMMA PumpDoneKeeps ==
  ASSUME IInv, PumpDone
  PROVE  IInv'
<1> USE DEF IInv
<1>0. PICK b \in BOOLEAN : errors' = b
  <2>1. CASE ~peer /\ wire = <<>>
    BY <2>1 DEF PumpDone, Clean, Placed, TypeOK
  <2>2. CASE ~(~peer /\ wire = <<>>)
    BY <2>2 DEF PumpDone, Clean, Placed, TypeOK
  <2> QED
    BY <2>1, <2>2
<1>1. /\ pc = "pump" /\ ScanBuffer /\ UNCHANGED connection /\ PlanDrain /\ pc' = "drain"
      /\ UNCHANGED <<step, steps, child, configs, guid, toWait, place, custom, download>>
  BY DEF PumpDone, PumpEnds, PlanDrain, task, engine
<1>2. UNCHANGED <<log, requests, call, taken, nextId>> /\ HandedOut' = HandedOut
  BY <1>1 DEF connection, HandedOut
<1>3. Sound'
  BY <1>1, QuietKeeps
<1>4. /\ domains' \in [Guids -> SUBSET Domains] /\ terminal' \subseteq Guids
      /\ Truthful' /\ Recorded'
      /\ todo' \subseteq Guids /\ known' \subseteq Guids
      /\ \A g \in known' \cup todo' : download[g] # "none"
      /\ \A g \in known' : download[g] # "active" \/ g \in todo'
  BY <1>1, <1>2, DrainPlanned
<1>5. Configured'
  BY <1>1, <1>2 DEF Clean, Configured
<1>6. Effective' /\ ResetSoFar'
  BY <1>1 DEF Effective, ResetSoFar
<1>7. Placed'
  BY <1>0, <1>1, <1>2, <1>4 DEF Clean, Placed, TypeOK, Sending
<1>8. Drained'
  BY <1>1, <1>4 DEF Drained, Drains
<1> QED
  BY <1>3, <1>4, <1>5, <1>6, <1>7, <1>8 DEF Clean

\* A download that is to be drained is cancelled.
LEMMA CancelDownloadKeeps ==
  ASSUME IInv, NEW g \in Guids, CancelDownload(g)
  PROVE  IInv'
<1> USE DEF IInv
<1> DEFINE cmd == Cmd("cancel", g)
<1>1. /\ pc = "drain" /\ g \in todo /\ guid' = g /\ SendCommand(cmd) /\ pc' = "cancelling"
      /\ UNCHANGED <<step, steps, child, configs, domains, terminal, todo, toWait, place, errors>>
      /\ UNCHANGED <<custom, download, known>>
  BY DEF CancelDownload, Send, task, world, engine
<1>2. cmd \in Cmds
  BY DEF Cmds
<1> HIDE DEF cmd
<1>3. /\ Sound' /\ HandedOut' = HandedOut /\ call' # 0
      /\ \A r \in DOMAIN requests' :
               \/ r \in DOMAIN requests /\ requests'[r] = requests[r] /\ requests'[r].id # call'
               \/ requests'[r] = [id |-> call', cmd |-> cmd]
      /\ \A k \in DOMAIN wire' : ~IsEvent(wire'[k]) => wire'[k].n # call'
  BY <1>1, <1>2, SendKeeps
<1>4. Placed'
  BY <1>1 DEF Clean, Placed, TypeOK, Sending
<1>5. Onward
  BY <1>1 DEF Onward, Clean, Placed, TypeOK
<1>6. Truthful' /\ Recorded'
  BY <1>1, <1>3, <1>5, BooksStay DEF SendCommand
<1>7. Configured'
  <2>1. cmd.op # "configure"
    BY DEF cmd, Cmd
  <2> QED
    BY <1>1, <1>3, <2>1 DEF Clean, Configured
<1>8. Effective'
  <2>1. Waiting(Cmd("cancel", guid))'
    <3>1. \A r \in DOMAIN requests' : requests'[r].id = call' => requests'[r].cmd = cmd
      BY <1>3
    <3>2. Cmd("cancel", guid)' = cmd
      BY <1>1 DEF cmd, Cmd
    <3> QED
      BY <3>1, <3>2 DEF Waiting
  <2>2. ~Answered(TRUE)'
    BY <1>3 DEF Answered, IsEvent
  <2>3. download'[guid'] # "none"
    BY <1>1 DEF Clean, Drained
  <2> QED
    BY <1>1, <1>3, <2>1, <2>2, <2>3 DEF Effective
<1>9. ResetSoFar'
  BY <1>1 DEF ResetSoFar
<1>10. Drained'
  BY <1>1 DEF Clean, Drained, Drains
<1> QED
  BY <1>3, <1>4, <1>6, <1>7, <1>8, <1>9, <1>10 DEF Clean

\* The cancellation returns or raises.
LEMMA CancelReturnsKeeps ==
  ASSUME IInv, CancelReturns
  PROVE  IInv'
<1> USE DEF IInv
<1>1. PICK outcome \in Outcomes : Gets(outcome) /\ errors' = (errors \/ outcome # "result")
  BY DEF CancelReturns
<1>2. /\ pc = "cancelling" /\ ScanBuffer
      /\ \/ guid \in terminal' /\ todo' = todo \ {guid} /\ pc' = "drain" /\ UNCHANGED toWait
         \/ toWait' = domains'[guid] /\ pc' = "nextDomain" /\ UNCHANGED todo
      /\ UNCHANGED <<step, steps, child, configs, guid, place, custom, download, known>>
  BY DEF CancelReturns, task, world, engine
<1>3. /\ Sound' /\ HandedOut' = HandedOut /\ UNCHANGED <<log, requests>> /\ call' = 0 /\ call # 0
      /\ outcome = "result" => Answered(TRUE)
  BY <1>1, GetsKeeps
<1>4. /\ domains' \in [Guids -> SUBSET Domains] /\ terminal' \subseteq Guids
      /\ Truthful' /\ Recorded'
  <2>1. Buffered \in SUBSET DOMAIN log
    BY DEF Sound, EventsConserved
  <2> QED
    BY <1>2, <1>3, <2>1, ScanKeeps DEF ScanBuffer
<1>5. Configured'
  BY <1>2, <1>3 DEF Clean, Configured
<1>6. Effective' /\ ResetSoFar'
  BY <1>2 DEF Effective, ResetSoFar
<1>7. errors \in BOOLEAN /\ errors' \in BOOLEAN /\ (~errors' => ~errors /\ outcome = "result")
  <2>1. errors \in BOOLEAN
    BY DEF Clean, Placed, TypeOK
  <2>2. CASE outcome = "result"
    BY <1>1, <2>1, <2>2
  <2>3. CASE outcome # "result"
    BY <1>1, <2>1, <2>3
  <2> QED
    BY <2>1, <2>2, <2>3
<1>8. guid \in Guids /\ guid' = guid /\ download' = download
  BY <1>2 DEF Clean, Placed
<1>9. Placed'
  <2>1. toWait' \subseteq Domains /\ todo' \subseteq todo
    BY <1>2, <1>4, <1>8 DEF Clean, Placed, TypeOK
  <2> QED
    BY <1>2, <1>3, <1>4, <1>7, <1>8, <2>1 DEF Clean, Placed, TypeOK
<1>10. Drained'
  <2>1. download[guid] # "none" /\ (~errors' => download[guid] # "active")
    BY <1>2, <1>3, <1>7 DEF Clean, Effective
  <2> QED
    BY <1>2, <1>7, <1>8, <2>1 DEF Clean, Drained, Drains
<1> QED
  BY <1>3, <1>4, <1>5, <1>6, <1>9, <1>10 DEF Clean

\* Nothing is left to drain: the resets begin at the end of the list.
LEMMA PlanResetsKeeps ==
  ASSUME IInv, PlanResets
  PROVE  IInv'
<1> USE DEF IInv
<1>1. /\ pc = "drain" /\ todo = {} /\ place' = Len(configs) + 1 /\ pc' = "reset" /\ UNCHANGED connection
      /\ UNCHANGED <<step, steps, child, configs, domains, terminal, todo, guid, toWait, errors>>
      /\ UNCHANGED <<custom, download, known>>
  BY DEF PlanResets, task, world, engine
<1>2. UNCHANGED <<log, requests, call, taken>>
  BY <1>1 DEF connection
<1>3. Sound'
  BY <1>1, QuietKeeps
<1>4. configs \in Seq(Keys) /\ Len(configs) \in Nat /\ DOMAIN configs = 1 .. Len(configs)
  BY DEF Clean, Placed, TypeOK
<1>5. Placed'
  <2>1. place' \in 0 .. Len(configs') + 1 /\ place' # 0
    BY <1>1, <1>4
  <2> QED
    BY <1>1, <1>2, <2>1 DEF Clean, Placed, TypeOK, Sending
<1>6. Onward
  BY <1>1 DEF Onward, Clean, Placed, TypeOK
<1>7. Truthful' /\ Recorded'
  BY <1>1, <1>2, <1>6, BooksStay DEF HandedOut
<1>8. Configured'
  BY <1>1, <1>2 DEF Clean, Configured
<1>9. Effective'
  BY <1>1 DEF Effective
<1>10. ResetSoFar'
  <2>1. \A i \in DOMAIN configs' : ~(i >= place')
    BY <1>1, <1>4
  <2>2. Behind' = {}
    BY <2>1 DEF Behind
  <2> QED
    BY <1>1, <2>2 DEF ResetSoFar
<1>11. Drained'
  BY <1>1 DEF Clean, Drained, Drains
<1> QED
  BY <1>3, <1>5, <1>7, <1>8, <1>9, <1>10, <1>11 DEF Clean

\* The last configuration that was not met behind is reset.
LEMMA ResetBehaviorKeeps ==
  ASSUME IInv, ResetBehavior
  PROVE  IInv'
<1> USE DEF IInv
<1>1. PICK i \in Unreset : (\A j \in Unreset : j <= i) /\ place' = i /\ Send(Cmd("reset", configs[i]), "resetting")
  BY DEF ResetBehavior
<1> DEFINE cmd == Cmd("reset", configs[i])
<1>2. /\ pc = "reset" /\ SendCommand(cmd) /\ pc' = "resetting"
      /\ UNCHANGED <<step, steps, child, configs, domains, terminal, todo, guid, toWait, errors>>
      /\ UNCHANGED <<custom, download, known>>
  BY <1>1 DEF ResetBehavior, Send, task, books, world, engine
<1>3. /\ configs \in Seq(Keys) /\ Len(configs) \in Nat /\ DOMAIN configs = 1 .. Len(configs)
      /\ place \in 0 .. Len(configs) + 1
  BY DEF Clean, Placed, TypeOK
<1>4. i \in 1 .. place - 1 /\ i \in DOMAIN configs /\ configs[i] \in Keys /\ i < place
  <2>1. i \in 1 .. place - 1
    BY DEF Unreset
  <2>2. i \in 1 .. Len(configs) /\ i < place
    BY <1>3, <2>1
  <2> QED
    BY <1>3, <2>1, <2>2
<1>5. cmd \in Cmds
  BY <1>4 DEF Cmds
<1> HIDE DEF cmd
<1>6. /\ Sound' /\ HandedOut' = HandedOut /\ call' # 0
      /\ \A r \in DOMAIN requests' :
               \/ r \in DOMAIN requests /\ requests'[r] = requests[r] /\ requests'[r].id # call'
               \/ requests'[r] = [id |-> call', cmd |-> cmd]
      /\ \A k \in DOMAIN wire' : ~IsEvent(wire'[k]) => wire'[k].n # call'
  BY <1>2, <1>5, SendKeeps
<1>7. Placed'
  <2>1. place' \in DOMAIN configs' /\ place' \in 0 .. Len(configs') + 1 /\ place' # 0
    BY <1>1, <1>2, <1>3, <1>4
  <2> QED
    BY <1>2, <2>1 DEF Clean, Placed, TypeOK, Sending
<1>8. Onward
  BY <1>2 DEF Onward, Clean, Placed, TypeOK
<1>9. Truthful' /\ Recorded'
  BY <1>2, <1>6, <1>8, BooksStay DEF SendCommand
<1>10. cmd.op # "configure" /\ \A k : cmd # Cmd("configure", k)
  BY DEF cmd, Cmd
<1>11. Configured'
  BY <1>2, <1>6, <1>10 DEF Clean, Configured
<1>12. Effective'
  <2>1. Waiting(Cmd("reset", configs[place]))'
    <3>1. \A r \in DOMAIN requests' : requests'[r].id = call' => requests'[r].cmd = cmd
      BY <1>6
    <3>2. Cmd("reset", configs[place])' = cmd
      BY <1>1, <1>2 DEF cmd, Cmd
    <3> QED
      BY <3>1, <3>2 DEF Waiting
  <2>2. ~Answered(TRUE)'
    BY <1>6 DEF Answered, IsEvent
  <2> QED
    BY <1>2, <1>6, <2>1, <2>2 DEF Effective
<1>13. ResetSoFar'
  <2> SUFFICES ASSUME ~errors', NEW j \in DOMAIN configs, j >= i, configs[j] # configs[i]
               PROVE  Settled(configs[j])'
    BY <1>1, <1>2 DEF ResetSoFar, Behind, Settled, Cmd
  <2>1. \E p \in DOMAIN configs : p >= place /\ configs[p] = configs[j]
    <3>1. CASE j >= place
      BY <3>1
    <3>2. CASE ~(j >= place)
      <4>1. j \in 1 .. place - 1 /\ ~(j <= i)
        BY <1>3, <1>4, <3>2
      <4>2. j \notin Unreset
        BY <1>1, <4>1
      <4>3. PICK p \in place .. Len(configs) : configs[p] = configs[j]
        BY <4>1, <4>2 DEF Unreset
      <4>4. p \in DOMAIN configs /\ p >= place
        BY <1>3, <1>4, <4>3
      <4> QED
        BY <4>3, <4>4
    <3> QED
      BY <3>1, <3>2
  <2>2. configs[j] \in Behind
    BY <2>1 DEF Behind
  <2>3. Settled(configs[j])
    BY <1>2, <2>2 DEF Clean, ResetSoFar
  <2>4. configs[j] \notin custom' /\ \A r \in DOMAIN requests' : requests'[r].cmd # Cmd("configure", configs[j])
    BY <1>2, <1>6, <1>10, <2>3 DEF Settled
  <2> QED
    BY <1>2, <2>4 DEF Settled, Cmd
<1>14. Drained'
  BY <1>2 DEF Clean, Drained, Drains
<1> QED
  BY <1>6, <1>7, <1>9, <1>11, <1>12, <1>13, <1>14 DEF Clean

\* The reset returns or raises; after a result no older command is left that
\* could configure the engine again.
LEMMA ResetReturnsKeeps ==
  ASSUME IInv, ResetReturns
  PROVE  IInv'
<1> USE DEF IInv
<1>1. PICK outcome \in Outcomes : Gets(outcome) /\ errors' = (errors \/ outcome # "result")
  BY DEF ResetReturns
<1>2. /\ pc = "resetting" /\ pc' = "reset"
      /\ UNCHANGED <<step, steps, child, configs, domains, terminal, todo, guid, toWait, place>>
      /\ UNCHANGED <<custom, download, known>>
  BY DEF ResetReturns, task, books, world, engine
<1>3. /\ Sound' /\ HandedOut' = HandedOut /\ UNCHANGED <<log, requests>> /\ call' = 0 /\ call # 0
      /\ outcome = "result" => Answered(TRUE)
  BY <1>1, GetsKeeps
<1>4. errors \in BOOLEAN /\ errors' \in BOOLEAN /\ (~errors' => ~errors /\ outcome = "result")
  <2>1. errors \in BOOLEAN
    BY DEF Clean, Placed, TypeOK
  <2>2. CASE outcome = "result"
    BY <1>1, <2>1, <2>2
  <2>3. CASE outcome # "result"
    BY <1>1, <2>1, <2>3
  <2> QED
    BY <2>1, <2>2, <2>3
<1>5. Placed'
  BY <1>2, <1>3, <1>4 DEF Clean, Placed, TypeOK
<1>6. Onward
  BY <1>2 DEF Onward, Clean, Placed, TypeOK
<1>7. Truthful' /\ Recorded'
  BY <1>2, <1>3, <1>6, BooksStay
<1>8. Configured'
  BY <1>2, <1>3 DEF Clean, Configured
<1>9. Effective'
  BY <1>2 DEF Effective
<1>10. ResetSoFar'
  <2> SUFFICES ASSUME ~errors', NEW k \in Behind
               PROVE  Settled(k)'
    BY <1>2 DEF ResetSoFar, Behind, Settled, Cmd
  <2>1. Answered(TRUE)
    BY <1>3, <1>4
  <2>2. requests = <<>>
    BY <1>3, <2>1, NothingBehind DEF Answered
  <2>3. configs[place] \notin custom
    BY <1>2, <2>1 DEF Clean, Effective
  <2>4. k \notin custom
    BY <1>2, <1>4, <2>3 DEF Clean, ResetSoFar, Settled
  <2> QED
    BY <1>2, <1>3, <2>2, <2>4 DEF Settled
<1>11. Drained'
  BY <1>2, <1>4 DEF Clean, Drained, Drains
<1> QED
  BY <1>3, <1>5, <1>7, <1>8, <1>9, <1>10, <1>11 DEF Clean

\* Everything has been reset and the connection is closed.
LEMMA CloseKeeps ==
  ASSUME IInv, Close
  PROVE  IInv'
<1> USE DEF IInv
<1>1. /\ pc = "reset" /\ pc' = "closed" /\ Unreset = {} /\ UNCHANGED connection
      /\ UNCHANGED <<step, steps, child, configs, domains, terminal, todo, guid, toWait, place, errors>>
      /\ UNCHANGED <<custom, download, known>>
  BY DEF Close, task, books, drain, world, engine
<1>2. UNCHANGED <<log, requests, call, taken>>
  BY <1>1 DEF connection
<1>3. Sound'
  BY <1>1, QuietKeeps
<1>4. Placed'
  BY <1>1, <1>2 DEF Clean, Placed, TypeOK, Sending
<1>5. Onward
  BY <1>1 DEF Onward, Clean, Placed, TypeOK
<1>6. Truthful' /\ Recorded'
  BY <1>1, <1>2, <1>5, BooksStay DEF HandedOut
<1>7. Configured'
  BY <1>1, <1>2 DEF Clean, Configured
<1>8. Effective'
  BY <1>1 DEF Effective
<1>9. ResetSoFar'
  <2> SUFFICES ASSUME ~errors, NEW k \in custom
               PROVE  FALSE
    BY <1>1 DEF ResetSoFar
  <2>1. PICK i \in DOMAIN configs : configs[i] = k
    BY DEF Clean, Configured
  <2>2. /\ configs \in Seq(Keys) /\ Len(configs) \in Nat /\ DOMAIN configs = 1 .. Len(configs)
        /\ place \in 0 .. Len(configs) + 1
    BY DEF Clean, Placed, TypeOK
  <2>3. \E p \in DOMAIN configs : p >= place /\ configs[p] = k
    <3>1. CASE i >= place
      BY <2>1, <3>1
    <3>2. CASE ~(i >= place)
      <4>1. i \in 1 .. place - 1 /\ place >= 1
        BY <2>2, <3>2
      <4>2. PICK p \in place .. Len(configs) : configs[p] = configs[i]
        BY <1>1, <4>1 DEF Unreset
      <4>3. p \in DOMAIN configs /\ p >= place
        BY <2>2, <4>1, <4>2
      <4> QED
        BY <2>1, <4>2, <4>3
    <3> QED
      BY <3>1, <3>2
  <2>4. k \in Behind
    BY <2>3 DEF Behind
  <2> QED
    BY <1>1, <2>4 DEF Clean, ResetSoFar, Settled
<1>10. Drained'
  BY <1>1 DEF Clean, Drained, Drains
<1> QED
  BY <1>3, <1>4, <1>6, <1>7, <1>8, <1>9, <1>10 DEF Clean

----------------------------------------------------------------------------
(* The theorems.                                                          *)

\* A fresh connection and a driver that has not begun.
LEMMA InitIInv ==
  ASSUME Init
  PROVE  IInv
<1> USE DEF Init
<1>1. DOMAIN log = {} /\ DOMAIN wire = {} /\ DOMAIN requests = {} /\ DOMAIN events = {} /\ DOMAIN taken = {}
      /\ DOMAIN configs = {} /\ Len(log) = 0 /\ Len(taken) = 0 /\ Len(events) = 0 /\ Len(configs) = 0
  OBVIOUS
<1>2. InFlight = {} /\ Buffered = {} /\ HandedOut = {}
  BY <1>1 DEF InFlight, Buffered, HandedOut, Range
<1>3. Sequences
  BY EmptySeq DEF Sequences
<1>4. ConnectionTypeOK
  BY <1>1, <1>2, EmptySeq, CdpClientAssumption DEF ConnectionTypeOK
<1>5. EventsConserved
  BY <1>1, <1>2, <1>4, FS_EmptySet DEF EventsConserved
<1>6. InOrder /\ OldestMatchFirst /\ Numbered
  BY <1>1 DEF InOrder, OldestMatchFirst, Numbered
<1>7. Placed
  <2>1. 0 \in 0 .. MaxSteps
    BY RawCdpAssumption
  <2>2. configs \in Seq(Keys) /\ place \in 0 .. Len(configs) + 1
    BY <1>1, EmptySeq
  <2>3. TypeOK
    BY <2>1, <2>2 DEF TypeOK
  <2> QED
    BY <2>3 DEF Placed, Sending
<1>8. Truthful /\ Recorded /\ Configured
  BY <1>1, <1>2 DEF Truthful, Recorded, Configured
<1>9. Effective /\ ResetSoFar /\ Drained
  BY DEF Effective, ResetSoFar, Drained, Drains
<1> QED
  BY <1>3, <1>5, <1>6, <1>7, <1>8, <1>9 DEF IInv, Sound, Clean

\* Every step of the driver and of the engine keeps the invariant.
LEMMA NextKeeps ==
  ASSUME IInv, [Next]_vars
  PROVE  IInv'
<1>1. CASE ReadPastFrame
  BY <1>1, ReadPastFrameKeeps
<1>2. CASE OpenPage
  BY <1>2, OpenPageKeeps
<1>3. CASE Prelude
  BY <1>3, PreludeKeeps
<1>4. CASE DriverRuns
  <2>1. ASSUME NEW s \in Steps, BeginWait(s) \/ BeginCommand(s) \/ StepRaises(s)
        PROVE  IInv'
    BY <2>1, BeginWaitKeeps, BeginCommandKeeps, StepRaisesKeeps
  <2>2. CASE CommandReturns \/ WaitReturns \/ WaitContinues \/ WaitFails \/ FinishSteps
    BY <2>2, CommandReturnsKeeps, WaitReturnsKeeps, WaitContinuesKeeps, WaitFailsKeeps, FinishStepsKeeps
  <2> QED
    BY <1>4, <2>1, <2>2 DEF DriverRuns
<1>5. CASE DriverCleans
  <2>1. ASSUME NEW g \in Guids, CancelDownload(g)
        PROVE  IInv'
    BY <2>1, CancelDownloadKeeps
  <2>2. CASE FirstScan \/ Pump \/ PumpDone \/ CancelReturns \/ NextDomain
    BY <2>2, FirstScanKeeps, PumpKeeps, PumpDoneKeeps, CancelReturnsKeeps, NextDomainKeeps
  <2>3. CASE DrainReturns \/ DrainContinues \/ DrainFails
    BY <2>3, DrainReturnsKeeps, DrainContinuesKeeps, DrainFailsKeeps
  <2>4. CASE PlanResets \/ ResetBehavior \/ ResetReturns \/ Close
    BY <2>4, PlanResetsKeeps, ResetBehaviorKeeps, ResetReturnsKeeps, CloseKeeps
  <2> QED
    BY <1>5, <2>1, <2>2, <2>3, <2>4 DEF DriverCleans
<1>6. CASE EngineActs
  <2>1. ASSUME NEW g \in Guids, NEW m \in BeginMethods, BeginDownload(g, m) \/ AnnounceAgain(g, m)
        PROVE  IInv'
    BY <2>1, BeginDownloadKeeps, AnnounceAgainKeeps
  <2>2. ASSUME NEW g \in Guids, CompleteDownload(g)
        PROVE  IInv'
    BY <2>2, CompleteDownloadKeeps
  <2>3. ASSUME NEW g \in Guids, NEW m \in ProgressMethods, ReportEnd(g, m)
        PROVE  IInv'
    BY <2>3, ReportEndKeeps
  <2>4. ASSUME NEW e \in Event, ReportAttached(e)
        PROVE  IInv'
    BY <2>4, ReportAttachedKeeps
  <2>5. ASSUME NEW outcome \in {"ok", "error", "silent"}, EngineServes(outcome)
        PROVE  IInv'
    BY <2>5, EngineServesKeeps
  <2>6. CASE EngineHangsUp
    BY <2>6, EngineHangsUpKeeps
  <2> QED
    BY <1>6, <2>1, <2>2, <2>3, <2>4, <2>5, <2>6 DEF EngineActs
<1>7. CASE UNCHANGED vars
  <2>1. UNCHANGED connection /\ UNCHANGED <<driver, world>>
    BY <1>7 DEF vars
  <2>2. Sound'
    BY <2>1, QuietKeeps DEF IInv
  <2>3. Clean'
    BY <2>1, PassKeeps DEF IInv, connection
  <2> QED
    BY <2>2, <2>3 DEF IInv
<1> QED
  BY <1>1, <1>2, <1>3, <1>4, <1>5, <1>6, <1>7 DEF Next, DriverThread

\* The invariant of the connection and of the attempt holds throughout.
THEOREM Invariance == Spec => []IInv
<1>1. Init => IInv
  BY InitIInv
<1>2. IInv /\ [Next]_vars => IInv'
  BY NextKeeps
<1> QED
  BY <1>1, <1>2, PTL DEF Spec

\* The buffer that commands, waits and pumps share gives every event to at most
\* one wait, loses none and never lets a younger one overtake (CDPClient).
THEOREM EventsArrive == Spec => []EventsReachTheirWait
<1>1. IInv => EventsReachTheirWait
  BY DEF IInv, Sound, EventsReachTheirWait
<1> QED
  BY <1>1, Invariance, PTL

\* A cleanup that recorded no error has left neither a download nor a download
\* configuration of the attempt in the engine (cleanup_raw_cdp_downloads).
THEOREM CleansUp == Spec => []SilentCleanup
<1>1. IInv => SilentCleanup
  <2> SUFFICES ASSUME IInv
               PROVE  SilentCleanup
    OBVIOUS
  <2>1. TypeOK /\ \A g \in terminal : download[g] \in DOWNLOAD_TERMINAL_STATES
    BY DEF IInv, Clean, Placed, Truthful
  <2>2. ASSUME pc = "closed", ~errors
        PROVE  BehaviorReset /\ DownloadsDrained
    <3>1. BehaviorReset
      BY <2>2 DEF IInv, Clean, ResetSoFar, BehaviorReset
    <3>2. DownloadsDrained
      BY <2>2 DEF IInv, Clean, Drained, DownloadsDrained, Drains
    <3> QED
      BY <3>1, <3>2
  <2> QED
    BY <2>1, <2>2 DEF SilentCleanup
<1> QED
  BY <1>1, Invariance, PTL

==============================================================================
