----------------------------- MODULE CdpClient -----------------------------
(***************************************************************************)
(* CDPClient (run.py): one WebSocket to an engine, used by one thread that *)
(* has at most one command in flight.  The engine answers by number and    *)
(* sends events whenever it likes, so a command, a wait and the pump each  *)
(* meet frames that are meant for somebody else:                           *)
(*   - command() buffers the events it meets and skips other answers,      *)
(*   - wait_for_event() looks into the buffer first, then reads, buffers   *)
(*     what does not match and skips answers,                              *)
(*   - pump_pending_events() only buffers.                                 *)
(*                                                                         *)
(* The operators of this module constrain the connection's variables       *)
(* alone; a module that uses the client says what the rest of the program  *)
(* does in the same step.                                                  *)
(***************************************************************************)
EXTENDS Naturals, Sequences, FiniteSets, Functions, SequencesExt

CONSTANTS
    Event,        \* the events an engine can send, records with a "method"
    MaxEvents,    \* bound on the events sent over one connection
    MaxWire       \* bound on the frames under way when the engine sends an event

ASSUME CdpClientAssumption == MaxEvents \in Nat /\ MaxWire \in Nat /\ \A e \in Event : "method" \in DOMAIN e

VARIABLES
    log,          \* every event the engine sent on this connection, in order
    wire,         \* frames on their way to the client
    requests,     \* commands sent and not yet looked at by the engine
    peer,         \* FALSE once the engine has gone away
    nextId,       \* self.next_id
    call,         \* number of the command that waits for its answer, 0 if none
    events,       \* self.events: buffered events, as positions in log
    taken         \* events handed to a wait: [n: position, want: what it asked for]

connection == <<log, wire, requests, peer, nextId, call, events, taken>>

(* A frame is an event (by its position in log) or an answer.             *)
EventFrame(n)    == [kind |-> "event", n |-> n, ok |-> TRUE]
Answer(id, ok)   == [kind |-> "answer", n |-> id, ok |-> ok]
IsEvent(frame)   == frame.kind = "event"

Buffered  == Range(events)
HandedOut == {taken[k].n : k \in DOMAIN taken}
InFlight  == {wire[k].n : k \in {j \in DOMAIN wire : IsEvent(wire[j])}}

Connect ==
    /\ log' = <<>> /\ wire' = <<>> /\ requests' = <<>>
    /\ peer' = TRUE
    /\ nextId' = 1 /\ call' = 0
    /\ events' = <<>> /\ taken' = <<>>

(* A subset match: every field the match names is present in the event    *)
(* with one of the values the match allows (one, or the members of a      *)
(* "one of" list).                                                         *)
EventParamsMatch(event, match) ==
    \A field \in DOMAIN match :
        field \in DOMAIN event /\ event[field] \in match[field]

(* want: the method waited for and the fields it must carry; a wait that  *)
(* names a session carries it among the fields.                           *)
EventMatches(n, want) ==
    /\ log[n].method = want.method
    /\ EventParamsMatch(log[n], want.match)

Matching(want) == {k \in DOMAIN events : EventMatches(events[k], want)}

----------------------------------------------------------------------------
(* The engine's end. *)

Emit(e) ==
    /\ peer /\ e \in Event
    /\ Len(log) < MaxEvents /\ Len(wire) < MaxWire
    /\ log' = Append(log, e)
    /\ wire' = Append(wire, EventFrame(Len(log) + 1))
    /\ UNCHANGED <<requests, peer, nextId, call, events, taken>>

(* The engine looks at the oldest request and answers it, with a result   *)
(* or an error, or never answers ("silent").                              *)
Serve(outcome) ==
    /\ peer /\ requests # <<>>
    /\ requests' = Tail(requests)
    /\ wire' = IF outcome = "silent" THEN wire
               ELSE Append(wire, Answer(Head(requests).id, outcome = "ok"))
    /\ UNCHANGED <<log, peer, nextId, call, events, taken>>

(* A close frame or an end of file behind the frames already sent.        *)
HangUp ==
    /\ peer /\ peer' = FALSE
    /\ UNCHANGED <<log, wire, requests, nextId, call, events, taken>>

----------------------------------------------------------------------------
(* command(): send, then read until the answer with this number.          *)

SendCommand(cmd) ==
    /\ call = 0
    /\ call' = nextId /\ nextId' = nextId + 1
    /\ requests' = IF peer THEN Append(requests, [id |-> nextId, cmd |-> cmd]) ELSE requests
    /\ UNCHANGED <<log, wire, peer, events, taken>>

IsMyAnswer(frame) == ~IsEvent(frame) /\ frame.n = call

(* Mutant: events met while a command waits are dropped.                  *)
CommandDrops ==
    /\ call # 0 /\ wire # <<>> /\ ~IsMyAnswer(Head(wire))
    /\ wire' = Tail(wire)
    /\ UNCHANGED <<log, requests, peer, nextId, call, events, taken>>

(* A frame that is not the answer: an event is buffered, an answer to     *)
(* another command is skipped.                                            *)
CommandPasses ==
    /\ call # 0 /\ wire # <<>> /\ ~IsMyAnswer(Head(wire))
    /\ wire' = Tail(wire)
    /\ events' = IF IsEvent(Head(wire)) THEN Append(events, Head(wire).n) ELSE events
    /\ UNCHANGED <<log, requests, peer, nextId, call, taken>>

CommandAnswered(ok) ==
    /\ call # 0 /\ wire # <<>> /\ IsMyAnswer(Head(wire))
    /\ Head(wire).ok = ok
    /\ wire' = Tail(wire) /\ call' = 0
    /\ UNCHANGED <<log, requests, peer, nextId, events, taken>>

(* Mutant: the end of the stream is taken for silence and read again.     *)
CommandIgnoresEnd ==
    /\ call # 0 /\ wire = <<>> /\ peer
    /\ call' = 0
    /\ UNCHANGED <<log, wire, requests, peer, nextId, events, taken>>

(* No frame arrives for the socket's timeout, or the peer has gone: an    *)
(* exception that is no CDPCommandError.  The timeout is of each read, so *)
(* it may never come from an engine that goes on sending.                 *)
CommandBreaks ==
    /\ call # 0 /\ wire = <<>>
    /\ call' = 0
    /\ UNCHANGED <<log, wire, requests, peer, nextId, events, taken>>

----------------------------------------------------------------------------
(* wait_for_event() *)

(* The first buffered event that matches.                                 *)
WaitFindsBuffered(want) ==
    /\ \E k \in Matching(want) :
        /\ \A j \in Matching(want) : k <= j
        /\ events' = RemoveAt(events, k)
        /\ taken' = Append(taken, [n |-> events[k], want |-> want])
    /\ UNCHANGED <<log, wire, requests, peer, nextId, call>>

WaitReads(want) ==
    /\ Matching(want) = {} /\ wire # <<>>
    /\ IsEvent(Head(wire)) /\ EventMatches(Head(wire).n, want)
    /\ wire' = Tail(wire)
    /\ taken' = Append(taken, [n |-> Head(wire).n, want |-> want])
    /\ UNCHANGED <<log, requests, peer, nextId, call, events>>

(* An event for somebody else, or an answer that comes too late.          *)
WaitPasses(want) ==
    /\ Matching(want) = {} /\ wire # <<>>
    /\ IsEvent(Head(wire)) => ~EventMatches(Head(wire).n, want)
    /\ wire' = Tail(wire)
    /\ events' = IF IsEvent(Head(wire)) THEN Append(events, Head(wire).n) ELSE events
    /\ UNCHANGED <<log, requests, peer, nextId, call, taken>>

(* The deadline may pass with frames still unread; a dropped connection   *)
(* is only noticed when there is nothing left to read.                    *)
WaitExpires(want) == Matching(want) = {} /\ UNCHANGED connection
WaitBreaks(want)  == Matching(want) = {} /\ wire = <<>> /\ ~peer /\ UNCHANGED connection

----------------------------------------------------------------------------
(* pump_pending_events(): buffers what arrives, until its short deadline. *)

PumpReads ==
    /\ wire # <<>>
    /\ wire' = Tail(wire)
    /\ events' = IF IsEvent(Head(wire)) THEN Append(events, Head(wire).n) ELSE events
    /\ UNCHANGED <<log, requests, peer, nextId, call, taken>>

PumpEnds == UNCHANGED connection

----------------------------------------------------------------------------
ConnectionTypeOK ==
    /\ log \in Seq(Event) /\ Len(log) <= MaxEvents
    /\ \A k \in DOMAIN wire : wire[k] \in [kind: {"event", "answer"}, n: Nat \ {0}, ok: BOOLEAN]
    /\ peer \in BOOLEAN
    /\ nextId \in Nat \ {0} /\ call \in 0 .. nextId - 1
    /\ events \in Seq(DOMAIN log)
    /\ HandedOut \subseteq DOMAIN log

(* No command, wait or pump loses an event of the engine or delivers it   *)
(* twice: each one is on the wire, in the buffer, or was handed to one    *)
(* wait, and the buffer keeps the order of arrival.                       *)
EventsConserved ==
    /\ ConnectionTypeOK
    /\ DOMAIN log = InFlight \union Buffered \union HandedOut
    /\ Len(taken) + Len(events) + Cardinality(InFlight) = Len(log)
    /\ \A i, j \in DOMAIN events : i < j => events[i] < events[j]
    /\ \A n \in InFlight, m \in Buffered : m < n

(* A wait is given the oldest event it could be given: whatever it was    *)
(* handed, the older events that match went to earlier waits.  A task     *)
(* that waits twice for the same event sees the engine's order even when  *)
(* commands in between read the events off the socket.                    *)
OldestMatchFirst ==
    \A k \in DOMAIN taken : \A n \in 1 .. taken[k].n - 1 :
        EventMatches(n, taken[k].want) => \E i \in 1 .. k - 1 : taken[i].n = n

(* The buffer that commands, waits and pumps share gives every event to   *)
(* at most one wait, loses none and never lets a younger one overtake.    *)
EventsReachTheirWait == EventsConserved /\ OldestMatchFirst

=============================================================================
