---------------------------- MODULE RawCdpDriver ----------------------------
(***************************************************************************)
(* run_raw_cdp_driver (run.py): one attempt whose driver is the runner     *)
(* itself, speaking CDP over a CdpClient.  It opens a page, runs the       *)
(* task's steps (commands and event waits) and, however that ended, tears  *)
(* down what outlives the page: active downloads, which would go on        *)
(* writing into a directory that is about to be renamed, and the download  *)
(* behaviour, which the engine keeps for the next attempt.                 *)
(*                                                                         *)
(* The engine is the environment: it answers each command with a result,   *)
(* an error or not at all, may apply a command whose answer is lost,       *)
(* starts downloads when it likes and announces them in the Browser        *)
(* domain, the deprecated Page domain, or both.                            *)
(***************************************************************************)
EXTENDS CdpClient

CONSTANTS
    Guids,        \* downloads, numbered in the order in which they begin
    Keys,         \* download configurations: method, session, browser context
    Steps,        \* the steps tasks are made of
    MaxSteps      \* bound on the steps of a task


DOWNLOAD_BEGIN_EVENTS ==
    [method \in {"Browser.downloadWillBegin", "Page.downloadWillBegin"} |->
        IF method = "Browser.downloadWillBegin" THEN "Browser" ELSE "Page"]
DOWNLOAD_PROGRESS_EVENTS ==
    [method \in {"Browser.downloadProgress", "Page.downloadProgress"} |->
        IF method = "Browser.downloadProgress" THEN "Browser" ELSE "Page"]
DOWNLOAD_TERMINAL_STATES == {"canceled", "completed"}
BeginMethods    == DOMAIN DOWNLOAD_BEGIN_EVENTS
ProgressMethods == DOMAIN DOWNLOAD_PROGRESS_EVENTS
Domains         == Range(DOWNLOAD_BEGIN_EVENTS)

(* What an engine sends; "attached" may or may not carry a session.       *)
EngineEvent ==
    [method: BeginMethods, guid: Guids]
        \union [method: ProgressMethods, guid: Guids, state: DOWNLOAD_TERMINAL_STATES]
        \union {[method |-> "Target.attachedToTarget", sessionId |-> "child"],
                [method |-> "Target.attachedToTarget"]}

Every(method)  == [method |-> method, match |-> <<>>]

(* One step of a task.  A command may configure downloads, may name the   *)
(* session it goes to, may save the session in its result under a name,   *)
(* and may be one whose rejection the task expects or tolerates; a wait   *)
(* may be optional and may save the event's session.                      *)
Step ==
    [kind: {"command"}, configures: Keys \union {"none"}, session: {"page", "browser", "child"},
     saves: BOOLEAN, tolerated: BOOLEAN]
        \union [kind: {"wait"}, saves: BOOLEAN, tolerated: BOOLEAN,
                want: {Every(m) : m \in BeginMethods \union ProgressMethods \union {"Target.attachedToTarget"}}]

NoStep == [kind |-> "none"]

ASSUME RawCdpAssumption ==
    /\ Event \subseteq EngineEvent
    /\ Guids \subseteq Nat \ {0} /\ "none" \notin Keys
    /\ Steps \subseteq Step /\ MaxSteps \in Nat

VARIABLES
    pc,           \* where the driver's thread is
    step,         \* the step or wait it is in
    steps,        \* steps begun
    child,        \* saved_sessions: the saved name is "unset", "none" (None) or "real"
    configs,      \* download_behavior_configs
    domains,      \* download_domains: guid -> domains that announced it
    terminal,     \* terminal_downloads
    todo,         \* guids the drain has still to visit
    guid,         \* guid being drained
    toWait,       \* domains it has still to wait for
    place,        \* place in configs the resets have come down to
    errors,       \* the cleanup recorded an error
    custom,       \* engine: configurations that are not the default
    download,     \* engine: guid -> "none", "active", or how it ended
    known         \* guids of the events received when the drain list was made

task   == <<step, steps, child, configs>>
books  == <<domains, terminal>>
drain  == <<todo, guid, toWait, place, errors>>
driver == <<pc, task, books, drain>>
engine == <<custom, download>>
world  == <<engine, known>>
vars   == <<connection, driver, world>>

NoGuid   == 0
Ended    == pc \in {"closed", "failed"}
PageOpen == ~Ended /\ pc # "open"

Init ==
    /\ log = <<>> /\ wire = <<>> /\ requests = <<>> /\ peer = TRUE
    /\ nextId = 1 /\ call = 0 /\ events = <<>> /\ taken = <<>>
    /\ pc = "open" /\ step = NoStep /\ steps = 0 /\ child = "unset"
    /\ configs = <<>>
    /\ domains = [g \in Guids |-> {}] /\ terminal = {}
    /\ todo = {} /\ guid = NoGuid /\ toWait = {} /\ place = 0 /\ errors = FALSE
    /\ custom = {} /\ download = [g \in Guids |-> "none"] /\ known = {}

----------------------------------------------------------------------------
(* The engine. *)

EngineEmits(e) == Emit(e) /\ UNCHANGED <<driver, known>>

BeginDownload(g, method) ==
    /\ PageOpen /\ download[g] = "none"
    /\ \A h \in Guids : h < g => download[h] # "none"
    /\ EngineEmits([method |-> method, guid |-> g])
    /\ download' = [download EXCEPT ![g] = "active"]
    /\ UNCHANGED custom

(* A download announced in one domain may be announced in the other too.  *)
AnnounceAgain(g, method) ==
    /\ ~Ended /\ download[g] = "active"
    /\ \A n \in DOMAIN log : log[n] # [method |-> method, guid |-> g]
    /\ EngineEmits([method |-> method, guid |-> g])
    /\ UNCHANGED engine

CompleteDownload(g) ==
    /\ ~Ended /\ download[g] = "active"
    /\ download' = [download EXCEPT ![g] = "completed"]
    /\ UNCHANGED <<connection, driver, custom, known>>

(* The end of a download is reported some time after it happened.         *)
ReportEnd(g, method) ==
    /\ ~Ended /\ download[g] \in DOWNLOAD_TERMINAL_STATES
    /\ LET e == [method |-> method, guid |-> g, state |-> download[g]] IN
        /\ \A n \in DOMAIN log : log[n] # e
        /\ EngineEmits(e)
    /\ UNCHANGED engine

ReportAttached(e) ==
    /\ ~Ended /\ e.method = "Target.attachedToTarget"
    /\ \A n \in DOMAIN log : log[n].method # e.method
    /\ EngineEmits(e) /\ UNCHANGED engine

Effect(cmd) ==
    CASE cmd.op = "configure" -> custom' = custom \union {cmd.arg} /\ UNCHANGED download
      [] cmd.op = "reset"     -> custom' = custom \ {cmd.arg} /\ UNCHANGED download
      [] cmd.op = "cancel"    ->
            /\ download' = [download EXCEPT ![cmd.arg] = IF @ = "active" THEN "canceled" ELSE @]
            /\ UNCHANGED custom
      [] OTHER                -> UNCHANGED engine

EngineServes(outcome) ==
    /\ ~Ended /\ Serve(outcome)
    /\ IF outcome = "error" THEN UNCHANGED engine ELSE Effect(Head(requests).cmd)
    /\ UNCHANGED <<driver, known>>

EngineHangsUp == ~Ended /\ HangUp /\ UNCHANGED <<driver, world>>

----------------------------------------------------------------------------
(* Commands of the driver: sent at one place, answered at another.        *)

Cmd(op, arg) == [op |-> op, arg |-> arg]

Send(cmd, waitAt) == SendCommand(cmd) /\ pc' = waitAt /\ UNCHANGED world

(* What command() gives its caller.                                       *)
Gets(outcome) ==
    CASE outcome = "result" -> CommandAnswered(TRUE)
      [] outcome = "error"  -> CommandAnswered(FALSE)
      [] outcome = "broken" -> CommandBreaks

Outcomes == {"result", "error", "broken"}

ReadPastFrame == CommandPasses /\ UNCHANGED <<driver, world>>

(* open_page_session: a page through the browser connection, or, when any *)
(* of that fails, a second connection to a flat page endpoint.  Nothing   *)
(* but the outcome is kept of the first connection, and an exception in   *)
(* the second leaves the driver before its try block.                     *)
OpenPage ==
    /\ pc = "open"
    /\ pc' \in {"prelude", "failed"}
    /\ UNCHANGED <<connection, task, books, drain, world>>

(* The page is brought to the task's start.  A rejected command is left   *)
(* to the steps; a broken connection or a late answer ends the attempt.   *)
Prelude ==
    /\ pc = "prelude"
    /\ pc' \in {"steps", "cleanup"}
    /\ UNCHANGED <<connection, task, books, drain, world>>

----------------------------------------------------------------------------
(* The steps. *)

BeginStep(s) ==
    /\ pc = "steps" /\ steps < MaxSteps
    /\ steps' = steps + 1

BeginWait(s) ==
    /\ s.kind = "wait" /\ BeginStep(s) /\ step' = s /\ pc' = "waiting"
    /\ UNCHANGED <<connection, child, configs, books, drain, world>>

(* step_session / resolve_named_session: a name nobody saved raises.      *)
UnknownSession(s) == s.kind = "command" /\ s.session = "child" /\ child = "unset"

BeginCommand(s) ==
    /\ s.kind = "command" /\ ~UnknownSession(s) /\ BeginStep(s) /\ step' = s
    /\ configs' = IF s.configures = "none" THEN configs ELSE Append(configs, s.configures)
    /\ Send(Cmd(IF s.configures = "none" THEN "other" ELSE "configure", s.configures), "commanding")
    /\ UNCHANGED <<child, books, drain>>

StepRaises(s) ==
    /\ UnknownSession(s) /\ BeginStep(s)
    /\ pc' = "cleanup"
    /\ UNCHANGED <<connection, step, child, configs, books, drain, world>>

(* A command that saves a session registers what the result carries, and  *)
(* a result without one registers None.                                   *)
CommandReturns ==
    /\ pc = "commanding"
    /\ \E outcome \in Outcomes, session \in {"real", "none"} :
        /\ Gets(outcome)
        /\ child' = IF outcome = "result" /\ step.saves THEN session ELSE child
        /\ pc' = IF outcome = "result" \/ (outcome = "error" /\ step.tolerated)
                 THEN "steps" ELSE "cleanup"
    /\ step' = NoStep
    /\ UNCHANGED <<steps, configs, books, drain, world>>

(* record_download_lifecycle_event, over a set of received events.        *)
IsDownloadEvent(n) == log[n].method \in BeginMethods \union ProgressMethods
DomainOf(n) ==
    IF log[n].method \in BeginMethods THEN DOWNLOAD_BEGIN_EVENTS[log[n].method]
    ELSE DOWNLOAD_PROGRESS_EVENTS[log[n].method]
Reports(n, g) == IsDownloadEvent(n) /\ log[n].guid = g

RecordLifecycle(received) ==
    /\ domains' = [g \in Guids |-> domains[g] \union {DomainOf(n) : n \in {m \in received : Reports(m, g)}}]
    /\ terminal' = terminal \union
        {g \in Guids : \E n \in received : Reports(n, g) /\ log[n].method \in ProgressMethods
                                            /\ log[n].state \in DOWNLOAD_TERMINAL_STATES}

(* The event a wait was just given.                                       *)
Given == taken'[Len(taken')].n

(* An event saved for its session must carry one.                         *)
WaitReturns ==
    /\ pc = "waiting"
    /\ WaitFindsBuffered(step.want) \/ WaitReads(step.want)
    /\ RecordLifecycle({Given})
    /\ LET carries == "sessionId" \in DOMAIN log[Given] IN
        /\ child' = IF step.saves /\ carries THEN "real" ELSE child
        /\ pc' = IF step.saves => carries THEN "steps" ELSE "cleanup"
    /\ step' = NoStep
    /\ UNCHANGED <<steps, configs, todo, guid, toWait, place, errors, world>>

WaitContinues ==
    /\ pc = "waiting" /\ WaitPasses(step.want)
    /\ UNCHANGED <<driver, world>>

WaitFails ==
    /\ pc = "waiting"
    /\ \/ WaitExpires(step.want) /\ pc' = IF step.tolerated THEN "steps" ELSE "cleanup"
       \/ WaitBreaks(step.want) /\ pc' = "cleanup"
    /\ step' = NoStep
    /\ UNCHANGED <<steps, child, configs, books, drain, world>>

(* The last step is done and the answer is graded.                        *)
FinishSteps ==
    /\ pc = "steps" /\ pc' = "cleanup"
    /\ UNCHANGED <<connection, task, books, drain, world>>

----------------------------------------------------------------------------
(* cleanup_raw_cdp_downloads and the rest of the finally block.           *)

(* Mutant: only the Browser domain's downloads are drained.               *)
KnownToBrowser(doms) == {g \in Guids : "Browser" \in doms[g]}

KnownTo(doms) == {g \in Guids : doms[g] # {}}

ScanBuffer == RecordLifecycle(Buffered)

PlanDrain ==
    /\ todo' = KnownTo(domains') \ terminal'
    /\ known' = {log[n].guid : n \in {m \in Buffered \union HandedOut : IsDownloadEvent(m)}}
    /\ pc' = "drain"

FirstScan ==
    /\ pc = "cleanup" /\ ScanBuffer
    /\ IF configs # <<>> /\ KnownTo(domains') = {}
       THEN pc' = "pump" /\ UNCHANGED <<todo, known>>
       ELSE PlanDrain
    /\ UNCHANGED <<connection, task, guid, toWait, place, errors, engine>>

Pump ==
    /\ pc = "pump" /\ PumpReads
    /\ UNCHANGED <<driver, world>>

PumpDone ==
    /\ pc = "pump" /\ PumpEnds
    /\ errors' \in {errors, errors \/ (~peer /\ wire = <<>>)}
    /\ ScanBuffer /\ PlanDrain
    /\ UNCHANGED <<task, guid, toWait, place, engine>>

CancelDownload(g) ==
    /\ pc = "drain" /\ g \in todo
    /\ guid' = g /\ Send(Cmd("cancel", g), "cancelling")
    /\ UNCHANGED <<task, domains, terminal, todo, toWait, place, errors>>

CancelReturns ==
    /\ pc = "cancelling"
    /\ \E outcome \in Outcomes : Gets(outcome) /\ errors' = (errors \/ outcome # "result")
    /\ ScanBuffer
    /\ IF guid \in terminal'
       THEN todo' = todo \ {guid} /\ pc' = "drain" /\ UNCHANGED toWait
       ELSE toWait' = domains'[guid] /\ pc' = "nextDomain" /\ UNCHANGED todo
    /\ UNCHANGED <<task, guid, place, world>>

EndOf(g, d) ==
    [method |-> CHOOSE m \in ProgressMethods : DOWNLOAD_PROGRESS_EVENTS[m] = d,
     match  |-> [guid |-> {g}, state |-> DOWNLOAD_TERMINAL_STATES]]

(* The domains that announced the guid are waited for one after another,  *)
(* until one reports its end.                                             *)
NextDomain ==
    /\ pc = "nextDomain"
    /\ IF toWait = {}
       THEN todo' = todo \ {guid} /\ pc' = "drain" /\ UNCHANGED <<step, toWait>>
       ELSE \E d \in toWait :
                /\ toWait' = toWait \ {d}
                /\ step' = [kind |-> "wait", want |-> EndOf(guid, d)]
                /\ pc' = "draining" /\ UNCHANGED todo
    /\ UNCHANGED <<connection, steps, child, configs, domains, terminal, guid, place, errors, world>>

DrainReturns ==
    /\ pc = "draining"
    /\ WaitFindsBuffered(step.want) \/ WaitReads(step.want)
    /\ RecordLifecycle({Given})
    /\ todo' = todo \ {guid} /\ pc' = "drain"
    /\ step' = NoStep
    /\ UNCHANGED <<steps, child, configs, guid, toWait, place, errors, world>>

DrainContinues ==
    /\ pc = "draining" /\ WaitPasses(step.want)
    /\ UNCHANGED <<driver, world>>

DrainFails ==
    /\ pc = "draining"
    /\ WaitExpires(step.want) \/ WaitBreaks(step.want)
    /\ errors' = TRUE /\ pc' = "nextDomain"
    /\ step' = NoStep
    /\ UNCHANGED <<steps, child, configs, domains, terminal, todo, guid, toWait, place, world>>

(* Every distinct configuration once, in reverse order: the places in     *)
(* front of the present one whose configuration has not been met behind.  *)
Unreset ==
    {i \in 1 .. place - 1 : \A j \in place .. Len(configs) : configs[j] # configs[i]}

PlanResets ==
    /\ pc = "drain" /\ todo = {}
    /\ place' = Len(configs) + 1
    /\ pc' = "reset"
    /\ UNCHANGED <<connection, task, domains, terminal, todo, guid, toWait, errors, world>>

ResetBehavior ==
    /\ pc = "reset"
    /\ \E i \in Unreset :
        /\ \A j \in Unreset : j <= i
        /\ place' = i /\ Send(Cmd("reset", configs[i]), "resetting")
    /\ UNCHANGED <<task, books, todo, guid, toWait, errors>>

ResetReturns ==
    /\ pc = "resetting"
    /\ \E outcome \in Outcomes : Gets(outcome) /\ errors' = (errors \/ outcome # "result")
    /\ pc' = "reset"
    /\ UNCHANGED <<task, books, todo, guid, toWait, place, world>>

(* Target.closeTarget, whose failure is ignored, and client.close().      *)
Close ==
    /\ pc = "reset" /\ Unreset = {}
    /\ pc' = "closed"
    /\ UNCHANGED <<connection, task, books, drain, world>>

----------------------------------------------------------------------------
DriverRuns ==
    \/ \E s \in Steps : BeginWait(s) \/ BeginCommand(s) \/ StepRaises(s)
    \/ CommandReturns \/ WaitReturns \/ WaitContinues \/ WaitFails \/ FinishSteps
DriverCleans ==
    \/ FirstScan \/ Pump \/ PumpDone \/ (\E g \in Guids : CancelDownload(g)) \/ CancelReturns
    \/ NextDomain \/ DrainReturns \/ DrainContinues \/ DrainFails
    \/ PlanResets \/ ResetBehavior \/ ResetReturns \/ Close

DriverThread == ReadPastFrame \/ OpenPage \/ Prelude \/ DriverRuns \/ DriverCleans

EngineActs ==
    \/ \E g \in Guids, m \in BeginMethods : BeginDownload(g, m) \/ AnnounceAgain(g, m)
    \/ \E g \in Guids : CompleteDownload(g)
    \/ \E g \in Guids, m \in ProgressMethods : ReportEnd(g, m)
    \/ \E e \in Event : ReportAttached(e)
    \/ \E outcome \in {"ok", "error", "silent"} : EngineServes(outcome)
    \/ EngineHangsUp

Next == DriverThread \/ EngineActs

Spec     == Init /\ [][Next]_vars

(* Where the thread is inside command(): opening a page, bringing it to   *)
(* the start and closing it are commands too.                             *)
Asking == call # 0 \/ pc \in {"open", "prelude"} \/ (pc = "reset" /\ Unreset = {})

(* The thread runs on, and a wait or a pump has a deadline.  command()    *)
(* has a timeout for each read and none for them all: while the engine    *)
(* is there it reads what has come, and nothing says that the read which  *)
(* ends it ever happens (the model's engine stops at MaxEvents, a real    *)
(* one need not).  When the engine has gone the stream ends.              *)
Reading  == call # 0 /\ wire # <<>>
FairSpec == Spec /\ WF_vars((Asking /\ peer => Reading) /\ DriverThread)

----------------------------------------------------------------------------
TypeOK ==
    /\ steps \in 0 .. MaxSteps /\ child \in {"unset", "none", "real"}
    /\ errors \in BOOLEAN
    /\ configs \in Seq(Keys) /\ place \in 0 .. Len(configs) + 1
    /\ domains \in [Guids -> SUBSET Domains]
    /\ terminal \subseteq Guids /\ todo \subseteq Guids /\ known \subseteq Guids
    /\ toWait \subseteq Domains
    /\ custom \subseteq Keys
    /\ download \in [Guids -> {"none", "active"} \union DOWNLOAD_TERMINAL_STATES]

(* The engine has the default download behaviour again, whatever step     *)
(* failed, and also when the command that changed it was applied and its  *)
(* answer lost.                                                           *)
BehaviorReset == custom = {}

(* No download runs that the client had heard of when the drain began,    *)
(* whether the event was still buffered or a wait had consumed it.        *)
DownloadsDrained == \A g \in known : download[g] # "active"

(* cleanup_raw_cdp_downloads: a cleanup that recorded no error has left   *)
(* nothing of the attempt in the engine, and at every moment a guid       *)
(* counted as ended has ended there.                                      *)
SilentCleanup ==
    /\ TypeOK
    /\ pc = "closed" /\ ~errors => BehaviorReset /\ DownloadsDrained
    /\ \A g \in terminal : download[g] \in DOWNLOAD_TERMINAL_STATES

(* The driver gets to its end whatever step fails, unless an engine that  *)
(* never goes away keeps it in one command for ever: no wait, pump, drain *)
(* or reset hangs, and none survives the end of the connection.           *)
Closes == <>Ended \/ <>[](Asking /\ peer)

=============================================================================
