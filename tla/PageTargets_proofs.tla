--------------------------- MODULE PageTargets_proofs ---------------------------
(***************************************************************************)
(* What the cleanup around a driver promises, for any plans, lanes, pages  *)
(* and failures: it spares what was there, it says nothing was left only   *)
(* when that was so, and no attempt touches the daemon of another.  The    *)
(* inductive invariant IInv follows the snapshot through the cleanup: what *)
(* is still to be closed, asked or found again is compared with the look   *)
(* the driver began with, or with nothing.                                 *)
(***************************************************************************)
EXTENDS PageTargets, FiniteSetTheorems, TLAPS

Stage == {"idle", "before", "driver", "force_close", "remove", "after", "close", "final",
          "again", "retry", "confirm", "open", "raw"}
Cleaning == {"close", "final", "again", "retry", "confirm"}
Error == {"before", "after", "close", "final", "retry", "remaining"}
Seen == [start : SUBSET Nat, asked : SUBSET Nat, upto : Nat, struck : SUBSET Attempt]

\* What the variables are functions of.
Shape ==
    /\ plan \in Plans /\ faults \in 0 .. MaxFaults
    /\ pc \in [Lane -> Stage] /\ at \in [Lane -> Nat] /\ opened \in [Lane -> Nat]
    /\ live \in [Lane -> SUBSET Nat] /\ closing \in [Lane -> SUBSET Nat]
    /\ todo \in [Lane -> SUBSET Nat] /\ owned \in [Lane -> SUBSET Nat]
    /\ before \in [Lane -> {None} \cup SUBSET Nat]
    /\ errors \in [Lane -> SUBSET Error]
    /\ seen \in [Lane -> Seen]
    /\ daemon \in [Attempt -> {"none", "starting", "live", "closing", "gone"}]
    /\ files \in [Attempt -> SUBSET {"socket", "pid", "config"}]

\* The pages of a lane are those opened so far, and none is listed twice.
Bounded(l) ==
    /\ at[l] <= Len(Work[l]) /\ opened[l] <= MaxPages[l]
    /\ live[l] \cap closing[l] = {}
    /\ live[l] \subseteq 0 .. opened[l] /\ closing[l] \subseteq 0 .. opened[l]
    /\ todo[l] \subseteq 0 .. opened[l] /\ owned[l] \subseteq 0 .. opened[l]
    /\ before[l] = None \/ before[l] \subseteq 0 .. opened[l]
    /\ seen[l].upto <= opened[l]

\* A lane that is not idle is in an attempt; only a raw-CDP driver has the
\* stages of one.
Attempted(l) ==
    /\ pc[l] # "idle" => at[l] > 0
    /\ pc[l] \in {"open", "raw"} => Work[l][at[l]].kind = "raw_cdp"

\* The snapshot, if there is one, is what the driver began with; without one
\* the cleanup never gets to closing.
Compared(l) ==
    /\ before[l] # None => before[l] = seen[l].start
    /\ pc[l] = "before" => before[l] = None /\ seen[l].asked = {}
    /\ pc[l] \in Cleaning => before[l] # None

\* What is to be closed, or was, was not there before, and none of it is a
\* daemon of another.
Chosen(l) ==
    /\ todo[l] # {} => pc[l] \in {"close", "retry"}
    /\ todo[l] \cap seen[l].start = {}
    /\ seen[l].asked \cap seen[l].start = {}
    /\ seen[l].struck = {}

\* LeaksAreReported for one lane.
Reported(l) ==
    pc[l] = "idle" /\ at[l] > 0 /\ Work[l][at[l]].kind # "raw_cdp" /\ errors[l] = {} =>
    \A p \in Listed(l) \ seen[l].start : p > seen[l].upto

\* The inductive invariant of a lane: Chosen needs Compared, which carries the
\* snapshot to where it is used, and Reported needs the bound of Bounded on what
\* a look has seen.
LaneInv(l) == Bounded(l) /\ Attempted(l) /\ Compared(l) /\ Chosen(l) /\ Reported(l)

\* A daemon that lives or is closing has its files.
Filed == \A a \in Attempt : daemon[a] \in {"live", "closing"} => files[a] = {"socket", "pid"}

IInv == Shape /\ Filed /\ \A l \in Lane : LaneInv(l)

-----------------------------------------------------------------------------
(* The plan, and the namespaces of its attempts.                              *)

\* The work of a lane is a sequence and its bound on pages a number.
LEMMA PlanTypes ==
    ASSUME plan \in Plans, NEW l \in Lane
    PROVE  /\ Work[l] \in Seq([task : STRING, engine : STRING, attempt : Nat,
                               kind : {"raw_cdp", "framework", "probe", "agent_browser"}])
           /\ Len(Work[l]) \in Nat /\ DOMAIN Work[l] = 1 .. Len(Work[l])
           /\ MaxPages[l] \in Nat
<1>1. /\ Work[l] \in Seq([task : STRING, engine : STRING, attempt : Nat,
                          kind : {"raw_cdp", "framework", "probe", "agent_browser"}])
      /\ MaxPages[l] \in Nat
      BY WorkAssumption DEF Work, MaxPages
<1> QED BY <1>1

\* No two attempts share a namespace (configure_agent_browser_attempt_env).
LEMMA SharesAlone ==
    ASSUME plan \in Plans, NEW a \in Attempt PROVE Shares(a) = {a}
<1>1. \A b \in Attempt : \E l \in Lane : \E i \in DOMAIN Work[l] : b = <<l, i>> BY DEF Attempt
<1>2. PICK l \in Lane : \E i \in DOMAIN Work[l] : a = <<l, i>> BY <1>1
<1>3. PICK i \in DOMAIN Work[l] : a = <<l, i>> BY <1>2
<1>4. ASSUME NEW b \in Attempt, Namespace(b) = Namespace(a) PROVE b = a
  <2>1. PICK k \in Lane : \E j \in DOMAIN Work[k] : b = <<k, j>> BY <1>1
  <2>2. PICK j \in DOMAIN Work[k] : b = <<k, j>> BY <2>1
  <2>3. /\ Work[k][j].task = Work[l][i].task /\ Work[k][j].engine = Work[l][i].engine
        /\ Work[k][j].attempt = Work[l][i].attempt
        BY <1>3, <1>4, <2>2 DEF Namespace, JobOf
  <2> QED BY <1>3, <2>2, <2>3, OnceAssumption DEF Work
<1> QED BY <1>4 DEF Shares

\* The attempt of a lane that is not idle is one of the plan.
LEMMA CurrentIsPlanned ==
    ASSUME IInv, NEW l \in Lane, at[l] > 0 PROVE Current(l) \in Attempt
<1>1. at[l] \in 1 .. Len(Work[l]) BY PlanTypes DEF IInv, Shape, LaneInv, Bounded
<1>2. at[l] \in DOMAIN Work[l] BY <1>1, PlanTypes DEF IInv, Shape
<1> QED BY <1>2 DEF Current, Attempt

\* The plan does not change, nor do its attempts.
LEMMA PlanStays ==
    ASSUME UNCHANGED plan
    PROVE  Attempt' = Attempt /\ Work' = Work /\ MaxPages' = MaxPages /\ Seen' = Seen
BY DEF Attempt, Work, MaxPages, Seen

-----------------------------------------------------------------------------
(* A step of a lane leaves the others alone.                                  *)

Same(l) ==
    /\ pc'[l] = pc[l] /\ at'[l] = at[l] /\ opened'[l] = opened[l] /\ live'[l] = live[l]
    /\ closing'[l] = closing[l] /\ todo'[l] = todo[l] /\ owned'[l] = owned[l]
    /\ before'[l] = before[l] /\ errors'[l] = errors[l] /\ seen'[l] = seen[l]

\* Of a lane that is as it was the invariant holds as it did.
LEMMA SameKeeps ==
    ASSUME IInv, UNCHANGED plan, NEW l \in Lane, Same(l) PROVE LaneInv(l)'
<1>1. LaneInv(l) BY DEF IInv
<1> QED BY <1>1, PlanStays
        DEF Same, LaneInv, Bounded, Attempted, Compared, Chosen, Reported, Listed

\* So a step of one lane keeps IInv when it keeps the types, that lane and the
\* daemons' files.
LEMMA LaneStep ==
    ASSUME IInv, UNCHANGED plan, NEW l \in Lane, \A k \in Lane \ {l} : Same(k),
           Shape', Filed', LaneInv(l)'
    PROVE  IInv'
<1>1. ASSUME NEW k \in Lane PROVE LaneInv(k)'
  <2>1. CASE k = l BY <2>1
  <2>2. CASE k # l BY <2>2, SameKeeps
  <2> QED BY <2>1, <2>2
<1> QED BY <1>1 DEF IInv

\* A step of a daemon leaves every lane alone.
LEMMA DaemonStep ==
    ASSUME IInv, UNCHANGED <<plan, pc, at, pages, before, todo, errors, owned, faults, seen>>,
           NEW a \in Attempt,
           NEW to \in {"none", "starting", "live", "closing", "gone"},
           NEW left \in SUBSET {"socket", "pid", "config"},
           daemon' = [daemon EXCEPT ![a] = to], files' = [files EXCEPT ![a] = left],
           to \in {"live", "closing"} => left = {"socket", "pid"}
    PROVE  IInv'
<1>1. \A l \in Lane : LaneInv(l)'
      BY SameKeeps DEF Same, pages
<1>2. Shape' BY PlanStays DEF IInv, Shape, pages
<1>3. Filed' BY PlanStays DEF IInv, Shape, Filed
<1> QED BY <1>1, <1>2, <1>3 DEF IInv

-----------------------------------------------------------------------------
(* One lemma per action.                                                      *)

\* A page that opens is newer than every look so far.
LEMMA OpenPageKeeps == ASSUME IInv, NEW l \in Lane, OpenPage(l), UNCHANGED plan PROVE IInv'
<1> USE PlanStays DEF OpenPage, daemons, Listed
<1>1. /\ LaneInv(l) /\ Shape /\ Filed /\ seen[l] \in Seen
      /\ Len(Work[l]) \in Nat /\ MaxPages[l] \in Nat
      BY PlanTypes DEF IInv, Shape
<1>2. \A k \in Lane \ {l} : Same(k) BY <1>1 DEF Same, Shape
<1>3. Shape' BY <1>1 DEF Shape, Seen, Stage, Error, LaneInv, Bounded
<1>4. Filed' BY <1>1 DEF Filed, Shape
<1>5. Bounded(l)' BY <1>1 DEF Shape, Seen, LaneInv, Bounded
<1>6. Attempted(l)' BY <1>1 DEF Shape, LaneInv, Attempted
<1>7. Compared(l)' BY <1>1 DEF Shape, Seen, LaneInv, Compared, Cleaning
<1>8. Chosen(l)' BY <1>1 DEF Shape, Seen, LaneInv, Chosen, Compared
<1>9. Reported(l)' BY <1>1 DEF Shape, Seen, LaneInv, Reported, Bounded, Attempted, Compared
<1> QED BY <1>2, <1>3, <1>4, <1>5, <1>6, <1>7, <1>8, <1>9, LaneStep DEF LaneInv

\* A page on its way out is still listed.
LEMMA ClosePageKeeps == ASSUME IInv, NEW l \in Lane, ClosePage(l), UNCHANGED plan PROVE IInv'
<1> USE PlanStays DEF ClosePage, daemons, Listed
<1>1. /\ LaneInv(l) /\ Shape /\ Filed /\ seen[l] \in Seen
      /\ Len(Work[l]) \in Nat /\ MaxPages[l] \in Nat
      BY PlanTypes DEF IInv, Shape
<1>2. \A k \in Lane \ {l} : Same(k) BY <1>1 DEF Same, Shape
<1>3. Shape' BY <1>1 DEF Shape, Seen, Stage, Error, LaneInv, Bounded
<1>4. Filed' BY <1>1 DEF Filed, Shape
<1>5. Bounded(l)' BY <1>1 DEF Shape, Seen, LaneInv, Bounded
<1>6. Attempted(l)' BY <1>1 DEF Shape, LaneInv, Attempted
<1>7. Compared(l)' BY <1>1 DEF Shape, Seen, LaneInv, Compared, Cleaning
<1>8. Chosen(l)' BY <1>1 DEF Shape, Seen, LaneInv, Chosen, Compared
<1>9. Reported(l)' BY <1>1 DEF Shape, Seen, LaneInv, Reported, Bounded, Attempted, Compared
<1> QED BY <1>2, <1>3, <1>4, <1>5, <1>6, <1>7, <1>8, <1>9, LaneStep DEF LaneInv

\* Less is listed.
LEMMA VanishKeeps == ASSUME IInv, NEW l \in Lane, Vanish(l), UNCHANGED plan PROVE IInv'
<1> USE PlanStays DEF Vanish, daemons, Listed
<1>1. /\ LaneInv(l) /\ Shape /\ Filed /\ seen[l] \in Seen
      /\ Len(Work[l]) \in Nat /\ MaxPages[l] \in Nat
      BY PlanTypes DEF IInv, Shape
<1>2. \A k \in Lane \ {l} : Same(k) BY <1>1 DEF Same, Shape
<1>3. Shape' BY <1>1 DEF Shape, Seen, Stage, Error, LaneInv, Bounded
<1>4. Filed' BY <1>1 DEF Filed, Shape
<1>5. Bounded(l)' BY <1>1 DEF Shape, Seen, LaneInv, Bounded
<1>6. Attempted(l)' BY <1>1 DEF Shape, LaneInv, Attempted
<1>7. Compared(l)' BY <1>1 DEF Shape, Seen, LaneInv, Compared, Cleaning
<1>8. Chosen(l)' BY <1>1 DEF Shape, Seen, LaneInv, Chosen, Compared
<1>9. Reported(l)' BY <1>1 DEF Shape, Seen, LaneInv, Reported, Bounded, Attempted, Compared
<1> QED BY <1>2, <1>3, <1>4, <1>5, <1>6, <1>7, <1>8, <1>9, LaneStep DEF LaneInv

\* A new daemon has no files yet; they come with it, and go when it goes.
LEMMA DaemonsKeep ==
    ASSUME IInv, NEW a \in Attempt, UNCHANGED plan,
           SpawnDaemon(a) \/ DaemonUp(a) \/ DaemonCloses(a) \/ DaemonGoes(a)
    PROVE  IInv'
<1>1. CASE SpawnDaemon(a) BY <1>1, DaemonStep DEF SpawnDaemon, SetDaemon
<1>2. CASE DaemonUp(a) BY <1>2, DaemonStep DEF DaemonUp, SetDaemon
<1>3. CASE DaemonCloses(a) BY <1>3, DaemonStep DEF DaemonCloses, SetDaemon
<1>4. CASE SetDaemon(a, "starting", "gone", {}) BY <1>4, DaemonStep DEF SetDaemon
<1>5. CASE SetDaemon(a, "live", "gone", {"config"}) BY <1>5, DaemonStep DEF SetDaemon
<1> QED BY <1>1, <1>2, <1>3, <1>4, <1>5 DEF DaemonGoes

\* A new attempt forgets the snapshot and what was asked.
LEMMA BeginKeeps == ASSUME IInv, NEW l \in Lane, Begin(l), UNCHANGED plan PROVE IInv'
<1> USE PlanStays DEF Begin, Goto, pages, daemons, Listed
<1>1. /\ LaneInv(l) /\ Shape /\ Filed /\ seen[l] \in Seen
      /\ Len(Work[l]) \in Nat /\ MaxPages[l] \in Nat
      BY PlanTypes DEF IInv, Shape
<1>2. \A k \in Lane \ {l} : Same(k) BY <1>1 DEF Same, Shape
<1>3. Shape'
  <2>1. seen' \in [Lane -> Seen] BY <1>1 DEF Shape, Seen
  <2>2. pc' \in [Lane -> Stage] BY <1>1 DEF Shape, Stage, Cleaning
  <2>3. errors' \in [Lane -> SUBSET Error] BY <1>1 DEF Shape, Error
  <2>4. faults' \in 0 .. MaxFaults BY <1>1, FaultsAssumption DEF Shape
  <2> QED BY <1>1, <2>1, <2>2, <2>3, <2>4 DEF Shape
<1>4. Filed' BY <1>1 DEF Filed, Shape
<1>5. Bounded(l)' BY <1>1 DEF Shape, Seen, LaneInv, Bounded
<1>6. Attempted(l)' BY <1>1 DEF Shape, LaneInv, Attempted
<1>7. Compared(l)' BY <1>1 DEF Shape, Seen, LaneInv, Compared, Cleaning
<1>8. Chosen(l)' BY <1>1 DEF Shape, Seen, LaneInv, Chosen, Compared
<1>9. Reported(l)' BY <1>1 DEF Shape, Seen, LaneInv, Reported, Bounded, Attempted, Compared
<1> QED BY <1>2, <1>3, <1>4, <1>5, <1>6, <1>7, <1>8, <1>9, LaneStep DEF LaneInv

\* The snapshot is what the driver begins with, or there is none.
LEMMA LookBeforeKeeps == ASSUME IInv, NEW l \in Lane, LookBefore(l), UNCHANGED plan PROVE IInv'
<1> USE PlanStays DEF LookBefore, Goto, Report, Fault, NoFault, pages, daemons, Listed
<1>1. /\ LaneInv(l) /\ Shape /\ Filed /\ seen[l] \in Seen
      /\ Len(Work[l]) \in Nat /\ MaxPages[l] \in Nat
      BY PlanTypes DEF IInv, Shape
<1>2. \A k \in Lane \ {l} : Same(k) BY <1>1 DEF Same, Shape
<1>3. Shape'
  <2>1. seen' \in [Lane -> Seen] BY <1>1 DEF Shape, Seen
  <2>2. pc' \in [Lane -> Stage] BY <1>1 DEF Shape, Stage, Cleaning
  <2>3. errors' \in [Lane -> SUBSET Error] BY <1>1 DEF Shape, Error
  <2>4. faults' \in 0 .. MaxFaults BY <1>1, FaultsAssumption DEF Shape
  <2> QED BY <1>1, <2>1, <2>2, <2>3, <2>4 DEF Shape
<1>4. Filed' BY <1>1 DEF Filed, Shape
<1>5. Bounded(l)' BY <1>1 DEF Shape, Seen, LaneInv, Bounded
<1>6. Attempted(l)' BY <1>1 DEF Shape, LaneInv, Attempted
<1>7. Compared(l)' BY <1>1 DEF Shape, Seen, LaneInv, Compared, Cleaning
<1>8. Chosen(l)' BY <1>1 DEF Shape, Seen, LaneInv, Chosen, Compared
<1>9. Reported(l)' BY <1>1 DEF Shape, Seen, LaneInv, Reported, Bounded, Attempted, Compared
<1> QED BY <1>2, <1>3, <1>4, <1>5, <1>6, <1>7, <1>8, <1>9, LaneStep DEF LaneInv

\* The driver ends; nothing is looked at.
LEMMA DriverEndsKeeps == ASSUME IInv, NEW l \in Lane, DriverEnds(l), UNCHANGED plan PROVE IInv'
<1> USE PlanStays DEF DriverEnds, Goto, pages, daemons, Listed
<1>1. /\ LaneInv(l) /\ Shape /\ Filed /\ seen[l] \in Seen
      /\ Len(Work[l]) \in Nat /\ MaxPages[l] \in Nat
      BY PlanTypes DEF IInv, Shape
<1>2. \A k \in Lane \ {l} : Same(k) BY <1>1 DEF Same, Shape
<1>3. Shape' BY <1>1 DEF Shape, Seen, Stage, Error, LaneInv, Bounded
<1>4. Filed' BY <1>1 DEF Filed, Shape
<1>5. Bounded(l)' BY <1>1 DEF Shape, Seen, LaneInv, Bounded
<1>6. Attempted(l)' BY <1>1 DEF Shape, LaneInv, Attempted
<1>7. Compared(l)' BY <1>1 DEF Shape, Seen, LaneInv, Compared, Cleaning
<1>8. Chosen(l)' BY <1>1 DEF Shape, Seen, LaneInv, Chosen, Compared
<1>9. Reported(l)' BY <1>1 DEF Shape, Seen, LaneInv, Reported, Bounded, Attempted, Compared
<1> QED BY <1>2, <1>3, <1>4, <1>5, <1>6, <1>7, <1>8, <1>9, LaneStep DEF LaneInv

\* Only the daemon of the attempt is reached.
LEMMA ForceCloseKeeps == ASSUME IInv, NEW l \in Lane, ForceClose(l), UNCHANGED plan PROVE IInv'
<1> USE PlanStays DEF ForceClose, Goto, Fault, NoFault, pages, Listed
<1>1. /\ LaneInv(l) /\ Shape /\ Filed /\ seen[l] \in Seen
      /\ Len(Work[l]) \in Nat /\ MaxPages[l] \in Nat
      BY PlanTypes DEF IInv, Shape
<1>a. Current(l) \in Attempt /\ Shares(Current(l)) = {Current(l)}
      BY <1>1, CurrentIsPlanned, SharesAlone DEF Shape, LaneInv, Attempted
<1>b. /\ seen' \in [Lane -> Seen] /\ seen'[l].start = seen[l].start
      /\ seen'[l].asked = seen[l].asked /\ seen'[l].upto = seen[l].upto
      /\ seen'[l].struck = {}
  <2> DEFINE a == Current(l)
             reached == {b \in Shares(a) : daemon[b] = "live"}
  <2>1. reached \ {a} = {} BY <1>a
  <2>2. seen[l].struck = {} BY <1>1 DEF LaneInv, Chosen
  <2>3. CASE seen' = [seen EXCEPT ![l].struck = @ \cup (reached \ {a})]
    <3> HIDE DEF reached, a
    <3> QED BY <1>1, <2>1, <2>2, <2>3 DEF Shape, Seen
  <2>4. CASE UNCHANGED seen BY <1>1, <2>2, <2>4 DEF Shape
  <2> QED BY <2>3, <2>4
<1>2. \A k \in Lane \ {l} : Same(k) BY <1>1 DEF Same, Shape
<1>3. Shape'
  <2>1. seen' \in [Lane -> Seen] BY <1>b
  <2>2. pc' \in [Lane -> Stage] BY <1>1 DEF Shape, Stage, Cleaning
  <2>3. errors' \in [Lane -> SUBSET Error] BY <1>1 DEF Shape, Error
  <2>4. faults' \in 0 .. MaxFaults BY <1>1, FaultsAssumption DEF Shape
  <2>5. daemon' \in [Attempt -> {"none", "starting", "live", "closing", "gone"}] BY <1>1 DEF Shape
  <2> QED BY <1>1, <2>5, <2>1, <2>2, <2>3, <2>4 DEF Shape
<1>4. Filed' BY <1>1 DEF Filed, Shape
<1>5. Bounded(l)' BY <1>1, <1>b DEF Shape, LaneInv, Bounded
<1>6. Attempted(l)' BY <1>1 DEF Shape, LaneInv, Attempted
<1>7. Compared(l)' BY <1>1, <1>b DEF Shape, LaneInv, Compared, Cleaning
<1>8. Chosen(l)' BY <1>1, <1>b DEF Shape, LaneInv, Chosen
<1>9. Reported(l)' BY <1>1 DEF Shape, LaneInv, Reported
<1> QED BY <1>2, <1>3, <1>4, <1>5, <1>6, <1>7, <1>8, <1>9, LaneStep DEF LaneInv

\* The files go of a daemon that has neither socket nor pid file.
LEMMA RemoveStateKeeps == ASSUME IInv, NEW l \in Lane, RemoveState(l), UNCHANGED plan PROVE IInv'
<1> USE PlanStays DEF RemoveState, Disposable, FilesOf, Goto, pages, Listed
<1>1. /\ LaneInv(l) /\ Shape /\ Filed /\ seen[l] \in Seen
      /\ Len(Work[l]) \in Nat /\ MaxPages[l] \in Nat
      BY PlanTypes DEF IInv, Shape
<1>a. Current(l) \in Attempt /\ Shares(Current(l)) = {Current(l)}
      BY <1>1, CurrentIsPlanned, SharesAlone DEF Shape, LaneInv, Attempted
<1>2. \A k \in Lane \ {l} : Same(k) BY <1>1 DEF Same, Shape
<1>3. Shape' BY <1>1 DEF Shape, Seen, Stage, Error, LaneInv, Bounded
<1>4. Filed' BY <1>1 DEF Filed, Shape
<1>5. Bounded(l)' BY <1>1 DEF Shape, Seen, LaneInv, Bounded
<1>6. Attempted(l)' BY <1>1 DEF Shape, LaneInv, Attempted
<1>7. Compared(l)' BY <1>1 DEF Shape, Seen, LaneInv, Compared, Cleaning
<1>8. Chosen(l)' BY <1>1 DEF Shape, Seen, LaneInv, Chosen, Compared
<1>9. Reported(l)' BY <1>1 DEF Shape, Seen, LaneInv, Reported, Bounded, Attempted, Compared
<1> QED BY <1>2, <1>3, <1>4, <1>5, <1>6, <1>7, <1>8, <1>9, LaneStep DEF LaneInv

\* The files stay.
LEMMA RemoveGivesUpKeeps == ASSUME IInv, NEW l \in Lane, RemoveGivesUp(l), UNCHANGED plan PROVE IInv'
<1> USE PlanStays DEF RemoveGivesUp, Goto, pages, daemons, Listed
<1>1. /\ LaneInv(l) /\ Shape /\ Filed /\ seen[l] \in Seen
      /\ Len(Work[l]) \in Nat /\ MaxPages[l] \in Nat
      BY PlanTypes DEF IInv, Shape
<1>2. \A k \in Lane \ {l} : Same(k) BY <1>1 DEF Same, Shape
<1>3. Shape' BY <1>1 DEF Shape, Seen, Stage, Error, LaneInv, Bounded
<1>4. Filed' BY <1>1 DEF Filed, Shape
<1>5. Bounded(l)' BY <1>1 DEF Shape, Seen, LaneInv, Bounded
<1>6. Attempted(l)' BY <1>1 DEF Shape, LaneInv, Attempted
<1>7. Compared(l)' BY <1>1 DEF Shape, Seen, LaneInv, Compared, Cleaning
<1>8. Chosen(l)' BY <1>1 DEF Shape, Seen, LaneInv, Chosen, Compared
<1>9. Reported(l)' BY <1>1 DEF Shape, Seen, LaneInv, Reported, Bounded, Attempted, Compared
<1> QED BY <1>2, <1>3, <1>4, <1>5, <1>6, <1>7, <1>8, <1>9, LaneStep DEF LaneInv

\* A look that fails leaves an error.
LEMMA LookFailsKeeps == ASSUME IInv, NEW l \in Lane, NEW from \in {"after", "final", "again", "confirm"},
           NEW error \in Error, LookFails(l, from, error), UNCHANGED plan PROVE IInv'
<1> USE PlanStays DEF LookFails, Goto, Report, Fault, pages, daemons, Listed
<1>1. /\ LaneInv(l) /\ Shape /\ Filed /\ seen[l] \in Seen
      /\ Len(Work[l]) \in Nat /\ MaxPages[l] \in Nat
      BY PlanTypes DEF IInv, Shape
<1>2. \A k \in Lane \ {l} : Same(k) BY <1>1 DEF Same, Shape
<1>3. Shape'
  <2>1. seen' \in [Lane -> Seen] BY <1>1 DEF Shape, Seen
  <2>2. pc' \in [Lane -> Stage] BY <1>1 DEF Shape, Stage, Cleaning
  <2>3. errors' \in [Lane -> SUBSET Error] BY <1>1 DEF Shape, Error
  <2>4. faults' \in 0 .. MaxFaults BY <1>1, FaultsAssumption DEF Shape
  <2> QED BY <1>1, <2>1, <2>2, <2>3, <2>4 DEF Shape
<1>4. Filed' BY <1>1 DEF Filed, Shape
<1>5. Bounded(l)' BY <1>1 DEF Shape, Seen, LaneInv, Bounded
<1>6. Attempted(l)' BY <1>1 DEF Shape, LaneInv, Attempted
<1>7. Compared(l)' BY <1>1 DEF Shape, Seen, LaneInv, Compared, Cleaning
<1>8. Chosen(l)' BY <1>1 DEF Shape, Seen, LaneInv, Chosen, Compared
<1>9. Reported(l)' BY <1>1 DEF Shape, Seen, LaneInv, Reported, Bounded, Attempted, Compared
<1> QED BY <1>2, <1>3, <1>4, <1>5, <1>6, <1>7, <1>8, <1>9, LaneStep DEF LaneInv

\* What is to be closed was not in the snapshot; a connection that fails is an error.
LEMMA ChooseKeeps == ASSUME IInv, NEW l \in Lane, NEW from \in {"after", "again"},
           NEW to \in {"close", "retry"}, NEW without \in {"final", "confirm"}, Look(l, from), Connect(l, New(l), to, without), before[l] # None, UNCHANGED plan PROVE IInv'
<1> USE PlanStays DEF Look, Goto, Report, Fault, NoFault, pages, daemons, Listed, New, Connect
<1>1. /\ LaneInv(l) /\ Shape /\ Filed /\ seen[l] \in Seen
      /\ Len(Work[l]) \in Nat /\ MaxPages[l] \in Nat
      BY PlanTypes DEF IInv, Shape
<1>2. \A k \in Lane \ {l} : Same(k) BY <1>1 DEF Same, Shape
<1>3. Shape'
  <2>1. seen' \in [Lane -> Seen] BY <1>1 DEF Shape, Seen
  <2>2. pc' \in [Lane -> Stage] BY <1>1 DEF Shape, Stage, Cleaning
  <2>3. errors' \in [Lane -> SUBSET Error] BY <1>1 DEF Shape, Error
  <2>4. faults' \in 0 .. MaxFaults BY <1>1, FaultsAssumption DEF Shape
  <2>5. live[l] \subseteq Nat /\ closing[l] \subseteq Nat BY <1>1 DEF Shape
  <2>6. New(l) \in SUBSET Nat BY <2>5
  <2>7. todo' = [todo EXCEPT ![l] = New(l)] \/ todo' = todo OBVIOUS
  <2> HIDE DEF New, Connect
  <2>8. todo' \in [Lane -> SUBSET Nat] BY <1>1, <2>6, <2>7 DEF Shape
  <2> QED BY <1>1, <2>8, <2>1, <2>2, <2>3, <2>4 DEF Shape
<1>4. Filed' BY <1>1 DEF Filed, Shape
<1>5. Bounded(l)' BY <1>1 DEF Shape, Seen, LaneInv, Bounded
<1>6. Attempted(l)' BY <1>1 DEF Shape, LaneInv, Attempted
<1>7. Compared(l)' BY <1>1 DEF Shape, Seen, LaneInv, Compared, Cleaning
<1>8. Chosen(l)' BY <1>1 DEF Shape, Seen, LaneInv, Chosen, Compared
<1>9. Reported(l)' BY <1>1 DEF Shape, Seen, LaneInv, Reported, Bounded, Attempted, Compared
<1> QED BY <1>2, <1>3, <1>4, <1>5, <1>6, <1>7, <1>8, <1>9, LaneStep DEF LaneInv

\* Without a snapshot the cleanup is an error.
LEMMA NothingToCompareKeeps == ASSUME IInv, NEW l \in Lane, pc[l] = "after", Report(l, {"before"}), Goto(l, "idle"),
           UNCHANGED <<at, pages, before, todo, owned, daemons, faults, seen>>, UNCHANGED plan PROVE IInv'
<1> USE PlanStays DEF Goto, Report, pages, daemons, Listed
<1>1. /\ LaneInv(l) /\ Shape /\ Filed /\ seen[l] \in Seen
      /\ Len(Work[l]) \in Nat /\ MaxPages[l] \in Nat
      BY PlanTypes DEF IInv, Shape
<1>2. \A k \in Lane \ {l} : Same(k) BY <1>1 DEF Same, Shape
<1>3. Shape' BY <1>1 DEF Shape, Seen, Stage, Error, LaneInv, Bounded
<1>4. Filed' BY <1>1 DEF Filed, Shape
<1>5. Bounded(l)' BY <1>1 DEF Shape, Seen, LaneInv, Bounded
<1>6. Attempted(l)' BY <1>1 DEF Shape, LaneInv, Attempted
<1>7. Compared(l)' BY <1>1 DEF Shape, Seen, LaneInv, Compared, Cleaning
<1>8. Chosen(l)' BY <1>1 DEF Shape, Seen, LaneInv, Chosen, Compared
<1>9. Reported(l)' BY <1>1 DEF Shape, Seen, LaneInv, Reported, Bounded, Attempted, Compared
<1> QED BY <1>2, <1>3, <1>4, <1>5, <1>6, <1>7, <1>8, <1>9, LaneStep DEF LaneInv

\* A page that was chosen is asked for.
LEMMA CloseTargetKeeps == ASSUME IInv, NEW l \in Lane, NEW from \in {"close", "retry"}, CloseTarget(l, from), UNCHANGED plan PROVE IInv'
<1> USE PlanStays DEF CloseTarget, Goto, Report, Fault, NoFault, daemons, Listed
<1>1. /\ LaneInv(l) /\ Shape /\ Filed /\ seen[l] \in Seen
      /\ Len(Work[l]) \in Nat /\ MaxPages[l] \in Nat
      BY PlanTypes DEF IInv, Shape
<1>2. \A k \in Lane \ {l} : Same(k) BY <1>1 DEF Same, Shape
<1>3. Shape'
  <2>1. PICK p \in todo[l] :
           /\ todo' = [todo EXCEPT ![l] = @ \ {p}]
           /\ seen' = [seen EXCEPT ![l].asked = @ \cup {p}]
           /\ \/ /\ live' = [live EXCEPT ![l] = @ \ {p}] /\ closing' = [closing EXCEPT ![l] = @ \cup {p}]
                 /\ UNCHANGED <<faults, errors>>
              \/ /\ (faults < MaxFaults /\ faults' = faults + 1) \/ UNCHANGED faults
                 /\ errors' = [errors EXCEPT ![l] = @ \cup {from}]
                 /\ UNCHANGED <<live, closing>>
        OBVIOUS
  <2>2. UNCHANGED <<pc, at, opened, before, owned, daemon, files>> OBVIOUS
  <2> HIDE DEF CloseTarget, Goto, Report, Fault, NoFault, daemons, Listed
  <2>3. /\ {p} \subseteq Nat /\ live[l] \subseteq Nat /\ closing[l] \subseteq Nat
        /\ todo[l] \subseteq Nat /\ seen[l].asked \subseteq Nat /\ errors[l] \subseteq Error
        BY <1>1 DEF Shape, Seen
  <2>4. /\ live[l] \ {p} \in SUBSET Nat /\ closing[l] \cup {p} \in SUBSET Nat
        /\ todo[l] \ {p} \in SUBSET Nat /\ seen[l].asked \cup {p} \in SUBSET Nat
        /\ errors[l] \cup {from} \in SUBSET Error
        BY <2>3 DEF Error
  <2>5. seen' \in [Lane -> Seen] BY <1>1, <2>1, <2>4 DEF Shape, Seen
  <2>6. errors' \in [Lane -> SUBSET Error] BY <1>1, <2>1, <2>4 DEF Shape
  <2>7. faults' \in 0 .. MaxFaults BY <1>1, <2>1, FaultsAssumption DEF Shape
  <2>8. live' \in [Lane -> SUBSET Nat] /\ closing' \in [Lane -> SUBSET Nat]
    <3>1. CASE live' = [live EXCEPT ![l] = @ \ {p}] /\ closing' = [closing EXCEPT ![l] = @ \cup {p}]
          BY <1>1, <2>4, <3>1 DEF Shape
    <3>2. CASE UNCHANGED <<live, closing>> BY <1>1, <3>2 DEF Shape
    <3> QED BY <2>1, <3>1, <3>2
  <2>9. todo' \in [Lane -> SUBSET Nat] BY <1>1, <2>1, <2>4 DEF Shape
  <2> QED BY <1>1, <2>2, <2>5, <2>6, <2>7, <2>8, <2>9 DEF Shape
<1>4. Filed' BY <1>1 DEF Filed, Shape
<1>5. Bounded(l)' BY <1>1 DEF Shape, Seen, LaneInv, Bounded
<1>6. Attempted(l)' BY <1>1 DEF Shape, LaneInv, Attempted
<1>7. Compared(l)' BY <1>1 DEF Shape, Seen, LaneInv, Compared, Cleaning
<1>8. Chosen(l)' BY <1>1 DEF Shape, Seen, LaneInv, Chosen, Compared
<1>9. Reported(l)' BY <1>1 DEF Shape, Seen, LaneInv, Reported, Bounded, Attempted, Compared
<1> QED BY <1>2, <1>3, <1>4, <1>5, <1>6, <1>7, <1>8, <1>9, LaneStep DEF LaneInv

\* All that were chosen were asked for.
LEMMA ClosesEndKeeps == ASSUME IInv, NEW l \in Lane, NEW from \in {"close", "retry"}, NEW to \in {"final", "confirm"}, ClosesEnd(l, from, to), UNCHANGED plan PROVE IInv'
<1> USE PlanStays DEF ClosesEnd, Goto, pages, daemons, Listed
<1>1. /\ LaneInv(l) /\ Shape /\ Filed /\ seen[l] \in Seen
      /\ Len(Work[l]) \in Nat /\ MaxPages[l] \in Nat
      BY PlanTypes DEF IInv, Shape
<1>2. \A k \in Lane \ {l} : Same(k) BY <1>1 DEF Same, Shape
<1>3. Shape' BY <1>1 DEF Shape, Seen, Stage, Error, LaneInv, Bounded
<1>4. Filed' BY <1>1 DEF Filed, Shape
<1>5. Bounded(l)' BY <1>1 DEF Shape, Seen, LaneInv, Bounded
<1>6. Attempted(l)' BY <1>1 DEF Shape, LaneInv, Attempted
<1>7. Compared(l)' BY <1>1 DEF Shape, Seen, LaneInv, Compared, Cleaning
<1>8. Chosen(l)' BY <1>1 DEF Shape, Seen, LaneInv, Chosen, Compared
<1>9. Reported(l)' BY <1>1 DEF Shape, Seen, LaneInv, Reported, Bounded, Attempted, Compared
<1> QED BY <1>2, <1>3, <1>4, <1>5, <1>6, <1>7, <1>8, <1>9, LaneStep DEF LaneInv

\* Nothing new is listed: the cleanup ends.
LEMMA CleanKeeps == ASSUME IInv, NEW l \in Lane, NEW from \in {"final", "again", "confirm"}, Look(l, from), New(l) = {}, Goto(l, "idle"), UNCHANGED <<todo, errors, faults>>, UNCHANGED plan PROVE IInv'
<1> USE PlanStays DEF Look, Goto, Report, Fault, NoFault, pages, daemons, Listed, New
<1>1. /\ LaneInv(l) /\ Shape /\ Filed /\ seen[l] \in Seen
      /\ Len(Work[l]) \in Nat /\ MaxPages[l] \in Nat
      BY PlanTypes DEF IInv, Shape
<1>2. \A k \in Lane \ {l} : Same(k) BY <1>1 DEF Same, Shape
<1>3. Shape' BY <1>1 DEF Shape, Seen, Stage, Error, LaneInv, Bounded
<1>4. Filed' BY <1>1 DEF Filed, Shape
<1>5. Bounded(l)' BY <1>1 DEF Shape, Seen, LaneInv, Bounded
<1>6. Attempted(l)' BY <1>1 DEF Shape, LaneInv, Attempted
<1>7. Compared(l)' BY <1>1 DEF Shape, Seen, LaneInv, Compared, Cleaning
<1>8. Chosen(l)' BY <1>1 DEF Shape, Seen, LaneInv, Chosen, Compared
<1>9. Reported(l)' BY <1>1 DEF Shape, Seen, LaneInv, Reported, Bounded, Attempted, Compared, Cleaning
<1> QED BY <1>2, <1>3, <1>4, <1>5, <1>6, <1>7, <1>8, <1>9, LaneStep DEF LaneInv

\* Something new is listed: there is a second look.
LEMMA SecondLookKeeps == ASSUME IInv, NEW l \in Lane, Look(l, "final"), Goto(l, "again"), UNCHANGED <<todo, errors, faults>>, UNCHANGED plan PROVE IInv'
<1> USE PlanStays DEF Look, Goto, Report, Fault, NoFault, pages, daemons, Listed, New
<1>1. /\ LaneInv(l) /\ Shape /\ Filed /\ seen[l] \in Seen
      /\ Len(Work[l]) \in Nat /\ MaxPages[l] \in Nat
      BY PlanTypes DEF IInv, Shape
<1>2. \A k \in Lane \ {l} : Same(k) BY <1>1 DEF Same, Shape
<1>3. Shape' BY <1>1 DEF Shape, Seen, Stage, Error, LaneInv, Bounded
<1>4. Filed' BY <1>1 DEF Filed, Shape
<1>5. Bounded(l)' BY <1>1 DEF Shape, Seen, LaneInv, Bounded
<1>6. Attempted(l)' BY <1>1 DEF Shape, LaneInv, Attempted
<1>7. Compared(l)' BY <1>1 DEF Shape, Seen, LaneInv, Compared, Cleaning
<1>8. Chosen(l)' BY <1>1 DEF Shape, Seen, LaneInv, Chosen, Compared
<1>9. Reported(l)' BY <1>1 DEF Shape, Seen, LaneInv, Reported, Bounded, Attempted, Compared
<1> QED BY <1>2, <1>3, <1>4, <1>5, <1>6, <1>7, <1>8, <1>9, LaneStep DEF LaneInv

\* Something new is still listed, and reported.
LEMMA RemainingKeeps == ASSUME IInv, NEW l \in Lane, Look(l, "confirm"), Report(l, {"remaining"}), Goto(l, "idle"), UNCHANGED <<todo, faults>>, UNCHANGED plan PROVE IInv'
<1> USE PlanStays DEF Look, Goto, Report, Fault, NoFault, pages, daemons, Listed, New
<1>1. /\ LaneInv(l) /\ Shape /\ Filed /\ seen[l] \in Seen
      /\ Len(Work[l]) \in Nat /\ MaxPages[l] \in Nat
      BY PlanTypes DEF IInv, Shape
<1>2. \A k \in Lane \ {l} : Same(k) BY <1>1 DEF Same, Shape
<1>3. Shape' BY <1>1 DEF Shape, Seen, Stage, Error, LaneInv, Bounded
<1>4. Filed' BY <1>1 DEF Filed, Shape
<1>5. Bounded(l)' BY <1>1 DEF Shape, Seen, LaneInv, Bounded
<1>6. Attempted(l)' BY <1>1 DEF Shape, LaneInv, Attempted
<1>7. Compared(l)' BY <1>1 DEF Shape, Seen, LaneInv, Compared, Cleaning
<1>8. Chosen(l)' BY <1>1 DEF Shape, Seen, LaneInv, Chosen, Compared
<1>9. Reported(l)' BY <1>1 DEF Shape, Seen, LaneInv, Reported, Bounded, Attempted, Compared
<1> QED BY <1>2, <1>3, <1>4, <1>5, <1>6, <1>7, <1>8, <1>9, LaneStep DEF LaneInv

\* The pages of a raw-CDP driver are new.
LEMMA OpenPageSessionKeeps == ASSUME IInv, NEW l \in Lane, OpenPageSession(l), UNCHANGED plan PROVE IInv'
<1> USE PlanStays DEF OpenPageSession, Goto, Fault, NoFault, daemons, Listed
<1>1. /\ LaneInv(l) /\ Shape /\ Filed /\ seen[l] \in Seen
      /\ Len(Work[l]) \in Nat /\ MaxPages[l] \in Nat
      BY PlanTypes DEF IInv, Shape
<1>b. PICK new \in Nat :
         /\ opened[l] + new <= MaxPages[l]
         /\ opened' = [opened EXCEPT ![l] = @ + new]
         /\ live' = [live EXCEPT ![l] = @ \cup ((opened[l] + 1) .. (opened[l] + new))]
         /\ \/ owned' = [owned EXCEPT ![l] = {}]
            \/ owned' = [owned EXCEPT ![l] = {opened[l] + 1}] /\ new > 0
  <2>1. PICK created \in BOOLEAN, attached \in BOOLEAN, flat \in BOOLEAN :
           LET n == Cardinality({x \in {1, 2} : IF x = 1 THEN created ELSE flat}) IN
           /\ attached => created
           /\ opened[l] + n <= MaxPages[l]
           /\ opened' = [opened EXCEPT ![l] = @ + n]
           /\ live' = [live EXCEPT ![l] = @ \cup ((opened[l] + 1) .. (opened[l] + n))]
           /\ owned' = [owned EXCEPT ![l] = {q \in {opened[l] + 1} : attached}]
        OBVIOUS
  <2> DEFINE S == {x \in {1, 2} : IF x = 1 THEN created ELSE flat}
  <2>2. IsFiniteSet({1, 2})
    <3>1. {1, 2} = {1} \cup {2} OBVIOUS
    <3>2. IsFiniteSet({1}) BY FS_Singleton
    <3>3. IsFiniteSet({1} \cup {2}) BY <3>2, FS_AddElement
    <3> QED BY <3>1, <3>3
  <2>3. IsFiniteSet(S) BY <2>2, FS_Subset
  <2>4. Cardinality(S) \in Nat BY <2>3, FS_CardinalityType
  <2>5. created => 1 \in S OBVIOUS
  <2>6. created => Cardinality(S) > 0 BY <2>3, <2>4, <2>5, FS_EmptySet
  <2>7. CASE attached
    <3>1. {q \in {opened[l] + 1} : attached} = {opened[l] + 1} BY <2>7
    <3> QED BY <2>1, <2>4, <2>6, <2>7, <3>1
  <2>8. CASE ~attached
    <3>1. {q \in {opened[l] + 1} : attached} = {} BY <2>8
    <3> QED BY <2>1, <2>4, <3>1
  <2> QED BY <2>7, <2>8
<1>c. /\ pc[l] = "open" /\ pc' = [pc EXCEPT ![l] = "raw"]
      /\ (faults < MaxFaults /\ faults' = faults + 1) \/ UNCHANGED faults
      /\ UNCHANGED <<at, closing, before, todo, errors, daemon, files, seen>>
      OBVIOUS
<1> HIDE DEF OpenPageSession
<1>2. \A k \in Lane \ {l} : Same(k) BY <1>1, <1>b, <1>c DEF Same, Shape
<1>3. Shape'
  <2>1. pc' \in [Lane -> Stage] BY <1>1, <1>c DEF Shape, Stage
  <2>2. opened' \in [Lane -> Nat] BY <1>1, <1>b DEF Shape
  <2>3. live' \in [Lane -> SUBSET Nat]
    <3>1. live[l] \cup ((opened[l] + 1) .. (opened[l] + new)) \in SUBSET Nat BY <1>1 DEF Shape
    <3> QED BY <1>1, <1>b, <3>1 DEF Shape
  <2>4. owned' \in [Lane -> SUBSET Nat]
    <3>1. {opened[l] + 1} \in SUBSET Nat BY <1>1 DEF Shape
    <3> QED BY <1>1, <1>b, <3>1 DEF Shape
  <2>5. faults' \in 0 .. MaxFaults BY <1>1, <1>c, FaultsAssumption DEF Shape
  <2> QED BY <1>1, <1>c, <2>1, <2>2, <2>3, <2>4, <2>5 DEF Shape
<1>4. Filed' BY <1>1, <1>c DEF Filed, Shape
<1>5. Bounded(l)'
  <2>1. opened'[l] = opened[l] + new /\ opened[l] \in Nat BY <1>1, <1>b DEF Shape
  <2>2. live'[l] = live[l] \cup ((opened[l] + 1) .. (opened[l] + new)) BY <1>1, <1>b DEF Shape
  <2>3. owned'[l] \subseteq 0 .. (opened[l] + new) BY <1>1, <1>b, <2>1 DEF Shape
  <2>4. 0 .. opened[l] \subseteq 0 .. (opened[l] + new) BY <2>1
  <2>5. live'[l] \subseteq 0 .. (opened[l] + new) BY <1>1, <2>1, <2>2, <2>4 DEF LaneInv, Bounded
  <2>6. live'[l] \cap closing[l] = {} BY <1>1, <2>1, <2>2 DEF LaneInv, Bounded
  <2>7. seen[l].upto <= opened[l] /\ seen[l].upto \in Nat BY <1>1 DEF LaneInv, Bounded, Seen
  <2> QED BY <1>1, <1>b, <1>c, <2>1, <2>3, <2>4, <2>5, <2>6, <2>7 DEF Shape, LaneInv, Bounded
<1>6. Attempted(l)' BY <1>1, <1>c DEF Shape, LaneInv, Attempted
<1>7. Compared(l)' BY <1>1, <1>c DEF Shape, Seen, LaneInv, Compared, Cleaning
<1>8. Chosen(l)' BY <1>1, <1>c DEF Shape, Seen, LaneInv, Chosen, Compared
<1>9. Reported(l)' BY <1>1, <1>c DEF Shape, Seen, LaneInv, Reported, Bounded, Attempted, Compared
<1> QED BY <1>2, <1>3, <1>4, <1>5, <1>6, <1>7, <1>8, <1>9, LaneStep DEF LaneInv

\* The attempt was one of raw CDP, of which nothing is said.
LEMMA RawEndsKeeps == ASSUME IInv, NEW l \in Lane, RawEnds(l), UNCHANGED plan PROVE IInv'
<1> USE PlanStays DEF RawEnds, Goto, Fault, NoFault, daemons, Listed
<1>1. /\ LaneInv(l) /\ Shape /\ Filed /\ seen[l] \in Seen
      /\ Len(Work[l]) \in Nat /\ MaxPages[l] \in Nat
      BY PlanTypes DEF IInv, Shape
<1>2. \A k \in Lane \ {l} : Same(k) BY <1>1 DEF Same, Shape
<1>3. Shape'
  <2>1. seen' \in [Lane -> Seen] BY <1>1 DEF Shape, Seen
  <2>2. pc' \in [Lane -> Stage] BY <1>1 DEF Shape, Stage, Cleaning
  <2>3. errors' \in [Lane -> SUBSET Error] BY <1>1 DEF Shape, Error
  <2>4. faults' \in 0 .. MaxFaults BY <1>1, FaultsAssumption DEF Shape
  <2>5. live[l] \subseteq Nat /\ closing[l] \subseteq Nat /\ owned[l] \subseteq Nat BY <1>1 DEF Shape
  <2>6. live' \in [Lane -> SUBSET Nat]
    <3>1. live[l] \ owned[l] \in SUBSET Nat BY <2>5
    <3> QED BY <1>1, <3>1, ZenonT(40) DEF Shape
  <2>7. closing' \in [Lane -> SUBSET Nat]
    <3>1. closing[l] \cup (owned[l] \cap live[l]) \in SUBSET Nat BY <2>5
    <3> QED BY <1>1, <3>1, ZenonT(40) DEF Shape
  <2>8. owned' \in [Lane -> SUBSET Nat] BY <1>1 DEF Shape
  <2> QED BY <1>1, <2>6, <2>7, <2>8, <2>1, <2>2, <2>3, <2>4 DEF Shape
<1>4. Filed' BY <1>1 DEF Filed, Shape
<1>5. Bounded(l)' BY <1>1 DEF Shape, Seen, LaneInv, Bounded
<1>6. Attempted(l)' BY <1>1 DEF Shape, LaneInv, Attempted
<1>7. Compared(l)' BY <1>1 DEF Shape, Seen, LaneInv, Compared, Cleaning
<1>8. Chosen(l)' BY <1>1 DEF Shape, Seen, LaneInv, Chosen, Compared
<1>9. Reported(l)' BY <1>1 DEF Shape, Seen, LaneInv, Reported, Bounded, Attempted, Compared
<1> QED BY <1>2, <1>3, <1>4, <1>5, <1>6, <1>7, <1>8, <1>9, LaneStep DEF LaneInv

\* The looks of the cleanup are made of these.
LEMMA CleanupKeeps ==
    ASSUME IInv, NEW l \in Lane, UNCHANGED plan,
           LookAfter(l) \/ CloseNew(l) \/ LookFinal(l) \/ LookAgain(l) \/ Retry(l) \/ LookConfirm(l)
    PROVE  IInv'
<1> USE DEF Cleaning, Error
<1>1. CASE LookAfter(l)
      BY <1>1, ChooseKeeps, LookFailsKeeps, NothingToCompareKeeps DEF LookAfter
<1>2. CASE CloseNew(l) BY <1>2, CloseTargetKeeps, ClosesEndKeeps DEF CloseNew
<1>3. CASE Retry(l) BY <1>3, CloseTargetKeeps, ClosesEndKeeps DEF Retry
<1>4. CASE LookFinal(l) BY <1>4, CleanKeeps, SecondLookKeeps, LookFailsKeeps DEF LookFinal
<1>5. CASE LookAgain(l)
  <2>1. pc[l] = "again" => before[l] # None BY DEF IInv, LaneInv, Compared
  <2> QED BY <1>5, <2>1, ChooseKeeps, CleanKeeps, LookFailsKeeps DEF LookAgain, Look
<1>6. CASE LookConfirm(l)
  <2>1. CASE LookFails(l, "confirm", "final") BY <2>1, LookFailsKeeps
  <2>2. CASE Look(l, "confirm") /\ Report(l, {e \in {"remaining"} : New(l) # {}}) /\ Goto(l, "idle")
             /\ UNCHANGED <<todo, faults>>
    <3>1. CASE New(l) = {}
      <4>1. errors \in [Lane -> SUBSET Error] BY DEF IInv, Shape
      <4>2. UNCHANGED errors BY <2>2, <3>1, <4>1 DEF Report
      <4> QED BY <2>2, <3>1, <4>2, CleanKeeps
    <3>2. CASE New(l) # {}
      <4>1. {e \in {"remaining"} : New(l) # {}} = {"remaining"} BY <3>2
      <4> QED BY <2>2, <4>1, RemainingKeeps
    <3> QED BY <3>1, <3>2
  <2> QED BY <1>6, <2>1, <2>2 DEF LookConfirm
<1> QED BY <1>1, <1>2, <1>3, <1>4, <1>5, <1>6

-----------------------------------------------------------------------------
\* Nothing was looked at or asked for, and there is no daemon.
LEMMA InitIInv == Init => IInv
<1> SUFFICES ASSUME Init PROVE IInv OBVIOUS
<1> USE DEF Init
<1>1. Shape BY FaultsAssumption DEF Shape, Stage, Error, Seen
<1>2. Filed BY DEF Filed
<1>3. ASSUME NEW l \in Lane PROVE LaneInv(l)
  <2>1. Len(Work[l]) \in Nat /\ MaxPages[l] \in Nat BY PlanTypes
  <2> QED BY <2>1 DEF LaneInv, Bounded, Attempted, Compared, Chosen, Reported, Cleaning
<1> QED BY <1>1, <1>2, <1>3 DEF IInv

\* Every step keeps the invariant.
LEMMA NextKeeps == IInv /\ [Next]_vars => IInv'
<1> SUFFICES ASSUME IInv, [Next]_vars PROVE IInv' OBVIOUS
<1>1. CASE UNCHANGED vars
  <2> USE <1>1 DEF vars
  <2>1. \A l \in Lane : LaneInv(l)' BY SameKeeps DEF Same
  <2>2. Shape' /\ Filed' BY PlanStays DEF IInv, Shape, Filed
  <2> QED BY <2>1, <2>2 DEF IInv
<1>2. ASSUME NEW l \in Lane, OpenPage(l) \/ ClosePage(l) \/ Vanish(l), UNCHANGED plan PROVE IInv'
      BY <1>2, OpenPageKeeps, ClosePageKeeps, VanishKeeps
<1>3. ASSUME NEW l \in Lane, Runner(l), UNCHANGED plan PROVE IInv'
      BY <1>3, BeginKeeps, LookBeforeKeeps, DriverEndsKeeps, ForceCloseKeeps, RemoveStateKeeps,
         RemoveGivesUpKeeps, CleanupKeeps, OpenPageSessionKeeps, RawEndsKeeps
      DEF Runner
<1> QED BY <1>1, <1>2, <1>3, DaemonsKeep DEF Next, World

\* The inductive invariant holds of every behaviour.
THEOREM Invariance == Spec => []IInv
BY InitIInv, NextKeeps, PTL DEF Spec

\* For any plans, lanes and failures, the cleanup never closes a page that was
\* there before its driver began (cleanup_new_page_targets).
THEOREM SparesStrangers == Spec => []StrangersSpared
<1>1. ASSUME IInv PROVE StrangersSpared
  <2>1. ASSUME NEW l \in Lane
        PROVE  /\ at[l] \in 0 .. Len(Work[l]) /\ opened[l] \in 0 .. MaxPages[l]
               /\ live[l] \cap closing[l] = {}
               /\ live[l] \cup closing[l] \cup todo[l] \cup owned[l] \subseteq 0 .. opened[l]
               /\ before[l] = None \/ before[l] \subseteq 0 .. opened[l]
               /\ errors[l] \subseteq {"before", "after", "close", "final", "retry", "remaining"}
               /\ seen[l].asked \cap seen[l].start = {}
    <3>1. Len(Work[l]) \in Nat /\ MaxPages[l] \in Nat BY <1>1, PlanTypes DEF IInv, Shape
    <3> QED BY <1>1, <3>1 DEF IInv, Shape, Error, LaneInv, Bounded, Chosen
  <2> QED BY <1>1, <2>1 DEF StrangersSpared, TypeOK, IInv, Shape, Stage
<1> QED BY Invariance, <1>1, PTL

\* For any plans, lanes and failures, a diagnostic without an error leaves
\* nothing unsaid (cleanup_new_page_targets).
THEOREM ReportsLeaks == Spec => []LeaksAreReported
<1>1. IInv => LeaksAreReported
      BY DEF IInv, LaneInv, Reported, LeaksAreReported, Kind, JobOf, Current
<1> QED BY Invariance, <1>1, PTL

\* For any plans in which an engine gets each attempt at a task once, no attempt
\* closes the daemon of another or removes the files of one that lives
\* (configure_agent_browser_attempt_env, remove_agent_browser_namespace_state).
THEOREM OwnDaemonsOnly == Spec => []DaemonsAreTheirOwners
<1>1. IInv => DaemonsAreTheirOwners BY DEF IInv, LaneInv, Chosen, Filed, DaemonsAreTheirOwners
<1> QED BY Invariance, <1>1, PTL
=============================================================================
