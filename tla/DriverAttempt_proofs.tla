------------------------- MODULE DriverAttempt_proofs -------------------------
(* An attempt and what it measures.  First the verdict of an attempt, its      *)
(* core-dump evidence and its artifacts, for runs that poll the engine from    *)
(* another thread and runs that do not: the invariant IInv says what each step *)
(* may still rely on of what an earlier one has looked at, while the engine    *)
(* exits and is waited for behind its back.  Then the resource sampler of the  *)
(* attempt: the invariant SamplerInv says what a scan has found of the engine  *)
(* while it forks, exits and reuses pids, and what a summary may rest on.      *)
EXTENDS DriverAttempt, EngineSampler, FiniteSetTheorems, SequenceTheorems,
        WellFoundedInduction, TLAPS

Blamed == result.origin = "engine_process"

\* What a report of an exit must say of the core dump: what was read, if it was.
Evidence == IF saw THEN engine.core ELSE "unknown"

\* The bit is read at one of the two peeks and not before; a poll finds in
\* peeked what the peek just before it has read.
Looked ==
    /\ pc \in {"begin", "drive", "handler_peek", "final_peek"} => ~saw
    /\ pc \in {"handler_poll", "final_poll"} => peeked = Evidence
    /\ saw => engine.life # "running"

\* What was observed stays true: an engine that was seen to have exited has been
\* waited for, and nobody reads its bit again; one that was seen running kept it.
Observed ==
    /\ pc \in {"begin", "drive", "handler_peek", "handler_poll"} => observed = Nil
    /\ ExitObserved => engine.life = "waited" /\ observed.core = Evidence
    /\ ~ExitObserved /\ pc \in {"cleanup", "promote"} => ~saw
    /\ pc \in {"final_peek", "final_poll"} => ~ExitObserved

\* An attempt is blamed on the engine with its evidence, and never again looked at.
Verdict ==
    /\ Blamed => /\ engine.life = "waited"
                 /\ result.status = "crash"
                 /\ result.process # Nil
                 /\ result.process.core = Evidence
    /\ Blamed /\ pc \in {"cleanup", "promote"} => ExitObserved
    /\ pc \in {"begin", "drive", "handler_peek", "handler_poll", "final_peek", "final_poll"} => ~Blamed

\* The row is the result as it was written, in a directory that was published.
Written ==
    /\ graderOk <=> result.status = "pass"
    /\ pc \in {"begin", "drive", "handler_peek", "handler_poll"} => result = Base
    /\ pc \in {"publish", "append", "done"} => (result.score_included <=> result.status # "infra")
    /\ pc = "append" => dir = "final"
    /\ row # Nil => pc = "done" /\ row = result /\ dir = "final"

IInv == TypeOK /\ Looked /\ Observed /\ Verdict /\ Written


-----------------------------------------------------------------------------
Status == Returned \cup {"timeout", "crash"}

\* What a promotion writes.
LEMMA Promoted == ASSUME NEW r \in Result, NEW d \in Diagnostic, NEW x,
                         x = [r EXCEPT !.status = "crash", !.origin = "engine_process",
                                       !.process = d, !.secondary = r.status]
                  PROVE  /\ x \in Result
                         /\ x.status = "crash"
                         /\ x.origin = "engine_process"
                         /\ x.process = d
<1>1. r.status \in Returned \cup {"timeout", "crash", Nil} BY DEF Result
<1>2. "engine_process" \in Origin BY DEF Origin
<1> QED BY <1>1, <1>2 DEF Result

\* What a poll says: an exit with what was peeked, of an engine then waited for.
LEMMA Polled == ASSUME TypeOK PROVE
                  /\ Seen \in Diagnostic
                  /\ Seen.core = peeked
                  /\ Seen.state = "exited" <=> Waited.life = "waited"
                  /\ Seen.state = "exited" <=> engine.life # "running"
                  /\ Waited.core = engine.core
                  /\ Waited \in [life : {"running", "zombie", "waited"},
                                 core : {"dumped", "not_dumped"}]
BY DEF TypeOK, Seen, Waited, Diagnostic, Core
-----------------------------------------------------------------------------
\* Nothing was looked at yet.
LEMMA InitIInv == Init => IInv
<1> SUFFICES ASSUME Init PROVE IInv
    OBVIOUS
<1> USE DEF Init, Base, Blamed, Evidence, ExitObserved
<1>1. TypeOK BY DEF TypeOK, Result, Returned, Raised, Core, Diagnostic, Origin
<1>2. Looked BY DEF Looked
<1>3. Observed BY DEF Observed
<1>4. Verdict BY DEF Verdict
<1>5. Written BY DEF Written
<1> QED BY <1>1, <1>2, <1>3, <1>4, <1>5 DEF IInv

\* The directory of the attempt is made.
LEMMA BeginKeeps == ASSUME IInv, Begin PROVE IInv'
<1> USE DEF Begin, Blamed, Evidence, ExitObserved
<1>1. TypeOK' BY DEF IInv, TypeOK
<1>2. Looked' BY DEF IInv, Looked
<1>3. Observed' BY DEF IInv, Observed
<1>4. Verdict' BY DEF IInv, Verdict
<1>5. Written' BY DEF IInv, Written
<1> QED BY <1>1, <1>2, <1>3, <1>4, <1>5 DEF IInv

\* The driver's own word: the engine has not been looked at, nor blamed.
LEMMA DriverReturnsKeeps == ASSUME IInv, NEW s \in Returned, DriverReturns(s) PROVE IInv'
<1> USE DEF DriverReturns, Blamed, Evidence, ExitObserved
<1>1. PICK o \in {"none", "driver_process"} :
          result' = [result EXCEPT !.status = s, !.origin = o]
      OBVIOUS
<1>2. result' \in Result /\ result'.status = s /\ result'.origin = o
  <2>1. result \in Result /\ s \in Status /\ o \in Origin
        BY DEF IInv, TypeOK, Status, Origin
  <2> QED BY <1>1, <2>1 DEF Result, Status
<1>3. TypeOK' BY <1>2 DEF IInv, TypeOK
<1>4. Looked' BY DEF IInv, Looked
<1>5. Observed' BY DEF IInv, Observed, Looked
<1>6. Verdict' BY <1>2 DEF IInv, Verdict
<1>7. Written' BY <1>2 DEF IInv, Written
<1> QED BY <1>3, <1>4, <1>5, <1>6, <1>7 DEF IInv

\* No driver was started.
LEMMA UnavailableKeeps == ASSUME IInv, Unavailable PROVE IInv'
<1> USE DEF Unavailable, Blamed, Evidence, ExitObserved
<1>1. /\ result' \in Result
      /\ result'.status = "unsupported"
      /\ result'.origin = "binding_catalog"
  <2>1. result \in Result /\ "unsupported" \in Status /\ "binding_catalog" \in Origin
        BY DEF IInv, TypeOK, Status, Returned, Origin
  <2> QED BY <2>1 DEF Result, Status
<1>2. TypeOK' BY <1>1 DEF IInv, TypeOK
<1>3. Looked' BY DEF IInv, Looked
<1>4. Observed' BY DEF IInv, Observed, Looked
<1>5. Verdict' BY <1>1 DEF IInv, Verdict
<1>6. ~graderOk BY DEF IInv, Written, Base
<1>7. Written' BY <1>1, <1>6 DEF IInv, Written
<1> QED BY <1>2, <1>3, <1>4, <1>5, <1>7 DEF IInv

\* A protocol error is classified at once; the other exceptions look first.
LEMMA DriverRaisesKeeps == ASSUME IInv, NEW x \in Raised, DriverRaises(x) PROVE IInv'
<1> USE DEF DriverRaises, Blamed, Evidence, ExitObserved
<1>1. result = Base /\ ~graderOk BY DEF IInv, Written, Base
<1>2. /\ result' \in Result
      /\ result'.status \in {"unsupported", "fail", "infra"}
      /\ result'.origin = "none"
  <2>1. CASE x \in Diagnosing BY <2>1, <1>1 DEF Base, IInv, TypeOK
  <2>2. CASE x \notin Diagnosing
    <3> DEFINE s == CASE x = "CDPUnsupported" -> "unsupported"
                      [] x = "CDPError" -> "fail"
                      [] OTHER -> "infra"
    <3>1. s \in {"unsupported", "fail", "infra"} OBVIOUS
    <3>2. result' = [result EXCEPT !.status = s] BY <2>2
    <3>3. result.origin = "none" /\ result \in Result BY <1>1 DEF Base, IInv, TypeOK
    <3> HIDE DEF s
    <3> QED BY <3>1, <3>2, <3>3 DEF Result, Returned
  <2> QED BY <2>1, <2>2
<1>3. TypeOK' BY <1>2 DEF IInv, TypeOK
<1>4. Looked' BY DEF IInv, Looked
<1>5. Observed' BY DEF IInv, Observed, Looked
<1>6. Verdict' BY <1>2 DEF IInv, Verdict
<1>7. Written' BY <1>1, <1>2 DEF IInv, Written
<1> QED BY <1>3, <1>4, <1>5, <1>6, <1>7 DEF IInv

\* A handler reads the bit if the engine is a zombie, and nothing else.
LEMMA HandlerPeekKeeps == ASSUME IInv, HandlerPeek PROVE IInv'
<1> USE DEF HandlerPeek, Peek, Bit, Blamed, Evidence, ExitObserved
<1>1. TypeOK' BY DEF IInv, TypeOK, Core
<1>2. Looked' BY DEF IInv, Looked
<1>3. Observed' BY DEF IInv, Observed
<1>4. Verdict' BY DEF IInv, Verdict
<1>5. Written' BY DEF IInv, Written
<1> QED BY <1>1, <1>2, <1>3, <1>4, <1>5 DEF IInv

\* So does the last look.
LEMMA FinalPeekKeeps == ASSUME IInv, FinalPeek PROVE IInv'
<1> USE DEF FinalPeek, Peek, Bit, Blamed, Evidence, ExitObserved
<1>1. TypeOK' BY DEF IInv, TypeOK, Core
<1>2. Looked' BY DEF IInv, Looked
<1>3. Observed' BY DEF IInv, Observed
<1>4. Verdict' BY DEF IInv, Verdict
<1>5. Written' BY DEF IInv, Written
<1> QED BY <1>1, <1>2, <1>3, <1>4, <1>5 DEF IInv

\* The row of a handler blames the engine exactly when the poll found it dead.
LEMMA HandlerPollKeeps == ASSUME IInv, HandlerPoll PROVE IInv'
<1> USE DEF HandlerPoll, Blamed, Evidence, ExitObserved
<1> DEFINE d == Seen
<1>1. /\ d \in Diagnostic
      /\ d.core = peeked
      /\ d.state = "exited" <=> engine'.life = "waited"
      /\ engine'.core = engine.core
      /\ engine' \in [life : {"running", "zombie", "waited"}, core : {"dumped", "not_dumped"}]
      /\ engine'.life = "running" <=> engine.life = "running"
      /\ engine.life # "running" => engine'.life = "waited"
      BY Polled DEF IInv, TypeOK, Seen, Waited
<1>2. /\ result' \in Result
      /\ result'.status \in {"crash", "timeout", "infra"}
      /\ result'.origin = "engine_process" =>
            d.state = "exited" /\ result'.status = "crash" /\ result'.process = d
  <2>1. Base \in Result BY DEF Base, Result, Returned, Origin
  <2> HIDE DEF d
  <2>2. \A x : Classified(x, d) \in Result
        BY <1>1, <2>1, ZenonT(40) DEF Classified, Base, Result, Returned, Origin
  <2>3. \A x : LET c == Classified(x, d) IN
          /\ c.status \in {"crash", "timeout", "infra"}
          /\ c.origin = "engine_process" =>
                d.state = "exited" /\ c.status = "crash" /\ c.process = d
        BY <1>1 DEF Classified, Base
  <2>4. result' = Classified(driver, d) BY DEF d
  <2> QED BY <2>2, <2>3, <2>4
<1>3. ~graderOk BY DEF IInv, Written, Base
<1>4. d # Nil BY <1>1, ConstantsAssumption
<1> HIDE DEF d
<1>5. observed' = d BY DEF d
<1>6. TypeOK' BY <1>1, <1>2, <1>5 DEF IInv, TypeOK
<1>7. Looked' BY <1>1 DEF IInv, Looked
<1>8. Observed' BY <1>1, <1>4, <1>5 DEF IInv, Observed, Looked
<1>9. Verdict' BY <1>1, <1>2, <1>4, <1>5 DEF IInv, Verdict, Looked
<1>10. Written' BY <1>2, <1>3 DEF IInv, Written
<1> QED BY <1>6, <1>7, <1>8, <1>9, <1>10 DEF IInv

\* Only time passes.
LEMMA CleanupKeeps == ASSUME IInv, Cleanup PROVE IInv'
<1> USE DEF Cleanup, Blamed, Evidence, ExitObserved
<1>1. TypeOK' BY DEF IInv, TypeOK
<1>2. Looked' BY DEF IInv, Looked
<1>3. Observed' BY DEF IInv, Observed
<1>4. Verdict' BY DEF IInv, Verdict
<1>5. Written' BY DEF IInv, Written
<1> QED BY <1>1, <1>2, <1>3, <1>4, <1>5 DEF IInv

\* The handler had the evidence.
LEMMA AlreadyPrimaryKeeps == ASSUME IInv, AlreadyPrimary PROVE IInv'
<1> USE DEF AlreadyPrimary, Blamed, Evidence, ExitObserved
<1>1. TypeOK' BY DEF IInv, TypeOK
<1>2. Looked' BY DEF IInv, Looked
<1>3. Observed' BY DEF IInv, Observed
<1>4. Verdict' BY DEF IInv, Verdict
<1>5. Written' BY DEF IInv, Written
<1> QED BY <1>1, <1>2, <1>3, <1>4, <1>5 DEF IInv

\* What the handler saw is promoted with the bit it read.
LEMMA PromoteObservedKeeps == ASSUME IInv, PromoteObserved PROVE IInv'
<1> USE DEF PromoteObserved, Primary, FailGrader, Blamed, Evidence, ExitObserved
<1>1. observed \in Diagnostic BY DEF IInv, TypeOK
<1>2. result \in Result BY DEF IInv, TypeOK
<1>3. /\ result' \in Result
      /\ result'.status = "crash"
      /\ result'.origin = "engine_process"
      /\ result'.process = observed
      BY <1>1, <1>2 DEF Result, Origin
<1>4. TypeOK' BY <1>3 DEF IInv, TypeOK
<1>5. Looked' BY DEF IInv, Looked
<1>6. Observed' BY DEF IInv, Observed
<1>7. Verdict' BY <1>3 DEF IInv, Verdict, Observed
<1>8. Written' BY <1>3 DEF IInv, Written
<1> QED BY <1>4, <1>5, <1>6, <1>7, <1>8 DEF IInv

\* Nothing that was observed tells of an exit: the bit is still unread.
LEMMA LookAgainKeeps == ASSUME IInv, LookAgain PROVE IInv'
<1> USE DEF LookAgain, Blamed, Evidence, ExitObserved
<1>1. TypeOK' BY DEF IInv, TypeOK
<1>2. Looked' BY DEF IInv, Looked, Observed
<1>3. Observed' BY DEF IInv, Observed
<1>4. Verdict' BY DEF IInv, Verdict
<1>5. Written' BY DEF IInv, Written
<1> QED BY <1>1, <1>2, <1>3, <1>4, <1>5 DEF IInv

\* The last poll promotes the exit with the bit of the last peek.
LEMMA FinalPollKeeps == ASSUME IInv, FinalPoll PROVE IInv'
<1> USE DEF FinalPoll, Promotes, Primary, FailGrader, Blamed, Evidence, ExitObserved
<1> DEFINE d == Seen
<1>1. /\ d \in Diagnostic
      /\ d.core = peeked
      /\ d.state = "exited" <=> engine'.life = "waited"
      /\ engine'.core = engine.core
      /\ engine' \in [life : {"running", "zombie", "waited"}, core : {"dumped", "not_dumped"}]
      /\ engine'.life = "running" <=> engine.life = "running"
      BY Polled DEF IInv, TypeOK, Seen, Waited
<1>2. d # Nil BY <1>1, ConstantsAssumption
<1>3. result \in Result BY DEF IInv, TypeOK
<1>4. CASE d.state = "exited"
  <2> HIDE DEF d
  <2>1. result' = [result EXCEPT !.status = "crash", !.origin = "engine_process",
                                 !.process = d, !.secondary = result.status] /\ ~graderOk'
        BY <1>4 DEF d
  <2>2. /\ result' \in Result
        /\ result'.status = "crash"
        /\ result'.origin = "engine_process"
        /\ result'.process = d
        BY <1>1, <1>3, <2>1 DEF Result, Origin
  <2>3. TypeOK' BY <1>1, <2>1, <2>2 DEF IInv, TypeOK
  <2>4. Looked' BY <1>1 DEF IInv, Looked
  <2>5. Observed' BY <1>1 DEF IInv, Observed
  <2>6. Verdict' BY <1>1, <1>2, <1>4, <2>2 DEF IInv, Verdict, Looked
  <2>7. Written' BY <2>1, <2>2 DEF IInv, Written
  <2> QED BY <2>3, <2>4, <2>5, <2>6, <2>7 DEF IInv
<1>5. CASE d.state # "exited"
  <2>1. result' = result /\ graderOk' = graderOk BY <1>5
  <2> HIDE DEF d
  <2>2. TypeOK' BY <1>1, <2>1 DEF IInv, TypeOK
  <2>3. Looked' BY <1>1 DEF IInv, Looked
  <2>4. Observed' BY <1>1 DEF IInv, Observed
  <2>5. Verdict' BY <2>1 DEF IInv, Verdict
  <2>6. Written' BY <2>1 DEF IInv, Written
  <2> QED BY <2>2, <2>3, <2>4, <2>5, <2>6 DEF IInv
<1> QED BY <1>4, <1>5

\* The score follows the verdict.
LEMMA ScoreAndWriteKeeps == ASSUME IInv, ScoreAndWrite PROVE IInv'
<1> USE DEF ScoreAndWrite, Scored, Blamed, Evidence, ExitObserved
<1>1. result \in Result BY DEF IInv, TypeOK
<1>2. /\ result' \in Result
      /\ result'.status = result.status
      /\ result'.origin = result.origin
      /\ result'.process = result.process
      /\ result'.score_included <=> result'.status # "infra"
      BY <1>1 DEF Result
<1>3. TypeOK' BY <1>2 DEF IInv, TypeOK
<1>4. Looked' BY DEF IInv, Looked
<1>5. Observed' BY DEF IInv, Observed
<1>6. Verdict' BY <1>2 DEF IInv, Verdict
<1>7. Written' BY <1>2 DEF IInv, Written
<1> QED BY <1>3, <1>4, <1>5, <1>6, <1>7 DEF IInv

\* The directory has its final name.
LEMMA PublishKeeps == ASSUME IInv, Publish PROVE IInv'
<1> USE DEF Publish, Blamed, Evidence, ExitObserved
<1>1. TypeOK' BY DEF IInv, TypeOK
<1>2. Looked' BY DEF IInv, Looked
<1>3. Observed' BY DEF IInv, Observed
<1>4. Verdict' BY DEF IInv, Verdict
<1>5. Written' BY DEF IInv, Written
<1> QED BY <1>1, <1>2, <1>3, <1>4, <1>5 DEF IInv

\* The row is the result.
LEMMA AppendRowKeeps == ASSUME IInv, AppendRow PROVE IInv'
<1> USE DEF AppendRow, Blamed, Evidence, ExitObserved
<1>1. TypeOK' BY DEF IInv, TypeOK
<1>2. Looked' BY DEF IInv, Looked
<1>3. Observed' BY DEF IInv, Observed
<1>4. Verdict' BY DEF IInv, Verdict
<1>5. Written' BY DEF IInv, Written
<1> QED BY <1>1, <1>2, <1>3, <1>4, <1>5 DEF IInv

\* An interrupted attempt has no row.
LEMMA AbortKeeps == ASSUME IInv, Abort PROVE IInv'
<1> USE DEF Abort, Blamed, Evidence, ExitObserved
<1>1. TypeOK' BY DEF IInv, TypeOK
<1>2. Looked' BY DEF IInv, Looked
<1>3. Observed' BY DEF IInv, Observed
<1>4. Verdict' BY DEF IInv, Verdict
<1>5. Written' BY DEF IInv, Written
<1> QED BY <1>1, <1>2, <1>3, <1>4, <1>5 DEF IInv

\* An engine that exits still runs, so that its bit was not read before.
LEMMA EngineExitsKeeps ==
    ASSUME IInv, NEW core \in Core \ {"unknown"}, EngineExits(core) PROVE IInv'
<1> USE DEF EngineExits, Blamed, Evidence, ExitObserved
<1>1. ~saw BY DEF IInv, Looked
<1>2. TypeOK' BY DEF IInv, TypeOK, Core
<1>3. Looked' BY <1>1 DEF IInv, Looked
<1>4. Observed' BY <1>1 DEF IInv, Observed
<1>5. Verdict' BY <1>1 DEF IInv, Verdict
<1>6. Written' BY DEF IInv, Written
<1> QED BY <1>2, <1>3, <1>4, <1>5, <1>6 DEF IInv

\* A poll elsewhere takes the zombie, not the bit that was read from it.
LEMMA PolledElsewhereKeeps == ASSUME IInv, PolledElsewhere PROVE IInv'
<1> USE DEF PolledElsewhere, Blamed, Evidence, ExitObserved
<1>1. /\ engine'.life = "waited"
      /\ engine'.core = engine.core
      /\ engine' \in [life : {"running", "zombie", "waited"}, core : {"dumped", "not_dumped"}]
      BY Polled DEF IInv, TypeOK, Waited
<1>2. TypeOK' BY <1>1 DEF IInv, TypeOK
<1>3. Looked' BY <1>1 DEF IInv, Looked
<1>4. Observed' BY <1>1 DEF IInv, Observed
<1>5. Verdict' BY <1>1 DEF IInv, Verdict
<1>6. Written' BY DEF IInv, Written
<1> QED BY <1>2, <1>3, <1>4, <1>5, <1>6 DEF IInv

-----------------------------------------------------------------------------
\* Every step of the attempt, of the engine and of another thread's poll.
LEMMA NextKeeps == IInv /\ [Next]_vars => IInv'
<1> SUFFICES ASSUME IInv, [Next]_vars PROVE IInv'
    OBVIOUS
<1>1. CASE Begin \/ Unavailable \/ \E s \in Returned : DriverReturns(s)
      BY <1>1, BeginKeeps, UnavailableKeeps, DriverReturnsKeeps
<1>2. CASE \E x \in Raised : DriverRaises(x)
      BY <1>2, DriverRaisesKeeps
<1>3. CASE HandlerPeek \/ HandlerPoll \/ Cleanup
      BY <1>3, HandlerPeekKeeps, HandlerPollKeeps, CleanupKeeps
<1>4. CASE AlreadyPrimary \/ PromoteObserved \/ LookAgain \/ FinalPeek \/ FinalPoll
      BY <1>4, AlreadyPrimaryKeeps, PromoteObservedKeeps, LookAgainKeeps, FinalPeekKeeps,
         FinalPollKeeps
<1>5. CASE ScoreAndWrite \/ Publish \/ AppendRow
      BY <1>5, ScoreAndWriteKeeps, PublishKeeps, AppendRowKeeps
<1>6. CASE Abort \/ PolledElsewhere \/ \E core \in Core \ {"unknown"} : EngineExits(core)
      BY <1>6, AbortKeeps, PolledElsewhereKeeps, EngineExitsKeeps
<1>7. CASE UNCHANGED vars
  <2> USE <1>7 DEF vars, Blamed, Evidence, ExitObserved
  <2>1. TypeOK' BY DEF IInv, TypeOK
  <2>2. Looked' BY DEF IInv, Looked
  <2>3. Observed' BY DEF IInv, Observed
  <2>4. Verdict' BY DEF IInv, Verdict
  <2>5. Written' BY DEF IInv, Written
  <2> QED BY <2>1, <2>2, <2>3, <2>4, <2>5 DEF IInv
<1> QED BY <1>1, <1>2, <1>3, <1>4, <1>5, <1>6, <1>7 DEF Next

\* IInv holds whether or not another thread polls the engine.
THEOREM Invariance == Spec => []IInv
<1>1. Init => IInv BY InitIInv
<1>2. IInv /\ [Next]_vars => IInv' BY NextKeeps
<1> QED BY <1>1, <1>2, PTL DEF Spec

\* A row that blames the engine has the core-dump bit that was read, or none.
THEOREM EvidenceIsKept == Spec => []CoreEvidenceKept
<1>1. IInv => CoreEvidenceKept
  <2> SUFFICES ASSUME IInv, row # Nil, row.origin = "engine_process"
               PROVE  row.process.core = IF saw THEN engine.core ELSE "unknown"
      BY DEF CoreEvidenceKept, IInv
  <2>1. row = result BY DEF IInv, Written
  <2> QED BY <2>1 DEF IInv, Verdict, Blamed, Evidence
<1> QED BY <1>1, Invariance, PTL

\* The row, its directory and its score agree, however often the verdict moved.
THEOREM RowTellsOneStory == Spec => []RowAndFilesAgree
<1>1. IInv => RowAndFilesAgree
  <2> SUFFICES ASSUME IInv PROVE RowAndFilesAgree
      OBVIOUS
  <2>1. FilesAgree BY DEF IInv, Written, FilesAgree
  <2>2. RowHasArtifact BY DEF IInv, Written, RowHasArtifact
  <2>3. DeadEngineCounts BY DEF IInv, Written, Verdict, Blamed, DeadEngineCounts
  <2> QED BY <2>1, <2>2, <2>3 DEF RowAndFilesAgree
<1> QED BY <1>1, Invariance, PTL

\* Three steps settle the verdict, and each settles it by what the engine is.
LEMMA VerdictSettled ==
    IInv /\ [Next]_vars =>
        (pc # "score" /\ pc' = "score" =>
            /\ engine'.life = "waited" <=> result'.origin = "engine_process"
            /\ result'.origin = "engine_process" => result'.status = "crash")
<1> SUFFICES ASSUME IInv, [Next]_vars, pc # "score", pc' = "score"
             PROVE  /\ engine'.life = "waited" <=> result'.origin = "engine_process"
                    /\ result'.origin = "engine_process" => result'.status = "crash"
    OBVIOUS
<1>1. IInv' BY NextKeeps
<1>2. result'.origin = "engine_process" => engine'.life = "waited" /\ result'.status = "crash"
      BY <1>1 DEF IInv, Verdict, Blamed
<1>3. AlreadyPrimary \/ PromoteObserved \/ FinalPoll
      BY DEF Next, vars, Begin, Unavailable, DriverReturns, DriverRaises, HandlerPeek, FinalPeek,
             Peek, HandlerPoll, Cleanup, LookAgain, ScoreAndWrite, Publish, AppendRow, Abort,
             EngineExits, PolledElsewhere
<1>4. engine'.life = "waited" => result'.origin = "engine_process"
  <2>1. CASE AlreadyPrimary BY <2>1 DEF AlreadyPrimary
  <2>2. CASE PromoteObserved
        BY <2>2 DEF PromoteObserved, Primary, IInv, TypeOK, Result
  <2>3. CASE FinalPoll
    <3>1. Seen.state = "exited" <=> engine'.life = "waited"
          BY <2>3, Polled DEF FinalPoll, IInv
    <3>2. result \in Result BY DEF IInv, TypeOK
    <3> QED BY <2>3, <3>1, <3>2 DEF FinalPoll, Promotes, Primary, Result
  <2> QED BY <1>3, <2>1, <2>2, <2>3
<1> QED BY <1>2, <1>4

\* An exit that the attempt can see by its end is the verdict, whatever the
\* driver said, and an engine that still ran is never blamed.
THEOREM ExitIsPrimary == Spec => EngineExitIsPrimary
BY Invariance, VerdictSettled, PTL DEF Spec, EngineExitIsPrimary
-----------------------------------------------------------------------------
(* The resource sampler.  Sums and greatest members are reasoned about by      *)
(* induction over the natural numbers: a set takes the place of the predicate. *)

\* The order of the natural numbers is well-founded.
LEMMA NaturalOrder == IsWellFoundedOn({p \in Nat \X Nat : p[1] < p[2]}, Nat)
BY NatLessThanWellFounded DEF OpToRel

\* A set of natural numbers has a least member.
LEMMA Least == ASSUME NEW S \in SUBSET Nat, S # {} PROVE \E m \in S : \A n \in S : m <= n
<1> DEFINE R == {p \in Nat \X Nat : p[1] < p[2]}
<1>1. PICK m \in S : \A n \in S : ~(<<n, m>> \in R) BY NaturalOrder, WFMin
<1>2. \A n \in S : n \in Nat /\ m \in Nat /\ ~(n < m) BY <1>1
<1> QED BY <1>1, <1>2

\* Induction, for a set in place of a predicate.
LEMMA Inductive ==
    ASSUME NEW S, 0 \in S, \A n \in Nat : n \in S => n + 1 \in S
    PROVE  \A n \in Nat : n \in S
<1> DEFINE T == Nat \ S
<1> SUFFICES ASSUME T # {} PROVE FALSE OBVIOUS
<1>1. T \in SUBSET Nat OBVIOUS
<1> HIDE DEF T
<1>2. PICK m \in T : \A n \in T : m <= n BY <1>1, Least
<1> USE DEF T
<1>3. m # 0 OBVIOUS
<1>4. m - 1 \in Nat /\ (m - 1) + 1 = m BY <1>3
<1>5. m - 1 \in S BY <1>2, <1>4
<1> QED BY <1>4, <1>5

\* The greatest member of a set of natural numbers that has a bound.
LEMMA Greatest ==
    ASSUME NEW S \in SUBSET Nat, S # {}, NEW bound \in Nat, \A n \in S : n <= bound
    PROVE  Max(S) \in S /\ \A n \in S : Max(S) >= n
<1> DEFINE T == {bound - n : n \in S}
<1>1. T \in SUBSET Nat /\ T # {}
  <2>1. \A n \in S : n \in Nat /\ n <= bound OBVIOUS
  <2>2. \A n \in S : bound - n \in Nat BY <2>1
  <2> QED BY <2>2
<1> HIDE DEF T
<1>2. PICK m \in T : \A n \in T : m <= n BY <1>1, Least
<1>3. PICK x \in S : m = bound - x BY DEF T
<1>4. \A n \in S : x >= n
  <2> TAKE n \in S
  <2>1. bound - n \in T BY DEF T
  <2>2. bound - x <= bound - n BY <1>2, <1>3, <2>1
  <2> QED BY <2>2
<1> QED BY <1>4 DEF Max

\* The partial sums of f, up to m.
Partial(f, m, g) ==
    /\ g \in [0 .. m -> Int]
    /\ g[0] = 0
    /\ \A n \in 1 .. m : g[n] = g[n - 1] + f[n]

\* SumOf is the last of the partial sums.
LEMMA SumIsPartial ==
    ASSUME NEW f \in [Born -> Int]
    PROVE  \E g : Partial(f, MaxBorn, g) /\ SumOf(f) = g[MaxBorn]
<1>1. MaxBorn \in Nat /\ Born = 1 .. MaxBorn BY SamplerAssumption DEF SamplerAssumption, Born
<1> DEFINE S == {m \in Nat : m <= MaxBorn => \E g : Partial(f, m, g)}
<1>2. 0 \in S
  <2>1. Partial(f, 0, [n \in 0 .. 0 |-> 0]) BY DEF Partial
  <2> QED BY <2>1
<1>3. ASSUME NEW m \in Nat, m \in S PROVE m + 1 \in S
  <2> SUFFICES ASSUME m + 1 <= MaxBorn PROVE \E g : Partial(f, m + 1, g)
      OBVIOUS
  <2>1. PICK g : Partial(f, m, g) BY <1>1, <1>3
  <2> DEFINE h == [n \in 0 .. m + 1 |-> IF n = m + 1 THEN g[m] + f[m + 1] ELSE g[n]]
  <2>2. g[m] \in Int /\ f[m + 1] \in Int BY <1>1, <2>1 DEF Partial
  <2>3. Partial(f, m + 1, h)
    <3>1. h \in [0 .. m + 1 -> Int] BY <2>1, <2>2 DEF Partial
    <3>2. h[0] = 0 BY <2>1 DEF Partial
    <3>3. ASSUME NEW n \in 1 .. m + 1 PROVE h[n] = h[n - 1] + f[n]
      <4>1. CASE n = m + 1 BY <4>1
      <4>2. CASE n # m + 1
        <5>1. n \in 1 .. m /\ n - 1 \in 0 .. m BY <4>2
        <5> QED BY <5>1, <2>1 DEF Partial
      <4> QED BY <4>1, <4>2
    <3> QED BY <3>1, <3>2, <3>3 DEF Partial
  <2> QED BY <2>3
<1> HIDE DEF S
<1>4. MaxBorn \in S BY <1>1, <1>2, <1>3, Inductive
<1>5. PICK g : Partial(f, MaxBorn, g) BY <1>1, <1>4 DEF S
<1> DEFINE Sums(h) == h = [n \in 0 .. MaxBorn |-> IF n = 0 THEN 0 ELSE h[n - 1] + f[n]]
           h == CHOOSE x : Sums(x)
<1>6. Sums(g)
  <2>1. \A n \in 0 .. MaxBorn : g[n] = IF n = 0 THEN 0 ELSE g[n - 1] + f[n]
        BY <1>1, <1>5 DEF Partial
  <2> QED BY <1>5, <2>1 DEF Partial
<1>7. Sums(h) BY <1>6
<1>8. SumOf(f) = h[MaxBorn] BY DEF SumOf
<1> HIDE DEF h
<1>9. /\ h = [n \in 0 .. MaxBorn |-> h[n]]
      /\ \A n \in 0 .. MaxBorn : h[n] = IF n = 0 THEN 0 ELSE h[n - 1] + f[n]
      BY <1>7
<1> HIDE DEF Sums
<1> DEFINE T == {n \in Nat : n <= MaxBorn => h[n] \in Int}
<1>10. 0 \in T BY <1>1, <1>9
<1>11. ASSUME NEW n \in Nat, n \in T PROVE n + 1 \in T
  <2> SUFFICES ASSUME n + 1 <= MaxBorn PROVE h[n + 1] \in Int OBVIOUS
  <2>1. n + 1 \in 0 .. MaxBorn /\ n + 1 # 0 /\ (n + 1) - 1 = n BY <1>1
  <2>2. h[n + 1] = h[n] + f[n + 1] BY <1>9, <2>1
  <2>3. h[n] \in Int /\ f[n + 1] \in Int BY <1>1, <1>11
  <2> QED BY <2>2, <2>3
<1> HIDE DEF T
<1>12. \A n \in Nat : n \in T BY <1>10, <1>11, Inductive
<1>13. Partial(f, MaxBorn, h)
  <2>1. \A n \in 0 .. MaxBorn : h[n] \in Int BY <1>1, <1>12 DEF T
  <2>2. h \in [0 .. MaxBorn -> Int] BY <1>9, <2>1
  <2> QED BY <1>1, <1>9, <2>2 DEF Partial
<1> QED BY <1>8, <1>13

\* Sums are whole numbers, and no smaller when their terms are not.
LEMMA SumIsMonotone ==
    ASSUME NEW f \in [Born -> Int], NEW g \in [Born -> Int], \A b \in Born : f[b] <= g[b]
    PROVE  SumOf(f) \in Int /\ SumOf(g) \in Int /\ SumOf(f) <= SumOf(g)
<1>1. MaxBorn \in Nat /\ Born = 1 .. MaxBorn BY SamplerAssumption DEF SamplerAssumption, Born
<1>2. PICK F : Partial(f, MaxBorn, F) /\ SumOf(f) = F[MaxBorn] BY SumIsPartial
<1>3. PICK G : Partial(g, MaxBorn, G) /\ SumOf(g) = G[MaxBorn] BY SumIsPartial
<1> DEFINE S == {n \in Nat : n <= MaxBorn => F[n] <= G[n]}
<1>4. 0 \in S BY <1>2, <1>3 DEF Partial
<1>5. ASSUME NEW n \in Nat, n \in S PROVE n + 1 \in S
  <2> SUFFICES ASSUME n + 1 <= MaxBorn PROVE F[n + 1] <= G[n + 1] OBVIOUS
  <2>1. n + 1 \in 1 .. MaxBorn /\ n \in 0 .. MaxBorn /\ (n + 1) - 1 = n BY <1>1
  <2>2. F[n + 1] = F[n] + f[n + 1] /\ G[n + 1] = G[n] + g[n + 1]
        BY <1>2, <1>3, <2>1 DEF Partial
  <2>3. /\ F[n] \in Int /\ G[n] \in Int /\ F[n] <= G[n]
        /\ f[n + 1] \in Int /\ g[n + 1] \in Int /\ f[n + 1] <= g[n + 1]
        BY <1>1, <1>2, <1>3, <1>5, <2>1 DEF Partial
  <2> QED BY <2>2, <2>3
<1> HIDE DEF S
<1>6. \A n \in Nat : n \in S BY <1>4, <1>5, Inductive
<1> QED BY <1>1, <1>2, <1>3, <1>6 DEF S, Partial

\* The sum of differences.
LEMMA SumOfDifference ==
    ASSUME NEW f \in [Born -> Int], NEW g \in [Born -> Int]
    PROVE  SumOf([b \in Born |-> f[b] - g[b]]) = SumOf(f) - SumOf(g)
<1> DEFINE d == [b \in Born |-> f[b] - g[b]]
<1>1. MaxBorn \in Nat /\ Born = 1 .. MaxBorn BY SamplerAssumption DEF SamplerAssumption, Born
<1>2. PICK F : Partial(f, MaxBorn, F) /\ SumOf(f) = F[MaxBorn] BY SumIsPartial
<1>3. PICK G : Partial(g, MaxBorn, G) /\ SumOf(g) = G[MaxBorn] BY SumIsPartial
<1>4. d \in [Born -> Int] /\ \A b \in Born : d[b] = f[b] - g[b] OBVIOUS
<1> HIDE DEF d
<1>5. PICK D : Partial(d, MaxBorn, D) /\ SumOf(d) = D[MaxBorn] BY <1>4, SumIsPartial
<1> DEFINE S == {n \in Nat : n <= MaxBorn => D[n] = F[n] - G[n]}
<1>6. 0 \in S BY <1>2, <1>3, <1>5 DEF Partial
<1>7. ASSUME NEW n \in Nat, n \in S PROVE n + 1 \in S
  <2> SUFFICES ASSUME n + 1 <= MaxBorn PROVE D[n + 1] = F[n + 1] - G[n + 1] OBVIOUS
  <2>1. n + 1 \in 1 .. MaxBorn /\ n \in 0 .. MaxBorn /\ (n + 1) - 1 = n BY <1>1
  <2>2. /\ F[n + 1] = F[n] + f[n + 1] /\ G[n + 1] = G[n] + g[n + 1]
        /\ D[n + 1] = D[n] + d[n + 1]
        BY <1>2, <1>3, <1>5, <2>1 DEF Partial
  <2>3. /\ F[n] \in Int /\ G[n] \in Int /\ D[n] = F[n] - G[n]
        BY <1>1, <1>2, <1>3, <1>7, <2>1 DEF Partial
  <2>4. f[n + 1] \in Int /\ g[n + 1] \in Int /\ d[n + 1] = f[n + 1] - g[n + 1]
        BY <1>1, <1>4, <2>1
  <2> QED BY <2>2, <2>3, <2>4
<1> HIDE DEF S
<1>8. \A n \in Nat : n \in S BY <1>6, <1>7, Inductive
<1>9. SumOf(d) = SumOf(f) - SumOf(g) BY <1>1, <1>2, <1>3, <1>5, <1>8 DEF S
<1> QED BY <1>9 DEF d

Cpu == 0 .. MaxMoves + 1
Threads == {"main", "thread"}
Phases == {"baseline", "sample", "end"}
Summing == {"values", "peak", "cpu", "counts", "rows", "done"}
Processes ==
    [state : {"unborn", "run", "zombie", "gone"}, pid : Pids \cup {None},
     parent : 0 .. MaxBorn, cpu : Cpu]
Entry == [b : Born, pid : Pids, cpu : Cpu, zombie : BOOLEAN]
Captures ==
    [pc : {"idle", "scan", "children", "read", "judge", "append", "raised"},
     phase : Phases \cup {None}, tries : Nat, listed : SUBSET Pids,
     todo : SUBSET Pids, at : Pids \cup {None}, seen : SUBSET Pids, table : SUBSET Entry,
     unread : SUBSET Entry, recheck : SUBSET Entry, memory : SUBSET Born,
     failed : BOOLEAN, usage : Int \cup {None}, tree : SUBSET Born, missed : SUBSET Born]
SampleSet ==
    [phase : Phases, memory : SUBSET (Born \cup {None}),
     counters : UNION {[D -> Cpu] : D \in SUBSET Born},
     root : BOOLEAN, tries : Nat, usage : Int \cup {None}, steady : SUBSET Born]
Summaries ==
    [last : SampleSet \cup {None}, values : SUBSET Nat, peak : Nat \cup {None},
     ends : Nat \cup {None}, cpu : Int \cup {None},
     flags : SUBSET {"proc_tree_child_exit_loss_risk", "engine_root_exited",
                     "baseline_end_only"},
     seen : Nat, rows : Nat]

Truths == [begun : [Born -> Cpu], taken : [Born -> Cpu], missed : SUBSET Born, late : BOOLEAN]

\* What the variables hold.
Typed ==
    /\ backend \in {"proc", "ps"} /\ group \in {"none", "live", "removed"}
    /\ proc \in [Born -> Processes]
    /\ moves \in 0 .. MaxMoves /\ faults \in 0 .. MaxFaults
    /\ caps \in [Threads -> Captures]
    /\ samples \in Seq(SampleSet)
    /\ main \in {"new", "baseline", "attempt", "join", "end", "unavailable", "failed"}
                  \cup Summing
    /\ thread \in {"none", "runs", "ended"} /\ stopSet \in BOOLEAN
    /\ summary \in Summaries
    /\ truth \in Truths

\* A pid names one process; a parent runs; a process that was there from the
\* beginning is the root or its child.
Old(b) == truth.begun[b] > 0
Family ==
    /\ proc[Root].state # "unborn" /\ proc[Root].parent = 0 /\ RootPid \in Pids
    /\ \A b \in Born :
          /\ Exists(b) => proc[b].pid \in Pids
          /\ proc[b].parent # b /\ (proc[b].parent # 0 /\ Exists(b) => Runs(proc[b].parent))
          /\ proc[b].cpu <= moves + 1 /\ (proc[b].state = "unborn" => proc[b].cpu = 0)
          /\ group = "removed" => ~Exists(b)
          /\ Old(b) => /\ proc[b].state # "unborn"
                       /\ proc[b].parent \in {0, Root}
                       /\ b # Root => proc[b].pid # RootPid
          /\ truth.begun[b] <= truth.taken[b] /\ truth.taken[b] <= proc[b].cpu
          /\ main = "new" => truth.begun[b] = proc[b].cpu /\ (Exists(b) => Runs(b))
    /\ \A b, d \in Born : Exists(b) /\ Exists(d) /\ proc[b].pid = proc[d].pid => b = d
    /\ backend = "ps" => group = "none"

\* Who is in which capture, and which samples there are.
Ordered ==
    /\ main \in {"new", "unavailable"} => samples = <<>>
    /\ main \in {"new", "baseline", "unavailable"} => thread = "none"
    /\ main \notin {"new", "baseline", "unavailable"} => samples # <<>>
    /\ thread # "runs" => caps["thread"] = NoCapture
    /\ main \notin {"baseline", "end"} => caps["main"] = NoCapture
    /\ \A t \in Threads :
          /\ caps[t].pc = "idle" => caps[t] = NoCapture
          /\ caps[t].phase = None <=> caps[t].pc \in {"idle", "raised"}
    /\ main = "baseline" =>
          IF caps["main"].pc = "idle" THEN samples # <<>>
          ELSE samples = <<>> /\ caps["main"].phase \in {"baseline", None}
    /\ main = "end" => caps["main"].phase \in {"end", None}
    /\ caps["thread"].phase \in {"sample", None}
    /\ samples # <<>> => First.phase = "baseline"
    /\ \A n \in 2 .. Len(samples) : samples[n].phase # "baseline"
    /\ truth.late => main \in {"end", "failed"} \cup Summing

\* Until the caller has taken its last sample there is none; if the thread was
\* joined, nothing comes behind it.
Closed == (main = "end" /\ caps["main"].pc = "idle") \/ main \in Summing
Joined ==
    /\ ~Closed => \A n \in DOMAIN samples : samples[n].phase # "end"
    /\ main \in {"end"} \cup Summing /\ ~truth.late => thread = "ended"
    /\ Closed =>
          /\ Len(samples) >= 2
          /\ ~truth.late =>
                /\ Latest.phase = "end"
                /\ \A n \in 2 .. Len(samples) - 1 : samples[n].phase = "sample"
    /\ main \in Summing /\ ~truth.late =>
          /\ summary.last = Latest
          /\ main \in {"rows", "done"} => summary.seen = Len(samples)
          /\ main = "done" => summary.rows = Len(samples)

\* No process that runs and was found is forgotten on the way to the memory.
Followed(c) ==
    /\ \A e \in c.table :
          /\ proc[e.b].state # "unborn" /\ proc[e.b].pid = e.pid
          /\ Runs(e.b) => ~e.zombie
          /\ truth.begun[e.b] <= e.cpu /\ e.cpu <= proc[e.b].cpu
          /\ c.pc = "read" /\ Runs(e.b) => e.b \in c.memory \/ e \in c.unread \cup c.recheck
          /\ c.pc \in {"judge", "append"} /\ Runs(e.b) => e.b \in c.memory \/ c.failed
    /\ c.unread \cup c.recheck \subseteq c.table
    /\ c.pc \in {"scan", "children"} =>
          c.unread \cup c.recheck = {} /\ c.todo \cap c.seen = {}

\* The CPU that a capture or a sample gives for the group is what all processes
\* had used at one moment.
Captured(c) ==
    c.usage # None =>
        /\ c.pc = "append"
        /\ \E v \in [Born -> Cpu] :
              /\ c.usage = SumOf(v)
              /\ \A b \in Born : v[b] <= proc[b].cpu
              /\ \A e \in c.table : e.cpu <= v[e.b]
              /\ \A b \in Born : IF c.phase = "baseline" THEN truth.begun[b] <= v[b]
                                 ELSE truth.taken[b] <= v[b]

\* Nobody who was there when a scan began, still is, and was not missed is left out: such a
\* process was read, or its pid is to be read, or that of its parent is, or the children of its
\* parent are read next.
Tabled(c) == {e.b : e \in c.table}
Coming(c, b) ==
    /\ proc[b].pid \in c.seen => b \in Tabled(c)
    /\ c.listed # {} \/ b = Root => proc[b].pid \in c.todo \cup c.seen
    /\ c.listed = {} /\ b # Root =>
          /\ proc[b].parent \in c.tree \ c.missed
          /\ proc[b].parent \in Tabled(c) =>
                \/ proc[b].pid \in c.todo \cup c.seen
                \/ c.pc = "children" /\ c.at = proc[proc[b].parent].pid
Kept(c) ==
    /\ \A b \in c.tree : proc[b].state # "unborn"
    /\ c.pc = "children" => c.listed = {} /\ c.at \in Pids
    /\ \A b \in Steady(c) :
          IF c.pc \in {"scan", "children"} THEN Coming(c, b) ELSE b \in Tabled(c)

\* A process of the beginning that the baseline neither found nor missed is gone, or an orphan
\* outside a group, and never found later.
Lost(b) == ~Exists(b) \/ (group # "live" /\ b # Root /\ proc[b].parent = 0)
Unfound(b) == Old(b) /\ b \notin DOMAIN First.counters /\ b \notin truth.missed
Missed(c, b) ==
    /\ b \notin Tabled(c)
    /\ Lost(b)
    /\ Exists(b) => proc[b].pid \notin c.todo \cup c.listed
Found(c) ==
    /\ group = "none" => c.listed = {}
    /\ \A b \in Born :
          /\ Old(b) /\ c.phase = "baseline" =>
                /\ Lost(b) \/ b \in c.tree
                /\ group = "live" /\ Exists(b) => proc[b].pid \in c.listed
          /\ Unfound(b) /\ c.phase \in {"sample", "end"} => Missed(c, b)

Sound(c) == Followed(c) /\ Captured(c) /\ Kept(c) /\ Found(c)

\* The same of the samples.
Metered(n) ==
    LET s == samples[n] IN
    /\ s.usage # None => \E v \in [Born -> Cpu] :
          /\ s.usage = SumOf(v)
          /\ \A b \in Born : v[b] <= proc[b].cpu
          /\ \A b \in DOMAIN s.counters : s.counters[b] <= v[b]
          /\ \A b \in Born : IF n = 1 THEN truth.begun[b] <= v[b] /\ v[b] <= truth.taken[b]
                             ELSE truth.taken[b] <= v[b]
    /\ \A b \in DOMAIN s.counters :
          /\ truth.begun[b] <= s.counters[b] /\ s.counters[b] <= proc[b].cpu
          /\ n = 1 => s.counters[b] <= truth.taken[b]
    /\ Measured(s) => s.steady \subseteq s.memory /\ s.memory \subseteq Born
    /\ \A b \in Born : Unfound(b) => b \notin DOMAIN s.counters /\ Lost(b)

\* What _summarize has computed so far.
Summed ==
    /\ main \notin Summing => summary = NoSummary
    /\ main \in Summing => \E n \in 2 .. Len(samples) :
          /\ summary.last = samples[n]
          /\ main = "peak" => \E m \in n .. Len(samples) :
                summary.values = {i \in 1 .. m : Measured(samples[i])}
    /\ main \in {"values", "peak"} => summary.peak = None
    /\ summary.peak # None =>
          /\ Measured(First) /\ Measured(summary.last)
          /\ summary.peak >= Cardinality(First.memory)
          /\ summary.ends # None /\ summary.peak >= summary.ends
    /\ main \in {"values", "peak", "cpu"} => summary.cpu = None
    /\ CpuIsOfThisAttempt

SamplerInv ==
    /\ Typed /\ Family /\ Ordered /\ Joined /\ Summed
    /\ \A t \in Threads : Sound(caps[t])
    /\ \A n \in DOMAIN samples : Metered(n)
-----------------------------------------------------------------------------
\* The constants.
LEMMA Constants ==
    /\ MaxBorn \in Nat /\ Root \in Born /\ Born = 1 .. MaxBorn /\ IsFiniteSet(Born)
    /\ \A b \in Born : b \in Nat /\ b # 0
    /\ MaxMoves \in Nat /\ MaxFaults \in Nat
    /\ None \notin Nat /\ None \notin Pids /\ None \notin Phases
    /\ \A n \in Cpu : n \in Nat
<1>1. MaxBorn \in Nat \ {0} /\ MaxMoves \in Nat /\ MaxFaults \in Nat
      BY SamplerAssumption DEF SamplerAssumption
<1>2. None \notin Nat /\ None \notin Pids /\ None \notin Phases
      BY SamplerAssumption DEF SamplerAssumption, Phases
<1>3. IsFiniteSet(Born) BY <1>1, FS_Interval DEF Born
<1> QED BY <1>1, <1>2, <1>3 DEF Born, Root, Cpu

\* Nothing that is unfinished has anything to say of a thread that is idle.
LEMMA IdleIsSound == NoCapture \in Captures /\ Sound(NoCapture)
<1>1. NoCapture \in Captures BY DEF NoCapture, Captures
<1>2. /\ NoCapture.table = {} /\ NoCapture.unread = {} /\ NoCapture.recheck = {}
      /\ NoCapture.usage = None /\ NoCapture.phase = None /\ NoCapture.pc = "idle"
      /\ NoCapture.listed = {} /\ NoCapture.tree = {}
      BY DEF NoCapture
<1> HIDE DEF NoCapture
<1>3. None # "baseline" /\ None # "sample" /\ None # "end" BY Constants DEF Phases
<1>4. Followed(NoCapture) BY <1>2 DEF Followed
<1>5. Captured(NoCapture) BY <1>2 DEF Captured
<1>6. Kept(NoCapture) BY <1>2 DEF Kept, Steady
<1>7. Found(NoCapture) BY <1>2, <1>3 DEF Found
<1> QED BY <1>1, <1>4, <1>5, <1>6, <1>7 DEF Sound

\* A set of processes is below itself, and so are the children of what is below it.
LEMMA BelowIsClosed ==
    ASSUME NEW roots
    PROVE  /\ Below(roots) \subseteq Born
           /\ \A b \in Born : Exists(b) /\ b \in roots => b \in Below(roots)
           /\ \A b \in Below(roots) : Exists(b) /\ Children(b) \subseteq Below(roots)
<1>1. Below(roots) \subseteq Born /\ \A b \in Below(roots) : Exists(b) BY DEF Below
<1>2. \A b \in Born : Exists(b) /\ b \in roots => b \in Below(roots) BY DEF Below
<1>3. ASSUME NEW b \in Below(roots), NEW c \in Children(b) PROVE c \in Below(roots)
  <2>1. c \in Born /\ Exists(c) BY DEF Children
  <2>2. ASSUME NEW tree \in SUBSET Born, roots \subseteq tree,
               \A d \in tree : Children(d) \subseteq tree
        PROVE  c \in tree
    <3>1. b \in tree BY <2>2 DEF Below
    <3> QED BY <2>2, <3>1
  <2> QED BY <2>1, <2>2 DEF Below
<1> QED BY <1>1, <1>2, <1>3

\* The parent of a descendant of the root is one, unless it is the root.
LEMMA ParentIs ==
    ASSUME Typed, Family, NEW b \in Descendants, b # Root
    PROVE  /\ b \in Born /\ proc[b].parent \in Born /\ Runs(proc[b].parent)
           /\ b \in Children(proc[b].parent) /\ proc[b].parent \in Descendants
<1> USE Constants
<1>1. b \in Born /\ Exists(b) BY BelowIsClosed DEF Descendants
<1>2. \A tree \in SUBSET Born :
         {Root} \subseteq tree /\ (\A c \in tree : Children(c) \subseteq tree) => b \in tree
      BY DEF Descendants, Below
<1>3. proc[b].parent \in 0 .. MaxBorn BY <1>1 DEF Typed, Processes
<1>4. proc[b].parent # 0
  <2> SUFFICES ASSUME proc[b].parent = 0 PROVE FALSE OBVIOUS
  <2>1. \A k \in Born \ {b} : Children(k) \subseteq Born \ {b} BY DEF Children
  <2> QED BY <1>2, <2>1
<1>5. proc[b].parent \in Born BY <1>3, <1>4
<1>6. Runs(proc[b].parent) /\ b \in Children(proc[b].parent)
      BY <1>1, <1>4, <1>5 DEF Family, Children
<1>7. ASSUME NEW tree \in SUBSET Born, {Root} \subseteq tree,
             \A c \in tree : Children(c) \subseteq tree
      PROVE  proc[b].parent \in tree
  <2> SUFFICES ASSUME proc[b].parent \notin tree PROVE FALSE OBVIOUS
  <2>1. \A k \in tree \ {b} : Children(k) \subseteq tree \ {b} BY <1>7 DEF Children
  <2>2. {Root} \subseteq tree \ {b} /\ tree \ {b} \in SUBSET Born BY <1>7
  <2> QED BY <1>2, <2>1, <2>2
<1>8. proc[b].parent \in Descendants
      BY <1>5, <1>6, <1>7 DEF Descendants, Below, Runs, Exists
<1> QED BY <1>1, <1>5, <1>6, <1>8

\* When nothing is left to be read, all who could be found were.
LEMMA AllFound ==
    ASSUME Typed, Family, NEW c \in Captures, c.pc # "children", c.todo = {},
           \A b \in Steady(c) : Coming(c, b)
    PROVE  Steady(c) \subseteq Tabled(c)
<1> USE Constants
<1>1. Steady(c) \subseteq Born BY DEF Steady, Captures
<1>2. CASE c.listed # {} BY <1>2 DEF Coming
<1>3. CASE c.listed = {}
  <2> DEFINE T == {b \in Born : b \in Steady(c) => b \in Tabled(c)}
  <2>1. Root \in T BY DEF Coming
  <2>2. ASSUME NEW d \in T, NEW e \in Children(d) PROVE e \in T
    <3> SUFFICES ASSUME e \in Steady(c) PROVE e \in Tabled(c) BY DEF Children
    <3>1. e \in Descendants /\ proc[e].parent = d /\ d # 0
          BY <1>3, <2>2 DEF Steady, Children
    <3>2. e # Root BY <3>1 DEF Family
    <3>3. d \in Descendants /\ Exists(d) BY <3>1, <3>2, ParentIs, BelowIsClosed DEF Descendants
    <3>4. Coming(c, e) OBVIOUS
    <3>5. d \in Steady(c) BY <1>3, <3>1, <3>2, <3>3, <3>4 DEF Coming, Steady
    <3>6. d \in Tabled(c) BY <2>2, <3>5
    <3>7. proc[e].pid \in c.seen BY <1>3, <3>1, <3>2, <3>4, <3>6 DEF Coming
    <3> QED BY <3>4, <3>7 DEF Coming
  <2>3. T \in SUBSET Born /\ {Root} \subseteq T /\ \A d \in T : Children(d) \subseteq T
        BY <2>1, <2>2
  <2>4. \A b \in Descendants : b \in T
    <3> HIDE DEF T
    <3> QED BY <2>3 DEF Descendants, Below
  <2> QED BY <1>3, <2>4 DEF Steady
<1> QED BY <1>2, <1>3
-----------------------------------------------------------------------------
(* The engine goes on.                                                        *)

\* What a step of the engine may do to a process.
Moved ==
    /\ \A b \in Born :
          /\ proc[b].cpu <= proc'[b].cpu
          /\ proc[b].state # "unborn" =>
                /\ proc'[b].state # "unborn" /\ proc'[b].pid = proc[b].pid
                /\ proc'[b].parent \in {proc[b].parent, 0}
                /\ Exists(b)' => Exists(b)
                /\ Runs(b)' => Runs(b)
    /\ group' = group \/ (group = "live" /\ group' = "removed")

\* Nobody who is there joins the descendants of the root.
LEMMA DescendantsStay ==
    ASSUME Typed, Family, Moved, NEW b \in Born, proc[b].state # "unborn", b \in Descendants'
    PROVE  b \in Descendants
<1> USE Constants
<1>1. Exists(b)' /\ Exists(b)
  <2>1. Exists(b)' BY DEF Descendants, Below
  <2> QED BY <2>1 DEF Moved
<1>2. ASSUME NEW tree \in SUBSET Born, {Root} \subseteq tree,
             \A c \in tree : Children(c) \subseteq tree
      PROVE  b \in tree
  <2> DEFINE T == tree \cup {c \in Born : proc[c].state = "unborn"}
  <2>1. ASSUME NEW d \in T, NEW e \in Children(d)' PROVE e \in T
    <3>1. e \in Born /\ Exists(e)' /\ proc'[e].parent = d BY DEF Children
    <3> SUFFICES ASSUME proc[e].state # "unborn" PROVE e \in tree BY <3>1
    <3>2. Exists(e) /\ proc[e].parent = d /\ d \in Born /\ d # 0 BY <3>1 DEF Moved
    <3>3. Runs(d) BY <3>1, <3>2 DEF Family
    <3>4. d \in tree BY <3>3 DEF Runs
    <3> QED BY <1>2, <3>1, <3>2, <3>4 DEF Children
  <2>2. T \in SUBSET Born /\ {Root} \subseteq T /\ \A d \in T : Children(d)' \subseteq T
        BY <1>2, <2>1
  <2>3. b \in T
    <3> HIDE DEF T
    <3>1. \A t \in SUBSET Born :
             {Root} \subseteq t /\ (\A c \in t : Children(c)' \subseteq t) => b \in t
          BY DEF Descendants, Below
    <3> QED BY <2>2, <3>1
  <2> QED BY <2>3
<1> QED BY <1>1, <1>2 DEF Descendants, Below

\* Where no process changes, no descent does.
LEMMA DescendantsSame ==
    ASSUME proc' = proc
    PROVE  /\ Descendants' = Descendants
           /\ \A b \in Born : Exists(b)' <=> Exists(b)
           /\ \A c : Steady(c)' = Steady(c)
<1>1. Descendants' = Descendants BY DEF Descendants, Below, Children, Exists
<1>2. ASSUME NEW c PROVE Steady(c)' = Steady(c)
  <2> HIDE DEF Descendants
  <2> QED BY <1>1 DEF Steady, Exists
<1> QED BY <1>1, <1>2 DEF Exists

\* Where no process changes, a capture keeps whom it has found of its tree.
LEMMA KeptSame ==
    ASSUME proc' = proc, NEW c, Kept(c)
    PROVE  Kept(c)'
<1>1. Steady(c)' = Steady(c) BY DescendantsSame
<1>2. \A b : Coming(c, b) => Coming(c, b)' BY DEF Coming, Tabled
<1> QED BY <1>1, <1>2 DEF Kept, Tabled

\* Nor does what it has found of the baseline, while the baseline stays as it was.
LEMMA FoundSame ==
    ASSUME proc' = proc, group' = group, First' = First, truth'.begun = truth.begun,
           truth'.missed = truth.missed, NEW c, Found(c)
    PROVE  Found(c)'
<1>1. \A b : (Old(b)' <=> Old(b)) /\ (Unfound(b)' <=> Unfound(b)) BY DEF Unfound, Old
<1>2. \A b : (Lost(b)' <=> Lost(b)) /\ (Exists(b)' <=> Exists(b)) BY DEF Lost, Exists
<1>3. \A b : Missed(c, b)' <=> Missed(c, b) BY <1>2 DEF Missed, Tabled
<1> QED BY <1>1, <1>2, <1>3 DEF Found

\* Nor what a sample of the list shows of it.
LEMMA MeteredSame ==
    ASSUME proc' = proc, group' = group, First' = First, truth'.begun = truth.begun,
           truth'.taken = truth.taken, truth'.missed = truth.missed, NEW n,
           samples'[n] = samples[n], Metered(n)
    PROVE  Metered(n)'
<1>1. \A b : (Unfound(b)' <=> Unfound(b)) BY DEF Unfound, Old
<1>2. \A b : (Lost(b)' <=> Lost(b)) BY DEF Lost, Exists
<1> QED BY <1>1, <1>2 DEF Metered, Measured

\* Once all pids are read a capture may change without losing whom it has found.
LEMMA Alike ==
    ASSUME NEW c, NEW d, Kept(c), Found(c), c.pc \notin {"scan", "children"},
           d.pc \notin {"scan", "children"}, d.phase = c.phase, d.tree = c.tree,
           d.missed = c.missed, d.listed = c.listed, d.todo = c.todo, d.table = c.table
    PROVE  Kept(d) /\ Found(d)
<1>1. Steady(d) = Steady(c) /\ Tabled(d) = Tabled(c) BY DEF Steady, Tabled
<1>2. \A b : Missed(c, b) => Missed(d, b) BY <1>1 DEF Missed
<1> QED BY <1>1, <1>2 DEF Kept, Found

\* Who was lost stays lost.
LEMMA LostStays ==
    ASSUME Typed, Family, Moved, truth' = truth, NEW b \in Born, Old(b), Lost(b)
    PROVE  Lost(b)'
<1>1. proc[b].state # "unborn" BY DEF Family
<1> QED BY <1>1 DEF Moved, Lost

\* What holds of a capture under way holds while the engine goes on.
LEMMA SoundStays ==
    ASSUME Typed, Typed', Family, Family', Moved, truth' = truth, samples' = samples,
           NEW c \in Captures, Sound(c)
    PROVE  Sound(c)'
<1> USE Constants
<1>1. \A b \in Born : proc[b].cpu \in Nat /\ proc'[b].cpu \in Nat /\ proc[b].cpu <= proc'[b].cpu
      BY DEF Typed, Processes, Cpu, Moved
<1>2. Followed(c)'
  <2> SUFFICES ASSUME NEW e \in c.table
      PROVE /\ proc'[e.b].state # "unborn" /\ proc'[e.b].pid = e.pid
            /\ Runs(e.b)' => ~e.zombie
            /\ truth.begun[e.b] <= e.cpu /\ e.cpu <= proc'[e.b].cpu
            /\ c.pc = "read" /\ Runs(e.b)' => e.b \in c.memory \/ e \in c.unread \cup c.recheck
            /\ c.pc \in {"judge", "append"} /\ Runs(e.b)' => e.b \in c.memory \/ c.failed
      BY DEF Followed, Sound
  <2>1. /\ proc[e.b].state # "unborn" /\ proc[e.b].pid = e.pid
        /\ Runs(e.b) => ~e.zombie
        /\ truth.begun[e.b] <= e.cpu /\ e.cpu <= proc[e.b].cpu
        /\ c.pc = "read" /\ Runs(e.b) => e.b \in c.memory \/ e \in c.unread \cup c.recheck
        /\ c.pc \in {"judge", "append"} /\ Runs(e.b) => e.b \in c.memory \/ c.failed
        BY DEF Followed, Sound
  <2>2. e.b \in Born /\ e.cpu \in Nat BY DEF Captures, Entry, Cpu
  <2>3. /\ proc'[e.b].state # "unborn" /\ proc'[e.b].pid = proc[e.b].pid
        /\ Runs(e.b)' => Runs(e.b)
        BY <2>1, <2>2 DEF Moved
  <2>4. e.cpu <= proc'[e.b].cpu BY <1>1, <2>1, <2>2
  <2> QED BY <2>1, <2>3, <2>4
<1>3. Captured(c)'
  <2> SUFFICES ASSUME c.usage # None
      PROVE \E v \in [Born -> Cpu] :
              /\ c.usage = SumOf(v)
              /\ \A b \in Born : v[b] <= proc'[b].cpu
              /\ \A e \in c.table : e.cpu <= v[e.b]
              /\ \A b \in Born : IF c.phase = "baseline" THEN truth.begun[b] <= v[b]
                                 ELSE truth.taken[b] <= v[b]
      BY DEF Captured, Sound
  <2>1. PICK v \in [Born -> Cpu] :
              /\ c.usage = SumOf(v)
              /\ \A b \in Born : v[b] <= proc[b].cpu
              /\ \A e \in c.table : e.cpu <= v[e.b]
              /\ \A b \in Born : IF c.phase = "baseline" THEN truth.begun[b] <= v[b]
                                 ELSE truth.taken[b] <= v[b]
        BY DEF Captured, Sound
  <2>2. \A b \in Born : v[b] <= proc'[b].cpu
    <3> TAKE b \in Born
    <3>1. v[b] \in Nat OBVIOUS
    <3> QED BY <1>1, <2>1, <3>1
  <2> QED BY <2>1, <2>2
<1>4. Kept(c)'
  <2>1. Kept(c) /\ c.tree \in SUBSET Born BY DEF Sound, Captures
  <2>2. ASSUME NEW b \in c.tree PROVE proc'[b].state # "unborn" BY <2>1 DEF Kept, Moved
  <2>3. ASSUME NEW b \in Steady(c)' PROVE b \in Steady(c)
    <3>1. b \in c.tree \ c.missed /\ Exists(b)' /\ (c.listed = {} => b \in Descendants')
          BY DEF Steady
    <3>2. b \in Born /\ proc[b].state # "unborn" BY <2>1, <3>1 DEF Kept
    <3>3. Exists(b) BY <3>1, <3>2 DEF Moved
    <3>4. c.listed = {} => b \in Descendants BY <3>1, <3>2, DescendantsStay
    <3> QED BY <3>1, <3>3, <3>4 DEF Steady
  <2>4. ASSUME NEW b \in Steady(c)', Coming(c, b) PROVE Coming(c, b)'
    <3>1. b \in Born /\ b \in Steady(c) BY <2>1, <2>3 DEF Steady
    <3>2. proc[b].state # "unborn" /\ proc'[b].pid = proc[b].pid
          BY <2>1, <3>1 DEF Kept, Steady, Moved
    <3>3. ASSUME c.listed = {}, b # Root
          PROVE  /\ proc'[b].parent = proc[b].parent
                 /\ proc'[proc[b].parent].pid = proc[proc[b].parent].pid
      <4>1. b \in Descendants' /\ b \in Descendants BY <3>1, <3>3 DEF Steady
      <4>2. proc'[b].parent # 0
        <5>1. proc[b].parent # 0 /\ proc[b].parent \in Born BY <3>3, <4>1, ParentIs
        <5> SUFFICES ASSUME proc'[b].parent = 0 PROVE FALSE OBVIOUS
        <5>2. \A k \in Born \ {b} : Children(k)' \subseteq Born \ {b} BY DEF Children
        <5>3. {Root} \subseteq Born \ {b} BY <3>3
        <5>4. \A t \in SUBSET Born :
                 {Root} \subseteq t /\ (\A k \in t : Children(k)' \subseteq t) => b \in t
              BY <4>1 DEF Descendants, Below
        <5> QED BY <5>2, <5>3, <5>4
      <4>3. proc'[b].parent = proc[b].parent BY <3>1, <3>2, <4>2 DEF Moved
      <4>4. proc[b].parent \in Born /\ Runs(proc[b].parent) BY <3>3, <4>1, ParentIs
      <4> QED BY <4>3, <4>4 DEF Moved, Runs
    <3> QED BY <2>4, <3>2, <3>3 DEF Coming, Tabled
  <2> QED BY <2>1, <2>2, <2>3, <2>4 DEF Kept, Tabled
<1>5. Found(c)'
  <2>1. Found(c) BY DEF Sound
  <2>2. group' = "none" => c.listed = {} BY <2>1 DEF Found, Moved
  <2>3. ASSUME NEW b \in Born, Old(b)
        PROVE  /\ c.phase = "baseline" =>
                     /\ Lost(b)' \/ b \in c.tree
                     /\ group' = "live" /\ Exists(b)' => proc'[b].pid \in c.listed
               /\ Unfound(b) /\ c.phase \in {"sample", "end"} => Missed(c, b)'
    <3>1. proc[b].state # "unborn" BY <2>3 DEF Family
    <3>2. /\ proc'[b].pid = proc[b].pid
          /\ Exists(b)' => Exists(b)
          /\ group' = "live" => group = "live"
          BY <3>1 DEF Moved
    <3>3. Lost(b) => Lost(b)' BY <2>3, LostStays
    <3>4. Missed(c, b) => Missed(c, b)' BY <3>2, <3>3 DEF Missed, Tabled
    <3> QED BY <2>1, <2>3, <3>2, <3>3, <3>4 DEF Found
  <2> QED BY <2>2, <2>3 DEF Found, Unfound, Old, First
<1> QED BY <1>2, <1>3, <1>4, <1>5 DEF Sound

\* The counters of a sample.
LEMMA CountersTyped ==
    ASSUME NEW s \in SampleSet
    PROVE  /\ DOMAIN s.counters \subseteq Born
           /\ \A b \in DOMAIN s.counters : s.counters[b] \in Cpu /\ s.counters[b] \in Nat
<1>1. PICK D \in SUBSET Born : s.counters \in [D -> Cpu] BY DEF SampleSet
<1> QED BY <1>1, Constants

\* What holds of a sample holds while the engine goes on.
LEMMA MeteredStays ==
    ASSUME Typed, Typed', Family, Family', Moved, truth' = truth, samples' = samples,
           NEW n \in DOMAIN samples, Metered(n)
    PROVE  Metered(n)'
<1> USE Constants
<1> DEFINE s == samples[n]
<1>1. \A b \in Born : proc[b].cpu \in Nat /\ proc'[b].cpu \in Nat /\ proc[b].cpu <= proc'[b].cpu
      BY DEF Typed, Processes, Cpu, Moved
<1>2. s \in SampleSet BY DEF Typed
<1>3. /\ DOMAIN s.counters \subseteq Born
      /\ \A b \in DOMAIN s.counters : s.counters[b] \in Nat
      BY <1>2, CountersTyped
<1>4. s.usage # None => \E v \in [Born -> Cpu] :
          /\ s.usage = SumOf(v)
          /\ \A b \in Born : v[b] <= proc'[b].cpu
          /\ \A b \in DOMAIN s.counters : s.counters[b] <= v[b]
          /\ \A b \in Born : IF n = 1 THEN truth.begun[b] <= v[b] /\ v[b] <= truth.taken[b]
                             ELSE truth.taken[b] <= v[b]
  <2> SUFFICES ASSUME s.usage # None
      PROVE \E v \in [Born -> Cpu] :
          /\ s.usage = SumOf(v)
          /\ \A b \in Born : v[b] <= proc'[b].cpu
          /\ \A b \in DOMAIN s.counters : s.counters[b] <= v[b]
          /\ \A b \in Born : IF n = 1 THEN truth.begun[b] <= v[b] /\ v[b] <= truth.taken[b]
                             ELSE truth.taken[b] <= v[b]
      OBVIOUS
  <2>1. PICK v \in [Born -> Cpu] :
          /\ s.usage = SumOf(v)
          /\ \A b \in Born : v[b] <= proc[b].cpu
          /\ \A b \in DOMAIN s.counters : s.counters[b] <= v[b]
          /\ \A b \in Born : IF n = 1 THEN truth.begun[b] <= v[b] /\ v[b] <= truth.taken[b]
                             ELSE truth.taken[b] <= v[b]
        BY DEF Metered
  <2>2. \A b \in Born : v[b] <= proc'[b].cpu
    <3> TAKE b \in Born
    <3>1. v[b] \in Nat OBVIOUS
    <3> QED BY <1>1, <2>1, <3>1
  <2> QED BY <2>1, <2>2
<1>5. \A b \in DOMAIN s.counters :
          /\ truth.begun[b] <= s.counters[b] /\ s.counters[b] <= proc'[b].cpu
          /\ n = 1 => s.counters[b] <= truth.taken[b]
  <2> TAKE b \in DOMAIN s.counters
  <2>1. /\ truth.begun[b] <= s.counters[b] /\ s.counters[b] <= proc[b].cpu
        /\ n = 1 => s.counters[b] <= truth.taken[b]
        BY DEF Metered
  <2> QED BY <1>1, <1>3, <2>1
<1>6. Measured(s) => s.steady \subseteq s.memory /\ s.memory \subseteq Born BY DEF Metered
<1>7. \A b \in Born : Unfound(b) => b \notin DOMAIN s.counters /\ Lost(b)'
      BY LostStays DEF Metered, Unfound
<1> QED BY <1>4, <1>5, <1>6, <1>7 DEF Metered, Unfound, Old, First, Measured

\* What was summed stays true while processes use more CPU.
LEMMA SummedStays ==
    ASSUME Typed, Typed', Summed, summary' = summary, samples' = samples, truth' = truth,
           main' = main, \A b \in Born : proc[b].cpu <= proc'[b].cpu
    PROVE  Summed'
<1> USE Constants
<1>1. CpuIsOfThisAttempt'
  <2> SUFFICES ASSUME summary.cpu # None
               PROVE  CpuIsOfThisAttempt'
      BY DEF CpuIsOfThisAttempt
  <2> DEFINE used == [b \in Born |-> proc[b].cpu - Before(b)]
             using == [b \in Born |-> proc'[b].cpu - Before(b)]
  <2>1. \A b \in Born : /\ proc[b].cpu \in Nat /\ proc'[b].cpu \in Nat
                        /\ Before(b) \in Nat
        BY DEF Typed, Processes, Cpu, Truths, Before
  <2>2. used \in [Born -> Int] /\ using \in [Born -> Int] BY <2>1
  <2>3. \A b \in Born : used[b] <= using[b] BY <2>1
  <2> HIDE DEF used, using
  <2>4. SumOf(used) \in Int /\ SumOf(using) \in Int /\ SumOf(used) <= SumOf(using)
        BY <2>2, <2>3, SumIsMonotone
  <2>5. summary.cpu \in Int BY DEF Typed, Summaries
  <2>6. summary.cpu <= SumOf(used) BY DEF Summed, CpuIsOfThisAttempt, used
  <2>7. summary.cpu <= SumOf(using) BY <2>4, <2>5, <2>6
  <2>8. using = [b \in Born |-> proc'[b].cpu - Before(b)'] BY DEF using, Before, ByGroup, First
  <2> QED BY <2>7, <2>8 DEF Summed, CpuIsOfThisAttempt
<1> QED BY <1>1 DEF Summed, First, Measured

\* The engine keeps what holds if it only does what a process may do.
LEMMA MovedKeeps ==
    ASSUME SamplerInv, Moved, Typed', Family',
           UNCHANGED <<backend, faults, caps, samples, control, summary, truth>>
    PROVE  SamplerInv'
<1>1. /\ samples' = samples /\ truth' = truth /\ caps' = caps /\ main' = main
      /\ thread' = thread /\ summary' = summary /\ stopSet' = stopSet
      BY DEF control
<1>2. Typed /\ Family /\ Ordered /\ Joined /\ Summed BY DEF SamplerInv
<1>3. Ordered' BY <1>1, <1>2 DEF Ordered, First
<1>4. Joined' BY <1>1, <1>2 DEF Joined, Closed, Latest
<1>5. Summed' BY <1>1, <1>2, SummedStays DEF Moved
<1>6. ASSUME NEW t \in Threads PROVE Sound(caps[t])'
  <2>1. PICK c \in Captures : c = caps[t] BY <1>2 DEF Typed
  <2>2. Sound(c) BY <2>1 DEF SamplerInv
  <2>3. Sound(c)' BY <1>1, <1>2, <2>2, SoundStays
  <2> QED BY <1>1, <2>1, <2>3
<1>7. ASSUME NEW n \in DOMAIN samples' PROVE Metered(n)'
  <2>1. Metered(n) BY <1>1 DEF SamplerInv
  <2> QED BY <1>1, <1>2, <1>7, <2>1, MeteredStays
<1> QED BY <1>2, <1>3, <1>4, <1>5, <1>6, <1>7 DEF SamplerInv

\* A step of the engine happens while something is still to be read.
LEMMA EngineRuns ==
    ASSUME SamplerInv, EngineStep
    PROVE  /\ main # "new" /\ Typed /\ Family
           /\ moves \in Nat /\ moves' = moves + 1 /\ moves' \in 0 .. MaxMoves
           /\ UNCHANGED <<backend, faults, caps, samples, control, summary, truth>>
           /\ main' = main
<1>1. Typed /\ Family /\ Ordered BY DEF SamplerInv
<1>2. main # "new"
  <2>1. NoCapture.pc = "idle" BY DEF NoCapture
  <2> QED BY <1>1, <2>1 DEF EngineStep, Ordered
<1> QED BY <1>1, <1>2, Constants DEF EngineStep, Typed, control

\* A step of the engine changes its processes and its group.
LEMMA TypedMoved ==
    ASSUME SamplerInv, EngineStep, proc' \in [Born -> Processes],
           group' \in {"none", "live", "removed"}
    PROVE  Typed'
<1>1. Typed BY DEF SamplerInv
<1> QED BY <1>1, EngineRuns DEF Typed, control

\* A process is born under a pid that no other has.
LEMMA ForkKeeps == ASSUME SamplerInv, EngineStep, Fork PROVE SamplerInv'
<1> USE Constants
<1>1. /\ main # "new" /\ Typed /\ Family
      /\ moves \in Nat /\ moves' = moves + 1 /\ moves' \in 0 .. MaxMoves
      /\ UNCHANGED <<backend, faults, caps, samples, control, summary, truth>>
      /\ main' = main
      BY EngineRuns
<1>2. PICK b \in Born, c \in Born, pid \in Pids :
          /\ Runs(b) /\ proc[c].state = "unborn" /\ Holder(pid) = {}
          /\ proc' = [proc EXCEPT ![c] = Process(pid, b, 1)] /\ group' = group
      BY DEF Fork
<1>3. /\ proc'[c] = [state |-> "run", pid |-> pid, parent |-> b, cpu |-> 1]
      /\ \A d \in Born : d # c => proc'[d] = proc[d]
      /\ c # b /\ c # Root
      BY <1>1, <1>2 DEF Typed, Process, Family, Runs
<1>4. /\ proc'[c].state = "run" /\ proc'[c].pid = pid /\ proc'[c].parent = b /\ proc'[c].cpu = 1
      BY <1>3
<1>5. proc' \in [Born -> Processes]
  <2>1. b \in 0 .. MaxBorn /\ 1 \in Cpu BY DEF Cpu
  <2>2. Process(pid, b, 1) \in Processes BY <2>1 DEF Process, Processes
  <2> QED BY <1>1, <1>2, <2>2 DEF Typed
<1>6. Typed' BY <1>1, <1>2, <1>5, TypedMoved DEF Typed
<1>7. proc[c].cpu = 0 /\ ~Old(c)
  <2>1. truth.begun[c] <= truth.taken[c] /\ truth.taken[c] <= proc[c].cpu /\ proc[c].cpu = 0
        BY <1>1, <1>2 DEF Family
  <2>2. truth.begun[c] \in Nat /\ truth.taken[c] \in Nat BY <1>1 DEF Typed, Truths, Cpu
  <2> QED BY <2>1, <2>2 DEF Old
<1>8. Moved
  <2>1. \A d \in Born : proc[d].cpu \in Nat BY <1>1 DEF Typed, Processes, Cpu
  <2> QED BY <1>2, <1>3, <1>4, <1>7, <2>1 DEF Moved, Exists, Runs
<1>9. Family'
  <2>1. /\ proc'[Root].state # "unborn" /\ proc'[Root].parent = 0
        /\ RootPid' = RootPid /\ RootPid \in Pids
        BY <1>1, <1>3 DEF Family, RootPid
  <2>2. ASSUME NEW d \in Born
        PROVE  /\ Exists(d)' => proc'[d].pid \in Pids
               /\ proc'[d].parent # d /\ (proc'[d].parent # 0 /\ Exists(d)' => Runs(proc[d].parent)')
               /\ proc'[d].cpu <= moves' + 1
               /\ proc'[d].state = "unborn" => proc'[d].cpu = 0
               /\ group' = "removed" => ~Exists(d)'
               /\ Old(d) => /\ proc'[d].state # "unborn"
                            /\ proc'[d].parent \in {0, Root}
                            /\ d # Root => proc'[d].pid # RootPid'
               /\ truth.begun[d] <= truth.taken[d] /\ truth.taken[d] <= proc'[d].cpu
    <3>1. CASE d = c
      <4>1. truth.begun[c] <= truth.taken[c] /\ truth.taken[c] <= 1
        <5>1. truth.begun[c] \in Nat /\ truth.taken[c] \in Nat BY <1>1 DEF Typed, Truths, Cpu
        <5> QED BY <1>1, <1>7, <5>1 DEF Family
      <4>2. group # "removed" BY <1>1, <1>2 DEF Family, Exists, Runs
      <4>3. Runs(b)' BY <1>2, <1>3 DEF Runs
      <4> QED BY <1>1, <1>2, <1>3, <1>4, <1>7, <3>1, <4>1, <4>2, <4>3 DEF Old
    <3>2. CASE d # c
      <4>1. /\ Exists(d) => proc[d].pid \in Pids
            /\ proc[d].parent # d /\ (proc[d].parent # 0 /\ Exists(d) => Runs(proc[d].parent))
            /\ proc[d].cpu <= moves + 1
            /\ proc[d].state = "unborn" => proc[d].cpu = 0
            /\ group = "removed" => ~Exists(d)
            /\ Old(d) => /\ proc[d].state # "unborn"
                         /\ proc[d].parent \in {0, Root}
                         /\ d # Root => proc[d].pid # RootPid
            /\ truth.begun[d] <= truth.taken[d] /\ truth.taken[d] <= proc[d].cpu
            BY <1>1 DEF Family
      <4>2. proc'[d] = proc[d] /\ (Exists(d)' <=> Exists(d)) BY <1>3, <3>2 DEF Exists
      <4>3. proc[d].parent # 0 /\ Exists(d) => Runs(proc[d].parent)'
        <5> SUFFICES ASSUME proc[d].parent # 0, Exists(d) PROVE Runs(proc[d].parent)'
            OBVIOUS
        <5>1. proc[d].parent \in Born BY <1>1 DEF Typed, Processes
        <5>2. Runs(proc[d].parent) BY <4>1
        <5>3. proc[d].parent # c BY <1>2, <5>2 DEF Runs
        <5>4. proc'[d].parent = proc[d].parent BY <4>2
        <5> QED BY <1>3, <5>1, <5>2, <5>3, <5>4 DEF Runs
      <4>4. proc[d].cpu \in Nat BY <1>1 DEF Typed, Processes, Cpu
      <4> QED BY <1>1, <1>2, <2>1, <4>1, <4>2, <4>3, <4>4
    <3> QED BY <3>1, <3>2
  <2>3. ASSUME NEW d \in Born, NEW e \in Born, Exists(d)', Exists(e)', proc'[d].pid = proc'[e].pid
        PROVE  d = e
    <3>1. \A f \in Born : Exists(f) => proc[f].pid # pid BY <1>2 DEF Holder
    <3>2. \A f \in Born : f # c => (Exists(f)' <=> Exists(f)) BY <1>3 DEF Exists
    <3> QED BY <1>1, <1>3, <1>4, <2>3, <3>1, <3>2 DEF Family
  <2>4. backend' = "ps" => group' = "none" BY <1>1, <1>2 DEF Family
  <2>5. main' # "new" /\ truth' = truth BY <1>1
  <2> QED BY <2>1, <2>2, <2>3, <2>4, <2>5 DEF Family, Old
<1> QED BY <1>1, <1>6, <1>8, <1>9, MovedKeeps

\* A step in which no process is born.
LEMMA DecayKeeps ==
    ASSUME SamplerInv, EngineStep, proc' \in [Born -> Processes],
           group' \in {"none", "live", "removed"},
           group' = group \/ (group = "live" /\ group' = "removed"),
           group' = "removed" => \A b \in Born : ~Exists(b)',
           \A b \in Born :
              /\ proc'[b].pid = proc[b].pid
              /\ proc'[b].state = "unborn" <=> proc[b].state = "unborn"
              /\ proc'[b].parent \in {proc[b].parent, 0}
              /\ proc'[b].cpu = proc[b].cpu \/ (Runs(b) /\ proc'[b].cpu = proc[b].cpu + 1)
              /\ Exists(b)' => Exists(b)
              /\ Runs(b)' => Runs(b)
              /\ proc'[b].parent # 0 /\ Exists(b)' => Runs(proc[b].parent)'
    PROVE  SamplerInv'
<1> USE Constants
<1>1. /\ main # "new" /\ Typed /\ Family
      /\ moves \in Nat /\ moves' = moves + 1 /\ moves' \in 0 .. MaxMoves
      /\ UNCHANGED <<backend, faults, caps, samples, control, summary, truth>>
      /\ main' = main
      BY EngineRuns
<1>2. Typed' BY TypedMoved
<1>3. \A b \in Born : proc[b].cpu \in Nat BY <1>1 DEF Typed, Processes, Cpu
<1>4. \A b \in Born : proc[b].cpu <= proc'[b].cpu /\ proc'[b].cpu <= proc[b].cpu + 1
      BY <1>3
<1>5. Moved BY <1>4 DEF Moved
<1>6. Family'
  <2>1. /\ proc'[Root].state # "unborn" /\ proc'[Root].parent = 0
        /\ RootPid' = RootPid /\ RootPid \in Pids
        BY <1>1 DEF Family, RootPid
  <2>2. ASSUME NEW b \in Born
        PROVE  /\ Exists(b)' => proc'[b].pid \in Pids
               /\ proc'[b].parent # b
               /\ proc'[b].parent # 0 /\ Exists(b)' => Runs(proc[b].parent)'
               /\ proc'[b].cpu <= moves' + 1
               /\ proc'[b].state = "unborn" => proc'[b].cpu = 0
               /\ group' = "removed" => ~Exists(b)'
               /\ Old(b) => /\ proc'[b].state # "unborn"
                            /\ proc'[b].parent \in {0, Root}
                            /\ b # Root => proc'[b].pid # RootPid'
               /\ truth.begun[b] <= truth.taken[b] /\ truth.taken[b] <= proc'[b].cpu
    <3>1. /\ (Exists(b) => proc[b].pid \in Pids) /\ proc[b].parent # b /\ b # 0
          /\ proc[b].cpu <= moves + 1
          /\ proc[b].state = "unborn" => proc[b].cpu = 0
          /\ Old(b) => /\ proc[b].state # "unborn"
                       /\ proc[b].parent \in {0, Root}
                       /\ b # Root => proc[b].pid # RootPid
          /\ truth.begun[b] <= truth.taken[b] /\ truth.taken[b] <= proc[b].cpu
          BY <1>1 DEF Family
    <3>2. /\ proc[b].cpu \in Nat /\ proc'[b].cpu \in Nat
          /\ proc[b].cpu <= proc'[b].cpu /\ proc'[b].cpu <= proc[b].cpu + 1
          BY <1>3, <1>4, <1>2 DEF Typed, Processes, Cpu
    <3>3. truth.taken[b] \in Nat BY <1>1 DEF Typed, Truths, Cpu
    <3>4. proc'[b].cpu <= moves' + 1 BY <1>1, <3>1, <3>2
    <3>5. truth.taken[b] <= proc'[b].cpu BY <3>1, <3>2, <3>3
    <3>6. proc'[b].state = "unborn" => proc'[b].cpu = 0 BY <3>1 DEF Runs
    <3>7. proc'[b].parent # b
      <4>1. proc'[b].parent \in {proc[b].parent, 0} OBVIOUS
      <4> QED BY <3>1, <4>1
    <3>8. (Exists(b)' => proc'[b].pid \in Pids) /\ (group' = "removed" => ~Exists(b)') BY <3>1
    <3>9. proc'[b].parent # 0 /\ Exists(b)' => Runs(proc[b].parent)' OBVIOUS
    <3>10. Old(b) => /\ proc'[b].state # "unborn"
                     /\ proc'[b].parent \in {0, Root}
                     /\ b # Root => proc'[b].pid # RootPid'
           BY <2>1, <3>1
    <3> QED BY <3>1, <3>4, <3>5, <3>6, <3>7, <3>8, <3>9, <3>10
  <2>3. ASSUME NEW d \in Born, NEW e \in Born, Exists(d)', Exists(e)', proc'[d].pid = proc'[e].pid
        PROVE  d = e
        BY <1>1, <2>3 DEF Family
  <2>4. backend' = "ps" => group' = "none" BY <1>1 DEF Family
  <2>5. main' # "new" /\ truth' = truth BY <1>1
  <2> QED BY <2>1, <2>2, <2>3, <2>4, <2>5 DEF Family, Old
<1> QED BY <1>1, <1>2, <1>5, <1>6, MovedKeeps

\* A process uses CPU.
LEMMA WorkKeeps == ASSUME SamplerInv, EngineStep, Work PROVE SamplerInv'
<1> USE Constants
<1>1. Typed /\ Family /\ moves + 1 \in 0 .. MaxMoves /\ moves \in Nat BY EngineRuns
<1>2. PICK b \in Born : Runs(b) /\ proc' = [proc EXCEPT ![b].cpu = @ + 1] /\ group' = group
      BY DEF Work
<1>3. proc[b] \in Processes /\ proc[b].cpu \in Nat /\ proc[b].cpu <= moves + 1
      BY <1>1 DEF Typed, Processes, Cpu, Family
<1>4. proc[b].cpu + 1 \in Cpu BY <1>1, <1>3 DEF Cpu
<1>5. [proc[b] EXCEPT !.cpu = @ + 1] \in Processes BY <1>3, <1>4 DEF Processes
<1>6. proc' \in [Born -> Processes] BY <1>1, <1>2, <1>5 DEF Typed
<1>7. /\ proc'[b].state = proc[b].state /\ proc'[b].pid = proc[b].pid
      /\ proc'[b].parent = proc[b].parent /\ proc'[b].cpu = proc[b].cpu + 1
      /\ \A d \in Born : d # b => proc'[d] = proc[d]
      BY <1>1, <1>2, <1>3 DEF Typed, Processes
<1>8. \A d \in Born : /\ proc'[d].state = proc[d].state /\ proc'[d].pid = proc[d].pid
                      /\ proc'[d].parent = proc[d].parent
                      /\ (Exists(d)' <=> Exists(d)) /\ (Runs(d)' <=> Runs(d))
                      /\ proc'[d].cpu = proc[d].cpu \/ (Runs(d) /\ proc'[d].cpu = proc[d].cpu + 1)
      BY <1>2, <1>7 DEF Exists, Runs
<1>9. ASSUME NEW d \in Born, proc[d].parent # 0, Exists(d) PROVE Runs(proc[d].parent)'
  <2>1. proc[d].parent \in Born BY <1>1, <1>9 DEF Typed, Processes
  <2>2. Runs(proc[d].parent) BY <1>1, <1>9 DEF Family
  <2>3. proc'[d].parent = proc[d].parent BY <1>8
  <2> QED BY <1>8, <2>1, <2>2, <2>3 DEF Runs
<1>10. group \in {"none", "live", "removed"} /\ (group = "removed" => \A d \in Born : ~Exists(d))
       BY <1>1 DEF Typed, Family
<1> QED BY <1>2, <1>6, <1>8, <1>9, <1>10, DecayKeeps

\* A process exits and its children are orphans.
LEMMA ExitKeeps == ASSUME SamplerInv, EngineStep, Exit PROVE SamplerInv'
<1> USE Constants
<1>1. Typed /\ Family BY EngineRuns
<1>2. PICK b \in Born, state \in {"zombie", "gone"} :
          /\ Runs(b) /\ group' = group
          /\ proc' = [c \in Born |->
                        IF c = b THEN [proc[c] EXCEPT !.state = state]
                        ELSE IF proc[c].parent = b THEN [proc[c] EXCEPT !.parent = 0]
                        ELSE proc[c]]
      BY DEF Exit
<1>3. \A d \in Born : proc[d] \in Processes BY <1>1 DEF Typed
<1>4. proc' \in [Born -> Processes]
  <2>1. ASSUME NEW c \in Born PROVE proc'[c] \in Processes
    <3>1. proc[c] \in Processes BY <1>3
    <3>2. [proc[c] EXCEPT !.state = state] \in Processes BY <3>1 DEF Processes
    <3>3. [proc[c] EXCEPT !.parent = 0] \in Processes BY <3>1 DEF Processes
    <3>4. proc'[c] = IF c = b THEN [proc[c] EXCEPT !.state = state]
                     ELSE IF proc[c].parent = b THEN [proc[c] EXCEPT !.parent = 0] ELSE proc[c]
          BY <1>2
    <3> QED BY <3>1, <3>2, <3>3, <3>4
  <2>2. proc' = [c \in Born |-> proc'[c]] BY <1>2
  <2> QED BY <2>1, <2>2
<1>5. /\ proc'[b].state = state /\ proc'[b].pid = proc[b].pid
      /\ proc'[b].parent = proc[b].parent /\ proc'[b].cpu = proc[b].cpu
      /\ \A d \in Born : d # b =>
            /\ proc'[d].state = proc[d].state /\ proc'[d].pid = proc[d].pid
            /\ proc'[d].cpu = proc[d].cpu
            /\ proc'[d].parent = IF proc[d].parent = b THEN 0 ELSE proc[d].parent
      BY <1>2, <1>3, SMTT(30) DEF Processes
<1>6. \A d \in Born : /\ proc'[d].pid = proc[d].pid /\ proc'[d].cpu = proc[d].cpu
                      /\ proc'[d].parent \in {proc[d].parent, 0}
                      /\ proc'[d].state = "unborn" <=> proc[d].state = "unborn"
                      /\ Exists(d)' => Exists(d)
                      /\ Runs(d)' => Runs(d)
                      /\ d # b => (Runs(d)' <=> Runs(d))
      BY <1>2, <1>5 DEF Exists, Runs
<1>7. ASSUME NEW d \in Born, proc'[d].parent # 0, Exists(d)' PROVE Runs(proc[d].parent)'
  <2>1. proc'[d].parent = proc[d].parent /\ Exists(d) BY <1>6, <1>7
  <2>2. proc[d].parent \in Born BY <1>1, <1>7, <2>1 DEF Typed, Processes
  <2>3. Runs(proc[d].parent) BY <1>1, <1>7, <2>1 DEF Family
  <2>4. proc[d].parent # b
    <3>1. d # b /\ proc[d].parent = b => proc'[d].parent = 0 BY <1>5
    <3>2. proc[b].parent # b BY <1>1 DEF Family
    <3> QED BY <1>7, <3>1, <3>2
  <2> QED BY <1>6, <2>1, <2>2, <2>3, <2>4 DEF Runs
<1>8. group \in {"none", "live", "removed"} /\ (group = "removed" => \A d \in Born : ~Exists(d))
      BY <1>1 DEF Typed, Family
<1> QED BY <1>2, <1>4, <1>6, <1>7, <1>8, DecayKeeps

\* A zombie is reaped.
LEMMA ReapKeeps == ASSUME SamplerInv, EngineStep, Reap PROVE SamplerInv'
<1> USE Constants
<1>1. Typed /\ Family BY EngineRuns
<1>2. PICK b \in Born : /\ proc[b].state = "zombie" /\ group' = group
                        /\ proc' = [proc EXCEPT ![b].state = "gone"]
      BY DEF Reap
<1>3. proc[b] \in Processes BY <1>1 DEF Typed
<1>4. [proc[b] EXCEPT !.state = "gone"] \in Processes BY <1>3 DEF Processes
<1>5. proc' \in [Born -> Processes] BY <1>1, <1>2, <1>4 DEF Typed
<1>6. /\ proc'[b].state = "gone" /\ proc'[b].pid = proc[b].pid
      /\ proc'[b].parent = proc[b].parent /\ proc'[b].cpu = proc[b].cpu
      /\ \A d \in Born : d # b => proc'[d] = proc[d]
      BY <1>1, <1>2, <1>3 DEF Typed, Processes
<1>7. \A d \in Born : /\ proc'[d].pid = proc[d].pid /\ proc'[d].cpu = proc[d].cpu
                      /\ proc'[d].parent = proc[d].parent
                      /\ proc'[d].state = "unborn" <=> proc[d].state = "unborn"
                      /\ Exists(d)' => Exists(d)
                      /\ Runs(d)' <=> Runs(d)
      BY <1>2, <1>6 DEF Exists, Runs
<1>8. ASSUME NEW d \in Born, proc'[d].parent # 0, Exists(d)' PROVE Runs(proc[d].parent)'
  <2>1. proc'[d].parent = proc[d].parent /\ Exists(d) BY <1>7, <1>8
  <2>2. proc[d].parent \in Born BY <1>1, <1>8, <2>1 DEF Typed, Processes
  <2>3. Runs(proc[d].parent) BY <1>1, <1>8, <2>1 DEF Family
  <2> QED BY <1>7, <2>1, <2>2, <2>3 DEF Runs
<1>9. group \in {"none", "live", "removed"} /\ (group = "removed" => \A d \in Born : ~Exists(d))
      BY <1>1 DEF Typed, Family
<1> QED BY <1>2, <1>5, <1>7, <1>8, <1>9, DecayKeeps

\* The group is killed and removed.
LEMMA RemoveGroupKeeps == ASSUME SamplerInv, EngineStep, RemoveGroup PROVE SamplerInv'
<1> USE Constants
<1>1. Typed /\ Family BY EngineRuns
<1>2. /\ group = "live" /\ group' = "removed"
      /\ proc' = [b \in Born |-> IF Exists(b) THEN [proc[b] EXCEPT !.state = "gone"]
                                 ELSE proc[b]]
      BY DEF RemoveGroup
<1>3. \A b \in Born : proc[b] \in Processes BY <1>1 DEF Typed
<1>4. proc' \in [Born -> Processes]
  <2>1. ASSUME NEW b \in Born PROVE proc'[b] \in Processes
    <3>1. proc[b] \in Processes BY <1>3
    <3>2. [proc[b] EXCEPT !.state = "gone"] \in Processes BY <3>1 DEF Processes
    <3>3. proc'[b] = IF Exists(b) THEN [proc[b] EXCEPT !.state = "gone"] ELSE proc[b]
          BY <1>2
    <3> QED BY <3>1, <3>2, <3>3
  <2>2. proc' = [b \in Born |-> proc'[b]] BY <1>2
  <2> QED BY <2>1, <2>2
<1>5. \A b \in Born : /\ proc'[b].pid = proc[b].pid /\ proc'[b].cpu = proc[b].cpu
                      /\ proc'[b].parent = proc[b].parent
                      /\ proc'[b].state = IF Exists(b) THEN "gone" ELSE proc[b].state
      BY <1>2, <1>3 DEF Processes
<1>6. \A b \in Born : /\ proc'[b].state = "unborn" <=> proc[b].state = "unborn"
                      /\ ~Exists(b)' /\ ~Runs(b)'
      BY <1>5 DEF Exists, Runs
<1> QED BY <1>2, <1>4, <1>5, <1>6, DecayKeeps

\* The engine breaks nothing.
LEMMA EngineKeeps == ASSUME SamplerInv, EngineStep PROVE SamplerInv'
BY ForkKeeps, WorkKeeps, ExitKeeps, ReapKeeps, RemoveGroupKeeps DEF EngineStep

\* A step of a capture that leaves the rest alone.
LEMMA CaptureKeeps ==
    ASSUME SamplerInv, NEW t \in Threads, NEW c \in Captures, Sound(c),
           caps' = [caps EXCEPT ![t] = c],
           caps[t].pc \notin {"idle", "raised"},
           c.pc # "idle", c.phase \in {caps[t].phase, None}, c.phase = None <=> c.pc = "raised",
           faults' \in 0 .. MaxFaults,
           UNCHANGED <<backend, processes, samples, control, summary, truth>>
    PROVE  SamplerInv'
<1> USE Constants
<1>1. /\ Typed /\ Family /\ Ordered /\ Joined /\ Summed
      /\ \A u \in Threads : Sound(caps[u])
      /\ \A n \in DOMAIN samples : Metered(n)
      BY DEF SamplerInv
<1>2. /\ backend' = backend /\ group' = group /\ proc' = proc /\ moves' = moves
      /\ samples' = samples /\ main' = main /\ thread' = thread /\ stopSet' = stopSet
      /\ summary' = summary /\ truth' = truth
      BY DEF processes, control
<1>3. /\ caps'[t] = c /\ \A u \in Threads : u # t => caps'[u] = caps[u]
      BY <1>1 DEF Typed
<1>4. Typed' BY <1>1, <1>2 DEF Typed
<1>5. Family' BY <1>1, <1>2 DEF Family, Exists, Runs, Old, RootPid
<1>6. NoCapture.pc = "idle" BY DEF NoCapture
<1>7. t = "main" \/ t = "thread" BY DEF Threads
<1>8. Ordered'
  <2> HIDE DEF NoCapture
  <2>1. thread # "runs" => t # "thread" BY <1>1, <1>6 DEF Ordered
  <2>2. main \notin {"baseline", "end"} => t # "main" BY <1>1, <1>6 DEF Ordered
  <2>3. \A u \in Threads :
          /\ caps'[u].pc = "idle" => caps'[u] = NoCapture
          /\ caps'[u].phase = None <=> caps'[u].pc \in {"idle", "raised"}
        BY <1>1, <1>3 DEF Ordered
  <2>4. thread' # "runs" => caps'["thread"] = NoCapture
        BY <1>1, <1>2, <1>3, <2>1 DEF Ordered, Threads
  <2>5. main' \notin {"baseline", "end"} => caps'["main"] = NoCapture
        BY <1>1, <1>2, <1>3, <2>2 DEF Ordered, Threads
  <2>6. main' = "baseline" =>
          IF caps'["main"].pc = "idle" THEN samples' # <<>>
          ELSE samples' = <<>> /\ caps'["main"].phase \in {"baseline", None}
    <3>1. CASE t = "main" BY <1>1, <1>2, <1>3, <3>1 DEF Ordered
    <3>2. CASE t # "main" BY <1>1, <1>2, <1>3, <3>2 DEF Ordered, Threads
    <3> QED BY <3>1, <3>2
  <2>7. main' = "end" => caps'["main"].phase \in {"end", None}
        BY <1>1, <1>2, <1>3 DEF Ordered, Threads
  <2>8. caps'["thread"].phase \in {"sample", None}
        BY <1>1, <1>2, <1>3 DEF Ordered, Threads
  <2> QED BY <1>1, <1>2, <2>3, <2>4, <2>5, <2>6, <2>7, <2>8 DEF Ordered, First
<1>9. Joined'
  <2>1. caps'["main"].pc = "idle" <=> caps["main"].pc = "idle"
        BY <1>3 DEF Threads
  <2>2. Closed' <=> Closed BY <1>2, <2>1 DEF Closed
  <2> QED BY <1>1, <1>2, <2>2 DEF Joined, Latest
<1>10. Summed'
  <2>1. \A b \in Born : proc[b].cpu <= proc'[b].cpu BY <1>1, <1>2 DEF Typed, Processes, Cpu
  <2> QED BY <1>1, <1>2, <1>4, <2>1, SummedStays
<1>11. ASSUME NEW u \in Threads PROVE Sound(caps[u])'
  <2>1. PICK d \in Captures : d = caps'[u] BY <1>4 DEF Typed
  <2>2. Sound(d)
    <3>1. CASE u = t BY <1>3, <2>1, <3>1
    <3>2. CASE u # t BY <1>1, <1>3, <2>1, <3>2
    <3> QED BY <3>1, <3>2
  <2>3. Followed(d)' BY <1>2, <2>2 DEF Sound, Followed, Runs
  <2>4. Captured(d)' BY <1>2, <2>2 DEF Sound, Captured
  <2>5. Kept(d)' BY <1>2, <2>2, KeptSame DEF Sound
  <2>6. Found(d)'
    <3>1. First' = First BY <1>2 DEF First
    <3> QED BY <1>2, <2>2, <3>1, FoundSame DEF Sound
  <2> QED BY <2>1, <2>3, <2>4, <2>5, <2>6 DEF Sound
<1>12. ASSUME NEW n \in DOMAIN samples' PROVE Metered(n)'
  <2>1. First' = First BY <1>2 DEF First
  <2>2. Metered(n) BY <1>1, <1>2
  <2> QED BY <1>2, <2>1, <2>2, MeteredSame
<1> QED BY <1>4, <1>5, <1>8, <1>9, <1>10, <1>11, <1>12 DEF SamplerInv

\* A scan that begins has forgotten nothing.
LEMMA ScanSound ==
    ASSUME Typed, Family, NEW phase \in Phases, NEW tries \in Nat, NEW listed \in SUBSET Pids,
           group = "none" => listed = {},
           \A b \in Born : Old(b) =>
              /\ phase = "baseline" /\ group = "live" /\ Exists(b) => proc[b].pid \in listed
              /\ phase \in {"sample", "end"} /\ Unfound(b) =>
                    Lost(b) /\ (Exists(b) => proc[b].pid \notin listed)
    PROVE  /\ Scan(phase, tries, listed) \in Captures
           /\ Sound(Scan(phase, tries, listed))
           /\ Scan(phase, tries, listed).pc = "scan" /\ Scan(phase, tries, listed).phase = phase
<1> USE Constants
<1> DEFINE tree == IF listed = {} THEN Descendants
                   ELSE UNION {Holder(pid) : pid \in listed \cup {RootPid}}
           c == Scan(phase, tries, listed)
<1>1. tree \in SUBSET Born /\ \A b \in tree : Exists(b)
      BY BelowIsClosed DEF Descendants, Holder
<1>2. \A b \in Born, pid \in listed \cup {RootPid} :
         listed # {} /\ Exists(b) /\ proc[b].pid = pid => b \in tree
      BY DEF Holder
<1>3. \A b \in tree : listed # {} => proc[b].pid \in listed \cup {RootPid} BY DEF Holder
<1>4. listed = {} => tree = Descendants OBVIOUS
<1>5. /\ c.table = {} /\ c.unread = {} /\ c.recheck = {} /\ c.usage = None
      /\ c.phase = phase /\ c.pc = "scan" /\ c.listed = listed
      /\ c.todo = listed \cup {RootPid} /\ c.seen = {} /\ c.tree = tree /\ c.missed = {}
      BY DEF Scan, NoCapture
<1> HIDE DEF tree
<1>6. c \in Captures
  <2>1. RootPid \in Pids BY DEF Family
  <2>2. c = [NoCapture EXCEPT !.pc = "scan", !.phase = phase, !.tries = tries, !.listed = listed,
                              !.todo = listed \cup {RootPid}, !.tree = tree]
        BY DEF Scan, tree
  <2> HIDE DEF c
  <2> QED BY <1>1, <2>1, <2>2 DEF NoCapture, Captures
<1> HIDE DEF c
<1>7. Followed(c) BY <1>5 DEF Followed
<1>8. Captured(c) BY <1>5 DEF Captured
<1>9. Kept(c)
  <2>1. ASSUME NEW b \in Steady(c) PROVE Coming(c, b)
    <3>1. b \in tree /\ (listed = {} => b \in Descendants) BY <1>5, <2>1 DEF Steady
    <3>2. listed = {} /\ b # Root => proc[b].parent \in tree BY <1>4, <3>1, ParentIs
    <3>3. b = Root => proc[b].pid = RootPid BY DEF RootPid
    <3> QED BY <1>3, <1>5, <3>1, <3>2, <3>3 DEF Coming, Tabled
  <2>2. \A b \in c.tree : proc[b].state # "unborn" BY <1>1, <1>5 DEF Exists
  <2> QED BY <1>5, <2>1, <2>2 DEF Kept
<1>10. ASSUME NEW b \in Born
       PROVE /\ Old(b) /\ c.phase = "baseline" =>
                 /\ Lost(b) \/ b \in c.tree
                 /\ group = "live" /\ Exists(b) => proc[b].pid \in c.listed
             /\ Unfound(b) /\ c.phase \in {"sample", "end"} => Missed(c, b)
  <2>1. ASSUME Old(b), c.phase = "baseline", ~Lost(b) PROVE b \in c.tree
    <3>1. Exists(b) /\ proc[b].parent \in {0, Root} /\ group # "removed"
          BY <2>1 DEF Lost, Family
    <3>2. CASE group = "live" BY <1>2, <1>5, <1>10, <2>1, <3>1, <3>2
    <3>3. CASE group # "live"
      <4>1. listed = {} BY <3>1, <3>3 DEF Typed
      <4>2. CASE b = Root BY <1>4, <1>5, <3>1, <4>1, <4>2, BelowIsClosed DEF Descendants
      <4>3. CASE b # Root
        <5>1. proc[b].parent = Root BY <2>1, <3>1, <3>3, <4>3 DEF Lost
        <5>2. Exists(Root) BY <3>1, <5>1 DEF Family, Runs, Exists
        <5>3. Root \in Descendants /\ b \in Children(Root)
              BY <3>1, <5>1, <5>2, BelowIsClosed DEF Descendants, Children
        <5>4. b \in Descendants BY <5>3, BelowIsClosed DEF Descendants
        <5> QED BY <1>4, <1>5, <4>1, <5>4
      <4> QED BY <4>2, <4>3
    <3> QED BY <3>2, <3>3
  <2>2. ASSUME c.phase \in {"sample", "end"}, Unfound(b) PROVE Missed(c, b)
    <3>1. Old(b) BY <2>2 DEF Unfound
    <3>2. Lost(b) /\ (Exists(b) => proc[b].pid \notin listed) BY <1>5, <2>2, <3>1
    <3>3. Exists(b) => proc[b].pid # RootPid
      <4>1. Exists(b) /\ group # "live" => b # Root BY <3>2 DEF Lost
      <4>2. Exists(b) => group # "live" BY <3>2 DEF Lost
      <4> QED BY <3>1, <4>1, <4>2 DEF Family
    <3> QED BY <1>5, <3>2, <3>3 DEF Missed, Tabled
  <2> QED BY <1>5, <2>1, <2>2
<1>11. Found(c) BY <1>5, <1>10 DEF Found
<1> QED BY <1>5, <1>6, <1>7, <1>8, <1>9, <1>11 DEF Sound, c

\* The capture of a thread.
LEMMA CaptureIs ==
    ASSUME SamplerInv, NEW t \in Threads
    PROVE  /\ caps[t] \in Captures /\ Sound(caps[t])
           /\ Typed /\ Family /\ Ordered
           /\ caps[t].phase \in Phases \cup {None}
           /\ caps[t].phase = None <=> caps[t].pc \in {"idle", "raised"}
<1>1. Typed /\ Family /\ Ordered BY DEF SamplerInv
<1>2. caps[t] \in Captures BY <1>1 DEF Typed
<1>3. caps[t].phase \in Phases \cup {None} BY <1>2 DEF Captures
<1> QED BY <1>1, <1>2, <1>3 DEF SamplerInv, Ordered

\* A scan that missed a measurement is repeated.
LEMMA ScanAgainKeeps ==
    ASSUME SamplerInv, NEW t \in Threads, ScanAgain(t) PROVE SamplerInv'
<1> USE Constants
<1>1. PICK c \in Captures : c = caps[t] BY CaptureIs
<1>2. /\ c.pc = "judge" /\ Sound(c) /\ Typed /\ Family /\ c.phase \in Phases
      /\ c.tries + 1 \in Nat /\ c.listed \in SUBSET Pids
      /\ caps' = [caps EXCEPT ![t] = Scan(c.phase, c.tries + 1, c.listed)]
      /\ UNCHANGED <<backend, processes, faults, samples, control, summary, truth>>
      BY <1>1, CaptureIs DEF ScanAgain, Captures
<1>3. group = "none" => c.listed = {} BY <1>2 DEF Sound, Found
<1>4. \A b \in Born : Old(b) =>
         /\ c.phase = "baseline" /\ group = "live" /\ Exists(b) => proc[b].pid \in c.listed
         /\ c.phase \in {"sample", "end"} /\ Unfound(b) =>
               Lost(b) /\ (Exists(b) => proc[b].pid \notin c.listed)
      BY <1>2 DEF Sound, Found, Missed
<1>5. PICK d : d = Scan(c.phase, c.tries + 1, c.listed) OBVIOUS
<1>6. d \in Captures /\ Sound(d) /\ d.pc = "scan" /\ d.phase = c.phase
      BY <1>2, <1>3, <1>4, <1>5, ScanSound
<1>7. faults' \in 0 .. MaxFaults BY <1>2 DEF Typed
<1>8. c.phase # None BY <1>2
<1> QED BY <1>1, <1>2, <1>5, <1>6, <1>7, <1>8, CaptureKeeps

\* Only a process that does not run may be missing from the memory.
LEMMA RecheckKeeps ==
    ASSUME SamplerInv, NEW t \in Threads, Recheck(t) PROVE SamplerInv'
<1> USE Constants
<1>1. PICK c \in Captures : c = caps[t] BY CaptureIs
<1> DEFINE fails == \E i \in c.recheck : ~ConfirmedGone(i)
           d == [c EXCEPT !.pc = "judge", !.recheck = {}, !.failed = fails]
<1>2. /\ c.pc = "read" /\ c.unread = {} /\ Sound(c) /\ Typed /\ Family /\ c.phase # None
      /\ caps' = [caps EXCEPT ![t] = d]
      /\ UNCHANGED <<backend, processes, faults, samples, control, summary, truth>>
      BY <1>1, CaptureIs DEF Recheck, Typed
<1>3. fails \in BOOLEAN OBVIOUS
<1>4. /\ d \in Captures /\ d.pc = "judge" /\ d.phase = c.phase /\ d.table = c.table
      /\ d.memory = c.memory /\ d.listed = c.listed /\ d.todo = c.todo /\ d.seen = c.seen
      /\ d.unread = {} /\ d.recheck = {} /\ d.usage = c.usage /\ d.failed = fails
      /\ d.tree = c.tree /\ d.missed = c.missed
      BY <1>2, <1>3 DEF Captures
<1> HIDE DEF d
<1>5. Followed(d)
  <2>1. ASSUME NEW e \in c.table, Runs(e.b) PROVE e.b \in c.memory \/ fails
    <3>1. /\ proc[e.b].pid = e.pid /\ (e.b \in c.memory \/ e \in c.recheck)
          BY <1>2, <2>1 DEF Sound, Followed
    <3>2. e \in c.recheck => ~ConfirmedGone(e)
      <4>1. e.b \in Holder(e.pid) BY <2>1, <3>1 DEF Holder, Runs, Exists, Captures, Entry
      <4> QED BY <2>1, <4>1 DEF ConfirmedGone
    <3> QED BY <3>1, <3>2
  <2> HIDE DEF fails
  <2>2. \A e \in c.table :
          /\ proc[e.b].state # "unborn" /\ proc[e.b].pid = e.pid
          /\ Runs(e.b) => ~e.zombie
          /\ truth.begun[e.b] <= e.cpu /\ e.cpu <= proc[e.b].cpu
        BY <1>2 DEF Sound, Followed
  <2> QED BY <1>4, <2>1, <2>2 DEF Followed
<1>6. Captured(d) BY <1>2, <1>4 DEF Sound, Captured
<1>7. Kept(d) /\ Found(d) BY <1>2, <1>4, Alike DEF Sound
<1>8. faults' \in 0 .. MaxFaults BY <1>2 DEF Typed
<1> QED BY <1>1, <1>2, <1>4, <1>5, <1>6, <1>7, <1>8, CaptureKeeps DEF Sound

\* A process that runs is measured or kept for the second look.
LEMMA ReadPssKeeps ==
    ASSUME SamplerInv, NEW t \in Threads, ReadPss(t) PROVE SamplerInv'
<1> USE Constants
<1>1. PICK c \in Captures : c = caps[t] BY CaptureIs
<1>2. /\ c.pc = "read" /\ Sound(c) /\ Typed /\ Family /\ c.phase # None
      /\ UNCHANGED <<backend, processes, samples, control, summary, truth>>
      BY <1>1, CaptureIs DEF ReadPss
<1>3. PICK i \in c.unread :
        \/ /\ {b \in Holder(i.pid) : Runs(b)} # {}
           /\ caps' = [caps EXCEPT ![t] = [[c EXCEPT !.unread = @ \ {i}] EXCEPT
                                             !.memory = @ \cup {b \in Holder(i.pid) : Runs(b)}]]
           /\ UNCHANGED faults
        \/ /\ {b \in Holder(i.pid) : Runs(b)} # {} => faults < MaxFaults
           /\ faults' = IF {b \in Holder(i.pid) : Runs(b)} # {} THEN faults + 1 ELSE faults
           /\ caps' = [caps EXCEPT ![t] = [[c EXCEPT !.unread = @ \ {i}] EXCEPT
                                             !.recheck = IF i.zombie THEN @ ELSE @ \cup {i}]]
      BY <1>1 DEF ReadPss
<1> DEFINE here == {b \in Holder(i.pid) : Runs(b)}
<1>4. PICK m \in SUBSET Born, r \in SUBSET Entry :
        /\ caps' = [caps EXCEPT ![t] = [c EXCEPT !.unread = @ \ {i}, !.memory = m, !.recheck = r]]
        /\ c.memory \subseteq m /\ c.recheck \subseteq r /\ r \subseteq c.recheck \cup {i}
        /\ Runs(i.b) => i.b \in m \/ i \in r
  <2>1. i \in c.table /\ i \in Entry /\ proc[i.b].pid = i.pid /\ (Runs(i.b) => ~i.zombie)
        BY <1>2, <1>3 DEF Sound, Followed, Captures
  <2>2. Runs(i.b) => i.b \in here BY <2>1 DEF Holder, Runs, Exists, Entry
  <2>3. here \subseteq Born BY DEF Holder
  <2> HIDE DEF here
  <2>4. CASE caps' = [caps EXCEPT ![t] = [[c EXCEPT !.unread = @ \ {i}] EXCEPT
                                             !.memory = @ \cup here]]
    <3>1. c.memory \cup here \in SUBSET Born /\ c.recheck \in SUBSET Entry
          BY <2>3 DEF Captures
    <3>2. [[c EXCEPT !.unread = @ \ {i}] EXCEPT !.memory = @ \cup here]
            = [c EXCEPT !.unread = @ \ {i}, !.memory = c.memory \cup here, !.recheck = c.recheck]
          BY DEF Captures
    <3> QED BY <2>2, <2>4, <3>1, <3>2
  <2>5. CASE caps' = [caps EXCEPT ![t] = [[c EXCEPT !.unread = @ \ {i}] EXCEPT
                                             !.recheck = IF i.zombie THEN @ ELSE @ \cup {i}]]
    <3> DEFINE r == IF i.zombie THEN c.recheck ELSE c.recheck \cup {i}
    <3>1. c.memory \in SUBSET Born /\ r \in SUBSET Entry BY <2>1 DEF Captures
    <3>2. [[c EXCEPT !.unread = @ \ {i}] EXCEPT !.recheck = IF i.zombie THEN @ ELSE @ \cup {i}]
            = [c EXCEPT !.unread = @ \ {i}, !.memory = c.memory, !.recheck = r]
          BY DEF Captures
    <3>3. (Runs(i.b) => i \in r) /\ c.recheck \subseteq r /\ r \subseteq c.recheck \cup {i}
          BY <2>1
    <3> HIDE DEF r
    <3> QED BY <2>5, <3>1, <3>2, <3>3
  <2> QED BY <1>3, <2>4, <2>5 DEF here
<1> DEFINE d == [c EXCEPT !.unread = @ \ {i}, !.memory = m, !.recheck = r]
<1>5. /\ d \in Captures /\ d.pc = "read" /\ d.phase = c.phase /\ d.table = c.table
      /\ d.memory = m /\ d.listed = c.listed /\ d.todo = c.todo /\ d.seen = c.seen
      /\ d.unread = c.unread \ {i} /\ d.recheck = r /\ d.usage = c.usage
      /\ d.tree = c.tree /\ d.missed = c.missed
      BY <1>2, <1>4 DEF Captures
<1>6. caps' = [caps EXCEPT ![t] = d] BY <1>4
<1> HIDE DEF d
<1>7. Followed(d)
  <2>1. c.unread \cup c.recheck \subseteq c.table BY <1>2 DEF Sound, Followed
  <2>2. ASSUME NEW e \in c.table
        PROVE  /\ proc[e.b].state # "unborn" /\ proc[e.b].pid = e.pid
               /\ Runs(e.b) => ~e.zombie
               /\ truth.begun[e.b] <= e.cpu /\ e.cpu <= proc[e.b].cpu
               /\ Runs(e.b) => e.b \in m \/ e \in (c.unread \ {i}) \cup r
        BY <1>2, <1>4 DEF Sound, Followed
  <2> QED BY <1>3, <1>4, <1>5, <2>1, <2>2 DEF Followed
<1>8. Captured(d) BY <1>2, <1>5 DEF Sound, Captured
<1>9. Kept(d) /\ Found(d) BY <1>2, <1>5, Alike DEF Sound
<1>10. faults' \in 0 .. MaxFaults BY <1>2, <1>3 DEF Typed
<1> QED BY <1>1, <1>2, <1>5, <1>6, <1>7, <1>8, <1>9, <1>10, CaptureKeeps DEF Sound

\* The usage of the group is that of all processes at this moment.
LEMMA ScanEndsKeeps ==
    ASSUME SamplerInv, NEW t \in Threads, ScanEnds(t) PROVE SamplerInv'
<1> USE Constants
<1>1. PICK c \in Captures : c = caps[t] BY CaptureIs
<1> DEFINE use == IF group = "live" THEN SumOf(CpuNow) ELSE None
           d == [c EXCEPT !.pc = "append", !.usage = use]
<1>2. /\ c.pc = "judge" /\ Sound(c) /\ Typed /\ Family /\ c.phase # None
      /\ caps' = [caps EXCEPT ![t] = d]
      /\ UNCHANGED <<backend, processes, faults, samples, control, summary, truth>>
      BY <1>1, CaptureIs DEF ScanEnds, Typed
<1>3. CpuNow \in [Born -> Cpu] /\ \A b \in Born : CpuNow[b] = proc[b].cpu
      BY <1>2 DEF CpuNow, Typed, Processes
<1>4. use \in Int \cup {None}
  <2>1. PICK v \in [Born -> Int] : v = CpuNow BY <1>3 DEF Cpu
  <2>2. \A b \in Born : v[b] <= v[b] OBVIOUS
  <2>3. SumOf(v) \in Int BY <2>2, SumIsMonotone
  <2> QED BY <2>1, <2>3
<1> HIDE DEF use
<1>5. /\ d \in Captures /\ d.pc = "append" /\ d.phase = c.phase /\ d.table = c.table
      /\ d.memory = c.memory /\ d.listed = c.listed /\ d.todo = c.todo /\ d.seen = c.seen
      /\ d.unread = c.unread /\ d.recheck = c.recheck /\ d.usage = use /\ d.failed = c.failed
      /\ d.tree = c.tree /\ d.missed = c.missed
      BY <1>2, <1>4 DEF Captures
<1> HIDE DEF d
<1>6. Followed(d) BY <1>2, <1>5 DEF Sound, Followed
<1>7. Captured(d)
  <2> SUFFICES ASSUME use # None
      PROVE /\ use = SumOf(CpuNow)
            /\ \A b \in Born : CpuNow[b] <= proc[b].cpu
            /\ \A e \in c.table : e.cpu <= CpuNow[e.b]
            /\ \A b \in Born : IF c.phase = "baseline" THEN truth.begun[b] <= CpuNow[b]
                               ELSE truth.taken[b] <= CpuNow[b]
      BY <1>3, <1>5 DEF Captured
  <2>1. \A b \in Born : CpuNow[b] <= proc[b].cpu BY <1>2, <1>3 DEF Typed, Processes, Cpu
  <2>2. \A e \in c.table : e.b \in Born /\ e.cpu <= proc[e.b].cpu
        BY <1>2 DEF Sound, Followed, Captures, Entry
  <2>3. ASSUME NEW b \in Born
        PROVE truth.taken[b] <= proc[b].cpu /\ truth.begun[b] <= proc[b].cpu
    <3>1. truth.begun[b] \in Nat /\ truth.taken[b] \in Nat /\ proc[b].cpu \in Nat
          BY <1>2 DEF Typed, Truths, Processes, Cpu
    <3> QED BY <1>2, <3>1 DEF Family
  <2> QED BY <1>3, <2>1, <2>2, <2>3 DEF use
<1>8. Kept(d) /\ Found(d) BY <1>2, <1>5, Alike DEF Sound
<1>9. faults' \in 0 .. MaxFaults BY <1>2 DEF Typed
<1> QED BY <1>1, <1>2, <1>5, <1>6, <1>7, <1>8, <1>9, CaptureKeeps DEF Sound

\* ps fails.
LEMMA PsRaisesKeeps ==
    ASSUME SamplerInv, NEW t \in Threads, PsRaises(t) PROVE SamplerInv'
<1> USE Constants
<1>1. PICK c \in Captures : c = caps[t] BY CaptureIs
<1> DEFINE d == [NoCapture EXCEPT !.pc = "raised"]
<1>2. /\ c.pc = "scan" /\ Typed /\ faults' = faults + 1 /\ faults < MaxFaults
      /\ caps' = [caps EXCEPT ![t] = d]
      /\ UNCHANGED <<backend, processes, samples, control, summary, truth>>
      BY <1>1, CaptureIs DEF PsRaises
<1>3. /\ d \in Captures /\ d.pc = "raised" /\ d.phase = None /\ d.table = {} /\ d.listed = {}
      /\ d.unread = {} /\ d.recheck = {} /\ d.usage = None /\ d.tree = {}
      BY DEF Captures, NoCapture
<1> HIDE DEF d
<1>4. None # "baseline" /\ None # "sample" /\ None # "end" BY DEF Phases
<1>5. Kept(d) BY <1>3 DEF Kept, Steady
<1>6. Sound(d) BY <1>3, <1>4, <1>5 DEF Sound, Followed, Captured, Found
<1>7. faults' \in 0 .. MaxFaults BY <1>2 DEF Typed
<1> QED BY <1>1, <1>2, <1>3, <1>6, <1>7, CaptureKeeps

\* Whoever has the pid is in the table, or missed, when the scan is done with the pid; the
\* children of who is in the table are read next.
LEMMA ReadStatKeeps ==
    ASSUME SamplerInv, NEW t \in Threads, ReadStat(t) PROVE SamplerInv'
<1> USE Constants
<1>1. PICK c \in Captures : c = caps[t] BY CaptureIs
<1>2. PICK pid \in c.todo, read \in SUBSET Born :
         /\ read \in {{}, Holder(pid)}
         /\ read # Holder(pid) => faults < MaxFaults
         /\ faults' = IF read # Holder(pid) THEN faults + 1 ELSE faults
         /\ caps' = [caps EXCEPT ![t] = StatRead(c, pid, read)]
      BY <1>1 DEF ReadStat, Holder
<1> DEFINE here == Holder(pid)
           seen == c.seen \cup {pid}
           todo == c.todo \ {pid}
           table == c.table \cup {Item(b) : b \in read}
           hidden == Hidden(c, here \ read)
           missed == c.missed \cup hidden
           next == c.listed = {} /\ read # {}
           mode == IF next THEN "children" ELSE IF todo = {} THEN "read" ELSE "scan"
           at == IF next THEN pid ELSE c.at
           unread == IF next THEN {} ELSE {i \in table : todo = {}}
           d == StatRead(c, pid, read)
<1>3. /\ c.pc = "scan" /\ Sound(c) /\ Typed /\ Family /\ c.phase # None
      /\ caps' = [caps EXCEPT ![t] = d]
      /\ UNCHANGED <<backend, processes, samples, control, summary, truth>>
      BY <1>1, <1>2, CaptureIs DEF ReadStat
<1>4. pid \in Pids /\ c.unread = {} /\ c.recheck = {} /\ c.usage = None
      BY <1>3 DEF Captures, Sound, Followed, Captured
<1>5. \A b \in Born : /\ proc[b].cpu \in Cpu /\ proc[b].cpu \in Nat
                      /\ truth.begun[b] \in Nat /\ truth.taken[b] \in Nat
                      /\ truth.begun[b] <= proc[b].cpu
  <2>1. \A b \in Born : /\ proc[b].cpu \in Cpu /\ proc[b].cpu \in Nat
                        /\ truth.begun[b] \in Nat /\ truth.taken[b] \in Nat
        BY <1>3 DEF Typed, Truths, Processes, Cpu
  <2> QED BY <1>3, <2>1 DEF Family
<1>6. /\ here \subseteq Born /\ read \subseteq here
      /\ \A b \in here : Exists(b) /\ proc[b].pid = pid
      /\ \A b \in Born : Exists(b) /\ proc[b].pid = pid => b \in here
      BY <1>2 DEF Holder
<1>7. \A e \in table \ c.table : \E b \in read :
          e = [b |-> b, pid |-> proc[b].pid, cpu |-> proc[b].cpu, zombie |-> ~Runs(b)]
      BY DEF Item
<1>8. table \subseteq Entry
  <2>1. \A b \in read : Item(b) \in Entry
        BY <1>4, <1>5, <1>6 DEF Item, Entry
  <2> QED BY <2>1 DEF Captures
<1>9. /\ \A b \in read : \E e \in table : e.b = b
      /\ c.table \subseteq table
  <2>1. \A b \in read : Item(b).b = b BY DEF Item
  <2> QED BY <2>1
<1>10. /\ hidden \subseteq Born
       /\ \A b \in here \ read : b \in hidden
       /\ c.listed = {} => \A b \in hidden : Children(b) \subseteq hidden
  <2>1. Below(here \ read) \subseteq Born BY BelowIsClosed
  <2>2. \A b \in here \ read : b \in Below(here \ read) BY <1>6, BelowIsClosed
  <2>3. \A b \in Below(here \ read) : Children(b) \subseteq Below(here \ read) BY BelowIsClosed
  <2> QED BY <1>6, <2>1, <2>2, <2>3 DEF Hidden
<1> HIDE DEF here, table, hidden
<1>11. todo \subseteq Pids /\ seen \subseteq Pids /\ missed \subseteq Born
       BY <1>4, <1>10 DEF Captures
<1>12. /\ unread \subseteq table /\ (mode = "read" => unread = table)
       /\ mode # "read" => unread = {}
       OBVIOUS
<1>13. todo \cap seen = {} /\ todo \cup seen = c.todo \cup c.seen
  <2>1. c.todo \cap c.seen = {} BY <1>3 DEF Sound, Followed
  <2> QED BY <2>1
<1>14. /\ d \in Captures /\ d.pc = mode /\ d.phase = c.phase /\ d.table = table
       /\ d.memory = c.memory /\ d.listed = c.listed /\ d.todo = todo /\ d.seen = seen
       /\ d.unread = unread /\ d.recheck = {} /\ d.usage = None
       /\ d.tree = c.tree /\ d.missed = missed /\ d.at = at
  <2>1. d = [c EXCEPT !.seen = seen, !.todo = todo, !.table = table, !.missed = missed,
                      !.pc = mode, !.at = at, !.unread = unread]
    <3> DEFINE e == [c EXCEPT !.seen = seen, !.todo = todo, !.table = table,
                              !.missed = missed]
    <3>1. d = IF next THEN [e EXCEPT !.pc = "children", !.at = pid] ELSE Advanced(e)
          BY DEF StatRead, here, table, hidden
    <3>2. e.todo = todo /\ e.table = table /\ e.unread = {} /\ e.at = c.at
          BY <1>4 DEF Captures
    <3>3. CASE next
      <4>1. d = [e EXCEPT !.pc = mode, !.at = at] BY <3>1, <3>3
      <4>2. c.unread = unread BY <1>4, <3>3
      <4> HIDE DEF mode, at, unread, seen, todo, missed, next
      <4> QED BY <4>1, <4>2 DEF Captures
    <3>4. CASE ~next
      <4>1. d = [e EXCEPT !.pc = mode, !.unread = unread]
            BY <3>1, <3>2, <3>4 DEF Advanced
      <4> HIDE DEF mode, unread
      <4> QED BY <3>4, <4>1 DEF Captures
    <3> QED BY <3>3, <3>4
  <2>2. at \in Pids \cup {None} /\ unread \in SUBSET Entry
        BY <1>4, <1>8, <1>12 DEF Captures
  <2>3. mode \in {"children", "read", "scan"} OBVIOUS
  <2> HIDE DEF d, at, unread, mode, seen, todo, missed
  <2> QED BY <1>4, <1>8, <1>11, <2>1, <2>2, <2>3, ZenonT(40) DEF Captures
<1> HIDE DEF d
<1>15. Followed(d)
  <2>1. ASSUME NEW e \in table
        PROVE  /\ proc[e.b].state # "unborn" /\ proc[e.b].pid = e.pid
               /\ Runs(e.b) => ~e.zombie
               /\ truth.begun[e.b] <= e.cpu /\ e.cpu <= proc[e.b].cpu
    <3>1. CASE e \in c.table BY <1>3, <3>1 DEF Sound, Followed
    <3>2. CASE e \notin c.table
      <4>1. PICK b \in read : e = [b |-> b, pid |-> proc[b].pid, cpu |-> proc[b].cpu,
                                   zombie |-> ~Runs(b)]
            BY <1>7, <3>2
      <4>2. /\ e.b = b /\ e.pid = proc[b].pid /\ e.cpu = proc[b].cpu
            /\ e.zombie = ~Runs(b) /\ b \in Born /\ Exists(b)
            BY <1>6, <4>1
      <4>3. proc[b].state # "unborn" BY <4>2 DEF Exists
      <4>4. truth.begun[b] <= proc[b].cpu /\ proc[b].cpu <= proc[b].cpu BY <1>5, <4>2
      <4> QED BY <4>2, <4>3, <4>4
    <3> QED BY <3>1, <3>2
  <2>2. mode \in {"children", "read", "scan"} OBVIOUS
  <2> HIDE DEF mode, unread, todo, seen
  <2> QED BY <1>12, <1>13, <1>14, <2>1, <2>2 DEF Followed
<1>16. Captured(d) BY <1>14 DEF Captured
<1>17. Kept(d)
  <2>1. Kept(c) BY <1>3 DEF Sound
  <2>2. Tabled(c) \subseteq Tabled(d) /\ \A b \in read : b \in Tabled(d)
        BY <1>9, <1>14 DEF Tabled
  <2>3. ASSUME NEW b \in Tabled(d) PROVE b \in Tabled(c) \/ b \in read
    <3>1. PICK e \in table : e.b = b BY <1>14 DEF Tabled
    <3>2. e \notin c.table => b \in read BY <1>7, <3>1
    <3> QED BY <3>1, <3>2 DEF Tabled
  <2>4. ASSUME NEW b \in Steady(d) PROVE Coming(d, b)
    <3>1. /\ b \in Born /\ Exists(b) /\ b \in c.tree /\ b \notin c.missed /\ b \notin hidden
          /\ c.listed = {} => b \in Descendants
          BY <1>14, <2>4 DEF Steady, Captures
    <3>2. Coming(c, b) BY <1>3, <2>1, <3>1 DEF Kept, Steady
    <3>3. proc[b].pid \in seen => b \in Tabled(d)
      <4>1. CASE proc[b].pid = pid BY <1>6, <1>10, <2>2, <3>1, <4>1
      <4>2. CASE proc[b].pid # pid BY <2>2, <3>2, <4>2 DEF Coming
      <4> QED BY <4>1, <4>2
    <3>4. ASSUME c.listed = {}, b # Root
          PROVE  /\ proc[b].parent \in c.tree \ missed
                 /\ proc[b].parent \in Tabled(d) =>
                       \/ proc[b].pid \in todo \cup seen
                       \/ mode = "children" /\ at = proc[proc[b].parent].pid
      <4>1. b \in Children(proc[b].parent) /\ proc[b].parent \in Born
            BY <1>3, <3>1, <3>4, ParentIs
      <4>2. proc[b].parent \in c.tree \ c.missed BY <3>2, <3>4 DEF Coming
      <4>3. proc[b].parent \notin hidden BY <1>10, <3>1, <3>4, <4>1
      <4>4. CASE proc[b].parent \in Tabled(c)
            BY <1>3, <1>13, <3>2, <3>4, <4>2, <4>3, <4>4 DEF Coming
      <4>5. CASE proc[b].parent \in read
            BY <1>6, <3>4, <4>2, <4>3, <4>5
      <4>6. CASE proc[b].parent \notin Tabled(c) \cup read BY <2>3, <4>2, <4>3, <4>6
      <4> QED BY <4>4, <4>5, <4>6
    <3>5. c.listed # {} \/ b = Root => proc[b].pid \in todo \cup seen
          BY <1>13, <3>2 DEF Coming
    <3> HIDE DEF mode, at, todo, seen, missed
    <3> QED BY <1>14, <3>3, <3>4, <3>5 DEF Coming
  <2>5. mode = "read" => Steady(d) \subseteq Tabled(d)
        BY <1>3, <1>14, <2>4, AllFound
  <2>6. mode = "children" => c.listed = {} /\ at \in Pids BY <1>4
  <2>7. mode \in {"children", "read", "scan"} OBVIOUS
  <2> HIDE DEF mode, at
  <2> QED BY <1>14, <2>1, <2>4, <2>5, <2>6, <2>7 DEF Kept
<1>18. Found(d)
  <2>1. Found(c) BY <1>3 DEF Sound
  <2>2. ASSUME NEW b \in Born, Missed(c, b) PROVE Missed(d, b)
    <3>1. b \notin here BY <1>6, <2>2 DEF Missed
    <3>2. b \notin Tabled(d)
      <4> SUFFICES ASSUME NEW e \in table, e.b = b PROVE FALSE BY <1>14 DEF Tabled
      <4>1. e \notin c.table BY <2>2 DEF Missed, Tabled
      <4> QED BY <1>6, <1>7, <3>1, <4>1
    <3> QED BY <1>14, <2>2, <3>2 DEF Missed
  <2> QED BY <1>14, <2>1, <2>2 DEF Found
<1>19. faults' \in 0 .. MaxFaults BY <1>2, <1>3 DEF Typed
<1>20. mode # "idle" /\ mode # "raised" OBVIOUS
<1> QED BY <1>1, <1>3, <1>14, <1>15, <1>16, <1>17, <1>18, <1>19, <1>20, CaptureKeeps DEF Sound

\* The children of a process in the table are to be read, or missed.
LEMMA ReadChildrenKeeps ==
    ASSUME SamplerInv, NEW t \in Threads, ReadChildren(t) PROVE SamplerInv'
<1> USE Constants
<1>1. PICK c \in Captures : c = caps[t] BY CaptureIs
<1> DEFINE kids == UNION {Children(b) : b \in Holder(c.at)}
<1>2. PICK found \in SUBSET kids :
         /\ found # kids => faults < MaxFaults
         /\ faults' = IF found # kids THEN faults + 1 ELSE faults
         /\ caps' = [caps EXCEPT ![t] = ChildrenRead(c, found)]
      BY <1>1 DEF ReadChildren
<1> DEFINE pids == {proc[b].pid : b \in found}
           todo == (c.todo \cup pids) \ c.seen
           hidden == Below(kids \ found)
           missed == c.missed \cup hidden
           mode == IF todo = {} THEN "read" ELSE "scan"
           unread == {i \in c.table : todo = {}}
           d == ChildrenRead(c, found)
<1>3. /\ c.pc = "children" /\ Sound(c) /\ Typed /\ Family /\ c.phase # None
      /\ caps' = [caps EXCEPT ![t] = d]
      /\ UNCHANGED <<backend, processes, samples, control, summary, truth>>
      BY <1>1, <1>2, CaptureIs DEF ReadChildren
<1>4. /\ c.listed = {} /\ c.unread = {} /\ c.recheck = {} /\ c.usage = None
      /\ c.todo \cap c.seen = {}
      BY <1>3 DEF Sound, Followed, Captured, Kept
<1>5. /\ kids \subseteq Born
      /\ \A b \in kids : Exists(b) /\ proc[b].parent \in Born
      /\ \A b \in Born : Exists(b) /\ proc[b].parent \in Holder(c.at) => b \in kids
      BY DEF Children, Holder
<1>6. pids \subseteq Pids
  <2>1. \A b \in found : b \in Born /\ Exists(b) BY <1>2, <1>5
  <2> QED BY <1>3, <2>1 DEF Family
<1>7. \A b \in found : proc[b].pid \in pids OBVIOUS
<1>8. \A x \in pids : \E b \in kids : x = proc[b].pid BY <1>2
<1>9. /\ hidden \subseteq Born
      /\ \A b \in kids \ found : b \in hidden
      /\ \A b \in hidden : Children(b) \subseteq hidden
  <2> HIDE DEF kids
  <2> QED BY <1>5, BelowIsClosed
<1>10. d = [c EXCEPT !.at = None, !.todo = todo, !.missed = missed, !.pc = mode,
                     !.unread = unread]
  <2> DEFINE e == [c EXCEPT !.at = None, !.todo = todo, !.missed = missed]
  <2>1. d = Advanced(e) BY <1>4 DEF ChildrenRead, Hidden
  <2>2. e.todo = todo /\ e.table = c.table BY DEF Captures
  <2>3. d = [e EXCEPT !.pc = mode, !.unread = unread] BY <2>1, <2>2 DEF Advanced
  <2> HIDE DEF mode, unread, todo, missed
  <2> QED BY <2>3 DEF Captures
<1> HIDE DEF kids, pids, hidden
<1>11. todo \subseteq Pids /\ missed \subseteq Born /\ todo \cap c.seen = {}
       BY <1>6, <1>9 DEF Captures
<1>12. /\ unread \subseteq c.table /\ (mode = "read" => unread = c.table)
       /\ mode # "read" => unread = {}
       /\ mode \in {"read", "scan"} /\ (mode = "read" => todo = {})
       OBVIOUS
<1> HIDE DEF mode, unread
<1>13. /\ d \in Captures /\ d.pc = mode /\ d.phase = c.phase /\ d.table = c.table
       /\ d.memory = c.memory /\ d.listed = {} /\ d.todo = todo /\ d.seen = c.seen
       /\ d.unread = unread /\ d.recheck = {} /\ d.usage = None
       /\ d.tree = c.tree /\ d.missed = missed
  <2>1. unread \in SUBSET Entry BY <1>12 DEF Captures
  <2> HIDE DEF d, todo, missed
  <2> QED BY <1>4, <1>10, <1>11, <1>12, <2>1, ZenonT(40) DEF Captures
<1> HIDE DEF d
<1>14. Followed(d)
  <2>1. \A e \in c.table :
           /\ proc[e.b].state # "unborn" /\ proc[e.b].pid = e.pid
           /\ Runs(e.b) => ~e.zombie
           /\ truth.begun[e.b] <= e.cpu /\ e.cpu <= proc[e.b].cpu
        BY <1>3 DEF Sound, Followed
  <2> HIDE DEF todo
  <2> QED BY <1>11, <1>12, <1>13, <2>1 DEF Followed
<1>15. Captured(d) BY <1>13 DEF Captured
<1>16. Tabled(d) = Tabled(c) BY <1>13 DEF Tabled
<1>17. Kept(d)
  <2>1. Kept(c) BY <1>3 DEF Sound
  <2>2. c.todo \cup c.seen \subseteq todo \cup c.seen OBVIOUS
  <2>3. ASSUME NEW b \in Steady(d) PROVE Coming(d, b)
    <3>1. /\ b \in Born /\ Exists(b) /\ b \in c.tree /\ b \notin c.missed /\ b \notin hidden
          /\ b \in Descendants
          BY <1>13, <2>3 DEF Steady, Captures
    <3>2. Coming(c, b) BY <1>3, <1>4, <2>1, <3>1 DEF Kept, Steady
    <3>3. proc[b].pid \in c.seen => b \in Tabled(d) BY <1>16, <3>2 DEF Coming
    <3>4. b = Root => proc[b].pid \in todo \cup c.seen BY <2>2, <3>2 DEF Coming
    <3>5. ASSUME b # Root
          PROVE  /\ proc[b].parent \in c.tree \ missed
                 /\ proc[b].parent \in Tabled(c) => proc[b].pid \in todo \cup c.seen
      <4>1. /\ b \in Children(proc[b].parent) /\ proc[b].parent \in Born
            /\ Exists(proc[b].parent)
            BY <1>3, <3>1, <3>5, ParentIs DEF Runs, Exists
      <4>2. proc[b].parent \in c.tree \ c.missed BY <1>4, <3>2, <3>5 DEF Coming
      <4>3. proc[b].parent \notin hidden BY <1>9, <3>1, <4>1
      <4>4. ASSUME c.at = proc[proc[b].parent].pid PROVE proc[b].pid \in todo \cup c.seen
        <5>1. proc[b].parent \in Holder(c.at) BY <4>1, <4>4 DEF Holder
        <5>2. b \in kids BY <1>5, <3>1, <5>1
        <5>3. b \in found BY <1>9, <3>1, <5>2
        <5> QED BY <1>7, <5>3
      <4>5. proc[b].parent \in Tabled(c) => proc[b].pid \in todo \cup c.seen
            BY <1>4, <2>2, <3>2, <3>5, <4>4 DEF Coming
      <4> QED BY <4>2, <4>3, <4>5
    <3> HIDE DEF todo, missed
    <3> QED BY <1>13, <1>16, <3>3, <3>4, <3>5 DEF Coming
  <2>4. mode = "read" => Steady(d) \subseteq Tabled(d)
        BY <1>3, <1>12, <1>13, <2>3, AllFound
  <2> QED BY <1>12, <1>13, <2>1, <2>3, <2>4 DEF Kept
<1>18. Found(d)
  <2>1. Found(c) BY <1>3 DEF Sound
  <2>2. ASSUME NEW b \in Born, Unfound(b), Missed(c, b) PROVE Missed(d, b)
    <3>1. Exists(b) => proc[b].pid \notin pids
      <4> SUFFICES ASSUME Exists(b), proc[b].pid \in pids PROVE FALSE OBVIOUS
      <4>1. PICK k \in kids : proc[b].pid = proc[k].pid BY <1>8
      <4>2. k \in Born /\ Exists(k) /\ proc[k].parent \in Born BY <1>5
      <4>3. k = b BY <1>3, <4>1, <4>2 DEF Family
      <4>4. proc[b].parent = 0 BY <2>2 DEF Missed, Lost
      <4> QED BY <4>2, <4>3, <4>4
    <3> QED BY <1>13, <1>16, <2>2, <3>1, <1>4 DEF Missed
  <2> QED BY <1>4, <1>13, <2>1, <2>2 DEF Found
<1>19. faults' \in 0 .. MaxFaults BY <1>2, <1>3 DEF Typed
<1> QED BY <1>1, <1>3, <1>12, <1>13, <1>14, <1>15, <1>17, <1>18, <1>19, CaptureKeeps DEF Sound

\* One ps finds the root and its children.
LEMMA PsScanKeeps ==
    ASSUME SamplerInv, NEW t \in Threads, PsScan(t) PROVE SamplerInv'
<1> USE Constants
<1>1. PICK c \in Captures : c = caps[t] BY CaptureIs
<1> DEFINE table == {Item(b) : b \in Descendants}
           d == [c EXCEPT !.pc = "append", !.table = table, !.memory = Descendants]
<1>2. /\ c.pc = "scan" /\ backend = "ps" /\ Sound(c) /\ Typed /\ Family /\ c.phase # None
      /\ caps' = [caps EXCEPT ![t] = d]
      /\ UNCHANGED <<backend, processes, faults, samples, control, summary, truth>>
      BY <1>1, CaptureIs DEF PsScan, Typed
<1>3. group = "none" /\ c.unread = {} /\ c.recheck = {} /\ c.usage = None
      BY <1>2 DEF Family, Sound, Followed, Captured
<1>4. \A b \in Born : /\ proc[b].cpu \in Cpu /\ proc[b].cpu \in Nat
                      /\ truth.begun[b] \in Nat /\ truth.taken[b] \in Nat
                      /\ truth.begun[b] <= proc[b].cpu
  <2>1. \A b \in Born : /\ proc[b].cpu \in Cpu /\ proc[b].cpu \in Nat
                        /\ truth.begun[b] \in Nat /\ truth.taken[b] \in Nat
        BY <1>2 DEF Typed, Truths, Processes, Cpu
  <2> QED BY <1>2, <2>1 DEF Family
<1>5. Descendants \subseteq Born /\ \A b \in Descendants : Exists(b)
      BY BelowIsClosed DEF Descendants
<1>6. \A b \in Descendants : b # Root => proc[b].parent # 0 BY <1>2, ParentIs
<1>7. table \subseteq Entry
  <2>1. \A b \in Descendants : Item(b) \in Entry
    <3> TAKE b \in Descendants
    <3>1. b \in Born /\ proc[b].pid \in Pids /\ proc[b].cpu \in Cpu
          BY <1>2, <1>4, <1>5 DEF Family
    <3> QED BY <3>1 DEF Item, Entry
  <2> QED BY <2>1
<1>8. \A e \in table : \E b \in Descendants :
          e = [b |-> b, pid |-> proc[b].pid, cpu |-> proc[b].cpu, zombie |-> ~Runs(b)]
      BY DEF Item
<1>9. \A b \in Descendants : \E e \in table : e.b = b
  <2>1. \A b \in Descendants : Item(b).b = b BY DEF Item
  <2> QED BY <2>1
<1> HIDE DEF table
<1>10. /\ d \in Captures /\ d.pc = "append" /\ d.phase = c.phase /\ d.table = table
       /\ d.memory = Descendants /\ d.listed = c.listed /\ d.todo = c.todo
       /\ d.unread = {} /\ d.recheck = {} /\ d.usage = None
       /\ d.tree = c.tree /\ d.missed = c.missed
       BY <1>3, <1>5, <1>7 DEF Captures
<1> HIDE DEF d
<1>11. Followed(d)
  <2>1. ASSUME NEW e \in table
        PROVE  /\ proc[e.b].state # "unborn" /\ proc[e.b].pid = e.pid
               /\ Runs(e.b) => ~e.zombie
               /\ truth.begun[e.b] <= e.cpu /\ e.cpu <= proc[e.b].cpu
               /\ e.b \in Descendants
    <3>1. PICK b \in Descendants : e = [b |-> b, pid |-> proc[b].pid, cpu |-> proc[b].cpu,
                                        zombie |-> ~Runs(b)]
          BY <1>8
    <3>2. /\ e.b = b /\ e.pid = proc[b].pid /\ e.cpu = proc[b].cpu
          /\ e.zombie = ~Runs(b) /\ b \in Born /\ Exists(b)
          BY <1>5, <3>1
    <3>3. proc[b].state # "unborn" BY <3>2 DEF Exists
    <3>4. truth.begun[b] <= proc[b].cpu /\ proc[b].cpu <= proc[b].cpu BY <1>4, <3>2
    <3> QED BY <3>2, <3>3, <3>4
  <2> QED BY <1>10, <2>1 DEF Followed
<1>12. Captured(d) BY <1>10 DEF Captured
<1>13. Tabled(d) = Descendants
  <2>1. \A e \in table : e.b \in Descendants BY <1>8
  <2> QED BY <1>9, <1>10, <2>1 DEF Tabled
<1>14. Kept(d)
  <2>1. Kept(c) /\ c.listed = {} BY <1>2, <1>3 DEF Sound, Found
  <2>2. Steady(d) \subseteq Tabled(d) BY <1>10, <1>13, <2>1 DEF Steady
  <2> QED BY <1>10, <2>1, <2>2 DEF Kept
<1>15. Found(d)
  <2>1. Found(c) BY <1>2 DEF Sound
  <2>2. ASSUME NEW b \in Born, Unfound(b), Missed(c, b) PROVE Missed(d, b)
    <3>1. b \notin Descendants BY <1>5, <1>6, <2>2 DEF Missed, Lost
    <3> QED BY <1>10, <1>13, <2>2, <3>1 DEF Missed
  <2> QED BY <1>10, <2>1, <2>2 DEF Found
<1>16. faults' \in 0 .. MaxFaults BY <1>2 DEF Typed
<1> QED BY <1>1, <1>2, <1>10, <1>11, <1>12, <1>14, <1>15, <1>16, CaptureKeeps DEF Sound

\* A sample of a capture.
LEMMA SampleIs ==
    ASSUME NEW c \in Captures, c.phase # None, Followed(c), Kept(c), c.pc = "append"
    PROVE  /\ Sample(c) \in SampleSet
           /\ Sample(c).phase = c.phase /\ Sample(c).usage = c.usage
           /\ DOMAIN Sample(c).counters = Tabled(c)
           /\ \A b \in Tabled(c) : \E e \in c.table : e.b = b /\ Sample(c).counters[b] = e.cpu
           /\ Measured(Sample(c)) => /\ Sample(c).steady \subseteq Sample(c).memory
                                     /\ Sample(c).memory \subseteq Born
<1> USE Constants
<1> DEFINE table == c.table
           counters == [b \in {i.b : i \in c.table} |-> (CHOOSE i \in c.table : i.b = b).cpu]
           memory == IF Whole(c) THEN c.memory ELSE {None}
           root == RootAlive(c)
           steady == {b \in Steady(c) : Runs(b)}
           s == Sample(c)
<1>1. \A b \in Tabled(c) : \E e \in c.table : e.b = b /\ counters[b] = e.cpu BY DEF Tabled
<1>2. DOMAIN counters = Tabled(c) BY DEF Tabled
<1>3. counters \in [Tabled(c) -> Cpu]
  <2>1. \A e \in c.table : e.cpu \in Cpu BY DEF Captures, Entry
  <2>2. counters = [b \in Tabled(c) |-> counters[b]] BY DEF Tabled
  <2> HIDE DEF counters
  <2> QED BY <1>1, <2>1, <2>2
<1>4. Tabled(c) \in SUBSET Born BY DEF Tabled, Captures, Entry
<1>5. counters \in UNION {[D -> Cpu] : D \in SUBSET Born} BY <1>3, <1>4
<1>6. memory \in SUBSET (Born \cup {None}) BY DEF Captures
<1>7. root \in BOOLEAN BY DEF RootAlive
<1>8. steady \in SUBSET Born /\ steady \subseteq Tabled(c) BY <1>4 DEF Kept
<1>9. c.phase \in Phases /\ c.tries \in Nat /\ c.usage \in Int \cup {None} BY DEF Captures
<1>10. s = [phase |-> c.phase, memory |-> memory, counters |-> counters, root |-> root,
            tries |-> c.tries, usage |-> c.usage, steady |-> steady]
       BY DEF Sample
<1>11. memory # {None} => Whole(c) OBVIOUS
<1>12. memory # {None} => steady \subseteq memory /\ memory \subseteq Born
  <2> SUFFICES ASSUME memory # {None} PROVE steady \subseteq memory /\ memory \subseteq Born
      OBVIOUS
  <2>1. memory = c.memory /\ ~c.failed BY <1>11 DEF Whole
  <2>2. \A e \in c.table : Runs(e.b) => e.b \in c.memory BY <2>1 DEF Followed
  <2>3. \A b \in steady : Runs(b) /\ b \in Tabled(c) BY <1>8
  <2> QED BY <2>1, <2>2, <2>3 DEF Captures, Tabled
<1> HIDE DEF counters, memory, root, steady, s
<1>13. s \in SampleSet BY <1>5, <1>6, <1>7, <1>8, <1>9, <1>10 DEF SampleSet
<1>14. /\ s.phase = c.phase /\ s.usage = c.usage /\ s.counters = counters
       /\ s.steady = steady /\ s.memory = memory
       BY <1>10
<1> QED BY <1>1, <1>2, <1>12, <1>13, <1>14 DEF s, Measured

\* What AppendSample does, and who takes which sample.
LEMMA AppendIs ==
    ASSUME SamplerInv, NEW t \in Threads, AppendSample(t)
    PROVE  LET c == caps[t] IN
           /\ c \in Captures /\ c.pc = "append" /\ Sound(c) /\ c.phase \in Phases
           /\ Sample(c) \in SampleSet
           /\ samples' = Append(samples, Sample(c))
           /\ caps' = [caps EXCEPT ![t] = NoCapture]
           /\ UNCHANGED <<backend, group, proc, moves, faults, main, thread, stopSet, summary>>
           /\ c.phase = "baseline" <=> samples = <<>>
           /\ c.phase = "baseline" =>
                 /\ t = "main" /\ main = "baseline" /\ caps["thread"] = NoCapture
                 /\ truth' = [truth EXCEPT !.taken = CpuNow, !.missed = c.missed]
           /\ c.phase # "baseline" => truth' = truth
           /\ c.phase = "sample" <=> t = "thread"
           /\ c.phase = "end" <=> t = "main" /\ main = "end"
           /\ t = "main" => main \in {"baseline", "end"}
           /\ t = "thread" => thread = "runs" /\ main \notin {"new", "baseline", "unavailable"}
<1> USE Constants
<1>1. PICK c \in Captures : c = caps[t] BY CaptureIs
<1>2. /\ c.pc = "append" /\ Sound(c) /\ c.phase \in Phases /\ c.phase # None /\ Ordered
      BY <1>1, CaptureIs DEF AppendSample
<1>3. /\ samples' = Append(samples, Sample(c))
      /\ caps' = [caps EXCEPT ![t] = NoCapture]
      /\ truth' = IF c.phase = "baseline"
                  THEN [truth EXCEPT !.taken = CpuNow, !.missed = c.missed] ELSE truth
      /\ UNCHANGED <<backend, group, proc, moves, faults, main, thread, stopSet, summary>>
      BY <1>1 DEF AppendSample, control, processes
<1>4. Sample(c) \in SampleSet BY <1>2, SampleIs DEF Sound
<1>5. NoCapture.pc = "idle" BY DEF NoCapture
<1> HIDE DEF NoCapture
<1>6. CASE t = "main"
  <2>1. main \in {"baseline", "end"} BY <1>1, <1>2, <1>5, <1>6 DEF Ordered
  <2>2. main = "baseline" => samples = <<>> /\ c.phase = "baseline" /\ thread = "none"
        BY <1>1, <1>2, <1>6 DEF Ordered
  <2>3. main = "end" => samples # <<>> /\ c.phase = "end"
        BY <1>1, <1>2, <1>6 DEF Ordered
  <2>4. thread = "none" => caps["thread"] = NoCapture BY <1>2 DEF Ordered
  <2> QED BY <1>1, <1>2, <1>3, <1>4, <1>6, <2>1, <2>2, <2>3, <2>4
<1>7. CASE t = "thread"
  <2>1. thread = "runs" BY <1>1, <1>2, <1>5, <1>7 DEF Ordered
  <2>2. main \notin {"new", "baseline", "unavailable"} /\ samples # <<>>
        BY <1>2, <2>1 DEF Ordered
  <2>3. c.phase = "sample" BY <1>1, <1>2, <1>7 DEF Ordered
  <2> QED BY <1>1, <1>2, <1>3, <1>4, <1>7, <2>1, <2>2, <2>3
<1> QED BY <1>6, <1>7 DEF Threads

\* The sample of a capture is as sound as the capture.
LEMMA AppendSampleKeeps ==
    ASSUME SamplerInv, NEW t \in Threads, AppendSample(t) PROVE SamplerInv'
<1> USE Constants
<1>1. PICK c \in Captures : c = caps[t] BY CaptureIs
<1>2. PICK s \in SampleSet : s = Sample(c) BY <1>1, AppendIs
<1>3. /\ c.pc = "append" /\ Sound(c) /\ c.phase \in Phases
      /\ samples' = Append(samples, s)
      /\ caps' = [caps EXCEPT ![t] = NoCapture]
      /\ UNCHANGED <<backend, group, proc, moves, faults, main, thread, stopSet, summary>>
      /\ c.phase = "baseline" <=> samples = <<>>
      /\ c.phase = "baseline" =>
            /\ t = "main" /\ main = "baseline" /\ caps["thread"] = NoCapture
            /\ truth' = [truth EXCEPT !.taken = CpuNow, !.missed = c.missed]
      /\ c.phase # "baseline" => truth' = truth
      /\ c.phase = "sample" <=> t = "thread"
      /\ c.phase = "end" <=> t = "main" /\ main = "end"
      /\ t = "main" => main \in {"baseline", "end"}
      /\ t = "thread" => thread = "runs" /\ main \notin {"new", "baseline", "unavailable"}
      BY <1>1, <1>2, AppendIs
<1>4. /\ Typed /\ Family /\ Ordered /\ Joined /\ Summed
      /\ \A u \in Threads : Sound(caps[u])
      /\ \A n \in DOMAIN samples : Metered(n)
      BY DEF SamplerInv
<1>5. /\ s.phase = c.phase /\ s.usage = c.usage /\ DOMAIN s.counters = Tabled(c)
      /\ \A b \in Tabled(c) : \E e \in c.table : e.b = b /\ s.counters[b] = e.cpu
      /\ Measured(s) => s.steady \subseteq s.memory /\ s.memory \subseteq Born
      BY <1>2, <1>3, SampleIs DEF Sound
<1>6. /\ samples \in Seq(SampleSet) /\ Len(samples) \in Nat
      /\ samples' \in Seq(SampleSet) /\ Len(samples') = Len(samples) + 1
      /\ samples'[Len(samples) + 1] = s
      /\ \A n \in 1 .. Len(samples) : samples'[n] = samples[n]
      /\ DOMAIN samples = 1 .. Len(samples) /\ DOMAIN samples' = 1 .. Len(samples) + 1
      /\ samples' # <<>>
      /\ samples = <<>> <=> Len(samples) = 0
      BY <1>3, <1>4, SMTT(30) DEF Typed
<1>7. \A b \in Born : /\ proc[b].cpu \in Cpu /\ proc[b].cpu \in Nat
                      /\ truth.begun[b] \in Nat /\ truth.taken[b] \in Nat
                      /\ truth.begun[b] <= truth.taken[b] /\ truth.taken[b] <= proc[b].cpu
                      /\ truth.begun[b] <= proc[b].cpu
  <2>1. \A b \in Born : /\ proc[b].cpu \in Cpu /\ proc[b].cpu \in Nat
                        /\ truth.begun[b] \in Nat /\ truth.taken[b] \in Nat
        BY <1>4 DEF Typed, Truths, Processes, Cpu
  <2>2. \A b \in Born : truth.begun[b] <= truth.taken[b] /\ truth.taken[b] <= proc[b].cpu
        BY <1>4 DEF Family
  <2>3. ASSUME NEW b \in Born PROVE truth.begun[b] <= proc[b].cpu BY <2>1, <2>2
  <2> QED BY <2>1, <2>2, <2>3
<1>8. /\ truth'.begun = truth.begun /\ truth'.late = truth.late
      /\ c.phase = "baseline" => \A b \in Born : truth'.taken[b] = proc[b].cpu
      /\ c.phase # "baseline" => truth'.taken = truth.taken /\ truth'.missed = truth.missed
      /\ c.phase = "baseline" => truth'.missed = c.missed
      /\ truth' \in Truths
  <2>1. CpuNow \in [Born -> Cpu] /\ \A b \in Born : CpuNow[b] = proc[b].cpu
        BY <1>7 DEF CpuNow
  <2>2. c.missed \in SUBSET Born BY DEF Captures
  <2> QED BY <1>3, <1>4, <2>1, <2>2 DEF Typed, Truths
<1>9. \A b \in Born : /\ truth'.taken[b] \in Nat
                      /\ truth.begun[b] <= truth'.taken[b] /\ truth'.taken[b] <= proc[b].cpu
      BY <1>7, <1>8
<1>10. caps'[t] = NoCapture /\ \A u \in Threads : u # t => caps'[u] = caps[u]
       BY <1>3, <1>4 DEF Typed
<1>11. NoCapture \in Captures /\ NoCapture.pc = "idle" /\ NoCapture.phase = None
       BY IdleIsSound DEF NoCapture
<1> HIDE DEF NoCapture
<1>12. Typed'
  <2>1. caps' \in [Threads -> Captures] BY <1>3, <1>4, <1>11 DEF Typed
  <2> QED BY <1>3, <1>4, <1>6, <1>8, <2>1 DEF Typed
<1>13. main # "new"
  <2>1. CASE t = "main" BY <1>3, <2>1
  <2>2. CASE t = "thread" BY <1>3, <2>2
  <2> QED BY <2>1, <2>2 DEF Threads
<1>14. Family' BY <1>3, <1>4, <1>8, <1>9, <1>13 DEF Family, Exists, Runs, Old, RootPid
<1>15. c.phase # "baseline" => First' = First BY <1>3, <1>6 DEF First
<1>16. c.phase = "baseline" => First' = s BY <1>3, <1>6 DEF First
<1>17. Ordered'
  <2>1. main \notin {"new", "unavailable"}
    <3>1. CASE t = "main" BY <1>3, <3>1
    <3>2. CASE t = "thread" BY <1>3, <3>2
    <3> QED BY <3>1, <3>2 DEF Threads
  <2>2. First'.phase = "baseline" BY <1>3, <1>4, <1>5, <1>15, <1>16 DEF Ordered
  <2>3. ASSUME NEW n \in 2 .. Len(samples) + 1 PROVE samples'[n].phase # "baseline"
    <3>1. CASE n = Len(samples) + 1
      <4>1. samples # <<>> BY <1>6, <3>1
      <4> QED BY <1>3, <1>5, <1>6, <3>1, <4>1
    <3>2. CASE n # Len(samples) + 1
      <4>1. n \in 2 .. Len(samples) /\ n \in 1 .. Len(samples) BY <1>6, <3>2
      <4> QED BY <1>4, <1>6, <4>1 DEF Ordered
    <3> QED BY <3>1, <3>2
  <2>4. \A u \in Threads :
          /\ caps'[u].pc = "idle" => caps'[u] = NoCapture
          /\ caps'[u].phase = None <=> caps'[u].pc \in {"idle", "raised"}
        BY <1>4, <1>10, <1>11 DEF Ordered
  <2>5. thread' # "runs" => caps'["thread"] = NoCapture
        BY <1>3, <1>4, <1>10 DEF Ordered, Threads
  <2>6. main' \notin {"baseline", "end"} => caps'["main"] = NoCapture
        BY <1>3, <1>4, <1>10 DEF Ordered, Threads
  <2>7. main' = "baseline" => caps'["main"].pc = "idle"
    <3>1. CASE t = "main" BY <1>10, <1>11, <3>1
    <3>2. CASE t = "thread" BY <1>3, <3>2
    <3> QED BY <3>1, <3>2 DEF Threads
  <2>8. main' = "end" => caps'["main"].phase \in {"end", None}
    <3>1. CASE t = "main" BY <1>10, <1>11, <3>1
    <3>2. CASE t = "thread" BY <1>3, <1>4, <1>10, <3>2 DEF Ordered, Threads
    <3> QED BY <3>1, <3>2 DEF Threads
  <2>9. caps'["thread"].phase \in {"sample", None}
    <3>1. CASE t = "thread" BY <1>10, <1>11, <3>1
    <3>2. CASE t = "main" BY <1>3, <1>4, <1>10, <3>2 DEF Ordered, Threads
    <3> QED BY <3>1, <3>2 DEF Threads
  <2>10. truth'.late => main' \in {"end", "failed"} \cup Summing
         BY <1>3, <1>4, <1>8 DEF Ordered
  <2>11. main' \in {"new", "baseline", "unavailable"} => thread' = "none"
         BY <1>3, <1>4 DEF Ordered
  <2> QED BY <1>3, <1>6, <2>1, <2>2, <2>3, <2>4, <2>5, <2>6, <2>7, <2>8, <2>9, <2>10, <2>11
          DEF Ordered
<1>18. Joined'
  <2>1. CASE t = "thread"
    <3>1. Closed' <=> Closed BY <1>3, <1>10, <2>1 DEF Closed, Threads
    <3>2. ~Closed' => \A n \in DOMAIN samples' : samples'[n].phase # "end"
      <4> SUFFICES ASSUME ~Closed, NEW n \in 1 .. Len(samples) + 1
                   PROVE  samples'[n].phase # "end"
          BY <1>6, <3>1
      <4>1. CASE n = Len(samples) + 1 BY <1>3, <1>5, <1>6, <2>1, <4>1
      <4>2. CASE n # Len(samples) + 1
        <5>1. n \in 1 .. Len(samples) BY <1>6, <4>2
        <5> QED BY <1>4, <1>6, <5>1 DEF Joined
      <4> QED BY <4>1, <4>2
    <3>3. thread # "ended" BY <1>3, <2>1
    <3>4. main \in {"end"} \cup Summing => truth'.late BY <1>4, <1>8, <3>3 DEF Joined
    <3>5. Closed' => main \in {"end"} \cup Summing /\ Len(samples') >= 2
          BY <1>4, <1>6, <3>1 DEF Joined, Closed
    <3> QED BY <1>3, <3>1, <3>2, <3>4, <3>5 DEF Joined
  <2>2. CASE t = "main" /\ main = "baseline"
    <3>1. Len(samples) = 0 /\ c.phase = "baseline"
      <4>1. c.phase # "sample" /\ c.phase # "end" BY <1>3, <2>2
      <4>2. c.phase = "baseline" BY <1>3, <4>1 DEF Phases
      <4> QED BY <1>3, <1>6, <4>2
    <3>2. \A n \in DOMAIN samples' : samples'[n].phase # "end"
      <4> TAKE n \in DOMAIN samples'
      <4>1. n = Len(samples) + 1 BY <1>6, <3>1
      <4> QED BY <1>5, <1>6, <3>1, <4>1
    <3>3. ~Closed' /\ main' \notin {"end"} \cup Summing BY <1>3, <2>2 DEF Closed, Summing
    <3> QED BY <3>2, <3>3 DEF Joined
  <2>3. CASE t = "main" /\ main = "end"
    <3>1. /\ c.phase = "end" /\ samples # <<>> /\ ~Closed
      <4>1. caps["main"].pc # "idle" BY <1>1, <1>3, <2>3
      <4>2. c.phase = "end" BY <1>3, <2>3
      <4>3. c.phase # "baseline" BY <4>2
      <4> QED BY <1>3, <2>3, <4>1, <4>2, <4>3 DEF Closed, Summing
    <3>2. Len(samples) >= 1 BY <1>6, <3>1
    <3>3. ~truth'.late => thread' = "ended" BY <1>3, <1>4, <1>8, <2>3 DEF Joined
    <3>4. Latest'.phase = "end" BY <1>5, <1>6, <3>1 DEF Latest
    <3>5. ASSUME NEW n \in 2 .. Len(samples') - 1 PROVE samples'[n].phase = "sample"
      <4>1. n \in 2 .. Len(samples) /\ n \in DOMAIN samples BY <1>6
      <4>2. samples[n].phase # "end" /\ samples[n].phase # "baseline"
            BY <1>4, <3>1, <4>1 DEF Joined, Ordered
      <4>3. samples[n] \in SampleSet BY <1>6, <4>1
      <4>4. samples[n].phase \in Phases BY <4>3 DEF SampleSet
      <4> QED BY <1>6, <4>1, <4>2, <4>4 DEF Phases
    <3>6. Closed' /\ main' \notin Summing BY <1>3, <1>10, <1>11, <2>3 DEF Closed, Summing
    <3>7. Len(samples') >= 2 BY <1>6, <3>2
    <3> QED BY <3>3, <3>4, <3>5, <3>6, <3>7 DEF Joined
  <2> QED BY <1>3, <2>1, <2>2, <2>3 DEF Threads
<1>19. Summed'
  <2>1. CASE main \notin Summing
    <3>1. summary' = NoSummary BY <1>3, <1>4, <2>1 DEF Summed
    <3>2. summary'.peak = None /\ summary'.cpu = None BY <3>1 DEF NoSummary
    <3> QED BY <1>3, <2>1, <3>1, <3>2 DEF Summed, CpuIsOfThisAttempt, Summing
  <2>2. CASE main \in Summing
    <3>1. t = "thread" BY <1>3, <2>2 DEF Threads, Summing
    <3>2. c.phase # "baseline" /\ truth' = truth /\ First' = First BY <1>3, <1>15, <3>1
    <3>3. \E n \in 2 .. Len(samples') :
            /\ summary'.last = samples'[n]
            /\ main' = "peak" => \E m \in n .. Len(samples') :
                  summary'.values = {i \in 1 .. m : Measured(samples'[i])}
      <4>1. PICK n \in 2 .. Len(samples) :
            /\ summary.last = samples[n]
            /\ main = "peak" => \E m \in n .. Len(samples) :
                  summary.values = {i \in 1 .. m : Measured(samples[i])}
            BY <1>4, <2>2 DEF Summed
      <4>2. n \in 2 .. Len(samples') /\ n \in 1 .. Len(samples) BY <1>6
      <4>3. summary'.last = samples'[n] BY <1>3, <1>6, <4>1, <4>2
      <4>4. ASSUME main' = "peak"
            PROVE  \E m \in n .. Len(samples') :
                      summary'.values = {i \in 1 .. m : Measured(samples'[i])}
        <5>1. PICK m \in n .. Len(samples) :
                  summary.values = {i \in 1 .. m : Measured(samples[i])}
              BY <1>3, <4>1, <4>4
        <5>2. \A i \in 1 .. m : samples'[i] = samples[i] BY <1>6
        <5>3. {i \in 1 .. m : Measured(samples'[i])} = {i \in 1 .. m : Measured(samples[i])}
              BY <5>2
        <5>4. m \in n .. Len(samples') BY <1>6
        <5> QED BY <1>3, <5>1, <5>3, <5>4
      <4> QED BY <4>2, <4>3, <4>4
    <3>4. CpuIsOfThisAttempt'
          BY <1>3, <1>4, <3>2 DEF Summed, CpuIsOfThisAttempt, Before, ByGroup
    <3> QED BY <1>3, <1>4, <2>2, <3>2, <3>3, <3>4 DEF Summed
  <2> QED BY <2>1, <2>2
<1>20. ASSUME NEW u \in Threads PROVE Sound(caps[u])'
  <2>1. \/ caps'[u] = NoCapture
        \/ caps'[u] = caps[u] /\ c.phase # "baseline"
        BY <1>3, <1>10 DEF Threads
  <2>2. CASE caps'[u] = NoCapture
    <3>1. /\ NoCapture.table = {} /\ NoCapture.unread = {} /\ NoCapture.recheck = {}
          /\ NoCapture.usage = None /\ NoCapture.listed = {} /\ NoCapture.tree = {}
          BY DEF NoCapture
    <3>2. None # "baseline" /\ None # "sample" /\ None # "end" BY DEF Phases
    <3>3. PICK d \in Captures : d = caps'[u] BY <1>12 DEF Typed
    <3>4. Followed(d)' BY <1>11, <2>2, <3>1, <3>3 DEF Followed
    <3>5. Captured(d)' BY <2>2, <3>1, <3>3 DEF Captured
    <3>6. Found(d)' BY <1>11, <2>2, <3>1, <3>2, <3>3 DEF Found
    <3>7. Kept(d)' BY <1>11, <2>2, <3>1, <3>3 DEF Kept, Steady
    <3> QED BY <3>3, <3>4, <3>5, <3>6, <3>7 DEF Sound
  <2>3. CASE caps'[u] = caps[u] /\ c.phase # "baseline"
    <3>1. truth' = truth /\ First' = First BY <1>3, <1>15, <2>3
    <3>2. PICK d \in Captures : d = caps'[u] BY <1>12 DEF Typed
    <3>3. Sound(d) BY <1>4, <2>3, <3>2
    <3>4. Followed(d)' BY <1>3, <3>1, <3>3 DEF Sound, Followed, Runs
    <3>5. Captured(d)' BY <1>3, <3>1, <3>3 DEF Sound, Captured
    <3>6. Found(d)' BY <1>3, <3>1, <3>3, FoundSame DEF Sound
    <3>7. Kept(d)' BY <1>3, <3>3, KeptSame DEF Sound
    <3> QED BY <3>2, <3>4, <3>5, <3>6, <3>7 DEF Sound
  <2> QED BY <2>1, <2>2, <2>3
<1>21. ASSUME NEW n \in DOMAIN samples' PROVE Metered(n)'
  <2>1. CASE n = Len(samples) + 1
    <3>1. n = 1 <=> c.phase = "baseline" BY <1>3, <1>6, <2>1
    <3>2. samples'[n] = s BY <1>6, <2>1
    <3>3. s.usage # None => \E v \in [Born -> Cpu] :
            /\ s.usage = SumOf(v)
            /\ \A b \in Born : v[b] <= proc[b].cpu
            /\ \A b \in DOMAIN s.counters : s.counters[b] <= v[b]
            /\ \A b \in Born : IF n = 1 THEN truth.begun[b] <= v[b] /\ v[b] <= truth'.taken[b]
                               ELSE truth'.taken[b] <= v[b]
      <4> SUFFICES ASSUME c.usage # None
          PROVE \E v \in [Born -> Cpu] :
            /\ c.usage = SumOf(v)
            /\ \A b \in Born : v[b] <= proc[b].cpu
            /\ \A b \in DOMAIN s.counters : s.counters[b] <= v[b]
            /\ \A b \in Born : IF n = 1 THEN truth.begun[b] <= v[b] /\ v[b] <= truth'.taken[b]
                               ELSE truth'.taken[b] <= v[b]
          BY <1>5
      <4>1. PICK v \in [Born -> Cpu] :
              /\ c.usage = SumOf(v)
              /\ \A b \in Born : v[b] <= proc[b].cpu
              /\ \A e \in c.table : e.cpu <= v[e.b]
              /\ \A b \in Born : IF c.phase = "baseline" THEN truth.begun[b] <= v[b]
                                 ELSE truth.taken[b] <= v[b]
            BY <1>3 DEF Sound, Captured
      <4>2. \A b \in DOMAIN s.counters : s.counters[b] <= v[b] BY <1>5, <4>1
      <4>3. \A b \in Born : IF n = 1 THEN truth.begun[b] <= v[b] /\ v[b] <= truth'.taken[b]
                            ELSE truth'.taken[b] <= v[b]
            BY <1>8, <3>1, <4>1
      <4> QED BY <4>1, <4>2, <4>3
    <3>4. \A b \in DOMAIN s.counters :
            /\ truth.begun[b] <= s.counters[b] /\ s.counters[b] <= proc[b].cpu
            /\ n = 1 => s.counters[b] <= truth'.taken[b]
      <4> TAKE b \in DOMAIN s.counters
      <4>1. PICK e \in c.table : e.b = b /\ s.counters[b] = e.cpu BY <1>5
      <4>2. truth.begun[b] <= e.cpu /\ e.cpu <= proc[b].cpu /\ b \in Born
            BY <1>3, <4>1 DEF Sound, Followed, Captures, Entry
      <4> QED BY <1>8, <3>1, <4>1, <4>2
    <3>5. ASSUME NEW b \in Born, Old(b), b \notin DOMAIN First'.counters, b \notin truth'.missed
          PROVE  b \notin DOMAIN s.counters /\ Lost(b)
      <4>1. Found(c) /\ Kept(c) BY <1>3 DEF Sound
      <4>2. CASE c.phase = "baseline"
        <5>1. b \notin Tabled(c) /\ b \notin c.missed BY <1>5, <1>8, <1>16, <3>5, <4>2
        <5>2. ASSUME ~Lost(b) PROVE b \in Steady(c)
          <6>1. b \in c.tree /\ (group = "live" /\ Exists(b) => proc[b].pid \in c.listed)
                BY <3>5, <4>1, <4>2, <5>2 DEF Found
          <6>2. Exists(b) /\ proc[b].parent \in {0, Root}
                BY <1>4, <3>5, <5>2 DEF Lost, Family
          <6>3. ASSUME c.listed = {} PROVE b \in Descendants
            <7>1. b = Root \/ proc[b].parent = Root
                  BY <5>2, <6>1, <6>2, <6>3 DEF Lost
            <7>2. CASE b = Root BY <6>2, <7>2, BelowIsClosed DEF Descendants
            <7>3. CASE proc[b].parent = Root
              <8>1. Exists(Root) BY <1>4, <6>2, <7>3 DEF Family, Runs, Exists
              <8>2. Root \in Descendants /\ b \in Children(Root)
                    BY <6>2, <7>3, <8>1, BelowIsClosed DEF Descendants, Children
              <8> QED BY <8>2, BelowIsClosed DEF Descendants
            <7> QED BY <7>1, <7>2, <7>3
          <6> QED BY <5>1, <6>1, <6>2, <6>3 DEF Steady
        <5>3. Lost(b) BY <1>3, <4>1, <5>1, <5>2 DEF Kept
        <5> QED BY <1>5, <5>1, <5>3
      <4>3. CASE c.phase # "baseline"
        <5>1. c.phase \in {"sample", "end"} BY <1>3, <4>3 DEF Phases
        <5>2. Unfound(b) BY <1>8, <1>15, <3>5, <4>3 DEF Unfound
        <5>3. Missed(c, b) BY <4>1, <5>1, <5>2 DEF Found
        <5> QED BY <1>5, <5>3 DEF Missed
      <4> QED BY <4>2, <4>3
    <3>6. Measured(s)' => s.steady \subseteq s.memory /\ s.memory \subseteq Born
          BY <1>5 DEF Measured
    <3>7. \A b \in Born : (Old(b)' <=> Old(b)) /\ (Lost(b)' <=> Lost(b))
          BY <1>3, <1>8 DEF Old, Lost, Exists
    <3>8. \A b \in Born : Unfound(b)' => b \notin DOMAIN s.counters /\ Lost(b)'
          BY <3>5, <3>7 DEF Unfound
    <3>9. proc' = proc /\ truth'.begun = truth.begun BY <1>3, <1>8
    <3> QED BY <3>2, <3>3, <3>4, <3>6, <3>8, <3>9 DEF Metered, Measured
  <2>2. CASE n # Len(samples) + 1
    <3>1. n \in DOMAIN samples /\ samples'[n] = samples[n] BY <1>6, <1>21, <2>2
    <3>2. truth' = truth /\ First' = First BY <1>3, <1>6, <1>15, <3>1
    <3>3. Metered(n) BY <1>4, <3>1
    <3> QED BY <1>3, <3>1, <3>2, <3>3, MeteredSame
  <2> QED BY <2>1, <2>2
<1> QED BY <1>12, <1>14, <1>17, <1>18, <1>19, <1>20, <1>21 DEF SamplerInv

\* A capture keeps the invariant, whoever takes it.
LEMMA CapturesKeep == ASSUME SamplerInv, NEW t \in Threads, Capture(t) PROVE SamplerInv'
BY ReadStatKeeps, ReadChildrenKeeps, ReadPssKeeps, RecheckKeeps, ScanAgainKeeps, ScanEndsKeeps, PsScanKeeps,
   PsRaisesKeeps, AppendSampleKeeps DEF Capture

\* A step of the caller or of the thread that changes neither processes nor samples.
LEMMA ControlKeeps ==
    ASSUME SamplerInv, Typed', Ordered', Joined', Summed', main' # "new",
           UNCHANGED <<backend, group, proc, moves, faults, samples>>,
           truth'.begun = truth.begun, truth'.taken = truth.taken,
           truth'.missed = truth.missed,
           \A u \in Threads : \E d \in Captures : d = caps'[u] /\ Sound(d)
    PROVE  SamplerInv'
<1>1. Family /\ \A n \in DOMAIN samples : Metered(n) BY DEF SamplerInv
<1>2. Family' BY <1>1 DEF Family, Exists, Runs, Old, RootPid
<1>3. First' = First BY DEF First
<1>4. ASSUME NEW u \in Threads PROVE Sound(caps[u])'
  <2>1. PICK d \in Captures : d = caps'[u] /\ Sound(d) OBVIOUS
  <2>2. Followed(d)' BY <2>1 DEF Sound, Followed, Runs
  <2>3. Captured(d)' BY <2>1 DEF Sound, Captured
  <2>4. Kept(d)' BY <2>1, KeptSame DEF Sound
  <2>5. Found(d)' BY <2>1, <1>3, FoundSame DEF Sound
  <2> QED BY <2>1, <2>2, <2>3, <2>4, <2>5 DEF Sound
<1>5. ASSUME NEW n \in DOMAIN samples' PROVE Metered(n)'
  <2>1. Metered(n) BY <1>1
  <2> QED BY <1>3, <2>1, MeteredSame
<1> QED BY <1>2, <1>4, <1>5 DEF SamplerInv

\* Captures that a step leaves alone, or ends.
LEMMA CapturesSound ==
    ASSUME SamplerInv, NEW f \in [Threads -> Captures],
           \A u \in Threads : f[u] = caps[u] \/ f[u] = NoCapture \/ Sound(f[u])
    PROVE  \A u \in Threads : \E d \in Captures : d = f[u] /\ Sound(d)
<1> HIDE DEF NoCapture
<1> SUFFICES ASSUME NEW u \in Threads PROVE \E d \in Captures : d = f[u] /\ Sound(d)
    OBVIOUS
<1>1. CASE f[u] = caps[u] BY <1>1, CaptureIs
<1>2. CASE f[u] = NoCapture BY <1>2, IdleIsSound
<1>3. CASE Sound(f[u]) BY <1>3
<1> QED BY <1>1, <1>2, <1>3

\* The summary while there is none to be made.
LEMMA UnsummedStays ==
    ASSUME Summed, main \notin Summing, main' \notin Summing, summary' = summary
    PROVE  Summed'
<1>1. summary = NoSummary BY DEF Summed
<1>2. summary'.peak = None /\ summary'.cpu = None /\ summary' = NoSummary
      BY <1>1 DEF NoSummary
<1> HIDE DEF NoSummary
<1> QED BY <1>2 DEF Summed, CpuIsOfThisAttempt, Summing

\* The pids a scan begins with.
LEMMA ListedIs ==
    ASSUME Typed, Family
    PROVE  /\ ProcessIds \in SUBSET Pids
           /\ group # "live" => ProcessIds = {}
           /\ \A b \in Born : group = "live" /\ Runs(b) => proc[b].pid \in ProcessIds
<1>1. \A b \in Born : Runs(b) => proc[b].pid \in Pids BY DEF Family, Exists, Runs
<1> QED BY <1>1 DEF ProcessIds

\* A later scan begins without what the baseline did not find.
LEMMA BegunSound ==
    ASSUME SamplerInv, samples # <<>>, NEW phase \in {"sample", "end"}
    PROVE  /\ Begun(phase) \in Captures /\ Sound(Begun(phase))
           /\ Begun(phase).pc = "scan" /\ Begun(phase).phase = phase
<1> USE Constants
<1>1. Typed /\ Family BY DEF SamplerInv
<1>2. 1 \in DOMAIN samples BY <1>1 DEF Typed
<1>3. \A b \in Born : Unfound(b) => Lost(b) BY <1>2 DEF SamplerInv, Metered
<1>4. PICK ids : ids = ProcessIds OBVIOUS
<1>5. /\ ids \in SUBSET Pids /\ (group # "live" => ids = {})
      BY <1>1, <1>4, ListedIs
<1>6. \A b \in Born : Old(b) =>
          /\ phase = "baseline" /\ group = "live" /\ Exists(b) => proc[b].pid \in ids
          /\ phase \in {"sample", "end"} /\ Unfound(b) =>
                Lost(b) /\ (Exists(b) => proc[b].pid \notin ids)
      BY <1>3, <1>5 DEF Lost
<1>7. phase \in Phases /\ 1 \in Nat BY DEF Phases
<1>8. group = "none" => ids = {} BY <1>5
<1> QED BY <1>1, <1>4, <1>5, <1>6, <1>7, <1>8, ScanSound DEF Begun

\* The caller begins the baseline.
LEMMA StartKeeps == ASSUME SamplerInv, Start PROVE SamplerInv'
<1> USE Constants
<1>1. /\ Typed /\ Family /\ Ordered /\ Joined /\ Summed BY DEF SamplerInv
<1>2. PICK c : c = Begun("baseline") OBVIOUS
<1>3. /\ main = "new" /\ main' = "baseline"
      /\ caps' = [caps EXCEPT !["main"] = c]
      /\ truth' = [truth EXCEPT !.begun = CpuNow]
      /\ UNCHANGED <<backend, group, proc, moves, faults, samples, thread, stopSet, summary>>
      BY <1>2 DEF Start, processes
<1>4. /\ c \in Captures /\ Sound(c) /\ c.pc = "scan" /\ c.phase = "baseline"
  <2>1. \A b \in Born : Exists(b) => Runs(b) BY <1>1, <1>3 DEF Family
  <2>2. PICK ids : ids = ProcessIds OBVIOUS
  <2>3. /\ ids \in SUBSET Pids /\ (group = "none" => ids = {})
        /\ \A b \in Born : group = "live" /\ Exists(b) => proc[b].pid \in ids
        BY <1>1, <2>1, <2>2, ListedIs
  <2>4. \A b \in Born : Old(b) =>
          /\ "baseline" = "baseline" /\ group = "live" /\ Exists(b) => proc[b].pid \in ids
          /\ "baseline" \in {"sample", "end"} /\ Unfound(b) =>
                Lost(b) /\ (Exists(b) => proc[b].pid \notin ids)
        BY <2>3
  <2>5. PICK phase : phase = "baseline" OBVIOUS
  <2>6. phase \in Phases /\ 1 \in Nat BY <2>5 DEF Phases
  <2> QED BY <1>1, <1>2, <2>2, <2>3, <2>4, <2>5, <2>6, ScanSound DEF Begun
<1>5. /\ truth'.begun = truth.begun /\ truth'.taken = truth.taken /\ truth'.late = truth.late
      /\ truth'.missed = truth.missed /\ truth' \in Truths
  <2>1. CpuNow = truth.begun
    <3>1. \A b \in Born : truth.begun[b] = proc[b].cpu BY <1>1, <1>3 DEF Family
    <3>2. truth.begun = [b \in Born |-> truth.begun[b]] BY <1>1 DEF Typed, Truths
    <3> QED BY <3>1, <3>2 DEF CpuNow
  <2> QED BY <1>1, <1>3, <2>1 DEF Typed, Truths
<1>6. /\ caps' \in [Threads -> Captures] /\ caps'["main"] = c
      /\ caps'["thread"] = caps["thread"]
      BY <1>1, <1>3, <1>4 DEF Typed, Threads
<1>7. Typed' BY <1>1, <1>3, <1>5, <1>6 DEF Typed
<1>8. NoCapture.pc = "idle" BY DEF NoCapture
<1> HIDE DEF NoCapture
<1>9. Ordered'
  <2>1. \A t \in Threads :
          /\ caps'[t].pc = "idle" => caps'[t] = NoCapture
          /\ caps'[t].phase = None <=> caps'[t].pc \in {"idle", "raised"}
        BY <1>1, <1>4, <1>6 DEF Ordered, Threads, Phases
  <2> QED BY <1>1, <1>3, <1>4, <1>5, <1>6, <2>1 DEF Ordered, First, Summing
<1>10. Joined' BY <1>1, <1>3, <1>5 DEF Joined, Closed, Summing
<1>11. Summed' BY <1>1, <1>3, UnsummedStays DEF Summing
<1>12. \A u \in Threads : \E d \in Captures : d = caps'[u] /\ Sound(d)
  <2>1. PICK f \in [Threads -> Captures] : f = caps' BY <1>6
  <2>2. \A u \in Threads : f[u] = caps[u] \/ f[u] = NoCapture \/ Sound(f[u])
        BY <1>4, <1>6, <2>1 DEF Threads
  <2> QED BY <2>1, <2>2, CapturesSound
<1> QED BY <1>3, <1>5, <1>7, <1>9, <1>10, <1>11, <1>12, ControlKeeps

\* The thread begins a sample.
LEMMA RoundKeeps == ASSUME SamplerInv, Round PROVE SamplerInv'
<1> USE Constants
<1>1. /\ Typed /\ Family /\ Ordered /\ Joined /\ Summed BY DEF SamplerInv
<1>2. PICK c : c = Begun("sample") OBVIOUS
<1>3. /\ thread = "runs" /\ caps["thread"].pc = "idle"
      /\ caps' = [caps EXCEPT !["thread"] = c]
      /\ UNCHANGED <<backend, group, proc, moves, faults, samples, main, thread, stopSet,
                     summary, truth>>
      BY <1>2 DEF Round, Waiting, processes, control
<1>4. samples # <<>> /\ main \notin {"new", "baseline", "unavailable"}
      BY <1>1, <1>3 DEF Ordered
<1>5. c \in Captures /\ Sound(c) /\ c.pc = "scan" /\ c.phase = "sample"
      BY <1>2, <1>4, BegunSound
<1>6. /\ caps' \in [Threads -> Captures] /\ caps'["thread"] = c
      /\ caps'["main"] = caps["main"]
      BY <1>1, <1>3, <1>5 DEF Typed, Threads
<1>7. Typed' BY <1>1, <1>3, <1>6 DEF Typed
<1>8. Ordered'
  <2>1. \A t \in Threads :
          /\ caps'[t].pc = "idle" => caps'[t] = NoCapture
          /\ caps'[t].phase = None <=> caps'[t].pc \in {"idle", "raised"}
        BY <1>1, <1>5, <1>6 DEF Ordered, Threads, Phases
  <2> QED BY <1>1, <1>3, <1>4, <1>5, <1>6, <2>1 DEF Ordered, First, Summing
<1>9. Joined' BY <1>1, <1>3, <1>6 DEF Joined, Closed, Latest
<1>10. Summed'
  <2>1. \A b \in Born : proc[b].cpu <= proc'[b].cpu
        BY <1>1, <1>3 DEF Typed, Processes, Cpu
  <2> QED BY <1>1, <1>3, <1>7, <2>1, SummedStays
<1>11. \A u \in Threads : \E d \in Captures : d = caps'[u] /\ Sound(d)
  <2>1. PICK f \in [Threads -> Captures] : f = caps' BY <1>6
  <2>2. \A u \in Threads : f[u] = caps[u] \/ f[u] = NoCapture \/ Sound(f[u])
        BY <1>5, <1>6, <2>1 DEF Threads
  <2> QED BY <2>1, <2>2, CapturesSound
<1> QED BY <1>3, <1>4, <1>7, <1>8, <1>9, <1>10, <1>11, ControlKeeps

\* The caller has waited for the thread, or for long enough, and begins the last sample.
LEMMA JoinKeeps == ASSUME SamplerInv, Join PROVE SamplerInv'
<1> USE Constants
<1>1. /\ Typed /\ Family /\ Ordered /\ Joined /\ Summed BY DEF SamplerInv
<1>2. PICK c : c = Begun("end") OBVIOUS
<1>3. /\ main = "join" /\ main' = "end"
      /\ caps' = [caps EXCEPT !["main"] = c]
      /\ truth' = [truth EXCEPT !.late = thread # "ended"]
      /\ UNCHANGED <<backend, group, proc, moves, faults, samples, thread, stopSet, summary>>
      BY <1>2 DEF Join, processes
<1>4. samples # <<>> BY <1>1, <1>3 DEF Ordered
<1>5. c \in Captures /\ Sound(c) /\ c.pc = "scan" /\ c.phase = "end"
      BY <1>2, <1>4, BegunSound
<1>6. /\ caps' \in [Threads -> Captures] /\ caps'["main"] = c
      /\ caps'["thread"] = caps["thread"]
      BY <1>1, <1>3, <1>5 DEF Typed, Threads
<1>7. /\ truth'.begun = truth.begun /\ truth'.taken = truth.taken
      /\ truth'.late <=> thread # "ended"
      /\ truth'.missed = truth.missed /\ truth' \in Truths
      BY <1>1, <1>3 DEF Typed, Truths
<1>8. Typed' BY <1>1, <1>3, <1>6, <1>7 DEF Typed
<1>9. Ordered'
  <2>1. \A t \in Threads :
          /\ caps'[t].pc = "idle" => caps'[t] = NoCapture
          /\ caps'[t].phase = None <=> caps'[t].pc \in {"idle", "raised"}
        BY <1>1, <1>5, <1>6 DEF Ordered, Threads, Phases
  <2> QED BY <1>1, <1>3, <1>4, <1>5, <1>6, <2>1 DEF Ordered, First, Summing
<1>10. Joined' BY <1>1, <1>3, <1>5, <1>6, <1>7 DEF Joined, Closed, Summing
<1>11. Summed' BY <1>1, <1>3, UnsummedStays DEF Summing
<1>12. \A u \in Threads : \E d \in Captures : d = caps'[u] /\ Sound(d)
  <2>1. PICK f \in [Threads -> Captures] : f = caps' BY <1>6
  <2>2. \A u \in Threads : f[u] = caps[u] \/ f[u] = NoCapture \/ Sound(f[u])
        BY <1>5, <1>6, <2>1 DEF Threads
  <2> QED BY <2>1, <2>2, CapturesSound
<1> QED BY <1>3, <1>7, <1>8, <1>9, <1>10, <1>11, <1>12, ControlKeeps

\* Steps that end a capture or begin none.
LEMMA StartThreadKeeps == ASSUME SamplerInv, StartThread PROVE SamplerInv'
<1> USE Constants
<1>1. /\ Typed /\ Family /\ Ordered /\ Joined /\ Summed BY DEF SamplerInv
<1>2. /\ main = "baseline" /\ caps["main"].pc = "idle" /\ main' = "attempt" /\ thread' = "runs"
      /\ UNCHANGED <<backend, group, proc, moves, faults, caps, samples, stopSet, summary,
                     truth>>
      BY DEF StartThread, processes
<1>3. Typed' BY <1>1, <1>2 DEF Typed
<1>4. Ordered' BY <1>1, <1>2 DEF Ordered, First, Summing, Threads
<1>5. Joined' BY <1>1, <1>2 DEF Joined, Closed, Summing
<1>6. Summed' BY <1>1, <1>2, UnsummedStays DEF Summing
<1>7. \A u \in Threads : \E d \in Captures : d = caps'[u] /\ Sound(d) BY <1>2, CaptureIs
<1> QED BY <1>2, <1>3, <1>4, <1>5, <1>6, <1>7, ControlKeeps

\* The caller gives up its capture.
LEMMA CaptureRaisedKeeps ==
    ASSUME SamplerInv, SamplerUnavailable \/ SamplerFailed PROVE SamplerInv'
<1> USE Constants
<1>1. /\ Typed /\ Family /\ Ordered /\ Joined /\ Summed BY DEF SamplerInv
<1>2. /\ caps["main"].pc = "raised"
      /\ \/ main = "baseline" /\ main' = "unavailable"
         \/ main = "end" /\ main' = "failed"
      /\ caps' = [caps EXCEPT !["main"] = NoCapture]
      /\ UNCHANGED <<backend, group, proc, moves, faults, samples, thread, stopSet, summary,
                     truth>>
      BY DEF SamplerUnavailable, SamplerFailed, CaptureRaised, processes
<1>3. NoCapture \in Captures /\ NoCapture.pc = "idle" /\ NoCapture.phase = None
      BY IdleIsSound DEF NoCapture
<1> HIDE DEF NoCapture
<1>4. /\ caps' \in [Threads -> Captures] /\ caps'["main"] = NoCapture
      /\ caps'["thread"] = caps["thread"]
      BY <1>1, <1>2, <1>3 DEF Typed, Threads
<1>5. Typed' BY <1>1, <1>2, <1>4 DEF Typed
<1>6. Ordered'
  <2>1. \A t \in Threads :
          /\ caps'[t].pc = "idle" => caps'[t] = NoCapture
          /\ caps'[t].phase = None <=> caps'[t].pc \in {"idle", "raised"}
        BY <1>1, <1>3, <1>4 DEF Ordered, Threads
  <2> QED BY <1>1, <1>2, <1>3, <1>4, <2>1 DEF Ordered, First, Summing
<1>7. Joined' BY <1>1, <1>2 DEF Joined, Closed, Summing
<1>8. Summed' BY <1>1, <1>2, UnsummedStays DEF Summing
<1>9. \A u \in Threads : \E d \in Captures : d = caps'[u] /\ Sound(d)
  <2>1. PICK f \in [Threads -> Captures] : f = caps' BY <1>4
  <2>2. \A u \in Threads : f[u] = caps[u] \/ f[u] = NoCapture \/ Sound(f[u])
        BY <1>4, <2>1 DEF Threads
  <2> QED BY <2>1, <2>2, CapturesSound
<1> QED BY <1>2, <1>5, <1>6, <1>7, <1>8, <1>9, ControlKeeps

\* The thread ends.
LEMMA ThreadEndsKeeps == ASSUME SamplerInv, ThreadEnds PROVE SamplerInv'
<1> USE Constants
<1>1. /\ Typed /\ Family /\ Ordered /\ Joined /\ Summed BY DEF SamplerInv
<1>2. /\ thread = "runs" /\ thread' = "ended"
      /\ caps' = [caps EXCEPT !["thread"] = NoCapture]
      /\ UNCHANGED <<backend, group, proc, moves, faults, samples, main, stopSet, summary,
                     truth>>
      BY DEF ThreadEnds, Waiting, processes
<1>3. NoCapture \in Captures /\ NoCapture.pc = "idle" /\ NoCapture.phase = None
      BY IdleIsSound DEF NoCapture
<1> HIDE DEF NoCapture
<1>4. /\ caps' \in [Threads -> Captures] /\ caps'["thread"] = NoCapture
      /\ caps'["main"] = caps["main"]
      BY <1>1, <1>2, <1>3 DEF Typed, Threads
<1>5. Typed' BY <1>1, <1>2, <1>4 DEF Typed
<1>6. Ordered'
  <2>1. \A t \in Threads :
          /\ caps'[t].pc = "idle" => caps'[t] = NoCapture
          /\ caps'[t].phase = None <=> caps'[t].pc \in {"idle", "raised"}
        BY <1>1, <1>3, <1>4 DEF Ordered, Threads
  <2> QED BY <1>1, <1>2, <1>3, <1>4, <2>1 DEF Ordered, First, Summing
<1>7. Joined' BY <1>1, <1>2, <1>4 DEF Joined, Closed, Latest
<1>8. Summed'
  <2>1. \A b \in Born : proc[b].cpu <= proc'[b].cpu
        BY <1>1, <1>2 DEF Typed, Processes, Cpu
  <2> QED BY <1>1, <1>2, <1>5, <2>1, SummedStays
<1>9. main' # "new" BY <1>1, <1>2 DEF Ordered
<1>10. \A u \in Threads : \E d \in Captures : d = caps'[u] /\ Sound(d)
  <2>1. PICK f \in [Threads -> Captures] : f = caps' BY <1>4
  <2>2. \A u \in Threads : f[u] = caps[u] \/ f[u] = NoCapture \/ Sound(f[u])
        BY <1>4, <2>1 DEF Threads
  <2> QED BY <2>1, <2>2, CapturesSound
<1> QED BY <1>2, <1>5, <1>6, <1>7, <1>8, <1>9, <1>10, ControlKeeps

\* The thread is told to stop.
LEMMA StopKeeps == ASSUME SamplerInv, Stop PROVE SamplerInv'
<1> USE Constants
<1>1. /\ Typed /\ Family /\ Ordered /\ Joined /\ Summed BY DEF SamplerInv
<1>2. /\ main = "attempt" /\ main' = "join" /\ stopSet' = TRUE
      /\ UNCHANGED <<backend, group, proc, moves, faults, caps, samples, thread, summary,
                     truth>>
      BY DEF Stop, processes
<1>3. Typed' BY <1>1, <1>2 DEF Typed
<1>4. Ordered' BY <1>1, <1>2 DEF Ordered, First, Summing, Threads
<1>5. Joined' BY <1>1, <1>2 DEF Joined, Closed, Summing
<1>6. Summed' BY <1>1, <1>2, UnsummedStays DEF Summing
<1>7. \A u \in Threads : \E d \in Captures : d = caps'[u] /\ Sound(d) BY <1>2, CaptureIs
<1> QED BY <1>2, <1>3, <1>4, <1>5, <1>6, <1>7, ControlKeeps

\* A step of the summary.
LEMMA SummingKeeps ==
    ASSUME SamplerInv, Closed, main' \in Summing, summary' \in Summaries, Summed',
           UNCHANGED <<backend, group, proc, moves, faults, caps, samples, thread, stopSet, truth>>,
           ~truth.late =>
              /\ summary'.last = Latest
              /\ main' \in {"rows", "done"} => summary'.seen = Len(samples)
              /\ main' = "done" => summary'.rows = Len(samples)
    PROVE  SamplerInv'
<1> USE Constants
<1>1. /\ Typed /\ Family /\ Ordered /\ Joined /\ Summed BY DEF SamplerInv
<1>2. Typed' BY <1>1 DEF Typed
<1>3. main \in {"end"} \cup Summing /\ caps["main"].pc = "idle"
  <2>1. NoCapture.pc = "idle" BY DEF NoCapture
  <2> HIDE DEF NoCapture
  <2> QED BY <1>1, <2>1 DEF Closed, Ordered, Summing
<1>4. Ordered' BY <1>1, <1>3 DEF Ordered, First, Summing, Threads
<1>5. Joined' BY <1>1, <1>3 DEF Joined, Closed, Latest
<1>6. main' # "new" BY DEF Summing
<1>7. \A u \in Threads : \E d \in Captures : d = caps'[u] /\ Sound(d) BY CaptureIs
<1> QED BY <1>2, <1>4, <1>5, <1>6, <1>7, ControlKeeps

\* What a summary rests on.
LEMMA SummingIs ==
    ASSUME SamplerInv, main \in Summing
    PROVE  /\ Typed /\ Summed /\ Closed /\ summary \in Summaries
           /\ samples \in Seq(SampleSet) /\ Len(samples) \in Nat /\ Len(samples) >= 2
           /\ DOMAIN samples = 1 .. Len(samples)
           /\ \A n \in 1 .. Len(samples) : samples[n] \in SampleSet /\ Metered(n)
           /\ ~truth.late =>
                 /\ summary.last = Latest
                 /\ main \in {"rows", "done"} => summary.seen = Len(samples)
           /\ truth.late \in BOOLEAN
<1>1. /\ Typed /\ Summed /\ Joined /\ Closed BY DEF SamplerInv, Closed
<1>2. samples \in Seq(SampleSet) /\ summary \in Summaries /\ truth.late \in BOOLEAN
      BY <1>1 DEF Typed, Truths
<1>3. DOMAIN samples = 1 .. Len(samples) /\ Len(samples) \in Nat BY <1>2
<1>4. \A n \in 1 .. Len(samples) : samples[n] \in SampleSet BY <1>2
<1> QED BY <1>1, <1>2, <1>3, <1>4 DEF Joined, SamplerInv

\* The caller begins the summary with the sample it has taken last.
LEMMA SummarizeEndsKeeps == ASSUME SamplerInv, SummarizeEnds PROVE SamplerInv'
<1> USE Constants
<1>1. /\ Typed /\ Joined /\ Summed BY DEF SamplerInv
<1>2. /\ main = "end" /\ main' = "values" /\ caps["main"].pc = "idle"
      /\ summary' = [summary EXCEPT !.last = Latest]
      /\ UNCHANGED <<backend, group, proc, moves, faults, caps, samples, thread, stopSet, truth>>
      BY DEF SummarizeEnds, SummarizeStep, processes
<1>3. Closed /\ main' \in Summing /\ main \notin Summing BY <1>2 DEF Closed, Summing
<1>4. samples \in Seq(SampleSet) /\ Len(samples) \in Nat /\ Len(samples) >= 2
      BY <1>1, <1>3 DEF Joined, Typed
<1>5. Latest \in SampleSet BY <1>4 DEF Latest
<1>6. /\ summary' \in Summaries /\ summary'.last = Latest
      /\ summary'.peak = summary.peak /\ summary'.cpu = summary.cpu
      BY <1>1, <1>2, <1>5 DEF Typed, Summaries
<1>7. summary.peak = None /\ summary.cpu = None BY <1>1, <1>3 DEF Summed, NoSummary
<1>8. Summed'
  <2>1. Len(samples) \in 2 .. Len(samples) /\ summary'.last = samples[Len(samples)]
        BY <1>4, <1>6 DEF Latest
  <2> QED BY <1>2, <1>6, <1>7, <2>1 DEF Summed, CpuIsOfThisAttempt, Summing
<1> QED BY <1>2, <1>3, <1>6, <1>8, SummingKeeps

\* The samples of the list as it is now that have a measurement.
LEMMA SummarizeValuesKeeps == ASSUME SamplerInv, SummarizeValues PROVE SamplerInv'
<1> USE Constants
<1> DEFINE vals == {i \in DOMAIN samples : Measured(samples[i])}
<1>1. /\ main = "values" /\ main' = "peak"
      /\ summary' = [summary EXCEPT !.values = vals]
      /\ UNCHANGED <<backend, group, proc, moves, faults, caps, samples, thread, stopSet, truth>>
      BY DEF SummarizeValues, SummarizeStep, processes
<1>2. main \in Summing /\ main' \in Summing BY <1>1 DEF Summing
<1>3. vals = {i \in 1 .. Len(samples) : Measured(samples[i])} /\ vals \in SUBSET Nat
      BY <1>2, SummingIs
<1> HIDE DEF vals
<1>4. /\ summary' \in Summaries /\ summary'.values = vals /\ summary'.last = summary.last
      /\ summary'.peak = summary.peak /\ summary'.cpu = summary.cpu
      BY <1>1, <1>2, <1>3, SummingIs DEF Summaries
<1>5. Summed'
  <2>1. /\ summary.peak = None /\ summary.cpu = None BY <1>1, <1>2, SummingIs DEF Summed
  <2>2. PICK n \in 2 .. Len(samples) : summary.last = samples[n]
        BY <1>2, SummingIs DEF Summed
  <2>3. Len(samples) \in n .. Len(samples) BY <1>2, SummingIs
  <2>4. \E k \in 2 .. Len(samples) :
          /\ summary'.last = samples[k]
          /\ main' = "peak" => \E m \in k .. Len(samples) :
                summary'.values = {i \in 1 .. m : Measured(samples[i])}
        BY <1>3, <1>4, <2>2, <2>3
  <2>5. main' = "peak" /\ summary'.peak = None /\ summary'.cpu = None BY <1>1, <1>4, <2>1
  <2>6. CpuIsOfThisAttempt' BY <2>5 DEF CpuIsOfThisAttempt
  <2> QED BY <1>1, <1>2, <2>4, <2>5, <2>6, ZenonT(40) DEF Summed
<1> QED BY <1>1, <1>2, <1>4, <1>5, SummingIs, SummingKeeps

\* A memory that was measured is a set of processes.
LEMMA MemoryIs ==
    ASSUME SamplerInv, main \in Summing, NEW n \in 1 .. Len(samples), Measured(samples[n])
    PROVE  /\ Cardinality(samples[n].memory) \in Nat
           /\ Cardinality(samples[n].memory) <= Cardinality(Born)
<1>1. Metered(n) BY SummingIs
<1>2. samples[n].memory \subseteq Born BY <1>1 DEF Metered
<1> QED BY <1>2, Constants, FS_Subset, FS_CardinalityType

\* The peak, if every sample of the list as it is now has been counted and has a measurement.
LEMMA SummarizePeakKeeps == ASSUME SamplerInv, SummarizePeak PROVE SamplerInv'
<1> USE Constants
<1> DEFINE cards == {Cardinality(samples[i].memory) : i \in summary.values}
           full == Cardinality(summary.values) = Len(samples)
           peak == IF full THEN Max(cards) ELSE summary.peak
           ends == IF Measured(summary.last) THEN Cardinality(summary.last.memory)
                   ELSE summary.ends
<1>1. /\ main = "peak" /\ main' = "cpu"
      /\ summary' = [summary EXCEPT !.peak = peak, !.ends = ends]
      /\ UNCHANGED <<backend, group, proc, moves, faults, caps, samples, thread, stopSet, truth>>
      BY DEF SummarizePeak, SummarizeStep, processes
<1>2. main \in Summing /\ main' \in Summing BY <1>1 DEF Summing
<1>3. /\ Summed /\ Typed /\ Closed /\ summary \in Summaries
      /\ Len(samples) \in Nat /\ Len(samples) >= 2
      BY <1>2, SummingIs
<1>4. summary.peak = None /\ summary.cpu = None BY <1>1, <1>3 DEF Summed
<1>5. PICK n \in 2 .. Len(samples) :
         /\ summary.last = samples[n]
         /\ \E m \in n .. Len(samples) : summary.values = {i \in 1 .. m : Measured(samples[i])}
      BY <1>1, <1>2, <1>3 DEF Summed
<1>6. PICK m \in n .. Len(samples) : summary.values = {i \in 1 .. m : Measured(samples[i])}
      BY <1>5
<1>7. m \in Nat /\ 1 .. m \subseteq 1 .. Len(samples) /\ n \in 1 .. m /\ 1 \in 1 .. m
      /\ n \in 1 .. Len(samples)
      BY <1>3
<1>8. full => m = Len(samples) /\ summary.values = 1 .. m
  <2> SUFFICES ASSUME full PROVE m = Len(samples) /\ summary.values = 1 .. m OBVIOUS
  <2>1. IsFiniteSet(1 .. m) /\ Cardinality(1 .. m) = m BY <1>7, FS_Interval
  <2>2. summary.values \subseteq 1 .. m BY <1>6
  <2>3. Cardinality(summary.values) <= m BY <2>1, <2>2, FS_Subset
  <2>4. m = Len(samples) BY <1>3, <1>7, <2>3
  <2>5. summary.values = 1 .. m BY <2>1, <2>2, <2>4, FS_Subset
  <2> QED BY <2>4, <2>5
<1>9. full => /\ Measured(First) /\ Measured(summary.last)
              /\ peak \in Nat /\ peak >= Cardinality(First.memory)
              /\ peak >= Cardinality(summary.last.memory)
  <2> SUFFICES ASSUME full
               PROVE  /\ Measured(First) /\ Measured(summary.last)
                      /\ peak \in Nat /\ peak >= Cardinality(First.memory)
                      /\ peak >= Cardinality(summary.last.memory)
      OBVIOUS
  <2>1. \A i \in 1 .. m : Measured(samples[i]) BY <1>6, <1>8
  <2>2. \A i \in 1 .. m : /\ Cardinality(samples[i].memory) \in Nat
                          /\ Cardinality(samples[i].memory) <= Cardinality(Born)
        BY <1>2, <1>7, <2>1, MemoryIs
  <2>3. Cardinality(Born) \in Nat BY FS_CardinalityType
  <2>4. /\ Cardinality(samples[1].memory) \in cards
        /\ Cardinality(samples[n].memory) \in cards
        /\ cards \in SUBSET Nat /\ \A x \in cards : x <= Cardinality(Born)
        BY <1>7, <1>8, <2>2
  <2> HIDE DEF cards
  <2>5. Max(cards) \in cards /\ \A x \in cards : Max(cards) >= x BY <2>3, <2>4, Greatest
  <2> QED BY <1>5, <1>7, <2>1, <2>4, <2>5 DEF First
<1>10. ends \in Nat \cup {None}
  <2>1. Measured(summary.last) => Cardinality(summary.last.memory) \in Nat
        BY <1>2, <1>5, <1>7, MemoryIs
  <2> QED BY <1>3, <2>1 DEF Summaries
<1>11. Measured(summary.last) => ends = Cardinality(summary.last.memory) /\ ends \in Nat
       BY <1>2, <1>5, <1>7, MemoryIs
<1>12. peak \in Nat \cup {None} /\ (peak # None => full) BY <1>4, <1>9
<1> HIDE DEF peak, ends, full
<1>13. /\ summary' \in Summaries /\ summary'.peak = peak /\ summary'.ends = ends
       /\ summary'.last = summary.last /\ summary'.cpu = summary.cpu
       BY <1>1, <1>3, <1>10, <1>12 DEF Summaries
<1>14. Summed'
  <2>1. peak # None => /\ Measured(First) /\ Measured(summary.last)
                       /\ peak >= Cardinality(First.memory)
                       /\ ends # None /\ peak >= ends
        BY <1>9, <1>11, <1>12
  <2>2. First' = First BY <1>1 DEF First
  <2>3. \E k \in 2 .. Len(samples) : summary'.last = samples[k] BY <1>5, <1>13
  <2> QED BY <1>1, <1>2, <1>4, <1>13, <2>1, <2>2, <2>3
          DEF Summed, CpuIsOfThisAttempt, Measured
<1> QED BY <1>1, <1>2, <1>3, <1>13, <1>14, SummingIs, SummingKeeps

\* The flags and the number of samples.
LEMMA SummarizeCountsKeeps == ASSUME SamplerInv, SummarizeCounts PROVE SamplerInv'
<1> USE Constants
<1> DEFINE flags == summary.flags \cup {f \in {"engine_root_exited"} : ~summary.last.root}
                                  \cup {f \in {"baseline_end_only"} : Len(samples) <= 2}
<1>1. /\ main = "counts" /\ main' = "rows"
      /\ summary' = [summary EXCEPT !.flags = flags, !.seen = Len(samples)]
      /\ UNCHANGED <<backend, group, proc, moves, faults, caps, samples, thread, stopSet, truth>>
      BY DEF SummarizeCounts, SummarizeStep, processes
<1>2. main \in Summing /\ main' \in Summing BY <1>1 DEF Summing
<1>3. /\ Summed /\ Typed /\ Closed /\ summary \in Summaries /\ Len(samples) \in Nat
      BY <1>2, SummingIs
<1>4. flags \in SUBSET {"proc_tree_child_exit_loss_risk", "engine_root_exited",
                        "baseline_end_only"}
      BY <1>3 DEF Summaries
<1> HIDE DEF flags
<1>5. /\ summary' \in Summaries /\ summary'.peak = summary.peak /\ summary'.ends = summary.ends
      /\ summary'.last = summary.last /\ summary'.cpu = summary.cpu
      /\ summary'.seen = Len(samples)
      BY <1>1, <1>3, <1>4 DEF Summaries
<1>6. Summed'
  <2>1. \E k \in 2 .. Len(samples) : summary'.last = samples[k] BY <1>2, <1>3, <1>5 DEF Summed
  <2>2. CpuIsOfThisAttempt'
        BY <1>1, <1>3, <1>5 DEF Summed, CpuIsOfThisAttempt, Before, ByGroup, First
  <2> QED BY <1>1, <1>2, <1>3, <1>5, <2>1, <2>2 DEF Summed, First, Measured
<1> QED BY <1>1, <1>2, <1>3, <1>5, <1>6, SummingIs, SummingKeeps

\* The rows of the samples file.
LEMMA SamplesReturnedKeeps == ASSUME SamplerInv, SamplesReturned PROVE SamplerInv'
<1> USE Constants
<1>1. /\ main = "rows" /\ main' = "done"
      /\ summary' = [summary EXCEPT !.rows = Len(samples)]
      /\ UNCHANGED <<backend, group, proc, moves, faults, caps, samples, thread, stopSet, truth>>
      BY DEF SamplesReturned, SummarizeStep, processes
<1>2. main \in Summing /\ main' \in Summing BY <1>1 DEF Summing
<1>3. /\ Summed /\ Typed /\ Closed /\ summary \in Summaries /\ Len(samples) \in Nat
      BY <1>2, SummingIs
<1>4. /\ summary' \in Summaries /\ summary'.peak = summary.peak /\ summary'.ends = summary.ends
      /\ summary'.last = summary.last /\ summary'.cpu = summary.cpu
      /\ summary'.seen = summary.seen /\ summary'.rows = Len(samples)
      BY <1>1, <1>3 DEF Summaries
<1>5. Summed'
  <2>1. \E k \in 2 .. Len(samples) : summary'.last = samples[k] BY <1>2, <1>3, <1>4 DEF Summed
  <2>2. CpuIsOfThisAttempt'
        BY <1>1, <1>3, <1>4 DEF Summed, CpuIsOfThisAttempt, Before, ByGroup, First
  <2> QED BY <1>1, <1>2, <1>3, <1>4, <2>1, <2>2 DEF Summed, First, Measured
<1> QED BY <1>1, <1>2, <1>3, <1>4, <1>5, SummingIs, SummingKeeps

\* The greater of a number and nothing.
LEMMA Positive ==
    ASSUME NEW x \in Int
    PROVE  Max({0, x}) = IF x >= 0 THEN x ELSE 0
<1> DEFINE m == IF x >= 0 THEN x ELSE 0
<1>1. m \in {0, x} /\ \A y \in {0, x} : m >= y OBVIOUS
<1>2. \A n \in {0, x} : (\A y \in {0, x} : n >= y) => n = m OBVIOUS
<1> QED BY <1>1, <1>2 DEF Max

\* The counters of a process are of its own CPU, and none is before the baseline was begun.
LEMMA CountersAre ==
    ASSUME SamplerInv, main \in Summing, NEW b \in Born
    PROVE  /\ \A x \in CountersOf(b) : x \in Nat /\ truth.begun[b] <= x /\ x <= proc[b].cpu
           /\ b \notin DOMAIN First.counters =>
                 /\ Initial(b) = 0
                 /\ CountersOf(b) # {} => truth.begun[b] = 0 \/ b \in truth.missed
           /\ b \in DOMAIN First.counters =>
                 /\ Initial(b) \in CountersOf(b) /\ Initial(b) <= truth.taken[b]
<1> USE Constants
<1>1. ASSUME NEW x \in CountersOf(b) PROVE x \in Nat /\ truth.begun[b] <= x /\ x <= proc[b].cpu
  <2>1. PICK n \in 1 .. Len(samples) : b \in DOMAIN samples[n].counters
                                       /\ x = samples[n].counters[b]
        BY SummingIs DEF CountersOf
  <2>2. samples[n] \in SampleSet /\ Metered(n) BY SummingIs
  <2>3. x \in Nat BY <2>1, <2>2, CountersTyped
  <2> QED BY <2>1, <2>2, <2>3 DEF Metered
<1>2. ASSUME b \notin DOMAIN First.counters, CountersOf(b) # {}, b \notin truth.missed
      PROVE  truth.begun[b] = 0
  <2>1. PICK n \in 1 .. Len(samples) : b \in DOMAIN samples[n].counters
        BY <1>2, SummingIs DEF CountersOf
  <2>2. ~Old(b) BY <1>2, <2>1, SummingIs DEF Metered, Unfound
  <2>3. truth.begun[b] \in Nat BY SummingIs DEF Typed, Truths, Cpu
  <2> QED BY <2>2, <2>3 DEF Old
<1>3. ASSUME b \in DOMAIN First.counters
      PROVE  Initial(b) \in CountersOf(b) /\ Initial(b) <= truth.taken[b]
  <2>1. 1 \in DOMAIN samples /\ Metered(1) BY SummingIs
  <2> QED BY <1>3, <2>1 DEF Initial, CountersOf, First, Metered
<1> QED BY <1>1, <1>2, <1>3 DEF Initial

\* What a process had used when the baseline was begun, if that did not miss it.
Since(b) == IF b \in truth.missed THEN 0 ELSE truth.begun[b]

\* What a process is charged.
Charged(b) ==
    IF CountersOf(b) = {} THEN 0 ELSE Max({0, Max(CountersOf(b)) - Initial(b)})
\* It is no more than what the process used since the baseline was begun, if that did not miss
\* it, and no less than what the last sample shows it to have used since the baseline was taken.
LEMMA ChargedIs ==
    ASSUME SamplerInv, main \in Summing, NEW b \in Born
    PROVE  /\ Charged(b) \in Int
           /\ Charged(b) <= proc[b].cpu - Since(b)
           /\ b \in DOMAIN summary.last.counters =>
                 Max({0, summary.last.counters[b] - truth.taken[b]}) <= Charged(b)
<1> USE Constants
<1>1. /\ proc[b].cpu \in Nat /\ truth.begun[b] \in Nat /\ truth.taken[b] \in Nat
      /\ truth.begun[b] <= truth.taken[b] /\ truth.taken[b] <= proc[b].cpu
  <2>1. proc[b].cpu \in Nat /\ truth.begun[b] \in Nat /\ truth.taken[b] \in Nat
        BY SummingIs DEF Typed, Truths, Processes, Cpu
  <2> QED BY <2>1 DEF SamplerInv, Family
<1>2. /\ \A x \in CountersOf(b) : x \in Nat /\ truth.begun[b] <= x /\ x <= proc[b].cpu
      /\ b \notin DOMAIN First.counters =>
            /\ Initial(b) = 0
            /\ CountersOf(b) # {} => truth.begun[b] = 0 \/ b \in truth.missed
      /\ b \in DOMAIN First.counters =>
            /\ Initial(b) \in CountersOf(b) /\ Initial(b) <= truth.taken[b]
      BY CountersAre
<1>3. ASSUME CountersOf(b) # {}
      PROVE  /\ Max(CountersOf(b)) \in Nat /\ Max(CountersOf(b)) <= proc[b].cpu
             /\ \A x \in CountersOf(b) : Max(CountersOf(b)) >= x
             /\ Initial(b) \in Nat /\ Since(b) <= Initial(b) /\ Initial(b) <= truth.taken[b]
             /\ Charged(b) = IF Max(CountersOf(b)) - Initial(b) >= 0
                             THEN Max(CountersOf(b)) - Initial(b) ELSE 0
  <2>1. PICK S \in SUBSET Nat : S = CountersOf(b) BY <1>2
  <2>2. Max(S) \in S /\ \A x \in S : Max(S) >= x BY <1>1, <1>2, <1>3, <2>1, Greatest
  <2>3. Max(S) \in Nat /\ Max(S) <= proc[b].cpu BY <1>2, <2>1, <2>2
  <2>4. Initial(b) \in Nat /\ Since(b) <= Initial(b) /\ Initial(b) <= truth.taken[b]
    <3>1. CASE b \in DOMAIN First.counters BY <1>2, <3>1 DEF Since
    <3>2. CASE b \notin DOMAIN First.counters BY <1>1, <1>2, <1>3, <3>2 DEF Since
    <3> QED BY <3>1, <3>2
  <2>5. PICK x \in Int : x = Max(S) - Initial(b) BY <2>3, <2>4
  <2>6. Charged(b) = IF x >= 0 THEN x ELSE 0 BY <1>3, <2>1, <2>5, Positive DEF Charged
  <2> QED BY <2>1, <2>2, <2>3, <2>4, <2>5, <2>6
<1>4. CASE CountersOf(b) = {}
  <2>1. Charged(b) = 0 BY <1>4 DEF Charged
  <2>2. b \notin DOMAIN summary.last.counters
    <3>1. PICK n \in 2 .. Len(samples) : summary.last = samples[n] BY SummingIs DEF Summed
    <3>2. n \in DOMAIN samples BY SummingIs
    <3> QED BY <1>4, <3>1, <3>2 DEF CountersOf
  <2> QED BY <1>1, <2>1, <2>2 DEF Since
<1>5. CASE CountersOf(b) # {}
  <2>1. Charged(b) \in Int /\ Charged(b) <= proc[b].cpu - Since(b)
    <3>1. Since(b) \in Nat /\ Since(b) <= proc[b].cpu BY <1>1 DEF Since
    <3> QED BY <1>1, <1>3, <1>5, <3>1
  <2>2. ASSUME b \in DOMAIN summary.last.counters
        PROVE  Max({0, summary.last.counters[b] - truth.taken[b]}) <= Charged(b)
    <3>1. PICK n \in 2 .. Len(samples) : summary.last = samples[n] BY SummingIs DEF Summed
    <3>2. n \in DOMAIN samples BY SummingIs
    <3>3. PICK z : z = summary.last.counters[b] OBVIOUS
    <3>4. z \in CountersOf(b) BY <2>2, <3>1, <3>2, <3>3 DEF CountersOf
    <3>5. z \in Nat /\ Max(CountersOf(b)) >= z BY <1>2, <1>3, <1>5, <3>4
    <3>6. PICK x \in Int : x = z - truth.taken[b] BY <1>1, <3>5
    <3>7. Max({0, x}) = IF x >= 0 THEN x ELSE 0 BY Positive
    <3>8. x <= Charged(b) /\ 0 <= Charged(b)
      <4>1. PICK m \in Nat : m = Max(CountersOf(b)) BY <1>3, <1>5
      <4>2. PICK i \in Nat : i = Initial(b) BY <1>3, <1>5
      <4>3. PICK y \in Nat : y = truth.taken[b] BY <1>1
      <4>4. i <= y BY <1>3, <1>5, <4>2, <4>3
      <4>5. z \in Nat /\ z <= m BY <3>5, <4>1
      <4>6. x = z - y BY <3>6, <4>3
      <4>7. Charged(b) = IF m - i >= 0 THEN m - i ELSE 0 BY <1>3, <1>5, <4>1, <4>2
      <4>8. x <= m - i
            BY ONLY m \in Nat, i \in Nat, y \in Nat, <4>4, <4>5, <4>6
      <4>9. CASE m - i >= 0 BY <4>7, <4>8, <4>9
      <4>10. CASE ~(m - i >= 0)
        <5>1. Charged(b) = 0 BY <4>7, <4>10
        <5>2. x \in Int /\ m - i \in Int BY <4>1, <4>2, <3>6
        <5>3. x <= 0 BY ONLY x \in Int, m \in Nat, i \in Nat, <4>8, <4>10
        <5> QED BY <5>1, <5>3
      <4> QED BY <4>9, <4>10
    <3> QED BY <3>3, <3>6, <3>7, <3>8
  <2> QED BY <2>1, <2>2
<1> QED BY <1>4, <1>5

\* The two bounds of the CPU an attempt is charged.
Spent == [b \in Born |-> proc[b].cpu - Before(b)]
SinceBaseline ==
    [b \in Born |-> IF b \in DOMAIN summary.last.counters
                    THEN Max({0, summary.last.counters[b] - truth.taken[b]}) ELSE 0]

\* The bounds are whole numbers.
LEMMA BoundsTyped ==
    ASSUME SamplerInv, main \in Summing
    PROVE  /\ \A b \in Born : /\ proc[b].cpu \in Nat /\ truth.begun[b] \in Nat
                              /\ truth.taken[b] \in Nat /\ truth.begun[b] <= truth.taken[b]
                              /\ truth.taken[b] <= proc[b].cpu
           /\ Spent \in [Born -> Int] /\ SinceBaseline \in [Born -> Int]
           /\ \A b \in DOMAIN summary.last.counters :
                 /\ b \in Born /\ summary.last.counters[b] \in Nat
                 /\ SinceBaseline[b] = IF summary.last.counters[b] - truth.taken[b] >= 0
                                       THEN summary.last.counters[b] - truth.taken[b] ELSE 0
<1> USE Constants
<1>1. \A b \in Born : /\ proc[b].cpu \in Nat /\ truth.begun[b] \in Nat
                      /\ truth.taken[b] \in Nat
      BY SummingIs DEF Typed, Truths, Processes, Cpu
<1>2. \A b \in Born : truth.begun[b] <= truth.taken[b] /\ truth.taken[b] <= proc[b].cpu
      BY DEF SamplerInv, Family
<1>3. summary.last \in SampleSet
  <2>1. PICK n \in 2 .. Len(samples) : summary.last = samples[n] BY SummingIs DEF Summed
  <2>2. n \in 1 .. Len(samples) BY SummingIs
  <2> QED BY <2>1, <2>2, SummingIs
<1>4. ASSUME NEW b \in DOMAIN summary.last.counters
      PROVE  /\ b \in Born /\ summary.last.counters[b] \in Nat
             /\ SinceBaseline[b] = IF summary.last.counters[b] - truth.taken[b] >= 0
                                   THEN summary.last.counters[b] - truth.taken[b] ELSE 0
  <2>1. b \in Born /\ summary.last.counters[b] \in Nat BY <1>3, CountersTyped
  <2>2. PICK x \in Int : x = summary.last.counters[b] - truth.taken[b] BY <1>1, <2>1
  <2>3. Max({0, x}) = IF x >= 0 THEN x ELSE 0 BY Positive
  <2> QED BY <2>1, <2>2, <2>3 DEF SinceBaseline
<1>5. Spent \in [Born -> Int]
  <2>1. \A b \in Born : Before(b) \in Nat BY <1>1 DEF Before
  <2> QED BY <1>1, <2>1 DEF Spent
<1>6. \A b \in Born : SinceBaseline[b] \in Int
  <2> TAKE b \in Born
  <2>1. CASE b \in DOMAIN summary.last.counters
    <3>1. PICK x \in Nat : x = summary.last.counters[b] BY <1>4, <2>1
    <3>2. PICK y \in Nat : y = truth.taken[b] BY <1>1
    <3>3. SinceBaseline[b] = IF x - y >= 0 THEN x - y ELSE 0 BY <1>4, <2>1, <3>1, <3>2
    <3> QED BY <3>1, <3>2, <3>3
  <2>2. CASE b \notin DOMAIN summary.last.counters BY <2>2 DEF SinceBaseline
  <2> QED BY <2>1, <2>2
<1>7. SinceBaseline \in [Born -> Int] BY <1>6 DEF SinceBaseline
<1> QED BY <1>1, <1>2, <1>4, <1>5, <1>7

\* Added up process by process, it is between the two.
LEMMA TreeCpuIs ==
    ASSUME SamplerInv, main \in Summing, ~ByGroup
    PROVE  TreeCpu \in Int /\ TreeCpu <= SumOf(Spent) /\ TreeCpu >= SumOf(SinceBaseline)
<1> USE Constants
<1>1. PICK f : f = [b \in Born |-> Charged(b)] OBVIOUS
<1>2. f \in [Born -> Int] BY <1>1, ChargedIs
<1>3. Spent \in [Born -> Int] /\ SinceBaseline \in [Born -> Int] BY BoundsTyped
<1>4. \A b \in Born : f[b] <= Spent[b] BY <1>1, ChargedIs DEF Spent, Before, Since
<1>5. \A b \in Born : SinceBaseline[b] <= f[b]
  <2> TAKE b \in Born
  <2>1. CASE b \in DOMAIN summary.last.counters BY <1>1, <2>1, ChargedIs DEF SinceBaseline
  <2>2. CASE b \notin DOMAIN summary.last.counters
    <3>1. SinceBaseline[b] = 0 BY <2>2 DEF SinceBaseline
    <3>2. Charged(b) >= 0
      <4>1. CASE CountersOf(b) = {} BY <4>1 DEF Charged
      <4>2. CASE CountersOf(b) # {}
        <5>1. PICK S \in SUBSET Nat : S = CountersOf(b) BY CountersAre
        <5>2. /\ proc[b].cpu \in Nat /\ \A x \in S : x <= proc[b].cpu
              BY <5>1, CountersAre, BoundsTyped
        <5>3. Max(S) \in Nat BY <4>2, <5>1, <5>2, Greatest
        <5>4. Initial(b) \in Nat BY CountersAre
        <5>5. PICK x \in Int : x = Max(S) - Initial(b) BY <5>3, <5>4
        <5>6. Charged(b) = IF x >= 0 THEN x ELSE 0 BY <4>2, <5>1, <5>5, Positive DEF Charged
        <5> QED BY <5>6
      <4> QED BY <4>1, <4>2
    <3> QED BY <1>1, <3>1, <3>2
  <2> QED BY <2>1, <2>2
<1>6. TreeCpu = SumOf(f) BY <1>1 DEF TreeCpu, Charged
<1>7. SumOf(f) \in Int /\ SumOf(f) <= SumOf(Spent)
  <2> HIDE DEF Spent
  <2> QED BY <1>2, <1>3, <1>4, SumIsMonotone
<1>8. SumOf(SinceBaseline) <= SumOf(f)
  <2> HIDE DEF SinceBaseline
  <2> QED BY <1>2, <1>3, <1>5, SumIsMonotone
<1> QED BY <1>6, <1>7, <1>8

\* So it is when the group counts it.
LEMMA GroupCpuIs ==
    ASSUME SamplerInv, main \in Summing, ByGroup
    PROVE  LET x == Max({0, summary.last.usage - First.usage})
           IN x \in Int /\ x <= SumOf(Spent) /\ x >= SumOf(SinceBaseline)
<1> USE Constants
<1>1. PICK n \in 2 .. Len(samples) : summary.last = samples[n] BY SummingIs DEF Summed
<1>2. n \in 1 .. Len(samples) /\ 1 \in 1 .. Len(samples) /\ n # 1 BY SummingIs
<1>3. Metered(n) /\ Metered(1) BY <1>2, SummingIs
<1>4. \A b \in Born : /\ proc[b].cpu \in Nat /\ truth.begun[b] \in Nat
                      /\ truth.taken[b] \in Nat /\ truth.begun[b] <= truth.taken[b]
                      /\ truth.taken[b] <= proc[b].cpu
      BY BoundsTyped
<1>5. PICK v \in [Born -> Cpu] :
          /\ summary.last.usage = SumOf(v)
          /\ \A b \in Born : v[b] <= proc[b].cpu
          /\ \A b \in DOMAIN summary.last.counters : summary.last.counters[b] <= v[b]
          /\ \A b \in Born : truth.taken[b] <= v[b]
      BY <1>1, <1>2, <1>3 DEF ByGroup, Metered
<1>6. PICK w \in [Born -> Cpu] :
          /\ First.usage = SumOf(w)
          /\ \A b \in Born : truth.begun[b] <= w[b] /\ w[b] <= truth.taken[b]
      BY <1>3 DEF ByGroup, Metered, First
<1>7. v \in [Born -> Int] /\ w \in [Born -> Int] /\ \A b \in Born : v[b] \in Nat /\ w[b] \in Nat
      BY DEF Cpu
<1>8. PICK begun \in [Born -> Int] : begun = truth.begun BY SummingIs DEF Typed, Truths, Cpu
<1>9. PICK taken \in [Born -> Int] : taken = truth.taken BY SummingIs DEF Typed, Truths, Cpu
<1>10. PICK used \in [Born -> Int] : used = [b \in Born |-> proc[b].cpu]
  <2>1. \A b \in Born : proc[b].cpu \in Int BY <1>4
  <2>2. [b \in Born |-> proc[b].cpu] \in [Born -> Int] BY <2>1
  <2> QED BY <2>2
<1>11. SumOf(begun) \in Int /\ SumOf(w) \in Int /\ SumOf(begun) <= SumOf(w)
       BY <1>6, <1>7, <1>8, SumIsMonotone
<1>12. SumOf(w) <= SumOf(taken) /\ SumOf(taken) \in Int BY <1>6, <1>7, <1>9, SumIsMonotone
<1>13. SumOf(v) <= SumOf(used) /\ SumOf(v) \in Int /\ SumOf(used) \in Int
       BY <1>5, <1>7, <1>10, SumIsMonotone
<1>14. SumOf(taken) <= SumOf(v) BY <1>5, <1>7, <1>9, SumIsMonotone
<1>15. SumOf(Spent) = SumOf(used) - SumOf(begun)
  <2>1. \A b \in Born : Before(b) = begun[b] BY <1>8 DEF Before
  <2>2. Spent = [b \in Born |-> used[b] - begun[b]] BY <1>10, <2>1 DEF Spent
  <2> QED BY <2>2, SumOfDifference
<1>16. SumOf(SinceBaseline) <= SumOf(v) - SumOf(taken)
  <2>1. PICK d \in [Born -> Int] : d = [b \in Born |-> v[b] - taken[b]]
    <3>1. [b \in Born |-> v[b] - taken[b]] \in [Born -> Int] BY <1>7
    <3> QED BY <3>1
  <2>2. SumOf(d) = SumOf(v) - SumOf(taken) BY <1>7, <2>1, SumOfDifference
  <2>3. \A b \in Born : SinceBaseline[b] <= d[b]
    <3> TAKE b \in Born
    <3>1. v[b] \in Nat /\ truth.taken[b] \in Nat /\ truth.taken[b] <= v[b] BY <1>4, <1>5, <1>7
    <3>2. d[b] = v[b] - truth.taken[b] BY <1>9, <2>1
    <3>3. d[b] \in Int /\ d[b] >= 0 BY <3>1, <3>2
    <3>4. CASE b \in DOMAIN summary.last.counters
      <4>1. /\ summary.last.counters[b] \in Nat /\ summary.last.counters[b] <= v[b]
            /\ SinceBaseline[b] = IF summary.last.counters[b] - truth.taken[b] >= 0
                                  THEN summary.last.counters[b] - truth.taken[b] ELSE 0
            BY <1>5, <3>4, BoundsTyped
      <4>2. PICK x \in Nat : x = summary.last.counters[b] BY <4>1
      <4>3. PICK y \in Nat : y = truth.taken[b] BY <3>1
      <4>4. PICK z \in Nat : z = v[b] BY <3>1
      <4>5. /\ x <= z /\ d[b] = z - y /\ d[b] \in Int /\ d[b] >= 0
            /\ SinceBaseline[b] = IF x - y >= 0 THEN x - y ELSE 0
            BY <3>2, <3>3, <4>1, <4>2, <4>3, <4>4
      <4>6. CASE x - y >= 0
        <5>1. SinceBaseline[b] = x - y BY <4>5, <4>6
        <5>2. x <= z BY <4>5
        <5>3. x - y <= z - y BY ONLY x \in Nat, y \in Nat, z \in Nat, <5>2
        <5> QED BY <4>5, <5>1, <5>3
      <4>7. CASE ~(x - y >= 0)
        <5>1. SinceBaseline[b] = 0 BY <4>5, <4>7
        <5> QED BY <4>5, <5>1
      <4> QED BY <4>6, <4>7
    <3>5. CASE b \notin DOMAIN summary.last.counters BY <3>3, <3>5 DEF SinceBaseline
    <3> QED BY <3>4, <3>5
  <2>4. SinceBaseline \in [Born -> Int] BY BoundsTyped
  <2> HIDE DEF SinceBaseline
  <2>5. SumOf(SinceBaseline) <= SumOf(d) BY <2>3, <2>4, SumIsMonotone
  <2> QED BY <2>2, <2>5
<1>17. SumOf(SinceBaseline) \in Int
  <2>1. SinceBaseline \in [Born -> Int] BY BoundsTyped
  <2> HIDE DEF SinceBaseline
  <2>2. \A b \in Born : SinceBaseline[b] <= SinceBaseline[b] BY <2>1
  <2> QED BY <2>1, <2>2, SumIsMonotone
<1>18. SumOf(v) - SumOf(w) \in Int BY <1>11, <1>13
<1>19. Max({0, SumOf(v) - SumOf(w)}) = SumOf(v) - SumOf(w)
  <2>1. SumOf(v) - SumOf(w) >= 0 BY <1>11, <1>12, <1>13, <1>14
  <2> QED BY <1>18, <2>1, Positive
<1> HIDE DEF Spent, SinceBaseline
<1>20. SumOf(v) - SumOf(w) <= SumOf(Spent) /\ SumOf(v) - SumOf(w) >= SumOf(SinceBaseline)
       BY <1>11, <1>12, <1>13, <1>14, <1>15, <1>16, <1>17
<1> QED BY <1>5, <1>6, <1>18, <1>19, <1>20

\* The CPU is within its bounds, whichever way it is computed.
LEMMA SummarizeCpuKeeps == ASSUME SamplerInv, SummarizeCpu PROVE SamplerInv'
<1> USE Constants
<1> DEFINE cpu == IF ByGroup THEN Max({0, summary.last.usage - First.usage}) ELSE TreeCpu
           flags == IF ByGroup THEN summary.flags
                    ELSE summary.flags \cup {"proc_tree_child_exit_loss_risk"}
<1>1. /\ main = "cpu" /\ main' = "counts"
      /\ summary' = [summary EXCEPT !.cpu = cpu, !.flags = flags]
      /\ UNCHANGED <<backend, group, proc, moves, faults, caps, samples, thread, stopSet, truth>>
      BY DEF SummarizeCpu, SummarizeStep, processes
<1>2. main \in Summing /\ main' \in Summing BY <1>1 DEF Summing
<1>3. /\ Summed /\ Typed /\ Closed /\ summary \in Summaries BY <1>2, SummingIs
<1>4. cpu \in Int /\ cpu <= SumOf(Spent) /\ cpu >= SumOf(SinceBaseline)
  <2>1. CASE ByGroup BY <1>2, <2>1, GroupCpuIs
  <2>2. CASE ~ByGroup BY <1>2, <2>2, TreeCpuIs
  <2> QED BY <2>1, <2>2
<1>5. flags \in SUBSET {"proc_tree_child_exit_loss_risk", "engine_root_exited",
                        "baseline_end_only"}
      BY <1>3 DEF Summaries
<1> HIDE DEF cpu, flags
<1>6. /\ summary' \in Summaries /\ summary'.peak = summary.peak /\ summary'.ends = summary.ends
      /\ summary'.last = summary.last /\ summary'.cpu = cpu
      BY <1>1, <1>3, <1>4, <1>5 DEF Summaries
<1>7. Summed'
  <2>1. \E k \in 2 .. Len(samples) : summary'.last = samples[k] BY <1>2, <1>3, <1>6 DEF Summed
  <2>2. CpuIsOfThisAttempt'
        BY <1>1, <1>4, <1>6
        DEF CpuIsOfThisAttempt, Spent, SinceBaseline, Before, ByGroup, First
  <2> QED BY <1>1, <1>2, <1>3, <1>6, <2>1, <2>2 DEF Summed, First, Measured
<1> QED BY <1>1, <1>2, <1>3, <1>6, <1>7, SummingIs, SummingKeeps

\* The engine begins with its root and perhaps a child of it, under two pids.
LEMMA InitIsSound == SamplerInit => SamplerInv
<1> USE Constants
<1> SUFFICES ASSUME SamplerInit PROVE SamplerInv OBVIOUS
<1>1. PICK p \in Pids, q \in Pids : p # q /\
          proc = [b \in Born |-> IF b = Root THEN Process(p, 0, 1)
                                 ELSE IF b = Root + 1 THEN Process(q, Root, 1) ELSE Unborn]
  <2> DEFINE p == CHOOSE pid \in Pids : TRUE
             q == CHOOSE pid \in Pids : pid # p
  <2>1. Cardinality(Pids) >= 2 BY SamplerAssumption DEF SamplerAssumption
  <2>2. Pids # {}
    <3> SUFFICES ASSUME Pids = {} PROVE FALSE OBVIOUS
    <3>1. Cardinality(Pids) = 0 BY FS_EmptySet
    <3> QED BY <2>1, <3>1
  <2>3. p \in Pids BY <2>2
  <2> HIDE DEF p
  <2>4. Pids # {p}
    <3> SUFFICES ASSUME Pids = {p} PROVE FALSE OBVIOUS
    <3>1. Cardinality(Pids) = 1 BY FS_Singleton
    <3> QED BY <2>1, <3>1
  <2>5. q \in Pids /\ q # p BY <2>3, <2>4
  <2>6. proc = [b \in Born |-> IF b = Root THEN Process(p, 0, 1)
                               ELSE IF b = Root + 1 THEN Process(q, Root, 1) ELSE Unborn]
        BY DEF SamplerInit, p
  <2> HIDE DEF q
  <2> QED BY <2>3, <2>5, <2>6
<1>2. 0 \in Cpu /\ 1 \in Cpu /\ Root \in 0 .. MaxBorn /\ 0 \in 0 .. MaxBorn BY DEF Cpu
<1>3. ASSUME NEW b \in Born
      PROVE  /\ proc[b] \in Processes
             /\ b = Root => /\ proc[b].state = "run" /\ proc[b].pid = p
                            /\ proc[b].parent = 0 /\ proc[b].cpu = 1
             /\ b = Root + 1 => /\ proc[b].state = "run" /\ proc[b].pid = q
                                /\ proc[b].parent = Root /\ proc[b].cpu = 1
             /\ b \notin {Root, Root + 1} => /\ proc[b].state = "unborn" /\ proc[b].parent = 0
                                             /\ proc[b].cpu = 0
  <2>1. Root # Root + 1 BY DEF Root
  <2>2. proc[b] = IF b = Root THEN Process(p, 0, 1)
                  ELSE IF b = Root + 1 THEN Process(q, Root, 1) ELSE Unborn
        BY <1>1
  <2>3. CASE b = Root
    <3>1. proc[b] = [state |-> "run", pid |-> p, parent |-> 0, cpu |-> 1]
          BY <2>2, <2>3 DEF Process
    <3> QED BY <1>2, <2>1, <2>3, <3>1 DEF Processes
  <2>4. CASE b = Root + 1
    <3>1. proc[b] = [state |-> "run", pid |-> q, parent |-> Root, cpu |-> 1]
          BY <2>1, <2>2, <2>4 DEF Process
    <3> QED BY <1>2, <2>1, <2>4, <3>1 DEF Processes
  <2>5. CASE b \notin {Root, Root + 1}
    <3>1. proc[b] = [state |-> "unborn", pid |-> None, parent |-> 0, cpu |-> 0]
          BY <2>2, <2>5 DEF Unborn
    <3> QED BY <1>2, <2>5, <3>1 DEF Processes
  <2> QED BY <2>3, <2>4, <2>5
<1>4. /\ backend \in {"proc", "ps"} /\ group \in {"none", "live"} /\ (backend = "ps" => group = "none")
      /\ moves = 0 /\ faults = 0 /\ samples = <<>> /\ main = "new" /\ thread = "none"
      /\ stopSet = FALSE /\ summary = NoSummary
      /\ caps = [t \in Threads |-> NoCapture]
      /\ truth = [begun |-> CpuNow, taken |-> CpuNow, missed |-> {}, late |-> FALSE]
      BY DEF SamplerInit, Threads
<1>5. /\ CpuNow \in [Born -> Cpu] /\ \A b \in Born : CpuNow[b] = proc[b].cpu
      BY <1>3 DEF CpuNow, Processes
<1>6. /\ truth.begun = CpuNow /\ truth.taken = CpuNow /\ truth.late = FALSE
      /\ truth \in Truths
      BY <1>4, <1>5 DEF Truths
<1>7. NoCapture \in Captures /\ Sound(NoCapture) /\ NoCapture.pc = "idle" /\ NoCapture.phase = None
      BY IdleIsSound DEF NoCapture
<1>8. NoSummary \in Summaries /\ NoSummary.peak = None /\ NoSummary.cpu = None
      BY DEF NoSummary, Summaries
<1> HIDE DEF NoCapture, NoSummary
<1>9. Typed
  <2>1. proc \in [Born -> Processes] BY <1>1, <1>3
  <2>2. caps \in [Threads -> Captures] BY <1>4, <1>7
  <2>3. samples \in Seq(SampleSet) BY <1>4
  <2>4. moves \in 0 .. MaxMoves /\ faults \in 0 .. MaxFaults BY <1>4
  <2>5. group \in {"none", "live", "removed"} /\ backend \in {"proc", "ps"} BY <1>4
  <2>6. stopSet \in BOOLEAN /\ summary \in Summaries /\ thread \in {"none", "runs", "ended"}
        BY <1>4, <1>8
  <2> QED BY <1>4, <1>6, <2>1, <2>2, <2>3, <2>4, <2>5, <2>6 DEF Typed
<1>10. Family
  <2>1. proc[Root].state # "unborn" /\ proc[Root].parent = 0 /\ RootPid \in Pids
        BY <1>1, <1>3 DEF RootPid
  <2>2. ASSUME NEW b \in Born
        PROVE  /\ Exists(b) => proc[b].pid \in Pids
               /\ proc[b].parent # b
               /\ proc[b].parent # 0 /\ Exists(b) => Runs(proc[b].parent)
               /\ proc[b].cpu <= moves + 1
               /\ proc[b].state = "unborn" => proc[b].cpu = 0
               /\ Old(b) => /\ proc[b].state # "unborn"
                            /\ proc[b].parent \in {0, Root}
                            /\ b # Root => proc[b].pid # RootPid
               /\ truth.begun[b] <= truth.taken[b] /\ truth.taken[b] <= proc[b].cpu
               /\ truth.begun[b] = proc[b].cpu /\ (Exists(b) => Runs(b))
    <3>1. truth.begun[b] = proc[b].cpu /\ truth.taken[b] = proc[b].cpu /\ proc[b].cpu \in Nat
          BY <1>5, <1>6 DEF Cpu
    <3>2. proc[Root].pid = p /\ proc[Root].state = "run" BY <1>3
    <3>3. CASE b = Root BY <1>1, <1>3, <1>4, <3>1, <3>2, <3>3 DEF Runs, Root
    <3>4. CASE b = Root + 1
      <4>1. /\ proc[b].state = "run" /\ proc[b].pid = q /\ proc[b].parent = Root
            /\ proc[b].cpu = 1
            BY <1>3, <3>4
      <4>2. q # p /\ RootPid = p /\ Root # b BY <1>1, <3>2, <3>4 DEF RootPid, Root
      <4>3. Runs(b) /\ Runs(proc[b].parent) BY <3>2, <4>1 DEF Runs
      <4> QED BY <1>4, <3>1, <4>1, <4>2, <4>3
    <3>5. CASE b \notin {Root, Root + 1} BY <1>3, <1>4, <3>1, <3>5 DEF Exists, Old
    <3> QED BY <3>3, <3>4, <3>5
  <2>3. ASSUME NEW b \in Born, NEW d \in Born, Exists(b), Exists(d), proc[b].pid = proc[d].pid
        PROVE  b = d
    <3>1. b \in {Root, Root + 1} /\ d \in {Root, Root + 1} BY <1>3, <2>3 DEF Exists
    <3>2. \A k \in Born : /\ k = Root => proc[k].pid = p
                          /\ k = Root + 1 => proc[k].pid = q
          BY <1>3
    <3>3. p # q BY <1>1
    <3> QED BY <2>3, <3>1, <3>2, <3>3
  <2> QED BY <1>4, <2>1, <2>2, <2>3 DEF Family
<1>11. Ordered BY <1>4, <1>6, <1>7 DEF Ordered, Summing, Threads
<1>12. Joined BY <1>4 DEF Joined, Closed, Summing
<1>13. Summed BY <1>4, <1>8 DEF Summed, CpuIsOfThisAttempt, Summing
<1>14. \A t \in Threads : Sound(caps[t]) BY <1>4, <1>7
<1>15. \A n \in DOMAIN samples : Metered(n) BY <1>4
<1> QED BY <1>9, <1>10, <1>11, <1>12, <1>13, <1>14, <1>15 DEF SamplerInv

\* Every step keeps the invariant.
LEMMA SamplerNextKeeps == SamplerInv /\ [SamplerNext]_samplerVars => SamplerInv'
<1> SUFFICES ASSUME SamplerInv, [SamplerNext]_samplerVars PROVE SamplerInv' OBVIOUS
<1>1. CASE Caller
  <2>1. "main" \in Threads BY DEF Threads
  <2> QED BY <1>1, <2>1, StartKeeps, StartThreadKeeps, CaptureRaisedKeeps, StopKeeps, JoinKeeps,
             SummarizeEndsKeeps, SummarizeValuesKeeps, SummarizePeakKeeps, SummarizeCpuKeeps,
             SummarizeCountsKeeps, SamplesReturnedKeeps, CapturesKeep DEF Caller, Summarize
<1>2. CASE Thread
  <2>1. "thread" \in Threads BY DEF Threads
  <2> QED BY <1>2, <2>1, RoundKeeps, ThreadEndsKeeps, CapturesKeep DEF Thread
<1>3. CASE EngineStep BY <1>3, EngineKeeps
<1>4. CASE UNCHANGED samplerVars
  <2>1. /\ Typed /\ Family /\ Ordered /\ Joined /\ Summed
        /\ UNCHANGED <<backend, group, proc, moves, faults, caps, samples, main, thread,
                       stopSet, summary, truth>>
        BY <1>4 DEF SamplerInv, samplerVars
  <2>2. Typed' BY <2>1 DEF Typed
  <2>3. Family' BY <2>1 DEF Family, Exists, Runs, Old, RootPid
  <2>4. Moved
    <3>1. \A b \in Born : proc[b].cpu \in Nat BY <2>1, Constants DEF Typed, Processes, Cpu
    <3> QED BY <2>1, <3>1 DEF Moved, Exists, Runs
  <2> QED BY <2>1, <2>2, <2>3, <2>4, MovedKeeps DEF control
<1> QED BY <1>1, <1>2, <1>3, <1>4 DEF SamplerNext

\* The invariant holds for any engine, any pids, any number of steps, samples and reads that
\* fail (EngineProcessSampler).
THEOREM SamplerInvariance == SamplerSpec => []SamplerInv
<1>1. SamplerInit => SamplerInv BY InitIsSound
<1>2. SamplerInv /\ [SamplerNext]_samplerVars => SamplerInv' BY SamplerNextKeeps
<1> QED BY <1>1, <1>2, PTL DEF SamplerSpec

\* A memory that is reported misses nobody who was listed, or in the tree, from the beginning of
\* the scan to its end, but whose stat or whose name in a list of children a read has missed and
\* who is below such a process; and a peak is at least the memory of the first sample and of the
\* one the summary ends with (read_process_tree, process_tree_snapshot, _summarize).
THEOREM PeakWhole == SamplerSpec => []PeakIsWhole
<1>1. SamplerInv => PeakIsWhole
  <2> SUFFICES ASSUME SamplerInv PROVE PeakIsWhole OBVIOUS
  <2>1. Typed /\ Summed /\ \A n \in DOMAIN samples : Metered(n) BY DEF SamplerInv
  <2>2. SamplerTypeOK
    <3>1. ASSUME NEW b \in Born
          PROVE  /\ proc[b].state \in {"unborn", "run", "zombie", "gone"}
                 /\ proc[b].pid \in Pids \cup {None}
                 /\ proc[b].parent \in 0 .. MaxBorn /\ proc[b].cpu \in 0 .. MaxMoves + 1
      <4>1. proc[b] \in Processes BY <2>1 DEF Typed
      <4> QED BY <4>1 DEF Processes, Cpu
    <3>2. DOMAIN caps = Threads BY <2>1 DEF Typed
    <3>3. ASSUME NEW t \in Threads
          PROVE  /\ caps[t].pc \in {"idle", "scan", "children", "read", "judge", "append",
                                  "raised"}
                 /\ caps[t].todo \cup caps[t].seen \subseteq Pids
                 /\ caps[t].memory \subseteq Born
      <4>1. caps[t] \in Captures BY <2>1 DEF Typed
      <4> QED BY <4>1 DEF Captures
    <3> QED BY <2>1, <3>1, <3>2, <3>3 DEF Typed, SamplerTypeOK, Summing
  <2> QED BY <2>1, <2>2 DEF PeakIsWhole, Summed, Metered
<1> QED BY <1>1, SamplerInvariance, PTL

\* The CPU an attempt is charged was all used after its baseline was begun, but for that of the
\* processes a read of the baseline missed when no group meters them, and is not less than what
\* the processes of the last sample used since the baseline was taken
\* (read_process_tree, _summarize, ProcStat.identity).
THEOREM CpuCharged == SamplerSpec => []CpuIsOfThisAttempt
<1>1. SamplerInv => CpuIsOfThisAttempt BY DEF SamplerInv, Summed
<1> QED BY <1>1, SamplerInvariance, PTL

\* Unless the join timed out, the summary and the rows are of one list from the baseline to
\* the sample stop took (EngineProcessSampler.stop, _summarize).
THEOREM EndsProperly == SamplerSpec => []EndsWithTheEnd
<1>1. SamplerInv => EndsWithTheEnd
  <2> SUFFICES ASSUME SamplerInv, main \in Summing, ~truth.late
               PROVE  /\ First.phase = "baseline" /\ Latest.phase = "end"
                      /\ \A i \in 2 .. Len(samples) - 1 : samples[i].phase = "sample"
                      /\ summary.last = Latest
                      /\ main = "done" => summary.seen = Len(samples) /\ summary.rows = Len(samples)
      BY DEF EndsWithTheEnd, Summing
  <2>1. Joined /\ Ordered /\ Closed BY DEF SamplerInv, Closed
  <2>2. samples # <<>> BY <2>1 DEF Ordered, Summing
  <2> QED BY <2>1, <2>2 DEF Joined, Ordered
<1> QED BY <1>1, SamplerInvariance, PTL
=============================================================================
