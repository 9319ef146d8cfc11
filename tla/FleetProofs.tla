----------------------------- MODULE FleetProofs ------------------------------
(***************************************************************************)
(* Proofs about Fleet, for every set of tests and workers.                 *)
(***************************************************************************)
EXTENDS Fleet, TLAPS

\* A test that was never distributed is known to nobody, and only workers that
\* were given a test report on it.
WordsOfAssigned ==
  \A t \in Tests : /\ done[t] \subseteq assigned[t]
                   /\ status[t] = "NONE" => t \notin completing /\ assigned[t] = {}

WordInv == TypeOK /\ WordsOfAssigned /\ CompletedOnEveryWord

\* A call that is on its way has not arrived, and only workers that were given a
\* test have it.
CallsInv ==
  \A w \in Workers, t \in Tests :
    /\ <<w, t>> \in runCalls => engine[w][t] = "none"
    /\ w \notin assigned[t] => engine[w][t] = "none" /\ <<w, t>> \notin runCalls

\* Nothing says that a test has ended on w before it has: not the orchestrator's
\* books, not a batch, not the keep-alive, not the engine's flag.
EndIsTrue(w) ==
  /\ \A t \in Tests : w \in done[t] => Past(w, t)
  /\ \A b \in reports : b.from = w /\ b.test \in Tests /\ ~b.active => Past(w, b.test)
  /\ \A t \in Tests :
       alive[w].read /\ alive[w].test = t /\ ~alive[w].active => Past(w, t)
  /\ \A t \in Tests : cur[w] = t /\ ~active[w] => Past(w, t)

\* The engine and the reporter of w are on the test it executes.
OnTheTest(w) ==
  /\ active[w] => \E t \in Tests : cur[w] = t /\ Executing(w, t)
  /\ \A t \in Tests :
       /\ Executing(w, t) => cur[w] = t /\ active[w]
       /\ engine[w][t] \in {"running", "ending", "final"} => repTest[w] = t

OneTest(w) == \A s, t \in Tests : Has(w, s) /\ Has(w, t) => s = t

Alone(w) == OneTest(w) /\ EndIsTrue(w) /\ OnTheTest(w)

FleetInv == WordInv /\ CallsInv /\ \A w \in Workers \ crowded : Alone(w)
-----------------------------------------------------------------------------
LEMMA BatchType ==
  ASSUME NEW w \in Workers, NEW t \in TestIds, NEW a \in BOOLEAN
  PROVE  Batch(w, t, a) \in Batches
BY DEF Batch, Batches

LEMMA ExecuteType ==
  ASSUME TypeOK, NEW w \in Workers, NEW t \in Tests, Execute(w, t)
  PROVE  TypeOK'
<1> USE DEF TypeOK, orchVars, callVars, reportVars, Step, EnginePC, TestIds
<1>1. CASE Enter(w, t)         BY <1>1 DEF Enter
<1>2. CASE StartReporter(w, t) BY <1>2 DEF StartReporter
<1>3. CASE EndStages(w, t)     BY <1>3 DEF EndStages
<1>4. CASE ClearActive(w, t)   BY <1>4 DEF ClearActive
<1>5. CASE StopReporter(w, t)
  <2>1. Batch(w, repTest[w], FALSE) \in Batches
    BY BatchType
  <2> QED
    BY <1>5, <2>1 DEF StopReporter
<1> QED
  BY <1>1, <1>2, <1>3, <1>4, <1>5 DEF Execute

LEMMA CallType ==
  ASSUME TypeOK, NEW w \in Workers, NEW t \in Tests,
         \/ RunTest(w, t) \/ LoseRunTest(w, t)
         \/ WorkerStopTest(w, t) \/ LoseStopTest(w, t)
  PROVE  TypeOK'
<1> USE DEF TypeOK, orchVars, engineVars, reportVars, EnginePC
<1>1. CASE RunTest(w, t)      BY <1>1 DEF RunTest
<1>2. CASE LoseRunTest(w, t)  BY <1>2 DEF LoseRunTest
<1>3. CASE WorkerStopTest(w, t)
  <2>1. cur[w] # NoTest => cur[w] \in Tests
    BY DEF TestIds
  <2>2. cancelled' \in SUBSET (Workers \X Tests)
    BY <1>3, <2>1 DEF WorkerStopTest, AbortCurrent
  <2> QED
    BY <1>3, <2>2 DEF WorkerStopTest, AbortCurrent
<1>4. CASE LoseStopTest(w, t) BY <1>4 DEF LoseStopTest
<1> QED
  BY <1>1, <1>2, <1>3, <1>4

LEMMA ReportType ==
  ASSUME TypeOK, NEW w \in Workers,
         ReportLoop(w) \/ ReadCurrentTest(w) \/ SendKeepAlive(w)
  PROVE  TypeOK'
<1> USE DEF TypeOK, orchVars, callVars, engineVars, reportVars
<1>1. CASE ReportLoop(w)
  <2>1. Batch(w, repTest[w], TRUE) \in Batches
    BY BatchType
  <2> QED
    BY <1>1, <2>1 DEF ReportLoop
<1>2. CASE ReadCurrentTest(w)  BY <1>2 DEF ReadCurrentTest
<1>3. CASE SendKeepAlive(w)
  <2>1. Batch(w, alive[w].test, alive[w].active) \in Batches
    BY BatchType
  <2> QED
    BY <1>3, <2>1 DEF SendKeepAlive, NotReading, TestIds
<1> QED
  BY <1>1, <1>2, <1>3

LEMMA OrchestratorType ==
  ASSUME TypeOK,
         \/ \E t \in Tests : \/ \E ws \in SUBSET Workers : Distribute(t, ws)
                             \/ SetCompleted(t) \/ StopTest(t) \/ SetStopped(t)
         \/ \E b \in Batches : ReportMetrics(b) \/ LoseReport(b)
  PROVE  TypeOK'
<1> USE DEF TypeOK, Status, callVars, engineVars, reportVars
<1>1. ASSUME NEW t \in Tests, NEW ws \in SUBSET Workers, Distribute(t, ws) PROVE TypeOK'
  BY <1>1 DEF Distribute
<1>2. ASSUME NEW t \in Tests, SetCompleted(t) PROVE TypeOK'
  BY <1>2 DEF SetCompleted
<1>3. ASSUME NEW t \in Tests, StopTest(t) PROVE TypeOK'
  BY <1>3 DEF StopTest
<1>4. ASSUME NEW t \in Tests, SetStopped(t) PROVE TypeOK'
  BY <1>4 DEF SetStopped
<1>5. ASSUME NEW b \in Batches, ReportMetrics(b) PROVE TypeOK'
  <2>1. b.from \in Workers /\ (b.test \in Tests => assigned[b.test] \subseteq Workers)
    BY DEF Batches
  <2>2. node' \in [Workers -> {"idle", "running"}] /\ reports' \in SUBSET Batches
    BY <1>5 DEF ReportMetrics
  <2>3. done' \in [Tests -> SUBSET Workers] /\ completing' \in SUBSET Tests
    BY <1>5, <2>1 DEF ReportMetrics
  <2> QED
    BY <1>5, <2>2, <2>3 DEF ReportMetrics
<1>6. ASSUME NEW b \in Batches, LoseReport(b) PROVE TypeOK'
  BY <1>6 DEF LoseReport, orchVars
<1> QED
  BY <1>1, <1>2, <1>3, <1>4, <1>5, <1>6

LEMMA TypeStep == TypeOK /\ [Next]_vars => TypeOK'
<1> SUFFICES ASSUME TypeOK, [Next]_vars PROVE TypeOK'
  OBVIOUS
<1>1. CASE Next
  BY <1>1, ExecuteType, CallType, ReportType, OrchestratorType DEF Next
<1>2. CASE UNCHANGED vars
  BY <1>2 DEF vars, orchVars, callVars, engineVars, reportVars, TypeOK
<1> QED
  BY <1>1, <1>2

LEMMA InitType == Init => TypeOK
BY DEF Init, TypeOK, Status, EnginePC, TestIds, NotReading

-----------------------------------------------------------------------------
(***************************************************************************)
(* Completion takes the word of every worker, whatever happens.            *)
(***************************************************************************)
LEMMA WordStep == WordInv /\ [Next]_vars => WordInv'
<1> SUFFICES ASSUME WordInv, [Next]_vars PROVE WordInv'
  OBVIOUS
<1>t. TypeOK'
  BY TypeStep DEF WordInv
<1> USE DEF WordInv, TypeOK, WordsOfAssigned, CompletedOnEveryWord
<1>1. ASSUME NEW t \in Tests, NEW ws \in SUBSET Workers, Distribute(t, ws) PROVE WordInv'
  BY <1>t, <1>1 DEF Distribute
<1>2. ASSUME NEW t \in Tests, SetCompleted(t) PROVE WordInv'
  BY <1>t, <1>2 DEF SetCompleted
<1>3. ASSUME NEW t \in Tests, StopTest(t) PROVE WordInv'
  BY <1>t, <1>3 DEF StopTest
<1>4. ASSUME NEW t \in Tests, SetStopped(t) PROVE WordInv'
  BY <1>t, <1>4 DEF SetStopped
<1>5. ASSUME NEW b \in Batches, ReportMetrics(b) PROVE WordInv'
  <2>1. CASE b.test \in Tests /\ ~b.active
    <3>1. done' = [done EXCEPT ![b.test] = IF b.from \in assigned[b.test]
                                             THEN @ \cup {b.from} ELSE @]
      BY <1>5, <2>1 DEF ReportMetrics
    <3>2. done'[b.test] \subseteq assigned[b.test] /\ done[b.test] \subseteq done'[b.test]
      BY <2>1, <3>1
    <3>3. LastWorkerDone(b.test, b.from) =>
            status[b.test] # "NONE" /\ done'[b.test] = assigned[b.test]
      BY <2>1, <3>1, <3>2 DEF LastWorkerDone
    <3>4. assigned' = assigned /\ status' = status
      BY <1>5 DEF ReportMetrics
    <3>5. completing' = IF LastWorkerDone(b.test, b.from)
                          THEN completing \cup {b.test} ELSE completing
      BY <1>5, <2>1 DEF ReportMetrics
    <3>6. \A t \in Tests : t # b.test => done'[t] = done[t]
      BY <2>1, <3>1
    <3>7. WordsOfAssigned'
      BY <3>2, <3>3, <3>4, <3>5, <3>6
    <3>8. done[b.test] = assigned[b.test] => done'[b.test] = assigned[b.test]
      BY <3>2
    <3>9. CompletedOnEveryWord'
      BY <3>3, <3>4, <3>5, <3>6, <3>8
    <3> QED
      BY <1>t, <3>7, <3>9
  <2>2. CASE ~(b.test \in Tests /\ ~b.active)
    BY <1>t, <1>5, <2>2 DEF ReportMetrics
  <2> QED
    BY <2>1, <2>2
<1>6. CASE UNCHANGED <<status, assigned, done, completing>>
  BY <1>t, <1>6
<1>7. CASE \E b \in Batches : LoseReport(b)
  BY <1>6, <1>7 DEF LoseReport, orchVars
<1>8. CASE \E w \in Workers, t \in Tests :
             RunTest(w, t) \/ LoseRunTest(w, t) \/ WorkerStopTest(w, t) \/ LoseStopTest(w, t)
  BY <1>6, <1>8 DEF RunTest, LoseRunTest, WorkerStopTest, AbortCurrent, LoseStopTest, orchVars
<1>9. CASE \E w \in Workers, t \in Tests : Execute(w, t)
  BY <1>6, <1>9
     DEF Execute, Enter, StartReporter, EndStages, ClearActive, StopReporter, orchVars
<1>10. CASE \E w \in Workers : ReportLoop(w) \/ ReadCurrentTest(w) \/ SendKeepAlive(w)
  BY <1>6, <1>10 DEF ReportLoop, ReadCurrentTest, SendKeepAlive, orchVars
<1>11. CASE UNCHANGED vars
  BY <1>6, <1>11 DEF vars, orchVars
<1> QED
  BY <1>1, <1>2, <1>3, <1>4, <1>5, <1>7, <1>8, <1>9, <1>10, <1>11 DEF Next

LEMMA InitWord == Init => WordInv
BY InitType DEF WordInv, Init, WordsOfAssigned, CompletedOnEveryWord

LEMMA WordInvariant == Spec => []WordInv
BY InitWord, WordStep, PTL DEF Spec

\* Every step of every component keeps every variable in its type, whatever
\* clients, network and scheduler do.
THEOREM TypeCorrect == Spec => []TypeOK
<1>1. WordInv => TypeOK
  BY DEF WordInv
<1> QED
  BY <1>1, WordInvariant, PTL

\* ReportMetrics and MarkWorkerDone complete a test only when each of its
\* workers has reported, whatever is overlapped, stopped, lost or reordered.
THEOREM CompletionNeedsEveryWorker == Spec => []CompletedOnEveryWord
<1>1. WordInv => CompletedOnEveryWord
  BY DEF WordInv
<1> QED
  BY <1>1, WordInvariant, PTL
-----------------------------------------------------------------------------
(***************************************************************************)
(* A worker that is given one test at a time tells the truth about it.     *)
(***************************************************************************)
\* Nothing about v has changed, unless a call to it or a batch of it was lost.
SameWorker(v) ==
  /\ engine'[v] = engine[v] /\ cur'[v] = cur[v] /\ active'[v] = active[v]
  /\ repTest'[v] = repTest[v] /\ alive'[v] = alive[v]
  /\ \A t \in Tests : <<v, t>> \in runCalls' => <<v, t>> \in runCalls
  /\ \A t \in Tests : v \in done'[t] => v \in done[t] \/ Past(v, t)
  /\ \A b \in reports' : b.from = v => b \in reports \/ b.active

LEMMA Frame ==
  ASSUME NEW v \in Workers, Alone(v), SameWorker(v)
  PROVE  Alone(v)'
<1>1. OneTest(v)'
  BY DEF Alone, OneTest, Has, SameWorker
<1>2. EndIsTrue(v)'
  BY DEF Alone, EndIsTrue, Past, SameWorker
<1>3. OnTheTest(v)'
  BY DEF Alone, OnTheTest, Executing, SameWorker
<1> QED
  BY <1>1, <1>2, <1>3 DEF Alone

\* A worker has no other test than the one it executes.
LEMMA NoOther ==
  ASSUME NEW w \in Workers, Alone(w), NEW t \in Tests,
         engine[w][t] \in {"spawned", "entered", "running", "ending", "final"}
  PROVE  \A s \in Tests : s # t => engine[w][s] \in {"none", "finished"} /\ <<w, s>> \notin runCalls
BY DEF Alone, OneTest, Has

LEMMA ExecuteSteps ==
  ASSUME TypeOK, NEW w \in Workers, NEW t \in Tests, Execute(w, t)
  PROVE  /\ engine[w][t] \in {"spawned", "entered", "running", "ending", "final"}
         /\ engine'[w][t] \in {"entered", "running", "ending", "final", "finished"}
         /\ engine[w][t] = "final" => engine'[w][t] = "finished"
         /\ \A v \in Workers, s \in Tests : v # w \/ s # t => engine'[v][s] = engine[v][s]
         /\ UNCHANGED <<orchVars, callVars, alive>>
<1>1. \/ Step(w, t, "spawned", "entered") \/ Step(w, t, "entered", "running")
      \/ Step(w, t, "running", "ending") \/ Step(w, t, "ending", "final")
      \/ Step(w, t, "final", "finished")
  BY DEF Execute, Enter, StartReporter, EndStages, ClearActive, StopReporter
<1>2. UNCHANGED <<orchVars, callVars, alive>>
  BY DEF Execute, Enter, StartReporter, EndStages, ClearActive, StopReporter, reportVars
<1> QED
  BY <1>1, <1>2 DEF Step, TypeOK

LEMMA ExecuteAlone ==
  ASSUME TypeOK, NEW w \in Workers, NEW t \in Tests, Execute(w, t), Alone(w)
  PROVE  Alone(w)'
<1>0. /\ engine \in [Workers -> [Tests -> EnginePC]] /\ cur \in [Workers -> TestIds]
      /\ active \in [Workers -> BOOLEAN] /\ repTest \in [Workers -> TestIds]
      /\ repLoop \in [Workers -> BOOLEAN]
  BY DEF TypeOK
<1>1. /\ engine[w][t] \in {"spawned", "entered", "running", "ending", "final"}
      /\ engine'[w][t] \in {"entered", "running", "ending", "final", "finished"}
      /\ engine[w][t] = "final" => engine'[w][t] = "finished"
      /\ \A s \in Tests : s # t => engine'[w][s] = engine[w][s]
      /\ UNCHANGED <<done, runCalls, alive>>
  BY ExecuteSteps DEF orchVars, callVars
<1>2. \A s \in Tests : s # t => engine[w][s] \in {"none", "finished"} /\ <<w, s>> \notin runCalls
  BY <1>1, NoOther
<1>3. OneTest(w)'
  BY <1>1, <1>2 DEF OneTest, Has
<1>4. \A s \in Tests : Past(w, s) => Past(w, s)'
  BY <1>1 DEF Past
<1>5. \A s \in Tests : s # t => ~Executing(w, s)'
                                /\ engine'[w][s] \notin {"running", "ending", "final"}
  BY <1>1, <1>2 DEF Executing
<1>6. ASSUME \A b \in reports' : b.from = w /\ b.test \in Tests /\ ~b.active
                                   => b \in reports \/ Past(w, b.test)',
             \A s \in Tests : cur'[w] = s /\ ~active'[w] => Past(w, s)'
      PROVE  EndIsTrue(w)'
  BY <1>1, <1>4, <1>6 DEF Alone, EndIsTrue
<1>7. CASE Enter(w, t)
  <2>1. /\ engine'[w][t] = "entered" /\ cur'[w] = t /\ active'[w] = TRUE
        /\ UNCHANGED <<reports, repTest>>
    BY <1>0, <1>7 DEF Enter, Step, reportVars
  <2>2. EndIsTrue(w)'
    BY <1>6, <2>1
  <2>3. OnTheTest(w)'
    BY <1>5, <2>1 DEF OnTheTest, Executing
  <2> QED
    BY <1>3, <2>2, <2>3 DEF Alone
<1>8. CASE StartReporter(w, t)
  <2>1. /\ engine[w][t] = "entered" /\ engine'[w][t] = "running" /\ repTest'[w] = t
        /\ UNCHANGED <<reports, cur, active>>
    BY <1>0, <1>8 DEF StartReporter, Step
  <2>2. EndIsTrue(w)'
    BY <1>4, <1>6, <2>1 DEF Alone, EndIsTrue
  <2>3. cur[w] = t /\ active[w]
    BY <2>1 DEF Alone, OnTheTest, Executing
  <2>4. OnTheTest(w)'
    BY <1>5, <2>1, <2>3 DEF OnTheTest, Executing
  <2> QED
    BY <1>3, <2>2, <2>4 DEF Alone
<1>9. CASE EndStages(w, t)
  <2>1. /\ engine[w][t] = "running" /\ engine'[w][t] = "ending"
        /\ UNCHANGED <<reports, cur, active, repTest>>
    BY <1>0, <1>9 DEF EndStages, Step, reportVars
  <2>2. EndIsTrue(w)'
    BY <1>4, <1>6, <2>1 DEF Alone, EndIsTrue
  <2>3. cur[w] = t /\ active[w] /\ repTest[w] = t
    BY <2>1 DEF Alone, OnTheTest, Executing
  <2>4. OnTheTest(w)'
    BY <1>5, <2>1, <2>3 DEF OnTheTest, Executing
  <2> QED
    BY <1>3, <2>2, <2>4 DEF Alone
<1>10. CASE ClearActive(w, t)
  <2>1. /\ engine[w][t] = "ending" /\ engine'[w][t] = "final" /\ active'[w] = FALSE
        /\ UNCHANGED <<reports, cur, repTest>>
    BY <1>0, <1>10 DEF ClearActive, Step, reportVars
  <2>2. cur[w] = t /\ repTest[w] = t
    BY <2>1 DEF Alone, OnTheTest, Executing
  <2>3. Past(w, t)'
    BY <2>1 DEF Past
  <2>4. EndIsTrue(w)'
    BY <1>6, <2>1, <2>2, <2>3
  <2>5. OnTheTest(w)'
    BY <1>5, <2>1, <2>2 DEF OnTheTest, Executing
  <2> QED
    BY <1>3, <2>4, <2>5 DEF Alone
<1>11. CASE StopReporter(w, t)
  <2>1. /\ engine[w][t] = "final" /\ engine'[w][t] = "finished"
        /\ reports' = reports \cup {Batch(w, repTest[w], FALSE)}
        /\ UNCHANGED <<cur, active, repTest>>
    BY <1>0, <1>11 DEF StopReporter, Step
  <2>2. repTest[w] = t
    BY <2>1 DEF Alone, OnTheTest
  <2>3. Past(w, t)'
    BY <2>1 DEF Past
  <2>4. \A b \in reports' : b \in reports \/ b.test = t
    BY <2>1, <2>2 DEF Batch
  <2>5. EndIsTrue(w)'
    BY <1>4, <1>6, <2>1, <2>3, <2>4 DEF Alone, EndIsTrue
  <2>6. OnTheTest(w)'
    <3>1. \A s \in Tests : Executing(w, s)' <=> Executing(w, s)
      BY <1>1, <2>1 DEF Executing
    <3> QED
      BY <1>5, <2>1, <3>1 DEF Alone, OnTheTest
  <2> QED
    BY <1>3, <2>5, <2>6 DEF Alone
<1> QED
  BY <1>7, <1>8, <1>9, <1>10, <1>11 DEF Execute

LEMMA ReporterAlone ==
  ASSUME TypeOK, NEW w \in Workers, Alone(w),
         ReportLoop(w) \/ ReadCurrentTest(w) \/ SendKeepAlive(w)
  PROVE  Alone(w)'
<1>0. alive \in [Workers -> [read : BOOLEAN, test : TestIds, active : BOOLEAN]]
  BY DEF TypeOK
<1>1. UNCHANGED <<orchVars, callVars, engineVars, repTest>>
  BY DEF ReportLoop, ReadCurrentTest, SendKeepAlive, reportVars
<1>2. OneTest(w)' /\ OnTheTest(w)'
  BY <1>1 DEF Alone, OneTest, OnTheTest, Has, Executing, orchVars, callVars, engineVars
<1>3. \A b \in reports' : b.from = w /\ b.test \in Tests /\ ~b.active => Past(w, b.test)
  <2>1. CASE ReportLoop(w)
    <3>1. \A b \in reports' : b \in reports \/ b.active
      BY <2>1 DEF ReportLoop, Batch
    <3> QED
      BY <3>1 DEF Alone, EndIsTrue
  <2>2. CASE ReadCurrentTest(w)
    BY <2>2 DEF ReadCurrentTest, Alone, EndIsTrue
  <2>3. CASE SendKeepAlive(w)
    <3>1. \A b \in reports' : b \in reports \/ b = Batch(w, alive[w].test, alive[w].active)
      BY <2>3 DEF SendKeepAlive
    <3>2. alive[w].read
      BY <2>3 DEF SendKeepAlive
    <3>3. ASSUME NEW b \in reports', b.test \in Tests, ~b.active,
                 b = Batch(w, alive[w].test, alive[w].active)
          PROVE  Past(w, b.test)
      <4>1. b.test = alive[w].test /\ ~alive[w].active
        BY <3>3 DEF Batch
      <4> QED
        BY <3>2, <3>3, <4>1 DEF Alone, EndIsTrue
    <3> QED
      BY <3>1, <3>3 DEF Alone, EndIsTrue
  <2> QED
    BY <2>1, <2>2, <2>3
<1>4. \A t \in Tests : alive'[w].read /\ alive'[w].test = t /\ ~alive'[w].active => Past(w, t)
  <2>1. CASE ReportLoop(w)
    BY <2>1 DEF ReportLoop, reportVars, Alone, EndIsTrue
  <2>2. CASE ReadCurrentTest(w)
    BY <1>0, <2>2 DEF ReadCurrentTest, Alone, EndIsTrue
  <2>3. CASE SendKeepAlive(w)
    BY <1>0, <2>3 DEF SendKeepAlive, NotReading
  <2> QED
    BY <2>1, <2>2, <2>3
<1>5. EndIsTrue(w)'
  BY <1>1, <1>3, <1>4 DEF Alone, EndIsTrue, Past, orchVars, engineVars
<1> QED
  BY <1>2, <1>5 DEF Alone

LEMMA RunTestAlone ==
  ASSUME TypeOK, CallsInv, NEW w \in Workers, NEW t \in Tests, RunTest(w, t), Alone(w)
  PROVE  Alone(w)'
<1>1. /\ engine[w][t] = "none" /\ engine'[w][t] = "spawned" /\ <<w, t>> \in runCalls
      /\ \A s \in Tests : s # t => engine'[w][s] = engine[w][s]
      /\ runCalls' \subseteq runCalls
      /\ UNCHANGED <<done, reports, alive, cur, active, repTest>>
  BY DEF RunTest, CallsInv, TypeOK, orchVars, reportVars
<1>2. OneTest(w)'
  <2>1. \A s \in Tests : Has(w, s)' => Has(w, s)
    BY <1>1 DEF Has
  <2> QED
    BY <2>1 DEF Alone, OneTest
<1>3. \A s \in Tests : Past(w, s)' <=> Past(w, s)
  BY <1>1 DEF Past
<1>4. \A s \in Tests : Executing(w, s)' <=> Executing(w, s)
  BY <1>1 DEF Executing
<1>5. EndIsTrue(w)'
  BY <1>1, <1>3 DEF Alone, EndIsTrue
<1>6. OnTheTest(w)'
  BY <1>1, <1>4 DEF Alone, OnTheTest
<1> QED
  BY <1>2, <1>5, <1>6 DEF Alone

LEMMA DistributeAlone ==
  ASSUME WordInv, CallsInv, NEW t \in Tests, NEW ws \in SUBSET Workers, Distribute(t, ws),
         NEW v \in Workers \ crowded', Alone(v)
  PROVE  Alone(v)'
<1>0. runCalls \subseteq Workers \X Tests /\ done \in [Tests -> SUBSET Workers]
  BY DEF WordInv, TypeOK
<1>1. /\ runCalls' = runCalls \cup (ws \X {t}) /\ done' = [done EXCEPT ![t] = {}]
      /\ crowded' = crowded \cup {w \in ws : \E s \in Tests : Has(w, s)}
      /\ UNCHANGED <<reports, engine, cur, active, repTest, alive>>
  BY DEF Distribute, engineVars, reportVars
<1>2. CASE v \in ws
  <2>1. \A s \in Tests : ~Has(v, s)
    BY <1>1, <1>2
  <2>2. \A s \in Tests : Has(v, s)' => s = t
    BY <1>0, <1>1, <2>1 DEF Has
  <2>3. OneTest(v)'
    BY <2>2 DEF OneTest
  <2>4. EndIsTrue(v)'
    BY <1>0, <1>1 DEF Alone, EndIsTrue, Past
  <2>5. OnTheTest(v)'
    BY <1>1 DEF Alone, OnTheTest, Executing
  <2> QED
    BY <2>3, <2>4, <2>5 DEF Alone
<1>3. CASE v \notin ws
  <2>1. SameWorker(v)
    BY <1>0, <1>1, <1>3 DEF SameWorker
  <2> QED
    BY <2>1, Frame
<1> QED
  BY <1>2, <1>3

LEMMA ReportMetricsAlone ==
  ASSUME TypeOK, NEW b \in Batches, ReportMetrics(b), NEW v \in Workers, Alone(v)
  PROVE  Alone(v)'
<1>1. /\ b \in reports /\ reports' \subseteq reports
      /\ UNCHANGED <<runCalls, engine, cur, active, repTest, alive>>
  BY DEF ReportMetrics, callVars, engineVars, reportVars
<1>2. ASSUME NEW t \in Tests, v \in done'[t] PROVE v \in done[t] \/ Past(v, t)
  <2>1. CASE b.test \in Tests /\ ~b.active
    <3>1. done' = [done EXCEPT ![b.test] = IF b.from \in assigned[b.test]
                                             THEN @ \cup {b.from} ELSE @]
      BY <2>1 DEF ReportMetrics
    <3>2. v \in done[t] \/ (v = b.from /\ t = b.test)
      BY <1>2, <3>1 DEF TypeOK
    <3> QED
      BY <1>1, <2>1, <3>2 DEF Alone, EndIsTrue
  <2>2. CASE ~(b.test \in Tests /\ ~b.active)
    BY <1>2, <2>2 DEF ReportMetrics
  <2> QED
    BY <2>1, <2>2
<1>3. SameWorker(v)
  BY <1>1, <1>2 DEF SameWorker
<1> QED
  BY <1>3, Frame

LEMMA CallsStep ==
  ASSUME FleetInv, [Next]_vars
  PROVE  CallsInv'
<1>0. /\ TypeOK /\ WordsOfAssigned /\ CallsInv
      /\ engine \in [Workers -> [Tests -> EnginePC]] /\ assigned \in [Tests -> SUBSET Workers]
      /\ runCalls \subseteq Workers \X Tests
  BY DEF FleetInv, WordInv, TypeOK
<1>1. ASSUME NEW t \in Tests, NEW ws \in SUBSET Workers, Distribute(t, ws) PROVE CallsInv'
  <2>1. /\ runCalls' = runCalls \cup (ws \X {t}) /\ assigned' = [assigned EXCEPT ![t] = ws]
        /\ engine' = engine /\ status[t] = "NONE"
    BY <1>1 DEF Distribute, engineVars
  <2>2. assigned[t] = {}
    BY <1>0, <2>1 DEF WordsOfAssigned
  <2> QED
    BY <1>0, <2>1, <2>2 DEF CallsInv
<1>2. ASSUME NEW w \in Workers, NEW t \in Tests, RunTest(w, t) PROVE CallsInv'
  BY <1>0, <1>2 DEF RunTest, CallsInv, orchVars
<1>3. ASSUME NEW w \in Workers, NEW t \in Tests, LoseRunTest(w, t) PROVE CallsInv'
  BY <1>0, <1>3 DEF LoseRunTest, CallsInv, orchVars, engineVars
<1>4. ASSUME NEW w \in Workers, NEW t \in Tests, Execute(w, t) PROVE CallsInv'
  <2>1. /\ UNCHANGED <<assigned, runCalls>> /\ engine[w][t] # "none"
        /\ \A v \in Workers, s \in Tests : v # w \/ s # t => engine'[v][s] = engine[v][s]
    BY <1>0, <1>4, ExecuteSteps DEF orchVars, callVars
  <2>2. <<w, t>> \notin runCalls /\ w \in assigned[t]
    BY <1>0, <2>1 DEF CallsInv
  <2>3. ASSUME NEW v \in Workers, NEW s \in Tests
        PROVE  /\ <<v, s>> \in runCalls => engine'[v][s] = "none"
               /\ v \notin assigned[s] => engine'[v][s] = "none" /\ <<v, s>> \notin runCalls
    BY <1>0, <2>1, <2>2 DEF CallsInv
  <2> QED
    BY <2>1, <2>3 DEF CallsInv
<1>5. CASE UNCHANGED <<assigned, runCalls, engine>>
  BY <1>0, <1>5 DEF CallsInv
<1>6. ASSUME NEW t \in Tests, SetCompleted(t) \/ StopTest(t) \/ SetStopped(t) PROVE CallsInv'
  BY <1>5, <1>6 DEF SetCompleted, StopTest, SetStopped, callVars, engineVars
<1>7. ASSUME NEW w \in Workers, NEW t \in Tests, WorkerStopTest(w, t) \/ LoseStopTest(w, t)
      PROVE  CallsInv'
  BY <1>5, <1>7 DEF WorkerStopTest, LoseStopTest, orchVars, engineVars
<1>8. ASSUME NEW w \in Workers, ReportLoop(w) \/ ReadCurrentTest(w) \/ SendKeepAlive(w)
      PROVE  CallsInv'
  BY <1>5, <1>8 DEF ReportLoop, ReadCurrentTest, SendKeepAlive, orchVars, callVars, engineVars
<1>9. ASSUME NEW b \in Batches, ReportMetrics(b) \/ LoseReport(b) PROVE CallsInv'
  BY <1>5, <1>9 DEF ReportMetrics, LoseReport, orchVars, callVars, engineVars
<1>10. CASE UNCHANGED vars
  BY <1>5, <1>10 DEF vars, orchVars, callVars, engineVars
<1> QED
  BY <1>1, <1>2, <1>3, <1>4, <1>6, <1>7, <1>8, <1>9, <1>10 DEF Next

\* A step of a worker changes nothing about another.
LEMMA OtherWorkers ==
  ASSUME TypeOK, NEW w \in Workers,
         \/ \E t \in Tests : RunTest(w, t) \/ Execute(w, t)
         \/ ReportLoop(w) \/ ReadCurrentTest(w) \/ SendKeepAlive(w),
         NEW v \in Workers, v # w
  PROVE  SameWorker(v)
<1> USE DEF TypeOK, SameWorker, orchVars, callVars, engineVars, reportVars
<1>1. ASSUME NEW t \in Tests, RunTest(w, t) PROVE SameWorker(v)
  BY <1>1 DEF RunTest
<1>2. ASSUME NEW t \in Tests, Execute(w, t) PROVE SameWorker(v)
  <2>1. CASE Enter(w, t) \/ StartReporter(w, t) \/ EndStages(w, t) \/ ClearActive(w, t)
    BY <2>1 DEF Enter, StartReporter, EndStages, ClearActive, Step
  <2>2. CASE StopReporter(w, t)
    <3>1. reports' = reports \cup {Batch(w, repTest[w], FALSE)}
          /\ Batch(w, repTest[w], FALSE).from = w
      BY <2>2 DEF StopReporter, Batch
    <3> QED
      BY <2>2, <3>1 DEF StopReporter, Step
  <2> QED
    BY <1>2, <2>1, <2>2 DEF Execute
<1>3. CASE ReportLoop(w)
  <2>1. Batch(w, repTest[w], TRUE).from = w
    BY DEF Batch
  <2> QED
    BY <1>3, <2>1 DEF ReportLoop
<1>4. CASE ReadCurrentTest(w)
  BY <1>4 DEF ReadCurrentTest
<1>5. CASE SendKeepAlive(w)
  <2>1. Batch(w, alive[w].test, alive[w].active).from = w
    BY DEF Batch
  <2> QED
    BY <1>5, <2>1 DEF SendKeepAlive
<1> QED
  BY <1>1, <1>2, <1>3, <1>4, <1>5

LEMMA AloneStep ==
  ASSUME FleetInv, [Next]_vars, NEW v \in Workers \ crowded'
  PROVE  Alone(v)'
<1>0. TypeOK /\ CallsInv /\ WordInv
  BY DEF FleetInv, WordInv
<1>1. ASSUME crowded' = crowded PROVE Alone(v)
  BY <1>1 DEF FleetInv
<1>2. ASSUME NEW t \in Tests, NEW ws \in SUBSET Workers, Distribute(t, ws) PROVE Alone(v)'
  <2>1. Alone(v)
    BY <1>2 DEF Distribute, FleetInv
  <2> QED
    BY <1>0, <1>2, <2>1, DistributeAlone
<1>3. ASSUME NEW w \in Workers,
             \/ \E t \in Tests : RunTest(w, t) \/ Execute(w, t)
             \/ ReportLoop(w) \/ ReadCurrentTest(w) \/ SendKeepAlive(w)
      PROVE  Alone(v)'
  <2>1. crowded' = crowded
    BY <1>0, <1>3, ExecuteSteps DEF RunTest, ReportLoop, ReadCurrentTest, SendKeepAlive, orchVars
  <2>2. Alone(v)
    BY <1>1, <2>1
  <2>3. CASE v # w
    BY <1>0, <1>3, <2>2, <2>3, OtherWorkers, Frame
  <2>4. CASE v = w
    BY <1>0, <1>3, <2>2, <2>4, ExecuteAlone, RunTestAlone, ReporterAlone
  <2> QED
    BY <2>3, <2>4
<1>4. ASSUME crowded' = crowded, SameWorker(v) PROVE Alone(v)'
  BY <1>1, <1>4, Frame
<1>5. ASSUME NEW b \in Batches, ReportMetrics(b) PROVE Alone(v)'
  BY <1>0, <1>1, <1>5, ReportMetricsAlone DEF ReportMetrics
<1>6. ASSUME NEW b \in Batches, LoseReport(b) PROVE Alone(v)'
  BY <1>4, <1>6 DEF LoseReport, SameWorker, orchVars, callVars, engineVars, reportVars
<1>7. ASSUME NEW t \in Tests, SetCompleted(t) \/ StopTest(t) \/ SetStopped(t) PROVE Alone(v)'
  BY <1>4, <1>7 DEF SetCompleted, StopTest, SetStopped, SameWorker, callVars, engineVars, reportVars
<1>8. ASSUME NEW w \in Workers, NEW t \in Tests,
             LoseRunTest(w, t) \/ WorkerStopTest(w, t) \/ LoseStopTest(w, t)
      PROVE  Alone(v)'
  BY <1>4, <1>8 DEF LoseRunTest, WorkerStopTest, LoseStopTest, SameWorker, orchVars, engineVars, reportVars
<1>9. CASE UNCHANGED vars
  BY <1>4, <1>9 DEF vars, SameWorker, orchVars, callVars, engineVars, reportVars
<1> QED
  BY <1>2, <1>3, <1>5, <1>6, <1>7, <1>8, <1>9 DEF Next

LEMMA FleetStep == FleetInv /\ [Next]_vars => FleetInv'
<1> SUFFICES ASSUME FleetInv, [Next]_vars PROVE FleetInv'
  OBVIOUS
<1>1. WordInv'
  BY WordStep DEF FleetInv
<1>2. ASSUME NEW v \in Workers \ crowded' PROVE Alone(v)'
  BY AloneStep
<1> QED
  BY <1>1, <1>2, CallsStep DEF FleetInv

LEMMA InitFleet == Init => FleetInv
<1> SUFFICES ASSUME Init PROVE FleetInv
  OBVIOUS
<1>1. WordInv
  BY InitWord
<1>2. CallsInv
  BY DEF Init, CallsInv
<1>3. ASSUME NEW w \in Workers PROVE Alone(w)
  BY NoTestAssumption DEF Init, Alone, OneTest, Has, EndIsTrue, OnTheTest, Executing, Past, NotReading
<1> QED
  BY <1>1, <1>2, <1>3 DEF FleetInv

LEMMA FleetInvariant == Spec => []FleetInv
BY InitFleet, FleetStep, PTL DEF Spec

\* Whoever submits, stops and loses what, a COMPLETED test executes on none of its
\* workers any more: no stale batch, keep-alive or flag of another test says that
\* it has ended before it has (MarkWorkerDone, Engine.RunTest).  Only a worker that
\* was ever given a test while it had another one may say so.
THEOREM CompletionIsTrue == Spec => []CompletedMeansFinished
<1>1. ASSUME FleetInv PROVE CompletedMeansFinished
  <2>1. ASSUME NEW t \in Tests, status[t] = "COMPLETED", NEW w \in assigned[t] \ crowded
        PROVE  Past(w, t)
    <3>1. w \in done[t] /\ w \in Workers
      BY <1>1, <2>1 DEF FleetInv, WordInv, TypeOK, CompletedOnEveryWord
    <3> QED
      BY <1>1, <2>1, <3>1 DEF FleetInv, Alone, EndIsTrue
  <2> QED
    BY <2>1 DEF CompletedMeansFinished
<1> QED
  BY <1>1, FleetInvariant, PTL

\* CurrentTest of the engine (engine.go:181) tells the truth on every worker that
\* never had two tests at a time, however tests are stopped and whenever the next
\* one arrives, so that every keep-alive that says a test has ended is right.
THEOREM TheFlagIsTrue == Spec => []CurrentTestIsTrue
<1>1. ASSUME FleetInv PROVE CurrentTestIsTrue
  <2>1. ASSUME NEW w \in Workers \ crowded
        PROVE  active[w] <=> cur[w] # NoTest /\ Executing(w, cur[w])
    <3>1. OnTheTest(w) /\ cur[w] \in Tests \cup {NoTest}
      BY <1>1, <2>1 DEF FleetInv, Alone, WordInv, TypeOK, TestIds
    <3> QED
      BY <3>1, NoTestAssumption DEF OnTheTest
  <2> QED
    BY <2>1 DEF CurrentTestIsTrue
<1> QED
  BY <1>1, FleetInvariant, PTL
=============================================================================
