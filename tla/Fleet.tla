--------------------------------- MODULE Fleet ---------------------------------
(***************************************************************************)
(* The data plane of Sentinel: the tests the orchestrator keeps            *)
(* (internal/orchestrator/plan_distributor.go and server.go), the engine,  *)
(* the metrics reporter and the keep-alive of every worker                 *)
(* (internal/worker/engine.go and reporter.go, cmd/worker/main.go), and    *)
(* the RPCs between them, which are delivered in any order.                *)
(*                                                                         *)
(* A worker's only word on a test is the test_active flag of its metric    *)
(* batches; a batch is its sender, its test id and that flag.  Virtual     *)
(* users and what they measure are left out: a stage ends when it ends.    *)
(***************************************************************************)
EXTENDS Naturals, FiniteSets

CONSTANTS
  Tests,      \* test ids; each is distributed at most once
  Workers,    \* the registered workers
  NoTest,     \* the empty test id
  Env         \* what clients, the network and the scheduler may do

AllEnv == {
  "overlap",        \* the command line submits while a test is still RUNNING
  "stop",           \* a client stops a test, in any state
  "lost_report",    \* a ReportMetrics call fails
  "lost_call",      \* a RunTest or StopTest call to a worker fails
  "slow_unwind"}    \* a test arrives while a worker is unwinding the last one

ASSUME NoTestAssumption == NoTest \notin Tests
ASSUME EnvAssumption    == Env \subseteq AllEnv

Status   == {"NONE", "RUNNING", "COMPLETED", "STOPPED"}
EnginePC == {"none", "spawned", "entered", "running", "ending", "final", "finished"}
TestIds  == Tests \cup {NoTest}
Batches  == [from : Workers, test : TestIds, active : BOOLEAN]
Batch(w, t, a) == [from |-> w, test |-> t, active |-> a]

VARIABLES
  status,      \* ActiveTest.Status, NONE if there is no such test
  assigned,    \* keys of ActiveTest.Workers
  done,        \* ActiveTest.done
  completing,  \* ReportMetrics calls between MarkWorkerDone and SetStatus
  node,        \* WorkerNode.Status
  stopping,    \* StopTest calls of the orchestrator before their SetStatus
  crowded,     \* workers that were ever given a test while they had another one
  stopCalls,   \* StopTest calls to workers, in flight
  runCalls,    \* RunTest calls to workers, in flight
  reports,     \* ReportMetrics calls, in flight
  engine,      \* the goroutine of each worker executing each test
  cur,         \* Engine.currentTestID, which Engine.testCancel belongs to
  active,      \* Engine.testActive
  cancelled,   \* <<w, t>>: StopTest has cut t short on w
  repTest,     \* Reporter.testID
  repLoop,     \* whether the reporter's loop is running
  alive        \* the keep-alive between CurrentTest and ReportMetrics

orchVars   == <<status, assigned, done, completing, node, stopping, crowded>>
callVars   == <<stopCalls, runCalls>>
engineVars == <<engine, cur, active, cancelled>>
reportVars == <<repTest, repLoop, alive>>
vars == <<orchVars, callVars, reports, engineVars, reportVars>>

NotReading == [read |-> FALSE, test |-> NoTest, active |-> FALSE]

TypeOK ==
  /\ status \in [Tests -> Status]
  /\ assigned \in [Tests -> SUBSET Workers]
  /\ done \in [Tests -> SUBSET Workers]
  /\ completing \in SUBSET Tests /\ stopping \in SUBSET Tests
  /\ node \in [Workers -> {"idle", "running"}]
  /\ stopCalls \in SUBSET (Workers \X Tests)
  /\ runCalls \in SUBSET (Workers \X Tests)
  /\ reports \in SUBSET Batches
  /\ engine \in [Workers -> [Tests -> EnginePC]]
  /\ cur \in [Workers -> TestIds]
  /\ active \in [Workers -> BOOLEAN]
  /\ cancelled \in SUBSET (Workers \X Tests)
  /\ repTest \in [Workers -> TestIds]
  /\ repLoop \in [Workers -> BOOLEAN]
  /\ alive \in [Workers -> [read : BOOLEAN, test : TestIds, active : BOOLEAN]]
  /\ crowded \subseteq Workers

Init ==
  /\ status = [t \in Tests |-> "NONE"]
  /\ assigned = [t \in Tests |-> {}] /\ done = [t \in Tests |-> {}]
  /\ completing = {} /\ stopping = {}
  /\ node = [w \in Workers |-> "idle"]
  /\ stopCalls = {} /\ runCalls = {} /\ reports = {}
  /\ engine = [w \in Workers |-> [t \in Tests |-> "none"]]
  /\ cur = [w \in Workers |-> NoTest] /\ active = [w \in Workers |-> FALSE]
  /\ cancelled = {}
  /\ repTest = [w \in Workers |-> NoTest] /\ repLoop = [w \in Workers |-> FALSE]
  /\ alive = [w \in Workers |-> NotReading]
  /\ crowded = {}

-----------------------------------------------------------------------------
(***************************************************************************)
(* Submission.  The run queue submits a test only when the last one is no  *)
(* longer RUNNING (RunQueue!ExecutesInSlot).                               *)
(***************************************************************************)
Unwinding(w, t) == engine[w][t] \in {"ending", "final"}

\* Worker w has test t, or will have it when the call arrives.
Has(w, t) == <<w, t>> \in runCalls \/ engine[w][t] \notin {"none", "finished"}

\* runTest of the command line hands its plan to the orchestrator at once, past
\* the run queue.
PastTheQueue == "overlap" \in Env

\* DistributeTestPlan: the plan goes to the workers that got a share of it.
Distribute(t, ws) ==
  /\ status[t] = "NONE" /\ ws # {}
  /\ PastTheQueue \/ \A s \in Tests : status[s] # "RUNNING"
  /\ "slow_unwind" \in Env \/ \A w \in Workers, s \in Tests : ~Unwinding(w, s)
  /\ status' = [status EXCEPT ![t] = "RUNNING"]
  /\ assigned' = [assigned EXCEPT ![t] = ws]
  /\ done' = [done EXCEPT ![t] = {}]
  /\ runCalls' = runCalls \cup (ws \X {t})
  /\ crowded' = crowded \cup {w \in ws : \E s \in Tests : Has(w, s)}
  /\ UNCHANGED <<completing, node, stopping, stopCalls, reports, engineVars, reportVars>>

\* WorkerServer.RunTest answers at once and leaves a goroutine behind.
RunTest(w, t) ==
  /\ <<w, t>> \in runCalls
  /\ runCalls' = runCalls \ {<<w, t>>}
  /\ engine' = [engine EXCEPT ![w][t] = "spawned"]
  /\ UNCHANGED <<orchVars, stopCalls, reports, cur, active, cancelled, reportVars>>

\* A failed call is logged; the test keeps the worker as one of its own.
LoseRunTest(w, t) ==
  /\ "lost_call" \in Env /\ <<w, t>> \in runCalls
  /\ runCalls' = runCalls \ {<<w, t>>}
  /\ UNCHANGED <<orchVars, stopCalls, reports, engineVars, reportVars>>

-----------------------------------------------------------------------------
(***************************************************************************)
(* Engine.RunTest on worker w.  Nothing keeps a second test out.           *)
(***************************************************************************)
Step(w, t, from, to) ==
  engine[w][t] = from /\ engine' = [engine EXCEPT ![w][t] = to]

Enter(w, t) ==
  /\ Step(w, t, "spawned", "entered")
  /\ cur' = [cur EXCEPT ![w] = t]
  /\ active' = [active EXCEPT ![w] = TRUE]
  /\ UNCHANGED <<orchVars, callVars, reports, cancelled, reportVars>>

\* metrics.Reset and reporter.Start.
StartReporter(w, t) ==
  /\ Step(w, t, "entered", "running")
  /\ repTest' = [repTest EXCEPT ![w] = t]
  /\ repLoop' = [repLoop EXCEPT ![w] = TRUE]
  /\ UNCHANGED <<orchVars, callVars, reports, cur, active, cancelled, alive>>

\* The stages run out, or their context is cancelled.
EndStages(w, t) ==
  /\ Step(w, t, "running", "ending")
  /\ UNCHANGED <<orchVars, callVars, reports, cur, active, cancelled, reportVars>>

\* Mutant of ClearActive: the flag is left to the next test.
ClearActiveForgotten(w, t) ==
  /\ Step(w, t, "ending", "final")
  /\ UNCHANGED <<orchVars, callVars, reports, cur, active, cancelled, reportVars>>

\* The first deferred function, whatever test the flag now belongs to.
ClearActive(w, t) ==
  /\ Step(w, t, "ending", "final")
  /\ active' = [active EXCEPT ![w] = FALSE]
  /\ UNCHANGED <<orchVars, callVars, reports, cur, cancelled, reportVars>>

\* Mutant of StopReporter: the loop is not cancelled.
StopReporterKeepsLoop(w, t) ==
  /\ Step(w, t, "final", "finished")
  /\ reports' = reports \cup {Batch(w, repTest[w], FALSE)}
  /\ UNCHANGED <<orchVars, callVars, cur, active, cancelled, reportVars>>

\* The second, reporter.Stop: ends the loop and sends the final batch, under the
\* id of the test last started.
StopReporter(w, t) ==
  /\ Step(w, t, "final", "finished")
  /\ repLoop' = [repLoop EXCEPT ![w] = FALSE]
  /\ reports' = reports \cup {Batch(w, repTest[w], FALSE)}
  /\ UNCHANGED <<orchVars, callVars, cur, active, cancelled, repTest, alive>>

Execute(w, t) ==
  \/ Enter(w, t) \/ StartReporter(w, t) \/ EndStages(w, t)
  \/ ClearActive(w, t) \/ StopReporter(w, t)

\* reportLoop, every second.
ReportLoop(w) ==
  /\ repLoop[w]
  /\ reports' = reports \cup {Batch(w, repTest[w], TRUE)}
  /\ UNCHANGED <<orchVars, callVars, engineVars, reportVars>>

\* Mutant of ReadCurrentTest: a keep-alive never counts as activity.
ReadCurrentTestIdle(w) ==
  /\ ~alive[w].read
  /\ alive' = [alive EXCEPT ![w] = [read |-> TRUE, test |-> cur[w], active |-> FALSE]]
  /\ UNCHANGED <<orchVars, callVars, reports, engineVars, repTest, repLoop>>

\* Mutant of ReadCurrentTest: a test that has ended is not named any more.
ReadCurrentTestUnnamed(w) ==
  /\ ~alive[w].read
  /\ alive' = [alive EXCEPT ![w] =
                 [read |-> TRUE, test |-> IF active[w] THEN cur[w] ELSE NoTest,
                  active |-> active[w]]]
  /\ UNCHANGED <<orchVars, callVars, reports, engineVars, repTest, repLoop>>

\* The keep-alive, every ten seconds: CurrentTest ...
ReadCurrentTest(w) ==
  /\ ~alive[w].read
  /\ alive' = [alive EXCEPT ![w] = [read |-> TRUE, test |-> cur[w], active |-> active[w]]]
  /\ UNCHANGED <<orchVars, callVars, reports, engineVars, repTest, repLoop>>

\* ... and then the batch.
SendKeepAlive(w) ==
  /\ alive[w].read
  /\ reports' = reports \cup {Batch(w, alive[w].test, alive[w].active)}
  /\ alive' = [alive EXCEPT ![w] = NotReading]
  /\ UNCHANGED <<orchVars, callVars, engineVars, repTest, repLoop>>

-----------------------------------------------------------------------------
(***************************************************************************)
(* The orchestrator.                                                       *)
(***************************************************************************)
\* Mutant of LastWorkerDone: the first worker decides.
AnyWorkerDone(t, w) == status[t] = "RUNNING" /\ w \in assigned[t]

\* Mutant of LastWorkerDone: one worker short.
LastButOneDone(t, w) ==
  /\ status[t] = "RUNNING" /\ w \in assigned[t]
  /\ Cardinality(done[t] \cup {w}) >= Cardinality(assigned[t]) - 1

\* MarkWorkerDone returns TRUE: the test is RUNNING and every worker is done.
LastWorkerDone(t, w) ==
  /\ status[t] = "RUNNING" /\ w \in assigned[t]
  /\ assigned[t] \subseteq done[t] \cup {w}

\* ReportMetrics, up to the end of MarkWorkerDone.
ReportMetrics(b) ==
  /\ b \in reports
  /\ reports' = reports \ {b}
  /\ node' = [node EXCEPT ![b.from] = IF b.active THEN "running" ELSE "idle"]
  /\ IF b.test \in Tests /\ ~b.active
       THEN /\ done' = [done EXCEPT ![b.test] =
                          IF b.from \in assigned[b.test] THEN @ \cup {b.from} ELSE @]
            /\ completing' = IF LastWorkerDone(b.test, b.from)
                               THEN completing \cup {b.test} ELSE completing
       ELSE UNCHANGED <<done, completing>>
  /\ UNCHANGED <<status, assigned, stopping, callVars, engineVars, reportVars, crowded>>

LoseReport(b) ==
  /\ "lost_report" \in Env /\ b \in reports
  /\ reports' = reports \ {b}
  /\ UNCHANGED <<orchVars, callVars, engineVars, reportVars>>

\* SetStatus, whatever has become of the test since.
SetCompleted(t) ==
  /\ t \in completing
  /\ completing' = completing \ {t}
  /\ status' = [status EXCEPT ![t] = "COMPLETED"]
  /\ UNCHANGED <<assigned, done, node, stopping, callVars, reports, engineVars, reportVars, crowded>>

\* stopTest of the command line, like the stop handler of the API, names any test.
Stops == "stop" \in Env

\* StopTest of the orchestrator calls every assigned worker, in any state ...
StopTest(t) ==
  /\ Stops /\ status[t] # "NONE" /\ t \notin stopping
  /\ stopping' = stopping \cup {t}
  /\ stopCalls' = stopCalls \cup (assigned[t] \X {t})
  /\ UNCHANGED <<status, assigned, done, completing, node, runCalls, reports, engineVars,
                 reportVars, crowded>>

\* Mutant of WorkerStopTest: an engine that never ran a test is not an exception.
WorkerStopTestUnchecked(w, t) ==
  /\ <<w, t>> \in stopCalls
  /\ stopCalls' = stopCalls \ {<<w, t>>}
  /\ cancelled' = cancelled \cup {<<w, cur[w]>>}
  /\ UNCHANGED <<orchVars, runCalls, reports, engine, cur, active, reportVars>>

\* Engine.StopTest cancels the test last started, which may have ended.
AbortCurrent(w) ==
  cancelled' = IF cur[w] # NoTest /\ engine[w][cur[w]] \in {"entered", "running"}
                 THEN cancelled \cup {<<w, cur[w]>>} ELSE cancelled

\* ... each of which aborts its current test, not the one it is sent.
WorkerStopTest(w, t) ==
  /\ <<w, t>> \in stopCalls
  /\ stopCalls' = stopCalls \ {<<w, t>>}
  /\ AbortCurrent(w)
  /\ UNCHANGED <<orchVars, runCalls, reports, engine, cur, active, reportVars>>

\* A call that fails is counted and reported to the client.
LoseStopTest(w, t) ==
  /\ "lost_call" \in Env /\ <<w, t>> \in stopCalls
  /\ stopCalls' = stopCalls \ {<<w, t>>}
  /\ UNCHANGED <<orchVars, runCalls, reports, engineVars, reportVars>>

\* wg.Wait, then SetStatus without a look at the status.
SetStopped(t) ==
  /\ t \in stopping /\ \A w \in Workers : <<w, t>> \notin stopCalls
  /\ stopping' = stopping \ {t}
  /\ status' = [status EXCEPT ![t] = "STOPPED"]
  /\ UNCHANGED <<assigned, done, completing, node, callVars, reports, engineVars, reportVars, crowded>>

-----------------------------------------------------------------------------
Next ==
  \/ \E t \in Tests : \/ \E ws \in SUBSET Workers : Distribute(t, ws)
                      \/ SetCompleted(t) \/ StopTest(t) \/ SetStopped(t)
  \/ \E w \in Workers, t \in Tests :
       \/ RunTest(w, t) \/ LoseRunTest(w, t) \/ Execute(w, t)
       \/ WorkerStopTest(w, t) \/ LoseStopTest(w, t)
  \/ \E w \in Workers : ReportLoop(w) \/ ReadCurrentTest(w) \/ SendKeepAlive(w)
  \/ \E b \in Batches : ReportMetrics(b) \/ LoseReport(b)

Spec == Init /\ [][Next]_vars

(***************************************************************************)
(* Fairness: calls arrive, goroutines run, stages are finite, the          *)
(* keep-alive ticks for as long as the worker lives.  The word that a test *)
(* has ended may be lost any number of times, not every time it is sent.   *)
(***************************************************************************)
Fairness ==
  /\ \A w \in Workers, t \in Tests :
       WF_vars(RunTest(w, t)) /\ WF_vars(Execute(w, t)) /\ WF_vars(WorkerStopTest(w, t))
  /\ \A w \in Workers : WF_vars(ReadCurrentTest(w) \/ SendKeepAlive(w))
  /\ \A t \in Tests : WF_vars(SetCompleted(t)) /\ WF_vars(SetStopped(t))
  /\ \A w \in Workers, t \in Tests : SF_vars(ReportMetrics(Batch(w, t, FALSE)))
  /\ WF_vars(\E b \in Batches : b.active /\ ReportMetrics(b))

FairSpec == Spec /\ Fairness

-----------------------------------------------------------------------------
(***************************************************************************)
(* Safety.                                                                 *)
(***************************************************************************)
Executing(w, t) == engine[w][t] \in {"entered", "running", "ending"}
Past(w, t)      == engine[w][t] \in {"final", "finished"}

\* A test completes only on the word of every worker it was given to: no batch
\* of another worker, repeated, late or stopped, stands in for one
\* (MarkWorkerDone, ReportMetrics).
CompletedOnEveryWord ==
  \A t \in Tests : status[t] = "COMPLETED" \/ t \in completing => done[t] = assigned[t]

\* And that word is true, whoever submits, stops and loses what: a completed test
\* executes on none of its workers any more.  With one exception: a worker that was
\* ever given a test while it had another one, because Engine.RunTest lets both in
\* and there is one id, one flag and one reporter for the two (engine.go:63-87).
CompletedMeansFinished ==
  \A t \in Tests : status[t] = "COMPLETED" => \A w \in assigned[t] \ crowded : Past(w, t)

\* The slot of the run queue, as the fleet sees it: as long as nobody stops a test
\* or submits past the queue, and workers unwind in time, tests are serialised on
\* the workers too, although Engine.RunTest of a worker lets any number of them in.
\* The test that is RUNNING holds the slot, only it executes, on any worker, and
\* the slot is free for the next one only when it executes on none.
RunningTests   == {t \in Tests : status[t] = "RUNNING"}
ExecutingTests == {t \in Tests : \E w \in Workers : Executing(w, t)}
Holder == IF RunningTests = {} THEN NoTest ELSE CHOOSE t \in RunningTests : TRUE
Serial == INSTANCE OneAtATime
            WITH Runs <- Tests, NoRun <- NoTest, holder <- Holder, executing <- ExecutingTests
ImplementsOneAtATime == Serial!Spec

\* engine.go:181 "CurrentTest returns the test this engine last ran and whether
\* it is still running": unless it ever ran two at a time.
CurrentTestIsTrue ==
  \A w \in Workers \ crowded : active[w] <=> cur[w] # NoTest /\ Executing(w, cur[w])

-----------------------------------------------------------------------------
(***************************************************************************)
(* Liveness.                                                               *)
(***************************************************************************)
\* Every test comes to an end although the final batch of a worker, its only
\* word on the end, may be lost: the keep-alive repeats it.  As long as workers live,
\* only the loss of the one RunTest call to a worker, which nothing repeats, leaves
\* a test RUNNING.
NeverTold(t) == \E w \in assigned[t] : engine[w][t] = "none" /\ <<w, t>> \notin runCalls
EveryTestCompletes ==
  \A t \in Tests :
    status[t] = "RUNNING" ~> status[t] \in {"COMPLETED", "STOPPED"} \/ NeverTold(t)

\* Whatever order batches arrive in, and however late, every worker is seen idle
\* in the end: no stale batch and no keep-alive has the last word.
FleetComesToRest == <>[](\A w \in Workers : node[w] = "idle")

-----------------------------------------------------------------------------
(***************************************************************************)
(* What comments of the code say, and the code does not keep.              *)
(***************************************************************************)
\* server.go:372 "StopTest stops a running test by telling each assigned worker
\* to abort it".
StoppedIsAborted ==
  \A w \in Workers, t \in Tests :
    status[t] = "STOPPED" /\ engine[w][t] \in {"entered", "running"} => <<w, t>> \in cancelled
=============================================================================
