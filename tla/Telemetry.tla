------------------------------- MODULE Telemetry -------------------------------
(***************************************************************************)
(* What a test measures, from the requests of its virtual users to the     *)
(* totals of the fleet: the virtual users and the one collector they share *)
(* on a worker (internal/worker/virtual_user.go, metrics.go, engine.go),   *)
(* the batches of the reporter and of the keep-alive (reporter.go,         *)
(* cmd/worker/main.go), and the orchestrator's entry of each worker        *)
(* (internal/orchestrator/metrics_aggregator.go, ReportMetrics and         *)
(* GetTestStatus in server.go), and the totals that the run's recorder     *)
(* stores when it hears that the test is over (internal/api/recorder.go).  *)
(*                                                                         *)
(* A snapshot is its number of requests; rates and latencies are carried   *)
(* along with it.  Which test a batch is of is read before the snapshot,   *)
(* in a section of its own.  Tests are numbered in the order the run queue *)
(* submits them, each to all workers; losing RunTest and stopping are in   *)
(* Fleet, and so is a worker that enters a test before it has sent the     *)
(* final batch of the one before.                                          *)
(***************************************************************************)
EXTENDS Naturals, Sequences, FiniteSets, Functions, SequencesExt

CONSTANTS
  Workers,
  Tests,        \* 1 .. number of tests
  VUs,          \* virtual users of a worker
  MaxRecorded,  \* bound: no new request once so many are recorded for a test
  MaxInFlight,  \* bound on the batches of a worker under way
  NoEntry,      \* the worker has reported nothing for the test
  Env           \* what the network may do

AllEnv == {
  "lost",        \* a batch is lost
  "reorder"}     \* a batch overtakes an earlier one of its worker

ASSUME WorkersAreFinite == IsFiniteSet(Workers)
ASSUME TestsAssumption  == IsFiniteSet(Tests) /\ Tests # {} /\ Tests = 1 .. Cardinality(Tests)
ASSUME VUsPositive      == VUs \in Nat \ {0} /\ MaxInFlight \in Nat \ {0}
ASSUME MaxIsNat         == MaxRecorded \in Nat
ASSUME NoEntryIsNoTotal == NoEntry \notin Nat
ASSUME EnvAssumption    == Env \subseteq AllEnv

\* A request that is cut or fails is recorded twice.
Totals  == 0 .. MaxRecorded + 2 * VUs
NoTest  == 0
Batches == [test : Tests, active : BOOLEAN, total : Totals]
Phases  == {"idle", "entered", "reset", "running", "ending", "final"}

VARIABLES
  engine,      \* where Engine.RunTest is on each worker
  cur,         \* Engine.currentTestID
  inflight,    \* requests under way
  total,       \* MetricsCollector.totalRequests
  recorded,    \* calls of RecordRequest made for each test
  repTest,     \* Reporter.testID
  loop,        \* whether a loop of the reporter is there, cancelled or not
  rep,         \* the testID that a report of the reporter's loop has read
  keep,        \* what the keep-alive has read of CurrentTest
  net,         \* batches under way, oldest first
  overtaken,   \* workers of which a batch overtook an older one since the last test began
  handling,    \* the test of the final batch ReportMetrics has applied, and not yet counted
  entry,       \* workerMetrics[test][worker]
  done, status, \* ActiveTest.done and Status
  poll,        \* what GetTestStatus has read before it reads the status, and whether the test
               \* was over by then
  stored       \* runs whose totals are in history

workerVars == <<engine, cur, inflight, total, recorded, repTest, loop, rep, keep>>
orchVars   == <<handling, entry, done, status>>
pollVars   == <<poll, stored>>
netVars    == <<net, overtaken>>
vars == <<workerVars, netVars, orchVars, pollVars>>

NotReading == [test |-> NoTest, active |-> FALSE]
NoPoll     == [test |-> NoTest, total |-> 0, over |-> FALSE]

TypeOK ==
  /\ engine \in [Workers -> Phases]
  /\ cur \in [Workers -> Tests \cup {NoTest}]
  /\ inflight \in [Workers -> 0 .. VUs]
  /\ total \in [Workers -> Totals]
  /\ recorded \in [Workers -> [Tests -> Totals]]
  /\ repTest \in [Workers -> Tests \cup {NoTest}] /\ rep \in [Workers -> Tests \cup {NoTest}]
  /\ loop \in [Workers -> BOOLEAN]
  /\ keep \in [Workers -> [test : Tests \cup {NoTest}, active : BOOLEAN]]
  /\ net \in [Workers -> Seq(Batches)]
  /\ \A w \in Workers : Len(net[w]) <= MaxInFlight
  /\ overtaken \subseteq Workers
  /\ handling \in [Workers -> Tests \cup {NoTest}]
  /\ entry \in [Tests -> [Workers -> Totals \cup {NoEntry}]]
  /\ done \in [Tests -> SUBSET Workers]
  /\ status \in [Tests -> {"NONE", "RUNNING", "COMPLETED"}]
  /\ poll \in [test : Tests, total : Nat, over : BOOLEAN] \cup {NoPoll}
  /\ stored \subseteq Tests

Init ==
  /\ engine = [w \in Workers |-> "idle"] /\ cur = [w \in Workers |-> NoTest]
  /\ inflight = [w \in Workers |-> 0] /\ total = [w \in Workers |-> 0]
  /\ recorded = [w \in Workers |-> [t \in Tests |-> 0]]
  /\ repTest = [w \in Workers |-> NoTest] /\ loop = [w \in Workers |-> FALSE]
  /\ rep = [w \in Workers |-> NoTest] /\ keep = [w \in Workers |-> NotReading]
  /\ net = [w \in Workers |-> <<>>] /\ overtaken = {}
  /\ handling = [w \in Workers |-> NoTest]
  /\ entry = [t \in Tests |-> [w \in Workers |-> NoEntry]]
  /\ done = [t \in Tests |-> {}] /\ status = [t \in Tests |-> "NONE"]
  /\ poll = NoPoll /\ stored = {}

-----------------------------------------------------------------------------
(***************************************************************************)
(* The engine and its virtual users.                                       *)
(***************************************************************************)
\* The run queue waits for the recorder of the test before.
Distribute(t) ==
  /\ status[t] = "NONE" /\ \A s \in Tests : s < t => s \in stored
  /\ status' = [status EXCEPT ![t] = "RUNNING"]
  /\ overtaken' = {}
  /\ UNCHANGED <<workerVars, net, handling, entry, done, pollVars>>

Active(w) == engine[w] \in {"entered", "reset", "running", "ending"}

Phase(w, from, to) == engine[w] = from /\ engine' = [engine EXCEPT ![w] = to]

\* RunTest: the id and the flag, under the engine's lock.  Bound: the final batch
\* of the test before has been sent.
Enter(w, t) ==
  /\ status[t] = "RUNNING" /\ cur[w] < t /\ Phase(w, "idle", "entered")
  /\ cur' = [cur EXCEPT ![w] = t]
  /\ UNCHANGED <<inflight, total, recorded, repTest, loop, rep, keep, netVars, orchVars, pollVars>>

\* Mutant of Reset: the totals are kept.
ResetForgotten(w) ==
  /\ Phase(w, "entered", "reset")
  /\ UNCHANGED <<cur, inflight, total, recorded, repTest, loop, rep, keep, netVars, orchVars, pollVars>>

Reset(w) ==
  /\ Phase(w, "entered", "reset")
  /\ total' = [total EXCEPT ![w] = 0]
  /\ UNCHANGED <<cur, inflight, recorded, repTest, loop, rep, keep, netVars, orchVars, pollVars>>

StartReporter(w) ==
  /\ Phase(w, "reset", "running")
  /\ repTest' = [repTest EXCEPT ![w] = cur[w]] /\ loop' = [loop EXCEPT ![w] = TRUE]
  /\ UNCHANGED <<cur, inflight, total, recorded, rep, keep, netVars, orchVars, pollVars>>

\* A virtual user sends a request; it goes through the rest of its scenario even
\* when the stage is over.
Request(w) ==
  /\ engine[w] \in {"running", "ending"} /\ inflight[w] < VUs
  /\ recorded[w][cur[w]] < MaxRecorded
  /\ inflight' = [inflight EXCEPT ![w] = @ + 1]
  /\ UNCHANGED <<engine, cur, total, recorded, repTest, loop, rep, keep, netVars, orchVars, pollVars>>

\* RecordRequest, n times.
RecordRequest(w, n) ==
  /\ inflight[w] > 0
  /\ inflight' = [inflight EXCEPT ![w] = @ - 1]
  /\ total' = [total EXCEPT ![w] = @ + n]
  /\ recorded' = [recorded EXCEPT ![w][cur[w]] = @ + n]
  /\ UNCHANGED <<engine, cur, repTest, loop, rep, keep, netVars, orchVars, pollVars>>

\* executeRequest gets a response and checks its assertions.
Respond(w) == RecordRequest(w, 1)

\* It gets an error, or the end of the stage cancels the request: executeRequest
\* records it, and so does its caller.
FailRequest(w) == RecordRequest(w, 2)

\* The last stage's time is up: its context is cancelled.
EndStages(w) ==
  /\ Phase(w, "running", "ending")
  /\ UNCHANGED <<cur, inflight, total, recorded, repTest, loop, rep, keep, netVars, orchVars, pollVars>>

\* Mutant of ClearActive: runStage does not wait for its virtual users.
ClearActiveAtOnce(w) ==
  /\ Phase(w, "ending", "final")
  /\ UNCHANGED <<cur, inflight, total, recorded, repTest, loop, rep, keep, netVars, orchVars, pollVars>>

\* runStage has waited for them (<-done), RunTest returns: the first deferred
\* function.
ClearActive(w) ==
  /\ inflight[w] = 0 /\ Phase(w, "ending", "final")
  /\ UNCHANGED <<cur, inflight, total, recorded, repTest, loop, rep, keep, netVars, orchVars, pollVars>>

-----------------------------------------------------------------------------
(***************************************************************************)
(* Batches.  GetSnapshot reads the totals when the batch is made.          *)
(***************************************************************************)
Send(w, t, a) ==
  /\ Len(net[w]) < MaxInFlight
  /\ net' = [net EXCEPT ![w] = Append(@, [test |-> t, active |-> a, total |-> total[w]])]
  /\ UNCHANGED overtaken

\* reporter.Stop: the final batch.  Neither testID nor the totals can change while
\* it is made.
StopReporter(w) ==
  /\ Phase(w, "final", "idle")
  /\ Send(w, repTest[w], FALSE)
  /\ UNCHANGED <<cur, inflight, total, recorded, repTest, loop, rep, keep, orchVars, pollVars>>

RunTest(w) ==
  \/ \E t \in Tests : Enter(w, t)
  \/ Reset(w) \/ StartReporter(w) \/ EndStages(w) \/ ClearActive(w) \/ StopReporter(w)

\* report(true) reads testID ...
ReadTestID(w) ==
  /\ loop[w] /\ rep[w] = NoTest
  /\ rep' = [rep EXCEPT ![w] = repTest[w]]
  /\ UNCHANGED <<engine, cur, inflight, total, recorded, repTest, loop, keep,
                 netVars, orchVars, pollVars>>

\* ... and then the totals.
ReportLoop(w) ==
  /\ rep[w] # NoTest /\ Send(w, rep[w], TRUE)
  /\ rep' = [rep EXCEPT ![w] = NoTest]
  /\ UNCHANGED <<engine, cur, inflight, total, recorded, repTest, loop, keep, orchVars, pollVars>>

\* The loop that Stop has cancelled returns: not at once, if a tick was due when it
\* came back from its last call.  Bound: of an old loop and a new one, one at a
\* time is between its two reads.
LoopReturns(w) ==
  /\ engine[w] \in {"idle", "entered", "reset"} /\ loop[w] /\ rep[w] = NoTest
  /\ loop' = [loop EXCEPT ![w] = FALSE]
  /\ UNCHANGED <<engine, cur, inflight, total, recorded, repTest, rep, keep,
                 netVars, orchVars, pollVars>>

\* The keep-alive reads the test and its flag ...  That of a worker that has run
\* nothing names no test and is left out.
ReadCurrentTest(w) ==
  /\ keep[w] = NotReading /\ cur[w] # NoTest
  /\ keep' = [keep EXCEPT ![w] = [test |-> cur[w], active |-> Active(w)]]
  /\ UNCHANGED <<engine, cur, inflight, total, recorded, repTest, loop, rep, netVars, orchVars, pollVars>>

\* Mutant of SendKeepAlive: a partial batch, without the totals.
SendKeepAlivePartial(w) ==
  /\ keep[w] # NotReading /\ Len(net[w]) < MaxInFlight
  /\ net' = [net EXCEPT ![w] = Append(@, [test |-> keep[w].test, active |-> keep[w].active,
                                          total |-> 0])]
  /\ keep' = [keep EXCEPT ![w] = NotReading]
  /\ UNCHANGED <<engine, cur, inflight, total, recorded, repTest, loop, rep, overtaken, orchVars, pollVars>>

\* ... and then the totals.
SendKeepAlive(w) ==
  /\ keep[w] # NotReading /\ Send(w, keep[w].test, keep[w].active)
  /\ keep' = [keep EXCEPT ![w] = NotReading]
  /\ UNCHANGED <<engine, cur, inflight, total, recorded, repTest, loop, rep, orchVars, pollVars>>

-----------------------------------------------------------------------------
(***************************************************************************)
(* The orchestrator.                                                       *)
(***************************************************************************)
\* UpdateWorkerMetrics replaces the worker's entry, whatever it was.
UpdateWorkerMetrics(w, b) == entry' = [entry EXCEPT ![b.test][w] = b.total]

\* recalculate, in the same critical section, and GetAggregatedMetrics.
Aggregated(t) ==
  SumFunction([w \in Workers |-> IF entry[t][w] = NoEntry THEN 0 ELSE entry[t][w]])

\* Mutant of ReportMetrics: any batch counts as the word.
AnyBatchIsTheWord(w, i) ==
  /\ i \in DOMAIN net[w] /\ handling[w] = NoTest
  /\ "reorder" \in Env \/ i = 1
  /\ UpdateWorkerMetrics(w, net[w][i])
  /\ handling' = [handling EXCEPT ![w] = net[w][i].test]
  /\ net' = [net EXCEPT ![w] = RemoveAt(@, i)]
  /\ overtaken' = IF i = 1 THEN overtaken ELSE overtaken \cup {w}
  /\ UNCHANGED <<workerVars, done, status, pollVars>>

\* ReportMetrics, up to the aggregator.
ReportMetrics(w, i) ==
  /\ i \in DOMAIN net[w] /\ handling[w] = NoTest
  /\ "reorder" \in Env \/ i = 1
  /\ UpdateWorkerMetrics(w, net[w][i])
  /\ handling' = IF net[w][i].active THEN handling ELSE [handling EXCEPT ![w] = net[w][i].test]
  /\ net' = [net EXCEPT ![w] = RemoveAt(@, i)]
  /\ overtaken' = IF i = 1 THEN overtaken ELSE overtaken \cup {w}
  /\ UNCHANGED <<workerVars, done, status, pollVars>>

\* ... and from there to the status.
MarkWorkerDone(w) ==
  /\ handling[w] # NoTest
  /\ LET t == handling[w] IN
       /\ done' = [done EXCEPT ![t] = @ \cup {w}]
       /\ status' = IF done'[t] = Workers /\ status[t] = "RUNNING"
                      THEN [status EXCEPT ![t] = "COMPLETED"] ELSE status
  /\ handling' = [handling EXCEPT ![w] = NoTest]
  /\ UNCHANGED <<workerVars, netVars, entry, pollVars>>

GetActiveTest(t) == status[t] # "NONE"

\* GetTestStatus, asked by the recorder of the run, reads the metrics ...
GetAggregatedMetrics(t) ==
  /\ poll = NoPoll /\ GetActiveTest(t) /\ t \notin stored
  /\ poll' = [test |-> t, total |-> Aggregated(t), over |-> status[t] = "COMPLETED"]
  /\ UNCHANGED <<workerVars, netVars, orchVars, stored>>

\* ... and then the status.  The recorder's "one final read" is the answer that
\* says COMPLETED.
Snapshot ==
  /\ poll # NoPoll
  /\ stored' = IF status[poll.test] = "COMPLETED" THEN stored \cup {poll.test} ELSE stored
  /\ poll' = NoPoll
  /\ UNCHANGED <<workerVars, netVars, orchVars>>

LoseBatch(w, i) ==
  /\ "lost" \in Env /\ i \in DOMAIN net[w]
  /\ net' = [net EXCEPT ![w] = RemoveAt(@, i)]
  /\ UNCHANGED <<workerVars, overtaken, orchVars, pollVars>>

Next ==
  \/ Snapshot
  \/ \E t \in Tests : Distribute(t) \/ GetAggregatedMetrics(t)
  \/ \E w \in Workers :
       \/ RunTest(w) \/ Request(w) \/ Respond(w) \/ FailRequest(w)
       \/ ReadTestID(w) \/ ReportLoop(w) \/ LoopReturns(w)
       \/ ReadCurrentTest(w) \/ SendKeepAlive(w) \/ MarkWorkerDone(w)
       \/ \E i \in 1 .. MaxInFlight : ReportMetrics(w, i) \/ LoseBatch(w, i)

Spec == Init /\ [][Next]_vars

\* The engine runs on, the keep-alive ticks for ever, some of the batches that are
\* sent for ever arrive, and a select that may return does not always go on.
Fairness ==
  /\ WF_vars(Snapshot \/ \E t \in Tests : Distribute(t) \/ GetAggregatedMetrics(t))
  /\ \A w \in Workers :
       /\ SF_vars(RunTest(w)) /\ WF_vars(Respond(w) \/ FailRequest(w)) /\ SF_vars(LoopReturns(w))
       /\ SF_vars(ReadCurrentTest(w) \/ SendKeepAlive(w))
       /\ SF_vars(ReportMetrics(w, 1) \/ MarkWorkerDone(w))

FairSpec == Spec /\ Fairness

-----------------------------------------------------------------------------
(***************************************************************************)
(* What the numbers are worth.                                             *)
(***************************************************************************)
Recorded(t) == SumFunction([w \in Workers |-> recorded[w][t]])
Underway(w) == {net[w][i] : i \in DOMAIN net[w]}

\* History does not have the totals of the test yet.  Until then no other test is
\* begun.
Open(t) == t \notin stored

\* A batch that says the worker is no longer running a test that is open carries
\* all the test recorded, whoever made it: runStage waits for its virtual users
\* before RunTest clears the flag (engine.go:169), and a flag read before the
\* totals can only be too young for a test that history has.
FinalBatchIsWhole ==
  \A w \in Workers : \A b \in Underway(w) :
    ~b.active /\ Open(b.test) => b.total = recorded[w][b.test]

\* x is what w recorded for a test before t.
Earlier(w, t, x) == \E s \in Tests : s < t /\ x = recorded[w][s]

\* As long as a test is open, it is credited with its own requests and no others,
\* on the way and in the orchestrator's table: the collector is reset before the
\* reporter starts (engine.go:75), and entries are kept per test
\* (metrics_aggregator.go:17).  With one exception: a keep-alive between the new
\* id and the reset (engine.go:64-75) credits it with all the requests of an
\* earlier test, never with a mixture.
KeptApart ==
  \A w \in Workers :
    /\ \A b \in Underway(w) : Open(b.test) =>
         \/ b.total <= recorded[w][b.test]
         \/ b.active /\ Earlier(w, b.test, b.total)
    /\ \A t \in Tests : Open(t) /\ entry[t][w] # NoEntry =>
         entry[t][w] <= recorded[w][t] \/ Earlier(w, t, entry[t][w])

\* From the orchestrator's COMPLETED until history has them, the totals of a test
\* are what its workers recorded, and so is an answer that was read after the end:
\* "One final read so stored totals match the run's true end" (recorder.go:213).
\* With two exceptions.  A batch that another one of the test overtook, because
\* UpdateWorkerMetrics does not look at the age of a batch
\* (metrics_aggregator.go:84).  And the final read itself: GetTestStatus reads the
\* totals before the status (server.go:260), so that an answer may be the final one
\* and have totals of before the end.
CompletedIsExact ==
  \A t \in Tests : status[t] = "COMPLETED" /\ Open(t) =>
    /\ \A w \in Workers \ overtaken : entry[t][w] = recorded[w][t]
    /\ poll.test = t /\ poll.over /\ overtaken = {} => poll.total = Recorded(t)

\* Every test is run, and the totals of the last one become and stay exact
\* although batches are lost and overtaken: every batch is whole, so that the
\* endless keep-alive repairs what the reporter's last batch did not say
\* (cmd/worker/main.go:130, reporter.go:107).
TotalsConverge ==
  <>[](LET last == Cardinality(Tests) IN
         /\ \A w \in Workers : cur[w] = last
         /\ Aggregated(last) = Recorded(last))
=============================================================================
