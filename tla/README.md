# Sentinel: a verification development

Sentinel is a distributed HTTP load tester. Users submit plans to an API server,
which runs them one at a time; an orchestrator shares each plan out to worker
processes; the workers generate the load and report what they measure. The modules
here model that system from its source, TLC checks them on small instances, and the
TLA+ proof system proves every safety property that the runs check, and the
refinements by which the queue implements an abstract executor and the event streams
an abstract feed, for every value of the constants.

## The system

| component | state it keeps | operations | hard behaviour | correct when |
|---|---|---|---|---|
| run queue, `internal/api/queue.go` | `current` (the one slot), `attempts`, the wake channel | `Start`, `loop`, `dispatchNext`, `dispatch`, `release`, `Notify`, `Cancel` | goroutine against HTTP handlers; claim and check in separate sections; retries; restarts | tests are serialised; every run settles; the slot is never leaked |
| run recorder, `internal/api/recorder.go` | one session per recorded run | `Start`, `run`, `finish`, `Session`, publish/subscribe | stream cut, deadline, statuses polled, deferred clean-up | the slot comes back once, after the row is final |
| run handlers, `internal/api/server.go`, `history.go` | none | submit, stop, delete | check-then-act against the queue | a run in flight is kept, a cancelled one never runs |
| event streams, `internal/api/sse.go` | subscribers | stream, `awaitDispatch` | window between row and session; slow viewers; reconnects | every viewer is told the end, and shown nothing that is not stored |
| accounts, `internal/api/auth.go`, `users.go` | users, login sessions | login, logout, create, delete | check-then-act on the last account | somebody can always log in |
| store, `internal/store` | SQLite tables, one connection | one statement per operation | statements fail; only `MarkDispatched` is guarded | a settled run stays settled |
| orchestrator, `internal/orchestrator/server.go`, `plan_distributor.go` | `activeTests`: workers, done set, status | distribute, dispatch, report, stop, status, stream | calls reordered or lost; status set in a second section | a test completes when its workers have ended it, and only then |
| allocation, `plan_distributor.go` | none | `DistributePlan`, `allocateStageVUs`, `planForWorker`, `RebalanceTest` | truncated floats, map order, int32 | the fleet runs exactly the plan's targets |
| node registry, `node_manager.go` | nodes, hash ring, etcd keys | register, unregister, look up, health | etcd under the lock; handlers whose callers gave up; shared points of the ring | who is told "registered" is listed; every key finds a listed node; the shown status is true in the end |
| aggregation, `metrics_aggregator.go` | last batch per worker and test | update, recalculate, read | late batches replace newer ones | the totals of a finished test are what its workers recorded |
| worker engine, `internal/worker/engine.go` | current test and its flag, virtual users | `RunTest`, `runStage`, `StopTest`, `CurrentTest`, `Shutdown` | second test while the first unwinds | one test at a time; the flag is true |
| reporter and keep-alive, `reporter.go`, `cmd/worker/main.go` | test id, loop | `Start`, `Stop`, loop, keep-alive | two senders; last batch may be lost | the end is reported, and never early |
| virtual users, metrics, pool, `internal/worker` | counters, tasks | run, record, snapshot, submit | races with reset, with the end of a stage, with batches | what a test recorded is reported, and as its own |
| plan parsing, `internal/runtime` | none | parse, validate, convert | int32 milliseconds, Go types of values | every reader of a plan understands it as it was written |
| CLI, dashboards, tracing, configuration | none that matters | the command line submits and stops tests past the queue | | |

The API calls the orchestrator (`DistributeTestPlan`, `StreamMetrics`, `GetTestStatus`,
`StopTest`); the orchestrator calls workers (`RunTest`, `StopTest`); workers call the
orchestrator (`RegisterWorker`, `ReportMetrics`). Inside the API the queue starts a
recorder per run and is called back by it (`onDone`: release, then `Notify`), and the
handlers share the `runs` table with both.

## Modules

| module | models |
|---|---|
| `OneAtATime` | what the queue promises, and the fleet under it: an executor with one slot |
| `RunQueue` | the control plane: queue loop, recorder goroutines, run handlers, the `runs` table, restarts of the API and of the orchestrator |
| `Feed` | what a dashboard is promised: a picture that only moves forward, then an end |
| `EventStream` | one run as dashboards see it: the recorder's session, its subscribers, the SSE handler, reconnects and restarts |
| `Fleet` | the data plane: the orchestrator's tests, each worker's engine, reporter and keep-alive, and the calls between them |
| `Telemetry` | what is measured: requests, the collector they share, the batches, the orchestrator's entries, the totals that are stored |
| `Registry` | the table of nodes, etcd under its lock, the hash ring, and the workers that register |
| `Allocation` | the arithmetic that shares virtual users out |
| `Plans` | the way of a plan from its file to the worker that judges responses by it |
| `RunQueueProofs`, `EventStreamProofs`, `FleetProofs`, `TelemetryProofs`, `RegistryProofs`, `AllocationProofs`, `PlansProofs` | theorems about the module each is named for |
| `Sums` | lemmas about sums over finite sets and about loops over sequences |
| `MCRunQueue`, `MCEventStream`, `MCFleet`, `MCTelemetry`, `MCRegistry`, `MCAllocation` | instances for TLC |

A definition marked *Mutant of D* is a version of `D` with a plausible mistake; it is
not part of any specification. Each checked property is violated when a mutant takes
the place of its original.

### RunQueue

One action is one database statement or one section under `Queue.mu`. The loop
goroutine walks through `pc`: `select` (waiting for a nudge or the ticker), `poll`
(first check and `NextQueued`), `claim`, `send` (the RPC), `mark` (`MarkDispatched`),
`start` (`recorder.Start`), and on failure `failed` and `giveup`. A recorder walks
through `rec`: `connect`, `recording`, `polling` (the status call, which has no timeout
and during which the goroutine looks at nothing else), `finish` (the row), `release`;
what it does afterwards, the nudge and the removal of its session, is in `leaving`,
because from then on a new recorder of the same run may exist. A handler is a record of
the step it is at and the run it is about: `Cancel` and `DeleteRun` act on what they read
a step earlier. Runs are numbers, the millisecond the handler took before its insert, so
an older run may be inserted after a younger one; a second run of the same millisecond is
refused by the primary key (`InsertRun`).

The orchestrator is reduced to one status per test: a fresh `RUNNING` one on every
accepted `DistributeTestPlan`, completion decided (`WorkersDone`) before it is written
(`SetCompleted`), and a stop that writes `STOPPED` over anything. Its metrics stream ends
only when it breaks or dies with the orchestrator (`StreamEnds`), not with the test.

`Faults` names what may go wrong; each run and theorem says which of it happens:
`dispatch_error`, `lost_reply` (the orchestrator accepted, the API saw an error),
`stream_break`, `deadline`, `db_error`, `api_crash`, `orch_restart`.

Left out: what is recorded and who watches (`Telemetry`, `EventStream`), `Shutdown` by
context. A plan that fails to parse in `dispatch` is a refused dispatch. `Notify` of a
restarted API may find the channel full; a full channel stays full, as in the code.

### Fleet

A worker's word on a test is the `test_active` flag of its batches, so a batch is its
sender, its id and that flag, and `reports` is a set of batches in flight: any order,
and a batch that is never delivered is one that is delayed for ever. `engine[w][t]`
is the goroutine of `Engine.RunTest`: `spawned` by the RPC handler, `entered` (id and
flag set), `running` (reporter started), `ending` (the first deferred function is
next), `final` (`reporter.Stop` is next), `finished`. The id and the flag of the
engine and the id and the loop of the reporter belong to the worker, and are whatever
the last goroutine made of them. The keep-alive reads and sends in two actions.

`Env` names what may happen besides: `overlap` (`PastTheQueue`: the command line submits
at once, whatever runs), `stop` (`Stops`: a client stops a test, in any state),
`lost_report`, `lost_call` (`RunTest` or `StopTest` to a worker fails), and
`slow_unwind`: without it a worker has left `RunTest` before the next test reaches it.
The interval in question is from clearing the flag to the end of `reporter.Stop`; the
next test needs a batch, a status poll and two calls to get there. It is an assumption on
timing that the code does not enforce, and only the refinement in `Fleet_rounds` makes
it.

`crowded` is bookkeeping of the model: the workers that were ever given a test while they
had another one. `Engine.RunTest` lets both in, and what such a worker says and does is
what the exceptions of `CompletedMeansFinished` and `CurrentTestIsTrue` are about.

Left out: what a batch carries (`Telemetry`), registration (`Registry`), a test id that
is distributed twice (the worker would run it twice), restarts, workers that die.

### EventStream

One run, from the moment it is in the queue, and any number of dashboards. `pc` walks
through the dispatcher's and the recorder's steps: `queued`, `claimed` (the call to the
orchestrator), `marked`, the window in which the row says `RUNNING` and the session does
not exist yet, then `recording`; a snapshot is received, published and persisted in three
steps; `polling` waits for the answer of a status call, which has no timeout; a terminal
status leads to `final`, `finish` (the row), `close` (the end event), `cleanup` (the
session still in the map) and `gone`. A handler walks through `conn`: `lookup`, `await`
(the row, every second), `recheck`, `subscribe`, `streaming`; `ended` and `played` are
the two ways of being told the end, from the row and from the session. A dashboard whose
connection ends without an end event opens it again, as `EventSource` does. A channel
holds `Buffer` events and drops the rest, the end event too. `told` and `seen` are what
the dashboard shows.

Statements fail one by one: `MarkDispatched`, `FinishRun` and `AddSample` only log it,
and go on. `AddSample` also fails when the row has been deleted, and a sample of the same
millisecond takes the place of the one before. `Cancel` reads that the row is queued and
writes it later, whatever the dispatcher has done meanwhile; deleting the row takes its
samples along.

`lost`, `crossed` and `unsaved` are bookkeeping of the model: the samples whose statement
failed or that another one replaced, whether a cancellation was written after the run had
been claimed, and whether `FinishRun` failed.

`Env`: `stream_break` (or the stream never opens), `deadline`, `api_restart`,
`disconnect`, `read_error`, `write_error`, `cancel`, `delete`.

Left out: what a status event says, the positions in the queue, a second recording of the
run (`RunQueue`).

### Telemetry

A snapshot is its number of requests; everything else in it is made in the same place.
`Request` and `Respond` or `FailRequest` are the virtual user's send and
`RecordRequest`; a transport failure is recorded twice, as in the code. The engine's
phases are those of `Fleet`, with `Reset` a step of its own after the id is set.

Whoever reports reads which test it is in one section and the totals in another, and
anything may happen in between: `ReadTestID` and `ReportLoop` are the two reads of the
reporter's loop, `ReadCurrentTest` and `SendKeepAlive` those of the keep-alive, and
`GetAggregatedMetrics` and `Snapshot` those of `GetTestStatus`. The reporter's loop is
cancelled and not waited for, and may finish a report when its test is over
(`LoopReturns`). `ReportMetrics` replaces the worker's entry and `MarkWorkerDone` looks at
the flag in a later step. The totals of the answer that says `COMPLETED` are stored with
the run, and only then is the next test distributed, as the queue does.

`recorded`, `overtaken` and the last field of `poll` are bookkeeping of the model: what
was recorded for each test, the workers one of whose batches came after a younger one,
and whether the test was over when a poll read its totals.

`Env`: `lost` (a batch), `reorder` (a batch overtakes an older one).

Bounds besides the instance: `MaxInFlight` batches of a worker are under way; a worker
enters the next test when it has sent the final batch of the one before (that it may be
later is in `Fleet`); one cancelled loop of the reporter at a time is between its reads.

### Registry

A handler that has entered its node waits for etcd with the lock of the table, and
nothing else under that lock can happen: `holder`. etcd may fail, answer late, or never
answer. A caller that gives up after its five seconds leaves the handler behind, which
goes on; a worker that dies leaves its batches. An orchestrator that restarts reads
nothing back from etcd. `Points` are the hash values and `Virtual` gives each node some,
which may be shared, because hashes collide; `Add`, `Remove` and `Get` are the ring's.
`ListWorkers` is the status that is shown.

`Env`: `etcd_error`, `lost`, `timeout`, `worker_restart`, `unregister`. The repository
calls neither `UnregisterNode` nor `GetNodeForKey`: the ring is kept and not used, and
what is said of it is said of the promise in its comment.

Bounds besides the instance: the nodes in `Old` are registered at the start and do
nothing but be unregistered; a worker comes back when the calls of its former life have
been handled; `MaxRestarts` counts restarts of workers and orchestrator together.

### Plans

Pure operators, one per conversion: `FromSpec` and `Validate` read the file,
`ScenarioToProto` writes it for the orchestrator, `ConvertPlan` is the orchestrator's
reading, `PlanForWorker` puts a worker's share of each stage in place of the stage's
target, `ConvertProtoPlan` is the worker's reading, `CheckAssertion` and `Success` what
the worker does with it. Durations are nanoseconds, milliseconds are `int32`s with their
overflow. That what is read is a plan of the types the conversions write (`TestPlans`) is
among the examples that `MCAllocation` evaluates.

### Allocation

The state is the capacity of each worker, the distribution of the last plan and the
allocation of its last stage. `GetNodes` lists a map, so the order is a choice. A
float product that is a whole number in exact arithmetic may be truncated to the
number below it, another choice, and workers with equal remainders may be sorted
either way. `IntMax` stands for 2^31 - 1.

## Runs

Every run names its bounds in its `.cfg`. `EventStream_viewers` and `Registry_nodes` do
not check for deadlock, because a run that is over and told, and a fleet in which
everybody has died or given up, really stop; the others do.

| run | instance | shows |
|---|---|---|
| `RunQueue_serial` | 2 runs, 2 clients, 2 attempts, refused dispatches | `TypeOK`, `ExecutesInSlot`, and that the queue implements `OneAtATime` |
| `RunQueue_faults` | 2 runs, 1 client, 2 attempts, `RecordedFaults`, fair | `SlotHeld`, `SlotOwned`, `RunningRowHoldsSlot`, `RecordedHasSession`, `DoneIsTerminal`, `Finality`, `EveryRunSettles` |
| `RunQueue_slot` | 1 run, 2 clients, all faults, fair | `SlotReleased` |
| `EventStream_viewers` | 1 dashboard, 3 samples, a buffer of 2, everything in `Env`, fair | `TypeOK`, `SubscribersAreOpen`, `SeenIsStored`, `EndIsComplete`, `EndIsTrue`, `EveryViewerIsTold`, and that it implements `Feed` |
| `Fleet_words` | 2 tests, 1 worker; overlap, stops, lost calls, slow unwinding | `TypeOK`, `CompletedMeansFinished`, `CurrentTestIsTrue` |
| `Fleet_rounds` | 2 tests, 2 workers, batches in any order | that the fleet implements `OneAtATime` |
| `Fleet_completes` | 1 test, 2 workers, lost batches and lost calls, fair | `CompletedOnEveryWord`, `EveryTestCompletes`, `FleetComesToRest` |
| `Telemetry_totals` | 2 tests, 1 worker with 1 virtual user, 2 batches under way, lost and overtaken batches, fair | `TypeOK`, `FinalBatchIsWhole`, `KeptApart`, `CompletedIsExact`, `TotalsConverge` |
| `Registry_nodes` | 1 worker beside 2 older nodes, 6 points of which two are shared, 3 attempts, 2 restarts, everything in `Env`, fair | `TypeOK`, `RingIsCovered`, `ToldMeansListed`, `MovesOnlyItsOwn`, `StatusConverges` |
| `Allocation_stages` | 3 workers of capacity 0 to 4, targets up to 4, `IntMax = 4` | `TypeOK`, `PeakIsShared`, `StageIsExact`, `StageIsProportional`, `WithinCapacity`; and the statements of `PlansProofs` on examples, as assumptions |

Why the bounds are enough. The slot is contended by two runs: one that holds it and one
that waits, and the hazards are between one of them and one handler; a second client
lets a stop race a delete or another stop. Two attempts make both branches of the retry
happen. Two workers make a test wait for a second word, two tests make the leftovers of
the first meet the second; the engine, the reporter and the keep-alive of a worker know
of no other worker, so one of them is enough where two tests meet in it in every way.
Dashboards share nothing but the session's set of subscribers, so one of them, at every
point of the run, is enough; three samples overflow a buffer of two, and drop the end
event. Two tests on one worker make the collector change hands with batches of both under
way; entries of different workers are different keys of one map, and the sum over two
workers with every interleaving of their batches is past what TLC can do (more than five
million states). Two older nodes around a new one make a key move to it from one of them
and not from the other, and shared points make removal and repeated registration take
from a neighbour. Three workers with targets up to four have ties and unequal remainders,
capacities that are exhausted, and totals (up to 12) that overflow to a negative and to a
small positive number.

Symmetry is used for clients and workers, and only in runs of safety properties.

### Where the code does not keep what it says

Each of these runs ends in a counterexample. It is the code's own comment that is
violated.

| run | property | what happens |
|---|---|---|
| `RunQueue_cancel` | `CancelledNeverExecutes` | cancelled between `NextQueued` and the RPC: the row says `CANCELLED` and the test executes to its end |
| `Fleet_abort` | `StoppedIsAborted` | the stop overtakes `RunTest`; the worker runs a stopped test to its end |

### Limits

The properties that pass, pass as they are stated. What they leave out, except, or hold
only without, marks further limits of the code, each reached by a short behaviour of the
same modules. Of the queue and its recorders:

- The API restarts while a test executes: `FailInterruptedRuns` closes its row, the slot
  is free, and the next run executes beside it, although `queue.go:25` says one at a
  time. A lost reply that exhausts the attempts, a cut stream and a restarted
  orchestrator lead to the same.
- The recorder's status poll (`recorder.go:199`) has no timeout, and while it waits the
  goroutine looks at nothing else. A call that is never answered keeps the slot for ever,
  past the 24 hours of `recorder.go:173`: the exception in `SlotReleased`,
  `EveryRunSettles` and `EveryViewerIsTold`.
- `DoneIsTerminal` needs streams that are not cut: `recorder.go:185` finishes a run with
  the status it last saw, `RUNNING`, and nobody finishes it again until a restart.
- `RecordedHasSession` needs statements that succeed. If `MarkDispatched` and `FinishRun`
  of a run fail, its row says `QUEUED` when its recorder gives the slot back; it is
  dispatched and recorded again, and the deferred delete of the first recorder
  (`recorder.go:137`) then takes away the session of the second.
- A run claimed between the check and the statement of `handleDeleteRun` loses its row
  in flight.

Of the event streams:

- `recorder.go:20` and `sse.go:72` say that viewers see exactly what is stored. They see
  a sample before it is stored, and if `AddSample` fails (`recorder.go:252`), or a sample
  of the same millisecond replaces it, they have seen one that history does not keep: the
  exceptions in `SeenIsStored`.
- A cancellation that is read before the dispatch and written after it puts `CANCELLED`
  over `RUNNING` or over a final status, and the recorder or the dispatcher may write
  over it in turn. A dashboard may have been told either: `crossed` in `EndIsTrue`.
- A failed `FinishRun` is only logged (`recorder.go:280`); the session closes and tells
  its viewers a final status that the row does not have: `unsaved` in `EndIsTrue`.
- A dashboard that looks between `MarkDispatched` and `recorder.Start` is told that the
  run has ended, with the status `RUNNING`, and the comment of `awaitDispatch` does not
  foresee it. `EndIsTrue` is about final statuses only, for this reason, and to be told
  `RUNNING` counts as being told for `EveryViewerIsTold`.
- `EndIsComplete` is about dashboards whose buffer never overflowed.
- The dashboard does not close the stream of a run when it starts the next
  (`App.jsx:106`): two streams write one picture.

Of the fleet:

- A worker that is given a test while it has another (`crowded`) runs both, with one id,
  one flag and one reporter: a test may then be `COMPLETED` while it executes, and a flag
  may be cleared by the other test's end. Overlapping submissions do it, and so do stops,
  after which the queue submits the next test while the workers still unwind. These are
  the exceptions in `CompletedMeansFinished` and `CurrentTestIsTrue`.
- The fleet implements `OneAtATime` only without stops, overlap and slow unwinding.
- The worker's `StopTest` aborts whatever it runs, whichever test it was told to stop.
- The orchestrator's status is not final even when it is terminal, because `SetStatus`
  compares nothing; the row of the run keeps the first terminal status that is seen.
- A test whose `RunTest` failed on one worker stays `RUNNING`, for 24 hours in the eyes
  of the recorder: the exception in `EveryTestCompletes`. A worker that dies during a
  test leaves it so too, and is not in the model; it stays in the table and is given a
  share of the next test, with the same result.
- The keep-alive may say that a test is active after its final batch, for one period;
  `FleetComesToRest` holds all the same.

Of the measurements:

- A keep-alive between `engine.go:64` and `engine.go:75` credits the new test with the
  totals of the one before, until the next batch: the exception in `KeptApart`. That
  batch is at most a second away, unless the test ends before it.
- The stored totals of a run may lack its final batch: `GetTestStatus` reads the metrics
  (`server.go:260`), the final batch is applied and the test completed, and then it reads
  the status. `recorder.go:213` calls this read the one that matches the run's true end.
  `CompletedIsExact` is about answers whose totals were read after the end.
- An older batch that arrives late replaces a younger one, until the next keep-alive:
  `overtaken` in `CompletedIsExact`.
- A request that fails in transport counts as two requests and two errors.
- `recalculate` takes a minimum of zero for none, so a fleet's fastest response may be
  that of another worker; the peak of the fleet is its workers' largest.

Of the registry and of plans:

- While etcd hangs, `RegisterNode` (`node_manager.go:63`) holds the lock of the table:
  batches, dispatches and lists all wait, without a timeout. If it never answers, the
  table is locked for ever: the exception in `StatusConverges`.
- A worker that was refused three times, or whose orchestrator has restarted, never
  registers again.
- Of an assertion entry with several fields only the first is checked (`JudgesAsWritten`
  asks for one field each); a response that is not 2xx is never a success, so an
  assertion that expects one cannot help; a percentile assertion is held against every
  single response; `http.timeout` is carried to the worker and not used there; a ramp-up
  delays every virtual user of the stage by its whole length, so one as long as the
  stage leaves nothing to do; a think time below a millisecond is lost, and one above
  2^31 ms is negative.
- Two accounts that delete each other at the same time leave none, although the count in
  `users.go:86` is there to prevent it.

## Fairness

`RunQueue`: weak fairness of the loop, of each recorder's own steps, of the nudge after a
submission, and of the restart of the API: goroutines that can run do run, and the
supervisor restarts a dead process. Nothing is assumed of tests, which may never end, of
workers, of status polls, which may never be answered, or of clients; no fault has to
happen or to stop happening. What ends the recording of a test that does not end is the
recorder's own timer: `Deadline`, where it is among the faults, is strongly fair, because
a `select` chooses at random among what is ready and does not pass over a timer that has
fired every time. The queue's ticker is only relied on after a failed dispatch.

`EventStream`: weak fairness of the claim and of the recorder's steps, strong fairness of
what comes of the dispatch, which is tried three times and then given up, and of the
recorder's deadline, as above; the browser reconnects, and the process is not restarted
for ever. A handler's statements and sends are strongly fair, because its connection may
break at any of them: for ever, but not every time at the same point. Nothing is assumed
of the test or of status polls.

`Fleet`: weak fairness of calls, of engines, of the keep-alive and of the orchestrator's
second sections. Delivery of the word that a test has ended is strongly fair: the
keep-alive repeats it every ten seconds, it may be lost any number of times, but not
every time.

`Telemetry`: plans have finitely many stages of finite duration, so the engine goes on;
requests are answered or fail; a cancelled loop of the reporter returns; the keep-alive
ticks. A step that waits for something others take away again and again, such as room
among the batches under way, is strongly fair, and so is the arrival of batches.

`Registry`: nothing is assumed of etcd, which may never answer. A handler that wants the
lock gets it if it is free again and again, although others want it too (Go's `RWMutex`
hands it over to waiters); workers report for ever, and not every batch is lost.

## What is proved

Every type invariant, every safety invariant and every action property of the passing
runs, the refinement of `OneAtATime` by the queue and that of `Feed` by the event streams:
for every set of runs, clients, tests, workers, dashboards and nodes, and for every bound.
The constants are assumed to be what they stand for: workers, nodes and tests are finite
sets, bounds are natural numbers, the word for "none" is not one of the things it is told
from. An instance of TLC evaluates each of these assumptions. A hypothesis on the
environment is an `ASSUME` of the theorem, and is named below; but for `PointsRemain`, a step that breaks it is one of
the limits of the code listed above.

Every proof has the same shape: an inductive invariant, a lemma per kind of step, and
temporal steps at the very end.

`RunQueueProofs`, from `SlotInv`:

- `TypeCorrect`, `SlotInvariant`, `SlotIsExclusive`, `SlotHasOwner`: for every set of
  faults.
- `ExecutionInSlot`, `Serialises` (the refinement of `OneAtATime`): as long as no reply
  is lost, no stream cut, no deadline passed and neither process restarts (`Attached`).
  Each of these cuts the API off from a test that goes on.
- `RunningRowInSlot`, `RowsAreFinal`, `DoneRunsAreTerminal`: as long as no statement
  fails, no stream is cut and the orchestrator stays up (`Recorded`). The API may restart.
- `SessionsAreKept`: as long as no statement fails (`Written`).

`SlotHeld` alone is not inductive: a claim finds the recorders idle only because each of
them is known to hold the slot, the loop's run and counter have to agree (`LoopShape`),
and a count of attempts reaches the maximum only on the way to giving up
(`AttemptsLeft`). That the clean-up of an older recorder never takes a younger one's
session (`SessionInv`) rests on a run never being claimed again once its row has left
`QUEUED`: the guard of `MarkDispatched`, and the reason for the hypothesis.

`EventStreamProofs`, in every environment, from `StreamInv`: `TypeCorrect`,
`ChannelsCloseOnce`, `ShownIsStored`, `PlayedIsComplete`, `ToldIsTrue` and `KeepsThePromise`
(the refinement of `Feed`). `RecorderInv` ties the row and the samples to the recorder's
place: every sample but the last has been handed to `AddSample`, and once the row has been
written for the last time it has the status the session ends with, or a cancellation
crossed the dispatch, or `FinishRun` failed (`Saved`). Of each handler, `HandlerInv` says
what it has read and may still be sent, a final status that was read being there to stay
with the same exceptions (`Known`), `Ordered` that its channel holds samples younger than
those it has shown, `EndIsLast` that nothing follows the end in a channel, and `CaughtUp`
that the last sample is shown or in the channel of whoever missed none. The picture
never goes back because a channel is in order, which it is because the replayed sample is
put in under the lock of the session.

`FleetProofs`, in every environment, with stops, overlapping submissions, lost and late
calls and batches and slow unwinding:

- `TypeCorrect`, `CompletionNeedsEveryWorker`, from `WordInv`.
- `CompletionIsTrue`, `TheFlagIsTrue`, from `FleetInv`. A worker that was never given a
  test while it had another has at most one (`OneTest`), so its shared fields are about
  that test (`OnTheTest`), so no batch, keep-alive, flag or book says of a test that it
  has ended there before it has (`EndIsTrue`). All of this is about one worker at a time,
  and whatever another worker does leaves it alone (`OtherWorkers`).

The queue and the fleet implement the same abstract executor: the queue, by proof, as far
as it can tell from statuses, the fleet, on the instance of `Fleet_rounds`, in what its
workers execute.

`TelemetryProofs`, in every environment, from `TotalsInv`:

- `TypeCorrect`: between two resets a collector holds what was recorded for the current
  test, and between a new id and the reset all of an earlier one (`CollectorInv`); what
  was read of the id is never of a later test than the engine's (`LabelInv`).
- `FinalIsWhole`, `TestsKeptApart`: what is under way and what is in the table may be
  credited to its test, and a worker's word that a test is over is behind a batch that
  carries the whole of it (`Queue`, `EntryInv`), as long as the test is open. That tests
  follow one another (`OrderInv`) is why a report that straddles a change of test can
  only be about a test that history has.
- `CompletedExact`: a test is completed only when every worker has said so, so the
  entries of those whose batches were not overtaken are whole (`WordInv`), and a poll that
  reads its totals after that reads what was recorded (`PollInv`).

`RegistryProofs`, from `TableInv`: `TypeCorrect`, `ToldAreListed` and `OnlyOwnKeysMove` in
every environment and for every hash, with as many shared points as there are.
`ToldAreListed` follows because a node keeps, while it is in the table, every point of the
ring that no other node shares (`RingInv`); `OnlyOwnKeysMove` ties the keys that move to
the node whose handler takes the lock, and to the direction. `RingFindsANode` assumes that
every node has a point that collides with no other's, or that nobody is unregistered
(`PointsRemain`). Nothing in the repository calls `UnregisterNode`, so the hypothesis is
met by the program; the removal of a node whose neighbours share all their points with it
would take them off the ring.

`AllocationProofs`, for every fleet, every width of an integer, every order and every
truncation, from `AllocationInv`: `TypeCorrect`, `PeakShared`, `StageExact`,
`StageProportional`, `CapacityKept`. Each loop is a round of turns (`Round`) that neither
loses nor invents anybody (`RoundIsFair`). The second loop of `DistributePlan` can only be
left with somebody when all workers are full, which an `int32` total, being at most the
true one (`WrapIsBelow`), excludes. A stage's remainders are all handed out in one pass
because a worker that is full has no remainder (`WholeFacts`) and whoever gives everybody
at least their exact part has given all (`AllIsGiven`); by the same lemma nobody whose
part was whole is given one more, if the largest remainders come first, and the result is
in proportion.

`Sums`: the library's induction theorems take an operator and cannot be used here, but
the theorem that `\subset` is well-founded on finite sets takes none, and gives induction
over sets as a statement about sets of sets (`SubsetInduction`, `InsertInduction`,
`CountingInduction`). The folds of the community modules choose a recursive function;
`FoldUnique` and `FoldExists` show that there is exactly one, and `SumIsFold` and
`LoopRuns` unfold `SumFunction` and `FoldLeft` with it. The rest is what the other modules
cite: sums of changed, scaled and compared functions.

`PlansProofs`, for every plan, every share of it and every response, with `2^31` a
parameter: `PlanJudgesAsWritten`, `PlanKeepsStages` (each stage as long and ramped as
written, with the worker's share for its target), `ValidPlanRuns`,
`PlanThinksAsWritten`. The lemmas follow one assertion on its way: an `int32` that fits is not changed (`Int32Fits`), whole milliseconds survive
as nanoseconds and back (`MillisExact`), and so each of the three kinds arrives as it was
meant (`AssertionAsWritten`); requests and stages go their way one by one (`OneByOne`).

Only model-checked: the liveness properties (`EveryRunSettles`, `SlotReleased`,
`EveryViewerIsTold`, `EveryTestCompletes`, `FleetComesToRest`, `TotalsConverge`,
`StatusConverges`), because fairness is about `ENABLED`, which the prover does not handle,
and the fleet's `ImplementsOneAtATime`, which holds only in the environment of
`Fleet_rounds`. The environment of every run meets the hypotheses of the theorems about
its properties: what TLC checks on an instance with certain faults, a theorem states with
them.

## Plan

In this order, most important first.

1. A composition of `RunQueue` and `Fleet`, in which the end of a test is what the workers
   report and not an action of its own, with stops that the queue sends, a test id that is
   distributed twice, and workers that die.
2. Accounts: the deletion of the last one (`users.go:86`) as a model of its own, with the
   sessions of an account that is deleted.
3. A second recording of a run in `EventStream`, with what its dashboards are shown.

## Not modelled

- Accounts and login: hashes, cookies and single statements on two tables that nothing
  else reads. The one check-then-act, the deletion of the last account, is under Limits.
- The allowlist of targets: matching of host names, which its tests enumerate.
- Saved plans: rows that are created, replaced and deleted by one statement each.
- `RebalanceTest`, `RemoveActiveTest`, `RemoveTest`, `GetWorkerMetrics`, the goroutine
  pool and the plugin loader: nothing calls them.
- The development orchestrator, which pretends to have workers, and answers a status it
  does not know with `UNKNOWN`, so that a stopped test is recorded until the deadline.
- Latencies, rates, the HTTP client, decoding and substitution of variables, dashboards,
  tracing, logging, configuration, generated code. Of the command line only that it
  submits and stops tests past the queue (`overlap` and `stop` in `Fleet`).
