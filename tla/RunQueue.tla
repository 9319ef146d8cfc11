------------------------------- MODULE RunQueue -------------------------------
(***************************************************************************)
(* The control plane of Sentinel: the run queue of the API process         *)
(* (internal/api/queue.go), the recorder goroutine of each run             *)
(* (internal/api/recorder.go), the HTTP handlers that submit, stop and     *)
(* delete runs, the runs table they all write (internal/store), and the    *)
(* orchestrator's map of tests as the API process sees it.                 *)
(*                                                                         *)
(* Every database statement and every section under Queue.mu is one step;  *)
(* the goroutines interleave between them.  A run is a natural number, the *)
(* millisecond its handler took as id and started_at, so a handler that is *)
(* slow to insert puts an older run behind a younger one.                  *)
(***************************************************************************)
EXTENDS Naturals, FiniteSets

CONSTANTS
  Runs,          \* the runs users may submit, by submission time
  Users,         \* concurrent HTTP request handlers
  NoRun,         \* Queue.current = ""
  MaxAttempts,   \* maxDispatchAttempts
  Faults         \* what may go wrong in the environment

AllFaults == {
  "dispatch_error",  \* DistributeTestPlan is refused
  "lost_reply",      \* DistributeTestPlan is accepted, its caller sees an error
  "stream_break",    \* the metrics stream fails to open or is cut
  "deadline",        \* a test outlives the 24 h backstop
  "db_error",        \* a database statement fails
  "api_crash",       \* the API process dies and is started again
  "orch_restart"}    \* the orchestrator restarts with an empty map of tests

ASSUME RunsAssumption  == Runs \subseteq Nat /\ NoRun \notin Runs
ASSUME AttemptsPositive == MaxAttempts \in Nat \ {0}
ASSUME FaultsAssumption == Faults \subseteq AllFaults

Settled   == {"COMPLETED", "STOPPED", "FAILED", "CANCELLED"}
RowStatus == {"NONE", "QUEUED", "RUNNING", "DELETED"} \cup Settled

\* An orchestrator test; FAILED is never set but is what the recorder writes
\* when it gives a run up itself.
TestStatus    == {"NONE", "RUNNING", "COMPLETED", "STOPPED"}
TestEnded     == {"COMPLETED", "STOPPED"}
SessionStatus == {"RUNNING", "COMPLETED", "STOPPED", "FAILED"}

LoopPC     == {"select", "poll", "claim", "send", "mark", "start",
               "failed", "giveup"}
RecorderPC == {"none", "connect", "recording", "polling", "finish", "release"}
HandlerPC  == {"idle", "created", "canceling", "stopping", "deleting"}

VARIABLES
  row,         \* runs.status by run; NONE before INSERT, DELETED after DELETE
  up,          \* whether the API process is running
  current,     \* Queue.current
  attempts,    \* Queue.attempts
  wake,        \* whether the one-place channel Queue.wake is full
  pc, claimed, \* the loop goroutine and the run it works on
  rec,         \* the recorder goroutine of a run, until it releases the slot
  verdict,     \* session.status, then the status handed to finish
  sessions,    \* keys of Recorder.sessions
  leaving,     \* recorders past release: still to Notify, then to clean up
  test,        \* PlanDistributor.activeTests, by status
  completing,  \* tests whose last worker is done, SetStatus still to come
  handler      \* the HTTP handlers

queueVars    == <<current, attempts, wake>>
loopVars     == <<pc, claimed>>
recorderVars == <<rec, verdict, sessions, leaving>>
fleetVars    == <<test, completing>>
vars == <<row, up, queueVars, loopVars, recorderVars, fleetVars, handler>>

TypeOK ==
  /\ row \in [Runs -> RowStatus]
  /\ up \in BOOLEAN
  /\ current \in Runs \cup {NoRun}
  /\ attempts \in [Runs -> 0 .. MaxAttempts]
  /\ wake \in BOOLEAN
  /\ pc \in LoopPC
  /\ claimed \in Runs \cup {NoRun}
  /\ rec \in [Runs -> RecorderPC]
  /\ verdict \in [Runs -> SessionStatus]
  /\ sessions \in SUBSET Runs
  /\ leaving \in SUBSET (Runs \X {"notify", "cleanup"})
  /\ test \in [Runs -> TestStatus]
  /\ completing \in SUBSET Runs
  /\ handler \in [Users -> [at : HandlerPC, run : Runs \cup {NoRun}]]

Idle == [at |-> "idle", run |-> NoRun]

Init ==
  /\ row = [r \in Runs |-> "NONE"]
  /\ up = TRUE
  /\ current = NoRun
  /\ attempts = [r \in Runs |-> 0]
  /\ wake = TRUE                         \* Start ends with Notify
  /\ pc = "select" /\ claimed = NoRun
  /\ rec = [r \in Runs |-> "none"]
  /\ verdict = [r \in Runs |-> "RUNNING"]
  /\ sessions = {} /\ leaving = {}
  /\ test = [r \in Runs |-> "NONE"] /\ completing = {}
  /\ handler = [u \in Users |-> Idle]

-----------------------------------------------------------------------------
(***************************************************************************)
(* The runs table.                                                         *)
(***************************************************************************)
Present(r) == row[r] \notin {"NONE", "DELETED"}
Queued     == {r \in Runs : row[r] = "QUEUED"}

\* NextQueued: the queued run with the least started_at.
IsOldestQueued(r) == r \in Queued /\ \A q \in Queued : r <= q

\* INSERT INTO runs: the id is the primary key.
InsertRun(r) == row[r] = "NONE" /\ row' = [row EXCEPT ![r] = "QUEUED"]

\* UPDATE runs SET status = s WHERE id = r: SetRunStatus and FinishRun.  A row
\* that is gone is ErrNotFound, which changes nothing.
SetRunStatus(r, s) == row' = IF Present(r) THEN [row EXCEPT ![r] = s] ELSE row

\* Mutant of MarkDispatched: without AND status = 'QUEUED'.
MarkDispatchedUnguarded(r) == SetRunStatus(r, "RUNNING")

\* The only guarded update of the table.
MarkDispatched(r) ==
  row' = IF row[r] = "QUEUED" THEN [row EXCEPT ![r] = "RUNNING"] ELSE row

FailInterruptedRuns ==
  row' = [r \in Runs |-> IF row[r] = "RUNNING" THEN "FAILED" ELSE row[r]]

\* A statement that fails is logged and otherwise ignored by its caller.
DbError == "db_error" \in Faults /\ UNCHANGED row

-----------------------------------------------------------------------------
(***************************************************************************)
(* The loop goroutine: select, then dispatchNext until it reports FALSE.   *)
(***************************************************************************)
BackToSelect == pc' = "select" /\ claimed' = NoRun

Woken ==
  /\ up /\ pc = "select" /\ wake
  /\ wake' = FALSE /\ pc' = "poll"
  /\ UNCHANGED <<row, up, current, attempts, claimed, recorderVars, fleetVars, handler>>

Tick ==
  /\ up /\ pc = "select"
  /\ pc' = "poll"
  /\ UNCHANGED <<row, up, queueVars, claimed, recorderVars, fleetVars, handler>>

\* The first check of current and NextQueued.  Only this goroutine ever fills
\* the slot, so nothing can come between the two that matters.
PollNothing ==
  /\ up /\ pc = "poll"
  /\ \/ current # NoRun
     \/ Queued = {}
     \/ "db_error" \in Faults
  /\ BackToSelect
  /\ UNCHANGED <<row, up, queueVars, recorderVars, fleetVars, handler>>

PollNext ==
  /\ up /\ pc = "poll" /\ current = NoRun
  /\ \E r \in Runs : IsOldestQueued(r) /\ claimed' = r
  /\ pc' = "claim"
  /\ UNCHANGED <<row, up, queueVars, recorderVars, fleetVars, handler>>

\* Mutant of Claim: the slow work starts without taking the slot.
ClaimWithoutSlot ==
  /\ up /\ pc = "claim"
  /\ pc' = "send"
  /\ UNCHANGED <<row, up, queueVars, claimed, recorderVars, fleetVars, handler>>

\* The second check, and q.current = run.ID under the same lock.
Claim ==
  /\ up /\ pc = "claim"
  /\ IF current # NoRun
       THEN BackToSelect /\ UNCHANGED current
       ELSE current' = claimed /\ pc' = "send" /\ UNCHANGED claimed
  /\ UNCHANGED <<row, up, attempts, wake, recorderVars, fleetVars, handler>>

\* DistributePlan stores a fresh RUNNING test, over one of the same id if any.
\* Meanwhile the row may have been cancelled or deleted: nothing re-reads it.
SendAccepted ==
  /\ up /\ pc = "send"
  /\ test' = [test EXCEPT ![claimed] = "RUNNING"]
  /\ \/ pc' = "mark"
     \/ pc' = "failed" /\ "lost_reply" \in Faults
  /\ UNCHANGED <<row, up, queueVars, claimed, recorderVars, completing, handler>>

SendRefused ==
  /\ up /\ pc = "send" /\ "dispatch_error" \in Faults
  /\ pc' = "failed"
  /\ UNCHANGED <<row, up, queueVars, claimed, recorderVars, fleetVars, handler>>

Mark ==
  /\ up /\ pc = "mark"
  /\ MarkDispatched(claimed) \/ DbError
  /\ pc' = "start"
  /\ UNCHANGED <<up, queueVars, claimed, recorderVars, fleetVars, handler>>

\* recorder.Start, then delete(q.attempts) back in dispatchNext.
StartRecorder ==
  /\ up /\ pc = "start"
  /\ sessions' = sessions \cup {claimed}
  /\ rec' = [rec EXCEPT ![claimed] = "connect"]
  /\ verdict' = [verdict EXCEPT ![claimed] = "RUNNING"]
  /\ attempts' = [attempts EXCEPT ![claimed] = 0]
  /\ BackToSelect
  /\ UNCHANGED <<row, up, current, wake, leaving, fleetVars, handler>>

\* release(id): frees the slot only if id still holds it.
Release(r) == current' = IF current = r THEN NoRun ELSE current

\* Mutant of DispatchFailed: one attempt too many.
DispatchFailedOnceMore ==
  /\ up /\ pc = "failed"
  /\ attempts' = [attempts EXCEPT ![claimed] = @ + 1]
  /\ Release(claimed)
  /\ IF attempts[claimed] + 1 <= MaxAttempts
       THEN BackToSelect
       ELSE pc' = "giveup" /\ UNCHANGED claimed
  /\ UNCHANGED <<row, up, wake, recorderVars, fleetVars, handler>>

\* Mutant of DispatchFailed: the retry path returns without release.
DispatchFailedKeepsSlot ==
  /\ up /\ pc = "failed"
  /\ attempts' = [attempts EXCEPT ![claimed] = @ + 1]
  /\ IF attempts[claimed] + 1 < MaxAttempts
       THEN BackToSelect /\ UNCHANGED current
       ELSE pc' = "giveup" /\ Release(claimed) /\ UNCHANGED claimed
  /\ UNCHANGED <<row, up, wake, recorderVars, fleetVars, handler>>

DispatchFailed ==
  /\ up /\ pc = "failed"
  /\ attempts' = [attempts EXCEPT ![claimed] = @ + 1]
  /\ Release(claimed)
  /\ IF attempts[claimed] + 1 < MaxAttempts
       THEN BackToSelect
       ELSE pc' = "giveup" /\ UNCHANGED claimed
  /\ UNCHANGED <<row, up, wake, recorderVars, fleetVars, handler>>

\* Mutant of GiveUp: the count is forgotten, the row is left as it is.
GiveUpSilently ==
  /\ up /\ pc = "giveup"
  /\ attempts' = [attempts EXCEPT ![claimed] = 0]
  /\ pc' = "poll" /\ claimed' = NoRun
  /\ UNCHANGED <<row, up, current, wake, recorderVars, fleetVars, handler>>

GiveUp ==
  /\ up /\ pc = "giveup"
  /\ SetRunStatus(claimed, "FAILED") \/ DbError
  /\ attempts' = [attempts EXCEPT ![claimed] = 0]
  /\ pc' = "poll" /\ claimed' = NoRun
  /\ UNCHANGED <<up, current, wake, recorderVars, fleetVars, handler>>

Loop ==
  \/ Woken \/ Tick \/ PollNothing \/ PollNext \/ Claim \/ SendAccepted
  \/ SendRefused \/ Mark \/ StartRecorder \/ DispatchFailed \/ GiveUp

-----------------------------------------------------------------------------
(***************************************************************************)
(* The recorder goroutine of run r.                                        *)
(***************************************************************************)
FinishWith(r, s) ==
  /\ rec' = [rec EXCEPT ![r] = "finish"]
  /\ verdict' = [verdict EXCEPT ![r] = s]
  /\ UNCHANGED <<row, up, queueVars, loopVars, sessions, leaving, fleetVars, handler>>

Connect(r) ==
  /\ rec[r] = "connect"
  /\ rec' = [rec EXCEPT ![r] = "recording"]
  /\ UNCHANGED <<row, up, queueVars, loopVars, verdict, sessions, leaving, fleetVars, handler>>

ConnectFails(r) ==
  /\ rec[r] = "connect" /\ "stream_break" \in Faults
  /\ FinishWith(r, "FAILED")

\* The status ticker.  The call has no timeout, and until it is answered the
\* goroutine looks neither at the stream nor at the deadline.
PollStatus(r) ==
  /\ rec[r] = "recording"
  /\ rec' = [rec EXCEPT ![r] = "polling"]
  /\ UNCHANGED <<row, up, queueVars, loopVars, verdict, sessions, leaving, fleetVars, handler>>

\* A RUNNING test leaves the session as it is; a lost one is NotFound, which is
\* skipped like any other error.
PollAgain(r) ==
  /\ rec[r] = "polling"
  /\ test[r] \notin TestEnded \/ "stream_break" \in Faults
  /\ rec' = [rec EXCEPT ![r] = "recording"]
  /\ UNCHANGED <<row, up, queueVars, loopVars, verdict, sessions, leaving, fleetVars, handler>>

\* Mutant of ObserveEnd: any answer of the orchestrator ends the run.
ObserveAnswer(r) ==
  /\ rec[r] = "polling" /\ test[r] # "NONE"
  /\ FinishWith(r, test[r])

ObserveEnd(r) ==
  /\ rec[r] = "polling" /\ test[r] \in TestEnded
  /\ FinishWith(r, test[r])

\* StreamMetrics goes on although the test has ended, and for tests it has never
\* heard of: a stream ends only when it breaks, or dies with the orchestrator.
StreamEnds(r) == "stream_break" \in Faults \/ test[r] = "NONE"

\* metricsCh is closed: the run is finished with the status last observed.
StreamCloses(r) ==
  /\ rec[r] = "recording" /\ StreamEnds(r)
  /\ FinishWith(r, verdict[r])

Deadline(r) ==
  /\ rec[r] = "recording" /\ "deadline" \in Faults
  /\ FinishWith(r, "FAILED")

\* Mutant of FinishRun: the slot is given back together with the row.
FinishRunAndRelease(r) ==
  /\ rec[r] = "finish"
  /\ SetRunStatus(r, verdict[r]) \/ DbError
  /\ Release(r)
  /\ rec' = [rec EXCEPT ![r] = "release"]
  /\ UNCHANGED <<up, attempts, wake, loopVars, verdict, sessions, leaving, fleetVars, handler>>

\* Mutant of FinishRun: an error returns without onDone.
FinishRunOrReturn(r) ==
  /\ rec[r] = "finish"
  /\ \/ SetRunStatus(r, verdict[r]) /\ rec' = [rec EXCEPT ![r] = "release"]
     \/ DbError /\ rec' = [rec EXCEPT ![r] = "none"]
  /\ UNCHANGED <<up, queueVars, loopVars, verdict, sessions, leaving, fleetVars, handler>>

FinishRun(r) ==
  /\ rec[r] = "finish"
  /\ SetRunStatus(r, verdict[r]) \/ DbError
  /\ rec' = [rec EXCEPT ![r] = "release"]
  /\ UNCHANGED <<up, queueVars, loopVars, verdict, sessions, leaving, fleetVars, handler>>

\* onDone of queue.dispatch: release, then Notify; then the deferred delete of
\* the session, by run id.
ReleaseSlot(r) ==
  /\ rec[r] = "release"
  /\ Release(r)
  /\ rec' = [rec EXCEPT ![r] = "none"]
  /\ verdict' = [verdict EXCEPT ![r] = "RUNNING"]
  /\ leaving' = leaving \cup {<<r, "notify">>}
  /\ UNCHANGED <<row, up, attempts, wake, loopVars, sessions, fleetVars, handler>>

\* Mutant of NotifyDone: onDone only releases.
NotifyDoneForgotten(r) ==
  /\ <<r, "notify">> \in leaving
  /\ leaving' = (leaving \ {<<r, "notify">>}) \cup {<<r, "cleanup">>}
  /\ UNCHANGED <<row, up, queueVars, loopVars, rec, verdict, sessions, fleetVars, handler>>

NotifyDone(r) ==
  /\ <<r, "notify">> \in leaving
  /\ wake' = TRUE
  /\ leaving' = (leaving \ {<<r, "notify">>}) \cup {<<r, "cleanup">>}
  /\ UNCHANGED <<row, up, current, attempts, loopVars, rec, verdict, sessions, fleetVars, handler>>

\* Mutant of ForgetSession: the map is emptied instead of one key deleted.
ForgetSessions(r) ==
  /\ <<r, "cleanup">> \in leaving
  /\ sessions' = {}
  /\ leaving' = leaving \ {<<r, "cleanup">>}
  /\ UNCHANGED <<row, up, queueVars, loopVars, rec, verdict, fleetVars, handler>>

ForgetSession(r) ==
  /\ <<r, "cleanup">> \in leaving
  /\ sessions' = sessions \ {r}
  /\ leaving' = leaving \ {<<r, "cleanup">>}
  /\ UNCHANGED <<row, up, queueVars, loopVars, rec, verdict, fleetVars, handler>>

Record(r) ==
  \/ Connect(r) \/ ConnectFails(r) \/ PollStatus(r) \/ PollAgain(r)
  \/ ObserveEnd(r) \/ StreamCloses(r) \/ Deadline(r) \/ FinishRun(r)
  \/ ReleaseSlot(r) \/ NotifyDone(r) \/ ForgetSession(r)

-----------------------------------------------------------------------------
(***************************************************************************)
(* The orchestrator, as far as the API process can tell its tests apart.   *)
(***************************************************************************)
\* MarkWorkerDone returns true for the last worker ...
WorkersDone(r) ==
  /\ test[r] = "RUNNING" /\ r \notin completing
  /\ completing' = completing \cup {r}
  /\ UNCHANGED <<row, up, queueVars, loopVars, recorderVars, test, handler>>

\* ... and ReportMetrics sets the status under a second lock, whatever it is.
SetCompleted(r) ==
  /\ r \in completing
  /\ completing' = completing \ {r}
  /\ test' = [test EXCEPT ![r] = IF @ = "NONE" THEN "NONE" ELSE "COMPLETED"]
  /\ UNCHANGED <<row, up, queueVars, loopVars, recorderVars, handler>>

OrchRestart ==
  /\ "orch_restart" \in Faults
  /\ test' = [r \in Runs |-> "NONE"] /\ completing' = {}
  /\ UNCHANGED <<row, up, queueVars, loopVars, recorderVars, handler>>

-----------------------------------------------------------------------------
(***************************************************************************)
(* The HTTP handlers.                                                      *)
(***************************************************************************)
Begin(u, at, r) ==
  handler[u] = Idle /\ handler' = [handler EXCEPT ![u] = [at |-> at, run |-> r]]
At(u, at, r)    == handler[u] = [at |-> at, run |-> r]
Done(u)         == handler' = [handler EXCEPT ![u] = Idle]

\* handleStartRun: the insert ...
CreateRun(u, r) ==
  /\ up /\ InsertRun(r)
  /\ Begin(u, "created", r)
  /\ UNCHANGED <<up, queueVars, loopVars, recorderVars, fleetVars>>

\* ... and the nudge.
NotifyCreated(u, r) ==
  /\ At(u, "created", r)
  /\ wake' = TRUE
  /\ Done(u)
  /\ UNCHANGED <<row, up, current, attempts, loopVars, recorderVars, fleetVars>>

\* handleStopRun: Cancel reads the row ...
StopRun(u, r) ==
  /\ up /\ row[r] # "NONE"
  /\ Begin(u, IF row[r] = "QUEUED" THEN "canceling" ELSE "stopping", r)
  /\ UNCHANGED <<row, up, queueVars, loopVars, recorderVars, fleetVars>>

\* ... writes it, without looking again ...
CancelQueued(u, r) ==
  /\ At(u, "canceling", r)
  /\ \/ Present(r) /\ SetRunStatus(r, "CANCELLED") /\ Done(u)
     \/ /\ ~Present(r) \/ "db_error" \in Faults
        /\ UNCHANGED row
        /\ handler' = [handler EXCEPT ![u] = [at |-> "stopping", run |-> r]]
  /\ UNCHANGED <<up, queueVars, loopVars, recorderVars, fleetVars>>

\* ... or Cancel has failed, and the orchestrator's StopTest ends with an
\* unconditional SetStatus.
StopTest(u, r) ==
  /\ At(u, "stopping", r)
  /\ test' = [test EXCEPT ![r] = IF @ = "NONE" THEN "NONE" ELSE "STOPPED"]
  /\ Done(u)
  /\ UNCHANGED <<row, up, queueVars, loopVars, recorderVars, completing>>

\* handleDeleteRun: the check of Current, then the DELETE.
CheckDelete(u, r) ==
  /\ up /\ Present(r) /\ current # r
  /\ Begin(u, "deleting", r)
  /\ UNCHANGED <<row, up, queueVars, loopVars, recorderVars, fleetVars>>

DeleteRun(u, r) ==
  /\ At(u, "deleting", r)
  /\ SetRunStatus(r, "DELETED")
  /\ Done(u)
  /\ UNCHANGED <<up, queueVars, loopVars, recorderVars, fleetVars>>

Proceed(u, r) ==
  \/ NotifyCreated(u, r) \/ CancelQueued(u, r) \/ StopTest(u, r) \/ DeleteRun(u, r)

Handle(u, r) ==
  \/ CreateRun(u, r) \/ StopRun(u, r) \/ CheckDelete(u, r) \/ Proceed(u, r)

-----------------------------------------------------------------------------
(***************************************************************************)
(* The API process dies, losing every goroutine and the queue's memory, and *)
(* is started again over the same database.                                *)
(***************************************************************************)
ApiCrash ==
  /\ up /\ "api_crash" \in Faults
  /\ up' = FALSE
  /\ current' = NoRun /\ attempts' = [r \in Runs |-> 0] /\ wake' = FALSE
  /\ BackToSelect
  /\ rec' = [r \in Runs |-> "none"] /\ verdict' = [r \in Runs |-> "RUNNING"]
  /\ sessions' = {} /\ leaving' = {}
  /\ handler' = [u \in Users |-> Idle]
  /\ UNCHANGED <<row, fleetVars>>

\* Mutant of ApiStart: nothing is reconciled.
ApiStartAsLeft ==
  /\ ~up
  /\ up' = TRUE /\ wake' = TRUE
  /\ UNCHANGED <<row, current, attempts, loopVars, recorderVars, fleetVars, handler>>

\* Queue.Start: FailInterruptedRuns, go loop, Notify.
ApiStart ==
  /\ ~up
  /\ up' = TRUE /\ wake' = TRUE
  /\ FailInterruptedRuns \/ DbError
  /\ UNCHANGED <<current, attempts, loopVars, recorderVars, fleetVars, handler>>

Next ==
  \/ Loop
  \/ \E r \in Runs : Record(r) \/ WorkersDone(r) \/ SetCompleted(r)
  \/ \E u \in Users, r \in Runs : Handle(u, r)
  \/ OrchRestart \/ ApiCrash \/ ApiStart

Spec == Init /\ [][Next]_vars

(***************************************************************************)
(* Fairness.  Goroutines that can run do run, and the supervisor restarts  *)
(* the API.  Nothing is assumed of users, of the orchestrator or of its    *)
(* workers: a test may go on for ever, and so may a status poll.  What the *)
(* recorder can rely on is its own timer, which is "deadline" in Faults:   *)
(* its select chooses at random among what is ready, so a timer that has   *)
(* fired is not passed over every time.                                    *)
(***************************************************************************)
LoopStep ==
  \/ Woken \/ PollNothing \/ PollNext \/ Claim \/ SendAccepted \/ SendRefused
  \/ Mark \/ StartRecorder \/ DispatchFailed \/ GiveUp

RecorderStep(r) ==
  \/ Connect(r) \/ FinishRun(r) \/ ReleaseSlot(r) \/ NotifyDone(r)
  \/ ForgetSession(r)

Fairness ==
  /\ WF_vars(LoopStep)
  /\ \A r \in Runs : WF_vars(RecorderStep(r)) /\ SF_vars(Deadline(r))
  /\ \A u \in Users : WF_vars(\E r \in Runs : NotifyCreated(u, r))
  /\ WF_vars(ApiStart)

\* "Notify covers every normal transition; the ticker is only a safety net": the
\* 5 s ticker is relied on after a failed dispatch, and for nothing else.
TickAfterFailure == (\E r \in Runs : attempts[r] > 0) /\ Tick

FairSpec == Spec /\ Fairness /\ WF_vars(TickAfterFailure)

-----------------------------------------------------------------------------
(***************************************************************************)
(* Safety.                                                                 *)
(***************************************************************************)
\* A run the loop is past claiming and has not yet handed over or given back.
Dispatching(r) == pc \in {"send", "mark", "start", "failed"} /\ claimed = r

\* Queue.current is the one slot: whoever dispatches or records a run holds it,
\* and never both at once.  This is what dispatchNext's claim before the slow
\* work and release's comparison with the run id are for.
SlotHeld ==
  \A r \in Runs :
    /\ Dispatching(r) \/ rec[r] # "none" => current = r
    /\ ~(Dispatching(r) /\ rec[r] # "none")

\* The converse: a slot that is held has a goroutine that will give it back.
SlotOwned == current # NoRun => Dispatching(current) \/ rec[current] # "none"

\* Unless its caller is cut off from the fleet, a test executes only while its
\* run holds the slot: tests are serialised, as the Queue type promises.
ExecutesInSlot == \A r \in Runs : test[r] = "RUNNING" => current = r

\* A row reads RUNNING only while its run holds the slot, across crashes of the
\* API (FailInterruptedRuns) and runs that are given up.
RunningRowHoldsSlot == up => \A r \in Runs : row[r] = "RUNNING" => current = r

\* A viewer or a status request finds a session for as long as a run is being
\* recorded: the deferred delete of an older recorder never removes it.
RecordedHasSession == \A r \in Runs : rec[r] # "none" => r \in sessions

\* A run that has left QUEUED never comes back, one that is settled never reads
\* RUNNING again (MarkDispatched only updates a QUEUED row), and a deleted row
\* stays deleted.
Finality ==
  [][\A r \in Runs :
       /\ row[r] \in Settled => row'[r] \in Settled \cup {"DELETED"}
       /\ row[r] = "RUNNING" => row'[r] # "QUEUED"
       /\ row[r] = "DELETED" => row'[r] = "DELETED"]_vars

\* When onDone has fired and the queue may go on, the row of the run is final:
\* nobody else would ever finish it.
DoneIsTerminal ==
  \A r \in Runs : <<r, "notify">> \in leaving => row[r] \in Settled \cup {"DELETED"}

\* The abstract executor: it holds at most one run and executes only that one.
ExecutingTests == {r \in Runs : test[r] = "RUNNING"}
Serial == INSTANCE OneAtATime WITH holder <- current, executing <- ExecutingTests
ImplementsOneAtATime == Serial!Spec

-----------------------------------------------------------------------------
(***************************************************************************)
(* Liveness.                                                               *)
(***************************************************************************)
\* The recorder of r waits for an answer that never comes (recorder.go:199 has
\* no timeout): the one way past the backstop of recorder.go:173.
NeverAnswered(r) == <>[](rec[r] = "polling")

\* Whatever fails, and whether or not the test ever ends, the slot comes back,
\* at the latest with the deadline of the recorder: a lost call, a dead worker
\* or an orchestrator that has forgotten the test does not pin the queue.  Only
\* a status poll that is never answered does.
SlotReleased == \A r \in Runs : []<>(current # r) \/ NeverAnswered(r)

\* Every submitted run gets a final status, however often dispatch is refused or
\* its reply is lost and although no test may ever end, unless the API dies
\* first, and then again from its restart on, or a poll of the run that holds
\* the slot is never answered.  The nudges alone see to it where no dispatch
\* fails.
EveryRunSettles ==
  \/ \E q \in Runs : NeverAnswered(q)
  \/ \A r \in Runs : row[r] = "QUEUED" /\ up
                      ~> row[r] \in Settled \cup {"DELETED"} \/ ~up

-----------------------------------------------------------------------------
(***************************************************************************)
(* What comments and messages of the code say, and the code does not keep. *)
(***************************************************************************)
\* queue.go:228 "Cancel removes a run that has not started yet".
CancelledNeverExecutes == \A r \in Runs : row[r] = "CANCELLED" => test[r] # "RUNNING"
=============================================================================
