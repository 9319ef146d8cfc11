---------------------------- MODULE RunQueueProofs ----------------------------
(***************************************************************************)
(* Proofs about RunQueue, for every set of runs, every number of handlers, *)
(* every bound on dispatch attempts and the stated sets of faults.         *)
(***************************************************************************)
EXTENDS RunQueue, TLAPS

\* The program counter of the loop goroutine and the run it works on agree, and
\* a dead process has no goroutine and no slot.
LoopShape ==
  /\ pc \in {"select", "poll"} <=> claimed = NoRun
  /\ ~up => /\ pc = "select" /\ current = NoRun
            /\ \A r \in Runs : rec[r] = "none"

\* A count of failed attempts reaches the maximum only on its way to giveup.
AttemptsLeft ==
  \A r \in Runs : attempts[r] = MaxAttempts => pc = "giveup" /\ claimed = r

SlotInv == TypeOK /\ LoopShape /\ AttemptsLeft /\ SlotHeld /\ SlotOwned

-----------------------------------------------------------------------------
LEMMA InitSlotInv == Init => SlotInv
BY RunsAssumption, AttemptsPositive
   DEF Init, SlotInv, TypeOK, LoopShape, AttemptsLeft, SlotHeld, SlotOwned,
       Dispatching, RowStatus, Settled, TestStatus, SessionStatus, LoopPC,
       RecorderPC, HandlerPC, Idle

\* What a step of each kind leaves of the type invariant.
LEMMA LoopType == SlotInv /\ Loop => TypeOK'
<1> SUFFICES ASSUME SlotInv, Loop PROVE TypeOK'
  OBVIOUS
<1> USE RunsAssumption, AttemptsPositive
    DEF SlotInv, TypeOK, LoopShape, AttemptsLeft, queueVars, loopVars,
        recorderVars, fleetVars, BackToSelect, LoopPC
<1>1. CASE Woken          BY <1>1 DEF Woken
<1>2. CASE Tick           BY <1>2 DEF Tick
<1>3. CASE PollNothing    BY <1>3 DEF PollNothing
<1>4. CASE PollNext       BY <1>4 DEF PollNext
<1>5. CASE Claim          BY <1>5 DEF Claim
<1>6. CASE SendAccepted   BY <1>6 DEF SendAccepted, TestStatus
<1>7. CASE SendRefused    BY <1>7 DEF SendRefused
<1>8. CASE Mark
  BY <1>8 DEF Mark, MarkDispatched, DbError, RowStatus
<1>9. CASE StartRecorder
  BY <1>9 DEF StartRecorder, RecorderPC, SessionStatus
<1>10. CASE DispatchFailed
  <2>1. claimed \in Runs /\ attempts[claimed] \in 0 .. MaxAttempts /\ attempts[claimed] # MaxAttempts
    BY <1>10 DEF DispatchFailed
  <2>2. attempts[claimed] + 1 \in 0 .. MaxAttempts
    BY <2>1
  <2>3. attempts' \in [Runs -> 0 .. MaxAttempts]
    BY <1>10, <2>1, <2>2 DEF DispatchFailed
  <2> QED
    BY <1>10, <2>3 DEF DispatchFailed, Release
<1>11. CASE GiveUp
  BY <1>11 DEF GiveUp, SetRunStatus, DbError, RowStatus, Settled
<1> QED
  BY <1>1, <1>2, <1>3, <1>4, <1>5, <1>6, <1>7, <1>8, <1>9, <1>10, <1>11 DEF Loop

LEMMA RecordType ==
  ASSUME NEW r \in Runs, TypeOK, Record(r)
  PROVE  TypeOK'
<1> USE DEF TypeOK, queueVars, loopVars, recorderVars, fleetVars, RecorderPC
<1>1. CASE Connect(r)       BY <1>1 DEF Connect
<1>2. CASE ConnectFails(r)  BY <1>2 DEF ConnectFails, FinishWith, SessionStatus
<1>3. CASE ObserveEnd(r)    BY <1>3 DEF ObserveEnd, FinishWith, SessionStatus, TestEnded
<1>4. CASE StreamCloses(r)  BY <1>4 DEF StreamCloses, StreamEnds, FinishWith
<1>5. CASE Deadline(r)      BY <1>5 DEF Deadline, FinishWith, SessionStatus
<1>6. CASE FinishRun(r)
  BY <1>6 DEF FinishRun, SetRunStatus, DbError, RowStatus, Settled, SessionStatus
<1>7. CASE ReleaseSlot(r)   BY <1>7 DEF ReleaseSlot, Release, SessionStatus
<1>8. CASE NotifyDone(r)    BY <1>8 DEF NotifyDone
<1>9. CASE ForgetSession(r) BY <1>9 DEF ForgetSession
<1>10. CASE PollStatus(r) BY <1>10 DEF PollStatus
<1>11. CASE PollAgain(r) BY <1>11 DEF PollAgain
<1> QED
  BY <1>1, <1>2, <1>3, <1>4, <1>5, <1>6, <1>7, <1>8, <1>9, <1>10, <1>11 DEF Record

LEMMA HandleType ==
  ASSUME NEW u \in Users, NEW r \in Runs, TypeOK, Handle(u, r)
  PROVE  TypeOK'
<1> USE DEF TypeOK, queueVars, loopVars, recorderVars, fleetVars, HandlerPC,
            Begin, At, Done, Idle
<1>1. CASE CreateRun(u, r)     BY <1>1 DEF CreateRun, InsertRun, RowStatus
<1>2. CASE StopRun(u, r)       BY <1>2 DEF StopRun
<1>3. CASE CheckDelete(u, r)   BY <1>3 DEF CheckDelete
<1>4. CASE NotifyCreated(u, r) BY <1>4 DEF NotifyCreated
<1>5. CASE CancelQueued(u, r)
  BY <1>5 DEF CancelQueued, SetRunStatus, RowStatus, Settled
<1>6. CASE StopTest(u, r)      BY <1>6 DEF StopTest, TestStatus
<1>7. CASE DeleteRun(u, r)     BY <1>7 DEF DeleteRun, SetRunStatus, RowStatus
<1> QED
  BY <1>1, <1>2, <1>3, <1>4, <1>5, <1>6, <1>7 DEF Handle, Proceed

LEMMA EnvironmentType ==
  ASSUME TypeOK,
         \/ \E r \in Runs : WorkersDone(r) \/ SetCompleted(r)
         \/ OrchRestart \/ ApiCrash \/ ApiStart
  PROVE  TypeOK'
<1> USE DEF TypeOK, queueVars, loopVars, recorderVars, fleetVars
<1>1. ASSUME NEW r \in Runs, WorkersDone(r) PROVE TypeOK'
  BY <1>1 DEF WorkersDone
<1>2. ASSUME NEW r \in Runs, SetCompleted(r) PROVE TypeOK'
  BY <1>2 DEF SetCompleted, TestStatus
<1>3. CASE OrchRestart  BY <1>3 DEF OrchRestart, TestStatus
<1>4. CASE ApiCrash
  <2> USE <1>4 DEF ApiCrash
  <2>1. row' \in [Runs -> RowStatus] /\ up' \in BOOLEAN /\ wake' \in BOOLEAN
    OBVIOUS
  <2>2. /\ current' \in Runs \cup {NoRun}
        /\ pc' \in LoopPC /\ claimed' \in Runs \cup {NoRun}
    BY DEF BackToSelect, LoopPC
  <2>3. attempts' \in [Runs -> 0 .. MaxAttempts]
    BY AttemptsPositive
  <2>4. rec' \in [Runs -> RecorderPC] /\ verdict' \in [Runs -> SessionStatus]
    BY DEF RecorderPC, SessionStatus
  <2>5. handler' \in [Users -> [at : HandlerPC, run : Runs \cup {NoRun}]]
    BY DEF Idle, HandlerPC
  <2>6. /\ sessions' \in SUBSET Runs
        /\ leaving' \in SUBSET (Runs \X {"notify", "cleanup"})
        /\ test' \in [Runs -> TestStatus] /\ completing' \in SUBSET Runs
    OBVIOUS
  <2> QED
    BY <2>1, <2>2, <2>3, <2>4, <2>5, <2>6
<1>5. CASE ApiStart
  BY <1>5 DEF ApiStart, FailInterruptedRuns, DbError, RowStatus, Settled
<1> QED  BY <1>1, <1>2, <1>3, <1>4, <1>5

-----------------------------------------------------------------------------
(***************************************************************************)
(* The slot.  SlotInv is inductive: SlotHeld alone is not, because a claim *)
(* by the loop is only known to find the recorders idle if they are all    *)
(* known to hold the slot.                                                 *)
(***************************************************************************)
LEMMA LoopSlot == SlotInv /\ Loop => SlotInv'
<1> SUFFICES ASSUME SlotInv, Loop PROVE SlotInv'
  OBVIOUS
<1>t. TypeOK'
  BY LoopType
<1> USE RunsAssumption, AttemptsPositive
    DEF SlotInv, LoopShape, AttemptsLeft, SlotHeld, SlotOwned, Dispatching,
        queueVars, loopVars, recorderVars, fleetVars, BackToSelect
<1>1. CASE Woken          BY <1>t, <1>1 DEF Woken
<1>2. CASE Tick           BY <1>t, <1>2 DEF Tick
<1>3. CASE PollNothing    BY <1>t, <1>3 DEF PollNothing
<1>4. CASE PollNext       BY <1>t, <1>4 DEF PollNext
<1>5. CASE Claim          BY <1>t, <1>5 DEF Claim, TypeOK
<1>6. CASE SendAccepted   BY <1>t, <1>6 DEF SendAccepted
<1>7. CASE SendRefused    BY <1>t, <1>7 DEF SendRefused
<1>8. CASE Mark           BY <1>t, <1>8 DEF Mark
<1>9. CASE StartRecorder  BY <1>t, <1>9 DEF StartRecorder, TypeOK
<1>10. CASE DispatchFailed
  <2>1. claimed \in Runs /\ current = claimed /\ current' = NoRun
    BY <1>10 DEF DispatchFailed, Release, TypeOK
  <2>2. \A r \in Runs : rec[r] = "none" /\ rec'[r] = "none"
    BY <1>10, <2>1 DEF DispatchFailed
  <2>3. SlotHeld' /\ SlotOwned' /\ LoopShape'
    BY <1>10, <2>1, <2>2 DEF DispatchFailed
  <2>4. AttemptsLeft'
    <3>1. SUFFICES ASSUME NEW r \in Runs, attempts'[r] = MaxAttempts
                   PROVE  pc' = "giveup" /\ claimed' = r
      OBVIOUS
    <3>2. CASE r = claimed
      <4>1. attempts[claimed] + 1 = MaxAttempts
        BY <3>1, <3>2, <1>10 DEF DispatchFailed, TypeOK
      <4> QED
        BY <4>1, <3>2, <1>10 DEF DispatchFailed, TypeOK
    <3>3. CASE r # claimed
      BY <3>1, <3>3, <1>10 DEF DispatchFailed, TypeOK
    <3> QED
      BY <3>2, <3>3
  <2> QED
    BY <1>t, <2>3, <2>4
<1>11. CASE GiveUp        BY <1>t, <1>11 DEF GiveUp, TypeOK
<1> QED
  BY <1>1, <1>2, <1>3, <1>4, <1>5, <1>6, <1>7, <1>8, <1>9, <1>10, <1>11 DEF Loop

LEMMA RecordSlot ==
  ASSUME NEW r \in Runs, SlotInv, Record(r)
  PROVE  SlotInv'
<1>t. TypeOK'
  BY RecordType DEF SlotInv
<1> USE RunsAssumption
    DEF SlotInv, LoopShape, AttemptsLeft, SlotHeld, SlotOwned, Dispatching,
        queueVars, loopVars, recorderVars, fleetVars, TypeOK
<1>1. CASE Connect(r)       BY <1>t, <1>1 DEF Connect
<1>2. CASE ConnectFails(r)  BY <1>t, <1>2 DEF ConnectFails, FinishWith
<1>3. CASE ObserveEnd(r)    BY <1>t, <1>3 DEF ObserveEnd, FinishWith
<1>4. CASE StreamCloses(r)  BY <1>t, <1>4 DEF StreamCloses, StreamEnds, FinishWith
<1>5. CASE Deadline(r)      BY <1>t, <1>5 DEF Deadline, FinishWith
<1>6. CASE FinishRun(r)     BY <1>t, <1>6 DEF FinishRun
<1>7. CASE ReleaseSlot(r)   BY <1>t, <1>7 DEF ReleaseSlot, Release
<1>8. CASE NotifyDone(r)    BY <1>t, <1>8 DEF NotifyDone
<1>9. CASE ForgetSession(r) BY <1>t, <1>9 DEF ForgetSession
<1>10. CASE PollStatus(r) BY <1>t, <1>10 DEF PollStatus
<1>11. CASE PollAgain(r) BY <1>t, <1>11 DEF PollAgain
<1> QED
  BY <1>1, <1>2, <1>3, <1>4, <1>5, <1>6, <1>7, <1>8, <1>9, <1>10, <1>11 DEF Record

\* No other step touches the loop, a recorder or the slot, except a crash.
LEMMA ElsewhereUnchanged ==
  ASSUME \/ \E u \in Users, r \in Runs : Handle(u, r)
         \/ \E r \in Runs : WorkersDone(r) \/ SetCompleted(r)
         \/ OrchRestart
  PROVE  UNCHANGED <<up, current, attempts, loopVars, recorderVars>>
<1> USE DEF queueVars, recorderVars
<1>1. ASSUME NEW u \in Users, NEW r \in Runs, Handle(u, r)
      PROVE  UNCHANGED <<up, current, attempts, loopVars, recorderVars>>
  BY <1>1 DEF Handle, Proceed, CreateRun, InsertRun, StopRun, CheckDelete, NotifyCreated,
              CancelQueued, StopTest, DeleteRun
<1> QED
  BY <1>1 DEF WorkersDone, SetCompleted, OrchRestart

LEMMA ElsewhereSlot ==
  ASSUME SlotInv, TypeOK',
         UNCHANGED <<up, current, attempts, loopVars, recorderVars>>
  PROVE  SlotInv'
BY DEF SlotInv, LoopShape, AttemptsLeft, SlotHeld, SlotOwned, Dispatching,
       loopVars, recorderVars

LEMMA NextSlotInv == SlotInv /\ [Next]_vars => SlotInv'
<1> SUFFICES ASSUME SlotInv, [Next]_vars PROVE SlotInv'
  OBVIOUS
<1>1. CASE Loop
  BY <1>1, LoopSlot
<1>2. ASSUME NEW r \in Runs, Record(r) PROVE SlotInv'
  BY <1>2, RecordSlot
<1>3. ASSUME NEW u \in Users, NEW r \in Runs, Handle(u, r) PROVE SlotInv'
  BY <1>3, HandleType, ElsewhereUnchanged, ElsewhereSlot DEF SlotInv
<1>4. ASSUME (\E r \in Runs : WorkersDone(r) \/ SetCompleted(r)) \/ OrchRestart
      PROVE  SlotInv'
  BY <1>4, EnvironmentType, ElsewhereUnchanged, ElsewhereSlot DEF SlotInv
<1>5. CASE ApiCrash
  BY <1>5, EnvironmentType, RunsAssumption, AttemptsPositive
     DEF SlotInv, ApiCrash, BackToSelect, LoopShape, AttemptsLeft, SlotHeld,
         SlotOwned, Dispatching
<1>6. CASE ApiStart
  BY <1>6, EnvironmentType
     DEF SlotInv, ApiStart, LoopShape, AttemptsLeft, SlotHeld, SlotOwned,
         Dispatching, loopVars, recorderVars
<1>7. CASE UNCHANGED vars
  BY <1>7 DEF vars, SlotInv, TypeOK, LoopShape, AttemptsLeft, SlotHeld,
              SlotOwned, Dispatching, queueVars, loopVars, recorderVars, fleetVars
<1> QED
  BY <1>1, <1>2, <1>3, <1>4, <1>5, <1>6, <1>7 DEF Next

\* The inductive invariant: types, the shape of the loop, the attempts that are left,
\* and both readings of the slot.
THEOREM SlotInvariant == Spec => []SlotInv
BY InitSlotInv, NextSlotInv, PTL DEF Spec

\* Queue, recorder, table, orchestrator and handlers keep their types; in
\* particular no run is tried more than maxDispatchAttempts times.
THEOREM TypeCorrect == Spec => []TypeOK
<1>1. SlotInv => TypeOK
  BY DEF SlotInv
<1> QED
  BY <1>1, SlotInvariant, PTL

\* Whatever fails, a run that is dispatched or recorded holds the one slot, and
\* is never both: Queue.current serialises.
THEOREM SlotIsExclusive == Spec => []SlotHeld
<1>1. SlotInv => SlotHeld
  BY DEF SlotInv
<1> QED
  BY <1>1, SlotInvariant, PTL

\* Whatever fails, a slot that is held has a goroutine that will give it back: no
\* error path of dispatchNext, dispatch or finish returns with it.
THEOREM SlotHasOwner == Spec => []SlotOwned
<1>1. SlotInv => SlotOwned
  BY DEF SlotInv
<1> QED
  BY <1>1, SlotInvariant, PTL

-----------------------------------------------------------------------------
(***************************************************************************)
(* Serialisation.  As long as no fault cuts the API off from a test it has *)
(* started, a test that executes is one the loop is about to hand to a     *)
(* recorder, or one whose recorder has not yet seen it end.                *)
(***************************************************************************)
Attached == Faults \cap {"lost_reply", "stream_break", "deadline",
                         "api_crash", "orch_restart"} = {}

ExecInv ==
  \A r \in Runs : test[r] = "RUNNING" =>
    \/ Dispatching(r) /\ pc \in {"mark", "start"}
    \/ rec[r] \in {"connect", "recording", "polling"}

LEMMA InitExecInv == Init => ExecInv
BY DEF Init, ExecInv, Dispatching

LEMMA NextExecInv ==
  ASSUME Attached, SlotInv, ExecInv, [Next]_vars
  PROVE  ExecInv'
<1> USE DEF ExecInv, Dispatching, queueVars, loopVars, recorderVars,
            fleetVars, BackToSelect, TypeOK, SlotInv
<1>1. ASSUME Loop PROVE ExecInv'
  <2> USE DEF LoopShape, SlotHeld
  <2>1. CASE Woken         BY <2>1 DEF Woken
  <2>2. CASE Tick          BY <2>2 DEF Tick
  <2>3. CASE PollNothing   BY <2>3 DEF PollNothing
  <2>4. CASE PollNext      BY <2>4 DEF PollNext
  <2>5. CASE Claim         BY <2>5 DEF Claim
  <2>6. CASE SendAccepted  BY <2>6 DEF SendAccepted, Attached
  <2>7. CASE SendRefused   BY <2>7 DEF SendRefused
  <2>8. CASE Mark          BY <2>8 DEF Mark
  <2>9. CASE StartRecorder BY <2>9 DEF StartRecorder
  <2>10. CASE DispatchFailed BY <2>10 DEF DispatchFailed
  <2>11. CASE GiveUp       BY <2>11 DEF GiveUp
  <2> QED
    BY <1>1, <2>1, <2>2, <2>3, <2>4, <2>5, <2>6, <2>7, <2>8, <2>9, <2>10, <2>11
       DEF Loop
<1>2. ASSUME NEW r \in Runs, Record(r) PROVE ExecInv'
  <2>1. CASE Connect(r)       BY <2>1 DEF Connect
  <2>2. CASE ConnectFails(r)  BY <2>2 DEF ConnectFails, Attached
  <2>3. CASE ObserveEnd(r)    BY <2>3 DEF ObserveEnd, FinishWith, TestEnded
  <2>4. CASE StreamCloses(r)
    <3>1. test[r] = "NONE"
      BY <2>4 DEF StreamCloses, StreamEnds, Attached
    <3> QED
      BY <2>4, <3>1 DEF StreamCloses, StreamEnds, FinishWith
  <2>5. CASE Deadline(r)      BY <2>5 DEF Deadline, Attached
  <2>6. CASE FinishRun(r)     BY <2>6 DEF FinishRun
  <2>7. CASE ReleaseSlot(r)   BY <2>7 DEF ReleaseSlot
  <2>8. CASE NotifyDone(r)    BY <2>8 DEF NotifyDone
  <2>9. CASE ForgetSession(r) BY <2>9 DEF ForgetSession
  <2>10. CASE PollStatus(r) BY <2>10 DEF PollStatus
  <2>11. CASE PollAgain(r) BY <2>11 DEF PollAgain
  <2> QED
    BY <1>2, <2>1, <2>2, <2>3, <2>4, <2>5, <2>6, <2>7, <2>8, <2>9, <2>10, <2>11 DEF Record
<1>3. ASSUME NEW r \in Runs, WorkersDone(r) \/ SetCompleted(r)
      PROVE  ExecInv'
  BY <1>3 DEF WorkersDone, SetCompleted
<1>4. ASSUME NEW u \in Users, NEW r \in Runs, Handle(u, r)
      PROVE  ExecInv'
  BY <1>4 DEF Handle, Proceed, CreateRun, InsertRun, StopRun, CheckDelete, NotifyCreated,
              CancelQueued, StopTest, DeleteRun
<1>5. CASE OrchRestart  BY <1>5 DEF OrchRestart, Attached
<1>6. CASE ApiCrash     BY <1>6 DEF ApiCrash, Attached
<1>7. CASE ApiStart     BY <1>7 DEF ApiStart
<1>8. CASE UNCHANGED vars  BY <1>8 DEF vars
<1> QED
  BY <1>1, <1>2, <1>3, <1>4, <1>5, <1>6, <1>7, <1>8 DEF Next

LEMMA ExecInvariant ==
  ASSUME Attached
  PROVE  Spec => [](SlotInv /\ ExecInv)
<1>1. Init => SlotInv /\ ExecInv
  BY InitSlotInv, InitExecInv
<1>2. SlotInv /\ ExecInv /\ [Next]_vars
      => (SlotInv /\ ExecInv)'
  BY Attached, NextSlotInv, NextExecInv
<1> QED
  BY <1>1, <1>2, PTL DEF Spec

LEMMA ExecInvExecutesInSlot == SlotInv /\ ExecInv => ExecutesInSlot
BY DEF SlotInv, SlotHeld, ExecInv, ExecutesInSlot

\* "Queue executes runs one at a time": a test executes only while its run holds
\* the slot, when dispatch may be refused and database statements may fail.
THEOREM ExecutionInSlot ==
  ASSUME Attached
  PROVE  Spec => []ExecutesInSlot
BY ExecInvariant, ExecInvExecutesInSlot, PTL

(***************************************************************************)
(* Refinement: claims acquire the slot, an accepted dispatch executes, the *)
(* end of the test stops, and both ways of releasing give the slot back.   *)
(***************************************************************************)
LEMMA StepSimulates ==
  ASSUME Attached, SlotInv, ExecInv, [Next]_vars
  PROVE  [Serial!Next]_(Serial!vars)
<1>e. ASSUME UNCHANGED <<current, test>> PROVE [Serial!Next]_(Serial!vars)
  BY <1>e DEF Serial!vars, ExecutingTests
<1>x. ExecutingTests = {} \/ ExecutingTests = {current}
  BY ExecInvExecutesInSlot DEF ExecutesInSlot, ExecutingTests
<1>s. ASSUME NEW r \in Runs, UNCHANGED current,
             \A q \in Runs \ {r} : test'[q] = test[q],
             test'[r] # "RUNNING"
      PROVE  [Serial!Next]_(Serial!vars)
  <2>1. ExecutingTests' = ExecutingTests \ {r}
    BY <1>s DEF ExecutingTests
  <2>2. ExecutingTests' = {} \/ ExecutingTests' = ExecutingTests
    BY <2>1, <1>x
  <2> QED
    BY <1>s, <2>2 DEF Serial!vars, Serial!Next, Serial!Stop
<1> USE DEF queueVars, loopVars, recorderVars, fleetVars, BackToSelect
<1>1. ASSUME Loop PROVE [Serial!Next]_(Serial!vars)
  <2>1. CASE Claim
    <3>1. CASE current # NoRun
      BY <1>e, <2>1, <3>1 DEF Claim
    <3>2. CASE current = NoRun
      <4>1. claimed \in Runs /\ current' = claimed /\ test' = test
        BY <2>1, <3>2 DEF Claim, SlotInv, LoopShape, TypeOK
      <4> QED
        BY <3>2, <4>1 DEF Serial!Next, Serial!Acquire, ExecutingTests
    <3> QED
      BY <3>1, <3>2
  <2>2. CASE SendAccepted
    <3>1. claimed \in Runs /\ current = claimed /\ current # NoRun /\ current' = current
      BY <2>2, RunsAssumption
         DEF SendAccepted, SlotInv, LoopShape, TypeOK, SlotHeld, Dispatching
    <3>2. ExecutingTests' = {claimed}
      BY <2>2, <3>1, <1>x DEF SendAccepted, ExecutingTests, SlotInv, TypeOK
    <3> QED
      BY <3>1, <3>2 DEF Serial!Next, Serial!Execute
  <2>3. CASE DispatchFailed
    <3>1. claimed \in Runs /\ current = claimed /\ current' = NoRun /\ test' = test
      BY <2>3 DEF DispatchFailed, Release, SlotInv, LoopShape, TypeOK, SlotHeld,
                  Dispatching
    <3>2. test[claimed] # "RUNNING"
      BY <2>3, <3>1 DEF DispatchFailed, ExecInv, SlotInv, SlotHeld, Dispatching
    <3>3. ExecutingTests = {} /\ ExecutingTests' = {}
      BY <1>x, <3>1, <3>2 DEF ExecutingTests
    <3> QED
      BY <3>1, <3>3 DEF Serial!Next, Serial!GiveBack
  <2> QED
    BY <1>1, <1>e, <2>1, <2>2, <2>3
       DEF Loop, Woken, Tick, PollNothing, PollNext, SendRefused, Mark,
           StartRecorder, GiveUp
<1>2. ASSUME NEW r \in Runs, Record(r) PROVE [Serial!Next]_(Serial!vars)
  <2>1. CASE ReleaseSlot(r)
    <3>1. current = r /\ current' = NoRun /\ test' = test
      BY <2>1 DEF ReleaseSlot, Release, SlotInv, SlotHeld
    <3>2. test[r] # "RUNNING"
      BY <2>1 DEF ReleaseSlot, ExecInv, SlotInv, SlotHeld
    <3>3. ExecutingTests = {} /\ ExecutingTests' = {}
      BY <1>x, <3>1, <3>2 DEF ExecutingTests
    <3> QED
      BY <3>1, <3>3 DEF Serial!Next, Serial!GiveBack
  <2> QED
    BY <1>2, <1>e, <2>1
       DEF Record, Connect, ConnectFails, PollStatus, PollAgain, ObserveEnd,
           StreamCloses, Deadline, FinishWith, FinishRun, NotifyDone, ForgetSession
<1>3. ASSUME NEW r \in Runs, WorkersDone(r) PROVE [Serial!Next]_(Serial!vars)
  BY <1>3, <1>e DEF WorkersDone
<1>4. ASSUME NEW r \in Runs, SetCompleted(r) PROVE [Serial!Next]_(Serial!vars)
  <2>1. /\ UNCHANGED current /\ test'[r] # "RUNNING"
        /\ \A q \in Runs \ {r} : test'[q] = test[q]
    BY <1>4 DEF SetCompleted, SlotInv, TypeOK
  <2> QED
    BY <1>s, <2>1
<1>5. ASSUME NEW u \in Users, NEW r \in Runs, Handle(u, r)
      PROVE  [Serial!Next]_(Serial!vars)
  <2>1. CASE StopTest(u, r)
    <3>1. /\ UNCHANGED current /\ test'[r] # "RUNNING"
          /\ \A q \in Runs \ {r} : test'[q] = test[q]
      BY <2>1 DEF StopTest, SlotInv, TypeOK
    <3> QED
      BY <1>s, <3>1
  <2> QED
    BY <1>5, <1>e, <2>1
       DEF Handle, Proceed, CreateRun, InsertRun, StopRun, CheckDelete, NotifyCreated,
           CancelQueued, DeleteRun
<1>6. CASE OrchRestart  BY <1>6 DEF OrchRestart, Attached
<1>7. CASE ApiCrash     BY <1>7 DEF ApiCrash, Attached
<1>8. CASE ApiStart     BY <1>8, <1>e DEF ApiStart
<1>9. CASE UNCHANGED vars  BY <1>9, <1>e DEF vars
<1> QED
  BY <1>1, <1>2, <1>3, <1>4, <1>5, <1>6, <1>7, <1>8, <1>9 DEF Next

\* The queue implements the executor that runs one test at a time, under the same
\* faults.
THEOREM Serialises ==
  ASSUME Attached
  PROVE  Spec => ImplementsOneAtATime
<1>1. Init => Serial!Init
  BY DEF Init, Serial!Init, ExecutingTests
<1>2. SlotInv /\ ExecInv /\ [Next]_vars => [Serial!Next]_(Serial!vars)
  BY Attached, StepSimulates
<1> QED
  BY <1>1, <1>2, ExecInvariant, PTL DEF Spec, ImplementsOneAtATime, Serial!Spec

-----------------------------------------------------------------------------
(***************************************************************************)
(* The runs table.  As long as statements succeed and no stream is cut,    *)
(* a row reads RUNNING only between MarkDispatched and FinishRun, and what *)
(* FinishRun writes is final.  The API may crash at any point.             *)
(***************************************************************************)
Recorded == Faults \cap {"db_error", "stream_break", "orch_restart"} = {}

\* The stretch of the code over which the run's test exists at the orchestrator.
Watched(r) ==
  \/ Dispatching(r) /\ pc \in {"mark", "start"}
  \/ rec[r] \in {"connect", "recording", "polling"}

RowInv ==
  \A r \in Runs :
    /\ Watched(r) => test[r] # "NONE"
    /\ rec[r] = "finish" => verdict[r] # "RUNNING"
    /\ up /\ row[r] = "RUNNING" =>
         \/ pc = "start" /\ claimed = r
         \/ rec[r] \in {"connect", "recording", "polling", "finish"}

LEMMA InitRowInv == Init => RowInv
BY DEF Init, RowInv, Watched, Dispatching

LEMMA LoopRowInv ==
  ASSUME Recorded, SlotInv, RowInv, Loop
  PROVE  RowInv'
<1> USE DEF RowInv, Watched, Dispatching, queueVars, loopVars, recorderVars,
            fleetVars, BackToSelect, TypeOK, SlotInv, LoopShape, SlotHeld
<1>1. CASE Woken         BY <1>1 DEF Woken
<1>2. CASE Tick          BY <1>2 DEF Tick
<1>3. CASE PollNothing   BY <1>3 DEF PollNothing
<1>4. CASE PollNext      BY <1>4 DEF PollNext
<1>5. CASE Claim         BY <1>5 DEF Claim
<1>6. CASE SendAccepted  BY <1>6 DEF SendAccepted
<1>7. CASE SendRefused   BY <1>7 DEF SendRefused
<1>8. CASE Mark
  <2>1. UNCHANGED <<test, rec, verdict, up, claimed>> /\ pc = "mark" /\ pc' = "start"
    BY <1>8 DEF Mark
  <2>2. \A r \in Runs : row'[r] = "RUNNING" => row[r] = "RUNNING" \/ r = claimed
    BY <1>8 DEF Mark, MarkDispatched, DbError
  <2> QED
    BY <2>1, <2>2
<1>9. CASE StartRecorder BY <1>9 DEF StartRecorder
<1>10. CASE DispatchFailed BY <1>10 DEF DispatchFailed
<1>11. CASE GiveUp
  <2>1. \A r \in Runs : row'[r] = "RUNNING" => row[r] = "RUNNING"
    BY <1>11 DEF GiveUp, SetRunStatus, DbError
  <2> QED
    BY <1>11, <2>1 DEF GiveUp
<1> QED
  BY <1>1, <1>2, <1>3, <1>4, <1>5, <1>6, <1>7, <1>8, <1>9, <1>10, <1>11 DEF Loop

LEMMA RecordRowInv ==
  ASSUME Recorded, SlotInv, RowInv, NEW r \in Runs, Record(r)
  PROVE  RowInv'
<1> USE DEF RowInv, Watched, Dispatching, queueVars, loopVars, recorderVars,
            fleetVars, TypeOK, SlotInv
<1>1. CASE Connect(r)       BY <1>1 DEF Connect
<1>2. CASE ConnectFails(r)  BY <1>2 DEF ConnectFails, FinishWith
<1>3. CASE ObserveEnd(r)    BY <1>3 DEF ObserveEnd, FinishWith, TestEnded
<1>4. CASE StreamCloses(r)
  <2>1. test[r] = "NONE" /\ rec[r] = "recording"
    BY <1>4 DEF StreamCloses, StreamEnds, Recorded
  <2> QED
    BY <2>1
<1>5. CASE Deadline(r)      BY <1>5 DEF Deadline, FinishWith
<1>6. CASE FinishRun(r)
  <2>1. row' = IF Present(r) THEN [row EXCEPT ![r] = verdict[r]] ELSE row
    BY <1>6 DEF FinishRun, SetRunStatus, DbError, Recorded
  <2>2. row'[r] # "RUNNING"
    BY <1>6, <2>1 DEF FinishRun, Present, SlotHeld
  <2>3. \A q \in Runs \ {r} : row'[q] = row[q]
    BY <2>1
  <2>4. /\ UNCHANGED <<test, verdict, up, pc, claimed>>
        /\ rec[r] = "finish" /\ rec' = [rec EXCEPT ![r] = "release"]
    BY <1>6 DEF FinishRun
  <2> QED
    BY <2>2, <2>3, <2>4
<1>7. CASE ReleaseSlot(r)   BY <1>7 DEF ReleaseSlot
<1>8. CASE NotifyDone(r)    BY <1>8 DEF NotifyDone
<1>9. CASE ForgetSession(r) BY <1>9 DEF ForgetSession
<1>10. CASE PollStatus(r) BY <1>10 DEF PollStatus
<1>11. CASE PollAgain(r) BY <1>11 DEF PollAgain
<1> QED
  BY <1>1, <1>2, <1>3, <1>4, <1>5, <1>6, <1>7, <1>8, <1>9, <1>10, <1>11 DEF Record

LEMMA NextRowInv ==
  ASSUME Recorded, SlotInv, RowInv, [Next]_vars
  PROVE  RowInv'
<1>1. CASE Loop
  BY <1>1, LoopRowInv
<1>2. ASSUME NEW r \in Runs, Record(r) PROVE RowInv'
  BY <1>2, RecordRowInv
<1> USE DEF RowInv, Watched, Dispatching, queueVars, loopVars, recorderVars,
            fleetVars, TypeOK, SlotInv
<1>3. ASSUME NEW r \in Runs, WorkersDone(r) \/ SetCompleted(r) PROVE RowInv'
  BY <1>3 DEF WorkersDone, SetCompleted
<1>4. ASSUME NEW u \in Users, NEW r \in Runs, Handle(u, r) PROVE RowInv'
  <2>1. \A q \in Runs : row'[q] = "RUNNING" => row[q] = "RUNNING"
    BY <1>4 DEF Handle, Proceed, CreateRun, InsertRun, StopRun, CheckDelete, NotifyCreated,
                CancelQueued, StopTest, DeleteRun, SetRunStatus
  <2>2. UNCHANGED <<up, loopVars, recorderVars>>
    BY <1>4, ElsewhereUnchanged
  <2>3. \A q \in Runs : test[q] # "NONE" => test'[q] # "NONE"
    BY <1>4 DEF Handle, Proceed, CreateRun, InsertRun, StopRun, CheckDelete, NotifyCreated,
                CancelQueued, StopTest, DeleteRun
  <2> QED
    BY <2>1, <2>2, <2>3
<1>5. CASE OrchRestart  BY <1>5 DEF OrchRestart, Recorded
<1>6. CASE ApiCrash     BY <1>6 DEF ApiCrash, BackToSelect
<1>7. CASE ApiStart
  <2>1. \A r \in Runs : row'[r] # "RUNNING"
    BY <1>7 DEF ApiStart, FailInterruptedRuns, DbError, Recorded
  <2> QED
    BY <1>7, <2>1 DEF ApiStart
<1>8. CASE UNCHANGED vars  BY <1>8 DEF vars
<1> QED
  BY <1>1, <1>2, <1>3, <1>4, <1>5, <1>6, <1>7, <1>8 DEF Next

LEMMA RowInvariant ==
  ASSUME Recorded
  PROVE  Spec => [](SlotInv /\ RowInv)
<1>1. Init => SlotInv /\ RowInv
  BY InitSlotInv, InitRowInv
<1>2. SlotInv /\ RowInv /\ [Next]_vars => (SlotInv /\ RowInv)'
  BY Recorded, NextSlotInv, NextRowInv
<1> QED
  BY <1>1, <1>2, PTL DEF Spec

\* "Exactly one should be RUNNING at any moment": a row that reads RUNNING is the
\* run holding the slot, through crashes and restarts of the API process.
THEOREM RunningRowInSlot ==
  ASSUME Recorded
  PROVE  Spec => []RunningRowHoldsSlot
<1>1. SlotInv /\ RowInv => RunningRowHoldsSlot
  BY DEF SlotInv, RowInv, SlotHeld, Dispatching, RunningRowHoldsSlot
<1> QED
  BY <1>1, RowInvariant, PTL

LEMMA FinalityStep ==
  ASSUME Recorded, SlotInv, RowInv, [Next]_vars, NEW r \in Runs
  PROVE  /\ row[r] \in Settled => row'[r] \in Settled \cup {"DELETED"}
         /\ row[r] = "RUNNING" => row'[r] # "QUEUED"
         /\ row[r] = "DELETED" => row'[r] = "DELETED"
<1> DEFINE Final == /\ row[r] \in Settled => row'[r] \in Settled \cup {"DELETED"}
                    /\ row[r] = "RUNNING" => row'[r] # "QUEUED"
                    /\ row[r] = "DELETED" => row'[r] = "DELETED"
<1>u. ASSUME UNCHANGED row PROVE Final
  BY <1>u
<1>s. ASSUME NEW q \in Runs, NEW s \in Settled \cup {"DELETED"}, SetRunStatus(q, s)
      PROVE  Final
  BY <1>s DEF SetRunStatus, Present, Settled, SlotInv, TypeOK
<1>1. ASSUME Loop PROVE Final
  <2>1. CASE Mark
    BY <2>1 DEF Mark, MarkDispatched, DbError, Settled, SlotInv, TypeOK
  <2>2. CASE GiveUp
    <3>1. claimed \in Runs
      BY <2>2 DEF GiveUp, SlotInv, LoopShape, TypeOK
    <3> QED
      BY <2>2, <3>1, <1>s, <1>u DEF GiveUp, DbError, Settled
  <2> QED
    BY <1>1, <1>u, <2>1, <2>2
       DEF Loop, Woken, Tick, PollNothing, PollNext, Claim, SendAccepted,
           SendRefused, StartRecorder, DispatchFailed
<1>2. ASSUME NEW q \in Runs, Record(q) PROVE Final
  <2>1. CASE FinishRun(q)
    <3>1. verdict[q] \in Settled
      BY <2>1 DEF FinishRun, RowInv, SlotInv, TypeOK, SessionStatus, Settled
    <3> QED
      BY <2>1, <3>1, <1>s, <1>u DEF FinishRun, DbError
  <2> QED
    BY <1>2, <1>u, <2>1
       DEF Record, Connect, ConnectFails, PollStatus, PollAgain, ObserveEnd,
           StreamCloses, Deadline, FinishWith, ReleaseSlot, NotifyDone, ForgetSession
<1>3. ASSUME NEW u \in Users, NEW q \in Runs, Handle(u, q) PROVE Final
  <2>1. CASE CreateRun(u, q)
    BY <2>1 DEF CreateRun, InsertRun, Settled, SlotInv, TypeOK
  <2>2. CASE CancelQueued(u, q)
    BY <2>2, <1>s, <1>u DEF CancelQueued, Settled
  <2>3. CASE DeleteRun(u, q)
    BY <2>3, <1>s DEF DeleteRun
  <2> QED
    BY <1>3, <1>u, <2>1, <2>2, <2>3
       DEF Handle, Proceed, StopRun, CheckDelete, NotifyCreated, StopTest
<1>4. CASE ApiStart
  BY <1>4, <1>u DEF ApiStart, FailInterruptedRuns, DbError, Settled
<1> QED
  BY <1>1, <1>2, <1>3, <1>4, <1>u
     DEF Next, WorkersDone, SetCompleted, OrchRestart, ApiCrash, vars

\* A settled run stays settled until it is deleted, and a deleted one is never
\* resurrected, however cancels, dispatches, recorders and crashes interleave.
THEOREM RowsAreFinal ==
  ASSUME Recorded
  PROVE  Spec => Finality
<1>1. SlotInv /\ RowInv /\ [Next]_vars =>
        [\A r \in Runs :
           /\ row[r] \in Settled => row'[r] \in Settled \cup {"DELETED"}
           /\ row[r] = "RUNNING" => row'[r] # "QUEUED"
           /\ row[r] = "DELETED" => row'[r] = "DELETED"]_vars
  BY Recorded, FinalityStep
<1> QED
  BY <1>1, RowInvariant, PTL DEF Spec, Finality

-----------------------------------------------------------------------------
(***************************************************************************)
(* Sessions.  The deferred delete of a session is by run id, so it is safe *)
(* only because no run is recorded twice by one process: a run that has    *)
(* been handed to a recorder never reads QUEUED again, as long as          *)
(* statements succeed.  Streams may be cut, either process may restart.    *)
(***************************************************************************)
Written == "db_error" \notin Faults

Leaving(r) == <<r, "notify">> \in leaving \/ <<r, "cleanup">> \in leaving

SessionInv ==
  \A r \in Runs :
    /\ rec[r] # "none" => r \in sessions /\ ~Leaving(r)
    /\ rec[r] # "none" \/ Leaving(r) => claimed # r /\ row[r] \notin {"NONE", "QUEUED"}
    /\ claimed = r => row[r] # "NONE"
    /\ claimed = r /\ pc = "start" => row[r] # "QUEUED"

LEMMA InitSessionInv == Init => SessionInv
BY RunsAssumption DEF Init, SessionInv, Leaving

\* No statement makes a run that has left NONE or QUEUED go back there.
LEMMA NeverQueuedAgain ==
  ASSUME SlotInv, [Next]_vars, NEW r \in Runs
  PROVE  /\ row[r] # "NONE" => row'[r] # "NONE"
         /\ row[r] \notin {"NONE", "QUEUED"} => row'[r] \notin {"NONE", "QUEUED"}
<1> DEFINE Forward == /\ row[r] # "NONE" => row'[r] # "NONE"
                      /\ row[r] \notin {"NONE", "QUEUED"}
                           => row'[r] \notin {"NONE", "QUEUED"}
<1>u. ASSUME UNCHANGED row PROVE Forward
  BY <1>u
<1>s. ASSUME NEW q \in Runs, NEW s, s \notin {"NONE", "QUEUED"}, SetRunStatus(q, s)
      PROVE  Forward
  BY <1>s DEF SetRunStatus, SlotInv, TypeOK
<1>1. ASSUME Loop PROVE Forward
  <2>1. CASE Mark
    BY <2>1 DEF Mark, MarkDispatched, DbError, SlotInv, TypeOK
  <2>2. CASE GiveUp
    <3>1. claimed \in Runs
      BY <2>2 DEF GiveUp, SlotInv, LoopShape, TypeOK
    <3> QED
      BY <2>2, <3>1, <1>s, <1>u DEF GiveUp, DbError
  <2> QED
    BY <1>1, <1>u, <2>1, <2>2
       DEF Loop, Woken, Tick, PollNothing, PollNext, Claim, SendAccepted,
           SendRefused, StartRecorder, DispatchFailed
<1>2. ASSUME NEW q \in Runs, Record(q) PROVE Forward
  <2>1. CASE FinishRun(q)
    <3>1. verdict[q] \notin {"NONE", "QUEUED"}
      BY DEF SlotInv, TypeOK, SessionStatus
    <3> QED
      BY <2>1, <3>1, <1>s, <1>u DEF FinishRun, DbError
  <2> QED
    BY <1>2, <1>u, <2>1
       DEF Record, Connect, ConnectFails, PollStatus, PollAgain, ObserveEnd,
           StreamCloses, Deadline, FinishWith, ReleaseSlot, NotifyDone, ForgetSession
<1>3. ASSUME NEW u \in Users, NEW q \in Runs, Handle(u, q) PROVE Forward
  <2>1. CASE CreateRun(u, q)
    BY <2>1 DEF CreateRun, InsertRun, SlotInv, TypeOK
  <2>2. CASE CancelQueued(u, q)
    BY <2>2, <1>s, <1>u DEF CancelQueued
  <2>3. CASE DeleteRun(u, q)
    BY <2>3, <1>s DEF DeleteRun
  <2> QED
    BY <1>3, <1>u, <2>1, <2>2, <2>3
       DEF Handle, Proceed, StopRun, CheckDelete, NotifyCreated, StopTest
<1>4. CASE ApiStart
  BY <1>4, <1>u DEF ApiStart, FailInterruptedRuns, DbError
<1> QED
  BY <1>1, <1>2, <1>3, <1>4, <1>u
     DEF Next, WorkersDone, SetCompleted, OrchRestart, ApiCrash, vars

LEMMA LoopSessionInv ==
  ASSUME Written, SlotInv, SessionInv, Loop
  PROVE  SessionInv'
<1>f. \A r \in Runs : /\ row[r] # "NONE" => row'[r] # "NONE"
                      /\ row[r] \notin {"NONE", "QUEUED"} => row'[r] \notin {"NONE", "QUEUED"}
  BY NeverQueuedAgain DEF Next
<1> USE RunsAssumption
    DEF SessionInv, Leaving, loopVars, recorderVars, BackToSelect
<1>1. CASE Woken         BY <1>1, <1>f DEF Woken
<1>2. CASE Tick          BY <1>2, <1>f DEF Tick
<1>3. CASE PollNothing   BY <1>3, <1>f DEF PollNothing
<1>4. CASE PollNext
  BY <1>4, <1>f DEF PollNext, IsOldestQueued, Queued
<1>5. CASE Claim         BY <1>5, <1>f DEF Claim
<1>6. CASE SendAccepted  BY <1>6, <1>f DEF SendAccepted
<1>7. CASE SendRefused   BY <1>7, <1>f DEF SendRefused
<1>8. CASE Mark
  <2>1. \A r \in Runs : claimed = r => row'[r] # "QUEUED"
    BY <1>8 DEF Mark, MarkDispatched, DbError, Written, SlotInv, TypeOK
  <2> QED
    BY <1>8, <1>f, <2>1 DEF Mark
<1>9. CASE StartRecorder
  BY <1>9, <1>f DEF StartRecorder, SlotInv, LoopShape, TypeOK
<1>10. CASE DispatchFailed BY <1>10, <1>f DEF DispatchFailed
<1>11. CASE GiveUp       BY <1>11, <1>f DEF GiveUp
<1> QED
  BY <1>1, <1>2, <1>3, <1>4, <1>5, <1>6, <1>7, <1>8, <1>9, <1>10, <1>11 DEF Loop

LEMMA RecordSessionInv ==
  ASSUME SlotInv, SessionInv, NEW r \in Runs, Record(r)
  PROVE  SessionInv'
<1>f. \A q \in Runs : /\ row[q] # "NONE" => row'[q] # "NONE"
                      /\ row[q] \notin {"NONE", "QUEUED"} => row'[q] \notin {"NONE", "QUEUED"}
  BY NeverQueuedAgain DEF Next
<1> USE DEF SessionInv, Leaving, loopVars, SlotInv, TypeOK
<1>1. CASE Connect(r)       BY <1>1, <1>f DEF Connect
<1>2. CASE ConnectFails(r)  BY <1>2, <1>f DEF ConnectFails, FinishWith
<1>3. CASE ObserveEnd(r)    BY <1>3, <1>f DEF ObserveEnd, FinishWith
<1>4. CASE StreamCloses(r)  BY <1>4, <1>f DEF StreamCloses, StreamEnds, FinishWith
<1>5. CASE Deadline(r)      BY <1>5, <1>f DEF Deadline, FinishWith
<1>6. CASE FinishRun(r)     BY <1>6, <1>f DEF FinishRun
<1>7. CASE ReleaseSlot(r)   BY <1>7, <1>f DEF ReleaseSlot
<1>8. CASE NotifyDone(r)    BY <1>8, <1>f DEF NotifyDone
<1>9. CASE ForgetSession(r) BY <1>9, <1>f DEF ForgetSession
<1>10. CASE PollStatus(r) BY <1>10, <1>f DEF PollStatus
<1>11. CASE PollAgain(r) BY <1>11, <1>f DEF PollAgain
<1> QED
  BY <1>1, <1>2, <1>3, <1>4, <1>5, <1>6, <1>7, <1>8, <1>9, <1>10, <1>11 DEF Record

LEMMA NextSessionInv ==
  ASSUME Written, SlotInv, SessionInv, [Next]_vars
  PROVE  SessionInv'
<1>f. \A r \in Runs : /\ row[r] # "NONE" => row'[r] # "NONE"
                      /\ row[r] \notin {"NONE", "QUEUED"} => row'[r] \notin {"NONE", "QUEUED"}
  BY NeverQueuedAgain
<1>e. ASSUME UNCHANGED <<loopVars, recorderVars>> PROVE SessionInv'
  BY <1>e, <1>f DEF SessionInv, Leaving, loopVars, recorderVars
<1>1. CASE Loop
  BY <1>1, LoopSessionInv
<1>2. ASSUME NEW r \in Runs, Record(r) PROVE SessionInv'
  BY <1>2, RecordSessionInv
<1>3. CASE \/ \E u \in Users, r \in Runs : Handle(u, r)
           \/ \E r \in Runs : WorkersDone(r) \/ SetCompleted(r)
           \/ OrchRestart
  BY <1>3, <1>e, ElsewhereUnchanged
<1>4. CASE ApiCrash
  BY <1>4, RunsAssumption DEF ApiCrash, BackToSelect, SessionInv, Leaving
<1>5. CASE ApiStart
  BY <1>5, <1>e DEF ApiStart
<1>6. CASE UNCHANGED vars
  BY <1>6, <1>e DEF vars
<1> QED
  BY <1>1, <1>2, <1>3, <1>4, <1>5, <1>6 DEF Next

LEMMA SessionInvariant ==
  ASSUME Written
  PROVE  Spec => [](SlotInv /\ SessionInv)
<1>1. Init => SlotInv /\ SessionInv
  BY InitSlotInv, InitSessionInv
<1>2. SlotInv /\ SessionInv /\ [Next]_vars => (SlotInv /\ SessionInv)'
  BY Written, NextSlotInv, NextSessionInv
<1> QED
  BY <1>1, <1>2, PTL DEF Spec

\* Whoever looks for the session of a run that is being recorded finds it: the
\* clean-up an older recorder left behind never deletes it from the map.
THEOREM SessionsAreKept ==
  ASSUME Written
  PROVE  Spec => []RecordedHasSession
<1>1. SessionInv => RecordedHasSession
  BY DEF SessionInv, RecordedHasSession
<1> QED
  BY <1>1, SessionInvariant, PTL

-----------------------------------------------------------------------------
(***************************************************************************)
(* The end of a run.  What finish has written is final and stays so until  *)
(* onDone has fired, whatever handlers do to the row in between.           *)
(***************************************************************************)
DoneInv ==
  \A r \in Runs :
    rec[r] = "release" \/ <<r, "notify">> \in leaving => row[r] \in Settled \cup {"DELETED"}

LEMMA NextDoneInv ==
  ASSUME Recorded, SlotInv, RowInv, SessionInv, DoneInv, [Next]_vars
  PROVE  DoneInv'
<1>1. SUFFICES ASSUME NEW r \in Runs, rec'[r] = "release" \/ <<r, "notify">> \in leaving'
               PROVE  row'[r] \in Settled \cup {"DELETED"}
  BY DEF DoneInv
<1>2. CASE rec[r] = "release" \/ <<r, "notify">> \in leaving
  BY <1>2, FinalityStep DEF DoneInv
<1>3. CASE ~(rec[r] = "release" \/ <<r, "notify">> \in leaving)
  <2>1. FinishRun(r)
    <3>1. ASSUME NEW q \in Runs, Record(q), ~FinishRun(q) PROVE FALSE
      BY <1>1, <1>3, <3>1
         DEF Record, Connect, ConnectFails, PollStatus, PollAgain, ObserveEnd,
           StreamCloses, Deadline, FinishWith, ReleaseSlot, NotifyDone, ForgetSession, SlotInv, TypeOK
    <3>2. ASSUME NEW q \in Runs, FinishRun(q) PROVE q = r
      BY <1>1, <1>3, <3>2 DEF FinishRun, SlotInv, TypeOK
    <3>3. CASE Loop
      BY <1>1, <1>3, <3>3
         DEF Loop, Woken, Tick, PollNothing, PollNext, Claim, SendAccepted,
             SendRefused, Mark, StartRecorder, DispatchFailed, GiveUp,
             recorderVars, SlotInv, TypeOK
    <3>4. CASE \/ \E u \in Users, q \in Runs : Handle(u, q)
               \/ \E q \in Runs : WorkersDone(q) \/ SetCompleted(q)
               \/ OrchRestart
      BY <1>1, <1>3, <3>4, ElsewhereUnchanged DEF recorderVars
    <3> QED
      BY <1>1, <1>3, <3>1, <3>2, <3>3, <3>4
         DEF Next, ApiCrash, ApiStart, vars, recorderVars
  <2>2. row' = IF Present(r) THEN [row EXCEPT ![r] = verdict[r]] ELSE row
    BY <2>1 DEF FinishRun, SetRunStatus, DbError, Recorded
  <2>3. row[r] # "NONE" /\ verdict[r] \in Settled
    BY <2>1 DEF FinishRun, SessionInv, RowInv, SlotInv, TypeOK, SessionStatus, Settled
  <2> QED
    BY <2>2, <2>3 DEF Present, SlotInv, TypeOK
<1> QED
  BY <1>2, <1>3

\* When onDone lets the queue go on, the row of the run is final: finish has
\* written it, and nothing that happened since has opened it again.
THEOREM DoneRunsAreTerminal ==
  ASSUME Recorded
  PROVE  Spec => []DoneIsTerminal
<1>w. Written
  BY Recorded DEF Recorded, Written
<1>1. Init => DoneInv
  BY DEF Init, DoneInv
<1>2. SlotInv /\ RowInv /\ SessionInv /\ DoneInv /\ [Next]_vars => DoneInv'
  BY Recorded, NextDoneInv
<1>3. DoneInv => DoneIsTerminal
  BY DEF DoneInv, DoneIsTerminal
<1> QED
  BY <1>w, <1>1, <1>2, <1>3, RowInvariant, SessionInvariant, PTL DEF Spec
=============================================================================
