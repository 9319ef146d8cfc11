------------------------------ MODULE EventStream ------------------------------
(***************************************************************************)
(* The live picture of one run: the session of its recorder                *)
(* (internal/api/recorder.go), which stores each sample and broadcasts it, *)
(* and the handler that serves a dashboard (internal/api/sse.go), which    *)
(* finds the session, subscribes and forwards events until the end.  The   *)
(* browser's EventSource opens the stream again whenever it breaks off     *)
(* without an end event.                                                   *)
(*                                                                         *)
(* A sample is the number of snapshots received so far.  Sections under    *)
(* session.mu are one step, and so is a database statement, which may      *)
(* fail.  The model follows one recording of the run: one whose process    *)
(* died, or that ended, while the row still said QUEUED would be           *)
(* dispatched again, which is left to RunQueue.                            *)
(***************************************************************************)
EXTENDS Naturals, Sequences

CONSTANTS
  Viewers,     \* dashboards
  NoEnd,       \* no end event yet
  Buffer,      \* capacity of a subscriber's channel, 64 in the code
  MaxSample,   \* bound on the snapshots of the run
  Env          \* what else may happen

AllEnv == {
  "stream_break",   \* the orchestrator's metrics stream breaks off, or never opens
  "deadline",       \* the 24 h backstop
  "api_restart",    \* the API process dies and is started again
  "disconnect",     \* the connection of a dashboard breaks
  "read_error",     \* GetRun fails
  "write_error",    \* a statement that writes the row or a sample fails
  "cancel",         \* a user cancels the run
  "delete"}         \* a user deletes the run

ASSUME BufferPositive == Buffer \in Nat \ {0}
ASSUME MaxIsNat == MaxSample \in Nat
ASSUME NoEndAssumption == NoEnd \notin {"UNKNOWN", "RUNNING", "COMPLETED", "STOPPED",
                                        "FAILED", "CANCELLED"}
ASSUME EnvAssumption  == Env \subseteq AllEnv

Over      == {"COMPLETED", "STOPPED", "FAILED", "CANCELLED"}
RowStatus == {"QUEUED", "RUNNING", "GONE"} \cup Over
EndStatus == {"UNKNOWN", "RUNNING"} \cup Over

\* The dispatcher and the recorder of the run, one after the other.
RecorderPC == {"queued", "claimed", "marked", "recording", "polling", "publish",
               "persist", "final", "finish", "close", "cleanup", "gone"}
\* A dashboard's handler: "off" between connections, "ended" after an end event
\* that was made up from the row, "played" after one that came from the session.
ConnPC == {"off", "lookup", "await", "recheck", "subscribe", "streaming",
           "ended", "played"}

Samples    == 1 .. MaxSample
Metrics(n) == [type |-> "metrics", n |-> n]
StatusEv   == [type |-> "status", n |-> 0]
End        == [type |-> "end", n |-> 0]
Events     == {StatusEv, End} \cup {Metrics(n) : n \in Samples}

VARIABLES
  row,       \* runs.status
  pc,        \* where the run's recorder is
  verdict,   \* session.status
  last,      \* session.last
  stored,    \* the samples in the database
  lost,      \* the samples whose AddSample failed, or that a newer one replaced
  canceling, \* whether a handler in Cancel has read QUEUED
  crossed,   \* whether a cancellation was written after the run was claimed
  unsaved,   \* whether FinishRun failed
  subs,      \* session.subs
  chan,      \* the channel of each viewer
  shut,      \* viewers whose channel has been closed
  missed,    \* viewers whose channel was full when an event was published
  conn, saw, \* each handler, and the status it has read
  seen,      \* the sample each dashboard shows
  told       \* the end status each dashboard shows

sessionVars == <<last, subs, chan, shut, missed>>
viewerVars  == <<conn, saw, seen, told>>
tableVars   == <<row, stored, lost, crossed, unsaved>>
vars == <<tableVars, canceling, pc, verdict, sessionVars, viewerVars>>

TypeOK ==
  /\ row \in RowStatus
  /\ pc \in RecorderPC
  /\ verdict \in {"RUNNING"} \cup Over
  /\ last \in 0 .. MaxSample
  /\ stored \subseteq Samples /\ lost \subseteq Samples
  /\ canceling \in BOOLEAN /\ crossed \in BOOLEAN /\ unsaved \in BOOLEAN
  /\ subs \subseteq Viewers /\ shut \subseteq Viewers /\ missed \subseteq Viewers
  /\ chan \in [Viewers -> Seq(Events)]
  /\ \A v \in Viewers : Len(chan[v]) <= Buffer
  /\ conn \in [Viewers -> ConnPC]
  /\ saw \in [Viewers -> RowStatus]
  /\ seen \in [Viewers -> 0 .. MaxSample]
  /\ told \in [Viewers -> EndStatus \cup {NoEnd}]

Init ==
  /\ row = "QUEUED" /\ pc = "queued" /\ verdict = "RUNNING"
  /\ last = 0 /\ stored = {} /\ lost = {}
  /\ canceling = FALSE /\ crossed = FALSE /\ unsaved = FALSE
  /\ subs = {} /\ shut = {} /\ missed = {}
  /\ chan = [v \in Viewers |-> <<>>]
  /\ conn = [v \in Viewers |-> "off"] /\ saw = [v \in Viewers |-> "QUEUED"]
  /\ seen = [v \in Viewers |-> 0] /\ told = [v \in Viewers |-> NoEnd]

\* Recorder.Session finds the session; a closed one is still found for a while.
Live   == pc \in RecorderPC \ {"queued", "claimed", "marked", "gone"}
Closed == pc \in {"cleanup", "gone"}

\* UPDATE runs: a row that is gone stays so.
SetRow(s)  == row' = IF row = "GONE" THEN row ELSE s
WriteFails == "write_error" \in Env /\ UNCHANGED row

-----------------------------------------------------------------------------
(***************************************************************************)
(* The session: publish and close send without blocking.                   *)
(***************************************************************************)
Full(v) == Len(chan[v]) = Buffer

Offer(ev) ==
  /\ chan' = [v \in Viewers |-> IF v \in subs /\ ~Full(v)
                                  THEN Append(chan[v], ev) ELSE chan[v]]
  /\ missed' = missed \cup {v \in subs : Full(v)}

\* Mutant of Publish: the send does not look at the capacity.
PublishUnbounded(ev) ==
  /\ chan' = [v \in Viewers |-> IF v \in subs THEN Append(chan[v], ev) ELSE chan[v]]
  /\ UNCHANGED <<last, subs, shut, missed>>

Publish(ev) == Offer(ev) /\ UNCHANGED <<last, subs, shut>>

\* Mutant of CloseSession: the subscribers are not forgotten.
CloseSessionKeepsSubs ==
  /\ Offer(End)
  /\ shut' = shut \cup subs
  /\ UNCHANGED <<last, subs>>

CloseSession ==
  /\ Offer(End)
  /\ shut' = shut \cup subs
  /\ subs' = {}
  /\ UNCHANGED last

\* The deferred unsubscribe: a channel still in subs is deleted and closed.
Unsubscribe(v) ==
  /\ subs' = subs \ {v}
  /\ shut' = IF v \in subs THEN shut \cup {v} ELSE shut

-----------------------------------------------------------------------------
(***************************************************************************)
(* The run: dispatched by the queue, then recorded.                        *)
(***************************************************************************)
\* Cancel reads that the run is queued ...
ReadQueued ==
  /\ "cancel" \in Env /\ row = "QUEUED"
  /\ canceling' = TRUE
  /\ UNCHANGED <<tableVars, pc, verdict, sessionVars, viewerVars>>

\* ... and writes the row without looking again.  Any number of handlers may
\* have read the same.
CancelRun ==
  /\ canceling
  /\ SetRow("CANCELLED")
  /\ crossed' = (crossed \/ pc # "queued" \/ row \notin {"QUEUED", "CANCELLED"})
  /\ UNCHANGED <<stored, lost, unsaved, canceling, pc, verdict, sessionVars, viewerVars>>

\* handleDeleteRun: the run was not current when it looked, at the latest before
\* it was claimed; the DELETE comes when it comes, and takes the samples along.
DeleteRun ==
  /\ "delete" \in Env
  /\ row' = "GONE" /\ stored' = {}
  /\ UNCHANGED <<lost, crossed, unsaved, canceling, pc, verdict, sessionVars, viewerVars>>

\* NextQueued and the claim.
Claim ==
  /\ pc = "queued" /\ row = "QUEUED"
  /\ pc' = "claimed"
  /\ UNCHANGED <<tableVars, canceling, verdict, sessionVars, viewerVars>>

\* DistributeTestPlan fails: the run waits for the next tick, or is given up.
DispatchFails ==
  /\ pc = "claimed"
  /\ pc' = "queued"
  /\ UNCHANGED row \/ SetRow("FAILED")
  /\ UNCHANGED <<stored, lost, crossed, unsaved, canceling, verdict, sessionVars, viewerVars>>

\* MarkDispatched updates a QUEUED row only; a failure is only logged.
MarkDispatched ==
  /\ pc = "claimed"
  /\ row' = (IF row = "QUEUED" THEN "RUNNING" ELSE row) \/ WriteFails
  /\ pc' = "marked"
  /\ UNCHANGED <<stored, lost, crossed, unsaved, canceling, verdict, sessionVars, viewerVars>>

StartRecorder ==
  /\ pc = "marked"
  /\ pc' = "recording"
  /\ UNCHANGED <<tableVars, canceling, verdict, sessionVars, viewerVars>>

\* metricsCh yields a snapshot, or the terminal status came with one: it becomes
\* session.last in a section of its own.
Receive ==
  /\ pc \in {"recording", "final"} /\ last < MaxSample
  /\ last' = last + 1 /\ pc' = "publish"
  /\ UNCHANGED <<tableVars, canceling, verdict, subs, chan, shut, missed, viewerVars>>

PublishMetrics ==
  /\ pc = "publish"
  /\ Publish(Metrics(last)) /\ pc' = "persist"
  /\ UNCHANGED <<tableVars, canceling, verdict, viewerVars>>

\* Mutant of PersistSample: the write is left to a goroutine that may be late.
PersistSampleLater ==
  /\ pc = "persist"
  /\ pc' = IF verdict = "RUNNING" THEN "recording" ELSE "finish"
  /\ UNCHANGED <<tableVars, canceling, verdict, sessionVars, viewerVars>>

\* INSERT INTO samples: it needs the row of the run, and a sample of the same
\* millisecond as the one before takes its place.
AddSample(n) ==
  \/ /\ row # "GONE"
     /\ \E replaced \in {{}, stored \cap {n - 1}} :
          /\ stored' = (stored \ replaced) \cup {n}
          /\ lost' = lost \cup replaced
  \/ /\ row = "GONE" \/ "write_error" \in Env
     /\ lost' = lost \cup {n} /\ UNCHANGED stored

\* persistSample: a failure is only logged.
PersistSample ==
  /\ pc = "persist"
  /\ AddSample(last)
  /\ pc' = IF verdict = "RUNNING" THEN "recording" ELSE "finish"
  /\ UNCHANGED <<row, crossed, unsaved, canceling, verdict, sessionVars, viewerVars>>

\* The status ticker: while the answer is waited for, nothing else is.
AskStatus ==
  /\ pc = "recording"
  /\ pc' = "polling"
  /\ UNCHANGED <<tableVars, canceling, verdict, sessionVars, viewerVars>>

\* The status is kept, published, and looked at; an error is skipped.
PollStatus ==
  /\ pc = "polling"
  /\ \/ \E s \in {"RUNNING", "COMPLETED", "STOPPED"} :
          /\ verdict' = s
          /\ pc' = IF s = "RUNNING" THEN "recording" ELSE "final"
          /\ Publish(StatusEv)
     \/ pc' = "recording" /\ UNCHANGED <<verdict, sessionVars>>
  /\ UNCHANGED <<tableVars, canceling, viewerVars>>

\* The terminal status came without metrics.
NoFinalSample ==
  /\ pc = "final"
  /\ pc' = "finish"
  /\ UNCHANGED <<tableVars, canceling, verdict, sessionVars, viewerVars>>

\* The stream has not opened: FAILED.  It has broken off: the status last seen,
\* which is RUNNING.
StreamBreaks ==
  /\ pc = "recording" /\ "stream_break" \in Env
  /\ \/ last = 0 /\ verdict' = "FAILED"
     \/ UNCHANGED verdict
  /\ pc' = "finish"
  /\ UNCHANGED <<tableVars, canceling, sessionVars, viewerVars>>

Deadline ==
  /\ pc = "recording" /\ "deadline" \in Env
  /\ verdict' = "FAILED" /\ pc' = "finish"
  /\ UNCHANGED <<tableVars, canceling, sessionVars, viewerVars>>

\* Mutant of FinishRun: the summary is written, the status is not.
FinishRunSummaryOnly ==
  /\ pc = "finish"
  /\ pc' = "close"
  /\ UNCHANGED <<tableVars, canceling, verdict, sessionVars, viewerVars>>

\* A failure is only logged: the session closes with the status all the same.
FinishRun ==
  /\ pc = "finish"
  /\ \/ SetRow(verdict) /\ UNCHANGED unsaved
     \/ WriteFails /\ unsaved' = TRUE
  /\ pc' = "close"
  /\ UNCHANGED <<stored, lost, crossed, canceling, verdict, sessionVars, viewerVars>>

Close ==
  /\ pc = "close"
  /\ CloseSession /\ pc' = "cleanup"
  /\ UNCHANGED <<tableVars, canceling, verdict, viewerVars>>

\* onDone gives the slot back, then the session leaves the map.
ForgetSession ==
  /\ pc = "cleanup"
  /\ pc' = "gone"
  /\ UNCHANGED <<tableVars, canceling, verdict, sessionVars, viewerVars>>

\* The process dies with its sessions, handlers and connections and is started
\* again: FailInterruptedRuns, whose failure is only logged.  A run that nobody
\* has begun to record and whose row is QUEUED is still in the queue.
ApiRestart ==
  /\ "api_restart" \in Env
  /\ row' = (IF row = "RUNNING" THEN "FAILED" ELSE row) \/ WriteFails
  /\ pc' = IF row = "QUEUED" /\ pc \in {"queued", "claimed", "marked"} THEN "queued" ELSE "gone"
  /\ canceling' = FALSE
  /\ conn' = [v \in Viewers |-> IF conn[v] \in {"ended", "played"} THEN conn[v] ELSE "off"]
  /\ subs' = {} /\ shut' = {}
  /\ chan' = [v \in Viewers |-> <<>>] /\ saw' = [v \in Viewers |-> "QUEUED"]
  /\ UNCHANGED <<stored, lost, crossed, unsaved, verdict, last, missed, seen, told>>

\* The users and the dispatcher, before and beside the recorder.
Schedule ==
  \/ ReadQueued \/ CancelRun \/ DeleteRun \/ Claim \/ DispatchFails \/ MarkDispatched

Record ==
  \/ StartRecorder \/ Receive \/ PublishMetrics \/ PersistSample \/ AskStatus
  \/ PollStatus \/ NoFinalSample \/ StreamBreaks \/ Deadline \/ FinishRun \/ Close
  \/ ForgetSession

-----------------------------------------------------------------------------
(***************************************************************************)
(* handleStreamRun for viewer v.                                           *)
(***************************************************************************)
Goto(v, to) == conn' = [conn EXCEPT ![v] = to]

Connect(v) ==
  /\ conn[v] = "off"
  /\ Goto(v, "lookup")
  /\ UNCHANGED <<tableVars, canceling, pc, verdict, sessionVars, saw, seen, told>>

LookUp(v) ==
  /\ conn[v] = "lookup"
  /\ Goto(v, IF Live THEN "subscribe" ELSE "await")
  /\ UNCHANGED <<tableVars, canceling, pc, verdict, sessionVars, saw, seen, told>>

\* awaitDispatch reads the row; as long as it is QUEUED, again every second.
GetRun(v) ==
  /\ conn[v] = "await" /\ row \in {"RUNNING"} \cup Over
  /\ saw' = [saw EXCEPT ![v] = row]
  /\ Goto(v, "recheck")
  /\ UNCHANGED <<tableVars, canceling, pc, verdict, sessionVars, seen, told>>

GetRunFails(v) ==
  /\ conn[v] = "await"
  /\ row = "GONE" \/ "read_error" \in Env
  /\ told' = [told EXCEPT ![v] = "UNKNOWN"] /\ Goto(v, "ended")
  /\ UNCHANGED <<tableVars, canceling, pc, verdict, sessionVars, saw, seen>>

\* Mutant of Recheck: what is not queued and has no session yet is waited for.
RecheckAgain(v) ==
  /\ conn[v] = "recheck"
  /\ \/ Live /\ Goto(v, "subscribe")
     \/ ~Live /\ Goto(v, "await")
  /\ UNCHANGED <<tableVars, canceling, pc, verdict, sessionVars, saw, seen, told>>

Recheck(v) ==
  /\ conn[v] = "recheck"
  /\ IF Live THEN Goto(v, "subscribe") /\ UNCHANGED told
             ELSE Goto(v, "ended") /\ told' = [told EXCEPT ![v] = saw[v]]
  /\ saw' = [saw EXCEPT ![v] = "QUEUED"]
  /\ UNCHANGED <<tableVars, canceling, pc, verdict, sessionVars, seen>>

\* Mutant of Subscribe: a late subscriber waits for the next sample.
SubscribeSilently(v) ==
  /\ conn[v] = "subscribe"
  /\ IF Closed
       THEN Goto(v, "off") /\ UNCHANGED sessionVars
       ELSE /\ subs' = subs \cup {v} /\ shut' = shut \ {v} /\ missed' = missed \ {v}
            /\ chan' = [chan EXCEPT ![v] = <<>>]
            /\ Goto(v, "streaming") /\ UNCHANGED last
  /\ UNCHANGED <<tableVars, canceling, pc, verdict, saw, seen, told>>

\* Mutant of Subscribe: what is replayed is what history has.
SubscribeFromHistory(v) ==
  /\ conn[v] = "subscribe"
  /\ IF Closed
       THEN Goto(v, "off") /\ UNCHANGED sessionVars
       ELSE /\ subs' = subs \cup {v} /\ shut' = shut \ {v} /\ missed' = missed \ {v}
            /\ chan' = [chan EXCEPT ![v] = IF stored = {} THEN <<>>
                      ELSE <<Metrics(CHOOSE n \in stored : \A m \in stored : m <= n)>>]
            /\ Goto(v, "streaming") /\ UNCHANGED last
  /\ UNCHANGED <<tableVars, canceling, pc, verdict, saw, seen, told>>

\* subscribe: a closed session yields a closed channel, and the handler returns;
\* an open one replays its last sample.
Subscribe(v) ==
  /\ conn[v] = "subscribe"
  /\ IF Closed
       THEN Goto(v, "off") /\ UNCHANGED sessionVars
       ELSE /\ subs' = subs \cup {v} /\ shut' = shut \ {v} /\ missed' = missed \ {v}
            /\ chan' = [chan EXCEPT ![v] = IF last > 0 THEN <<Metrics(last)>> ELSE <<>>]
            /\ Goto(v, "streaming") /\ UNCHANGED last
  /\ UNCHANGED <<tableVars, canceling, pc, verdict, saw, seen, told>>

Forward(v) ==
  /\ conn[v] = "streaming" /\ chan[v] # <<>> /\ Head(chan[v]) # End
  /\ chan' = [chan EXCEPT ![v] = Tail(@)]
  /\ seen' = [seen EXCEPT ![v] = IF Head(chan[v]) = StatusEv THEN @ ELSE Head(chan[v]).n]
  /\ UNCHANGED <<tableVars, canceling, pc, verdict, last, subs, shut, missed, conn, saw, told>>

ForwardEnd(v) ==
  /\ conn[v] = "streaming" /\ chan[v] # <<>> /\ Head(chan[v]) = End
  /\ told' = [told EXCEPT ![v] = verdict]
  /\ chan' = [chan EXCEPT ![v] = <<>>]
  /\ Unsubscribe(v)
  /\ Goto(v, "played")
  /\ UNCHANGED <<tableVars, canceling, pc, verdict, last, missed, saw, seen>>

\* The channel is closed and drained: the end event was dropped.
ChannelClosed(v) ==
  /\ conn[v] = "streaming" /\ chan[v] = <<>> /\ v \in shut
  /\ Goto(v, "off")
  /\ UNCHANGED <<tableVars, canceling, pc, verdict, sessionVars, saw, seen, told>>

\* r.Context().Done().
Disconnect(v) ==
  /\ "disconnect" \in Env /\ conn[v] \in {"await", "streaming"}
  /\ IF conn[v] = "streaming"
       THEN Unsubscribe(v) /\ chan' = [chan EXCEPT ![v] = <<>>]
       ELSE UNCHANGED <<subs, shut, chan>>
  /\ Goto(v, "off")
  /\ UNCHANGED <<tableVars, canceling, pc, verdict, last, missed, saw, seen, told>>

Serve(v) ==
  \/ LookUp(v) \/ GetRun(v) \/ GetRunFails(v) \/ Recheck(v) \/ Subscribe(v)
  \/ Forward(v) \/ ForwardEnd(v) \/ ChannelClosed(v)

Next ==
  \/ Schedule \/ Record \/ ApiRestart
  \/ \E v \in Viewers : Connect(v) \/ Serve(v) \/ Disconnect(v)

Spec == Init /\ [][Next]_vars

(***************************************************************************)
(* Fairness.  The queue comes to every run and tries it three times at     *)
(* most, the recorder's goroutine runs, EventSource reconnects, handlers   *)
(* run.  Connections may break for ever, but not every time at the same    *)
(* point, and the process is not restarted for ever.  Nothing is assumed   *)
(* of the test, which may never end, nor of a status poll, which may never *)
(* be answered: the recorder has its deadline, and a select that chooses   *)
(* at random.                                                              *)
(***************************************************************************)
GivenUp == DispatchFails /\ row' = "FAILED"

RecorderStep ==
  \/ StartRecorder \/ PublishMetrics \/ PersistSample \/ FinishRun \/ Close
  \/ ForgetSession \/ (pc = "final" /\ (Receive \/ NoFinalSample))

Fairness ==
  /\ WF_vars(Claim) /\ SF_vars(MarkDispatched \/ GivenUp)
  /\ WF_vars(RecorderStep)
  /\ SF_vars(Deadline)
  /\ \A v \in Viewers : /\ WF_vars(Connect(v)) /\ WF_vars(ChannelClosed(v))
                        /\ WF_vars(LookUp(v) \/ Recheck(v) \/ Subscribe(v))
                        /\ SF_vars(GetRun(v) \/ GetRunFails(v))
                        /\ SF_vars(Forward(v) \/ ForwardEnd(v))
  /\ <>[][~ApiRestart]_vars

FairSpec == Spec /\ Fairness

-----------------------------------------------------------------------------
(***************************************************************************)
(* Properties.                                                             *)
(***************************************************************************)
\* A channel that publish, close and unsubscribe may still send on or close is
\* open: a second close, or a send after it, would panic the API process.
SubscribersAreOpen == subs \cap shut = {}

\* "Every dashboard watching a run sees exactly the samples that were persisted"
\* (sse.go:72) holds, as long as the run is in the table, of every sample but two
\* kinds: one whose own AddSample failed, which is only logged, or that a sample of
\* the same millisecond replaced; and the one that is on its way to the database,
\* or was when the process died.
SeenIsStored ==
  \A v \in Viewers : seen[v] # 0 /\ row # "GONE" =>
    \/ seen[v] \in stored \cup lost
    \/ seen[v] = last /\ pc \in {"publish", "persist", "gone"}

\* A dashboard that the session has told of the end, and that never stalled, has
\* been shown the last sample of the run, however late it came.
EndIsComplete ==
  \A v \in Viewers : conn[v] = "played" /\ v \notin missed => seen[v] = last

\* A dashboard that has been told a final status has been told the one history
\* keeps, from whichever source it came, with two exceptions: a cancellation that
\* crossed the dispatch, which overwrites a status or is overwritten by one; and
\* an end told by the session of a run whose FinishRun failed.
EndIsTrue ==
  \A v \in Viewers : told[v] \in Over =>
    \/ row \in {told[v], "GONE"}
    \/ crossed /\ "CANCELLED" \in {row, told[v]}
    \/ unsaved /\ conn[v] = "played"

\* The recorder and the handlers implement the promise: no dashboard ever goes
\* back in time, not even by reconnecting, and nothing follows the end.
F == INSTANCE Feed WITH recorded <- last, Ends <- EndStatus
ImplementsFeed == F!Spec

\* Nothing has been written of a run that is over: the queue would take it again.
StillQueued == pc = "gone" /\ row = "QUEUED"

\* Whenever it connects, and whether its end event is dropped, comes too late or
\* too early, a dashboard is told in the end that the run is over, although the
\* test itself may never be: unless the recorder waits for ever for the answer to
\* a status poll, or the row still says QUEUED when the recorder has gone.
EveryViewerIsTold ==
  \/ <>[](pc = "polling")
  \/ \A v \in Viewers : conn[v] = "lookup" ~> told[v] # NoEnd \/ StillQueued
=============================================================================
