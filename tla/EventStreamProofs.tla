--------------------------- MODULE EventStreamProofs ---------------------------
(***************************************************************************)
(* Proofs about EventStream, for every number of dashboards, every         *)
(* capacity of their channels, every number of samples and everything the  *)
(* environment may do.                                                     *)
(***************************************************************************)
EXTENDS EventStream, SequenceTheorems, TLAPS

IsMetrics(ev) == ev \notin {StatusEv, End}

(***************************************************************************)
(* The row.  Past: the dispatcher and the recorder have written it for the *)
(* last time, so that only a user may still change it.  Saved: it has the  *)
(* status with which the session ends, or one of the two things has        *)
(* happened that keep it from having it.                                   *)
(***************************************************************************)
Past == pc \in {"close", "cleanup", "gone"} \/ (pc = "queued" /\ row # "QUEUED")

Saved ==
  \/ row \in {verdict, "GONE"}
  \/ crossed /\ row = "CANCELLED"
  \/ unsaved

\* A status s that has been read in the row is there to stay.
Known(s) ==
  /\ row \in {s, "GONE"} \/ (crossed /\ "CANCELLED" \in {row, s})
  /\ Past \/ (crossed /\ s = "CANCELLED")

(***************************************************************************)
(* The recorder: the row is settled only once it has been written for the  *)
(* last time, and every sample of a run that is still in the table, but    *)
(* the last one, has been handed to AddSample.                             *)
(***************************************************************************)
RecorderInv ==
  /\ row \in Over => Past \/ (crossed /\ row = "CANCELLED")
  /\ pc \in {"close", "cleanup"} => Saved
  /\ pc \in {"publish", "persist"} => last > 0
  /\ row # "GONE" =>
       \A n \in 1 .. last : \/ n \in stored \cup lost
                            \/ n = last /\ pc \in {"publish", "persist", "gone"}

(***************************************************************************)
(* A handler: only a streaming one has a channel, what it has read of the  *)
(* row stays true once it is final, and nothing is told twice.             *)
(***************************************************************************)
HandlerInv(v) ==
  /\ v \in subs => conn[v] = "streaming" /\ ~Closed
  /\ conn[v] # "streaming" => chan[v] = <<>>
  /\ conn[v] = "recheck" =>
       /\ saw[v] \in {"RUNNING"} \cup Over
       /\ saw[v] \in Over => Known(saw[v])
  /\ conn[v] \notin {"ended", "played"} => told[v] = NoEnd
  /\ conn[v] = "ended" /\ told[v] \in Over => Known(told[v])
  /\ conn[v] = "played" =>
       /\ Closed /\ told[v] = verdict
       /\ verdict \in Over => Saved
       /\ v \notin missed => seen[v] = last

(***************************************************************************)
(* What is in a channel: samples in order, none older than the one shown   *)
(* and none younger than the last; an end event behind everything else,    *)
(* and only of a session that is closed.                                   *)
(***************************************************************************)
Ordered(v) ==
  /\ seen[v] <= last
  /\ \A i \in 1 .. Len(chan[v]) :
       IsMetrics(chan[v][i]) => seen[v] <= chan[v][i].n /\ chan[v][i].n <= last
  /\ \A i, j \in 1 .. Len(chan[v]) :
       i < j /\ IsMetrics(chan[v][i]) /\ IsMetrics(chan[v][j]) => chan[v][i].n <= chan[v][j].n

EndIsLast(v) ==
  \A i \in 1 .. Len(chan[v]) : chan[v][i] = End =>
    /\ i = Len(chan[v]) /\ v \notin subs /\ Closed
    /\ verdict \in Over => Saved

HasEnd(v) == \E i \in 1 .. Len(chan[v]) : chan[v][i] = End

\* The last sample of a dashboard that never stalled has been shown or is in its
\* channel, except between Receive and PublishMetrics.
CaughtUp(v) ==
  v \notin missed /\ pc # "publish" /\ (v \in subs \/ HasEnd(v)) =>
    \/ seen[v] = last
    \/ \E i \in 1 .. Len(chan[v]) : IsMetrics(chan[v][i]) /\ chan[v][i].n = last

ViewersInv == \A v \in Viewers : HandlerInv(v) /\ Ordered(v) /\ EndIsLast(v) /\ CaughtUp(v)

StreamInv == TypeOK /\ RecorderInv /\ ViewersInv /\ SubscribersAreOpen

-----------------------------------------------------------------------------
(***************************************************************************)
(* Events and channels.                                                    *)
(***************************************************************************)
LEMMA EventFacts ==
  /\ StatusEv \in Events /\ End \in Events /\ End # StatusEv
  /\ \A n \in Samples : Metrics(n) \in Events /\ IsMetrics(Metrics(n)) /\ Metrics(n).n = n
  /\ \A ev \in Events : IsMetrics(ev) => ev.n \in Samples
<1>1. StatusEv.type = "status" /\ End.type = "end" /\ \A n \in Samples : Metrics(n).type = "metrics"
  BY DEF StatusEv, End, Metrics
<1>2. End # StatusEv /\ \A n \in Samples : IsMetrics(Metrics(n))
  BY <1>1 DEF IsMetrics
<1>3. \A n \in Samples : Metrics(n).n = n
  BY DEF Metrics
<1>4. ASSUME NEW ev \in Events, IsMetrics(ev) PROVE ev.n \in Samples
  BY <1>3, <1>4 DEF Events, IsMetrics
<1> QED
  BY <1>2, <1>3, <1>4 DEF Events

LEMMA InitStreamInv == Init => StreamInv
<1> SUFFICES ASSUME Init PROVE StreamInv
  OBVIOUS
<1>1. TypeOK
  <2>1. <<>> \in Seq(Events) /\ Len(<<>>) <= Buffer
    BY BufferPositive, EmptySeq
  <2>2. chan \in [Viewers -> Seq(Events)] /\ \A v \in Viewers : Len(chan[v]) <= Buffer
    BY <2>1 DEF Init
  <2>3. /\ conn \in [Viewers -> ConnPC] /\ saw \in [Viewers -> RowStatus]
        /\ told \in [Viewers -> EndStatus \cup {NoEnd}]
    BY DEF Init, RowStatus, ConnPC
  <2>4. last \in 0 .. MaxSample /\ seen \in [Viewers -> 0 .. MaxSample]
    BY MaxIsNat DEF Init
  <2> QED
    BY <2>2, <2>3, <2>4 DEF Init, TypeOK, RowStatus, RecorderPC
<1>2. RecorderInv
  BY DEF Init, RecorderInv, Over, Past
<1>3. ASSUME NEW v \in Viewers PROVE HandlerInv(v) /\ Ordered(v) /\ EndIsLast(v) /\ CaughtUp(v)
  <2>1. Len(chan[v]) = 0
    BY EmptySeq DEF Init
  <2>2. HandlerInv(v)
    BY NoEndAssumption DEF Init, HandlerInv, Over
  <2>3. Ordered(v) /\ EndIsLast(v)
    BY <2>1 DEF Init, Ordered, EndIsLast
  <2>4. CaughtUp(v)
    BY DEF Init, CaughtUp
  <2> QED
    BY <2>2, <2>3, <2>4
<1> QED
  BY <1>1, <1>2, <1>3 DEF StreamInv, ViewersInv, SubscribersAreOpen, Init

\* What Publish and Close leave in the channels.
LEMMA OfferType ==
  ASSUME TypeOK, NEW ev \in Events, Offer(ev)
  PROVE  /\ chan' \in [Viewers -> Seq(Events)]
         /\ \A v \in Viewers : Len(chan'[v]) <= Buffer
         /\ subs \subseteq Viewers => missed' \subseteq Viewers
<1>1. ASSUME NEW v \in Viewers
      PROVE  chan'[v] \in Seq(Events) /\ Len(chan'[v]) <= Buffer
  <2>1. chan[v] \in Seq(Events) /\ Len(chan[v]) <= Buffer /\ Len(chan[v]) \in Nat
    BY LenProperties DEF TypeOK
  <2>2. Append(chan[v], ev) \in Seq(Events) /\ Len(Append(chan[v], ev)) = Len(chan[v]) + 1
    BY <2>1, AppendProperties
  <2> QED
    BY <2>1, <2>2, BufferPositive DEF Offer, Full
<1>2. chan' = [v \in Viewers |-> chan'[v]]
  BY DEF Offer
<1> QED
  BY <1>1, <1>2 DEF Offer, TypeOK

LEMMA RecordType ==
  ASSUME TypeOK, RecorderInv, Record
  PROVE  TypeOK'
<1> USE BufferPositive, MaxIsNat, EventFacts
    DEF sessionVars, viewerVars, tableVars, RecorderPC
<1>0. pc \in {"publish", "persist"} => last \in Samples
  BY DEF RecorderInv, TypeOK, Samples
<1>1. CASE StartRecorder   BY <1>1 DEF StartRecorder, TypeOK
<1>2. CASE Receive         BY <1>2 DEF Receive, TypeOK
<1>3. CASE PublishMetrics
  BY <1>0, <1>3, OfferType DEF PublishMetrics, Publish, TypeOK
<1>4. CASE PersistSample   BY <1>0, <1>4 DEF PersistSample, AddSample, TypeOK
<1>5. CASE AskStatus       BY <1>5 DEF AskStatus, TypeOK
<1>6. CASE PollStatus
  BY <1>6, OfferType DEF PollStatus, Publish, TypeOK, Over
<1>7. CASE NoFinalSample   BY <1>7 DEF NoFinalSample, TypeOK
<1>8. CASE StreamBreaks    BY <1>8 DEF StreamBreaks, TypeOK, Over
<1>9. CASE Deadline        BY <1>9 DEF Deadline, TypeOK, Over
<1>10. CASE FinishRun
  BY <1>10 DEF FinishRun, SetRow, WriteFails, TypeOK, RowStatus
<1>11. CASE Close
  BY <1>11, OfferType DEF Close, CloseSession, TypeOK
<1>12. CASE ForgetSession  BY <1>12 DEF ForgetSession, TypeOK
<1> QED
  BY <1>1, <1>2, <1>3, <1>4, <1>5, <1>6, <1>7, <1>8, <1>9, <1>10, <1>11, <1>12 DEF Record

LEMMA ScheduleType ==
  ASSUME TypeOK, Schedule
  PROVE  TypeOK'
<1> USE DEF TypeOK, sessionVars, viewerVars, tableVars, RecorderPC, RowStatus, Over
<1>1. CASE ReadQueued      BY <1>1 DEF ReadQueued
<1>2. CASE CancelRun       BY <1>2 DEF CancelRun, SetRow
<1>3. CASE DeleteRun       BY <1>3 DEF DeleteRun
<1>4. CASE Claim           BY <1>4 DEF Claim
<1>5. CASE DispatchFails   BY <1>5 DEF DispatchFails, SetRow
<1>6. CASE MarkDispatched  BY <1>6 DEF MarkDispatched, WriteFails
<1> QED
  BY <1>1, <1>2, <1>3, <1>4, <1>5, <1>6 DEF Schedule

LEMMA ServeType ==
  ASSUME TypeOK, ViewersInv, NEW v \in Viewers, Connect(v) \/ Serve(v) \/ Disconnect(v)
  PROVE  TypeOK'
<1> USE DEF sessionVars, viewerVars, tableVars, Goto, ConnPC
<1>1. CASE Connect(v)     BY <1>1 DEF Connect, TypeOK
<1>2. CASE LookUp(v)      BY <1>2 DEF LookUp, TypeOK
<1>3. CASE GetRun(v)      BY <1>3 DEF GetRun, TypeOK, RowStatus
<1>4. CASE GetRunFails(v) BY <1>4 DEF GetRunFails, TypeOK, EndStatus
<1>5. CASE Recheck(v)
  BY <1>5 DEF Recheck, TypeOK, RowStatus, EndStatus, ViewersInv, HandlerInv
<1>6. CASE Subscribe(v)
  <2>1. CASE Closed
    BY <1>6, <2>1 DEF Subscribe, TypeOK
  <2>2. CASE ~Closed
    <3>1. chan'[v] \in Seq(Events) /\ Len(chan'[v]) <= Buffer
      <4>1. chan'[v] = IF last > 0 THEN <<Metrics(last)>> ELSE <<>>
        BY <1>6, <2>2 DEF Subscribe, TypeOK
      <4>2. <<>> \in Seq(Events) /\ Len(<<>>) = 0
        BY EmptySeq
      <4>3. last > 0 => <<Metrics(last)>> \in Seq(Events) /\ Len(<<Metrics(last)>>) = 1
        BY EventFacts, MaxIsNat DEF TypeOK, Samples
      <4> QED
        BY <4>1, <4>2, <4>3, BufferPositive
    <3> QED
      BY <1>6, <2>2, <3>1 DEF Subscribe, TypeOK
  <2> QED
    BY <2>1, <2>2
<1>7. CASE Forward(v)
  <2>1. chan[v] \in Seq(Events) /\ chan[v] # <<>> /\ Len(chan[v]) \in Nat
    BY <1>7, LenProperties DEF Forward, TypeOK
  <2>2. /\ Head(chan[v]) \in Events /\ Tail(chan[v]) \in Seq(Events)
        /\ Len(Tail(chan[v])) = Len(chan[v]) - 1
    BY <2>1, HeadTailProperties
  <2>3. Len(Tail(chan[v])) <= Buffer
    BY <2>1, <2>2, BufferPositive DEF TypeOK
  <2>4. Head(chan[v]) # StatusEv => Head(chan[v]).n \in 0 .. MaxSample
    BY <1>7, <2>2, EventFacts, MaxIsNat DEF Forward, IsMetrics, Samples
  <2> QED
    BY <1>7, <2>2, <2>3, <2>4 DEF Forward, TypeOK
<1>8. CASE ForwardEnd(v)
  <2>1. <<>> \in Seq(Events) /\ Len(<<>>) <= Buffer
    BY BufferPositive, EmptySeq
  <2> QED
    BY <1>8, <2>1 DEF ForwardEnd, Unsubscribe, TypeOK, EndStatus
<1>9. CASE ChannelClosed(v) BY <1>9 DEF ChannelClosed, TypeOK
<1>10. CASE Disconnect(v)
  <2>1. <<>> \in Seq(Events) /\ Len(<<>>) <= Buffer
    BY BufferPositive, EmptySeq
  <2>2. chan' \in [Viewers -> Seq(Events)] /\ \A w \in Viewers : Len(chan'[w]) <= Buffer
    BY <1>10, <2>1 DEF Disconnect, TypeOK
  <2>3. subs' \subseteq Viewers /\ shut' \subseteq Viewers
    BY <1>10 DEF Disconnect, Unsubscribe, TypeOK
  <2>4. conn' \in [Viewers -> ConnPC]
    BY <1>10 DEF Disconnect, TypeOK
  <2> QED
    BY <1>10, <2>2, <2>3, <2>4 DEF Disconnect, TypeOK
<1> QED
  BY <1>1, <1>2, <1>3, <1>4, <1>5, <1>6, <1>7, <1>8, <1>9, <1>10 DEF Serve

LEMMA TypeStep ==
  ASSUME TypeOK, RecorderInv, ViewersInv, [Next]_vars
  PROVE  TypeOK'
<1>1. CASE Schedule        BY <1>1, ScheduleType
<1>2. CASE Record          BY <1>2, RecordType
<1>3. CASE ApiRestart
  <2>1. row' \in RowStatus /\ pc' \in RecorderPC /\ canceling' \in BOOLEAN
    BY <1>3 DEF ApiRestart, WriteFails, TypeOK, RowStatus, RecorderPC, Over
  <2>2. <<>> \in Seq(Events) /\ Len(<<>>) <= Buffer
    BY EmptySeq, BufferPositive
  <2>3. chan' \in [Viewers -> Seq(Events)] /\ \A v \in Viewers : Len(chan'[v]) <= Buffer
    BY <1>3, <2>2 DEF ApiRestart
  <2>4. conn' \in [Viewers -> ConnPC] /\ saw' \in [Viewers -> RowStatus]
    BY <1>3 DEF ApiRestart, TypeOK, RowStatus, ConnPC
  <2>5. UNCHANGED <<stored, lost, crossed, unsaved, verdict, last, missed, seen, told>>
        /\ subs' = {} /\ shut' = {}
    BY <1>3 DEF ApiRestart
  <2> QED
    BY <2>1, <2>3, <2>4, <2>5 DEF TypeOK
<1>4. ASSUME NEW v \in Viewers, Connect(v) \/ Serve(v) \/ Disconnect(v) PROVE TypeOK'
  BY <1>4, ServeType
<1>5. CASE UNCHANGED vars
  BY <1>5 DEF vars, TypeOK, tableVars, sessionVars, viewerVars
<1> QED
  BY <1>1, <1>2, <1>3, <1>4, <1>5 DEF Next

-----------------------------------------------------------------------------
(***************************************************************************)
(* The recorder, and what is final: a row that is settled, and a session   *)
(* that is closed.                                                         *)
(***************************************************************************)
\* Steps of a handler leave the run alone.
LEMMA ServeUnchanged ==
  ASSUME TypeOK, NEW v \in Viewers, Connect(v) \/ Serve(v) \/ Disconnect(v)
  PROVE  /\ UNCHANGED <<row, stored, lost, crossed, unsaved, pc, verdict, last>>
         /\ \A u \in Viewers \ {v} :
              /\ chan'[u] = chan[u] /\ conn'[u] = conn[u] /\ saw'[u] = saw[u]
              /\ seen'[u] = seen[u] /\ told'[u] = told[u]
              /\ u \in subs' <=> u \in subs
              /\ u \in missed' <=> u \in missed
<1> USE DEF sessionVars, viewerVars, tableVars, Goto, TypeOK
<1>1. CASE Connect(v)       BY <1>1 DEF Connect
<1>2. CASE LookUp(v)        BY <1>2 DEF LookUp
<1>3. CASE GetRun(v)        BY <1>3 DEF GetRun
<1>4. CASE GetRunFails(v)   BY <1>4 DEF GetRunFails
<1>5. CASE Recheck(v)       BY <1>5 DEF Recheck
<1>6. CASE Subscribe(v)     BY <1>6 DEF Subscribe
<1>7. CASE Forward(v)       BY <1>7 DEF Forward
<1>8. CASE ForwardEnd(v)    BY <1>8 DEF ForwardEnd, Unsubscribe
<1>9. CASE ChannelClosed(v) BY <1>9 DEF ChannelClosed
<1>10. CASE Disconnect(v)   BY <1>10 DEF Disconnect, Unsubscribe
<1> QED
  BY <1>1, <1>2, <1>3, <1>4, <1>5, <1>6, <1>7, <1>8, <1>9, <1>10 DEF Serve

\* What keeps the status in the row from being changed, once it is final.
LEMMA KnownStays ==
  ASSUME TypeOK, RecorderInv, [Next]_vars, NEW s \in Over, Known(s)
  PROVE  Known(s)'
<1> USE DEF Known, Past, sessionVars, viewerVars, tableVars, TypeOK, Over
<1>1. CASE Schedule
  <2>1. CASE ReadQueued      BY <2>1 DEF ReadQueued
  <2>2. CASE CancelRun       BY <2>2 DEF CancelRun, SetRow
  <2>3. CASE DeleteRun       BY <2>3 DEF DeleteRun
  <2>4. CASE Claim           BY <2>4 DEF Claim
  <2>5. CASE DispatchFails   BY <2>5 DEF DispatchFails, SetRow
  <2>6. CASE MarkDispatched  BY <2>6 DEF MarkDispatched, WriteFails
  <2> QED
    BY <1>1, <2>1, <2>2, <2>3, <2>4, <2>5, <2>6 DEF Schedule
<1>2. CASE Record
  <2>1. CASE FinishRun
    BY <2>1 DEF FinishRun, SetRow, WriteFails
  <2>2. CASE ~FinishRun
    BY <1>2, <2>2
       DEF Record, StartRecorder, Receive, PublishMetrics, PersistSample, AskStatus,
           PollStatus, NoFinalSample, StreamBreaks, Deadline, Close, ForgetSession
  <2> QED
    BY <2>1, <2>2
<1>3. CASE ApiRestart      BY <1>3 DEF ApiRestart, WriteFails
<1>4. ASSUME NEW v \in Viewers, Connect(v) \/ Serve(v) \/ Disconnect(v) PROVE Known(s)'
  BY <1>4, ServeUnchanged
<1>5. CASE UNCHANGED vars  BY <1>5 DEF vars
<1> QED
  BY <1>1, <1>2, <1>3, <1>4, <1>5 DEF Next

\* The parts of the invariant of the recorder, one lemma each.
LEMMA RowStep ==
  ASSUME TypeOK, RecorderInv, [Next]_vars
  PROVE  /\ row' \in Over => Past' \/ (crossed' /\ row' = "CANCELLED")
         /\ pc' \in {"close", "cleanup"} => Saved'
<1> USE DEF RecorderInv, Past, Saved, sessionVars, viewerVars, tableVars, TypeOK, Over
<1>1. CASE Schedule
  <2>1. CASE ReadQueued      BY <2>1 DEF ReadQueued
  <2>2. CASE CancelRun       BY <2>2 DEF CancelRun, SetRow
  <2>3. CASE DeleteRun       BY <2>3 DEF DeleteRun
  <2>4. CASE Claim           BY <2>4 DEF Claim
  <2>5. CASE DispatchFails   BY <2>5 DEF DispatchFails, SetRow
  <2>6. CASE MarkDispatched  BY <2>6 DEF MarkDispatched, WriteFails
  <2> QED
    BY <1>1, <2>1, <2>2, <2>3, <2>4, <2>5, <2>6 DEF Schedule
<1>2. CASE Record
  <2>1. CASE FinishRun
    BY <2>1 DEF FinishRun, SetRow, WriteFails
  <2>2. CASE ~FinishRun
    BY <1>2, <2>2
       DEF Record, StartRecorder, Receive, PublishMetrics, PersistSample, AskStatus,
           PollStatus, NoFinalSample, StreamBreaks, Deadline, Close, ForgetSession
  <2> QED
    BY <2>1, <2>2
<1>3. CASE ApiRestart      BY <1>3 DEF ApiRestart, WriteFails
<1>4. ASSUME NEW v \in Viewers, Connect(v) \/ Serve(v) \/ Disconnect(v)
      PROVE  /\ row' \in Over => Past' \/ (crossed' /\ row' = "CANCELLED")
             /\ pc' \in {"close", "cleanup"} => Saved'
  BY <1>4, ServeUnchanged
<1>5. CASE UNCHANGED vars  BY <1>5 DEF vars
<1> QED
  BY <1>1, <1>2, <1>3, <1>4, <1>5 DEF Next

HandedOver ==
  /\ pc \in {"publish", "persist"} => last > 0
  /\ row # "GONE" =>
       \A n \in 1 .. last : \/ n \in stored \cup lost
                            \/ n = last /\ pc \in {"publish", "persist", "gone"}

\* A run that is deleted does not come back.
LEMMA RowGone ==
  ASSUME [Next]_vars, row = "GONE"
  PROVE  row' = "GONE"
<1> USE DEF sessionVars, viewerVars, tableVars
<1>1. CASE Schedule
  BY <1>1 DEF Schedule, ReadQueued, CancelRun, DeleteRun, Claim, DispatchFails,
              MarkDispatched, SetRow, WriteFails
<1>2. CASE Record
  BY <1>2 DEF Record, StartRecorder, Receive, PublishMetrics, PersistSample, AskStatus,
              PollStatus, NoFinalSample, StreamBreaks, Deadline, FinishRun, Close,
              ForgetSession, SetRow, WriteFails
<1>3. CASE ApiRestart      BY <1>3 DEF ApiRestart, WriteFails
<1>4. ASSUME NEW v \in Viewers, Connect(v) \/ Serve(v) \/ Disconnect(v) PROVE row' = row
  BY <1>4 DEF Serve, Connect, LookUp, GetRun, GetRunFails, Recheck, Subscribe, Forward,
              ForwardEnd, ChannelClosed, Disconnect
<1>5. CASE UNCHANGED vars  BY <1>5 DEF vars
<1> QED
  BY <1>1, <1>2, <1>3, <1>4, <1>5 DEF Next

LEMMA SampleStep ==
  ASSUME TypeOK, HandedOver, [Next]_vars
  PROVE  HandedOver'
<1>0. last \in Nat
  BY MaxIsNat DEF TypeOK
<1> USE <1>0 DEF HandedOver, sessionVars, viewerVars, tableVars
<1>g. row = "GONE" => row' = "GONE"
  BY RowGone
<1>1. CASE Schedule
  <2>1. \/ row' = "GONE" /\ last' = last
        \/ UNCHANGED <<last, stored, lost>> /\ pc \notin {"publish", "persist", "gone"}
        \/ UNCHANGED <<last, stored, lost, pc>>
    BY <1>1 DEF Schedule, ReadQueued, CancelRun, DeleteRun, Claim, DispatchFails,
                MarkDispatched
  <2>2. pc' \in {"publish", "persist"} => pc' = pc
    BY <1>1 DEF Schedule, ReadQueued, CancelRun, DeleteRun, Claim, DispatchFails,
                MarkDispatched
  <2> QED
    BY <1>g, <2>1, <2>2
<1>2. CASE Record
  <2>1. CASE Receive         BY <2>1 DEF Receive
  <2>2. CASE PublishMetrics  BY <2>2 DEF PublishMetrics, Publish
  <2>3. CASE PersistSample
    <3>1. stored' \cup lost' = stored \cup lost \cup {last} /\ last' = last
      BY <2>3 DEF PersistSample, AddSample
    <3>2. row' = row /\ pc' \in {"recording", "finish"} /\ pc = "persist"
      BY <2>3 DEF PersistSample
    <3> QED
      BY <3>1, <3>2
  <2>4. CASE ~(Receive \/ PublishMetrics \/ PersistSample)
    <3>1. /\ UNCHANGED <<last, stored, lost>>
          /\ pc \notin {"publish", "persist", "gone"} /\ pc' \notin {"publish", "persist"}
      BY <1>2, <2>4
         DEF Record, StartRecorder, AskStatus, PollStatus, NoFinalSample, StreamBreaks,
             Deadline, FinishRun, Close, ForgetSession, Publish, CloseSession
    <3> QED
      BY <1>g, <3>1
  <2> QED
    BY <2>1, <2>2, <2>3, <2>4
<1>3. CASE ApiRestart
  <2>1. /\ UNCHANGED <<last, stored, lost>> /\ pc' \in {"queued", "gone"}
        /\ pc' = "queued" => pc \in {"queued", "claimed", "marked"}
    BY <1>3 DEF ApiRestart
  <2> QED
    BY <1>g, <2>1
<1>4. ASSUME NEW v \in Viewers, Connect(v) \/ Serve(v) \/ Disconnect(v) PROVE HandedOver'
  BY <1>4, ServeUnchanged
<1>5. CASE UNCHANGED vars  BY <1>5 DEF vars
<1> QED
  BY <1>1, <1>2, <1>3, <1>4, <1>5 DEF Next

LEMMA RecorderInvStep ==
  ASSUME TypeOK, RecorderInv, [Next]_vars
  PROVE  RecorderInv'
<1>1. HandedOver
  BY DEF RecorderInv, HandedOver
<1>2. HandedOver'
  BY <1>1, SampleStep
<1> QED
  BY <1>2, RowStep DEF RecorderInv, HandedOver

LEMMA FinalStays ==
  ASSUME TypeOK, RecorderInv, [Next]_vars
  PROVE  /\ Closed => Closed' /\ UNCHANGED <<last, verdict>>
         /\ Closed /\ (verdict \in Over => Saved) => (verdict' \in Over => Saved')
         /\ last <= last'
<1>0. last \in Nat
  BY MaxIsNat DEF TypeOK
<1> USE <1>0 DEF Closed, Saved, Over, sessionVars, viewerVars, tableVars
<1>1. CASE Schedule
  <2>1. UNCHANGED <<last, verdict, unsaved>> /\ (Closed => pc' = pc)
    BY <1>1 DEF Schedule, ReadQueued, CancelRun, DeleteRun, Claim, DispatchFails,
                MarkDispatched
  <2>2. Closed => \/ row' = row /\ crossed' = crossed
                  \/ CancelRun \/ DeleteRun
    BY <1>1 DEF Schedule, ReadQueued, Claim, DispatchFails, MarkDispatched
  <2>3. Closed => \/ row' = row /\ crossed' = crossed
                  \/ row' = "GONE"
                  \/ row' = "CANCELLED" /\ crossed'
    BY <2>2 DEF CancelRun, DeleteRun, SetRow
  <2> QED
    BY <2>1, <2>2, <2>3
<1>2. CASE Record
  <2>1. CASE ForgetSession   BY <2>1 DEF ForgetSession
  <2>2. CASE ~ForgetSession
    <3>1. ~Closed
      BY <1>2, <2>2
         DEF Record, StartRecorder, Receive, PublishMetrics, PersistSample, AskStatus,
             PollStatus, NoFinalSample, StreamBreaks, Deadline, FinishRun, Close
    <3>2. last' = last \/ last' = last + 1
      BY <1>2, <2>2
         DEF Record, StartRecorder, Receive, PublishMetrics, PersistSample, AskStatus,
             PollStatus, NoFinalSample, StreamBreaks, Deadline, FinishRun, Close,
             Publish, CloseSession
    <3> QED
      BY <3>1, <3>2
  <2> QED
    BY <2>1, <2>2
<1>3. CASE ApiRestart
  <2>1. /\ UNCHANGED <<last, verdict, crossed, unsaved>>
        /\ Closed => pc' = "gone"
        /\ row' = row \/ row = "RUNNING"
    BY <1>3 DEF ApiRestart, WriteFails
  <2> QED
    BY <2>1
<1>4. ASSUME NEW v \in Viewers, Connect(v) \/ Serve(v) \/ Disconnect(v)
      PROVE  UNCHANGED <<row, crossed, unsaved, pc, verdict, last>>
  BY <1>4, ServeUnchanged
<1>5. CASE UNCHANGED vars  BY <1>5 DEF vars
<1> QED
  BY <1>1, <1>2, <1>3, <1>4, <1>5 DEF Next

-----------------------------------------------------------------------------
(***************************************************************************)
(* Handlers.                                                               *)
(***************************************************************************)
\* Where only the run moves on, by Record or otherwise.
LEMMA RunKeepsHandler ==
  ASSUME TypeOK, RecorderInv, [Next]_vars, NEW v \in Viewers, HandlerInv(v),
         UNCHANGED <<conn, saw, seen, told>>,
         conn[v] # "streaming" => chan'[v] = chan[v],
         v \in subs' => v \in subs /\ ~Closed',
         v \in missed => v \in missed'
  PROVE  HandlerInv(v)'
BY FinalStays, KnownStays DEF HandlerInv, TypeOK

LEMMA RecordHandler ==
  ASSUME StreamInv, Record, NEW v \in Viewers
  PROVE  HandlerInv(v)'
<1>1. HandlerInv(v) /\ TypeOK /\ RecorderInv /\ [Next]_vars
  BY DEF StreamInv, ViewersInv, Next
<1>2. ASSUME NEW ev, Offer(ev), v \notin subs PROVE chan'[v] = chan[v]
  BY <1>2 DEF Offer, TypeOK
<1>3. v \in subs => conn[v] = "streaming" /\ ~Closed
  BY <1>1 DEF HandlerInv
<1>4. UNCHANGED <<conn, saw, seen, told>>
  BY DEF Record, StartRecorder, Receive, PublishMetrics, PersistSample, AskStatus,
         PollStatus, NoFinalSample, StreamBreaks, Deadline, FinishRun, Close, ForgetSession, viewerVars
<1> USE DEF sessionVars
<1>5. conn[v] # "streaming" => chan'[v] = chan[v]
  BY <1>2, <1>3
     DEF Record, StartRecorder, Receive, PublishMetrics, PersistSample, AskStatus,
         PollStatus, NoFinalSample, StreamBreaks, Deadline, FinishRun, Close, ForgetSession,
         Publish, CloseSession
<1>6. v \in missed => v \in missed'
  BY DEF Record, StartRecorder, Receive, PublishMetrics, PersistSample, AskStatus,
         PollStatus, NoFinalSample, StreamBreaks, Deadline, FinishRun, Close, ForgetSession,
         Publish, CloseSession, Offer
<1>7. v \in subs' => v \in subs /\ ~Closed'
  BY <1>3
     DEF Record, StartRecorder, Receive, PublishMetrics, PersistSample, AskStatus,
         PollStatus, NoFinalSample, StreamBreaks, Deadline, FinishRun, Close, ForgetSession,
         Publish, CloseSession, Closed
<1> QED
  BY <1>1, <1>4, <1>5, <1>6, <1>7, RunKeepsHandler

LEMMA ServeHandler ==
  ASSUME StreamInv, NEW v \in Viewers, Connect(v) \/ Serve(v) \/ Disconnect(v)
  PROVE  HandlerInv(v)'
<1>0. HandlerInv(v) /\ TypeOK /\ RecorderInv
  BY DEF StreamInv, ViewersInv
<1>k. \A s \in Over : Known(s) => Known(s)'
  BY <1>0, KnownStays DEF Next
<1>u. UNCHANGED <<row, crossed, unsaved, pc, verdict, last>>
  BY <1>0, ServeUnchanged
<1>c. (Closed' <=> Closed) /\ (Saved' <=> Saved)
  BY <1>u DEF Closed, Saved
<1> USE <1>0, <1>k, <1>u, <1>c DEF HandlerInv, TypeOK, sessionVars, viewerVars, Goto
<1>1. CASE Connect(v)       BY <1>1 DEF Connect
<1>2. CASE LookUp(v)        BY <1>2 DEF LookUp
<1>3. CASE GetRun(v)
  <2>1. row \in Over => Known(row)
    BY DEF RecorderInv, Known
  <2>2. saw'[v] = row /\ row \in {"RUNNING"} \cup Over
    BY <1>3 DEF GetRun
  <2> QED
    BY <1>3, <2>1, <2>2 DEF GetRun
<1>4. CASE GetRunFails(v)   BY <1>4 DEF GetRunFails, Over
<1>5. CASE Recheck(v)       BY <1>5 DEF Recheck
<1>6. CASE Subscribe(v)     BY <1>6 DEF Subscribe
<1>7. CASE Forward(v)       BY <1>7 DEF Forward
<1>8. CASE ForwardEnd(v)
  <2>1. chan[v] \in Seq(Events) /\ chan[v] # <<>> /\ Head(chan[v]) = End
    BY <1>8 DEF ForwardEnd
  <2>2. Len(chan[v]) \in Nat \ {0} /\ chan[v][1] = End
    BY <2>1, EmptySeq, HeadTailProperties
  <2>3. /\ Len(chan[v]) = 1 /\ v \notin subs /\ Closed
        /\ verdict \in Over => Saved
    <3>1. EndIsLast(v) /\ 1 \in 1 .. Len(chan[v])
      BY <2>2 DEF StreamInv, ViewersInv
    <3> QED
      BY <2>2, <3>1, Zenon DEF EndIsLast
  <2>4. v \notin missed => seen[v] = last
    <3>1. HasEnd(v) /\ pc # "publish"
      BY <2>2, <2>3 DEF HasEnd, Closed
    <3>2. \A i \in 1 .. Len(chan[v]) : ~IsMetrics(chan[v][i])
      BY <2>2, <2>3 DEF IsMetrics
    <3> QED
      BY <3>1, <3>2 DEF StreamInv, ViewersInv, CaughtUp
  <2>5. told'[v] = verdict /\ conn'[v] = "played" /\ chan'[v] = <<>> /\ v \notin subs'
    BY <1>8 DEF ForwardEnd, Unsubscribe
  <2> QED
    BY <1>8, <2>3, <2>4, <2>5 DEF ForwardEnd
<1>9. CASE ChannelClosed(v)
  BY <1>9 DEF ChannelClosed, StreamInv, SubscribersAreOpen
<1>10. CASE Disconnect(v)   BY <1>10 DEF Disconnect, Unsubscribe
<1> QED
  BY <1>1, <1>2, <1>3, <1>4, <1>5, <1>6, <1>7, <1>8, <1>9, <1>10 DEF Serve

LEMMA HandlerStep ==
  ASSUME StreamInv, [Next]_vars, NEW v \in Viewers
  PROVE  HandlerInv(v)'
<1>0. HandlerInv(v) /\ TypeOK /\ RecorderInv
  BY DEF StreamInv, ViewersInv
<1>1. CASE Record
  BY <1>1, RecordHandler
<1>2. ASSUME NEW u \in Viewers, Connect(u) \/ Serve(u) \/ Disconnect(u) PROVE HandlerInv(v)'
  <2>1. CASE u = v
    BY <1>2, <2>1, ServeHandler
  <2>2. CASE u # v
    BY <1>0, <1>2, <2>2, ServeUnchanged DEF HandlerInv, Closed, Saved, Known, Past
  <2> QED
    BY <2>1, <2>2
<1>3. CASE ApiRestart
  <2>1. /\ conn'[v] = IF conn[v] \in {"ended", "played"} THEN conn[v] ELSE "off"
        /\ UNCHANGED <<last, missed, seen, told>>
        /\ v \notin subs' /\ chan'[v] = <<>>
    BY <1>3 DEF ApiRestart
  <2> QED
    BY <1>0, <2>1, FinalStays, KnownStays DEF HandlerInv
<1>4. CASE Schedule \/ UNCHANGED vars
  <2>1. UNCHANGED <<conn, saw, seen, told, chan, subs, missed>> /\ (~Closed => ~Closed')
    BY <1>4 DEF Schedule, ReadQueued, CancelRun, DeleteRun, Claim, DispatchFails,
                MarkDispatched, vars, sessionVars, viewerVars, Closed
  <2> QED
    BY <1>0, <2>1, RunKeepsHandler DEF HandlerInv
<1> QED
  BY <1>1, <1>2, <1>3, <1>4 DEF Next

-----------------------------------------------------------------------------
(***************************************************************************)
(* Channels: untouched, sent on, forwarded from, or opened.                *)
(***************************************************************************)
LEMMA ChannelKept ==
  ASSUME StreamInv, [Next]_vars, NEW v \in Viewers,
         chan'[v] = chan[v], seen'[v] = seen[v],
         v \in subs' => v \in subs,
         v \in missed => v \in missed',
         v \in subs' \/ HasEnd(v) => v \in missed'
                                     \/ (pc' # "publish" => pc # "publish" /\ last' = last)
  PROVE  Ordered(v)' /\ EndIsLast(v)' /\ CaughtUp(v)'
<1>0. Ordered(v) /\ EndIsLast(v) /\ CaughtUp(v) /\ TypeOK /\ RecorderInv
  BY DEF StreamInv, ViewersInv
<1>1. last \in Nat /\ last' \in Nat /\ last <= last' /\ seen[v] \in Nat
  BY <1>0, FinalStays, TypeStep, MaxIsNat DEF StreamInv, TypeOK
<1>2. \A i \in 1 .. Len(chan[v]) : IsMetrics(chan[v][i]) => chan[v][i].n \in Nat
  BY <1>0, EventFacts, ElementOfSeq, MaxIsNat DEF TypeOK, Samples
<1>3. Ordered(v)'
  BY <1>0, <1>1, <1>2 DEF Ordered
<1>4. EndIsLast(v)'
  BY <1>0, FinalStays DEF EndIsLast
<1>5. CaughtUp(v)'
  BY <1>0 DEF CaughtUp, HasEnd
<1> QED
  BY <1>3, <1>4, <1>5

\* publish and close, as long as the session is not closed.
LEMMA ChannelOffered ==
  ASSUME StreamInv, [Next]_vars, NEW v \in Viewers, NEW ev \in Events, Offer(ev), ~Closed,
         UNCHANGED <<last, seen>>, v \in subs' => v \in subs, pc' # "publish",
         IsMetrics(ev) => ev.n = last,
         pc = "publish" => IsMetrics(ev),
         ev = End => /\ v \notin subs' /\ Closed'
                     /\ verdict' \in Over => Saved'
  PROVE  Ordered(v)' /\ EndIsLast(v)' /\ CaughtUp(v)'
<1>0. Ordered(v) /\ EndIsLast(v) /\ CaughtUp(v) /\ TypeOK /\ HandlerInv(v)
  BY DEF StreamInv, ViewersInv
<1>1. ~HasEnd(v)
  BY <1>0 DEF HasEnd, EndIsLast
<1>2. v \in missed => v \in missed'
  BY DEF Offer
<1>3. CASE v \notin subs \/ Full(v)
  <2>1. chan'[v] = chan[v] /\ (v \in subs => v \in missed')
    BY <1>3, <1>0 DEF Offer, TypeOK
  <2> QED
    BY <2>1, <1>1, <1>2, ChannelKept
<1>4. CASE v \in subs /\ ~Full(v)
  <2> DEFINE c == chan[v]
             n == Len(chan[v])
  <2>1. c \in Seq(Events) /\ n \in Nat
    BY <1>0, LenProperties DEF TypeOK
  <2>2. /\ chan'[v] = Append(c, ev) /\ Len(chan'[v]) = n + 1
        /\ \A i \in 1 .. n : chan'[v][i] = c[i]
        /\ chan'[v][n + 1] = ev
    BY <1>0, <1>4, <2>1, AppendProperties DEF Offer, TypeOK
  <2>3. \A i \in 1 .. n + 1 : i \in 1 .. n \/ i = n + 1
    BY <2>1
  <2>4. \A i \in 1 .. n : c[i] # End
    BY <1>1 DEF HasEnd
  <2> HIDE DEF c, n
  <2>5. \A i \in 1 .. n : IsMetrics(c[i]) => seen[v] <= c[i].n /\ c[i].n <= last
    BY <1>0 DEF Ordered, c, n
  <2>6. \A i, j \in 1 .. n : i < j /\ IsMetrics(c[i]) /\ IsMetrics(c[j]) => c[i].n <= c[j].n
    BY <1>0 DEF Ordered, c, n
  <2>7. last \in Nat /\ seen[v] <= last
    BY <1>0, MaxIsNat DEF TypeOK, Ordered
  <2>8. Ordered(v)'
    <3>1. \A i \in 1 .. n + 1 : IsMetrics(chan'[v][i])
            => seen[v] <= chan'[v][i].n /\ chan'[v][i].n <= last
      BY <2>2, <2>3, <2>5, <2>7
    <3>2. \A i, j \in 1 .. n + 1 :
            i < j /\ IsMetrics(chan'[v][i]) /\ IsMetrics(chan'[v][j])
              => chan'[v][i].n <= chan'[v][j].n
      <4>1. SUFFICES ASSUME NEW i \in 1 .. n + 1, NEW j \in 1 .. n + 1, i < j,
                            IsMetrics(chan'[v][i]), IsMetrics(chan'[v][j])
                     PROVE  chan'[v][i].n <= chan'[v][j].n
        OBVIOUS
      <4>2. i \in 1 .. n
        BY <2>1, <4>1
      <4>3. CASE j \in 1 .. n
        BY <2>2, <2>6, <4>1, <4>2, <4>3
      <4>4. CASE j = n + 1
        BY <2>2, <2>5, <4>1, <4>2, <4>4
      <4> QED
        BY <2>3, <4>3, <4>4
    <3> QED
      BY <2>2, <2>7, <3>1, <3>2 DEF Ordered
  <2>9. EndIsLast(v)'
    BY <2>2, <2>3, <2>4 DEF EndIsLast
  <2>10. CaughtUp(v)'
    <3>1. CASE IsMetrics(ev)
      BY <2>1, <2>2, <3>1 DEF CaughtUp
    <3>2. CASE ~IsMetrics(ev)
      <4>1. v \notin missed => seen[v] = last \/ \E i \in 1 .. n : IsMetrics(c[i]) /\ c[i].n = last
        BY <1>0, <1>4, <3>2 DEF CaughtUp, c, n
      <4>2. \A i \in 1 .. n : i \in 1 .. n + 1
        BY <2>1
      <4> QED
        BY <1>2, <2>2, <4>1, <4>2 DEF CaughtUp
    <3> QED
      BY <3>1, <3>2
  <2> QED
    BY <2>8, <2>9, <2>10
<1> QED
  BY <1>3, <1>4

\* An event is taken out of the channel.
LEMMA ChannelForwarded ==
  ASSUME StreamInv, [Next]_vars, NEW v \in Viewers, Forward(v)
  PROVE  Ordered(v)' /\ EndIsLast(v)' /\ CaughtUp(v)'
<1>0. Ordered(v) /\ EndIsLast(v) /\ CaughtUp(v) /\ TypeOK
  BY DEF StreamInv, ViewersInv
<1> DEFINE c == chan[v]
           n == Len(chan[v])
<1>1. c \in Seq(Events) /\ c # <<>> /\ n \in Nat \ {0}
  BY <1>0, EmptySeq DEF Forward, TypeOK
<1>2. /\ chan'[v] = Tail(c) /\ Len(chan'[v]) = n - 1
      /\ \A i \in 1 .. n - 1 : chan'[v][i] = c[i + 1]
  BY <1>0, <1>1, HeadTailProperties DEF Forward, TypeOK
<1>3. Head(c) = c[1] /\ c[1] # End
  BY <1>1 DEF Forward
<1>4. \A i \in 1 .. n : IsMetrics(c[i]) => c[i].n \in Nat
  BY <1>0, EventFacts, ElementOfSeq, MaxIsNat DEF TypeOK, Samples
<1>5. /\ UNCHANGED <<row, crossed, unsaved, pc, verdict, last, subs, missed>>
      /\ seen'[v] = IF IsMetrics(c[1]) THEN c[1].n ELSE seen[v]
  BY <1>0, <1>3 DEF Forward, TypeOK, IsMetrics, tableVars
<1>6. last \in Nat /\ seen[v] \in Nat /\ seen[v] <= last
  BY <1>0, MaxIsNat DEF TypeOK, Ordered
<1> HIDE DEF c, n
<1>7. \A i \in 1 .. n : IsMetrics(c[i]) => seen[v] <= c[i].n /\ c[i].n <= last
  BY <1>0 DEF Ordered, c, n
<1>8. \A i, j \in 1 .. n : i < j /\ IsMetrics(c[i]) /\ IsMetrics(c[j]) => c[i].n <= c[j].n
  BY <1>0 DEF Ordered, c, n
<1>9. \A i \in 1 .. n - 1 : i + 1 \in 1 .. n /\ 1 < i + 1 /\ 1 \in 1 .. n
  BY <1>1
<1>10. Ordered(v)'
  <2>1. seen'[v] <= last
    BY <1>1, <1>5, <1>6, <1>7
  <2>2. \A i \in 1 .. n - 1 : IsMetrics(c[i + 1]) => seen'[v] <= c[i + 1].n /\ c[i + 1].n <= last
    BY <1>5, <1>7, <1>8, <1>9
  <2>3. \A i, j \in 1 .. n - 1 : i < j /\ IsMetrics(c[i + 1]) /\ IsMetrics(c[j + 1])
          => c[i + 1].n <= c[j + 1].n
    BY <1>8, <1>9
  <2> QED
    BY <1>2, <1>5, <2>1, <2>2, <2>3 DEF Ordered
<1>11. EndIsLast(v)'
  <2>1. ASSUME NEW i \in 1 .. n - 1, c[i + 1] = End
        PROVE  /\ i = n - 1 /\ v \notin subs /\ Closed
               /\ verdict \in Over => Saved
    BY <1>0, <1>1, <1>9, <2>1 DEF EndIsLast, c, n
  <2> QED
    BY <1>2, <1>5, <2>1 DEF EndIsLast, Closed, Saved
<1>12. CaughtUp(v)'
  <2>1. SUFFICES ASSUME v \notin missed, pc # "publish", v \in subs \/ HasEnd(v)'
                 PROVE  \/ seen'[v] = last
                        \/ \E i \in 1 .. n - 1 : IsMetrics(c[i + 1]) /\ c[i + 1].n = last
    BY <1>2, <1>5 DEF CaughtUp
  <2>2. v \in subs \/ HasEnd(v)
    <3>1. ASSUME NEW i \in 1 .. n - 1, c[i + 1] = End PROVE HasEnd(v)
      BY <1>9, <3>1 DEF HasEnd, c, n
    <3> QED
      BY <1>2, <2>1, <3>1 DEF HasEnd
  <2>3. seen[v] = last \/ \E i \in 1 .. n : IsMetrics(c[i]) /\ c[i].n = last
    BY <1>0, <2>1, <2>2 DEF CaughtUp, c, n
  <2>4. CASE seen[v] = last
    BY <1>1, <1>4, <1>5, <1>6, <1>7, <2>4 DEF c, n
  <2>5. CASE \E i \in 1 .. n : IsMetrics(c[i]) /\ c[i].n = last
    <3>1. PICK i \in 1 .. n : IsMetrics(c[i]) /\ c[i].n = last
      BY <2>5
    <3>2. CASE i = 1
      BY <1>5, <3>1, <3>2
    <3>3. CASE i # 1
      <4>1. i - 1 \in 1 .. n - 1 /\ (i - 1) + 1 = i
        BY <1>1, <3>1, <3>3
      <4> QED
        BY <3>1, <4>1
    <3> QED
      BY <3>2, <3>3
  <2> QED
    BY <2>3, <2>4, <2>5
<1> QED
  BY <1>10, <1>11, <1>12

\* A channel that is opened holds at most the last sample; one that is left is empty.
LEMMA ChannelOpened ==
  ASSUME StreamInv, [Next]_vars, NEW v \in Viewers,
         UNCHANGED <<last, seen>>,
         \/ chan'[v] = <<>> /\ (v \in subs' => last = 0)
         \/ chan'[v] = <<Metrics(last)>> /\ last > 0
  PROVE  Ordered(v)' /\ EndIsLast(v)' /\ CaughtUp(v)'
<1>0. Ordered(v) /\ TypeOK
  BY DEF StreamInv, ViewersInv
<1>1. last \in Nat /\ seen[v] \in Nat /\ seen[v] <= last
  BY <1>0, MaxIsNat DEF TypeOK, Ordered
<1>2. CASE chan'[v] = <<>> /\ (v \in subs' => last = 0)
  <2>1. Len(chan'[v]) = 0
    BY <1>2, EmptySeq
  <2>2. v \in subs' => seen[v] = last
    BY <1>1, <1>2
  <2> QED
    BY <1>1, <2>1, <2>2 DEF Ordered, EndIsLast, CaughtUp, HasEnd
<1>3. CASE chan'[v] = <<Metrics(last)>> /\ last > 0
  <2>1. Len(chan'[v]) = 1 /\ chan'[v][1] = Metrics(last)
    BY <1>3
  <2>2. last \in Samples
    BY <1>0, <1>3, MaxIsNat DEF TypeOK, Samples
  <2>3. IsMetrics(Metrics(last)) /\ Metrics(last).n = last /\ Metrics(last) # End
    BY <2>2, EventFacts DEF IsMetrics
  <2>4. \A i \in 1 .. 1 : i = 1
    OBVIOUS
  <2>5. Ordered(v)'
    BY <1>1, <2>1, <2>3, <2>4 DEF Ordered
  <2>6. EndIsLast(v)'
    BY <2>1, <2>3, <2>4 DEF EndIsLast
  <2>7. CaughtUp(v)'
    BY <2>1, <2>3 DEF CaughtUp
  <2> QED
    BY <2>5, <2>6, <2>7
<1> QED
  BY <1>2, <1>3

LEMMA RecordChannel ==
  ASSUME StreamInv, Record, NEW v \in Viewers
  PROVE  Ordered(v)' /\ EndIsLast(v)' /\ CaughtUp(v)'
<1>0. [Next]_vars /\ TypeOK /\ RecorderInv
  BY DEF StreamInv, Next
<1> USE DEF sessionVars, viewerVars, tableVars
<1>1. ASSUME UNCHANGED <<chan, seen, subs, missed>>,
             pc' # "publish" => pc # "publish" /\ last' = last
      PROVE  Ordered(v)' /\ EndIsLast(v)' /\ CaughtUp(v)'
  BY <1>0, <1>1, ChannelKept
<1>2. CASE Receive
  BY <1>1, <1>2 DEF Receive
<1>3. CASE PublishMetrics
  <2>1. last \in Samples
    BY <1>0, <1>3 DEF PublishMetrics, RecorderInv, TypeOK, Samples
  <2>2. IsMetrics(Metrics(last)) /\ Metrics(last).n = last /\ Metrics(last) \in Events
    BY <2>1, EventFacts
  <2>3. Metrics(last) # End
    BY <2>2 DEF IsMetrics
  <2>4. /\ Offer(Metrics(last)) /\ UNCHANGED <<last, seen, subs>>
        /\ pc = "publish" /\ pc' = "persist"
    BY <1>3 DEF PublishMetrics, Publish
  <2>5. ~Closed /\ pc' # "publish"
    BY <2>4 DEF Closed
  <2> QED
    BY <1>0, <2>2, <2>3, <2>4, <2>5, ChannelOffered
<1>4. CASE PollStatus
  <2>1. /\ UNCHANGED <<last, seen, subs>>
        /\ pc = "polling" /\ pc' \in {"recording", "final"}
        /\ Offer(StatusEv) \/ UNCHANGED <<chan, missed>>
    BY <1>4 DEF PollStatus, Publish
  <2>2. ~Closed /\ pc' # "publish" /\ pc # "publish"
    BY <2>1 DEF Closed
  <2>3. ~IsMetrics(StatusEv)
    BY DEF IsMetrics
  <2>4. CASE Offer(StatusEv)
    BY <1>0, <2>1, <2>2, <2>3, <2>4, EventFacts, ChannelOffered
  <2>5. CASE UNCHANGED <<chan, missed>>
    BY <1>1, <2>1, <2>2, <2>5
  <2> QED
    BY <2>1, <2>4, <2>5
<1>5. CASE Close
  <2>1. /\ Offer(End) /\ UNCHANGED <<last, seen, row, crossed, unsaved, verdict>> /\ subs' = {}
        /\ pc = "close" /\ pc' = "cleanup"
    BY <1>5 DEF Close, CloseSession
  <2>2. ~Closed /\ Closed' /\ pc' # "publish" /\ pc # "publish"
    BY <2>1 DEF Closed
  <2>3. ~IsMetrics(End)
    BY DEF IsMetrics
  <2>4. Saved'
    BY <1>0, <2>1 DEF RecorderInv, Saved
  <2> QED
    BY <1>0, <2>1, <2>2, <2>3, <2>4, EventFacts, ChannelOffered
<1>6. CASE \/ StartRecorder \/ PersistSample \/ AskStatus \/ NoFinalSample
           \/ StreamBreaks \/ Deadline \/ FinishRun \/ ForgetSession
  BY <1>1, <1>6
     DEF StartRecorder, PersistSample, AskStatus, NoFinalSample, StreamBreaks, Deadline,
         FinishRun, ForgetSession
<1> QED
  BY <1>2, <1>3, <1>4, <1>5, <1>6 DEF Record

LEMMA ServeChannel ==
  ASSUME StreamInv, NEW v \in Viewers, Connect(v) \/ Serve(v) \/ Disconnect(v)
  PROVE  Ordered(v)' /\ EndIsLast(v)' /\ CaughtUp(v)'
<1>0. [Next]_vars /\ TypeOK
  BY DEF StreamInv, Next
<1> USE DEF sessionVars, viewerVars, tableVars
<1>1. ASSUME UNCHANGED <<chan, seen, subs, missed, pc, last>>
      PROVE  Ordered(v)' /\ EndIsLast(v)' /\ CaughtUp(v)'
  BY <1>0, <1>1, ChannelKept
<1>2. CASE Connect(v) \/ LookUp(v) \/ GetRun(v) \/ GetRunFails(v) \/ Recheck(v) \/ ChannelClosed(v)
  BY <1>1, <1>2 DEF Connect, LookUp, GetRun, GetRunFails, Recheck, ChannelClosed
<1>3. CASE Subscribe(v)
  <2>1. CASE Closed
    BY <1>1, <1>3, <2>1 DEF Subscribe
  <2>2. CASE ~Closed
    <3>1. /\ chan'[v] = IF last > 0 THEN <<Metrics(last)>> ELSE <<>>
          /\ UNCHANGED <<last, seen>>
      BY <1>0, <1>3, <2>2 DEF Subscribe, TypeOK
    <3>2. last > 0 \/ last = 0
      BY <1>0, MaxIsNat DEF TypeOK
    <3> QED
      BY <1>0, <3>1, <3>2, ChannelOpened
  <2> QED
    BY <2>1, <2>2
<1>4. CASE Forward(v)
  BY <1>0, <1>4, ChannelForwarded
<1>5. CASE ForwardEnd(v)
  <2>1. chan'[v] = <<>> /\ v \notin subs' /\ UNCHANGED <<last, seen>>
    BY <1>0, <1>5 DEF ForwardEnd, Unsubscribe, TypeOK
  <2> QED
    BY <1>0, <2>1, ChannelOpened
<1>6. CASE Disconnect(v)
  <2>1. CASE conn[v] = "streaming"
    <3>1. chan'[v] = <<>> /\ v \notin subs' /\ UNCHANGED <<last, seen>>
      BY <1>0, <1>6, <2>1 DEF Disconnect, Unsubscribe, TypeOK
    <3> QED
      BY <1>0, <3>1, ChannelOpened
  <2>2. CASE conn[v] # "streaming"
    BY <1>1, <1>6, <2>2 DEF Disconnect
  <2> QED
    BY <2>1, <2>2
<1> QED
  BY <1>2, <1>3, <1>4, <1>5, <1>6 DEF Serve

LEMMA ChannelStep ==
  ASSUME StreamInv, [Next]_vars, NEW v \in Viewers
  PROVE  Ordered(v)' /\ EndIsLast(v)' /\ CaughtUp(v)'
<1>0. TypeOK
  BY DEF StreamInv
<1>1. CASE Record
  BY <1>1, RecordChannel
<1>2. ASSUME NEW u \in Viewers, Connect(u) \/ Serve(u) \/ Disconnect(u)
      PROVE  Ordered(v)' /\ EndIsLast(v)' /\ CaughtUp(v)'
  <2>1. CASE u = v
    BY <1>2, <2>1, ServeChannel
  <2>2. CASE u # v
    BY <1>0, <1>2, <2>2, ServeUnchanged, ChannelKept
  <2> QED
    BY <2>1, <2>2
<1>3. CASE ApiRestart
  BY <1>3, ChannelOpened DEF ApiRestart
<1>4. CASE Schedule \/ UNCHANGED vars
  <2>1. /\ UNCHANGED <<chan, seen, subs, missed, last>>
        /\ pc' # "publish" => pc # "publish"
    BY <1>4 DEF Schedule, ReadQueued, CancelRun, DeleteRun, Claim, DispatchFails,
                MarkDispatched, vars, sessionVars, viewerVars
  <2> QED
    BY <2>1, ChannelKept
<1> QED
  BY <1>1, <1>2, <1>3, <1>4 DEF Next

LEMMA OpenStep ==
  ASSUME TypeOK, SubscribersAreOpen, [Next]_vars
  PROVE  SubscribersAreOpen'
<1> USE DEF SubscribersAreOpen, sessionVars, viewerVars
<1>1. CASE Record
  BY <1>1
     DEF Record, StartRecorder, Receive, PublishMetrics, PersistSample, AskStatus,
         PollStatus, NoFinalSample, StreamBreaks, Deadline, FinishRun, Close, ForgetSession,
         Publish, CloseSession
<1>2. ASSUME NEW v \in Viewers, Connect(v) \/ Serve(v) \/ Disconnect(v)
      PROVE  SubscribersAreOpen'
  BY <1>2
     DEF Connect, Serve, LookUp, GetRun, GetRunFails, Recheck, Subscribe,
         Forward, ForwardEnd, ChannelClosed, Disconnect, Unsubscribe
<1>3. CASE Schedule \/ ApiRestart \/ UNCHANGED vars
  BY <1>3 DEF Schedule, ReadQueued, CancelRun, DeleteRun, Claim, DispatchFails,
              MarkDispatched, ApiRestart, vars
<1> QED
  BY <1>1, <1>2, <1>3 DEF Next

LEMMA StreamInvStep == StreamInv /\ [Next]_vars => StreamInv'
<1> SUFFICES ASSUME StreamInv, [Next]_vars PROVE StreamInv'
  OBVIOUS
<1>1. TypeOK' /\ RecorderInv' /\ SubscribersAreOpen'
  BY TypeStep, RecorderInvStep, OpenStep DEF StreamInv
<1>2. ViewersInv'
  BY HandlerStep, ChannelStep DEF ViewersInv
<1> QED
  BY <1>1, <1>2 DEF StreamInv

\* The inductive invariant: the types, what the recorder's place says of the row
\* and the samples, and what each handler has read, been shown and been told.
THEOREM StreamInvariant == Spec => []StreamInv
BY InitStreamInv, StreamInvStep, PTL DEF Spec

-----------------------------------------------------------------------------
\* Recorder, sessions and handlers keep their types; in particular no channel
\* ever holds more than its capacity, so that no publisher is ever blocked.
THEOREM TypeCorrect == Spec => []TypeOK
<1>1. StreamInv => TypeOK
  BY DEF StreamInv
<1> QED
  BY <1>1, StreamInvariant, PTL

\* However close, unsubscribe and the end of the process interleave, nobody sends
\* on a closed channel and nobody closes one twice.
THEOREM ChannelsCloseOnce == Spec => []SubscribersAreOpen
<1>1. StreamInv => SubscribersAreOpen
  BY DEF StreamInv
<1> QED
  BY <1>1, StreamInvariant, PTL

\* As long as the run is in the table, a dashboard shows nothing but what is stored
\* with it, or was not because of an AddSample whose error was only logged, or was
\* replaced by a sample of the same millisecond, or is the one sample between
\* Receive and persistSample.
THEOREM ShownIsStored == Spec => []SeenIsStored
<1>1. ASSUME StreamInv, NEW v \in Viewers, seen[v] # 0, row # "GONE"
      PROVE  \/ seen[v] \in stored \cup lost
             \/ seen[v] = last /\ pc \in {"publish", "persist", "gone"}
  <2>1. seen[v] \in Nat /\ last \in Nat /\ seen[v] <= last
    BY <1>1, MaxIsNat DEF StreamInv, TypeOK, ViewersInv, Ordered
  <2>2. seen[v] \in 1 .. last
    BY <1>1, <2>1
  <2> QED
    BY <1>1, <2>2 DEF StreamInv, RecorderInv
<1>2. StreamInv => SeenIsStored
  BY <1>1 DEF SeenIsStored
<1> QED
  BY <1>2, StreamInvariant, PTL

\* A dashboard that never stalled and hears the end from the session has been
\* shown the last sample, whenever it subscribed.
THEOREM PlayedIsComplete == Spec => []EndIsComplete
<1>1. StreamInv => EndIsComplete
  BY DEF StreamInv, ViewersInv, HandlerInv, EndIsComplete
<1> QED
  BY <1>1, StreamInvariant, PTL

\* The final status a dashboard is told is the one history keeps, through every
\* restart and from either source, but where a cancellation crossed the dispatch
\* or the recorder could not write the row.
THEOREM ToldIsTrue == Spec => []EndIsTrue
<1>1. ASSUME StreamInv, NEW v \in Viewers, told[v] \in Over
      PROVE  \/ row \in {told[v], "GONE"}
             \/ crossed /\ "CANCELLED" \in {row, told[v]}
             \/ unsaved /\ conn[v] = "played"
  <2>1. HandlerInv(v)
    BY <1>1 DEF StreamInv, ViewersInv
  <2>2. conn[v] \in {"ended", "played"}
    BY <1>1, <2>1, NoEndAssumption DEF HandlerInv, Over
  <2>3. CASE conn[v] = "ended"
    BY <1>1, <2>1, <2>3 DEF HandlerInv, Known
  <2>4. CASE conn[v] = "played"
    BY <1>1, <2>1, <2>4 DEF HandlerInv, Saved
  <2> QED
    BY <2>2, <2>3, <2>4
<1>2. StreamInv => EndIsTrue
  BY <1>1 DEF EndIsTrue
<1> QED
  BY <1>2, StreamInvariant, PTL

(***************************************************************************)
(* Refinement: a snapshot received is recorded, a sample forwarded is      *)
(* shown, and an end event of either kind tells the end.                   *)
(***************************************************************************)
LEMMA FeedStep ==
  ASSUME StreamInv, [Next]_vars
  PROVE  [F!Next]_(F!vars)
<1>0. TypeOK /\ last \in Nat
  BY MaxIsNat DEF StreamInv, TypeOK
<1>u. ASSUME UNCHANGED <<last, seen, told>> PROVE [F!Next]_(F!vars)
  BY <1>u DEF F!vars
<1>t. ASSUME NEW v \in Viewers, NEW s \in EndStatus, UNCHANGED <<last, seen>>,
             told[v] = NoEnd, told' = [told EXCEPT ![v] = s]
      PROVE  [F!Next]_(F!vars)
  BY <1>t DEF F!Next, F!Tell
<1> USE DEF sessionVars, viewerVars
<1>1. CASE Receive
  BY <1>1 DEF Receive, F!Next, F!Record
<1>2. CASE Record /\ ~Receive
  BY <1>2, <1>u
     DEF Record, StartRecorder, PublishMetrics, PersistSample, AskStatus, PollStatus,
         NoFinalSample, StreamBreaks, Deadline, FinishRun, Close, ForgetSession, Publish,
         CloseSession
<1>3. ASSUME NEW v \in Viewers, Connect(v) \/ Serve(v) \/ Disconnect(v)
      PROVE  [F!Next]_(F!vars)
  <2>0. HandlerInv(v) /\ Ordered(v)
    BY DEF StreamInv, ViewersInv
  <2>1. CASE GetRunFails(v)
    BY <1>t, <2>0, <2>1 DEF GetRunFails, HandlerInv, EndStatus
  <2>2. CASE Recheck(v)
    BY <1>t, <1>u, <2>0, <2>2 DEF Recheck, HandlerInv, EndStatus
  <2>3. CASE ForwardEnd(v)
    BY <1>0, <1>t, <2>0, <2>3 DEF ForwardEnd, HandlerInv, EndStatus, TypeOK
  <2>4. CASE Forward(v)
    <3>1. told[v] = NoEnd /\ UNCHANGED <<last, told>>
      BY <2>0, <2>4 DEF Forward, HandlerInv
    <3>2. CASE Head(chan[v]) = StatusEv
      <4>1. seen' = seen
        BY <1>0, <2>4, <3>2 DEF Forward, TypeOK
      <4> QED
        BY <1>u, <3>1, <4>1
    <3>3. CASE Head(chan[v]) # StatusEv
      <4>1. chan[v] \in Seq(Events) /\ chan[v] # <<>>
        BY <1>0, <2>4 DEF Forward, TypeOK
      <4>2. Head(chan[v]) = chan[v][1] /\ 1 \in 1 .. Len(chan[v])
        BY <4>1, EmptySeq
      <4>3. IsMetrics(chan[v][1]) /\ chan[v][1] \in Events
        BY <2>4, <3>3, <4>1, <4>2, ElementOfSeq DEF Forward, IsMetrics
      <4>4. chan[v][1].n \in Nat /\ seen[v] \in Nat
        BY <1>0, <4>3, EventFacts, MaxIsNat DEF TypeOK, Samples
      <4>5. chan[v][1].n \in seen[v] .. last
        BY <1>0, <2>0, <4>2, <4>3, <4>4 DEF Ordered
      <4>6. seen' = [seen EXCEPT ![v] = chan[v][1].n]
        BY <2>4, <3>3, <4>2 DEF Forward
      <4> QED
        BY <3>1, <4>5, <4>6 DEF F!Next, F!Show
    <3> QED
      BY <3>2, <3>3
  <2> QED
    BY <1>3, <1>u, <2>1, <2>2, <2>3, <2>4
       DEF Connect, Serve, LookUp, GetRun, Subscribe, ChannelClosed, Disconnect
<1>4. CASE Schedule \/ ApiRestart \/ UNCHANGED vars
  BY <1>4, <1>u
     DEF Schedule, ReadQueued, CancelRun, DeleteRun, Claim, DispatchFails, MarkDispatched,
         ApiRestart, vars
<1> QED
  BY <1>1, <1>2, <1>3, <1>4 DEF Next

\* The recorder and the handlers keep the promise: the picture never goes back,
\* not even by reconnecting, is never ahead of what has been received, and nothing
\* follows the end.
THEOREM KeepsThePromise == Spec => ImplementsFeed
<1>1. Init => F!Init
  BY DEF Init, F!Init
<1>2. StreamInv /\ [Next]_vars => [F!Next]_(F!vars)
  BY FeedStep
<1> QED
  BY <1>1, <1>2, StreamInvariant, PTL DEF Spec, ImplementsFeed, F!Spec
=============================================================================
