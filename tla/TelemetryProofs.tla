---------------------------- MODULE TelemetryProofs -----------------------------
(***************************************************************************)
(* Proofs about what a test measures: for every fleet, every sequence of   *)
(* tests, any number of virtual users, and batches that are lost and       *)
(* overtaken.                                                              *)
(***************************************************************************)
EXTENDS Telemetry, Sums, SequenceTheorems

\* The test is over on the worker: nothing more is recorded for it.
Past(w, t) == t < cur[w] \/ (t = cur[w] /\ engine[w] \in {"final", "idle"})

(***************************************************************************)
(* The collector of a worker.  Between two resets it holds what has been   *)
(* recorded for the current test, and until the reset that follows a new   *)
(* test all of an earlier one.  Requests are under way only while a test   *)
(* runs, and a request that is cut still finds room.                       *)
(***************************************************************************)
CollectorInv(w) ==
  /\ inflight[w] > 0 => engine[w] \in {"running", "ending"}
  /\ engine[w] # "idle" => cur[w] \in Tests
  /\ \A t \in Tests : t > cur[w] => recorded[w][t] = 0
  /\ cur[w] \in Tests /\ engine[w] # "entered" => total[w] = recorded[w][cur[w]]
  /\ cur[w] = NoTest => total[w] = 0
  /\ engine[w] = "entered" => total[w] = 0 \/ Earlier(w, cur[w], total[w])
  /\ engine[w] \in {"entered", "reset"} => recorded[w][cur[w]] = 0
  /\ cur[w] \in Tests => recorded[w][cur[w]] + 2 * inflight[w] <= MaxRecorded + 2 * VUs

\* What the reporter and the keep-alive have read is of the current test or an
\* earlier one, and a flag that was down stays down for that test.
LabelInv(w) ==
  /\ repTest[w] <= cur[w] /\ rep[w] <= cur[w] /\ keep[w].test <= cur[w]
  /\ engine[w] \notin {"entered", "reset"} => repTest[w] = cur[w]
  /\ keep[w] # NotReading => keep[w].test \in Tests
  /\ keep[w] # NotReading /\ ~keep[w].active => Past(w, keep[w].test)

Local == TypeOK /\ \A w \in Workers : CollectorInv(w) /\ LabelInv(w)

\* Tests follow one another: no test begins before history has the one before.
OrderInv ==
  /\ \A s, t \in Tests : s < t /\ status[t] # "NONE" => s \in stored
  /\ \A t \in stored : status[t] = "COMPLETED"
  /\ \A t \in Tests : status[t] = "COMPLETED" => done[t] = Workers
  /\ \A w \in Workers : cur[w] \in Tests => status[cur[w]] # "NONE"

\* A number of requests that may be credited to a test.
Fits(w, t, x) ==
  /\ t <= cur[w]
  /\ Open(t) => x <= recorded[w][t] \/ Earlier(w, t, x)

FitBatch(w, b) ==
  /\ Fits(w, b.test, b.total)
  /\ ~b.active => Past(w, b.test) /\ (Open(b.test) => b.total = recorded[w][b.test])

\* All that is under way fits, and what follows the word that a test is over has
\* all of that test.
Queue(w, q) ==
  /\ \A i \in DOMAIN q : FitBatch(w, q[i])
  /\ \A i, j \in DOMAIN q :
       i < j /\ q[i].test = q[j].test /\ ~q[i].active /\ Open(q[j].test)
         => q[j].total = recorded[w][q[j].test]

EntryInv(w) == \A t \in Tests : entry[t][w] # NoEntry => Fits(w, t, entry[t][w])

\* The entry is all that w recorded for t, and nothing under way will change that.
Exact(w, t, e, q) ==
  Open(t) => /\ e = recorded[w][t]
             /\ \A i \in DOMAIN q : q[i].test = t => q[i].total = recorded[w][t]

\* The word that a test is over has come.
Word(w, t) == w \in done[t] \/ handling[w] = t

WordInv(w) ==
  \A t \in Tests : Word(w, t) =>
    Past(w, t) /\ (w \notin overtaken => Exact(w, t, entry[t][w], net[w]))

ReportInv(w) == Queue(w, net[w]) /\ EntryInv(w) /\ WordInv(w)

PollInv ==
  poll # NoPoll =>
    /\ status[poll.test] # "NONE"
    /\ poll.over => status[poll.test] = "COMPLETED"
    /\ poll.over /\ Open(poll.test) /\ overtaken = {} => poll.total = Recorded(poll.test)

TotalsInv == Local /\ OrderInv /\ (\A w \in Workers : ReportInv(w)) /\ PollInv

-----------------------------------------------------------------------------
(***************************************************************************)
(* Constants and sequences.                                                *)
(***************************************************************************)
LEMMA Numbers ==
  /\ Tests \subseteq Nat /\ 0 \notin Tests
  /\ VUs \in Nat \ {0} /\ MaxInFlight \in Nat \ {0} /\ MaxRecorded \in Nat
  /\ MaxRecorded + 2 * VUs \in Nat /\ Totals \subseteq Nat
<1>1. Cardinality(Tests) \in Nat
  BY TestsAssumption, FS_CardinalityType
<1> QED
  BY <1>1, TestsAssumption, VUsPositive, MaxIsNat DEF Totals

LEMMA TestIsNumber == \A t \in Tests : t \in Nat /\ t > 0
  BY Numbers

LEMMA CurIsNumber ==
  ASSUME cur \in [Workers -> Tests \cup {NoTest}], NEW w \in Workers
  PROVE  cur[w] \in Nat /\ (cur[w] \in Tests \/ cur[w] = NoTest)
<1>1. cur[w] \in Tests \/ cur[w] = NoTest
  OBVIOUS
<1>2. 0 \in Nat
  OBVIOUS
<1> QED
  BY <1>1, <1>2, TestIsNumber, Zenon DEF NoTest

LEMMA RemoveAtFacts ==
  ASSUME NEW B, NEW s \in Seq(B), NEW i \in DOMAIN s
  PROVE  /\ RemoveAt(s, i) \in Seq(B)
         /\ Len(RemoveAt(s, i)) = Len(s) - 1
         /\ DOMAIN RemoveAt(s, i) = 1 .. Len(s) - 1
         /\ \A k \in 1 .. Len(s) - 1 :
              RemoveAt(s, i)[k] = IF k < i THEN s[k] ELSE s[k + 1]
<1>1. Len(s) \in Nat /\ DOMAIN s = 1 .. Len(s) /\ \A k \in 1 .. Len(s) : s[k] \in B
  BY ElementOfSeq
<1>2. PICK a, c : a = SubSeq(s, 1, i - 1) /\ c = SubSeq(s, i + 1, Len(s))
  OBVIOUS
<1>3. /\ a \in Seq(B) /\ Len(a) = i - 1
      /\ \A k \in 1 .. i - 1 : a[k] = s[k]
  BY <1>1, <1>2, SubSeqProperties
<1>4. /\ c \in Seq(B) /\ Len(c) = Len(s) - i
      /\ \A k \in 1 .. Len(s) - i : c[k] = s[k + i]
  BY <1>1, <1>2, SubSeqProperties
<1>5. /\ a \o c \in Seq(B) /\ Len(a \o c) = Len(s) - 1
      /\ \A k \in 1 .. Len(s) - 1 : (a \o c)[k] = IF k <= i - 1 THEN a[k] ELSE c[k - (i - 1)]
  <2>1. /\ a \o c \in Seq(B) /\ Len(a \o c) = Len(a) + Len(c)
        /\ \A k \in 1 .. Len(a) + Len(c) :
             (a \o c)[k] = IF k <= Len(a) THEN a[k] ELSE c[k - Len(a)]
    BY <1>3, <1>4, ConcatProperties
  <2>2. Len(a) + Len(c) = Len(s) - 1
    BY <1>1, <1>3, <1>4
  <2> QED
    BY <1>3, <2>1, <2>2
<1>6. RemoveAt(s, i) = a \o c
  BY <1>2 DEF RemoveAt
<1>7. ASSUME NEW k \in 1 .. Len(s) - 1 PROVE (a \o c)[k] = IF k < i THEN s[k] ELSE s[k + 1]
  <2>1. CASE k < i
    <3>1. k <= i - 1 /\ k \in 1 .. i - 1
      BY <1>1, <2>1
    <3> QED
      BY <1>3, <1>5, <2>1, <3>1
  <2>2. CASE ~(k < i)
    <3>1. ~(k <= i - 1) /\ k - (i - 1) \in 1 .. Len(s) - i /\ (k - (i - 1)) + i = k + 1
      BY <1>1, <2>2
    <3>2. (a \o c)[k] = c[k - (i - 1)]
      BY <1>5, <3>1
    <3> QED
      BY <1>4, <2>2, <3>1, <3>2
  <2> QED
    BY <2>1, <2>2
<1>8. DOMAIN (a \o c) = 1 .. Len(s) - 1
  BY <1>5
<1> QED
  BY <1>5, <1>6, <1>7, <1>8

LEMMA AppendFacts ==
  ASSUME NEW B, NEW s \in Seq(B), NEW b \in B
  PROVE  /\ Append(s, b) \in Seq(B)
         /\ Len(Append(s, b)) = Len(s) + 1
         /\ DOMAIN Append(s, b) = 1 .. Len(s) + 1 /\ DOMAIN s = 1 .. Len(s)
         /\ \A k \in 1 .. Len(s) + 1 : Append(s, b)[k] = IF k <= Len(s) THEN s[k] ELSE b
  OBVIOUS

LEMMA SendType ==
  ASSUME TypeOK, NEW w \in Workers, NEW t \in Tests, NEW a \in BOOLEAN, Send(w, t, a)
  PROVE  /\ net' \in [Workers -> Seq(Batches)] /\ overtaken' = overtaken
         /\ \A v \in Workers : Len(net'[v]) <= MaxInFlight
<1>1. PICK b : b = [test |-> t, active |-> a, total |-> total[w]]
  OBVIOUS
<1>2. b \in Batches
  BY <1>1 DEF TypeOK, Batches
<1>3. net' = [net EXCEPT ![w] = Append(net[w], b)] /\ Len(net[w]) < MaxInFlight /\ overtaken' = overtaken
  BY <1>1 DEF Send
<1>4. net[w] \in Seq(Batches) /\ net \in [Workers -> Seq(Batches)] /\ Len(net[w]) \in Nat
  BY DEF TypeOK
<1>5. Append(net[w], b) \in Seq(Batches) /\ Len(Append(net[w], b)) <= MaxInFlight
  BY <1>2, <1>3, <1>4, AppendFacts, Numbers
<1> QED
  BY <1>3, <1>4, <1>5 DEF TypeOK

LEMMA SumsAreNumbers ==
  ASSUME TypeOK, NEW t \in Tests
  PROVE  Aggregated(t) \in Nat
<1>1. PICK f : f = [w \in Workers |-> IF entry[t][w] = NoEntry THEN 0 ELSE entry[t][w]]
  OBVIOUS
<1>2. ASSUME NEW w \in Workers PROVE f[w] \in Nat
  BY <1>1, Numbers DEF TypeOK, Totals
<1>3. f \in [Workers -> Int] /\ \A w \in Workers : f[w] >= 0
  BY <1>1, <1>2
<1>4. SumFunction(f) \in Int /\ SumFunction(f) >= 0
  BY <1>3, WorkersAreFinite, SumOfAll
<1> QED
  BY <1>1, <1>4 DEF Aggregated

-----------------------------------------------------------------------------
(***************************************************************************)
(* Types.                                                                  *)
(***************************************************************************)
LEMMA RecordFits ==
  ASSUME Local, NEW w \in Workers, NEW n \in {1, 2}, RecordRequest(w, n)
  PROVE  /\ cur[w] \in Tests /\ engine[w] \in {"running", "ending"} /\ inflight[w] - 1 \in 0 .. VUs
         /\ total[w] = recorded[w][cur[w]] /\ total[w] + n \in Totals
         /\ recorded[w][cur[w]] + n + 2 * (inflight[w] - 1) <= MaxRecorded + 2 * VUs
<1>1. /\ cur[w] \in Tests /\ engine[w] \in {"running", "ending"} /\ inflight[w] > 0
      /\ total[w] = recorded[w][cur[w]]
      /\ recorded[w][cur[w]] + 2 * inflight[w] <= MaxRecorded + 2 * VUs
  BY DEF Local, CollectorInv, RecordRequest
<1>2. inflight[w] \in 0 .. VUs /\ total[w] \in Nat
  BY Numbers DEF Local, TypeOK, Totals
<1> QED
  BY <1>1, <1>2, Numbers DEF Totals

LEMMA SendsType ==
  ASSUME Local, NEW w \in Workers, StopReporter(w) \/ ReportLoop(w) \/ SendKeepAlive(w)
  PROVE  /\ net' \in [Workers -> Seq(Batches)] /\ overtaken' = overtaken
         /\ \A v \in Workers : Len(net'[v]) <= MaxInFlight
<1>0. TypeOK /\ CollectorInv(w) /\ LabelInv(w)
  BY DEF Local
<1>1. CASE StopReporter(w)
  <2>1. engine[w] = "final" /\ Send(w, repTest[w], FALSE)
    BY <1>1 DEF StopReporter, Phase
  <2>2. repTest[w] \in Tests
    BY <1>0, <2>1 DEF CollectorInv, LabelInv
  <2> QED
    BY <1>0, <2>1, <2>2, SendType
<1>2. CASE ReportLoop(w)
  <2>1. rep[w] \in Tests /\ Send(w, rep[w], TRUE)
    BY <1>0, <1>2 DEF ReportLoop, TypeOK
  <2> QED
    BY <1>0, <2>1, SendType
<1>3. CASE SendKeepAlive(w)
  <2>1. keep[w].test \in Tests /\ keep[w].active \in BOOLEAN /\ Send(w, keep[w].test, keep[w].active)
    BY <1>0, <1>3 DEF SendKeepAlive, LabelInv, TypeOK
  <2> QED
    BY <1>0, <2>1, SendType
<1> QED
  BY <1>1, <1>2, <1>3

LEMMA RunTestType ==
  ASSUME Local, NEW w \in Workers, RunTest(w)
  PROVE  TypeOK'
<1> USE DEF netVars, orchVars, pollVars, Phase, Phases
<1>0. TypeOK
  BY DEF Local
<1>1. ASSUME NEW t \in Tests, Enter(w, t) PROVE TypeOK'
  BY <1>0, <1>1 DEF TypeOK, Enter
<1>2. CASE Reset(w)
  BY <1>0, <1>2, Numbers DEF TypeOK, Reset, Totals
<1>3. CASE StartReporter(w)
  BY <1>0, <1>3 DEF TypeOK, StartReporter
<1>4. CASE EndStages(w) \/ ClearActive(w)
  BY <1>0, <1>4 DEF TypeOK, EndStages, ClearActive
<1>5. CASE StopReporter(w)
  <2>1. /\ net' \in [Workers -> Seq(Batches)] /\ overtaken' = overtaken
        /\ \A v \in Workers : Len(net'[v]) <= MaxInFlight
    BY <1>5, SendsType
  <2> QED
    BY <1>0, <1>5, <2>1 DEF TypeOK, StopReporter
<1> QED
  BY <1>1, <1>2, <1>3, <1>4, <1>5 DEF RunTest

LEMMA RequestType ==
  ASSUME Local, NEW w \in Workers, Request(w) \/ \E n \in {1, 2} : RecordRequest(w, n)
  PROVE  TypeOK'
<1> USE DEF netVars, orchVars, pollVars
<1>0. TypeOK
  BY DEF Local
<1>1. CASE Request(w)
  <2>1. inflight[w] + 1 \in 0 .. VUs
    BY <1>0, <1>1, Numbers DEF TypeOK, Request
  <2> QED
    BY <1>0, <1>1, <2>1 DEF TypeOK, Request
<1>2. ASSUME NEW n \in {1, 2}, RecordRequest(w, n) PROVE TypeOK'
  <2>1. inflight[w] - 1 \in 0 .. VUs /\ total[w] + n \in Totals /\ total[w] = recorded[w][cur[w]]
        /\ cur[w] \in Tests
    BY <1>2, RecordFits
  <2>2. recorded' \in [Workers -> [Tests -> Totals]]
    BY <1>0, <1>2, <2>1 DEF TypeOK, RecordRequest
  <2> QED
    BY <1>0, <1>2, <2>1, <2>2 DEF TypeOK, RecordRequest
<1> QED
  BY <1>1, <1>2

LEMMA ReaderType ==
  ASSUME Local, NEW w \in Workers,
         \/ ReadTestID(w) \/ ReportLoop(w) \/ LoopReturns(w)
         \/ ReadCurrentTest(w) \/ SendKeepAlive(w)
  PROVE  TypeOK'
<1> USE DEF netVars, orchVars, pollVars
<1>0. TypeOK
  BY DEF Local
<1>1. CASE ReadTestID(w) \/ LoopReturns(w)
  BY <1>0, <1>1 DEF TypeOK, ReadTestID, LoopReturns
<1>2. CASE ReadCurrentTest(w)
  BY <1>0, <1>2 DEF TypeOK, ReadCurrentTest, Active
<1>3. CASE ReportLoop(w)
  <2>1. /\ net' \in [Workers -> Seq(Batches)] /\ overtaken' = overtaken
        /\ \A v \in Workers : Len(net'[v]) <= MaxInFlight
    BY <1>3, SendsType
  <2> QED
    BY <1>0, <1>3, <2>1 DEF TypeOK, ReportLoop
<1>4. CASE SendKeepAlive(w)
  <2>1. /\ net' \in [Workers -> Seq(Batches)] /\ overtaken' = overtaken
        /\ \A v \in Workers : Len(net'[v]) <= MaxInFlight
    BY <1>4, SendsType
  <2> QED
    BY <1>0, <1>4, <2>1 DEF TypeOK, SendKeepAlive, NotReading
<1> QED
  BY <1>1, <1>2, <1>3, <1>4

LEMMA OrchestratorType ==
  ASSUME TypeOK,
         \/ Snapshot \/ \E t \in Tests : Distribute(t) \/ GetAggregatedMetrics(t)
         \/ \E w \in Workers : MarkWorkerDone(w)
         \/ \E w \in Workers, i \in 1 .. MaxInFlight : ReportMetrics(w, i) \/ LoseBatch(w, i)
  PROVE  TypeOK'
<1> USE DEF workerVars, netVars, orchVars, pollVars
<1>1. ASSUME NEW t \in Tests, Distribute(t) PROVE TypeOK'
  BY <1>1 DEF TypeOK, Distribute
<1>2. ASSUME NEW t \in Tests, GetAggregatedMetrics(t) PROVE TypeOK'
  BY <1>2, SumsAreNumbers DEF TypeOK, GetAggregatedMetrics
<1>3. CASE Snapshot
  BY <1>3 DEF TypeOK, Snapshot, NoPoll
<1>4. ASSUME NEW w \in Workers, NEW i \in 1 .. MaxInFlight, ReportMetrics(w, i) \/ LoseBatch(w, i)
      PROVE  TypeOK'
  <2>1. net[w] \in Seq(Batches) /\ i \in DOMAIN net[w] /\ Len(net[w]) <= MaxInFlight
    BY <1>4 DEF TypeOK, ReportMetrics, LoseBatch
  <2>2. net[w][i] \in Batches /\ Len(net[w]) \in Nat
    BY <2>1
  <2>3. /\ RemoveAt(net[w], i) \in Seq(Batches)
        /\ Len(RemoveAt(net[w], i)) <= MaxInFlight
    BY <2>1, <2>2, RemoveAtFacts, Numbers
  <2>4. net' = [net EXCEPT ![w] = RemoveAt(net[w], i)]
    BY <1>4 DEF ReportMetrics, LoseBatch
  <2>5. net' \in [Workers -> Seq(Batches)] /\ \A v \in Workers : Len(net'[v]) <= MaxInFlight
    BY <2>3, <2>4 DEF TypeOK
  <2>6. CASE ReportMetrics(w, i)
    <3>1. entry' \in [Tests -> [Workers -> Totals \cup {NoEntry}]]
      BY <2>2, <2>6 DEF TypeOK, ReportMetrics, UpdateWorkerMetrics, Batches
    <3>2. handling' \in [Workers -> Tests \cup {NoTest}]
      BY <2>2, <2>6 DEF TypeOK, ReportMetrics, Batches
    <3>3. overtaken' \subseteq Workers
      BY <2>6 DEF TypeOK, ReportMetrics
    <3> QED
      BY <2>5, <2>6, <3>1, <3>2, <3>3 DEF TypeOK, ReportMetrics
  <2>7. CASE LoseBatch(w, i)
    BY <2>5, <2>7 DEF TypeOK, LoseBatch
  <2> QED
    BY <1>4, <2>6, <2>7
<1>5. ASSUME NEW w \in Workers, MarkWorkerDone(w) PROVE TypeOK'
  <2>1. handling[w] \in Tests
    BY <1>5 DEF TypeOK, MarkWorkerDone
  <2>2. handling' \in [Workers -> Tests \cup {NoTest}]
    BY <1>5 DEF TypeOK, MarkWorkerDone
  <2>3. done' \in [Tests -> SUBSET Workers]
    BY <1>5, <2>1 DEF TypeOK, MarkWorkerDone
  <2>4. status' \in [Tests -> {"NONE", "RUNNING", "COMPLETED"}]
    BY <1>5, <2>1 DEF TypeOK, MarkWorkerDone
  <2> QED
    BY <1>5, <2>2, <2>3, <2>4 DEF TypeOK, MarkWorkerDone
<1> QED
  BY <1>1, <1>2, <1>3, <1>4, <1>5

LEMMA TypeStep ==
  ASSUME Local, [Next]_vars
  PROVE  TypeOK'
<1>0. TypeOK
  BY DEF Local
<1>1. CASE Next
  BY <1>0, <1>1, OrchestratorType, RunTestType, RequestType, ReaderType DEF Next, Respond, FailRequest
<1>2. CASE UNCHANGED vars
  BY <1>0, <1>2 DEF TypeOK, vars, workerVars, netVars, orchVars, pollVars
<1> QED
  BY <1>1, <1>2

-----------------------------------------------------------------------------
(***************************************************************************)
(* The workers.                                                            *)
(***************************************************************************)
\* The steps by what they touch: a step of worker w no other worker, and a step of
\* the network or of the orchestrator no worker at all.
WorkerStep(w) ==
  \/ RunTest(w) \/ Request(w) \/ \E n \in {1, 2} : RecordRequest(w, n)
  \/ ReadTestID(w) \/ ReportLoop(w) \/ LoopReturns(w) \/ ReadCurrentTest(w) \/ SendKeepAlive(w)

OtherStep ==
  \/ Snapshot \/ \E t \in Tests : Distribute(t) \/ GetAggregatedMetrics(t)
  \/ \E w \in Workers :
       MarkWorkerDone(w) \/ \E i \in 1 .. MaxInFlight : ReportMetrics(w, i) \/ LoseBatch(w, i)
  \/ UNCHANGED vars

SameWorker(v) ==
  /\ engine'[v] = engine[v] /\ cur'[v] = cur[v] /\ inflight'[v] = inflight[v]
  /\ total'[v] = total[v] /\ recorded'[v] = recorded[v] /\ repTest'[v] = repTest[v]
  /\ rep'[v] = rep[v] /\ keep'[v] = keep[v]

LEMMA StepKinds ==
  ASSUME [Next]_vars
  PROVE  OtherStep \/ \E w \in Workers : WorkerStep(w)
  BY DEF Next, OtherStep, WorkerStep, Respond, FailRequest

LEMMA OthersStandBack ==
  ASSUME OtherStep
  PROVE  UNCHANGED workerVars /\ \A v \in Workers : SameWorker(v)
<1>1. UNCHANGED workerVars
  <2>1. CASE Snapshot \/ \E t \in Tests : Distribute(t) \/ GetAggregatedMetrics(t)
    BY <2>1 DEF Snapshot, Distribute, GetAggregatedMetrics
  <2>2. ASSUME NEW w \in Workers, MarkWorkerDone(w) PROVE UNCHANGED workerVars
    BY <2>2 DEF MarkWorkerDone
  <2>3. ASSUME NEW w \in Workers, NEW i \in 1 .. MaxInFlight, ReportMetrics(w, i) \/ LoseBatch(w, i)
        PROVE  UNCHANGED workerVars
    BY <2>3 DEF ReportMetrics, LoseBatch
  <2>4. CASE UNCHANGED vars
    BY <2>4 DEF vars
  <2> QED
    BY <2>1, <2>2, <2>3, <2>4 DEF OtherStep
<1> QED
  BY <1>1 DEF workerVars, SameWorker

LEMMA WorkerFrame ==
  ASSUME TypeOK, NEW w \in Workers, WorkerStep(w), NEW v \in Workers, v # w
  PROVE  SameWorker(v)
<1> USE DEF TypeOK, SameWorker
<1>1. ASSUME NEW t \in Tests, Enter(w, t) PROVE SameWorker(v)
  BY <1>1 DEF Enter, Phase
<1>2. CASE Reset(w) \/ StartReporter(w) \/ EndStages(w) \/ ClearActive(w)
  BY <1>2 DEF Reset, StartReporter, EndStages, ClearActive, Phase
<1>3. CASE StopReporter(w)
  BY <1>3 DEF StopReporter, Phase
<1>4. CASE Request(w) \/ \E n \in {1, 2} : RecordRequest(w, n)
  BY <1>4 DEF Request, RecordRequest
<1>5. CASE ReadTestID(w) \/ ReportLoop(w) \/ LoopReturns(w)
  BY <1>5 DEF ReadTestID, ReportLoop, LoopReturns
<1>6. CASE ReadCurrentTest(w) \/ SendKeepAlive(w)
  BY <1>6 DEF ReadCurrentTest, SendKeepAlive
<1> QED
  BY <1>1, <1>2, <1>3, <1>4, <1>5, <1>6 DEF WorkerStep, RunTest

LEMMA LocalFrame ==
  ASSUME NEW v \in Workers, CollectorInv(v), LabelInv(v), SameWorker(v)
  PROVE  CollectorInv(v)' /\ LabelInv(v)'
<1>1. CollectorInv(v)'
  BY DEF CollectorInv, SameWorker, Earlier
<1>2. LabelInv(v)'
  BY DEF LabelInv, SameWorker, Past
<1> QED
  BY <1>1, <1>2

LEMMA WorkerTypes ==
  ASSUME TypeOK, NEW w \in Workers
  PROVE  /\ engine \in [Workers -> Phases] /\ cur \in [Workers -> Tests \cup {NoTest}]
         /\ inflight \in [Workers -> 0 .. VUs] /\ total \in [Workers -> Totals]
         /\ recorded \in [Workers -> [Tests -> Totals]]
         /\ repTest \in [Workers -> Tests \cup {NoTest}] /\ rep \in [Workers -> Tests \cup {NoTest}]
         /\ keep \in [Workers -> [test : Tests \cup {NoTest}, active : BOOLEAN]]
         /\ cur[w] \in Nat /\ repTest[w] \in Nat /\ rep[w] \in Nat /\ keep[w].test \in Nat
         /\ cur[w] \in Tests \/ cur[w] = NoTest
         /\ total[w] \in Nat /\ \A t \in Tests : recorded[w][t] \in Nat /\ recorded[w][t] \in Totals
<1>1. /\ engine \in [Workers -> Phases] /\ cur \in [Workers -> Tests \cup {NoTest}]
      /\ inflight \in [Workers -> 0 .. VUs] /\ total \in [Workers -> Totals]
      /\ recorded \in [Workers -> [Tests -> Totals]]
      /\ repTest \in [Workers -> Tests \cup {NoTest}] /\ rep \in [Workers -> Tests \cup {NoTest}]
      /\ keep \in [Workers -> [test : Tests \cup {NoTest}, active : BOOLEAN]]
  BY DEF TypeOK
<1>2. \A t \in Tests \cup {NoTest} : t \in Nat
  BY TestIsNumber DEF NoTest
<1>3. \A t \in Tests : recorded[w][t] \in Totals
  BY <1>1
<1> QED
  BY <1>1, <1>2, <1>3, Numbers

\* A test begins: what the collector still holds is of an earlier one.
LEMMA EnterStep ==
  ASSUME Local, NEW w \in Workers, NEW t \in Tests, Enter(w, t)
  PROVE  CollectorInv(w)' /\ LabelInv(w)'
<1>0. TypeOK /\ CollectorInv(w) /\ LabelInv(w)
  BY DEF Local
<1>1. /\ engine[w] = "idle" /\ engine'[w] = "entered" /\ cur'[w] = t /\ cur[w] < t
      /\ UNCHANGED <<inflight, total, recorded, repTest, rep, keep>>
  BY <1>0, WorkerTypes DEF Enter, Phase
<1>2. cur[w] \in Nat /\ t \in Nat /\ t > 0 /\ \A s \in Tests : s \in Nat
  BY <1>0, WorkerTypes, TestIsNumber
<1>3. inflight[w] = 0
  <2>1. ~(inflight[w] > 0)
    BY <1>0, <1>1 DEF CollectorInv
  <2>2. inflight[w] \in Nat
    BY <1>0, WorkerTypes, Numbers
  <2> QED
    BY <2>1, <2>2
<1>4. recorded[w][t] = 0 /\ \A s \in Tests : s > t => recorded[w][s] = 0
  BY <1>0, <1>1, <1>2 DEF CollectorInv
<1>5. total[w] = 0 \/ \E s \in Tests : s < t /\ total[w] = recorded[w][s]
  <2>1. CASE cur[w] = NoTest
    BY <1>0, <2>1 DEF CollectorInv
  <2>2. CASE cur[w] \in Tests
    BY <1>0, <1>1, <2>2 DEF CollectorInv
  <2> QED
    BY <1>0, <2>1, <2>2, WorkerTypes
<1>6. CollectorInv(w)'
  BY <1>1, <1>2, <1>3, <1>4, <1>5, Numbers DEF CollectorInv, Earlier, NoTest
<1>7. LabelInv(w)'
  <2>1. repTest[w] <= t /\ rep[w] <= t /\ keep[w].test <= t
    BY <1>0, <1>1, <1>2, WorkerTypes DEF LabelInv
  <2>2. keep[w] # NotReading /\ ~keep[w].active => keep[w].test < t
    BY <1>0, <1>1, <1>2, WorkerTypes DEF LabelInv, Past
  <2> QED
    BY <1>0, <1>1, <2>1, <2>2 DEF LabelInv, Past
<1> QED
  BY <1>6, <1>7

LEMMA RunTestStep ==
  ASSUME Local, NEW w \in Workers, RunTest(w)
  PROVE  CollectorInv(w)' /\ LabelInv(w)'
<1>0. TypeOK /\ CollectorInv(w) /\ LabelInv(w)
  BY DEF Local
<1>1. CASE Reset(w)
  <2>1. /\ engine[w] = "entered" /\ engine'[w] = "reset" /\ total'[w] = 0
        /\ UNCHANGED <<cur, inflight, recorded, repTest, rep, keep>>
    BY <1>0, <1>1, WorkerTypes DEF Reset, Phase
  <2>2. cur[w] \in Tests /\ recorded[w][cur[w]] = 0 /\ ~(inflight[w] > 0)
    BY <1>0, <2>1 DEF CollectorInv
  <2>3. CollectorInv(w)'
    BY <1>0, <2>1, <2>2 DEF CollectorInv
  <2> QED
    BY <1>0, <2>1, <2>3 DEF LabelInv, Past
<1>2. CASE StartReporter(w)
  <2>1. /\ engine[w] = "reset" /\ engine'[w] = "running" /\ repTest'[w] = cur[w]
        /\ UNCHANGED <<cur, inflight, total, recorded, rep, keep>>
    BY <1>0, <1>2, WorkerTypes DEF StartReporter, Phase
  <2>2. CollectorInv(w)'
    BY <1>0, <2>1 DEF CollectorInv
  <2>3. cur[w] \in Nat
    BY <1>0, WorkerTypes
  <2> QED
    BY <1>0, <2>1, <2>2, <2>3 DEF LabelInv, Past
<1>3. CASE EndStages(w) \/ ClearActive(w) \/ StopReporter(w)
  <2>1. /\ \/ engine[w] = "running" /\ engine'[w] = "ending"
           \/ engine[w] = "ending" /\ engine'[w] = "final" /\ inflight[w] = 0
           \/ engine[w] = "final" /\ engine'[w] = "idle"
        /\ UNCHANGED <<cur, inflight, total, recorded, repTest, rep, keep>>
    BY <1>0, <1>3, WorkerTypes DEF EndStages, ClearActive, StopReporter, Phase
  <2>2. CollectorInv(w)'
    BY <1>0, <2>1 DEF CollectorInv
  <2> QED
    BY <1>0, <2>1, <2>2 DEF LabelInv, Past
<1> QED
  BY <1>1, <1>2, <1>3, EnterStep DEF RunTest

LEMMA RequestStep ==
  ASSUME Local, NEW w \in Workers, Request(w) \/ \E n \in {1, 2} : RecordRequest(w, n)
  PROVE  CollectorInv(w)' /\ LabelInv(w)'
<1>0. TypeOK /\ CollectorInv(w) /\ LabelInv(w)
  BY DEF Local
<1>1. CASE Request(w)
  <2>1. /\ engine[w] \in {"running", "ending"} /\ inflight[w] < VUs
        /\ recorded[w][cur[w]] < MaxRecorded /\ inflight'[w] = inflight[w] + 1
        /\ UNCHANGED <<engine, cur, total, recorded, repTest, rep, keep>>
    BY <1>0, <1>1, WorkerTypes DEF Request
  <2>2. cur[w] \in Tests
    BY <1>0, <2>1 DEF CollectorInv
  <2>3. recorded[w][cur[w]] \in Nat /\ inflight[w] \in 0 .. VUs
    BY <1>0, <2>2, WorkerTypes
  <2>4. recorded[w][cur[w]] + 2 * (inflight[w] + 1) <= MaxRecorded + 2 * VUs
    BY <2>1, <2>3, Numbers
  <2>5. CollectorInv(w)'
    BY <1>0, <2>1, <2>4 DEF CollectorInv
  <2> QED
    BY <1>0, <2>1, <2>5 DEF LabelInv, Past
<1>2. ASSUME NEW n \in {1, 2}, RecordRequest(w, n) PROVE CollectorInv(w)' /\ LabelInv(w)'
  <2>1. /\ cur[w] \in Tests /\ engine[w] \in {"running", "ending"}
        /\ total[w] = recorded[w][cur[w]]
        /\ recorded[w][cur[w]] + n + 2 * (inflight[w] - 1) <= MaxRecorded + 2 * VUs
    BY <1>2, RecordFits
  <2>2. /\ UNCHANGED <<engine, cur, repTest, rep, keep>> /\ inflight'[w] = inflight[w] - 1
        /\ total'[w] = total[w] + n /\ recorded'[w][cur[w]] = recorded[w][cur[w]] + n
        /\ \A t \in Tests : t # cur[w] => recorded'[w][t] = recorded[w][t]
    BY <1>0, <1>2, <2>1, WorkerTypes DEF RecordRequest
  <2>3. \A t \in Tests : t > cur[w] => recorded'[w][t] = 0
    <3>1. ASSUME NEW t \in Tests, t > cur[w] PROVE t # cur[w] /\ recorded[w][t] = 0
      BY <1>0, <2>1, <3>1, TestIsNumber DEF CollectorInv
    <3> QED
      BY <2>2, <3>1
  <2>4. cur[w] # NoTest
    BY <2>1, Numbers DEF NoTest
  <2>5. CollectorInv(w)'
    BY <1>0, <2>1, <2>2, <2>3, <2>4 DEF CollectorInv
  <2> QED
    BY <1>0, <2>2, <2>5 DEF LabelInv, Past
<1> QED
  BY <1>1, <1>2

LEMMA ReaderStep ==
  ASSUME Local, NEW w \in Workers,
         \/ ReadTestID(w) \/ ReportLoop(w) \/ LoopReturns(w)
         \/ ReadCurrentTest(w) \/ SendKeepAlive(w)
  PROVE  CollectorInv(w)' /\ LabelInv(w)'
<1>0. TypeOK /\ CollectorInv(w) /\ LabelInv(w)
  BY DEF Local
<1>1. UNCHANGED <<engine, cur, inflight, total, recorded, repTest>>
  BY DEF ReadTestID, ReportLoop, LoopReturns, ReadCurrentTest, SendKeepAlive
<1>2. CollectorInv(w)'
  BY <1>0, <1>1 DEF CollectorInv, Earlier
<1>3. rep'[w] <= cur[w]
  <2>1. rep'[w] \in {rep[w], repTest[w], NoTest}
    BY <1>0, WorkerTypes DEF ReadTestID, ReportLoop, LoopReturns, ReadCurrentTest, SendKeepAlive
  <2>2. rep[w] <= cur[w] /\ repTest[w] <= cur[w] /\ cur[w] \in Nat
    BY <1>0, WorkerTypes DEF LabelInv
  <2> QED
    BY <2>1, <2>2 DEF NoTest
<1>4. /\ keep'[w].test <= cur[w]
      /\ keep'[w] # NotReading => keep'[w].test \in Tests
      /\ keep'[w] # NotReading /\ ~keep'[w].active => Past(w, keep'[w].test)
  <2>1. CASE ReadCurrentTest(w)
    <3>1. keep'[w] = [test |-> cur[w], active |-> Active(w)] /\ cur[w] # NoTest
      BY <1>0, <2>1, WorkerTypes DEF ReadCurrentTest
    <3>2. cur[w] \in Nat /\ cur[w] \in Tests /\ (~Active(w) => engine[w] \in {"final", "idle"})
      BY <1>0, <3>1, WorkerTypes DEF Active, Phases
    <3> QED
      BY <3>1, <3>2 DEF Past
  <2>2. CASE SendKeepAlive(w)
    <3>1. keep'[w] = NotReading /\ keep'[w].test = 0 /\ cur[w] \in Nat
      BY <1>0, <2>2, WorkerTypes DEF SendKeepAlive, NotReading, NoTest
    <3> QED
      BY <3>1
  <2>3. CASE ReadTestID(w) \/ ReportLoop(w) \/ LoopReturns(w)
    <3>1. keep' = keep
      BY <2>3 DEF ReadTestID, ReportLoop, LoopReturns
    <3> QED
      BY <1>0, <3>1 DEF LabelInv
  <2> QED
    BY <2>1, <2>2, <2>3
<1>5. LabelInv(w)'
  BY <1>0, <1>1, <1>3, <1>4 DEF LabelInv, Past
<1> QED
  BY <1>2, <1>5

LEMMA LocalStep ==
  ASSUME Local, [Next]_vars
  PROVE  Local'
<1>1. ASSUME NEW v \in Workers PROVE CollectorInv(v)' /\ LabelInv(v)'
  <2>0. TypeOK /\ CollectorInv(v) /\ LabelInv(v)
    BY DEF Local
  <2>1. CASE OtherStep
    BY <2>0, <2>1, OthersStandBack, LocalFrame
  <2>2. ASSUME NEW w \in Workers, WorkerStep(w), w # v PROVE CollectorInv(v)' /\ LabelInv(v)'
    BY <2>0, <2>2, WorkerFrame, LocalFrame
  <2>3. CASE WorkerStep(v)
    BY <2>3, RunTestStep, RequestStep, ReaderStep DEF WorkerStep
  <2> QED
    BY <2>1, <2>2, <2>3, StepKinds
<1> QED
  BY <1>1, TypeStep DEF Local

LEMMA InitLocal == Init => Local
<1> SUFFICES ASSUME Init PROVE Local
  OBVIOUS
<1>1. 0 \in Totals /\ 0 \in 0 .. VUs /\ <<>> \in Seq(Batches) /\ Len(<<>>) <= MaxInFlight
  BY Numbers DEF Totals
<1>2. TypeOK
  BY <1>1 DEF Init, TypeOK, Phases, NotReading, NoPoll
<1>3. ASSUME NEW w \in Workers PROVE CollectorInv(w) /\ LabelInv(w)
  <2>1. CollectorInv(w)
    BY Numbers DEF Init, CollectorInv, NoTest
  <2>2. LabelInv(w)
    BY DEF Init, LabelInv, NoTest, NotReading
  <2> QED
    BY <2>1, <2>2
<1> QED
  BY <1>2, <1>3 DEF Local

\* What the workers hold, whatever the network and the orchestrator do: the numbers
\* of a test are its own from the reset on, because RunTest resets the collector
\* before it starts the reporter (engine.go:75), and ends after its virtual users.
THEOREM LocalInvariant == Spec => []Local
BY InitLocal, LocalStep, PTL DEF Spec

\* Every counter keeps its type: what a request that is cut adds twice
\* (virtual_user.go) still fits, and no queue of batches outgrows its bound.
THEOREM TypeCorrect == Spec => []TypeOK
<1>1. Local => TypeOK
  BY DEF Local
<1> QED
  BY <1>1, LocalInvariant, PTL

-----------------------------------------------------------------------------
(***************************************************************************)
(* Time goes on: what was recorded for a test that is over stays, and what *)
(* has been said of it stays true.                                         *)
(***************************************************************************)
Later(w) ==
  /\ cur[w] <= cur'[w] /\ stored \subseteq stored'
  /\ \A t \in Tests : recorded[w][t] <= recorded'[w][t]
  /\ \A t \in Tests : Past(w, t) => Past(w, t)' /\ recorded'[w][t] = recorded[w][t]

LEMMA StoredStays ==
  ASSUME [Next]_vars
  PROVE  stored \subseteq stored'
<1> USE DEF pollVars
<1>1. ASSUME OtherStep PROVE stored \subseteq stored'
  <2>1. CASE Snapshot
    BY <2>1 DEF Snapshot
  <2>2. ASSUME NEW t \in Tests, Distribute(t) \/ GetAggregatedMetrics(t) PROVE stored \subseteq stored'
    BY <2>2 DEF Distribute, GetAggregatedMetrics
  <2>3. ASSUME NEW w \in Workers,
               MarkWorkerDone(w) \/ \E i \in 1 .. MaxInFlight : ReportMetrics(w, i) \/ LoseBatch(w, i)
        PROVE  stored \subseteq stored'
    BY <2>3 DEF MarkWorkerDone, ReportMetrics, LoseBatch
  <2> QED
    BY <1>1, <2>1, <2>2, <2>3 DEF OtherStep, vars
<1>2. ASSUME NEW w \in Workers, WorkerStep(w) PROVE UNCHANGED <<orchVars, pollVars>>
  <2>1. ASSUME RunTest(w) PROVE UNCHANGED <<orchVars, pollVars>>
    BY <2>1 DEF RunTest, Enter, Reset, StartReporter, EndStages, ClearActive, StopReporter
  <2> QED
    BY <1>2, <2>1 DEF WorkerStep, Request, RecordRequest, ReadTestID, ReportLoop, LoopReturns,
                      ReadCurrentTest, SendKeepAlive
<1> QED
  BY <1>1, <1>2, StepKinds

LEMMA TimeGoesOn ==
  ASSUME Local, [Next]_vars, NEW v \in Workers
  PROVE  Later(v)
<1>0. TypeOK /\ stored \subseteq stored'
  BY StoredStays DEF Local
<1>1. /\ cur \in [Workers -> Tests \cup {NoTest}] /\ engine \in [Workers -> Phases]
      /\ recorded \in [Workers -> [Tests -> Totals]]
      /\ cur[v] \in Nat /\ \A t \in Tests : t \in Nat /\ recorded[v][t] \in Nat
  BY <1>0, WorkerTypes, TestIsNumber
<1>2. ASSUME SameWorker(v) PROVE Later(v)
  BY <1>0, <1>1, <1>2 DEF SameWorker, Later, Past
<1>3. ASSUME OtherStep PROVE Later(v)
  BY <1>2, <1>3, OthersStandBack
<1>4. ASSUME NEW w \in Workers, WorkerStep(w), w # v PROVE Later(v)
  BY <1>0, <1>2, <1>4, WorkerFrame
<1>5. ASSUME WorkerStep(v) PROVE Later(v)
  <2>1. ASSUME NEW t \in Tests, Enter(v, t) PROVE Later(v)
    <3>1. cur'[v] = t /\ recorded' = recorded /\ cur[v] < t
      BY <1>1, <2>1 DEF Enter
    <3> QED
      BY <1>0, <1>1, <3>1 DEF Later, Past
  <2>2. CASE Reset(v) \/ StartReporter(v) \/ EndStages(v) \/ ClearActive(v) \/ StopReporter(v)
    <3>1. /\ UNCHANGED <<cur, recorded>>
          /\ engine[v] \in {"final", "idle"} => engine'[v] \in {"final", "idle"}
      BY <1>1, <2>2 DEF Reset, StartReporter, EndStages, ClearActive, StopReporter, Phase
    <3> QED
      BY <1>0, <1>1, <3>1 DEF Later, Past
  <2>3. ASSUME NEW n \in {1, 2}, RecordRequest(v, n) PROVE Later(v)
    <3>1. /\ cur[v] \in Tests /\ engine[v] \in {"running", "ending"}
      BY <2>3, RecordFits
    <3>2. /\ UNCHANGED <<cur, engine>> /\ recorded'[v][cur[v]] = recorded[v][cur[v]] + n
          /\ \A t \in Tests : t # cur[v] => recorded'[v][t] = recorded[v][t]
      BY <1>1, <2>3, <3>1 DEF RecordRequest
    <3>3. ASSUME NEW t \in Tests, Past(v, t) PROVE t # cur[v]
      BY <1>1, <3>1, <3>3 DEF Past
    <3>4. ASSUME NEW t \in Tests PROVE recorded[v][t] <= recorded'[v][t]
      BY <1>1, <3>2
    <3> QED
      BY <1>0, <1>1, <3>2, <3>3, <3>4 DEF Later, Past
  <2>4. CASE \/ Request(v) \/ ReadTestID(v) \/ ReportLoop(v) \/ LoopReturns(v)
             \/ ReadCurrentTest(v) \/ SendKeepAlive(v)
    <3>1. UNCHANGED <<cur, engine, recorded>>
      BY <2>4 DEF Request, ReadTestID, ReportLoop, LoopReturns, ReadCurrentTest, SendKeepAlive
    <3> QED
      BY <1>0, <1>1, <3>1 DEF Later, Past
  <2> QED
    BY <1>5, <2>1, <2>2, <2>3, <2>4 DEF WorkerStep, RunTest
<1> QED
  BY <1>3, <1>4, <1>5, StepKinds

LEMMA FitsLater ==
  ASSUME TypeOK, NEW w \in Workers, cur'[w] \in Nat, Later(w),
         NEW t \in Tests, NEW x \in Nat, Fits(w, t, x),
         \A s \in Tests : recorded'[w][s] \in Nat
  PROVE  Fits(w, t, x)'
<1>1. /\ cur[w] \in Nat /\ t \in Nat /\ t <= cur[w]
      /\ \A s \in Tests : s \in Nat /\ recorded[w][s] \in Nat
  BY WorkerTypes, TestIsNumber DEF Fits
<1>2. t <= cur'[w] /\ (Open(t)' => Open(t))
  BY <1>1 DEF Later, Open
<1>3. ASSUME Open(t), x <= recorded[w][t] PROVE x <= recorded'[w][t]
  BY <1>1, <1>3 DEF Later
<1>4. ASSUME Earlier(w, t, x) PROVE Earlier(w, t, x)'
  <2>1. PICK s \in Tests : s < t /\ x = recorded[w][s]
    BY <1>4 DEF Earlier
  <2>2. s < cur[w]
    BY <1>1, <2>1
  <2>3. recorded'[w][s] = recorded[w][s]
    BY <2>2 DEF Later, Past
  <2> QED
    BY <2>1, <2>3 DEF Earlier
<1> QED
  BY <1>2, <1>3, <1>4 DEF Fits

LEMMA FitBatchLater ==
  ASSUME TypeOK, NEW w \in Workers, cur'[w] \in Nat, Later(w), NEW b \in Batches, FitBatch(w, b),
         \A s \in Tests : recorded'[w][s] \in Nat
  PROVE  FitBatch(w, b)'
<1>1. b.test \in Tests /\ b.total \in Nat
  BY Numbers DEF Batches
<1>2. Fits(w, b.test, b.total)'
  BY <1>1, FitsLater DEF FitBatch
<1>3. Open(b.test)' => Open(b.test)
  BY DEF Later, Open
<1>4. ~b.active => Past(w, b.test)' /\ (Open(b.test)' => b.total = recorded'[w][b.test])
  BY <1>1, <1>3 DEF FitBatch, Later
<1> QED
  BY <1>2, <1>4 DEF FitBatch

LEMMA InQueue ==
  ASSUME NEW q \in Seq(Batches), NEW i \in DOMAIN q
  PROVE  q[i] \in Batches /\ q[i].test \in Tests /\ q[i].total \in Nat /\ q[i].active \in BOOLEAN
<1>1. q[i] \in Batches
  OBVIOUS
<1> QED
  BY <1>1, Numbers DEF Batches

LEMMA QueueLater ==
  ASSUME TypeOK, NEW w \in Workers, cur'[w] \in Nat, Later(w), NEW q \in Seq(Batches), Queue(w, q),
         \A s \in Tests : recorded'[w][s] \in Nat
  PROVE  Queue(w, q)'
<1>1. \A i \in DOMAIN q : q[i] \in Batches /\ q[i].test \in Tests
  BY InQueue
<1>2. ASSUME NEW i \in DOMAIN q PROVE FitBatch(w, q[i])'
  BY <1>1, FitBatchLater DEF Queue
<1>3. ASSUME NEW i \in DOMAIN q, NEW j \in DOMAIN q,
             i < j, q[i].test = q[j].test, ~q[i].active, Open(q[j].test)'
      PROVE  q[j].total = recorded'[w][q[j].test]
  <2>1. Open(q[j].test)
    BY <1>3 DEF Later, Open
  <2>2. q[j].total = recorded[w][q[j].test] /\ Past(w, q[j].test)
    BY <1>3, <2>1 DEF Queue, FitBatch
  <2> QED
    BY <1>1, <2>2 DEF Later
<1>4. /\ \A i \in DOMAIN q : FitBatch(w, q[i])'
      /\ \A i, j \in DOMAIN q :
           i < j /\ q[i].test = q[j].test /\ ~q[i].active /\ Open(q[j].test)'
             => q[j].total = recorded'[w][q[j].test]
  BY <1>2, <1>3
<1> QED
  BY <1>4, Zenon DEF Queue

LEMMA ExactLater ==
  ASSUME NEW w \in Workers, Later(w), NEW t \in Tests, Past(w, t), NEW e, NEW q, Exact(w, t, e, q)
  PROVE  Past(w, t)' /\ Exact(w, t, e, q)'
<1>1. Open(t)' => Open(t)
  BY DEF Later, Open
<1>2. Past(w, t)' /\ recorded'[w][t] = recorded[w][t]
  BY DEF Later
<1> QED
  BY <1>1, <1>2 DEF Exact

-----------------------------------------------------------------------------
(***************************************************************************)
(* Tests follow one another.                                               *)
(***************************************************************************)
LEMMA WorkersKeepTables ==
  ASSUME NEW w \in Workers, WorkerStep(w)
  PROVE  UNCHANGED <<handling, entry, done, status, poll, stored>>
<1> USE DEF orchVars, pollVars
<1>1. ASSUME RunTest(w) PROVE UNCHANGED <<handling, entry, done, status, poll, stored>>
  BY <1>1 DEF RunTest, Enter, Reset, StartReporter, EndStages, ClearActive, StopReporter
<1> QED
  BY <1>1 DEF WorkerStep, Request, RecordRequest, ReadTestID, ReportLoop, LoopReturns,
              ReadCurrentTest, SendKeepAlive

LEMMA EndOfTest ==
  ASSUME TypeOK, OrderInv, NEW w \in Workers, MarkWorkerDone(w)
  PROVE  OrderInv'
<1>1. /\ handling[w] \in Tests /\ done \in [Tests -> SUBSET Workers]
      /\ status \in [Tests -> {"NONE", "RUNNING", "COMPLETED"}]
  BY DEF TypeOK, MarkWorkerDone
<1>2. /\ cur' = cur /\ stored' = stored
      /\ \A t \in Tests : t # handling[w] => done'[t] = done[t] /\ status'[t] = status[t]
      /\ done'[handling[w]] = done[handling[w]] \cup {w}
      /\ \/ status'[handling[w]] = status[handling[w]]
         \/ /\ status[handling[w]] = "RUNNING" /\ status'[handling[w]] = "COMPLETED"
            /\ done'[handling[w]] = Workers
  BY <1>1 DEF MarkWorkerDone, workerVars, pollVars
<1>3. \A t \in Tests : status'[t] # "NONE" <=> status[t] # "NONE"
  BY <1>1, <1>2
<1>4. \A t \in Tests : status[t] = "COMPLETED" => status'[t] = "COMPLETED"
  BY <1>1, <1>2
<1>5. ASSUME NEW t \in Tests, status'[t] = "COMPLETED" PROVE done'[t] = Workers
  <2>1. status[t] = "COMPLETED" => done[t] = Workers
    BY DEF OrderInv
  <2>2. done[handling[w]] \subseteq Workers
    BY <1>1
  <2>3. CASE t # handling[w]
    BY <1>2, <1>5, <2>1, <2>3
  <2>4. CASE t = handling[w]
    BY <1>2, <1>5, <2>1, <2>2, <2>4
  <2> QED
    BY <2>3, <2>4
<1>6. \A r, t \in Tests : r < t /\ status'[t] # "NONE" => r \in stored'
  BY <1>2, <1>3 DEF OrderInv
<1>7. \A t \in stored' : status'[t] = "COMPLETED"
  BY <1>2, <1>4 DEF OrderInv, TypeOK
<1>8. \A v \in Workers : cur'[v] \in Tests => status'[cur'[v]] # "NONE"
  BY <1>2, <1>3 DEF OrderInv
<1> QED
  BY <1>5, <1>6, <1>7, <1>8 DEF OrderInv

LEMMA OrderStep ==
  ASSUME TypeOK, OrderInv, [Next]_vars
  PROVE  OrderInv'
<1>1. ASSUME NEW t \in Tests, Distribute(t) PROVE OrderInv'
  <2>1. /\ status[t] = "NONE" /\ \A s \in Tests : s < t => s \in stored
        /\ status' = [status EXCEPT ![t] = "RUNNING"] /\ UNCHANGED <<cur, done, stored>>
    BY <1>1 DEF Distribute, workerVars, pollVars
  <2>2. status \in [Tests -> {"NONE", "RUNNING", "COMPLETED"}] /\ stored \subseteq Tests
    BY DEF TypeOK
  <2> QED
    BY <2>1, <2>2 DEF OrderInv
<1>2. ASSUME NEW t \in Tests, GetAggregatedMetrics(t) PROVE OrderInv'
  BY <1>2 DEF GetAggregatedMetrics, OrderInv, workerVars, orchVars
<1>3. CASE Snapshot
  <2>1. /\ UNCHANGED <<cur, done, status>> /\ stored \subseteq stored'
        /\ \A t \in stored' : t \in stored \/ status[t] = "COMPLETED"
    BY <1>3 DEF Snapshot, workerVars, orchVars
  <2> QED
    BY <2>1 DEF OrderInv
<1>4. ASSUME NEW w \in Workers, NEW i \in 1 .. MaxInFlight, ReportMetrics(w, i) \/ LoseBatch(w, i)
      PROVE  OrderInv'
  BY <1>4 DEF ReportMetrics, LoseBatch, OrderInv, workerVars, orchVars, pollVars
<1>5. ASSUME NEW w \in Workers, MarkWorkerDone(w) PROVE OrderInv'
  BY <1>5, EndOfTest
<1>6. ASSUME NEW w \in Workers, WorkerStep(w) PROVE OrderInv'
  <2>1. UNCHANGED <<done, status, stored>>
    BY <1>6, WorkersKeepTables
  <2>2. ASSUME NEW v \in Workers, cur'[v] \in Tests PROVE status[cur'[v]] # "NONE"
    <3>1. ASSUME NEW t \in Tests, Enter(w, t), v = w PROVE status[cur'[v]] # "NONE"
      BY <3>1 DEF Enter, TypeOK
    <3>2. ASSUME NEW t \in Tests, Enter(w, t), v # w PROVE status[cur'[v]] # "NONE"
      <4>1. cur'[v] = cur[v]
        BY <3>2 DEF Enter, TypeOK
      <4> QED
        BY <2>2, <4>1 DEF OrderInv
    <3>3. ASSUME ~\E t \in Tests : Enter(w, t) PROVE status[cur'[v]] # "NONE"
      <4>1. cur' = cur
        BY <1>6, <3>3 DEF WorkerStep, RunTest, Reset, StartReporter, EndStages, ClearActive,
           StopReporter, Request, RecordRequest, ReadTestID, ReportLoop, LoopReturns,
           ReadCurrentTest, SendKeepAlive
      <4> QED
        BY <2>2, <4>1 DEF OrderInv
    <3> QED
      BY <3>1, <3>2, <3>3
  <2> QED
    BY <2>1, <2>2 DEF OrderInv
<1>7. CASE UNCHANGED vars
  BY <1>7 DEF OrderInv, vars, workerVars, orchVars, pollVars
<1> QED
  BY <1>1, <1>2, <1>3, <1>4, <1>5, <1>6, <1>7, StepKinds DEF OtherStep

\* Of the tests a worker knows of, only the current one is open.
LEMMA OnlyCurrent ==
  ASSUME TypeOK, OrderInv, NEW w \in Workers, NEW t \in Tests, t <= cur[w], Open(t)
  PROVE  cur[w] = t
<1>1. cur[w] \in Nat /\ (cur[w] \in Tests \/ cur[w] = NoTest) /\ t \in Nat /\ t > 0
  BY WorkerTypes, TestIsNumber
<1>2. cur[w] \in Tests
  BY <1>1 DEF NoTest
<1>3. ~(t < cur[w])
  BY <1>2 DEF OrderInv, Open
<1> QED
  BY <1>1, <1>3

\* Nothing of an open test has been heard of when a test begins.
LEMMA NothingOpen ==
  ASSUME TypeOK, OrderInv, NEW t \in Tests, Distribute(t), NEW w \in Workers,
         NEW s \in Tests, s <= cur[w]
  PROVE  ~Open(s)
<1>1. /\ status[t] = "NONE" /\ \A r \in Tests : r < t => r \in stored
  BY DEF Distribute
<1>2. /\ cur[w] \in Nat /\ (cur[w] \in Tests \/ cur[w] = NoTest)
      /\ s \in Nat /\ s > 0 /\ t \in Nat
  BY WorkerTypes, TestIsNumber
<1>3. cur[w] \in Tests
  BY <1>2 DEF NoTest
<1>4. cur[w] # t
  BY <1>1, <1>3 DEF OrderInv
<1>5. ~(t < cur[w])
  BY <1>1, <1>3 DEF OrderInv
<1>6. s < t
  BY <1>2, <1>4, <1>5
<1> QED
  BY <1>1, <1>6 DEF Open

\* A batch that is made now fits: it says no more than the collector holds.
LEMMA FreshFits ==
  ASSUME Local, OrderInv, NEW w \in Workers, NEW b \in Batches,
         b.total = total[w], b.test <= cur[w], ~b.active => Past(w, b.test)
  PROVE  /\ FitBatch(w, b)
         /\ Past(w, b.test) /\ Open(b.test) => b.total = recorded[w][b.test]
<1>0. TypeOK /\ CollectorInv(w)
  BY DEF Local
<1>1. b.test \in Tests /\ b.total \in Nat
  BY Numbers DEF Batches
<1>2. ASSUME Open(b.test) PROVE b.test = cur[w] /\ cur[w] \in Tests
  BY <1>0, <1>1, <1>2, OnlyCurrent
<1>3. ASSUME Open(b.test) PROVE b.total <= recorded[w][b.test] \/ Earlier(w, b.test, b.total)
  <2>1. b.test = cur[w] /\ cur[w] \in Tests
    BY <1>2, <1>3
  <2>2. total[w] \in Nat /\ recorded[w][cur[w]] \in Nat
    BY <1>0, <2>1, WorkerTypes
  <2>3. CASE engine[w] = "entered"
    <3>1. total[w] = 0 \/ Earlier(w, cur[w], total[w])
      BY <1>0, <2>3 DEF CollectorInv
    <3> QED
      BY <2>1, <2>2, <3>1
  <2>4. CASE engine[w] # "entered"
    BY <1>0, <2>1, <2>2, <2>4 DEF CollectorInv
  <2> QED
    BY <2>3, <2>4
<1>4. ASSUME Past(w, b.test), Open(b.test) PROVE b.total = recorded[w][b.test]
  <2>1. b.test = cur[w] /\ cur[w] \in Tests /\ cur[w] \in Nat
    BY <1>0, <1>2, <1>4, WorkerTypes
  <2>2. engine[w] # "entered"
    BY <1>4, <2>1 DEF Past
  <2> QED
    BY <1>0, <2>1, <2>2 DEF CollectorInv
<1> QED
  BY <1>3, <1>4 DEF FitBatch, Fits

-----------------------------------------------------------------------------
(***************************************************************************)
(* What is known of a test: the tables of a step are judged by what the    *)
(* workers had recorded before it, and then time goes on.                  *)
(***************************************************************************)
Judged(v, q, f) ==
  /\ q \in Seq(Batches) /\ q = net'[v] /\ Queue(v, q)
  /\ \A t \in Tests : f[t] = entry'[t][v]
  /\ \A t \in Tests : f[t] # NoEntry => Fits(v, t, f[t])
  /\ \A t \in Tests : Word(v, t)' =>
       Past(v, t) /\ (v \notin overtaken' => Exact(v, t, f[t], q))

LEMMA JudgedLater ==
  ASSUME TypeOK, TypeOK', NEW v \in Workers, Later(v), NEW q, NEW f, Judged(v, q, f)
  PROVE  ReportInv(v)'
<1>1. /\ cur'[v] \in Nat /\ \A s \in Tests : recorded'[v][s] \in Nat
  <2>1. cur'[v] \in Tests \cup {NoTest} /\ \A s \in Tests : recorded'[v][s] \in Totals
    BY DEF TypeOK
  <2>2. (\A x \in Totals : x \in Nat) /\ \A t \in Tests \cup {NoTest} : t \in Nat
    BY Numbers, TestIsNumber DEF NoTest
  <2> QED
    BY <2>1, <2>2, Zenon
<1>2. Queue(v, net[v])'
  <2>1. Queue(v, q)'
    BY <1>1, QueueLater DEF Judged
  <2>2. q = net'[v]
    BY DEF Judged
  <2> QED
    BY <2>1, <2>2, Zenon DEF Queue, FitBatch, Fits, Past, Earlier, Open
<1>3. EntryInv(v)'
  <2>1. ASSUME NEW t \in Tests, entry'[t][v] # NoEntry PROVE Fits(v, t, entry[t][v])'
    <3>0. entry'[t][v] \in Totals \cup {NoEntry}
      BY DEF TypeOK
    <3>1. f[t] = entry'[t][v] /\ Fits(v, t, f[t]) /\ f[t] \in Nat
      BY <2>1, <3>0, Numbers DEF Judged
    <3>2. Fits(v, t, f[t])'
      BY <1>1, <3>1, FitsLater
    <3> QED
      BY <3>1, <3>2 DEF Fits, Earlier, Open
  <2> QED
    BY <2>1 DEF EntryInv
<1>4. WordInv(v)'
  <2>1. ASSUME NEW t \in Tests, Word(v, t)'
        PROVE  Past(v, t)' /\ (v \notin overtaken' => Exact(v, t, entry[t][v], net[v])')
    <3>1. Past(v, t) /\ (v \notin overtaken' => Exact(v, t, f[t], q))
          /\ f[t] = entry'[t][v] /\ q = net'[v]
      BY <2>1 DEF Judged
    <3>2. Past(v, t)'
      BY <3>1 DEF Later
    <3>3. ASSUME v \notin overtaken' PROVE Exact(v, t, entry[t][v], net[v])'
      <4>1. Exact(v, t, f[t], q)'
        BY <3>1, <3>3, ExactLater
      <4> QED
        BY <3>1, <4>1 DEF Exact, Open
    <3> QED
      BY <3>2, <3>3
  <2> QED
    BY <2>1 DEF WordInv
<1> QED
  BY <1>2, <1>3, <1>4 DEF ReportInv

SameTables(v) ==
  /\ \A t \in Tests : entry'[t][v] = entry[t][v]
  /\ \A t \in Tests : Word(v, t)' => Word(v, t)

\* A step that leaves the queue of a worker alone.
LEMMA ReportFrame ==
  ASSUME TypeOK, TypeOK', NEW v \in Workers, Later(v), ReportInv(v),
         net'[v] = net[v], SameTables(v),
         \A t \in Tests : Word(v, t) /\ v \notin overtaken' => v \notin overtaken \/ ~Open(t)
  PROVE  ReportInv(v)'
<1>1. PICK q : q = net'[v]
  OBVIOUS
<1>2. PICK f : f = [t \in Tests |-> entry'[t][v]]
  OBVIOUS
<1>3. net[v] \in Seq(Batches)
  BY DEF TypeOK
<1>4. ASSUME NEW t \in Tests, Word(v, t)'
      PROVE  Past(v, t) /\ (v \notin overtaken' => Exact(v, t, entry[t][v], q))
  BY <1>1, <1>4 DEF SameTables, ReportInv, WordInv, Exact
<1>5. \A t \in Tests : f[t] = entry'[t][v] /\ f[t] = entry[t][v]
  BY <1>2 DEF SameTables
<1>6. q \in Seq(Batches) /\ q = net'[v] /\ Queue(v, q)
  BY <1>1, <1>3 DEF ReportInv
<1>7. \A t \in Tests : f[t] # NoEntry => Fits(v, t, f[t])
  BY <1>5 DEF ReportInv, EntryInv
<1> QED
  BY <1>4, <1>5, <1>6, <1>7, JudgedLater DEF Judged

\* A batch is sent.
LEMMA ReportSent ==
  ASSUME TypeOK, TypeOK', NEW v \in Workers, Later(v), ReportInv(v), SameTables(v),
         overtaken' = overtaken, NEW b \in Batches, net'[v] = Append(net[v], b), FitBatch(v, b),
         Past(v, b.test) /\ Open(b.test) => b.total = recorded[v][b.test]
  PROVE  ReportInv(v)'
<1>1. PICK q : q = net'[v]
  OBVIOUS
<1>2. PICK f : f = [t \in Tests |-> entry'[t][v]]
  OBVIOUS
<1>3. net[v] \in Seq(Batches) /\ Len(net[v]) \in Nat
  BY DEF TypeOK
<1>4. /\ q \in Seq(Batches) /\ DOMAIN q = 1 .. Len(net[v]) + 1 /\ DOMAIN net[v] = 1 .. Len(net[v])
      /\ \A k \in 1 .. Len(net[v]) + 1 : q[k] = IF k <= Len(net[v]) THEN net[v][k] ELSE b
  BY <1>1, <1>3, AppendFacts
<1>5. \A k \in DOMAIN q : (k \in DOMAIN net[v] /\ q[k] = net[v][k]) \/ (k \notin DOMAIN net[v] /\ q[k] = b)
  BY <1>3, <1>4
<1>6. \A i, j \in DOMAIN q : i < j => i \in DOMAIN net[v] /\ q[i] = net[v][i]
  BY <1>3, <1>4
<1>7. Queue(v, q)
  <2>1. ASSUME NEW i \in DOMAIN q PROVE FitBatch(v, q[i])
    BY <1>5 DEF ReportInv, Queue
  <2>2. ASSUME NEW i \in DOMAIN q, NEW j \in DOMAIN q,
               i < j, q[i].test = q[j].test, ~q[i].active, Open(q[j].test)
        PROVE  q[j].total = recorded[v][q[j].test]
    <3>1. i \in DOMAIN net[v] /\ q[i] = net[v][i] /\ Past(v, q[j].test)
      BY <1>6, <2>1, <2>2 DEF FitBatch
    <3> QED
      BY <1>5, <2>2, <3>1 DEF ReportInv, Queue
  <2> QED
    BY <2>1, <2>2 DEF Queue
<1>8. ASSUME NEW t \in Tests, Word(v, t)'
      PROVE  Past(v, t) /\ (v \notin overtaken' => Exact(v, t, entry[t][v], q))
  <2>1. Past(v, t) /\ (v \notin overtaken' => Exact(v, t, entry[t][v], net[v]))
    BY <1>8 DEF SameTables, ReportInv, WordInv
  <2> QED
    BY <1>5, <2>1 DEF Exact
<1>9. \A t \in Tests : f[t] = entry'[t][v] /\ f[t] = entry[t][v]
  BY <1>2 DEF SameTables
<1>10. \A t \in Tests : f[t] # NoEntry => Fits(v, t, f[t])
  BY <1>9 DEF ReportInv, EntryInv
<1>11. q \in Seq(Batches) /\ q = net'[v] /\ Queue(v, q)
  BY <1>1, <1>4, <1>7
<1> QED
  BY <1>8, <1>9, <1>10, <1>11, JudgedLater DEF Judged

\* What is left of a queue is in the order it had.
LEMMA RestOfQueue ==
  ASSUME NEW v \in Workers, NEW s \in Seq(Batches), NEW i \in DOMAIN s, Queue(v, s),
         NEW q, q = RemoveAt(s, i)
  PROVE  /\ q \in Seq(Batches) /\ Queue(v, q)
         /\ \A k \in DOMAIN q : \E m \in DOMAIN s : q[k] = s[m] /\ (i = 1 => i < m)
<1>1. Len(s) \in Nat /\ DOMAIN s = 1 .. Len(s) /\ i \in 1 .. Len(s)
  OBVIOUS
<1>2. /\ q \in Seq(Batches) /\ DOMAIN q = 1 .. Len(s) - 1
      /\ \A k \in 1 .. Len(s) - 1 : q[k] = IF k < i THEN s[k] ELSE s[k + 1]
  BY RemoveAtFacts
<1>3. PICK m : m = [k \in DOMAIN q |-> IF k < i THEN k ELSE k + 1]
  OBVIOUS
<1>4. \A k \in DOMAIN q : m[k] \in DOMAIN s /\ q[k] = s[m[k]] /\ (i = 1 => i < m[k])
  BY <1>1, <1>2, <1>3
<1>5. \A k, l \in DOMAIN q : k < l => m[k] < m[l]
  BY <1>1, <1>2, <1>3
<1>6. \A k \in DOMAIN q : FitBatch(v, q[k])
  BY <1>4 DEF Queue
<1>7. ASSUME NEW k \in DOMAIN q, NEW l \in DOMAIN q,
             k < l, q[k].test = q[l].test, ~q[k].active, Open(q[l].test)
      PROVE  q[l].total = recorded[v][q[l].test]
  BY <1>4, <1>5, <1>7 DEF Queue
<1>8. Queue(v, q)
  BY <1>6, <1>7 DEF Queue
<1> QED
  BY <1>2, <1>4, <1>8

LEMMA LoseBatchStep ==
  ASSUME TypeOK, TypeOK', NEW v \in Workers, Later(v), ReportInv(v),
         NEW i \in 1 .. MaxInFlight, LoseBatch(v, i)
  PROVE  ReportInv(v)'
<1>1. /\ net' = [net EXCEPT ![v] = RemoveAt(net[v], i)] /\ i \in DOMAIN net[v]
      /\ UNCHANGED <<overtaken, handling, entry, done>>
  BY DEF LoseBatch, orchVars
<1>2. net[v] \in Seq(Batches) /\ net'[v] = RemoveAt(net[v], i) /\ Queue(v, net[v])
  BY <1>1 DEF TypeOK, ReportInv
<1>3. PICK q : q = net'[v]
  OBVIOUS
<1>4. PICK f : f = [t \in Tests |-> entry'[t][v]]
  OBVIOUS
<1>5. /\ q \in Seq(Batches) /\ Queue(v, q)
      /\ \A k \in DOMAIN q : \E m \in DOMAIN net[v] : q[k] = net[v][m]
  BY <1>1, <1>2, <1>3, RestOfQueue
<1>6. ASSUME NEW t \in Tests, Word(v, t)'
      PROVE  Past(v, t) /\ (v \notin overtaken' => Exact(v, t, entry[t][v], q))
  <2>1. Past(v, t) /\ (v \notin overtaken' => Exact(v, t, entry[t][v], net[v]))
    BY <1>1, <1>6 DEF ReportInv, WordInv, Word
  <2> QED
    BY <1>5, <2>1 DEF Exact
<1>7. \A t \in Tests : f[t] = entry'[t][v] /\ f[t] = entry[t][v]
  BY <1>1, <1>4
<1>8. \A t \in Tests : f[t] # NoEntry => Fits(v, t, f[t])
  BY <1>7 DEF ReportInv, EntryInv
<1> QED
  BY <1>3, <1>5, <1>6, <1>7, <1>8, JudgedLater DEF Judged

LEMMA ReportMetricsStep ==
  ASSUME TypeOK, TypeOK', NEW v \in Workers, Later(v), ReportInv(v),
         NEW i \in 1 .. MaxInFlight, ReportMetrics(v, i)
  PROVE  ReportInv(v)'
<1>1. /\ net' = [net EXCEPT ![v] = RemoveAt(net[v], i)] /\ i \in DOMAIN net[v]
      /\ net[v] \in Seq(Batches) /\ Queue(v, net[v]) /\ net'[v] = RemoveAt(net[v], i)
  BY DEF ReportMetrics, TypeOK, ReportInv
<1>2. PICK b \in Batches : b = net[v][i] /\ b.test \in Tests /\ FitBatch(v, b)
  BY <1>1, InQueue DEF Queue
<1>3. /\ done' = done /\ entry' = [entry EXCEPT ![b.test][v] = b.total]
      /\ handling' = IF b.active THEN handling ELSE [handling EXCEPT ![v] = b.test]
      /\ overtaken' = IF i = 1 THEN overtaken ELSE overtaken \cup {v}
  BY <1>2 DEF ReportMetrics, UpdateWorkerMetrics
<1>4. PICK q : q = net'[v]
  OBVIOUS
<1>5. PICK f : f = [t \in Tests |-> entry'[t][v]]
  OBVIOUS
<1>6. /\ q \in Seq(Batches) /\ Queue(v, q)
      /\ \A k \in DOMAIN q : \E m \in DOMAIN net[v] : q[k] = net[v][m] /\ (i = 1 => i < m)
  BY <1>1, <1>4, RestOfQueue
<1>7. /\ f[b.test] = b.total
      /\ \A t \in Tests : f[t] = entry'[t][v] /\ (t # b.test => f[t] = entry[t][v])
  BY <1>2, <1>3, <1>5 DEF TypeOK
<1>8. ASSUME NEW t \in Tests, f[t] # NoEntry PROVE Fits(v, t, f[t])
  BY <1>2, <1>7, <1>8 DEF ReportInv, EntryInv, FitBatch
<1>9. ASSUME NEW t \in Tests, Word(v, t)' PROVE Word(v, t) \/ (~b.active /\ t = b.test)
  BY <1>3, <1>9 DEF Word, TypeOK
<1>10. ASSUME NEW t \in Tests, Word(v, t)'
       PROVE  Past(v, t) /\ (v \notin overtaken' => Exact(v, t, f[t], q))
  <2>1. Past(v, t)
    BY <1>2, <1>9, <1>10 DEF ReportInv, WordInv, FitBatch
  <2>2. ASSUME v \notin overtaken' PROVE i = 1 /\ v \notin overtaken
    BY <1>3, <2>2
  <2>3. ASSUME v \notin overtaken', Word(v, t) PROVE Exact(v, t, f[t], q)
    <3>1. Exact(v, t, entry[t][v], net[v])
      BY <2>2, <2>3 DEF ReportInv, WordInv
    <3>2. Open(t) => f[t] = recorded[v][t]
      BY <1>1, <1>2, <1>7, <3>1 DEF Exact
    <3>3. Open(t) => \A k \in DOMAIN q : q[k].test = t => q[k].total = recorded[v][t]
      BY <1>6, <3>1 DEF Exact
    <3> QED
      BY <3>2, <3>3 DEF Exact
  <2>4. ASSUME v \notin overtaken', ~b.active, t = b.test PROVE Exact(v, t, f[t], q)
    <3>1. Open(t) => f[t] = recorded[v][t]
      BY <1>2, <1>7, <2>4 DEF FitBatch
    <3>2. ASSUME Open(t), NEW k \in DOMAIN q, q[k].test = t PROVE q[k].total = recorded[v][t]
      <4>1. PICK m \in DOMAIN net[v] : q[k] = net[v][m] /\ i < m
        BY <1>6, <2>2, <2>4
      <4> QED
        BY <1>1, <1>2, <2>4, <3>2, <4>1 DEF Queue
    <3> QED
      BY <3>1, <3>2 DEF Exact
  <2> QED
    BY <1>9, <1>10, <2>1, <2>3, <2>4
<1>11. \A t \in Tests : f[t] = entry'[t][v]
  BY <1>7
<1> QED
  BY <1>4, <1>6, <1>8, <1>10, <1>11, JudgedLater DEF Judged

\* Whoever makes a batch, its label is older than its totals.
LEMMA WhatIsSent ==
  ASSUME Local, NEW w \in Workers, StopReporter(w) \/ ReportLoop(w) \/ SendKeepAlive(w)
  PROVE  \E b \in Batches :
           /\ b.total = total[w] /\ b.test <= cur[w] /\ (~b.active => Past(w, b.test))
           /\ net' = [net EXCEPT ![w] = Append(net[w], b)] /\ overtaken' = overtaken
<1>0. TypeOK /\ CollectorInv(w) /\ LabelInv(w) /\ total[w] \in Totals /\ cur[w] \in Nat
  BY WorkerTypes DEF Local, TypeOK
<1>1. ASSUME NEW t \in Tests, NEW a \in BOOLEAN, Send(w, t, a), t <= cur[w], ~a => Past(w, t)
      PROVE  \E b \in Batches :
               /\ b.total = total[w] /\ b.test <= cur[w] /\ (~b.active => Past(w, b.test))
               /\ net' = [net EXCEPT ![w] = Append(net[w], b)] /\ overtaken' = overtaken
  <2>1. PICK b : b = [test |-> t, active |-> a, total |-> total[w]]
    OBVIOUS
  <2>2. b \in Batches /\ b.total = total[w] /\ b.test = t /\ b.active = a
    BY <1>0, <2>1 DEF Batches
  <2>3. net' = [net EXCEPT ![w] = Append(net[w], b)] /\ overtaken' = overtaken
    BY <1>1, <2>1 DEF Send
  <2> QED
    BY <1>1, <2>2, <2>3
<1>2. CASE StopReporter(w)
  <2>1. engine[w] = "final" /\ Send(w, repTest[w], FALSE)
    BY <1>2 DEF StopReporter, Phase
  <2>2. repTest[w] = cur[w] /\ cur[w] \in Tests
    BY <1>0, <2>1 DEF CollectorInv, LabelInv
  <2>3. Past(w, cur[w])
    BY <2>1 DEF Past
  <2>4. Send(w, cur[w], FALSE)
    BY <2>1, <2>2, Zenon
  <2>5. cur[w] <= cur[w]
    BY <1>0
  <2> QED
    BY <1>1, <2>2, <2>3, <2>4, <2>5
<1>3. CASE ReportLoop(w)
  <2>1. rep[w] \in Tests /\ Send(w, rep[w], TRUE) /\ rep[w] <= cur[w]
    BY <1>0, <1>3 DEF ReportLoop, TypeOK, LabelInv
  <2> QED
    BY <1>1, <2>1
<1>4. CASE SendKeepAlive(w)
  <2>1. keep[w] # NotReading /\ Send(w, keep[w].test, keep[w].active)
    BY <1>4 DEF SendKeepAlive
  <2>2. keep[w].active \in BOOLEAN
    BY <1>0, WorkerTypes
  <2>3. /\ keep[w].test \in Tests /\ keep[w].test <= cur[w]
        /\ ~keep[w].active => Past(w, keep[w].test)
    BY <1>0, <2>1 DEF LabelInv
  <2> QED
    BY <1>1, <2>1, <2>2, <2>3
<1> QED
  BY <1>2, <1>3, <1>4

LEMMA WorkerReports ==
  ASSUME Local, TypeOK', OrderInv, NEW w \in Workers, WorkerStep(w),
         NEW v \in Workers, Later(v), ReportInv(v)
  PROVE  ReportInv(v)'
<1>0. TypeOK /\ net \in [Workers -> Seq(Batches)]
  BY DEF Local, TypeOK
<1>1. SameTables(v)
  <2>1. UNCHANGED <<entry, handling, done>>
    BY WorkersKeepTables
  <2> QED
    BY <2>1 DEF SameTables, Word
<1>2. ASSUME net'[v] = net[v], overtaken' = overtaken PROVE ReportInv(v)'
  BY <1>0, <1>1, <1>2, ReportFrame
<1>3. CASE StopReporter(w) \/ ReportLoop(w) \/ SendKeepAlive(w)
  <2>1. PICK b \in Batches :
           /\ b.total = total[w] /\ b.test <= cur[w] /\ (~b.active => Past(w, b.test))
           /\ net' = [net EXCEPT ![w] = Append(net[w], b)] /\ overtaken' = overtaken
    BY <1>3, WhatIsSent
  <2>2. CASE v # w
    BY <1>0, <1>2, <2>1, <2>2
  <2>3. CASE v = w
    <3>1. /\ FitBatch(v, b) /\ net'[v] = Append(net[v], b) /\ overtaken' = overtaken
          /\ Past(v, b.test) /\ Open(b.test) => b.total = recorded[v][b.test]
      BY <1>0, <2>1, <2>3, FreshFits
    <3> QED
      BY <1>0, <1>1, <3>1, ReportSent
  <2> QED
    BY <2>2, <2>3
<1>4. CASE ~(StopReporter(w) \/ ReportLoop(w) \/ SendKeepAlive(w))
  <2>1. UNCHANGED <<net, overtaken>>
    BY <1>4 DEF WorkerStep, RunTest, Enter, Reset, StartReporter, EndStages, ClearActive, Request,
                RecordRequest, ReadTestID, LoopReturns, ReadCurrentTest, netVars
  <2> QED
    BY <1>2, <2>1
<1> QED
  BY <1>3, <1>4

LEMMA ReportStep ==
  ASSUME Local, OrderInv, [Next]_vars, NEW v \in Workers, ReportInv(v)
  PROVE  ReportInv(v)'
<1>0. TypeOK /\ TypeOK' /\ Later(v)
  BY LocalStep, TimeGoesOn DEF Local
<1>1. ASSUME NEW w \in Workers, WorkerStep(w) PROVE ReportInv(v)'
  BY <1>0, <1>1, WorkerReports
<1>2. ASSUME NEW t \in Tests, Distribute(t) PROVE ReportInv(v)'
  <2>1. UNCHANGED <<net, entry, handling, done>>
    BY <1>2 DEF Distribute
  <2>2. SameTables(v)
    BY <2>1 DEF SameTables, Word
  <2>3. ASSUME NEW s \in Tests, Word(v, s) PROVE ~Open(s)
    <3>1. Past(v, s) /\ cur[v] \in Nat /\ s \in Nat
      BY <1>0, <2>3, WorkerTypes, TestIsNumber DEF ReportInv, WordInv
    <3>2. s <= cur[v]
      BY <3>1 DEF Past
    <3> QED
      BY <1>0, <1>2, <3>2, NothingOpen
  <2> QED
    BY <1>0, <2>1, <2>2, <2>3, ReportFrame
<1>3. ASSUME SameTables(v), net'[v] = net[v], v \notin overtaken' => v \notin overtaken
      PROVE  ReportInv(v)'
  BY <1>0, <1>3, ReportFrame
<1>4. ASSUME NEW t \in Tests, GetAggregatedMetrics(t) PROVE ReportInv(v)'
  BY <1>3, <1>4 DEF GetAggregatedMetrics, SameTables, Word, netVars, orchVars
<1>5. CASE Snapshot
  BY <1>3, <1>5 DEF Snapshot, SameTables, Word, netVars, orchVars
<1>6. CASE UNCHANGED vars
  BY <1>3, <1>6 DEF vars, SameTables, Word, netVars, orchVars
<1>7. ASSUME NEW w \in Workers, MarkWorkerDone(w) PROVE ReportInv(v)'
  <2>1. /\ handling[w] \in Tests /\ UNCHANGED <<net, overtaken, entry>>
        /\ done' = [done EXCEPT ![handling[w]] = @ \cup {w}]
        /\ handling' = [handling EXCEPT ![w] = NoTest]
    BY <1>0, <1>7 DEF MarkWorkerDone, TypeOK, netVars
  <2>2. ASSUME NEW t \in Tests, Word(v, t)' PROVE Word(v, t)
    <3>1. t # NoTest
      BY Numbers DEF NoTest
    <3>2. CASE v # w
      BY <1>0, <2>1, <2>2, <3>2 DEF Word, TypeOK
    <3>3. CASE v = w
      <4>1. handling'[v] = NoTest /\ v \in done'[t]
        BY <1>0, <2>1, <2>2, <3>1, <3>3 DEF Word, TypeOK
      <4> QED
        BY <1>0, <2>1, <3>3, <4>1 DEF Word, TypeOK
    <3> QED
      BY <3>2, <3>3
  <2>3. SameTables(v)
    BY <2>1, <2>2 DEF SameTables
  <2> QED
    BY <1>3, <2>1, <2>3
<1>8. ASSUME NEW w \in Workers, NEW i \in 1 .. MaxInFlight, LoseBatch(w, i) PROVE ReportInv(v)'
  <2>1. CASE v = w
    BY <1>0, <1>8, <2>1, LoseBatchStep
  <2>2. CASE v # w
    <3>1. net'[v] = net[v] /\ UNCHANGED <<overtaken, entry, handling, done>>
      BY <1>0, <1>8, <2>2 DEF LoseBatch, TypeOK, orchVars
    <3> QED
      BY <1>3, <3>1 DEF SameTables, Word
  <2> QED
    BY <2>1, <2>2
<1>9. ASSUME NEW w \in Workers, NEW i \in 1 .. MaxInFlight, ReportMetrics(w, i) PROVE ReportInv(v)'
  <2>1. CASE v = w
    BY <1>0, <1>9, <2>1, ReportMetricsStep
  <2>2. CASE v # w
    <3>1. /\ net'[v] = net[v] /\ done' = done
          /\ handling'[v] = handling[v] /\ (v \notin overtaken' => v \notin overtaken)
      BY <1>0, <1>9, <2>2 DEF ReportMetrics, TypeOK
    <3>2. \A t \in Tests : entry'[t][v] = entry[t][v]
      BY <1>0, <1>9, <2>2 DEF ReportMetrics, UpdateWorkerMetrics, TypeOK
    <3> QED
      BY <1>3, <3>1, <3>2 DEF SameTables, Word
  <2> QED
    BY <2>1, <2>2
<1> QED
  BY <1>1, <1>2, <1>4, <1>5, <1>6, <1>7, <1>8, <1>9, StepKinds DEF OtherStep

-----------------------------------------------------------------------------
(***************************************************************************)
(* The answer of a poll.                                                   *)
(***************************************************************************)
LEMMA AllDone ==
  ASSUME TotalsInv, NEW t \in Tests, status[t] = "COMPLETED", NEW w \in Workers
  PROVE  Past(w, t) /\ (w \notin overtaken => Exact(w, t, entry[t][w], net[w]))
<1>1. w \in done[t]
  BY DEF TotalsInv, OrderInv
<1> QED
  BY <1>1 DEF TotalsInv, ReportInv, WordInv, Word

LEMMA DoneIsExact ==
  ASSUME TotalsInv, NEW t \in Tests, status[t] = "COMPLETED", Open(t), overtaken = {}
  PROVE  Aggregated(t) = Recorded(t)
<1>1. ASSUME NEW w \in Workers PROVE entry[t][w] = recorded[w][t] /\ entry[t][w] # NoEntry
  <2>1. entry[t][w] = recorded[w][t]
    BY AllDone DEF Exact
  <2>2. recorded[w][t] \in Nat
    BY WorkerTypes DEF TotalsInv, Local
  <2> QED
    BY <2>1, <2>2, NoEntryIsNoTotal
<1>2. [w \in Workers |-> IF entry[t][w] = NoEntry THEN 0 ELSE entry[t][w]]
        = [w \in Workers |-> recorded[w][t]]
  BY <1>1
<1> QED
  BY <1>2 DEF Aggregated, Recorded

\* What was recorded for a test that is over does not change.
LEMMA RecordedStays ==
  ASSUME TotalsInv, [Next]_vars, NEW t \in Tests, status[t] = "COMPLETED"
  PROVE  Recorded(t)' = Recorded(t)
<1>1. ASSUME NEW w \in Workers PROVE recorded'[w][t] = recorded[w][t]
  BY AllDone, TimeGoesOn DEF TotalsInv, Later
<1>2. [w \in Workers |-> recorded'[w][t]] = [w \in Workers |-> recorded[w][t]]
  BY <1>1
<1> QED
  BY <1>2 DEF Recorded

LEMMA NoLongerUnused ==
  ASSUME TypeOK, [Next]_vars, NEW t \in Tests
  PROVE  /\ status[t] # "NONE" => status'[t] # "NONE"
         /\ status[t] = "COMPLETED" => status'[t] = "COMPLETED"
<1>1. ASSUME NEW s \in Tests, Distribute(s)
      PROVE  status[s] = "NONE" /\ status' = [status EXCEPT ![s] = "RUNNING"]
  BY <1>1 DEF Distribute
<1>2. ASSUME NEW w \in Workers, MarkWorkerDone(w)
      PROVE  \/ status' = status
             \/ status' = [status EXCEPT ![handling[w]] = "COMPLETED"]
  BY <1>2 DEF MarkWorkerDone
<1>3. ASSUME NEW w \in Workers, WorkerStep(w) PROVE status' = status
  BY <1>3, WorkersKeepTables
<1>4. status \in [Tests -> {"NONE", "RUNNING", "COMPLETED"}]
  BY DEF TypeOK
<1>5. ASSUME NEW w \in Workers, NEW i \in 1 .. MaxInFlight, ReportMetrics(w, i) \/ LoseBatch(w, i)
      PROVE  status' = status
  BY <1>5 DEF ReportMetrics, LoseBatch, orchVars
<1>6. ASSUME NEW s \in Tests, GetAggregatedMetrics(s) PROVE status' = status
  BY <1>6 DEF GetAggregatedMetrics, orchVars
<1>7. ASSUME Snapshot PROVE status' = status
  BY <1>7 DEF Snapshot, orchVars
<1>8. ASSUME UNCHANGED vars PROVE status' = status
  BY <1>8 DEF vars, orchVars
<1>9. \/ status' = status
      \/ \E s \in Tests : status[s] = "NONE" /\ status' = [status EXCEPT ![s] = "RUNNING"]
      \/ \E w \in Workers : status' = [status EXCEPT ![handling[w]] = "COMPLETED"]
  BY <1>1, <1>2, <1>3, <1>5, <1>6, <1>7, <1>8, StepKinds DEF OtherStep
<1> QED
  BY <1>4, <1>9

LEMMA PollStep ==
  ASSUME TotalsInv, [Next]_vars
  PROVE  PollInv'
<1>0. TypeOK /\ OrderInv /\ stored \subseteq stored'
  BY StoredStays DEF TotalsInv, Local
<1>1. ASSUME NEW t \in Tests, GetAggregatedMetrics(t) PROVE PollInv'
  <2>1. /\ status[t] # "NONE" /\ UNCHANGED <<status, stored, overtaken, recorded>>
        /\ poll' = [test |-> t, total |-> Aggregated(t), over |-> status[t] = "COMPLETED"]
    BY <1>1 DEF GetActiveTest, GetAggregatedMetrics, orchVars, netVars, workerVars
  <2>2. poll'.test = t /\ poll'.total = Aggregated(t) /\ (poll'.over => status[t] = "COMPLETED")
    BY <2>1
  <2>3. ASSUME poll'.over, Open(t)', overtaken' = {} PROVE poll'.total = Recorded(t)'
    <3>1. status[t] = "COMPLETED" /\ Open(t) /\ overtaken = {}
      BY <2>1, <2>2, <2>3 DEF Open
    <3>2. Recorded(t)' = Recorded(t)
      BY <2>1 DEF Recorded
    <3> QED
      BY <2>2, <3>1, <3>2, DoneIsExact
  <2> QED
    BY <2>1, <2>2, <2>3 DEF PollInv, Open, Recorded
<1>2. CASE Snapshot
  BY <1>2 DEF Snapshot, PollInv
<1>3. ASSUME poll' = poll, poll # NoPoll,
             overtaken' = {} => overtaken = {} \/ ~Open(poll.test)
      PROVE  PollInv'
  <2>1. PICK t \in Tests : t = poll.test
    BY <1>0, <1>3 DEF TypeOK
  <2>2. /\ status'[t] # "NONE" /\ (poll.over => status[t] = "COMPLETED" /\ status'[t] = "COMPLETED")
    BY <1>0, <1>3, <2>1, NoLongerUnused DEF TotalsInv, PollInv
  <2>3. ASSUME poll.over, Open(t)', overtaken' = {} PROVE poll.total = Recorded(t)'
    <3>1. Open(t) /\ overtaken = {}
      BY <1>0, <1>3, <2>1, <2>3 DEF Open
    <3>2. poll.total = Recorded(t)
      BY <1>3, <2>1, <2>3, <3>1 DEF TotalsInv, PollInv
    <3> QED
      BY <2>2, <2>3, <3>2, RecordedStays
  <2> QED
    BY <1>3, <2>1, <2>2, <2>3 DEF PollInv, Open, Recorded
<1>4. ASSUME poll' = poll, poll = NoPoll PROVE PollInv'
  BY <1>4 DEF PollInv
<1>5. ASSUME NEW t \in Tests, Distribute(t) PROVE PollInv'
  <2>1. poll' = poll
    BY <1>5 DEF Distribute, pollVars
  <2>2. ASSUME poll # NoPoll, poll.over, Open(poll.test) PROVE FALSE
    <3>1. PICK s \in Tests : s = poll.test
      BY <1>0, <2>2 DEF TypeOK
    <3>2. status[s] = "COMPLETED"
      BY <2>2, <3>1 DEF TotalsInv, PollInv
    <3>3. status[t] = "NONE" /\ (s < t => s \in stored) /\ s \in Nat /\ t \in Nat
      BY <1>5, TestIsNumber DEF Distribute
    <3>4. ~(t < s)
      BY <1>0, <3>2, <3>3 DEF OrderInv
    <3>5. s # t
      BY <3>2, <3>3
    <3>6. s \in stored
      BY <3>3, <3>4, <3>5
    <3> QED
      BY <2>2, <3>1, <3>6 DEF Open
  <2>3. ASSUME poll # NoPoll PROVE PollInv'
    <3>1. ~(poll.over /\ Open(poll.test))
      BY <2>2, <2>3
    <3>2. PICK s \in Tests : s = poll.test
      BY <1>0, <2>3 DEF TypeOK
    <3>3. status'[s] # "NONE" /\ (poll.over => status'[s] = "COMPLETED")
      BY <1>0, <2>3, <3>2, NoLongerUnused DEF TotalsInv, PollInv
    <3>4. ~(poll.over /\ Open(s)')
      BY <1>0, <3>1, <3>2 DEF Open
    <3> QED
      BY <2>1, <3>2, <3>3, <3>4 DEF PollInv, Open
  <2> QED
    BY <1>4, <2>1, <2>3
<1>6. ASSUME NEW w \in Workers,
             \/ WorkerStep(w) \/ MarkWorkerDone(w)
             \/ \E i \in 1 .. MaxInFlight : ReportMetrics(w, i) \/ LoseBatch(w, i)
      PROVE  poll' = poll /\ (overtaken' = {} => overtaken = {})
  <2>1. ASSUME WorkerStep(w) PROVE poll' = poll /\ overtaken' = overtaken
    <3>1. poll' = poll
      BY <2>1, WorkersKeepTables
    <3>2. ASSUME RunTest(w) PROVE overtaken' = overtaken
      BY <3>2 DEF RunTest, Enter, Reset, StartReporter, EndStages, ClearActive, StopReporter, Send, netVars
    <3> QED
      BY <2>1, <3>1, <3>2 DEF WorkerStep, Request, RecordRequest, ReadTestID, ReportLoop, LoopReturns,
         ReadCurrentTest, SendKeepAlive, Send, netVars
  <2>2. ASSUME MarkWorkerDone(w) PROVE poll' = poll /\ overtaken' = overtaken
    BY <2>2 DEF MarkWorkerDone, netVars, pollVars
  <2>3. ASSUME NEW i \in 1 .. MaxInFlight, ReportMetrics(w, i) \/ LoseBatch(w, i)
        PROVE  poll' = poll /\ (overtaken' = {} => overtaken = {})
    BY <2>3 DEF ReportMetrics, LoseBatch, pollVars
  <2> QED
    BY <1>6, <2>1, <2>2, <2>3
<1>7. CASE UNCHANGED vars
  BY <1>3, <1>4, <1>7 DEF vars, netVars, pollVars
<1> QED
  BY <1>1, <1>2, <1>3, <1>4, <1>5, <1>6, <1>7, StepKinds DEF OtherStep

-----------------------------------------------------------------------------
LEMMA InitTotals == Init => TotalsInv
<1> SUFFICES ASSUME Init PROVE TotalsInv
  OBVIOUS
<1>1. Local /\ TypeOK
  BY InitLocal DEF Local
<1>2. OrderInv
  BY Numbers DEF Init, OrderInv, NoTest
<1>3. ASSUME NEW w \in Workers PROVE ReportInv(w)
  <2>1. Queue(w, net[w])
    BY DEF Init, Queue
  <2>2. EntryInv(w)
    BY DEF Init, EntryInv
  <2>3. WordInv(w)
    BY Numbers DEF Init, WordInv, Word, NoTest
  <2> QED
    BY <2>1, <2>2, <2>3 DEF ReportInv
<1>4. PollInv
  BY DEF Init, PollInv
<1> QED
  BY <1>1, <1>2, <1>3, <1>4 DEF TotalsInv

LEMMA TotalsStep ==
  ASSUME TotalsInv, [Next]_vars
  PROVE  TotalsInv'
<1>1. Local /\ OrderInv /\ TypeOK
  BY DEF TotalsInv, Local
<1>2. Local' /\ OrderInv' /\ PollInv'
  BY <1>1, LocalStep, OrderStep, PollStep
<1>3. ASSUME NEW w \in Workers PROVE ReportInv(w)'
  BY <1>1, ReportStep DEF TotalsInv
<1> QED
  BY <1>2, <1>3 DEF TotalsInv

LEMMA TotalsInvariant == Spec => []TotalsInv
BY InitTotals, TotalsStep, PTL DEF Spec

\* A batch that says a worker is no longer running an open test carries all the
\* test recorded, whoever made it and whenever it read the flag: virtual users are
\* waited for before the flag is cleared (engine.go:169).
THEOREM FinalIsWhole == Spec => []FinalBatchIsWhole
<1>1. ASSUME TotalsInv PROVE FinalBatchIsWhole
  <2>1. ASSUME NEW w \in Workers, NEW b \in Underway(w), ~b.active, Open(b.test)
        PROVE  b.total = recorded[w][b.test]
    <3>1. PICK i \in DOMAIN net[w] : b = net[w][i]
      BY <2>1 DEF Underway
    <3>2. FitBatch(w, b)
      BY <1>1, <3>1 DEF TotalsInv, ReportInv, Queue
    <3> QED
      BY <2>1, <3>2 DEF FitBatch
  <2> QED
    BY <2>1 DEF FinalBatchIsWhole
<1> QED
  BY <1>1, TotalsInvariant, PTL

\* As long as a test is open it is credited with its own requests, or, by a
\* keep-alive that came between the new id and the reset (engine.go:64-75), with
\* all those of an earlier test: never with a mixture, in no order of the batches.
THEOREM TestsKeptApart == Spec => []KeptApart
<1>1. ASSUME TotalsInv PROVE KeptApart
  <2>1. ASSUME NEW w \in Workers, NEW b \in Underway(w), Open(b.test)
        PROVE  \/ b.total <= recorded[w][b.test]
               \/ b.active /\ Earlier(w, b.test, b.total)
    <3>1. PICK i \in DOMAIN net[w] : b = net[w][i]
      BY <2>1 DEF Underway
    <3>2. FitBatch(w, b) /\ net[w] \in Seq(Batches)
      BY <1>1, <3>1 DEF TotalsInv, ReportInv, Queue, Local, TypeOK
    <3>3. b.test \in Tests /\ b.active \in BOOLEAN
      BY <3>1, <3>2, InQueue
    <3>4. recorded[w][b.test] \in Nat
      BY <1>1, <3>3, WorkerTypes DEF TotalsInv, Local
    <3>5. ~b.active => b.total = recorded[w][b.test]
      BY <2>1, <3>2 DEF FitBatch
    <3>6. b.total <= recorded[w][b.test] \/ Earlier(w, b.test, b.total)
      BY <2>1, <3>2 DEF FitBatch, Fits
    <3> QED
      BY <3>4, <3>5, <3>6
  <2>2. ASSUME NEW w \in Workers, NEW t \in Tests, Open(t), entry[t][w] # NoEntry
        PROVE  entry[t][w] <= recorded[w][t] \/ Earlier(w, t, entry[t][w])
    BY <1>1, <2>2 DEF TotalsInv, ReportInv, EntryInv, Fits
  <2> QED
    BY <2>1, <2>2 DEF KeptApart
<1> QED
  BY <1>1, TotalsInvariant, PTL

\* From COMPLETED on, the totals of a test that history waits for are what its
\* workers recorded, for every worker none of whose batches overtook another, and
\* so is an answer that was read after the end (recorder.go:213).
THEOREM CompletedExact == Spec => []CompletedIsExact
<1>1. ASSUME TotalsInv PROVE CompletedIsExact
  <2>1. ASSUME NEW t \in Tests, status[t] = "COMPLETED", Open(t), NEW w \in Workers \ overtaken
        PROVE  entry[t][w] = recorded[w][t]
    BY <1>1, <2>1, AllDone DEF Exact
  <2>2. ASSUME NEW t \in Tests, status[t] = "COMPLETED", Open(t),
               poll.test = t, poll.over, overtaken = {}
        PROVE  poll.total = Recorded(t)
    <3>1. poll # NoPoll
      BY <2>2 DEF NoPoll
    <3> QED
      BY <1>1, <2>2, <3>1 DEF TotalsInv, PollInv
  <2> QED
    BY <2>1, <2>2 DEF CompletedIsExact
<1> QED
  BY <1>1, TotalsInvariant, PTL
=============================================================================
