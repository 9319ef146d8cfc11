------------------------------ MODULE PlansProofs ------------------------------
(***************************************************************************)
(* Proofs about Plans.                                                     *)
(***************************************************************************)
EXTENDS Plans, TLAPS

\* A number that fits an int32 is not changed by the conversion.
LEMMA Int32Fits ==
  ASSUME Half \in Nat \ {0}, NEW x \in Int32s
  PROVE  Int32(x) = x
<1>1. x + Half \in 0 .. 2 * Half - 1  BY DEF Int32s
<1>2. \A a, b \in Nat : a < b => a % b = a  OBVIOUS
<1>3. (x + Half) % (2 * Half) = x + Half  BY <1>1, <1>2
<1> QED  BY <1>3 DEF Int32, Int32s

\* Whole milliseconds survive the way through nanoseconds.
LEMMA MillisExact ==
  ASSUME Half \in Nat \ {0}, NEW ms \in Int32s
  PROVE  Millis(Duration(ms)) = ms
<1>1. Quot(Duration(ms), Millisecond) = ms
  <2>1. CASE ms >= 0  BY <2>1 DEF Quot, Duration, Millisecond, Int32s
  <2>2. CASE ms < 0   BY <2>2 DEF Quot, Duration, Millisecond, Int32s
  <2> QED  BY <2>1, <2>2 DEF Int32s
<1> QED  BY <1>1, Int32Fits DEF Millis

\* The value of a set of one is that one.
LEMMA TheOne == \A x : The({x}) = x
BY DEF The

\* An optional field that is set holds exactly its value.
LEMMA OptionalCases ==
  ASSUME NEW S, NEW f \in Optional(S), f # {}
  PROVE  The(f) \in S /\ f = {The(f)}
BY TheOne DEF Optional

-----------------------------------------------------------------------------
(***************************************************************************)
(* The way of one assertion.                                               *)
(***************************************************************************)
Sent(y) == AssertionFromProto(AssertionToProto(ParseAssertion(y)))

\* A status code arrives as the same number, of another Go type.
LEMMA StatusCodeArrives ==
  ASSUME NEW code, NEW resp \in Responses
  PROVE  CheckAssertion(AssertionFromProto(AssertionToProto(StatusCode("int32", code))), resp)
           <=> resp.status = code
<1>1. AssertionToProto(StatusCode("int32", code)) = [Type |-> "status_code", Expected |-> code]
  BY DEF AssertionToProto, StatusCode
<1>2. AssertionFromProto([Type |-> "status_code", Expected |-> code]) = StatusCode("int", code)
  BY DEF AssertionFromProto
<1>3. CheckAssertion(StatusCode("int", code), resp) <=> resp.status = code
  BY DEF CheckAssertion, StatusCode
<1> QED  BY <1>1, <1>2, <1>3

\* A response time arrives to the nanosecond, because it was whole milliseconds.
LEMMA ResponseTimeArrives ==
  ASSUME Half \in Nat \ {0}, NEW p, NEW ms \in Int32s, NEW resp \in Responses
  PROVE  CheckAssertion(AssertionFromProto(AssertionToProto(ResponseTime(p, Duration(ms)))), resp)
           <=> resp.duration <= Duration(ms)
<1>1. AssertionToProto(ResponseTime(p, Duration(ms))) =
        [Type |-> "response_time", Percentile |-> p, MaxMs |-> ms]
  BY MillisExact DEF AssertionToProto, ResponseTime
<1>2. AssertionFromProto([Type |-> "response_time", Percentile |-> p, MaxMs |-> ms]) =
        ResponseTime(p, Duration(ms))
  BY DEF AssertionFromProto
<1>3. CheckAssertion(ResponseTime(p, Duration(ms)), resp) <=> resp.duration <= Duration(ms)
  BY DEF CheckAssertion, ResponseTime
<1> QED  BY <1>1, <1>2, <1>3

\* A text to look for arrives as it is.
LEMMA BodyContainsArrives ==
  ASSUME NEW text, NEW resp \in Responses
  PROVE  CheckAssertion(AssertionFromProto(AssertionToProto(BodyContains(text))), resp)
           <=> text \in resp.body
<1>1. AssertionToProto(BodyContains(text)) = [Type |-> "body_contains", Substring |-> text]
  BY DEF AssertionToProto, BodyContains
<1>2. AssertionFromProto([Type |-> "body_contains", Substring |-> text]) = BodyContains(text)
  BY DEF AssertionFromProto
<1>3. CheckAssertion(BodyContains(text), resp) <=> text \in resp.body
  BY DEF CheckAssertion, BodyContains
<1> QED  BY <1>1, <1>2, <1>3

\* An entry with one field is checked on the worker as it was written; one with
\* none is dropped, and asks for nothing.
LEMMA AssertionAsWritten ==
  ASSUME Half \in Nat \ {0}, NEW y \in YAMLAssertions, NEW resp \in Responses,
         \A f, g \in Fields(y) : f = g
  PROVE  /\ ParseAssertion(y) # NoAssertion => (CheckAssertion(Sent(y), resp) <=> AsWritten(y, resp))
         /\ ParseAssertion(y) = NoAssertion => AsWritten(y, resp)
<1> DEFINE code == y.StatusCode
           p99  == y.ResponseTimeP99
           p95  == y.ResponseTimeP95
           p50  == y.ResponseTimeP50
           text == y.BodyContains
<1>t. /\ code \in Optional(Int32s) /\ p99 \in Optional(Int32s) /\ p95 \in Optional(Int32s)
      /\ p50 \in Optional(Int32s) /\ text \in Optional(Texts)
  BY DEF YAMLAssertions
<1>f. /\ code # {} => p99 = {} /\ p95 = {} /\ p50 = {} /\ text = {}
      /\ p99 # {} => code = {} /\ p95 = {} /\ p50 = {} /\ text = {}
      /\ p95 # {} => code = {} /\ p99 = {} /\ p50 = {} /\ text = {}
      /\ p50 # {} => code = {} /\ p99 = {} /\ p95 = {} /\ text = {}
  BY DEF Fields
<1>1. CASE code # {}
  <2>1. ParseAssertion(y) = StatusCode("int32", The(code))  BY <1>1 DEF ParseAssertion
  <2>2. AsWritten(y, resp) <=> resp.status = The(code)
    BY <1>1, <1>f, <1>t, OptionalCases DEF AsWritten
  <2>3. ParseAssertion(y) # NoAssertion  BY <2>1 DEF StatusCode, NoAssertion
  <2> QED  BY <2>1, <2>2, <2>3, StatusCodeArrives DEF Sent
<1>2. CASE p99 # {}
  <2>1. ParseAssertion(y) = ResponseTime("P99", Duration(The(p99)))
    BY <1>2, <1>f DEF ParseAssertion
  <2>2. The(p99) \in Int32s /\ p99 = {The(p99)}  BY <1>2, <1>t, OptionalCases
  <2>3. AsWritten(y, resp) <=> resp.duration <= Duration(The(p99))
    BY <1>2, <1>f, <2>2 DEF AsWritten
  <2>4. ParseAssertion(y) # NoAssertion  BY <2>1 DEF ResponseTime, NoAssertion
  <2> QED  BY <2>1, <2>2, <2>3, <2>4, ResponseTimeArrives DEF Sent
<1>3. CASE p95 # {}
  <2>1. ParseAssertion(y) = ResponseTime("P95", Duration(The(p95)))
    BY <1>3, <1>f DEF ParseAssertion
  <2>2. The(p95) \in Int32s /\ p95 = {The(p95)}  BY <1>3, <1>t, OptionalCases
  <2>3. AsWritten(y, resp) <=> resp.duration <= Duration(The(p95))
    BY <1>3, <1>f, <2>2 DEF AsWritten
  <2>4. ParseAssertion(y) # NoAssertion  BY <2>1 DEF ResponseTime, NoAssertion
  <2> QED  BY <2>1, <2>2, <2>3, <2>4, ResponseTimeArrives DEF Sent
<1>4. CASE p50 # {}
  <2>1. ParseAssertion(y) = ResponseTime("P50", Duration(The(p50)))
    BY <1>4, <1>f DEF ParseAssertion
  <2>2. The(p50) \in Int32s /\ p50 = {The(p50)}  BY <1>4, <1>t, OptionalCases
  <2>3. AsWritten(y, resp) <=> resp.duration <= Duration(The(p50))
    BY <1>4, <1>f, <2>2 DEF AsWritten
  <2>4. ParseAssertion(y) # NoAssertion  BY <2>1 DEF ResponseTime, NoAssertion
  <2> QED  BY <2>1, <2>2, <2>3, <2>4, ResponseTimeArrives DEF Sent
<1>5. CASE code = {} /\ p99 = {} /\ p95 = {} /\ p50 = {} /\ text # {}
  <2>1. ParseAssertion(y) = BodyContains(The(text))  BY <1>5 DEF ParseAssertion
  <2>2. AsWritten(y, resp) <=> The(text) \in resp.body
    BY <1>5, <1>t, OptionalCases DEF AsWritten
  <2>3. ParseAssertion(y) # NoAssertion  BY <2>1 DEF BodyContains, NoAssertion
  <2> QED  BY <2>1, <2>2, <2>3, BodyContainsArrives DEF Sent
<1>6. CASE code = {} /\ p99 = {} /\ p95 = {} /\ p50 = {} /\ text = {}
  <2>1. AsWritten(y, resp)  BY <1>6 DEF AsWritten
  <2>2. ParseAssertion(y) = NoAssertion  BY <1>6 DEF ParseAssertion
  <2> QED  BY <2>1, <2>2
<1> QED  BY <1>1, <1>2, <1>3, <1>4, <1>5, <1>6

-----------------------------------------------------------------------------
(***************************************************************************)
(* Requests, stages and plans.                                             *)
(***************************************************************************)
SentRequest(r) == RequestFromProto(RequestToProto(ParseRequest(r)))
PlanStage(s)   == StageToProto(ParseStage(s))

\* A stage with n virtual users in place of its target.
ShareOf(s, n)  == StageFromProto(StageForWorker(PlanStage(s), n))

\* Requests and stages go their way one by one.
LEMMA OneByOne ==
  ASSUME NEW plan \in YAMLPlans, NEW share
  PROVE  /\ WorkerPlan(plan, share).Requests =
              [i \in DOMAIN plan.Requests |-> SentRequest(plan.Requests[i])]
         /\ WorkerPlan(plan, share).Stages =
              [i \in DOMAIN plan.Stages |-> ShareOf(plan.Stages[i], share[i])]
         /\ ScenarioToProto(FromSpec(plan)).Stages =
              [i \in DOMAIN plan.Stages |-> PlanStage(plan.Stages[i])]
         /\ OrchestratorPlan(plan).Stages =
              [i \in DOMAIN plan.Stages |-> StageFromProto(PlanStage(plan.Stages[i]))]
<1> DEFINE spec == FromSpec(plan)
           sent == ScenarioToProto(spec)
           own  == PlanForWorker(sent, share)
<1>1. /\ spec.Requests = [i \in DOMAIN plan.Requests |-> ParseRequest(plan.Requests[i])]
      /\ spec.Stages = [i \in DOMAIN plan.Stages |-> ParseStage(plan.Stages[i])]
  BY DEF FromSpec
<1>2. /\ sent.Requests = [i \in DOMAIN spec.Requests |-> RequestToProto(spec.Requests[i])]
      /\ sent.Stages = [i \in DOMAIN spec.Stages |-> StageToProto(spec.Stages[i])]
  BY DEF ScenarioToProto
<1>3. /\ own.Requests = sent.Requests
      /\ own.Stages = [i \in DOMAIN sent.Stages |-> StageForWorker(sent.Stages[i], share[i])]
  BY DEF PlanForWorker, ScenarioToProto
<1>4. /\ WorkerPlan(plan, share).Requests = [i \in DOMAIN own.Requests |-> RequestFromProto(own.Requests[i])]
      /\ WorkerPlan(plan, share).Stages = [i \in DOMAIN own.Stages |-> StageFromProto(own.Stages[i])]
      /\ OrchestratorPlan(plan).Stages = [i \in DOMAIN sent.Stages |-> StageFromProto(sent.Stages[i])]
  BY DEF WorkerPlan, OrchestratorPlan, ConvertProtoPlan, ConvertPlan
<1> HIDE DEF spec, sent, own
<1>5. WorkerPlan(plan, share).Requests = [i \in DOMAIN plan.Requests |-> SentRequest(plan.Requests[i])]
  BY <1>1, <1>2, <1>3, <1>4 DEF SentRequest
<1>6. sent.Stages = [i \in DOMAIN plan.Stages |-> PlanStage(plan.Stages[i])]
  BY <1>1, <1>2 DEF PlanStage
<1>7. WorkerPlan(plan, share).Stages = [i \in DOMAIN plan.Stages |-> ShareOf(plan.Stages[i], share[i])]
  BY <1>3, <1>4, <1>6 DEF ShareOf
<1>8. OrchestratorPlan(plan).Stages = [i \in DOMAIN plan.Stages |-> StageFromProto(PlanStage(plan.Stages[i]))]
  BY <1>4, <1>6
<1> QED  BY <1>5, <1>6, <1>7, <1>8 DEF sent, spec

\* The same, for one request.
LEMMA RequestArrives ==
  ASSUME NEW plan \in YAMLPlans, NEW share, NEW i \in DOMAIN plan.Requests
  PROVE  /\ plan.Requests[i] \in YAMLRequests
         /\ WorkerPlan(plan, share).Requests[i] = SentRequest(plan.Requests[i])
<1>1. plan.Requests \in Seq(YAMLRequests)  BY DEF YAMLPlans
<1>2. plan.Requests[i] \in YAMLRequests  BY <1>1
<1>3. WorkerPlan(plan, share).Requests = [j \in DOMAIN plan.Requests |-> SentRequest(plan.Requests[j])]
  BY OneByOne
<1> QED  BY <1>2, <1>3

\* The assertions of a request that arrive are its entries that ask for something.
LEMMA AssertionsArrive ==
  ASSUME NEW r \in YAMLRequests
  PROVE  SentRequest(r).Assertions =
           {Sent(y) : y \in {z \in r.Assertions : ParseAssertion(z) # NoAssertion}}
<1> DEFINE asked == {ParseAssertion(z) : z \in r.Assertions} \ {NoAssertion}
<1>1. ParseRequest(r).Assertions = asked
  BY DEF ParseRequest
<1> HIDE DEF asked
<1>2. RequestToProto(ParseRequest(r)).Assertions = {AssertionToProto(a) : a \in asked}
  BY <1>1 DEF RequestToProto
<1>3. SentRequest(r).Assertions =
        {AssertionFromProto(a) : a \in RequestToProto(ParseRequest(r)).Assertions}
  BY DEF SentRequest, RequestFromProto
<1>4. SentRequest(r).Assertions = {AssertionFromProto(AssertionToProto(a)) : a \in asked}
  BY <1>2, <1>3
<1> QED  BY <1>4 DEF Sent, asked

\* A worker counts as a success exactly the responses that the plan, as written,
\* calls one (ParseRequest, assertionsToProto, convertProtoPlan, checkAssertion).
THEOREM PlanJudgesAsWritten ==
  ASSUME Half \in Nat \ {0}, NEW plan \in YAMLPlans, NEW share, NEW resp \in Responses
  PROVE  JudgesAsWritten(plan, share, resp)
<1> SUFFICES ASSUME NEW i \in DOMAIN plan.Requests, OneFieldEach(plan.Requests[i])
             PROVE  Success(WorkerPlan(plan, share).Requests[i], resp)
                      <=> SuccessAsWritten(plan.Requests[i], resp)
  BY DEF JudgesAsWritten
<1> DEFINE r == plan.Requests[i]
<1>1. r \in YAMLRequests /\ WorkerPlan(plan, share).Requests[i] = SentRequest(r)
  BY RequestArrives
<1>2. ASSUME NEW y \in r.Assertions
      PROVE  /\ ParseAssertion(y) # NoAssertion =>
                  (CheckAssertion(Sent(y), resp) <=> AsWritten(y, resp))
             /\ ParseAssertion(y) = NoAssertion => AsWritten(y, resp)
  <2>1. y \in YAMLAssertions  BY <1>1 DEF YAMLRequests
  <2>2. \A f, g \in Fields(y) : f = g  BY DEF OneFieldEach
  <2> QED  BY <2>1, <2>2, AssertionAsWritten
<1>3. ASSUME \A a \in SentRequest(r).Assertions : CheckAssertion(a, resp), NEW y \in r.Assertions
      PROVE  AsWritten(y, resp)
  <2>1. CASE ParseAssertion(y) = NoAssertion  BY <2>1, <1>2
  <2>2. CASE ParseAssertion(y) # NoAssertion
    <3>1. Sent(y) \in SentRequest(r).Assertions  BY <2>2, <1>1, AssertionsArrive
    <3> QED  BY <3>1, <2>2, <1>2, <1>3
  <2> QED  BY <2>1, <2>2
<1>4. ASSUME \A y \in r.Assertions : AsWritten(y, resp), NEW a \in SentRequest(r).Assertions
      PROVE  CheckAssertion(a, resp)
  <2>1. PICK y \in r.Assertions : ParseAssertion(y) # NoAssertion /\ a = Sent(y)
    BY <1>1, AssertionsArrive
  <2> QED  BY <2>1, <1>2, <1>4
<1>5. Success(SentRequest(r), resp) <=> SuccessAsWritten(r, resp)
  BY <1>3, <1>4 DEF Success, SuccessAsWritten
<1> QED  BY <1>1, <1>5

\* A stage arrives with its duration, the worker's share of its target, and its
\* ramp-up if it has one; its target is shared out and looked at as written.
LEMMA StageArrives ==
  ASSUME NEW s \in YAMLStages, NEW n
  PROVE  /\ PlanStage(s).TargetVus = s.TargetVUs
         /\ StageFromProto(PlanStage(s)).TargetVUs = s.TargetVUs
         /\ ShareOf(s, n).TargetVUs = n
         /\ ShareOf(s, n).Duration = s.Duration
         /\ Wait(ShareOf(s, n).RampUp) = Wait(OrElse(s.RampUp, 0))
<1> DEFINE ramp == OrElse(s.RampUp, 0)
<1>0. ramp \in Int
  BY OptionalCases DEF OrElse, YAMLStages
<1>1. PlanStage(s) = [Duration |-> s.Duration, TargetVus |-> s.TargetVUs,
                      RampUp |-> IF ramp > 0 THEN {ramp} ELSE {}]
  BY DEF PlanStage, StageToProto, ParseStage
<1> HIDE DEF ramp
<1>2. StageForWorker(PlanStage(s), n) =
        [Duration |-> s.Duration, TargetVus |-> n, RampUp |-> IF ramp > 0 THEN {ramp} ELSE {}]
  BY <1>1 DEF StageForWorker
<1>3. ShareOf(s, n) = [Duration |-> s.Duration, TargetVUs |-> n,
                       RampUp |-> OrElse(IF ramp > 0 THEN {ramp} ELSE {}, 0)]
  BY <1>2 DEF ShareOf, StageFromProto
<1>4. OrElse(IF ramp > 0 THEN {ramp} ELSE {}, 0) = Wait(ramp)
  BY TheOne DEF OrElse, Wait
<1>5. Wait(Wait(ramp)) = Wait(ramp)
  BY <1>0 DEF Wait
<1>6. StageFromProto(PlanStage(s)).TargetVUs = s.TargetVUs
  BY <1>1 DEF StageFromProto
<1> QED  BY <1>1, <1>3, <1>4, <1>5, <1>6 DEF ramp

\* Every worker holds all the stages, each as long as written and with its own
\* share of it, and what is shared out is what was written (ScenarioToProto,
\* convertPlan, planForWorker, convertProtoPlan).
THEOREM PlanKeepsStages ==
  ASSUME NEW plan \in YAMLPlans, NEW share
  PROVE  StagesAsWritten(plan, share)
<1> DEFINE sent == ScenarioToProto(FromSpec(plan)).Stages
           held == WorkerPlan(plan, share).Stages
           peak == OrchestratorPlan(plan).Stages
<1>1. /\ held = [i \in DOMAIN plan.Stages |-> ShareOf(plan.Stages[i], share[i])]
      /\ sent = [i \in DOMAIN plan.Stages |-> PlanStage(plan.Stages[i])]
      /\ peak = [i \in DOMAIN plan.Stages |-> StageFromProto(PlanStage(plan.Stages[i]))]
  BY OneByOne
<1>2. plan.Stages \in Seq(YAMLStages)  BY DEF YAMLPlans
<1> HIDE DEF sent, held, peak
<1>3. ASSUME NEW i \in DOMAIN plan.Stages
      PROVE  /\ peak[i].TargetVUs = plan.Stages[i].TargetVUs
             /\ sent[i].TargetVus = plan.Stages[i].TargetVUs
             /\ held[i].TargetVUs = share[i]
             /\ held[i].Duration = plan.Stages[i].Duration
             /\ Wait(held[i].RampUp) = Wait(OrElse(plan.Stages[i].RampUp, 0))
  <2>1. plan.Stages[i] \in YAMLStages  BY <1>2
  <2> QED  BY <1>1, <2>1, StageArrives
<1>4. DOMAIN held = DOMAIN plan.Stages /\ DOMAIN peak = DOMAIN plan.Stages
  BY <1>1
<1> QED  BY <1>3, <1>4 DEF StagesAsWritten, sent, held, peak

\* What Validate lets through can be shared out and takes time.
THEOREM ValidPlanRuns ==
  ASSUME NEW plan \in YAMLPlans, NEW share
  PROVE  EveryStageRuns(plan, share)
<1> DEFINE peak == OrchestratorPlan(plan).Stages
           held == WorkerPlan(plan, share).Stages
<1>1. /\ DOMAIN peak = DOMAIN plan.Stages
      /\ \A i \in DOMAIN plan.Stages :
           held[i].Duration = plan.Stages[i].Duration /\ peak[i].TargetVUs = plan.Stages[i].TargetVUs
  BY PlanKeepsStages DEF StagesAsWritten
<1>2. ASSUME Validate(FromSpec(plan))
      PROVE  /\ DOMAIN plan.Stages # {}
             /\ \A i \in DOMAIN plan.Stages :
                  plan.Stages[i].TargetVUs > 0 /\ plan.Stages[i].Duration > 0
  <2>1. FromSpec(plan).Stages = [i \in DOMAIN plan.Stages |-> ParseStage(plan.Stages[i])]
    BY DEF FromSpec
  <2>2. DOMAIN plan.Stages # {}  BY <2>1, <1>2 DEF Validate
  <2>3. ASSUME NEW i \in DOMAIN plan.Stages
        PROVE  plan.Stages[i].TargetVUs > 0 /\ plan.Stages[i].Duration > 0
    <3>1. ParseStage(plan.Stages[i]).TargetVUs > 0 /\ ParseStage(plan.Stages[i]).Duration > 0
      BY <2>1, <1>2 DEF Validate
    <3> QED  BY <3>1 DEF ParseStage
  <2> QED  BY <2>2, <2>3
<1> HIDE DEF peak, held
<1>3. Validate(FromSpec(plan)) =>
        /\ DOMAIN peak # {}
        /\ \A i \in DOMAIN peak : peak[i].TargetVUs > 0 /\ held[i].Duration > 0
  BY <1>1, <1>2
<1> QED  BY <1>3 DEF EveryStageRuns, peak, held

-----------------------------------------------------------------------------
\* Truncation toward zero loses less than one unit.
LEMMA QuotBounds ==
  ASSUME NEW d \in Int
  PROVE  /\ Quot(d, Millisecond) \in Int
         /\ d >= 0 => /\ Duration(Quot(d, Millisecond)) <= d
                      /\ d < Duration(Quot(d, Millisecond)) + Millisecond
                      /\ Quot(d, Millisecond) >= 0
         /\ d < 0 => Quot(d, Millisecond) <= 0
BY DEF Quot, Duration, Millisecond

\* A virtual user thinks as long as was written, to the millisecond.
THEOREM PlanThinksAsWritten ==
  ASSUME Half \in Nat \ {0}, NEW plan \in YAMLPlans, NEW share
  PROVE  ThinksAsWritten(plan, share)
<1> SUFFICES ASSUME NEW i \in DOMAIN plan.Requests,
                    OrElse(plan.Requests[i].ThinkTime, 0) < Half * Millisecond,
                    -OrElse(plan.Requests[i].ThinkTime, 0) < Half * Millisecond
             PROVE  LET written == OrElse(plan.Requests[i].ThinkTime, 0)
                        thinks  == WorkerPlan(plan, share).Requests[i].ThinkTime
                    IN  /\ Wait(thinks) <= Wait(written)
                        /\ Wait(written) < Wait(thinks) + Millisecond
  BY DEF ThinksAsWritten
<1> DEFINE r       == plan.Requests[i]
           written == OrElse(r.ThinkTime, 0)
           ms      == Quot(written, Millisecond)
<1>1. r \in YAMLRequests /\ WorkerPlan(plan, share).Requests[i] = SentRequest(r)
  BY RequestArrives
<1>2. written \in Int  BY <1>1, OptionalCases DEF OrElse, YAMLRequests
<1>3. SentRequest(r).ThinkTime = Duration(Millis(written))
  <2>1. ParseRequest(r).ThinkTime = written  BY DEF ParseRequest
  <2>2. RequestToProto(ParseRequest(r)).ThinkTimeMs = Millis(written)
    BY <2>1 DEF RequestToProto
  <2> QED  BY <2>2 DEF SentRequest, RequestFromProto
<1>4. ms \in Int32s
  <2>1. written < Half * 1000000 /\ -written < Half * 1000000  BY DEF Millisecond
  <2> HIDE DEF written
  <2>2. CASE written >= 0
    <3>1. ms = written \div 1000000  BY <2>2 DEF Quot, Millisecond
    <3> QED  BY <3>1, <1>2, <2>1, <2>2 DEF Int32s
  <2>3. CASE written < 0
    <3>1. ms = -((-written) \div 1000000)  BY <1>2, <2>3 DEF Quot, Millisecond
    <3> QED  BY <3>1, <1>2, <2>1, <2>3 DEF Int32s
  <2> QED  BY <1>2, <2>2, <2>3
<1>5. SentRequest(r).ThinkTime = Duration(ms)
  BY <1>3, <1>4, Int32Fits DEF Millis
<1>6. Wait(Duration(ms)) <= Wait(written) /\ Wait(written) < Wait(Duration(ms)) + Millisecond
  <2> HIDE DEF written
  <2>1. /\ ms \in Int
        /\ written >= 0 => /\ ms >= 0 /\ Duration(ms) <= written
                           /\ written < Duration(ms) + Millisecond
        /\ written < 0 => ms <= 0
    BY <1>2, QuotBounds
  <2> HIDE DEF ms
  <2>2. CASE written >= 0  BY <1>2, <2>1, <2>2 DEF Wait, Duration, Millisecond
  <2>3. CASE written < 0   BY <1>2, <2>1, <2>3 DEF Wait, Duration, Millisecond
  <2> QED  BY <1>2, <2>2, <2>3
<1>7. Wait(WorkerPlan(plan, share).Requests[i].ThinkTime) = Wait(Duration(ms))
  BY <1>1, <1>5
<1> QED  BY <1>6, <1>7
=============================================================================
