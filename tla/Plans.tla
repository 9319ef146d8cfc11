--------------------------------- MODULE Plans ---------------------------------
(***************************************************************************)
(* The way of a plan: read from YAML or JSON (internal/runtime), sent to   *)
(* the orchestrator, on to each worker, and read again there               *)
(* (cmd/worker/main.go), where every response is held against it           *)
(* (internal/worker/virtual_user.go).                                      *)
(*                                                                         *)
(* Durations are nanoseconds.  An optional field is the set of its values. *)
(* What is copied as it is (method, path, headers, body, names) is one     *)
(* value, what.  The order of a request's assertions, which shows only in  *)
(* the wording of a failure, the timeout of the plan, which the engine's   *)
(* HTTP client does not look at, and plans that do not parse are left out. *)
(* How targets are shared out is in Allocation.                            *)
(***************************************************************************)
EXTENDS Integers, Sequences

CONSTANTS
  Half,   \* 2^31: an int32 is a number from -Half to Half - 1
  What,   \* contents of a request that are copied
  Texts   \* strings looked for in the body of a response

Int32s   == -Half .. Half - 1
Int32(x) == ((x + Half) % (2 * Half)) - Half

Millisecond   == 1000000
Quot(x, y)    == IF x >= 0 THEN x \div y ELSE -((-x) \div y)
Millis(d)     == Int32(Quot(d, Millisecond))
Duration(ms)  == ms * Millisecond

Optional(S) == {{}} \cup {{x} : x \in S}

YAMLAssertions ==
  [StatusCode : Optional(Int32s), ResponseTimeP99 : Optional(Int32s),
   ResponseTimeP95 : Optional(Int32s), ResponseTimeP50 : Optional(Int32s),
   BodyContains : Optional(Texts)]
YAMLRequests == [what : What, ThinkTime : Optional(Int), Assertions : SUBSET YAMLAssertions]
YAMLStages   == [Duration : Int, TargetVUs : Int32s, RampUp : Optional(Int)]
YAMLPlans    == [Stages : Seq(YAMLStages), Requests : Seq(YAMLRequests), complete : BOOLEAN]

\* The plan as the orchestrator and the worker hold it (pkg/models).
Assertions ==
  [Type : {"status_code"}, kind : {"int", "int32"}, Value : Int]
    \cup [Type : {"response_time"}, Value : {"P99", "P95", "P50"}, Threshold : Int]
    \cup [Type : {"body_contains"}, Value : Texts]
Requests  == [what : What, ThinkTime : Int, Assertions : SUBSET Assertions]
Stages    == [Duration : Int, TargetVUs : Int32s, RampUp : Int]
TestPlans == [Stages : Seq(Stages), Requests : Seq(Requests)]

Responses == [status : Int, duration : Int, body : SUBSET Texts]

The(S)          == CHOOSE x \in S : TRUE
OrElse(S, else) == IF S = {} THEN else ELSE The(S)

-----------------------------------------------------------------------------
(***************************************************************************)
(* FromSpec and Validate.                                                  *)
(***************************************************************************)
NoAssertion == [Type |-> "none"]

StatusCode(kind, code)   == [Type |-> "status_code", kind |-> kind, Value |-> code]
ResponseTime(p, max)     == [Type |-> "response_time", Value |-> p, Threshold |-> max]
BodyContains(text)       == [Type |-> "body_contains", Value |-> text]

\* The first field that is set counts.
ParseAssertion(y) ==
  IF y.StatusCode # {}           THEN StatusCode("int32", The(y.StatusCode))
  ELSE IF y.ResponseTimeP99 # {} THEN ResponseTime("P99", Duration(The(y.ResponseTimeP99)))
  ELSE IF y.ResponseTimeP95 # {} THEN ResponseTime("P95", Duration(The(y.ResponseTimeP95)))
  ELSE IF y.ResponseTimeP50 # {} THEN ResponseTime("P50", Duration(The(y.ResponseTimeP50)))
  ELSE IF y.BodyContains # {}    THEN BodyContains(The(y.BodyContains))
  ELSE NoAssertion

ParseRequest(y) ==
  [what       |-> y.what,
   ThinkTime  |-> OrElse(y.ThinkTime, 0),
   Assertions |-> {ParseAssertion(a) : a \in y.Assertions} \ {NoAssertion}]

ParseStage(y) ==
  [Duration |-> y.Duration, TargetVUs |-> y.TargetVUs, RampUp |-> OrElse(y.RampUp, 0)]

FromSpec(plan) ==
  [Stages   |-> [i \in DOMAIN plan.Stages |-> ParseStage(plan.Stages[i])],
   Requests |-> [i \in DOMAIN plan.Requests |-> ParseRequest(plan.Requests[i])],
   complete |-> plan.complete]

\* complete: the base URL, and the method and path of every request, are there.
Validate(plan) ==
  /\ DOMAIN plan.Stages # {} /\ DOMAIN plan.Requests # {} /\ plan.complete
  /\ \A i \in DOMAIN plan.Stages :
       plan.Stages[i].TargetVUs > 0 /\ plan.Stages[i].Duration > 0

-----------------------------------------------------------------------------
(***************************************************************************)
(* ScenarioToProto, and convertProtoPlan on the worker.                    *)
(***************************************************************************)
AssertionToProto(a) ==
  CASE a.Type = "status_code"   -> [Type |-> "status_code",
                                    Expected |-> IF a.kind \in {"int", "int32"} THEN a.Value ELSE 0]
    [] a.Type = "response_time" -> [Type |-> "response_time", Percentile |-> a.Value,
                                    MaxMs |-> Millis(a.Threshold)]
    [] a.Type = "body_contains" -> [Type |-> "body_contains", Substring |-> a.Value]

\* A duration is written and parsed again exactly; a ramp-up only if there is one.
StageToProto(s) ==
  [Duration |-> s.Duration, TargetVus |-> s.TargetVUs,
   RampUp   |-> IF s.RampUp > 0 THEN {s.RampUp} ELSE {}]

RequestToProto(r) ==
  [what        |-> r.what,
   ThinkTimeMs |-> Millis(r.ThinkTime),
   Assertions  |-> {AssertionToProto(a) : a \in r.Assertions}]

ScenarioToProto(s) ==
  [Stages   |-> [i \in DOMAIN s.Stages |-> StageToProto(s.Stages[i])],
   Requests |-> [i \in DOMAIN s.Requests |-> RequestToProto(s.Requests[i])]]

AssertionFromProto(a) ==
  CASE a.Type = "status_code"   -> StatusCode("int", a.Expected)
    [] a.Type = "response_time" -> ResponseTime(a.Percentile, Duration(a.MaxMs))
    [] a.Type = "body_contains" -> BodyContains(a.Substring)

StageFromProto(s) ==
  [Duration |-> s.Duration, TargetVUs |-> s.TargetVus, RampUp |-> OrElse(s.RampUp, 0)]

RequestFromProto(r) ==
  [what       |-> r.what,
   ThinkTime  |-> Duration(r.ThinkTimeMs),
   Assertions |-> {AssertionFromProto(a) : a \in r.Assertions}]

ConvertProtoPlan(p) ==
  [Stages   |-> [i \in DOMAIN p.Stages |-> StageFromProto(p.Stages[i])],
   Requests |-> [i \in DOMAIN p.Requests |-> RequestFromProto(p.Requests[i])]]

\* planForWorker: the worker's share of every stage in place of the stage's target.
StageForWorker(s, n) == [s EXCEPT !.TargetVus = n]

PlanForWorker(p, share) ==
  [p EXCEPT !.Stages = [i \in DOMAIN p.Stages |-> StageForWorker(p.Stages[i], share[i])]]

\* What a worker has in hand, with its share of every stage.
WorkerPlan(plan, share) ==
  ConvertProtoPlan(PlanForWorker(ScenarioToProto(FromSpec(plan)), share))

\* convertPlan, the orchestrator's reading, forgets to think.
RequestForPeak(r) ==
  [what |-> r.what, ThinkTime |-> 0, Assertions |-> {AssertionFromProto(a) : a \in r.Assertions}]

ConvertPlan(p) ==
  [Stages   |-> [i \in DOMAIN p.Stages |-> StageFromProto(p.Stages[i])],
   Requests |-> [i \in DOMAIN p.Requests |-> RequestForPeak(p.Requests[i])]]

\* What the orchestrator takes the peak of.
OrchestratorPlan(plan) == ConvertPlan(ScenarioToProto(FromSpec(plan)))

-----------------------------------------------------------------------------
(***************************************************************************)
(* What the worker does with it.                                           *)
(***************************************************************************)
CheckAssertion(a, resp) ==
  CASE a.Type = "status_code"   -> a.kind \in {"int", "int32"} /\ resp.status = a.Value
    [] a.Type = "response_time" -> resp.duration <= a.Threshold
    [] a.Type = "body_contains" -> a.Value \in resp.body
    [] OTHER                    -> TRUE

\* executeRequest counts a response as a success; whatever the assertions say,
\* only a 2xx is one.
Success(request, resp) ==
  /\ 200 <= resp.status /\ resp.status < 300
  /\ \A a \in request.Assertions : CheckAssertion(a, resp)

\* Run waits before the first request, and after each, if there is time to wait.
Wait(d) == IF d > 0 THEN d ELSE 0

-----------------------------------------------------------------------------
(***************************************************************************)
(* What the plan says.                                                     *)
(***************************************************************************)
Fields(y) ==
  {f \in {"StatusCode", "ResponseTimeP99", "ResponseTimeP95", "ResponseTimeP50",
          "BodyContains"} : y[f] # {}}

\* One check per entry of the list, as in all the examples.
OneFieldEach(request) ==
  \A y \in request.Assertions : \A f, g \in Fields(y) : f = g

AsWritten(y, resp) ==
  /\ \A code \in y.StatusCode : resp.status = code
  /\ \A ms \in y.ResponseTimeP99 \cup y.ResponseTimeP95 \cup y.ResponseTimeP50 :
       resp.duration <= Duration(ms)
  /\ \A text \in y.BodyContains : text \in resp.body

SuccessAsWritten(request, resp) ==
  /\ 200 <= resp.status /\ resp.status < 300
  /\ \A y \in request.Assertions : AsWritten(y, resp)

\* A worker judges every response as the plan was written, although the code of
\* an assertion is an int32 here and an int there, and its time is truncated to
\* milliseconds on the way (proto.go:68, virtual_user.go:173).
JudgesAsWritten(plan, share, resp) ==
  \A i \in DOMAIN plan.Requests :
    OneFieldEach(plan.Requests[i]) =>
      (Success(WorkerPlan(plan, share).Requests[i], resp)
         <=> SuccessAsWritten(plan.Requests[i], resp))

\* The targets whose peak is taken and those that are shared out stage by stage
\* are the written ones (server.go:64, server.go:99).  Of every stage a worker
\* holds its share, and runs and ramps it up as long as written.
StagesAsWritten(plan, share) ==
  LET sent == ScenarioToProto(FromSpec(plan)).Stages
      held == WorkerPlan(plan, share).Stages
  IN  /\ DOMAIN held = DOMAIN plan.Stages
      /\ DOMAIN OrchestratorPlan(plan).Stages = DOMAIN plan.Stages
      /\ \A i \in DOMAIN plan.Stages :
           /\ OrchestratorPlan(plan).Stages[i].TargetVUs = plan.Stages[i].TargetVUs
           /\ sent[i].TargetVus = plan.Stages[i].TargetVUs
           /\ held[i].TargetVUs = share[i]
           /\ held[i].Duration = plan.Stages[i].Duration
           /\ Wait(held[i].RampUp) = Wait(OrElse(plan.Stages[i].RampUp, 0))

\* Every stage of a plan that is let through takes time, and virtual users to be
\* shared out: Allocation and Fleet, like the code, count on it.
EveryStageRuns(plan, share) ==
  Validate(FromSpec(plan)) =>
    /\ DOMAIN OrchestratorPlan(plan).Stages # {}
    /\ \A i \in DOMAIN OrchestratorPlan(plan).Stages :
         /\ OrchestratorPlan(plan).Stages[i].TargetVUs > 0
         /\ WorkerPlan(plan, share).Stages[i].Duration > 0

\* It thinks less than a millisecond shorter than written, and never longer,
\* unless somebody thinks for more milliseconds than an int32 can count.
ThinksAsWritten(plan, share) ==
  \A i \in DOMAIN plan.Requests :
    LET written == OrElse(plan.Requests[i].ThinkTime, 0)
        thinks  == WorkerPlan(plan, share).Requests[i].ThinkTime
    IN  written < Half * Millisecond /\ -written < Half * Millisecond =>
          /\ Wait(thinks) <= Wait(written)
          /\ Wait(written) < Wait(thinks) + Millisecond
=============================================================================
