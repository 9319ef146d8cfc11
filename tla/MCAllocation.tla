----------------------------- MODULE MCAllocation -----------------------------
(***************************************************************************)
(* Instances of Allocation, and the statements of Plans evaluated on a few *)
(* thousand plans, with int32s of ten bits.                                *)
(***************************************************************************)
EXTENDS Allocation

P == INSTANCE Plans WITH Half <- 512, What <- {"what"}, Texts <- {"ok"}

Thresholds == P!Optional({-2, 0, 3})

SomeAssertions ==
  [StatusCode : P!Optional({200, 404}), ResponseTimeP99 : Thresholds,
   ResponseTimeP95 : P!Optional({1}), ResponseTimeP50 : P!Optional({2}),
   BodyContains : P!Optional({"ok"})]

SomeResponses ==
  [status : {200, 204, 404}, body : {{}, {"ok"}},
   duration : {-2000000, 0, 999999, 1000000, 1000001, 3000000, 3000001}]

SomeStages ==
  [Duration : {-1, 0, 1, 1500000}, TargetVUs : -1 .. 2,
   RampUp : P!Optional({-1, 0, 999999, 2500000})]

SomeThinkTimes == P!Optional({-1500000, -1, 0, 1, 999999, 1000000, 511999999, 600000000})

Stage          == [Duration |-> 1, TargetVUs |-> 1, RampUp |-> {}]
Request(t, as) == [what |-> "what", ThinkTime |-> t, Assertions |-> as]
Plan(s, r)     == [Stages |-> <<s, Stage>>, Requests |-> <<r>>, complete |-> TRUE]

\* A worker's share of the two stages.
Shares == {<<0, 0>>, <<1, 0>>, <<2, 1>>}

ASSUME StagesChecked ==
  \A s \in SomeStages, share \in Shares :
    LET plan == Plan(s, Request({}, {}))
    IN  P!StagesAsWritten(plan, share) /\ P!EveryStageRuns(plan, share)

ASSUME ThinkTimesChecked ==
  \A t \in SomeThinkTimes : P!ThinksAsWritten(Plan(Stage, Request(t, {})), <<1, 1>>)

\* Both readings of a plan are plans, and a worker's share of a stage is a target.
ASSUME PlansRead ==
  \A y \in SomeAssertions, t \in SomeThinkTimes :
    LET plan == Plan(Stage, Request(t, {y}))
    IN  {P!OrchestratorPlan(plan), P!WorkerPlan(plan, <<1, 0>>)} \subseteq P!TestPlans

ASSUME AssertionsChecked ==
  \A y \in SomeAssertions, resp \in SomeResponses :
    LET other == CHOOSE z \in SomeAssertions : P!Fields(z) = {"ResponseTimeP50"}
    IN  P!JudgesAsWritten(Plan(Stage, Request({}, {y, other})), <<1, 1>>, resp)
=============================================================================
