----------------------- MODULE CollectionTurn_proofs -----------------------
(***************************************************************************)
(* Theorems about CollectionTurn, for every set of values, every limit,    *)
(* every history cap and any number of turns.                              *)
(***************************************************************************)
EXTENDS CollectionTurn, SequenceTheorems, TLAPS

-----------------------------------------------------------------------------
(* Lemmas about the operators of the model *)

(* The history keeps its newest entries, the last one among them. *)
LEMMA NewestProperties ==
    ASSUME NEW S, NEW s \in Seq(S), s # <<>>
    PROVE  /\ Newest(s) \in Seq(S) /\ Newest(s) # <<>>
           /\ Len(Newest(s)) <= HistoryCap
           /\ Newest(s)[Len(Newest(s))] = s[Len(s)]
           /\ \A i \in DOMAIN Newest(s) :
                \E j \in DOMAIN s : Newest(s)[i] = s[j]
<1>1. Len(s) \in Nat \ {0} /\ DOMAIN s = 1..Len(s) /\ \A i \in 1..Len(s) : s[i] \in S
  BY EmptySeq, LenProperties, ElementOfSeq
<1>2. CASE Len(s) <= HistoryCap
  BY <1>1, <1>2 DEF Newest
<1>3. CASE Len(s) > HistoryCap
  <2> DEFINE m == Len(s) - HistoryCap + 1
             t == SubSeq(s, m, Len(s))
  <2>1. m \in Int /\ m >= 1 /\ m <= Len(s) /\ Len(s) - m + 1 = HistoryCap
    BY <1>1, <1>3, LimitsAssumption
  <2>2. /\ t \in Seq(S) /\ Len(t) = HistoryCap
        /\ \A i \in 1..HistoryCap : t[i] = s[m + i - 1]
    <3> HIDE DEF m
    <3>1. \A i \in m..Len(s) : s[i] \in S
      BY <1>1, <2>1
    <3> QED BY <1>1, <2>1, <3>1, SubSeqProperties
  <2>3. Newest(s) = t
    BY <1>1, <1>3, LimitsAssumption DEF Newest
  <2>4. DOMAIN t = 1..HistoryCap
    BY <2>2, LenProperties
  <2>5. t[HistoryCap] = s[Len(s)]
    BY <1>1, <2>1, <2>2, LimitsAssumption
  <2>6. \A i \in 1..HistoryCap : m + i - 1 \in 1..Len(s)
    BY <1>1, <2>1, LimitsAssumption
  <2> HIDE DEF t, m
  <2> QED BY <1>1, <2>2, <2>3, <2>4, <2>5, <2>6, EmptySeq, LimitsAssumption
<1> QED BY <1>1, <1>2, <1>3, LimitsAssumption

(* What is remembered last is the new entry; the rest was there before. *)
LEMMA RememberProperties ==
    ASSUME obs \in Seq(Observations), Len(obs) <= HistoryCap,
           NEW e \in Observations
    PROVE  /\ Remember(e) \in Seq(Observations) /\ Remember(e) # <<>>
           /\ Len(Remember(e)) <= HistoryCap
           /\ Remember(e)[Len(Remember(e))] = e
           /\ \A i \in DOMAIN Remember(e) :
                Remember(e)[i] = e
                \/ \E j \in DOMAIN obs : Remember(e)[i] = obs[j]
<1>1. CASE obs # <<>> /\ obs[Len(obs)] = e
  BY <1>1 DEF Remember
<1>2. CASE ~(obs # <<>> /\ obs[Len(obs)] = e)
  <2> DEFINE s == Append(obs, e)
  <2>1. /\ s \in Seq(Observations) /\ s # <<>> /\ Len(s) = Len(obs) + 1
        /\ \A i \in 1..Len(obs) : s[i] = obs[i]
        /\ s[Len(obs) + 1] = e
    BY AppendProperties
  <2>2. Len(obs) \in Nat /\ DOMAIN obs = 1..Len(obs) /\ DOMAIN s = 1..Len(obs)+1
    BY <2>1, LenProperties
  <2>3. Remember(e) = Newest(s)
    BY <1>2 DEF Remember
  <2> HIDE DEF s
  <2>4. \A j \in DOMAIN s : s[j] = e \/ \E k \in DOMAIN obs : s[j] = obs[k]
    BY <2>1, <2>2
  <2> QED BY <2>1, <2>2, <2>3, <2>4, NewestProperties
<1> QED BY <1>1, <1>2

(* The calls queued from the message's values are well-formed calls.        *)
LEMMA QueuedCallsType ==
    ASSUME turnEnt \in [Fields -> Values \cup {NoValue}]
    PROVE  QueuedCalls \in Seq(Calls)
<1>1. \A f \in Fields : QueuedCall(f) \in Seq(Calls)
  <2> SUFFICES ASSUME NEW f \in Fields PROVE QueuedCall(f) \in Seq(Calls)
    OBVIOUS
  <2>1. [tool |-> f, value |-> turnEnt[f]] \in Calls
    BY DEF Calls, Tools
  <2> QED BY <2>1 DEF QueuedCall
<1>2. "dob" \in Fields /\ "phone" \in Fields
  BY DEF Fields
<1> QED BY <1>1, <1>2, ConcatProperties DEF QueuedCalls

-----------------------------------------------------------------------------
(* Type correctness *)

(* Initially every variable has its type.                                   *)
LEMMA TypeInit == Init => TypeOK
BY LimitsAssumption DEF Init, TypeOK, Outcomes

(* A node that only moves on keeps the types. *)
LEMMA TypeMove ==
    ASSUME TypeOK, NEW node \in Nodes, Goto(node),
           UNCHANGED <<graphVars, memoryVars, turnVars>>
    PROVE  TypeOK'
BY DEF TypeOK, Goto, graphVars, memoryVars, turnVars

(* A decision of a react node keeps the types of what it assigns.           *)
LEMMA TypeDecide ==
    ASSUME TypeOK, NEW node \in ReactNodes, NEW call \in Calls \cup {NoCall},
           NEW next \in Nodes, Decide(node, call, next)
    PROVE  /\ pc' \in Nodes /\ outcome' \in Outcomes
           /\ steps' \in Nat /\ visited' \in Nat
           /\ decision' \in [call : Calls \cup {NoCall},
                             by : ReactNodes \cup {"none"}]
<1>1. "tool_execution" \in Nodes
  BY DEF Nodes
<1> QED BY <1>1 DEF TypeOK, Decide, Goto

(* Whatever an LLM asks for is a call or none.                              *)
LEMMA LLMCallsType == LLMCalls \subseteq Calls \cup {NoCall}
BY DEF LLMCalls, Calls, Tools

(* A decision of verification_react keeps the types, whatever is queued.    *)
LEMMA TypeVerificationStep ==
    ASSUME TypeOK, pending' \in Seq(Calls),
           NEW call \in Calls \cup {NoCall}, VerificationStep(call)
    PROVE  TypeOK'
<1>1. Filtered(call) \in Calls \cup {NoCall}
  BY DEF Filtered
<1>2. "verification_react" \in ReactNodes /\ "post_verification_intent" \in Nodes
  BY DEF ReactNodes, Nodes
<1>3. Decide("verification_react", Filtered(call), "post_verification_intent")
  BY DEF VerificationStep
<1>4. /\ pc' \in Nodes /\ outcome' \in Outcomes
      /\ steps' \in Nat /\ visited' \in Nat
      /\ decision' \in [call : Calls \cup {NoCall}, by : ReactNodes \cup {"none"}]
  BY <1>1, <1>2, <1>3, TypeDecide
<1>5. verified' \in SUBSET Fields
  BY RequiredAssumption DEF VerificationStep, AppliedFields, TypeOK
<1> QED BY <1>4, <1>5 DEF VerificationStep, turnVars, TypeOK

(* What a verification tool returns is an observation, and it leaves no     *)
(* more failed attempts than lock the field.                                *)
LEMMA VerdictType ==
    ASSUME TypeOK, NEW f \in Fields, NEW v \in Values \cup {NoValue}
    PROVE  /\ AttemptsAfter(f, v) \in [Fields -> 0..MaxFailed]
           /\ [tool |-> f, value |-> v, status |-> Verdict(f, v),
               output |-> AttemptsAfter(f, v)[f]] \in Observations
<1>1. Verdict(f, v) \in {"verified", "failed", "locked"}
  BY DEF Verdict
<1>2. AttemptsAfter(f, v) \in [Fields -> 0..MaxFailed]
  <2>1. CASE Verdict(f, v) = "failed"
    <3>1. attempts[f] < MaxFailed /\ attempts[f] \in 0..MaxFailed
      BY <2>1, LimitsAssumption DEF Verdict, TypeOK
    <3>2. attempts[f] + 1 \in 0..MaxFailed
      BY <3>1, LimitsAssumption
    <3> QED BY <2>1, <3>2 DEF AttemptsAfter, TypeOK
  <2>2. CASE Verdict(f, v) # "failed"
    BY <2>2 DEF AttemptsAfter, TypeOK
  <2> QED BY <2>1, <2>2
<1>3. AttemptsAfter(f, v)[f] \in Nat
  BY <1>2, LimitsAssumption
<1> QED BY <1>1, <1>2, <1>3 DEF Observations, Tools

(* Every step keeps the types.                                              *)
LEMMA TypeStep == TypeOK /\ [Next]_vars => TypeOK'
<1> SUFFICES ASSUME TypeOK, [Next]_vars PROVE TypeOK'
  OBVIOUS
<1>1. CASE StartTurn
  BY <1>1, LimitsAssumption
     DEF StartTurn, TypeOK, memoryVars, Nodes, Outcomes
<1>2. CASE RelevanceIntent
  BY <1>2, TypeMove DEF RelevanceIntent, Nodes
<1>3. CASE EntityExtract
  BY <1>3 DEF EntityExtract, Goto, TypeOK, memoryVars, turnVars, Nodes
<1>4. CASE NegotiationClassification
  BY <1>4, TypeMove DEF NegotiationClassification, Nodes
<1>5. CASE PrePlanIntent
  BY <1>5, TypeMove DEF PrePlanIntent, Nodes
<1>6. CASE ExecutionPathIntent
  BY <1>6, TypeMove DEF ExecutionPathIntent, Nodes, ReactNodes
<1>7. CASE MemoryRetrieve
  BY <1>7, TypeMove DEF MemoryRetrieve, Nodes
<1>8. CASE PostMemoryPlanIntent
  BY <1>8, TypeMove DEF PostMemoryPlanIntent, Nodes, ReactNodes
<1>9. CASE VerificationTakesQueued
  <2>1. Head(pending) \in Calls /\ Tail(pending) \in Seq(Calls)
    BY <1>9, HeadTailProperties DEF VerificationTakesQueued, TypeOK
  <2> QED BY <1>9, <2>1, TypeVerificationStep DEF VerificationTakesQueued
<1>10. CASE VerificationQueuesEvidence
  <2>1. QueuedCalls \in Seq(Calls) /\ QueuedCalls # <<>>
    BY <1>10, QueuedCallsType DEF VerificationQueuesEvidence, TypeOK
  <2>2. Head(QueuedCalls) \in Calls /\ Tail(QueuedCalls) \in Seq(Calls)
    BY <2>1, HeadTailProperties
  <2> QED BY <1>10, <2>2, TypeVerificationStep DEF VerificationQueuesEvidence
<1>11. CASE VerificationAsksLLM
  <2>1. PICK call \in LLMCalls : VerificationStep(call)
    BY <1>11 DEF VerificationAsksLLM
  <2>2. pending' \in Seq(Calls)
    BY <1>11, EmptySeq DEF VerificationAsksLLM
  <2> QED BY <2>1, <2>2, LLMCallsType, TypeVerificationStep
<1>12. CASE PostVerificationIntent
  BY <1>12, TypeMove DEF PostVerificationIntent, Nodes, ReactNodes
<1>13. CASE React
  <2>1. PICK call \in IF pending = <<>> THEN LLMCalls ELSE {Head(pending)} :
             Decide("react", call, "plan_proposal_state")
    BY <1>13 DEF React
  <2>2. pending \in Seq(Calls)
    BY DEF TypeOK
  <2>3. pending' \in Seq(Calls)
    BY <1>13, <2>2, HeadTailProperties, EmptySeq DEF React
  <2>4. call \in Calls \cup {NoCall}
    BY <2>1, <2>2, HeadTailProperties, LLMCallsType
  <2>5. "react" \in ReactNodes /\ "plan_proposal_state" \in Nodes
    BY DEF ReactNodes, Nodes
  <2>6. /\ pc' \in Nodes /\ outcome' \in Outcomes
        /\ steps' \in Nat /\ visited' \in Nat
        /\ decision' \in [call : Calls \cup {NoCall}, by : ReactNodes \cup {"none"}]
    BY <2>1, <2>4, <2>5, TypeDecide
  <2> QED BY <1>13, <2>3, <2>6 DEF React, memoryVars, turnVars, TypeOK
<1>14. CASE RunVerifyTool
  <2> DEFINE call == decision.call
  <2>1. call \in Calls /\ call.tool \in Fields /\ call.value \in Values \cup {NoValue}
    BY <1>14 DEF RunVerifyTool, TypeOK, Calls, NoCall, Fields
  <2> DEFINE entry == [tool |-> call.tool, value |-> call.value,
                       status |-> Verdict(call.tool, call.value),
                       output |-> AttemptsAfter(call.tool, call.value)[call.tool]]
  <2>2. entry \in Observations /\ attempts' \in [Fields -> 0..MaxFailed]
    BY <1>14, <2>1, VerdictType DEF RunVerifyTool
  <2>3. obs' = Remember(entry)
    BY <1>14 DEF RunVerifyTool
  <2> HIDE DEF entry
  <2>4. obs' \in Seq(Observations) /\ Len(obs') <= HistoryCap
    BY <2>2, <2>3, RememberProperties DEF TypeOK
  <2>5. passed' \in SUBSET Fields /\ answered' \in SUBSET Calls
        /\ tried' \in SUBSET Calls /\ toolRuns' \in Nat
    BY <1>14, <2>1 DEF RunVerifyTool, TypeOK
  <2>6. pc' \in Nodes /\ visited' \in Nat /\ outcome' \in Outcomes
    BY <1>14 DEF RunVerifyTool, Goto, TypeOK, Nodes, ReactNodes
  <2> QED BY <1>14, <2>2, <2>4, <2>5, <2>6 DEF RunVerifyTool, graphVars, TypeOK
<1>15. CASE RunOtherTool
  <2>1. PICK out \in OtherOutputs :
           obs' = Remember([tool |-> OtherTool, value |-> NoValue,
                            status |-> "done", output |-> out])
    BY <1>15 DEF RunOtherTool
  <2> DEFINE entry == [tool |-> OtherTool, value |-> NoValue,
                       status |-> "done", output |-> out]
  <2>2. entry \in Observations
    BY OtherAssumption DEF Observations, Tools
  <2>3. obs' = Remember(entry)
    BY <2>1
  <2> HIDE DEF entry
  <2>4. obs' \in Seq(Observations) /\ Len(obs') <= HistoryCap
    BY <2>2, <2>3, RememberProperties DEF TypeOK
  <2>5. pc' \in Nodes /\ visited' \in Nat /\ outcome' \in Outcomes
        /\ toolRuns' \in Nat
    BY <1>15 DEF RunOtherTool, Goto, TypeOK, Nodes, ReactNodes
  <2> QED BY <1>15, <2>4, <2>5 DEF RunOtherTool, graphVars, TypeOK
<1>16. CASE PlanProposalState
  BY <1>16, TypeMove DEF PlanProposalState, Nodes
<1>17. CASE PlanProposalGraph
  BY <1>17, TypeMove DEF PlanProposalGraph, Nodes
<1>18. CASE PlanProposalDirective
  BY <1>18, TypeMove DEF PlanProposalDirective, Nodes
<1>19. CASE ReflectComplete
  BY <1>19, LimitsAssumption
     DEF ReflectComplete, Goto, TypeOK, memoryVars, turnVars, Nodes
<1>20. CASE ReflectRetry
  BY <1>20, LimitsAssumption
     DEF ReflectRetry, Goto, TypeOK, memoryVars, turnVars, Nodes
<1>21. CASE Respond
  BY <1>21 DEF Respond, EndTurn, TypeOK, graphVars, memoryVars, turnVars, Outcomes
<1>22. CASE NodeFails
  BY <1>22 DEF NodeFails, EndTurn, TypeOK, graphVars, memoryVars, turnVars, Outcomes
<1>23. CASE ToolFails
  <2>1. attempts' \in [Fields -> 0..MaxFailed]
    <3>1. CASE UNCHANGED attempts
      BY <3>1 DEF TypeOK
    <3>2. CASE ~UNCHANGED attempts
      <4>1. decision.call.tool \in Fields
            /\ attempts' = AttemptsAfter(decision.call.tool, decision.call.value)
        BY <1>23, <3>2 DEF ToolFails
      <4>2. decision.call.value \in Values \cup {NoValue}
        BY <4>1 DEF TypeOK, Calls, NoCall
      <4> QED BY <4>1, <4>2, VerdictType
    <3> QED BY <3>1, <3>2
  <2> QED BY <1>23, <2>1
          DEF ToolFails, EndTurn, TypeOK, graphVars, turnVars, Outcomes
<1>24. CASE NodeLimitReached
  BY <1>24 DEF NodeLimitReached, EndTurn, TypeOK, graphVars, memoryVars, turnVars,
               Outcomes
<1>25. CASE UNCHANGED vars
  BY <1>25 DEF vars, TypeOK, graphVars, memoryVars, turnVars
<1> QED
  BY <1>1, <1>2, <1>3, <1>4, <1>5, <1>6, <1>7, <1>8, <1>9, <1>10, <1>11, <1>12,
     <1>13, <1>14, <1>15, <1>16, <1>17, <1>18, <1>19, <1>20, <1>21, <1>22, <1>23,
     <1>24, <1>25 DEF Next, GraphStep

(* In every run every variable keeps its type: the history its cap, and no  *)
(* field more failed attempts than lock it.                                 *)
THEOREM TypeCorrect == Spec => []TypeOK
<1>1. Init => TypeOK
  BY TypeInit
<1>2. TypeOK /\ [Next]_vars => TypeOK'
  BY TypeStep
<1> QED BY <1>1, <1>2, PTL DEF Spec

-----------------------------------------------------------------------------
(* Counting: tools and nodes of one turn *)

(* Steps are spent before tools run, and a tool only runs while steps are   *)
(* within the limit.                                                        *)
ToolInv ==
    /\ toolRuns <= steps /\ toolRuns <= MaxSteps
    /\ pc = "tool_execution" => toolRuns < steps /\ steps <= MaxSteps

(* How far the turn has come at each node.  Every decision of a react node  *)
(* buys two more nodes and the limit leaves at most one decision to each of *)
(* the two; every reflect retry buys four more nodes.                       *)
LengthInv ==
    /\ pc = "relevance_intent" => visited = 0 /\ steps = 0
    /\ pc = "entity_extract" => visited <= 1 /\ steps = 0
    /\ pc = "irrelevant_response" => visited <= 1
    /\ pc = "negotiation_classification" => visited <= 2 /\ steps = 0
    /\ pc = "pre_plan_intent" => visited <= 3 /\ steps = 0
    /\ pc = "execution_path_intent" => visited <= 4 /\ steps = 0
    /\ pc = "memory_retrieve" => visited <= 5 /\ steps = 0
    /\ pc = "post_memory_plan_intent" => visited <= 6 /\ steps = 0
    /\ pc = "verification_react" => visited <= 7 + 2 * steps /\ steps <= MaxSteps
    /\ pc = "react" => visited <= 7 + 2 * steps /\ steps <= MaxSteps + 1
    /\ pc = "tool_execution" => visited <= 6 + 2 * steps /\ steps <= MaxSteps
    /\ pc = "post_verification_intent" =>
          visited <= 6 + 2 * steps /\ steps <= MaxSteps + 1
    /\ pc = "plan_proposal_state" => visited <= 2 * MaxSteps + 10 + 4 * planRetries
    /\ pc = "plan_proposal_graph" => visited <= 2 * MaxSteps + 11 + 4 * planRetries
    /\ pc = "plan_proposal_directive" =>
          visited <= 2 * MaxSteps + 12 + 4 * planRetries
    /\ pc = "reflect" => visited <= 2 * MaxSteps + 13 + 4 * planRetries
    /\ pc = "relevant_response" => visited <= 2 * MaxSteps + 10 + 4 * MaxRetry
    /\ visited <= 2 * MaxSteps + 4 * MaxRetry + 11

CountInv == ToolInv /\ LengthInv

(* The counting invariant holds before the first turn.                      *)
LEMMA CountInit == Init => CountInv
BY LimitsAssumption DEF Init, CountInv, ToolInv, LengthInv

(* A decision goes on to a tool within the limit, or leaves the node. *)
LEMMA CountDecide ==
    ASSUME TypeOK, NEW node, NEW call, NEW next, Decide(node, call, next)
    PROVE  /\ steps' = steps + 1 /\ visited' = visited + 1
           /\ \/ pc' = "tool_execution" /\ steps' <= MaxSteps
              \/ pc' = next
BY LimitsAssumption DEF Decide, Goto, TypeOK

(* Every step keeps the counting invariant.                                 *)
LEMMA CountStep == TypeOK /\ CountInv /\ [Next]_vars => CountInv'
<1> SUFFICES ASSUME TypeOK, CountInv, [Next]_vars PROVE CountInv'
  OBVIOUS
<1> USE LimitsAssumption
<1>n. steps \in Nat /\ visited \in Nat /\ toolRuns \in Nat
      /\ planRetries \in 0..MaxRetry-1
  BY DEF TypeOK
<1>1. CASE StartTurn
  BY <1>1 DEF StartTurn, CountInv, ToolInv, LengthInv
<1>2. CASE RelevanceIntent \/ EntityExtract \/ NegotiationClassification
  BY <1>2, <1>n DEF RelevanceIntent, EntityExtract, NegotiationClassification, At,
       Goto, graphVars, turnVars, CountInv, ToolInv, LengthInv
<1>3. CASE PrePlanIntent \/ ExecutionPathIntent
  BY <1>3, <1>n DEF PrePlanIntent, ExecutionPathIntent, At, Goto, graphVars,
       turnVars, CountInv, ToolInv, LengthInv
<1>4. CASE MemoryRetrieve \/ PostMemoryPlanIntent
  BY <1>4, <1>n DEF MemoryRetrieve, PostMemoryPlanIntent, At, Goto, graphVars,
       turnVars, CountInv, ToolInv, LengthInv
<1>5. CASE VerificationTakesQueued \/ VerificationQueuesEvidence \/ VerificationAsksLLM
  <2>1. PICK call : VerificationStep(call) /\ pc = "verification_react"
    BY <1>5 DEF VerificationTakesQueued, VerificationQueuesEvidence,
                VerificationAsksLLM, At
  <2>2. Decide("verification_react", Filtered(call), "post_verification_intent")
        /\ toolRuns' = toolRuns
    BY <2>1 DEF VerificationStep, turnVars
  <2>3. /\ steps' = steps + 1 /\ visited' = visited + 1
        /\ \/ pc' = "tool_execution" /\ steps' <= MaxSteps
           \/ pc' = "post_verification_intent"
    BY <2>2, CountDecide
  <2> QED BY <1>n, <2>1, <2>2, <2>3 DEF CountInv, ToolInv, LengthInv
<1>6. CASE PostVerificationIntent
  BY <1>6, <1>n DEF PostVerificationIntent, At, Goto, graphVars, turnVars,
       CountInv, ToolInv, LengthInv
<1>7. CASE React
  <2>1. PICK call : Decide("react", call, "plan_proposal_state")
    BY <1>7 DEF React
  <2>2. pc = "react" /\ toolRuns' = toolRuns /\ planRetries' = planRetries
    BY <1>7 DEF React, At, turnVars
  <2>3. /\ steps' = steps + 1 /\ visited' = visited + 1
        /\ \/ pc' = "tool_execution" /\ steps' <= MaxSteps
           \/ pc' = "plan_proposal_state"
    BY <2>1, CountDecide
  <2> QED BY <1>n, <2>2, <2>3 DEF CountInv, ToolInv, LengthInv
<1>8. CASE RunVerifyTool \/ RunOtherTool
  BY <1>8, <1>n DEF RunVerifyTool, RunOtherTool, At, Goto, graphVars,
       CountInv, ToolInv, LengthInv
<1>9. CASE PlanProposalState \/ PlanProposalGraph \/ PlanProposalDirective
  BY <1>9, <1>n DEF PlanProposalState, PlanProposalGraph, PlanProposalDirective,
       At, Goto, graphVars, turnVars, CountInv, ToolInv, LengthInv
<1>10. CASE ReflectComplete \/ ReflectRetry
  BY <1>10, <1>n DEF ReflectComplete, ReflectRetry, At, Goto, turnVars,
       CountInv, ToolInv, LengthInv
<1>11. CASE Respond
  BY <1>11, <1>n DEF Respond, At, EndTurn, graphVars, turnVars,
       CountInv, ToolInv, LengthInv
<1>12. CASE NodeFails \/ ToolFails \/ NodeLimitReached
  BY <1>12, <1>n DEF NodeFails, ToolFails, NodeLimitReached, EndTurn, graphVars,
       turnVars, CountInv, ToolInv, LengthInv
<1>13. CASE UNCHANGED vars
  BY <1>13 DEF vars, graphVars, turnVars, CountInv, ToolInv, LengthInv
<1> QED
  BY <1>1, <1>2, <1>3, <1>4, <1>5, <1>6, <1>7, <1>8, <1>9, <1>10, <1>11, <1>12,
     <1>13 DEF Next, GraphStep

(* In every run steps, tools and nodes are within what each node allows.    *)
THEOREM CountInvariant == Spec => []CountInv
<1>1. Init => CountInv
  BY CountInit
<1>2. TypeOK /\ CountInv /\ [Next]_vars => CountInv'
  BY CountStep
<1> QED BY <1>1, <1>2, TypeCorrect, PTL DEF Spec

(* One customer message runs at most MaxSteps tools. *)
THEOREM ToolRunsAreBounded == Spec => []ToolRunsBounded
<1>1. CountInv => ToolRunsBounded
  BY DEF CountInv, ToolInv, ToolRunsBounded
<1> QED BY <1>1, CountInvariant, PTL

(* The graph reaches its end after this many nodes. *)
THEOREM TurnsAreBounded == Spec => []TurnLengthBounded
<1>1. CountInv => TurnLengthBounded
  BY DEF CountInv, LengthInv, TurnLengthBounded
<1> QED BY <1>1, CountInvariant, PTL

-----------------------------------------------------------------------------
(* Every turn runs down: the safety half of TurnEndsByItself *)

(* The nodes of the longest turn, and the step that ends it. *)
LongestTurn == 2 * MaxSteps + 4 * MaxRetry + 12

(* What the turn under way may still take of them. *)
NodesLeft == IF pc = "idle" THEN 0 ELSE LongestTurn - visited

(* A step of the graph runs a node, or ends the turn. *)
LEMMA GraphStepAdvances ==
    ASSUME TypeOK, GraphStep
    PROVE  pc # "idle" /\ (pc' = "idle" \/ visited' = visited + 1)
<1>1. CASE RelevanceIntent \/ EntityExtract \/ NegotiationClassification
           \/ PrePlanIntent \/ ExecutionPathIntent \/ MemoryRetrieve
           \/ PostMemoryPlanIntent \/ PostVerificationIntent
  BY <1>1 DEF RelevanceIntent, EntityExtract, NegotiationClassification,
       PrePlanIntent, ExecutionPathIntent, MemoryRetrieve, PostMemoryPlanIntent,
       PostVerificationIntent, At, Goto
<1>2. CASE VerificationTakesQueued \/ VerificationQueuesEvidence
           \/ VerificationAsksLLM
  BY <1>2 DEF VerificationTakesQueued, VerificationQueuesEvidence,
       VerificationAsksLLM, VerificationStep, Decide, At, Goto
<1>3. CASE React \/ RunVerifyTool \/ RunOtherTool
  BY <1>3 DEF React, RunVerifyTool, RunOtherTool, Decide, At, Goto
<1>4. CASE PlanProposalState \/ PlanProposalGraph \/ PlanProposalDirective
           \/ ReflectComplete \/ ReflectRetry \/ Respond
  BY <1>4 DEF PlanProposalState, PlanProposalGraph, PlanProposalDirective,
       ReflectComplete, ReflectRetry, Respond, At, Goto
<1>5. CASE NodeFails \/ ToolFails \/ NodeLimitReached
  BY <1>5, FailingAssumption DEF NodeFails, ToolFails, NodeLimitReached, EndTurn,
       At, Nodes, ReactNodes
<1> QED BY <1>1, <1>2, <1>3, <1>4, <1>5 DEF GraphStep

(* Every step of a turn, whatever the LLM answers, leaves fewer nodes to    *)
(* run: with the fairness of the thread that runs it, every turn ends.      *)
THEOREM TurnsRunDown ==
    Spec => [][IF pc = "idle"
               THEN NodesLeft' \in 0..LongestTurn
               ELSE NodesLeft' \in 0..(NodesLeft - 1)]_vars
<1>1. TypeOK /\ TypeOK' /\ TurnLengthBounded /\ TurnLengthBounded' /\ [Next]_vars
        => [IF pc = "idle" THEN NodesLeft' \in 0..LongestTurn
            ELSE NodesLeft' \in 0..(NodesLeft - 1)]_vars
  <2> SUFFICES ASSUME TypeOK, TypeOK', TurnLengthBounded, TurnLengthBounded',
                      Next
               PROVE  IF pc = "idle" THEN NodesLeft' \in 0..LongestTurn
                      ELSE NodesLeft' \in 0..(NodesLeft - 1)
    OBVIOUS
  <2>1. /\ visited \in Nat /\ visited' \in Nat /\ LongestTurn \in Nat
        /\ visited < LongestTurn /\ visited' < LongestTurn
    BY LimitsAssumption DEF TypeOK, TurnLengthBounded, LongestTurn
  <2>2. CASE pc = "idle"
    <3>1. pc' # "idle" /\ visited' = 0
      BY <2>2, GraphStepAdvances DEF Next, StartTurn
    <3> QED BY <2>1, <2>2, <3>1 DEF NodesLeft
  <2>3. CASE pc # "idle"
    <3>1. pc' = "idle" \/ visited' = visited + 1
      BY <2>3, GraphStepAdvances DEF Next, StartTurn
    <3>2. NodesLeft = LongestTurn - visited
      BY <2>3 DEF NodesLeft
    <3>3. CASE pc' = "idle"
      BY <2>1, <2>3, <3>2, <3>3 DEF NodesLeft
    <3>4. CASE pc' # "idle"
      <4>1. NodesLeft' = LongestTurn - visited'
        BY <3>4 DEF NodesLeft
      <4>2. visited' = visited + 1
        BY <3>1, <3>4
      <4>3. \A n, v, w \in Nat : w = v + 1 /\ w < n => n - w \in 0..(n - v - 1)
        OBVIOUS
      <4>4. LongestTurn - visited' \in 0..(LongestTurn - visited - 1)
        BY <2>1, <4>2, <4>3
      <4> QED BY <2>3, <3>2, <4>1, <4>4
    <3> QED BY <3>3, <3>4
  <2> QED BY <2>2, <2>3
<1> QED BY <1>1, TypeCorrect, TurnsAreBounded, PTL DEF Spec

-----------------------------------------------------------------------------
(* What is held to be verified *)

(* Every success in the history is a real one. *)
HistoryInv ==
    \A i \in DOMAIN obs :
        obs[i].status = "verified" => obs[i].tool \in passed

(* A success that verification_react has not yet applied is the last entry  *)
(* of the history, and no decision lies between.                            *)
PendingSuccess(f) ==
    /\ obs # <<>> /\ obs[Len(obs)].tool = f /\ obs[Len(obs)].status = "verified"
    /\ pc \notin {"react", "tool_execution", "post_verification_intent"}

SuccessInv ==
    /\ HistoryInv
    /\ VerifiedBacked
    /\ \A f \in (passed \cap Required) \ verified : PendingSuccess(f)

(* Before the first turn there is no success to lose.                       *)
LEMMA SuccessInit == Init => SuccessInv
BY DEF Init, SuccessInv, HistoryInv, VerifiedBacked

(* Applying the history to the verification state loses and invents nothing. *)
LEMMA AppliedProperties ==
    ASSUME TypeOK, SuccessInv
    PROVE  /\ verified \subseteq AppliedFields
           /\ AppliedFields \subseteq passed
           /\ passed \cap Required \subseteq AppliedFields
<1>1. DOMAIN obs = 1..Len(obs) /\ Len(obs) \in Nat
  BY LenProperties DEF TypeOK
<1>2. verified \subseteq AppliedFields
  BY DEF AppliedFields
<1>3. AppliedFields \subseteq passed
  BY DEF AppliedFields, LatestStatusIs, SuccessInv, HistoryInv, VerifiedBacked
<1>4. ASSUME NEW f \in (passed \cap Required) \ verified
      PROVE  LatestStatusIs(f, "verified")
  <2>1. obs # <<>> /\ obs[Len(obs)].tool = f /\ obs[Len(obs)].status = "verified"
    BY <1>4 DEF SuccessInv, PendingSuccess
  <2>2. Len(obs) \in DOMAIN obs
    BY <1>1, <2>1, EmptySeq DEF TypeOK
  <2>3. \A j \in DOMAIN obs : ~(j > Len(obs))
    BY <1>1
  <2> QED BY <2>1, <2>2, <2>3 DEF LatestStatusIs
<1> QED BY <1>2, <1>3, <1>4 DEF AppliedFields

(* Every step keeps the history, the state and the real successes together. *)
LEMMA SuccessStep == TypeOK /\ SuccessInv /\ [Next]_vars => SuccessInv'
<1> SUFFICES ASSUME TypeOK, SuccessInv, [Next]_vars PROVE SuccessInv'
  OBVIOUS
(* Steps that leave the memory alone: no decision node is entered while a   *)
(* success is pending.                                                      *)
<1>m. ASSUME UNCHANGED <<obs, verified, passed>>,
             pc' \in {"react", "tool_execution", "post_verification_intent"}
                 => passed \cap Required \subseteq verified
      PROVE  SuccessInv'
  BY <1>m DEF SuccessInv, HistoryInv, VerifiedBacked, PendingSuccess
<1>v. IdentityVerified => passed \cap Required \subseteq verified
  BY DEF IdentityVerified
<1>1. CASE StartTurn
  BY <1>1, <1>m DEF StartTurn, memoryVars
<1>2. CASE RelevanceIntent \/ EntityExtract \/ NegotiationClassification
  BY <1>2, <1>m DEF RelevanceIntent, EntityExtract, NegotiationClassification,
       Goto, memoryVars
<1>3. CASE PrePlanIntent \/ ExecutionPathIntent
  BY <1>3, <1>m, <1>v DEF PrePlanIntent, ExecutionPathIntent, Goto, memoryVars
<1>4. CASE MemoryRetrieve \/ PostMemoryPlanIntent
  BY <1>4, <1>m, <1>v DEF MemoryRetrieve, PostMemoryPlanIntent, Goto, memoryVars
<1>5. CASE VerificationTakesQueued \/ VerificationQueuesEvidence \/ VerificationAsksLLM
  <2>1. PICK call : VerificationStep(call)
    BY <1>5 DEF VerificationTakesQueued, VerificationQueuesEvidence,
                VerificationAsksLLM
  <2>2. verified' = AppliedFields /\ obs' = obs /\ passed' = passed
    BY <2>1 DEF VerificationStep
  <2> QED BY <2>2, AppliedProperties DEF SuccessInv, HistoryInv, VerifiedBacked
<1>6. CASE PostVerificationIntent
  BY <1>6, <1>m, <1>v DEF PostVerificationIntent, Goto, memoryVars
<1>7. CASE React
  <2>1. pc = "react" /\ UNCHANGED <<obs, verified, passed>>
    BY <1>7 DEF React, At, memoryVars
  <2>2. passed \cap Required \subseteq verified
    BY <2>1 DEF SuccessInv, PendingSuccess
  <2> QED BY <2>1, <2>2, <1>m
<1>8. CASE RunVerifyTool
  <2> DEFINE call == decision.call
             entry == [tool |-> call.tool, value |-> call.value,
                       status |-> Verdict(call.tool, call.value),
                       output |-> AttemptsAfter(call.tool, call.value)[call.tool]]
  <2>1. call.tool \in Fields /\ call.value \in Values \cup {NoValue}
    BY <1>8 DEF RunVerifyTool, TypeOK, Calls, NoCall
  <2>2. entry \in Observations
    BY <2>1, VerdictType
  <2>3. /\ obs' = Remember(entry) /\ verified' = verified
        /\ passed' = IF Verdict(call.tool, call.value) = "verified"
                     THEN passed \cup {call.tool} ELSE passed
        /\ pc = "tool_execution" /\ pc' = "verification_react"
    BY <1>8 DEF RunVerifyTool, At, Goto
  <2>4. entry.tool = call.tool /\ entry.status = Verdict(call.tool, call.value)
    OBVIOUS
  <2> HIDE DEF entry, call
  <2>5. /\ obs' # <<>> /\ obs'[Len(obs')] = entry
        /\ \A i \in DOMAIN obs' :
              obs'[i] = entry \/ \E j \in DOMAIN obs : obs'[i] = obs[j]
    BY <2>2, <2>3, RememberProperties DEF TypeOK
  <2>6. passed \cap Required \subseteq verified
    BY <2>3 DEF SuccessInv, PendingSuccess
  <2>7. HistoryInv'
    BY <2>3, <2>4, <2>5 DEF SuccessInv, HistoryInv
  <2>8. VerifiedBacked'
    BY <2>3 DEF SuccessInv, VerifiedBacked
  <2>9. ASSUME NEW f \in (passed' \cap Required) \ verified'
        PROVE  PendingSuccess(f)'
    <3>1. f = call.tool /\ Verdict(call.tool, call.value) = "verified"
      BY <2>3, <2>6, <2>9
    <3> QED BY <2>3, <2>4, <2>5, <3>1 DEF PendingSuccess
  <2> QED BY <2>7, <2>8, <2>9 DEF SuccessInv
<1>9. CASE RunOtherTool
  <2>1. PICK out \in OtherOutputs :
           obs' = Remember([tool |-> OtherTool, value |-> NoValue,
                            status |-> "done", output |-> out])
    BY <1>9 DEF RunOtherTool
  <2> DEFINE entry == [tool |-> OtherTool, value |-> NoValue,
                       status |-> "done", output |-> out]
  <2>2. entry \in Observations /\ entry.status # "verified"
    BY OtherAssumption DEF Observations, Tools
  <2>3. obs' = Remember(entry) /\ verified' = verified /\ passed' = passed
        /\ pc = "tool_execution"
    BY <1>9, <2>1 DEF RunOtherTool, At
  <2> HIDE DEF entry
  <2>4. \A i \in DOMAIN obs' :
              obs'[i] = entry \/ \E j \in DOMAIN obs : obs'[i] = obs[j]
    BY <2>2, <2>3, RememberProperties DEF TypeOK
  <2>5. passed \cap Required \subseteq verified
    BY <2>3 DEF SuccessInv, PendingSuccess
  <2> QED BY <2>2, <2>3, <2>4, <2>5 DEF SuccessInv, HistoryInv, VerifiedBacked
<1>10. CASE PlanProposalState \/ PlanProposalGraph \/ PlanProposalDirective
  BY <1>10, <1>m DEF PlanProposalState, PlanProposalGraph, PlanProposalDirective,
       Goto, memoryVars
<1>11. CASE ReflectComplete \/ ReflectRetry
  BY <1>11, <1>m DEF ReflectComplete, ReflectRetry, Goto, memoryVars
<1>12. CASE Respond \/ NodeFails \/ ToolFails \/ NodeLimitReached
  BY <1>12, <1>m DEF Respond, NodeFails, ToolFails, NodeLimitReached, EndTurn,
       memoryVars
<1>13. CASE UNCHANGED vars
  BY <1>13 DEF vars, memoryVars, SuccessInv, HistoryInv, VerifiedBacked,
               PendingSuccess
<1> QED
  BY <1>1, <1>2, <1>3, <1>4, <1>5, <1>6, <1>7, <1>8, <1>9, <1>10, <1>11, <1>12,
     <1>13 DEF Next, GraphStep

(* In every run an unapplied success is the last entry of the history.      *)
THEOREM SuccessInvariant == Spec => []SuccessInv
<1>1. Init => SuccessInv
  BY SuccessInit
<1>2. TypeOK /\ SuccessInv /\ [Next]_vars => SuccessInv'
  BY SuccessStep
<1> QED BY <1>1, <1>2, TypeCorrect, PTL DEF Spec

(* Only the verification tools can make a field verified. *)
THEOREM VerifiedIsBacked == Spec => []VerifiedBacked
<1>1. SuccessInv => VerifiedBacked
  BY DEF SuccessInv
<1> QED BY <1>1, SuccessInvariant, PTL

(* A success is part of the verification state before the next decision. *)
THEOREM SuccessIsNotLost == Spec => []SuccessNotLost
<1>1. SuccessInv => SuccessNotLost
  BY DEF SuccessInv, SuccessNotLost, PendingSuccess
<1> QED BY <1>1, SuccessInvariant, PTL

(* A verified field stays verified, whatever the step. *)
THEOREM VerifiedIsSticky == Spec => VerifiedSticky
<1>1. ASSUME [Next]_vars PROVE verified \subseteq verified'
  <2>1. CASE UNCHANGED vars
    BY <2>1 DEF vars, memoryVars
  <2>2. CASE StartTurn
    BY <2>2 DEF StartTurn, memoryVars
  <2>3. CASE VerificationTakesQueued \/ VerificationQueuesEvidence \/ VerificationAsksLLM
    BY <2>3 DEF VerificationTakesQueued, VerificationQueuesEvidence,
         VerificationAsksLLM, VerificationStep, AppliedFields
  <2>4. CASE RunVerifyTool \/ RunOtherTool \/ React \/ ToolFails
    BY <2>4 DEF RunVerifyTool, RunOtherTool, React, ToolFails, memoryVars
  <2>5. CASE \/ RelevanceIntent \/ EntityExtract \/ NegotiationClassification
             \/ PrePlanIntent \/ ExecutionPathIntent
             \/ MemoryRetrieve \/ PostMemoryPlanIntent \/ PostVerificationIntent
    BY <2>5 DEF RelevanceIntent, EntityExtract, NegotiationClassification,
         PrePlanIntent, ExecutionPathIntent, MemoryRetrieve,
         PostMemoryPlanIntent, PostVerificationIntent, memoryVars
  <2>6. CASE \/ PlanProposalState \/ PlanProposalGraph \/ PlanProposalDirective
             \/ ReflectComplete \/ ReflectRetry \/ Respond
             \/ NodeFails \/ NodeLimitReached
    BY <2>6 DEF PlanProposalState, PlanProposalGraph, PlanProposalDirective,
         ReflectComplete, ReflectRetry, Respond, NodeFails, NodeLimitReached,
         memoryVars
  <2> QED BY <1>1, <2>1, <2>2, <2>3, <2>4, <2>5, <2>6 DEF Next, GraphStep
<1>2. [Next]_vars => [verified \subseteq verified']_vars
  BY <1>1
<1> QED BY <1>2, PTL DEF Spec, VerifiedSticky

-----------------------------------------------------------------------------
(* The queue of checks *)

(* At most one check waits, of a field still to be verified; while it does, *)
(* the tool node runs a verification tool, which leads back to it.          *)
QueueInv ==
    pending # <<>> =>
        /\ Len(pending) = 1 /\ pending[1].tool \in Required \ verified
        /\ pc # "react"
        /\ pc = "tool_execution" => decision.call.tool \in Fields

(* What is queued: one check of each field that is ready, "dob" first.      *)
LEMMA QueuedCallsShape ==
    ASSUME QueuedCalls # <<>>
    PROVE  /\ \E f \in Fields : /\ ReadyToCheck(f)
                                /\ Head(QueuedCalls) =
                                      [tool |-> f, value |-> turnEnt[f]]
           /\ Tail(QueuedCalls) # <<>> =>
                 /\ Len(Tail(QueuedCalls)) = 1
                 /\ ReadyToCheck("phone") /\ Tail(QueuedCalls)[1].tool = "phone"
           /\ \A f \in Fields : ReadyToCheck(f) =>
                 LET call == [tool |-> f, value |-> turnEnt[f]]
                 IN  \/ Head(QueuedCalls) = call
                     \/ Tail(QueuedCalls) # <<>> /\ Tail(QueuedCalls)[1] = call
<1> DEFINE d == [tool |-> "dob", value |-> turnEnt["dob"]]
           p == [tool |-> "phone", value |-> turnEnt["phone"]]
<1>1. d.tool = "dob" /\ p.tool = "phone" /\ {"dob", "phone"} = Fields
  BY DEF Fields
<1>2. CASE ReadyToCheck("dob") /\ ReadyToCheck("phone")
  <2>1. QueuedCalls = <<d>> \o <<p>>
    BY <1>2 DEF QueuedCalls, QueuedCall
  <2> HIDE DEF d, p
  <2>2. /\ <<d>> \in Seq({d, p}) /\ <<>> \in Seq({d, p}) /\ Len(<<>>) = 0
        /\ <<d>> # <<>> /\ Head(<<d>>) = d /\ Tail(<<d>>) = <<>>
    OBVIOUS
  <2>3. QueuedCalls = Append(<<d>>, p)
    BY <2>1, <2>2, AppendIsConcat
  <2>4. Head(QueuedCalls) = d /\ Tail(QueuedCalls) = Append(<<>>, p)
    BY <2>2, <2>3, HeadTailAppend
  <2>5. Len(Tail(QueuedCalls)) = 1 /\ Tail(QueuedCalls)[1] = p
    <3>1. Append(<<>>, p) = <<p>>
      BY <2>2, AppendIsConcat
    <3>2. Len(<<p>>) = 1 /\ <<p>>[1] = p
      OBVIOUS
    <3> QED BY <2>4, <3>1, <3>2
  <2>6. Tail(QueuedCalls) # <<>>
    BY <2>2, <2>4, AppendProperties
  <2>7. \A f \in Fields : [tool |-> f, value |-> turnEnt[f]] \in {d, p}
    BY <1>1 DEF d, p
  <2> QED BY <1>1, <1>2, <2>4, <2>5, <2>6, <2>7 DEF d
<1>3. CASE ReadyToCheck("dob") /\ ~ReadyToCheck("phone")
  <2>1. QueuedCalls = <<d>> \o <<>>
    BY <1>3 DEF QueuedCalls, QueuedCall
  <2> HIDE DEF d, p
  <2>2. QueuedCalls = <<d>>
    BY <2>1
  <2>3. Head(QueuedCalls) = d /\ Tail(QueuedCalls) = <<>>
    BY <2>2
  <2> QED BY <1>1, <1>3, <2>3 DEF d
<1>4. CASE ~ReadyToCheck("dob") /\ ReadyToCheck("phone")
  <2>1. QueuedCalls = <<>> \o <<p>>
    BY <1>4 DEF QueuedCalls, QueuedCall
  <2> HIDE DEF d, p
  <2>2. QueuedCalls = <<p>>
    BY <2>1
  <2>3. Head(QueuedCalls) = p /\ Tail(QueuedCalls) = <<>>
    BY <2>2
  <2> QED BY <1>1, <1>4, <2>3 DEF p
<1>5. CASE ~ReadyToCheck("dob") /\ ~ReadyToCheck("phone")
  <2>1. QueuedCalls = <<>> \o <<>>
    BY <1>5 DEF QueuedCalls, QueuedCall
  <2>2. QueuedCalls = <<>>
    BY <2>1
  <2> QED BY <2>2
<1> QED BY <1>2, <1>3, <1>4, <1>5

(* Nothing is queued before the first turn.                                 *)
LEMMA QueueInit == Init => QueueInv
BY DEF Init, QueueInv

(* Every step keeps the queue short and to the point.                       *)
LEMMA QueueStep == TypeOK /\ QueueInv /\ [Next]_vars => QueueInv'
<1> SUFFICES ASSUME TypeOK, QueueInv, [Next]_vars PROVE QueueInv'
  OBVIOUS
(* Steps that only move on: to react only once the identity is verified.    *)
<1>m. ASSUME UNCHANGED <<pending, verified>>, pc' # "tool_execution",
             pc' = "react" => IdentityVerified
      PROVE  QueueInv'
  BY <1>m DEF QueueInv, IdentityVerified
<1>1. CASE StartTurn
  BY <1>1 DEF StartTurn, QueueInv
<1>2. CASE RelevanceIntent \/ EntityExtract \/ NegotiationClassification
  BY <1>2, <1>m DEF RelevanceIntent, EntityExtract, NegotiationClassification,
       Goto, graphVars, memoryVars
<1>3. CASE PrePlanIntent \/ ExecutionPathIntent
  BY <1>3, <1>m DEF PrePlanIntent, ExecutionPathIntent, Goto, graphVars, memoryVars
<1>4. CASE MemoryRetrieve \/ PostMemoryPlanIntent \/ PostVerificationIntent
  BY <1>4, <1>m DEF MemoryRetrieve, PostMemoryPlanIntent, PostVerificationIntent,
       Goto, graphVars, memoryVars
<1>5. CASE VerificationTakesQueued
  <2>1. pending \in Seq(Calls) /\ Len(pending) = 1 /\ pending' = Tail(pending)
    BY <1>5 DEF VerificationTakesQueued, QueueInv, TypeOK
  <2>2. pending' = <<>>
    BY <2>1, HeadTailProperties, EmptySeq
  <2> QED BY <2>2 DEF QueueInv
<1>6. CASE VerificationQueuesEvidence
  <2> DEFINE call == Head(QueuedCalls)
  <2>1. /\ QueuedCalls # <<>> /\ pending' = Tail(QueuedCalls)
        /\ VerificationStep(call)
    BY <1>6 DEF VerificationQueuesEvidence
  <2>2. PICK f \in Fields : ReadyToCheck(f)
                            /\ call = [tool |-> f, value |-> turnEnt[f]]
    BY <2>1, QueuedCallsShape
  <2>3. Filtered(call) = call
    BY <2>2 DEF Filtered, ReadyToCheck
  <2>4. decision'.call.tool \in Fields
    BY <2>1, <2>2, <2>3 DEF VerificationStep, Decide
  <2>5. pc' # "react" /\ verified' = AppliedFields
    BY <2>1 DEF VerificationStep, Decide, Goto
  <2>6. pending' # <<>> =>
          /\ Len(pending') = 1 /\ pending'[1].tool \in Required \ AppliedFields
    BY <2>1, QueuedCallsShape DEF ReadyToCheck
  <2> QED BY <2>4, <2>5, <2>6 DEF QueueInv
<1>7. CASE VerificationAsksLLM
  BY <1>7 DEF VerificationAsksLLM, QueueInv
<1>8. CASE React
  BY <1>8 DEF React, At, QueueInv
<1>9. CASE RunVerifyTool
  BY <1>9, <1>m DEF RunVerifyTool, Goto, graphVars
<1>10. CASE RunOtherTool
  BY <1>10, OtherAssumption DEF RunOtherTool, At, graphVars, QueueInv
<1>11. CASE PlanProposalState \/ PlanProposalGraph \/ PlanProposalDirective
  BY <1>11, <1>m DEF PlanProposalState, PlanProposalGraph, PlanProposalDirective,
       Goto, graphVars, memoryVars
<1>12. CASE ReflectComplete \/ ReflectRetry
  BY <1>12, <1>m DEF ReflectComplete, ReflectRetry, Goto, memoryVars
<1>13. CASE Respond \/ NodeFails \/ ToolFails \/ NodeLimitReached
  BY <1>13, <1>m DEF Respond, NodeFails, ToolFails, NodeLimitReached, EndTurn,
       graphVars, memoryVars
<1>14. CASE UNCHANGED vars
  BY <1>14 DEF vars, graphVars, memoryVars, QueueInv
<1> QED
  BY <1>1, <1>2, <1>3, <1>4, <1>5, <1>6, <1>7, <1>8, <1>9, <1>10, <1>11, <1>12,
     <1>13, <1>14 DEF Next, GraphStep

(* The general react node never finds a queued check, and no queued check   *)
(* is of a field that is verified already.                                  *)
THEOREM QueueIsForMissingFields == Spec => []QueueOnlyForMissingFields
<1>1. Init => QueueInv
  BY QueueInit
<1>2. TypeOK /\ QueueInv /\ [Next]_vars => QueueInv'
  BY QueueStep
<1>3. ASSUME TypeOK, QueueInv PROVE QueueOnlyForMissingFields
  <2>1. DOMAIN pending = 1..Len(pending)
    BY LenProperties DEF TypeOK
  <2>2. pending # <<>> => \A i \in DOMAIN pending : i = 1
    BY <1>3, <2>1 DEF QueueInv
  <2> QED BY <1>3, <2>2 DEF QueueInv, QueueOnlyForMissingFields
<1> QED BY <1>1, <1>2, <1>3, TypeCorrect, PTL DEF Spec

(* The checks verification_react makes in one turn: it repeats none, and    *)
(* it leaves no value the customer gave unchecked.                          *)

(* The check of the value the message gives for a field. *)
CheckOf(f) == [tool |-> f, value |-> turnEnt[f]]

-----------------------------------------------------------------------------
(* No check is repeated in a turn *)

(* Entry i of the history is about this check. *)
IsAbout(entry, call) == entry.tool = call.tool /\ entry.value = call.value

(* Every check of this turn is still in the history, among its last         *)
(* toolRuns entries.                                                        *)
RecentInv ==
    \A call \in tried :
        /\ call.tool \in Fields
        /\ \E i \in DOMAIN obs :
              i > Len(obs) - toolRuns /\ IsAbout(obs[i], call)

RepeatInv == RecentInv /\ NoRepeatedCheck

(* Nothing has been tried before the first turn.                            *)
LEMMA RepeatInit == Init => RepeatInv
BY DEF Init, RepeatInv, RecentInv, NoRepeatedCheck

(* Remembering one more entry pushes no check of this turn out of history.  *)
LEMMA RecentRemember ==
    ASSUME MaxSteps <= HistoryCap, TypeOK, ToolInv, pc = "tool_execution",
           NEW e \in Observations, NEW call,
           NEW i \in DOMAIN obs, i > Len(obs) - toolRuns, IsAbout(obs[i], call)
    PROVE  \E k \in DOMAIN Remember(e) :
              k > Len(Remember(e)) - (toolRuns + 1) /\ IsAbout(Remember(e)[k], call)
<1>1. /\ toolRuns \in Nat /\ toolRuns + 1 <= HistoryCap /\ HistoryCap \in Nat
      /\ Len(obs) \in Nat /\ DOMAIN obs = 1..Len(obs) /\ Len(obs) <= HistoryCap
  BY LimitsAssumption, LenProperties DEF TypeOK, ToolInv
<1>2. CASE obs # <<>> /\ obs[Len(obs)] = e
  <2>1. Remember(e) = obs
    BY <1>2 DEF Remember
  <2> QED BY <1>1, <2>1
<1>3. CASE ~(obs # <<>> /\ obs[Len(obs)] = e)
  <2> DEFINE s == Append(obs, e)
  <2>1. /\ s \in Seq(Observations) /\ Len(s) = Len(obs) + 1
        /\ \A j \in 1..Len(obs) : s[j] = obs[j]
    BY AppendProperties DEF TypeOK
  <2>2. Remember(e) = Newest(s) /\ DOMAIN s = 1..Len(obs)+1
    BY <1>3, <2>1, LenProperties DEF Remember
  <2> HIDE DEF s
  <2>3. CASE Len(obs) + 1 <= HistoryCap
    <3>1. Remember(e) = s
      BY <2>1, <2>2, <2>3 DEF Newest
    <3> QED BY <1>1, <2>1, <2>2, <3>1
  <2>4. CASE ~(Len(obs) + 1 <= HistoryCap)
    <3>1. Len(obs) = HistoryCap
      <4> DEFINE n == Len(obs)
      <4>1. n \in Nat /\ HistoryCap \in Nat
            /\ n <= HistoryCap /\ ~(n + 1 <= HistoryCap)
        BY <1>1, <2>4
      <4> HIDE DEF n
      <4>2. n = HistoryCap
        BY <4>1
      <4> QED BY <4>2 DEF n
    <3>2. Remember(e) = SubSeq(s, 2, Len(s))
      <4> DEFINE m == Len(s)
      <4>1. m = HistoryCap + 1 /\ m - HistoryCap + 1 = 2 /\ ~(m <= HistoryCap)
        BY <1>1, <2>1, <3>1
      <4>2. Remember(e) = SubSeq(s, m - HistoryCap + 1, m)
        BY <2>2, <4>1 DEF Newest
      <4> QED BY <4>1, <4>2
    <3>3. \A j \in 2..Len(s) : s[j] \in Observations
      BY <2>1, <2>2
    <3>4. /\ Remember(e) \in Seq(Observations) /\ Len(Remember(e)) = HistoryCap
          /\ \A j \in 1..HistoryCap : Remember(e)[j] = s[j + 1]
      BY <1>1, <2>1, <3>1, <3>2, <3>3, SubSeqProperties
    <3>5. i - 1 \in 1..HistoryCap /\ (i - 1) + 1 = i /\ i \in 1..Len(obs)
      BY <1>1, <3>1
    <3>6. Remember(e)[i - 1] = obs[i]
      BY <2>1, <3>4, <3>5
    <3>7. i - 1 \in DOMAIN Remember(e)
      BY <3>4, <3>5, LenProperties
    <3> QED BY <1>1, <3>1, <3>4, <3>6, <3>7
  <2> QED BY <2>3, <2>4
<1> QED BY <1>2, <1>3

(* Every step keeps this turn's checks in the history and repeats none.     *)
LEMMA RepeatStep ==
    ASSUME MaxSteps <= HistoryCap
    PROVE  TypeOK /\ CountInv /\ RepeatInv /\ [Next]_vars => RepeatInv'
<1> SUFFICES ASSUME TypeOK, CountInv, RepeatInv, [Next]_vars PROVE RepeatInv'
  OBVIOUS
<1>n. ToolInv /\ toolRuns \in Nat /\ Len(obs) \in Nat /\ DOMAIN obs = 1..Len(obs)
  BY LenProperties DEF CountInv, TypeOK
<1>m. ASSUME UNCHANGED <<obs, tried, toolRuns>>,
             pc' = "tool_execution" => decision'.by # "verification_react"
      PROVE  RepeatInv'
  BY <1>m DEF RepeatInv, RecentInv, NoRepeatedCheck
<1>1. CASE StartTurn
  BY <1>1 DEF StartTurn, RepeatInv, RecentInv, NoRepeatedCheck
<1>2. CASE RelevanceIntent \/ EntityExtract \/ NegotiationClassification
  BY <1>2, <1>m DEF RelevanceIntent, EntityExtract, NegotiationClassification,
       Goto, memoryVars, turnVars
<1>3. CASE PrePlanIntent \/ ExecutionPathIntent
  BY <1>3, <1>m DEF PrePlanIntent, ExecutionPathIntent, Goto, memoryVars, turnVars
<1>4. CASE MemoryRetrieve \/ PostMemoryPlanIntent \/ PostVerificationIntent
  BY <1>4, <1>m DEF MemoryRetrieve, PostMemoryPlanIntent, PostVerificationIntent,
       Goto, memoryVars, turnVars
<1>5. CASE VerificationTakesQueued \/ VerificationQueuesEvidence \/ VerificationAsksLLM
  <2>1. PICK call : /\ VerificationStep(call)
                    /\ call \in Calls \cup {NoCall}
    <3>1. CASE VerificationTakesQueued
      BY <3>1, HeadTailProperties DEF VerificationTakesQueued, TypeOK
    <3>2. CASE VerificationQueuesEvidence
      <4>1. QueuedCalls \in Seq(Calls) /\ QueuedCalls # <<>>
        BY <3>2, QueuedCallsType DEF VerificationQueuesEvidence, TypeOK
      <4> QED BY <3>2, <4>1, HeadTailProperties DEF VerificationQueuesEvidence
    <3>3. CASE VerificationAsksLLM
      BY <3>3, LLMCallsType DEF VerificationAsksLLM
    <3> QED BY <1>5, <3>1, <3>2, <3>3
  <2>2. /\ UNCHANGED <<obs, tried, toolRuns>>
        /\ decision' = [call |-> Filtered(call), by |-> "verification_react"]
    BY <2>1 DEF VerificationStep, Decide, turnVars
  <2>3. decision'.call = Filtered(call) /\ pc' = "tool_execution" => Filtered(call) # NoCall
    BY <2>1, <2>2 DEF VerificationStep, Decide, Goto
  <2>4. ASSUME pc' = "tool_execution" PROVE Filtered(call) \notin tried
    <3>1. Filtered(call) # NoCall
      BY <2>2, <2>3, <2>4
    <3>2. Filtered(call) = call /\ (call.tool \in Fields => ~AlreadyAnswered(call))
      BY <3>1 DEF Filtered
    <3>3. CASE call.tool \in Fields
      BY <3>2, <3>3 DEF RepeatInv, RecentInv, IsAbout, AlreadyAnswered
    <3>4. CASE call.tool \notin Fields
      <4>1. call \notin tried
        BY <3>4 DEF RepeatInv, RecentInv
      <4> QED BY <3>2, <4>1
    <3> QED BY <3>3, <3>4
  <2> QED BY <2>2, <2>4 DEF RepeatInv, RecentInv, NoRepeatedCheck
<1>6. CASE React
  <2>1. /\ UNCHANGED <<obs, tried, toolRuns>> /\ decision'.by = "react"
    BY <1>6 DEF React, Decide, memoryVars, turnVars
  <2> QED BY <2>1, <1>m
<1>7. CASE RunVerifyTool
  <2> DEFINE call == decision.call
             entry == [tool |-> call.tool, value |-> call.value,
                       status |-> Verdict(call.tool, call.value),
                       output |-> AttemptsAfter(call.tool, call.value)[call.tool]]
  <2>1. call.tool \in Fields /\ call.value \in Values \cup {NoValue}
    BY <1>7 DEF RunVerifyTool, TypeOK, Calls, NoCall
  <2>2. entry \in Observations /\ IsAbout(entry, call)
    BY <2>1, VerdictType DEF IsAbout
  <2>3. /\ obs' = Remember(entry) /\ tried' = tried \cup {call}
        /\ toolRuns' = toolRuns + 1
        /\ pc = "tool_execution" /\ pc' = "verification_react"
    BY <1>7 DEF RunVerifyTool, At, Goto
  <2> HIDE DEF entry, call
  <2>4. /\ obs' \in Seq(Observations) /\ obs' # <<>> /\ obs'[Len(obs')] = entry
    BY <2>2, <2>3, RememberProperties DEF TypeOK
  <2>5. Len(obs') \in DOMAIN obs' /\ Len(obs') > Len(obs') - toolRuns'
    BY <1>n, <2>3, <2>4, LenProperties, EmptySeq
  <2>6. ASSUME NEW c \in tried
        PROVE  \E k \in DOMAIN obs' :
                  k > Len(obs') - toolRuns' /\ IsAbout(obs'[k], c)
    <3>1. PICK i \in DOMAIN obs : i > Len(obs) - toolRuns /\ IsAbout(obs[i], c)
      BY DEF RepeatInv, RecentInv
    <3> QED BY <1>n, <2>2, <2>3, <3>1, RecentRemember
  <2>7. RecentInv'
    BY <2>1, <2>2, <2>3, <2>4, <2>5, <2>6 DEF RepeatInv, RecentInv
  <2> QED BY <2>3, <2>7 DEF RepeatInv, NoRepeatedCheck
<1>8. CASE RunOtherTool
  <2>1. PICK out \in OtherOutputs :
           obs' = Remember([tool |-> OtherTool, value |-> NoValue,
                            status |-> "done", output |-> out])
    BY <1>8 DEF RunOtherTool
  <2> DEFINE entry == [tool |-> OtherTool, value |-> NoValue,
                       status |-> "done", output |-> out]
  <2>2. entry \in Observations
    BY OtherAssumption DEF Observations, Tools
  <2>3. /\ obs' = Remember(entry) /\ tried' = tried /\ toolRuns' = toolRuns + 1
        /\ pc = "tool_execution" /\ pc' = "react"
    BY <1>8, <2>1 DEF RunOtherTool, At, Goto
  <2> HIDE DEF entry
  <2>4. ASSUME NEW c \in tried
        PROVE  \E k \in DOMAIN obs' :
                  k > Len(obs') - toolRuns' /\ IsAbout(obs'[k], c)
    <3>1. PICK i \in DOMAIN obs : i > Len(obs) - toolRuns /\ IsAbout(obs[i], c)
      BY DEF RepeatInv, RecentInv
    <3> QED BY <1>n, <2>2, <2>3, <3>1, RecentRemember
  <2>5. RecentInv'
    BY <2>3, <2>4 DEF RepeatInv, RecentInv
  <2> QED BY <2>3, <2>5 DEF RepeatInv, NoRepeatedCheck
<1>9. CASE PlanProposalState \/ PlanProposalGraph \/ PlanProposalDirective
  BY <1>9, <1>m DEF PlanProposalState, PlanProposalGraph, PlanProposalDirective,
       Goto, memoryVars, turnVars
<1>10. CASE ReflectComplete \/ ReflectRetry
  BY <1>10, <1>m DEF ReflectComplete, ReflectRetry, Goto, memoryVars, turnVars
<1>11. CASE Respond \/ NodeFails \/ ToolFails \/ NodeLimitReached
  BY <1>11, <1>m DEF Respond, NodeFails, ToolFails, NodeLimitReached, EndTurn,
       memoryVars, turnVars
<1>12. CASE UNCHANGED vars
  BY <1>12 DEF vars, graphVars, memoryVars, turnVars, RepeatInv, RecentInv,
               NoRepeatedCheck
<1> QED
  BY <1>1, <1>2, <1>3, <1>4, <1>5, <1>6, <1>7, <1>8, <1>9, <1>10, <1>11, <1>12
     DEF Next, GraphStep

(* With a history at least as long as a turn has tool runs (40 and 8 in the *)
(* code), verification_react repeats no check of the turn.                  *)
THEOREM ChecksAreNotRepeated ==
    ASSUME MaxSteps <= HistoryCap
    PROVE  Spec => []NoRepeatedCheck
<1>1. Init => RepeatInv
  BY RepeatInit
<1>2. TypeOK /\ CountInv /\ RepeatInv /\ [Next]_vars => RepeatInv'
  BY RepeatStep
<1>3. RepeatInv => NoRepeatedCheck
  BY DEF RepeatInv
<1> QED BY <1>1, <1>2, <1>3, TypeCorrect, CountInvariant, PTL DEF Spec

-----------------------------------------------------------------------------
(* No value is left unchecked *)

(* Missing fields whose value in the message has never been checked. *)
Unchecked ==
    {f \in Required \ verified : turnEnt[f] # NoValue /\ CheckOf(f) \notin answered}

(* Where the intents have not yet looked at the message, where a turn has   *)
(* died, and where it answers a message that is out of scope.               *)
Before == {"relevance_intent", "entity_extract", "negotiation_classification",
           "pre_plan_intent", "execution_path_intent"}
Outside == {"idle", "irrelevant_response"}

(* What waits to be checked is in the decision or in the queue, and the     *)
(* step limit has room for both: the message is only checked by the first   *)
(* two decisions of the turn.                                               *)
UncheckedInv ==
    /\ pc \in Before => steps = 0 /\ pending = <<>>
    /\ pc \in {"memory_retrieve", "post_memory_plan_intent"} =>
          steps = 0 /\ pending = <<>> /\ Unchecked = {}
    /\ pc = "verification_react" =>
          \/ steps = 0 /\ pending = <<>>
          \/ Unchecked = {}
          \/ /\ steps = 1 /\ pending # <<>>
             /\ \A f \in Unchecked : pending[1] = CheckOf(f)
    /\ pc = "tool_execution" =>
          \A f \in Unchecked :
              \/ decision.call = CheckOf(f)
              \/ steps = 1 /\ pending # <<>> /\ pending[1] = CheckOf(f)
    /\ pc \notin Before \cup Outside \cup {"verification_react", "tool_execution"}
          => Unchecked = {}

(* Every entity is evidence, and every remembered check has been answered.  *)
SourceInv ==
    /\ \A f \in Fields : turnEnt[f] # NoValue => f \in evidence
    /\ \A i \in DOMAIN obs :
          obs[i].tool \in Fields =>
              [tool |-> obs[i].tool, value |-> obs[i].value] \in answered

EvidenceInv == UncheckedInv /\ SourceInv

(* Before the first message there is nothing to check.                      *)
LEMMA EvidenceInit == Init => EvidenceInv
BY DEF Init, EvidenceInv, UncheckedInv, SourceInv, Unchecked, Before, Outside

(* A verified identity leaves nothing unchecked.                            *)
LEMMA IdentityLeavesNothing == IdentityVerified => Unchecked = {}
BY DEF IdentityVerified, Unchecked

(* The tool history holds answered checks only, whatever is remembered.     *)
LEMMA SourceRemember ==
    ASSUME TypeOK, SourceInv, NEW e \in Observations, obs' = Remember(e),
           UNCHANGED <<turnEnt, evidence>>, answered \subseteq answered',
           e.tool \in Fields => [tool |-> e.tool, value |-> e.value] \in answered'
    PROVE  SourceInv'
<1>1. \A i \in DOMAIN obs' :
          obs'[i] = e \/ \E j \in DOMAIN obs : obs'[i] = obs[j]
  BY RememberProperties DEF TypeOK
<1> QED BY <1>1 DEF SourceInv

(* What is not ready to be checked has been checked.                        *)
LEMMA NotReady ==
    ASSUME TypeOK, SourceInv, NEW f \in Required \ AppliedFields,
           turnEnt[f] # NoValue, ~ReadyToCheck(f)
    PROVE  CheckOf(f) \in answered
<1>1. AlreadyAnswered([tool |-> f, value |-> turnEnt[f]])
  BY DEF ReadyToCheck
<1>2. PICK i \in DOMAIN obs : obs[i].tool = f /\ obs[i].value = turnEnt[f]
  BY <1>1 DEF AlreadyAnswered
<1>3. f \in Fields
  BY RequiredAssumption
<1> QED BY <1>2, <1>3 DEF SourceInv, CheckOf

(* An empty queue means that no field is ready to be checked.               *)
LEMMA QueuedCallsEmpty ==
    ASSUME QueuedCalls = <<>>
    PROVE  \A f \in Fields : ~ReadyToCheck(f)
<1> DEFINE S == {CheckOf("dob"), CheckOf("phone")}
<1>1. ASSUME NEW f \in Fields
      PROVE  QueuedCall(f) \in Seq(S) /\ (QueuedCall(f) = <<>> => ~ReadyToCheck(f))
  <2>1. CheckOf(f) \in S
    BY DEF Fields
  <2>2. QueuedCall(f) = IF ReadyToCheck(f) THEN <<CheckOf(f)>> ELSE <<>>
    BY DEF QueuedCall, CheckOf
  <2> HIDE DEF S
  <2> QED BY <2>1, <2>2
<1>2. {"dob", "phone"} = Fields
  BY DEF Fields
<1>3. QueuedCall("dob") = <<>> /\ QueuedCall("phone") = <<>>
  <2> HIDE DEF S
  <2> QED BY <1>1, <1>2, ConcatSimplifications DEF QueuedCalls
<1> QED BY <1>1, <1>2, <1>3

(* A decision of verification_react takes nothing back: what it leaves      *)
(* unchecked was unchecked before and is of a field it does not verify.     *)
LEMMA UncheckedShrinks ==
    ASSUME NEW call, VerificationStep(call)
    PROVE  /\ Unchecked' \subseteq Unchecked /\ Unchecked' \cap AppliedFields = {}
           /\ \A f \in Fields : CheckOf(f)' = CheckOf(f)
BY DEF VerificationStep, Unchecked, CheckOf, AppliedFields

(* Every step leaves only what waits in the decision or the queue.          *)
LEMMA EvidenceStep ==
    ASSUME MaxSteps >= 2
    PROVE  TypeOK /\ QueueInv /\ EvidenceInv /\ [Next]_vars => EvidenceInv'
<1> SUFFICES ASSUME TypeOK, QueueInv, EvidenceInv, [Next]_vars PROVE EvidenceInv'
  OBVIOUS
<1> USE DEF EvidenceInv
<1>n. steps \in Nat /\ MaxSteps \in Nat /\ pending \in Seq(Calls)
  BY LimitsAssumption DEF TypeOK
(* Steps that leave the memory and the message alone. *)
<1>s. UNCHANGED <<turnEnt, evidence, obs, answered>> => SourceInv'
  BY DEF SourceInv
<1>u. UNCHANGED <<turnEnt, verified, answered>> => UNCHANGED Unchecked
  BY DEF Unchecked, CheckOf
<1>m. ASSUME UNCHANGED <<turnEnt, evidence, obs, answered, verified>>,
             pc' \in Nodes \cup {"idle"},
             \/ pc' \in Outside
             \/ /\ UNCHANGED <<steps, pending>>
                /\ \/ pc' \in Before \cup {"verification_react"}
                      /\ steps = 0 /\ pending = <<>>
                   \/ /\ pc' \in {"memory_retrieve", "post_memory_plan_intent"}
                      /\ steps = 0 /\ pending = <<>> /\ Unchecked = {}
             \/ Unchecked = {} /\ pc' \notin Before \cup
                    {"memory_retrieve", "post_memory_plan_intent"}
      PROVE  EvidenceInv'
  BY <1>m, <1>s, <1>u DEF UncheckedInv, Before, Outside
<1>e. ~EvidenceToCheck \/ ~MissingEvidence => Unchecked = {}
  BY IdentityLeavesNothing, RequiredAssumption
     DEF EvidenceToCheck, MissingEvidence, SourceInv, Unchecked
<1>1. CASE StartTurn
  BY <1>1, <1>s DEF StartTurn, memoryVars, UncheckedInv, Before, Outside
<1>2. CASE RelevanceIntent \/ NegotiationClassification
  BY <1>2, <1>m DEF RelevanceIntent, NegotiationClassification, At, Goto,
       graphVars, memoryVars, UncheckedInv, Before, Outside, Nodes
<1>3. CASE EntityExtract
  <2>1. SourceInv'
    BY <1>3 DEF EntityExtract, memoryVars, SourceInv
  <2>2. UncheckedInv'
    BY <1>3 DEF EntityExtract, At, Goto, UncheckedInv, Before, Outside
  <2> QED BY <2>1, <2>2
<1>4. CASE PrePlanIntent
  BY <1>4, <1>m, <1>e DEF PrePlanIntent, At, Goto, graphVars, memoryVars,
       UncheckedInv, Before, Outside, Nodes
<1>5. CASE ExecutionPathIntent
  BY <1>5, <1>m, <1>e, IdentityLeavesNothing
     DEF ExecutionPathIntent, At, Goto, graphVars, memoryVars, UncheckedInv,
         Before, Outside, Nodes, ReactNodes
<1>6. CASE MemoryRetrieve \/ PostMemoryPlanIntent
  BY <1>6, <1>m DEF MemoryRetrieve, PostMemoryPlanIntent, At, Goto, graphVars,
       memoryVars, UncheckedInv, Before, Outside, Nodes, ReactNodes
<1>7. CASE VerificationTakesQueued
  <2> DEFINE call == Head(pending)
  <2>1. /\ pc = "verification_react" /\ pending # <<>> /\ call = pending[1]
        /\ VerificationStep(call)
    BY <1>7, <1>n DEF VerificationTakesQueued, At
  <2> HIDE DEF call
  <2>2. SourceInv'
    BY <2>1, <1>s DEF VerificationStep
  <2>3. \A f \in Unchecked : steps = 1 /\ call = CheckOf(f)
    BY <2>1 DEF UncheckedInv
  <2>4. ASSUME NEW f \in Unchecked'
        PROVE  pc' = "tool_execution" /\ decision'.call = CheckOf(f)'
    <3>1. f \in Unchecked /\ CheckOf(f)' = CheckOf(f) /\ f \in Fields
      BY <2>1, UncheckedShrinks, RequiredAssumption DEF Unchecked
    <3>2. call = CheckOf(f) /\ call \notin answered /\ call.tool = f
          /\ call = [tool |-> call.tool, value |-> call.value]
      BY <2>3, <3>1 DEF Unchecked, CheckOf
    <3>3. ~AlreadyAnswered(call)
      BY <3>1, <3>2 DEF AlreadyAnswered, SourceInv
    <3>4. Filtered(call) = call /\ call # NoCall
      BY <3>1, <3>2, <3>3 DEF Filtered, NoCall, Fields
    <3>5. ~(steps + 1 > MaxSteps)
      BY <2>3, <3>1, <1>n
    <3> QED BY <2>1, <3>1, <3>2, <3>4, <3>5 DEF VerificationStep, Decide, Goto
  <2>5. pc' \in {"tool_execution", "post_verification_intent"}
    BY <2>1 DEF VerificationStep, Decide, Goto
  <2> QED BY <2>2, <2>4, <2>5 DEF UncheckedInv, Before, Outside
<1>8. CASE VerificationQueuesEvidence
  <2> DEFINE call == Head(QueuedCalls)
  <2>1. /\ pc = "verification_react" /\ pending = <<>> /\ QueuedCalls # <<>>
        /\ pending' = Tail(QueuedCalls) /\ VerificationStep(call)
    BY <1>8 DEF VerificationQueuesEvidence, At
  <2>2. PICK g \in Fields : ReadyToCheck(g) /\ call = CheckOf(g)
    BY <2>1, QueuedCallsShape DEF CheckOf
  <2>3. Filtered(call) = call /\ call # NoCall
    BY <2>2 DEF Filtered, ReadyToCheck, CheckOf, NoCall, Fields
  <2>4. \A f \in Fields : ReadyToCheck(f) =>
          \/ call = CheckOf(f)
          \/ pending' # <<>> /\ pending'[1] = CheckOf(f)
    BY <2>1, QueuedCallsShape DEF CheckOf
  <2> HIDE DEF call
  <2>5. SourceInv'
    BY <2>1, <1>s DEF VerificationStep
  <2>6. ASSUME NEW f \in Unchecked'
        PROVE  /\ pc' = "tool_execution"
               /\ \/ decision'.call = CheckOf(f)'
                  \/ steps' = 1 /\ pending' # <<>> /\ pending'[1] = CheckOf(f)'
    <3>1. f \in Unchecked /\ f \notin AppliedFields /\ CheckOf(f)' = CheckOf(f)
          /\ f \in Fields /\ f \in Required /\ turnEnt[f] # NoValue
          /\ CheckOf(f) \notin answered
      BY <2>1, UncheckedShrinks, RequiredAssumption DEF Unchecked
    <3>2. ReadyToCheck(f)
      BY <3>1, NotReady
    <3>3. steps = 0
      BY <2>1, <3>1 DEF UncheckedInv
    <3>4. ~(steps + 1 > MaxSteps) /\ steps + 1 = 1
      BY <3>3, <1>n
    <3>5. pc' = "tool_execution" /\ decision'.call = call /\ steps' = 1
      BY <2>1, <2>3, <3>4 DEF VerificationStep, Decide, Goto
    <3> QED BY <2>4, <3>1, <3>2, <3>5
  <2>7. pc' \in {"tool_execution", "post_verification_intent"}
    BY <2>1 DEF VerificationStep, Decide, Goto
  <2> QED BY <2>5, <2>6, <2>7 DEF UncheckedInv, Before, Outside
<1>9. CASE VerificationAsksLLM
  <2>1. PICK call : VerificationStep(call)
    BY <1>9 DEF VerificationAsksLLM
  <2>2. \A f \in Fields : ~ReadyToCheck(f)
    BY <1>9, QueuedCallsEmpty DEF VerificationAsksLLM
  <2>3. Unchecked' = {}
    <3> SUFFICES ASSUME NEW f \in Unchecked' PROVE FALSE
      OBVIOUS
    <3>1. f \in Unchecked /\ f \notin AppliedFields
          /\ f \in Fields /\ f \in Required /\ turnEnt[f] # NoValue
          /\ CheckOf(f) \notin answered
      BY <2>1, UncheckedShrinks, RequiredAssumption DEF Unchecked
    <3> QED BY <2>2, <3>1, NotReady
  <2>4. SourceInv' /\ pc' \in {"tool_execution", "post_verification_intent"}
    BY <2>1, <1>s DEF VerificationStep, Decide, Goto
  <2> QED BY <2>3, <2>4 DEF UncheckedInv, Before, Outside
<1>10. CASE PostVerificationIntent
  BY <1>10, <1>m DEF PostVerificationIntent, At, Goto, graphVars, memoryVars,
       UncheckedInv, Before, Outside, Nodes, ReactNodes
<1>11. CASE React
  <2>1. /\ pc = "react" /\ UNCHANGED <<turnEnt, evidence, obs, answered, verified>>
        /\ pc' \in {"tool_execution", "plan_proposal_state"}
    BY <1>11 DEF React, At, Decide, Goto, memoryVars
  <2> QED BY <2>1, <1>m DEF UncheckedInv, Before, Outside, Nodes
<1>12. CASE RunVerifyTool
  <2> DEFINE call == decision.call
             entry == [tool |-> call.tool, value |-> call.value,
                       status |-> Verdict(call.tool, call.value),
                       output |-> AttemptsAfter(call.tool, call.value)[call.tool]]
  <2>1. call \in Calls /\ call.tool \in Fields
    BY <1>12 DEF RunVerifyTool, TypeOK, NoCall, Fields
  <2>2. call.value \in Values \cup {NoValue}
        /\ call = [tool |-> call.tool, value |-> call.value]
    BY <2>1 DEF Calls
  <2>3. entry \in Observations /\ entry.tool = call.tool /\ entry.value = call.value
    BY <2>1, <2>2, VerdictType
  <2>4. /\ obs' = Remember(entry) /\ answered' = answered \cup {call}
        /\ pc = "tool_execution" /\ pc' = "verification_react"
        /\ UNCHANGED <<steps, pending, turnEnt, evidence, verified>>
    BY <1>12 DEF RunVerifyTool, At, Goto, graphVars
  <2> HIDE DEF entry, call
  <2>5. SourceInv'
    <3>1. [tool |-> entry.tool, value |-> entry.value] \in answered'
      BY <2>2, <2>3, <2>4
    <3> QED BY <2>3, <2>4, <3>1, SourceRemember
  <2>6. ASSUME NEW f \in Unchecked'
        PROVE  steps' = 1 /\ pending' # <<>> /\ pending'[1] = CheckOf(f)'
    <3>1. f \in Unchecked /\ CheckOf(f) # call /\ CheckOf(f)' = CheckOf(f)
      BY <2>4 DEF Unchecked, CheckOf
    <3> QED BY <2>4, <3>1 DEF UncheckedInv, call
  <2> QED BY <2>4, <2>5, <2>6 DEF UncheckedInv, Before, Outside
<1>13. CASE RunOtherTool
  <2>1. PICK out \in OtherOutputs :
           obs' = Remember([tool |-> OtherTool, value |-> NoValue,
                            status |-> "done", output |-> out])
    BY <1>13 DEF RunOtherTool
  <2> DEFINE entry == [tool |-> OtherTool, value |-> NoValue,
                       status |-> "done", output |-> out]
  <2>2. entry \in Observations /\ entry.tool \notin Fields
    BY OtherAssumption DEF Observations, Tools
  <2>3. /\ obs' = Remember(entry) /\ pc = "tool_execution" /\ pc' = "react"
        /\ decision.call.tool \notin Fields
        /\ UNCHANGED <<turnEnt, evidence, answered, verified>>
    BY <1>13, <2>1, OtherAssumption DEF RunOtherTool, At, Goto, graphVars
  <2> HIDE DEF entry
  <2>4. SourceInv'
    BY <2>2, <2>3, SourceRemember
  <2>5. Unchecked = {}
    <3> SUFFICES ASSUME NEW f \in Unchecked PROVE FALSE
      OBVIOUS
    <3>1. pending = <<>>
      BY <2>3 DEF QueueInv
    <3>2. decision.call = CheckOf(f) /\ f \in Fields
      BY <2>3, <3>1, RequiredAssumption DEF UncheckedInv, Unchecked
    <3> QED BY <2>3, <3>2 DEF CheckOf
  <2> QED BY <2>3, <2>4, <2>5, <1>u DEF UncheckedInv, Before, Outside
<1>14. CASE PlanProposalState \/ PlanProposalGraph \/ PlanProposalDirective
  BY <1>14, <1>m DEF PlanProposalState, PlanProposalGraph, PlanProposalDirective,
       At, Goto, graphVars, memoryVars, UncheckedInv, Before, Outside, Nodes
<1>15. CASE ReflectComplete \/ ReflectRetry
  BY <1>15, <1>m DEF ReflectComplete, ReflectRetry, At, Goto, memoryVars,
       UncheckedInv, Before, Outside, Nodes
<1>16. CASE Respond \/ NodeFails \/ ToolFails \/ NodeLimitReached
  BY <1>16, <1>m DEF Respond, NodeFails, ToolFails, NodeLimitReached, EndTurn,
       graphVars, memoryVars, Outside
<1>17. CASE UNCHANGED vars
  BY <1>17, <1>s, <1>u DEF vars, graphVars, memoryVars, UncheckedInv, CheckOf
<1> QED
  BY <1>1, <1>2, <1>3, <1>4, <1>5, <1>6, <1>7, <1>8, <1>9, <1>10, <1>11, <1>12,
     <1>13, <1>14, <1>15, <1>16, <1>17 DEF Next, GraphStep

(* With two steps or more in a turn (8 in the code), no value given for a   *)
(* missing field is left unchecked when the answer is planned.              *)
THEOREM EvidenceIsChecked ==
    ASSUME MaxSteps >= 2
    PROVE  Spec => []EvidenceChecked
<1>1. Init => EvidenceInv /\ QueueInv
  BY EvidenceInit, QueueInit
<1>2. TypeOK /\ QueueInv /\ EvidenceInv /\ [Next]_vars => EvidenceInv' /\ QueueInv'
  BY EvidenceStep, QueueStep
<1>3. EvidenceInv => EvidenceChecked
  BY DEF EvidenceInv, UncheckedInv, EvidenceChecked, Unchecked, CheckOf, Before,
         Outside
<1> QED BY <1>1, <1>2, <1>3, TypeCorrect, PTL DEF Spec
=============================================================================
