--------------------------- MODULE CollectionTurn ---------------------------
(***************************************************************************)
(* The collection agent's turns in one session: the LangGraph graph that   *)
(* CollectionAgent._build_graph compiles, run by run_turn once for every   *)
(* customer message while the session's lock is held.                      *)
(*                                                                         *)
(* One action is one node of the graph (one LangGraph super-step).  What   *)
(* an LLM answers is a nondeterministic choice; the nodes' rules that      *)
(* override the LLM, the two tool-calling loops (react and                 *)
(* verification_react), the tool history kept in the session memory and    *)
(* the verification state derived from it are modelled as written.         *)
(***************************************************************************)
EXTENDS Integers, Sequences

CONSTANTS
    Required,       \* verification fields the policy asks for
    Values,         \* values a customer (or the LLM) may give for a field
    Registered,     \* the value on record, the same token for every field
    NoValue,        \* a field the message does not mention
    OtherTool,      \* any registered tool that verifies nothing
    OtherOutputs,   \* what such a tool may return
    MaxSteps,       \* max_steps of both react nodes (8 in the code)
    MaxRetry,       \* max_retry_loops of the reflect node (2)
    MaxFailed,      \* failed attempts that lock a field (3)
    HistoryCap,     \* entries kept in tool_observations_history (40)
    NodeBudget,     \* LangGraph's recursion_limit for one invocation (25)
    FailingNodes,   \* nodes whose LLM call or tool may raise
    MaxTurns        \* bound on the customer messages explored

Fields == {"dob", "phone"}
Tools  == Fields \cup {OtherTool}      \* verify_dob and verify_mobile are
                                       \* named by the field they check
ReactNodes == {"react", "verification_react"}

Nodes == ReactNodes \cup
    {"relevance_intent", "entity_extract", "negotiation_classification",
     "pre_plan_intent", "execution_path_intent", "memory_retrieve",
     "post_memory_plan_intent", "post_verification_intent",
     "tool_execution", "plan_proposal_state", "plan_proposal_graph",
     "plan_proposal_directive", "reflect", "relevant_response",
     "irrelevant_response"}

ASSUME RequiredAssumption == Required \subseteq Fields /\ Required # {}
ASSUME ValuesAssumption   == Registered \in Values /\ NoValue \notin Values
ASSUME OtherAssumption    == OtherTool \notin Fields /\ OtherOutputs \subseteq Nat
ASSUME LimitsAssumption   ==
    /\ MaxSteps \in Nat /\ MaxRetry \in Nat \ {0} /\ MaxFailed \in Nat
    /\ HistoryCap \in Nat \ {0} /\ NodeBudget \in Nat /\ MaxTurns \in Nat
ASSUME FailingAssumption  == FailingNodes \subseteq Nodes \ ReactNodes

VARIABLES
    pc,          \* the node about to run, or "idle" between turns
    steps,       \* state["steps"]: decisions taken by the react nodes
    visited,     \* nodes run in this invocation of the graph
    decision,    \* state["decision"]: the tool call chosen, and by which node
    pending,     \* state["pending_tool_calls"]
    turnEnt,     \* memory["extracted_entities_turn"], restricted to Fields
    evidence,    \* fields the message is seen to mention (entities or regex)
    planRetries, \* state["reflection_plan_retry_count"]
    obs,         \* memory["tool_observations_history"]
    verified,    \* memory["verification_verified_fields"]
    attempts,    \* failed rows of verification_attempts.json per field
    outcome,     \* how the last turn ended
    turns,       \* customer messages so far
    passed,      \* history: fields whose tool has answered "verified"
    answered,    \* history: checks ever executed in the session
    tried,       \* history: checks executed in this turn
    toolRuns     \* history: tool executions in this turn

graphVars  == <<steps, decision, pending, turnEnt, evidence, planRetries>>
memoryVars == <<obs, verified, attempts, passed, answered>>
turnVars   == <<tried, toolRuns, turns>>
vars == <<pc, visited, outcome, graphVars, memoryVars, turnVars>>

Calls  == [tool : Tools, value : Values \cup {NoValue}]
NoCall == [tool |-> "none", value |-> NoValue]

(* What the LLM of a react node may ask for: nothing, a check of any value, *)
(* or another registered tool.                                              *)
LLMCalls ==
    {NoCall} \cup [tool : Fields, value : Values]
             \cup {[tool |-> OtherTool, value |-> NoValue]}

Observations ==
    [tool : Tools, value : Values \cup {NoValue},
     status : {"verified", "failed", "locked", "done"}, output : Nat]

Outcomes == {"none", "responded", "error", "node_limit"}

IdentityVerified == Required \subseteq verified

-----------------------------------------------------------------------------
(* Moving along the graph *)

At(node) == pc = node /\ visited < NodeBudget

Goto(node) ==
    /\ pc' = node
    /\ visited' = visited + 1
    /\ UNCHANGED outcome

EndTurn(result) ==
    /\ pc' = "idle"
    /\ outcome' = result

Init ==
    /\ pc = "idle" /\ steps = 0 /\ visited = 0 /\ outcome = "none"
    /\ decision = [call |-> NoCall, by |-> "none"]
    /\ pending = <<>> /\ planRetries = 0
    /\ turnEnt = [f \in Fields |-> NoValue] /\ evidence = {}
    /\ obs = <<>> /\ verified = {}
    /\ attempts \in [Fields -> 0..MaxFailed]   \* rows of earlier sessions
    /\ turns = 0
    /\ passed = {} /\ answered = {} /\ tried = {} /\ toolRuns = 0

(* run_turn: a fresh graph state; the memory of the session is kept. *)
StartTurn ==
    /\ pc = "idle" /\ turns < MaxTurns
    /\ pc' = "relevance_intent" /\ visited' = 0 /\ outcome' = "none"
    /\ steps' = 0 /\ pending' = <<>> /\ planRetries' = 0
    /\ decision' = [call |-> NoCall, by |-> "none"]
    /\ turns' = turns + 1 /\ tried' = {} /\ toolRuns' = 0
    /\ UNCHANGED <<turnEnt, evidence, memoryVars>>

RelevanceIntent ==
    /\ At("relevance_intent")
    /\ \/ Goto("entity_extract")
       \/ Goto("irrelevant_response")
    /\ UNCHANGED <<graphVars, memoryVars, turnVars>>

(* The LLM extracts entities; the routing nodes also look for obvious dates *)
(* and numbers in the text itself, so evidence may exceed the entities.     *)
EntityExtract ==
    /\ At("entity_extract")
    /\ \E ent \in [Fields -> Values \cup {NoValue}], seen \in SUBSET Fields :
          /\ turnEnt' = ent
          /\ evidence' = seen \cup {f \in Fields : ent[f] # NoValue}
    /\ Goto("negotiation_classification")
    /\ UNCHANGED <<steps, decision, pending, planRetries, memoryVars, turnVars>>

NegotiationClassification ==
    /\ At("negotiation_classification")
    /\ Goto("pre_plan_intent")
    /\ UNCHANGED <<graphVars, memoryVars, turnVars>>

(* The pre-plan rule looks at both fields, whatever the policy requires. *)
EvidenceToCheck == ~IdentityVerified /\ evidence \ verified # {}

PrePlanIntent ==
    /\ At("pre_plan_intent")
    /\ \/ Goto("execution_path_intent")
       \/ ~EvidenceToCheck /\ Goto("plan_proposal_state")
    /\ UNCHANGED <<graphVars, memoryVars, turnVars>>

(* Mutant of MissingEvidence: the execution path rule is lost. *)
NoMissingEvidence == FALSE

MissingEvidence == ~IdentityVerified /\ evidence \cap (Required \ verified) # {}

ExecutionPathIntent ==
    /\ At("execution_path_intent")
    /\ \/ ~MissingEvidence /\ Goto("memory_retrieve")
       \/ IdentityVerified /\ Goto("react")
       \/ ~IdentityVerified /\ Goto("verification_react")
    /\ UNCHANGED <<graphVars, memoryVars, turnVars>>

MemoryRetrieve ==
    /\ At("memory_retrieve")
    /\ Goto("post_memory_plan_intent")
    /\ UNCHANGED <<graphVars, memoryVars, turnVars>>

PostMemoryPlanIntent ==
    /\ At("post_memory_plan_intent")
    /\ \/ Goto("plan_proposal_state")
       \/ IdentityVerified /\ Goto("react")
       \/ ~IdentityVerified /\ Goto("verification_react")
    /\ UNCHANGED <<graphVars, memoryVars, turnVars>>

-----------------------------------------------------------------------------
(* The two react nodes *)

(* Mutant of Decide: the limit looks at the counter before this decision. *)
DecideLate(node, call, next) ==
    /\ steps' = steps + 1
    /\ decision' = [call |-> call, by |-> node]
    /\ Goto(IF steps > MaxSteps \/ call = NoCall THEN next ELSE "tool_execution")

(* ReactNode.execute counts the decision; ReactNode.route then sends it to  *)
(* the tool node unless nothing was chosen or the step limit is passed.     *)
Decide(node, call, next) ==
    /\ steps' = steps + 1
    /\ decision' = [call |-> call, by |-> node]
    /\ Goto(IF steps + 1 > MaxSteps \/ call = NoCall
            THEN next ELSE "tool_execution")

(* Mutant of LatestStatusIs: any answer of the tool. *)
AnyStatusIs(f, status) == \E i \in DOMAIN obs : obs[i].tool = f

LatestStatusIs(f, status) ==
    \E i \in DOMAIN obs :
        /\ obs[i].tool = f /\ obs[i].status = status
        /\ \A j \in DOMAIN obs : j > i => obs[j].tool # f

(* _apply_verification_state_from_observations: a verified field stays      *)
(* verified; an unresolved one takes the latest answer of its tool.         *)
AppliedFields ==
    verified \cup {f \in Required \ verified : LatestStatusIs(f, "verified")}

(* _field_has_terminal_verification_result, every answer being terminal. *)
AlreadyAnswered(call) ==
    \E i \in DOMAIN obs : obs[i].tool = call.tool /\ obs[i].value = call.value

(* Mutant of Filtered: nothing is dropped. *)
Unfiltered(call) == call

(* Redundant verification calls are dropped from a decision. *)
Filtered(call) ==
    IF call.tool \in Fields /\ AlreadyAnswered(call) THEN NoCall ELSE call

ReadyToCheck(f) ==
    /\ f \in Required \ AppliedFields
    /\ turnEnt[f] # NoValue
    /\ ~AlreadyAnswered([tool |-> f, value |-> turnEnt[f]])

QueuedCall(f) ==
    IF ReadyToCheck(f) THEN <<[tool |-> f, value |-> turnEnt[f]]>> ELSE <<>>

(* Fields in the order of the sorted verification_missing_fields. *)
QueuedCalls == QueuedCall("dob") \o QueuedCall("phone")

VerificationStep(call) ==
    /\ verified' = AppliedFields
    /\ Decide("verification_react", Filtered(call), "post_verification_intent")
    /\ UNCHANGED <<turnEnt, evidence, planRetries, obs, attempts, passed,
                   answered, turnVars>>

(* A call queued by an earlier visit is taken without asking the LLM. *)
VerificationTakesQueued ==
    /\ At("verification_react") /\ pending # <<>>
    /\ pending' = Tail(pending)
    /\ VerificationStep(Head(pending))

(* Fresh evidence for missing fields: check all of it, one call at a time. *)
VerificationQueuesEvidence ==
    /\ At("verification_react") /\ pending = <<>> /\ QueuedCalls # <<>>
    /\ pending' = Tail(QueuedCalls)
    /\ VerificationStep(Head(QueuedCalls))

VerificationAsksLLM ==
    /\ At("verification_react") /\ pending = <<>> /\ QueuedCalls = <<>>
    /\ pending' = <<>>
    /\ \E call \in LLMCalls : VerificationStep(call)

PostVerificationIntent ==
    /\ At("post_verification_intent")
    /\ \/ Goto("plan_proposal_state")
       \/ IdentityVerified /\ Goto("react")
    /\ UNCHANGED <<graphVars, memoryVars, turnVars>>

React ==
    /\ At("react")
    /\ pending' = IF pending = <<>> THEN <<>> ELSE Tail(pending)
    /\ \E call \in IF pending = <<>> THEN LLMCalls ELSE {Head(pending)} :
          Decide("react", call, "plan_proposal_state")
    /\ UNCHANGED <<turnEnt, evidence, planRetries, memoryVars, turnVars>>

-----------------------------------------------------------------------------
(* Tool execution *)

Verdict(f, value) ==
    IF attempts[f] >= MaxFailed THEN "locked"
    ELSE IF value = Registered THEN "verified" ELSE "failed"

(* VerifyDOBTool / VerifyMobileTool append one row to the attempts file. *)
AttemptsAfter(f, value) ==
    IF Verdict(f, value) = "failed"
    THEN [attempts EXCEPT ![f] = @ + 1] ELSE attempts

(* Mutant of Newest: the oldest entries are kept. *)
Oldest(s) == IF Len(s) <= HistoryCap THEN s ELSE SubSeq(s, 1, HistoryCap)

(* _persist_tool_observation_history: an entry equal to the last one is not *)
(* repeated, and only the newest HistoryCap entries are kept.               *)
Newest(s) == IF Len(s) <= HistoryCap THEN s
             ELSE SubSeq(s, Len(s) - HistoryCap + 1, Len(s))

Remember(entry) ==
    IF obs # <<>> /\ obs[Len(obs)] = entry THEN obs
    ELSE Newest(Append(obs, entry))

RunVerifyTool ==
    LET call == decision.call
    IN  /\ At("tool_execution") /\ call.tool \in Fields
        /\ attempts' = AttemptsAfter(call.tool, call.value)
        /\ obs' = Remember([tool |-> call.tool, value |-> call.value,
                            status |-> Verdict(call.tool, call.value),
                            output |-> attempts'[call.tool]])
        /\ passed' = IF Verdict(call.tool, call.value) = "verified"
                     THEN passed \cup {call.tool} ELSE passed
        /\ answered' = answered \cup {call}
        /\ tried' = tried \cup {call}
        /\ toolRuns' = toolRuns + 1
        /\ Goto("verification_react")
        /\ UNCHANGED <<graphVars, verified, turns>>

RunOtherTool ==
    /\ At("tool_execution") /\ decision.call.tool = OtherTool
    /\ \E out \in OtherOutputs :
          obs' = Remember([tool |-> OtherTool, value |-> NoValue,
                           status |-> "done", output |-> out])
    /\ toolRuns' = toolRuns + 1
    /\ Goto("react")
    /\ UNCHANGED <<graphVars, verified, attempts, passed, answered, tried, turns>>

-----------------------------------------------------------------------------
(* Planning, reflection, response *)

PlanProposalState ==
    /\ At("plan_proposal_state")
    /\ Goto("plan_proposal_graph")
    /\ UNCHANGED <<graphVars, memoryVars, turnVars>>

PlanProposalGraph ==
    /\ At("plan_proposal_graph")
    /\ Goto("plan_proposal_directive")
    /\ UNCHANGED <<graphVars, memoryVars, turnVars>>

PlanProposalDirective ==
    /\ At("plan_proposal_directive")
    /\ Goto("reflect")
    /\ UNCHANGED <<graphVars, memoryVars, turnVars>>

(* A retryable reflection (invalid or empty JSON) plans again until the     *)
(* retry limit, after which it counts as complete.                          *)
ReflectComplete ==
    /\ At("reflect")
    /\ planRetries' = 0
    /\ Goto("relevant_response")
    /\ UNCHANGED <<steps, decision, pending, turnEnt, evidence,
                   memoryVars, turnVars>>

(* Mutant of ReflectRetry: no limit. *)
ReflectRetryForEver ==
    /\ At("reflect")
    /\ UNCHANGED planRetries
    /\ Goto("plan_proposal_state")
    /\ UNCHANGED <<steps, decision, pending, turnEnt, evidence,
                   memoryVars, turnVars>>

ReflectRetry ==
    /\ At("reflect") /\ planRetries + 1 < MaxRetry
    /\ planRetries' = planRetries + 1
    /\ Goto("plan_proposal_state")
    /\ UNCHANGED <<steps, decision, pending, turnEnt, evidence,
                   memoryVars, turnVars>>

Respond ==
    /\ At("relevant_response") \/ At("irrelevant_response")
    /\ EndTurn("responded")
    /\ visited' = visited + 1
    /\ UNCHANGED <<graphVars, memoryVars, turnVars>>

-----------------------------------------------------------------------------
(* Turns that end without a response *)

(* The rules that skip the LLM also avoid its failures. *)
AsksLLM ==
    CASE pc = "pre_plan_intent"          -> ~EvidenceToCheck
      [] pc = "execution_path_intent"    -> ~MissingEvidence
      [] pc = "post_verification_intent" -> IdentityVerified
      [] OTHER                           -> pc # "tool_execution"

NodeFails ==
    /\ pc \in FailingNodes /\ visited < NodeBudget /\ AsksLLM
    /\ EndTurn("error")
    /\ UNCHANGED <<visited, graphVars, memoryVars, turnVars>>

(* A tool raises before it has done anything, or the executor fails to log  *)
(* or validate the answer of a verification that is already on file.        *)
ToolFails ==
    LET call == decision.call
    IN  /\ At("tool_execution") /\ pc \in FailingNodes
        /\ \/ UNCHANGED attempts
           \/ call.tool \in Fields /\ attempts' = AttemptsAfter(call.tool, call.value)
        /\ EndTurn("error")
        /\ UNCHANGED <<visited, graphVars, obs, verified, passed, answered, turnVars>>

(* LangGraph raises GraphRecursionError instead of running another node. *)
NodeLimitReached ==
    /\ pc # "idle" /\ visited >= NodeBudget
    /\ EndTurn("node_limit")
    /\ UNCHANGED <<visited, graphVars, memoryVars, turnVars>>

-----------------------------------------------------------------------------
GraphStep ==
    \/ RelevanceIntent \/ EntityExtract \/ NegotiationClassification
    \/ PrePlanIntent \/ ExecutionPathIntent
    \/ MemoryRetrieve \/ PostMemoryPlanIntent
    \/ VerificationTakesQueued \/ VerificationQueuesEvidence
    \/ VerificationAsksLLM \/ PostVerificationIntent \/ React
    \/ RunVerifyTool \/ RunOtherTool
    \/ PlanProposalState \/ PlanProposalGraph \/ PlanProposalDirective
    \/ ReflectComplete \/ ReflectRetry \/ Respond
    \/ NodeFails \/ ToolFails \/ NodeLimitReached

Next == StartTurn \/ GraphStep

Spec == Init /\ [][Next]_vars

(* The thread that holds the session lock keeps running the graph; nothing  *)
(* makes a customer send another message.                                   *)
FairSpec == Spec /\ WF_vars(GraphStep)

-----------------------------------------------------------------------------
(* Properties *)

(* Every variable keeps its type; in particular the tool history kept in    *)
(* the session memory never outgrows its cap and no field collects more     *)
(* failed attempts than lock it (agent.py 617-631, verify_mobile_tool.py).  *)
TypeOK ==
    /\ pc \in Nodes \cup {"idle"} /\ outcome \in Outcomes
    /\ steps \in Nat /\ visited \in Nat /\ toolRuns \in Nat /\ turns \in Nat
    /\ decision \in [call : Calls \cup {NoCall}, by : ReactNodes \cup {"none"}]
    /\ pending \in Seq(Calls)
    /\ turnEnt \in [Fields -> Values \cup {NoValue}]
    /\ evidence \in SUBSET Fields
    /\ planRetries \in 0..MaxRetry-1
    /\ obs \in Seq(Observations) /\ Len(obs) <= HistoryCap
    /\ verified \in SUBSET Fields /\ passed \in SUBSET Fields
    /\ attempts \in [Fields -> 0..MaxFailed]
    /\ tried \in SUBSET Calls /\ answered \in SUBSET Calls

(* Whatever the LLM answers, one customer message runs at most MaxSteps     *)
(* tools, although two react nodes hand over to each other and count their  *)
(* steps in one shared counter.                                             *)
ToolRunsBounded == toolRuns <= MaxSteps

(* Whatever the LLM answers, the graph by itself (LangGraph's limit aside)  *)
(* reaches its end after this many nodes: the loops through the two react   *)
(* nodes, post_verification_intent and the reflect retries cannot feed each *)
(* other for ever.                                                          *)
TurnLengthBounded == visited <= 2 * MaxSteps + 4 * MaxRetry + 11

(* A field is held to be verified only if its tool has said so: no LLM      *)
(* answer, failed or locked check, crash or truncated history can do it.    *)
VerifiedBacked == verified \subseteq passed

(* A recorded success is never lost: from the next decision on, and in      *)
(* every later turn even if this one dies right after the tool, the field   *)
(* counts as verified.  Only verification_react turns history into state,   *)
(* so this is about every path that leads to another decision.              *)
SuccessNotLost ==
    pc \in {"react", "tool_execution", "post_verification_intent"}
        => passed \cap Required \subseteq verified

(* verification_react never repeats a check already made in this turn, by   *)
(* whichever node, for all the LLM may insist: failed attempts are not      *)
(* burnt twice on one value.                                                *)
NoRepeatedCheck ==
    pc = "tool_execution" /\ decision.by = "verification_react"
        => decision.call \notin tried

(* The queue of checks is consumed before anything else: it never reaches   *)
(* the general react node and only holds fields still to be verified.       *)
QueueOnlyForMissingFields ==
    pending # <<>> => /\ pc # "react"
                      /\ \A i \in DOMAIN pending : pending[i].tool \notin verified

(* A value given for a missing field is checked before the answer is        *)
(* planned, whichever route the intents choose.                             *)
EvidenceChecked ==
    pc \in {"plan_proposal_state", "relevant_response"} =>
        \A f \in Required \ verified :
            turnEnt[f] # NoValue
                => [tool |-> f, value |-> turnEnt[f]] \in answered

(* A verified field stays verified in the session. *)
VerifiedSticky == [][verified \subseteq verified']_vars

(* With a limit above TurnLengthBounded, every turn ends by itself. *)
TurnEndsByItself ==
    (pc # "idle") ~> (pc = "idle" /\ outcome # "node_limit")
=============================================================================
