--------------------------- MODULE Conversation ---------------------------
(***************************************************************************)
(* One collections session as a conversation: what each customer message   *)
(* does to the negotiation state, the conversation plan and the proposal   *)
(* the turn answers with.  A turn classifies the message, reaches planning *)
(* directly or through tools, plans (once more if reflection rejects it)   *)
(* and renders an answer.  The LLM is a free choice among what the nodes   *)
(* accept from it.  CollectionTurn has the tool loops, SessionTurns the    *)
(* session's lock and the routers; here they are the environment.          *)
(***************************************************************************)
EXTENDS PlanProposal, ConversationPlan

CONSTANTS
    Payloads,    \* classifications the LLM may answer with
    Wordings,    \* pairs <<phrases, entities>> the keyword rules may find
    Tools,       \* registered tools, by what the planning nodes tell apart
    MaxReflect   \* max_retry_loops of the reflect node

Raw == [mode : STRING, stage : STRING, posture : STRING, discount : STRING,
        hardship : BOOLEAN]

ASSUME PayloadsAssumption == Payloads \subseteq Raw
ASSUME MaxReflectAssumption == MaxReflect \in Nat \ {0}

VARIABLES
    verified,    \* identity_verified
    neg,         \* the negotiation fields of the session
    mode,        \* memory["mode"]
    plan,        \* active_conversation_plan
    offer,       \* a discount_recommendation is stored
    blocked,     \* agent_loop_blocked
    tool,        \* tool of the newest entry of tool_observations_history
    pc,          \* the node the turn is at
    text,        \* what the message is
    planned,     \* the turn reached planning without a react node
    retries,     \* reflection_plan_retry_count
    proposal,    \* plan_proposal of this turn
    reply        \* what the last turn answered

sessionVars == <<verified, neg, mode, plan, offer, blocked, tool>>
turnVars    == <<pc, text, planned, retries, proposal, reply>>
vars        == <<sessionVars, turnVars>>

Modes   == {"strict_collections", "hardship_negotiation"}
Stages  == {"idle", "classify", "route", "plan_state", "plan_graph",
            "directive", "reflect", "respond"}
Replies == {"none", "plain", "dues", "handoff", "failed"}
NoProposal == [about |-> "plan", target |-> "customer", tree |-> "none",
               draft |-> "none", objective |-> "collect_verification"]

Init ==
    /\ verified = FALSE /\ neg = NegotiationDefaults
    /\ mode = "strict_collections" /\ plan = NoPlan
    /\ offer = FALSE /\ blocked = FALSE /\ tool = "none"
    /\ pc = "idle" /\ text = "talk" /\ planned = FALSE /\ retries = 0
    /\ proposal = NoProposal /\ reply = "none"

-----------------------------------------------------------------------------
(* Between turns: the routers and the operator *)

(* _maybe_handle_admin_message: another customer, from the start; who was   *)
(* verified and what a specialist recommended are kept.                     *)
AdminMessage ==
    /\ pc = "idle"
    /\ neg' = NegotiationDefaults /\ mode' = "strict_collections"
    /\ plan' = NoPlan /\ blocked' = FALSE /\ reply' = "plain"
    /\ UNCHANGED <<verified, offer, tool, pc, text, planned, retries, proposal>>

(* A router stores the recommendation the specialist made in answer to a    *)
(* hand-over.                                                               *)
SpecialistAnswers ==
    /\ pc = "idle" /\ reply = "handoff"
    /\ offer' = TRUE
    /\ UNCHANGED <<verified, neg, mode, plan, blocked, tool, turnVars>>

(* A router's loop guard. *)
LoopCapped ==
    /\ pc = "idle" /\ reply \in {"plain", "dues"}
    /\ blocked' = TRUE
    /\ UNCHANGED <<verified, neg, mode, plan, offer, tool, turnVars>>

-----------------------------------------------------------------------------
(* A turn up to planning *)

(* run_turn and the relevance node: an irrelevant message is answered with  *)
(* a fixed text.                                                            *)
ReceiveRelevant ==
    /\ pc = "idle"
    /\ text' \in Texts
    /\ pc' = "classify" /\ retries' = 0 /\ planned' = FALSE
    /\ proposal' = NoProposal /\ reply' = "none"
    /\ UNCHANGED sessionVars

ReceiveIrrelevant ==
    /\ pc = "idle"
    /\ reply' = "plain"
    /\ UNCHANGED <<sessionVars, pc, text, planned, retries, proposal>>

(* The keyword rules answer when the provider limits the rate of calls. *)
Classifications ==
    Payloads \cup {FallbackClassification(neg, w[1], w[2], verified) : w \in Wordings}

Classify ==
    /\ pc = "classify"
    /\ \E raw \in Classifications :
          neg' = MergeWithPriorState(neg, raw, verified)
    /\ mode' = IF neg'.mode = "hardship_negotiation"
               THEN "hardship_negotiation" ELSE "strict_collections"
    /\ pc' = "route"
    /\ UNCHANGED <<verified, plan, offer, blocked, tool, text, planned, retries,
                   proposal, reply>>

(* pre_plan_intent or post_memory_plan_intent choose planning. *)
PlanDirectly ==
    /\ pc = "route"
    /\ planned' = TRUE /\ pc' = "plan_state"
    /\ UNCHANGED <<sessionVars, text, retries, proposal, reply>>

(* verification_react and react with their tools: the checks may verify the *)
(* customer, and the other tools are within reach of verified customers.    *)
UseTools ==
    /\ pc = "route"
    /\ \E success \in BOOLEAN : verified' = (verified \/ success)
    /\ tool' \in IF verified' THEN Tools ELSE {tool, "other"}
    /\ planned' = FALSE /\ pc' = "plan_state"
    /\ UNCHANGED <<neg, mode, plan, offer, blocked, text, retries, proposal, reply>>

-----------------------------------------------------------------------------
(* Planning *)

(* plan_proposal_utils.effective_mode *)
EffectiveMode ==
    IF neg.mode = "hardship_negotiation" \/ neg.hardship
    THEN "hardship_negotiation" ELSE mode

(* _classify_plan_signals: a failing classifier suggests what holds, and    *)
(* hardship insists.                                                        *)
SuggestedModes == IF neg.hardship THEN {"hardship_negotiation"} ELSE Modes

(* PlanProposalStateNode: only a mode that differs from the effective one   *)
(* is stored.                                                               *)
PlanState ==
    /\ pc = "plan_state"
    /\ \E suggested \in SuggestedModes :
          mode' = IF suggested # EffectiveMode THEN suggested ELSE mode
    /\ pc' = "plan_graph"
    /\ UNCHANGED <<verified, neg, plan, offer, blocked, tool, text, planned,
                   retries, proposal, reply>>

UpdatePlan ==
    /\ pc = "plan_graph"
    /\ plan' = UpdatedPlan(plan, verified, EndsPlan(text))
    /\ pc' = "directive"
    /\ UNCHANGED <<verified, neg, mode, offer, blocked, tool, text, planned,
                   retries, proposal, reply>>

(* The directive node takes the first case that applies. *)
Propose(about, target, tree, draft, sounds, responseTarget) ==
    /\ proposal' = Proposed(about, target, tree, draft, neg, verified,
                            plan.current, sounds, responseTarget)
    /\ pc' = "reflect"
    /\ UNCHANGED <<verified, mode, plan, tool, text, planned, retries, reply>>

ProposeGuard ==
    /\ pc = "directive" /\ blocked
    /\ blocked' = FALSE
    /\ Propose("guard", "customer", "none", "none", FALSE, "customer")
    /\ UNCHANGED <<neg, offer>>

ProposeClosing ==
    /\ pc = "directive" /\ ~blocked /\ ClosesConversation(text)
    /\ Propose("closing", "customer", "operation", "none", FALSE, "customer")
    /\ UNCHANGED <<neg, offer, blocked>>

(* The recommendation is used up before anything has been rendered of it. *)
ProposeOffer ==
    /\ pc = "directive" /\ ~blocked /\ ~ClosesConversation(text) /\ offer
    /\ offer' = FALSE
    /\ neg' = [neg EXCEPT !.flags = FlagsAtOffer(neg)]
    /\ Propose("offer", "customer", "operation", "none", FALSE, "customer")
    /\ UNCHANGED blocked

NothingForced ==
    pc = "directive" /\ ~blocked /\ ~ClosesConversation(text) /\ ~offer

ProposeHandoff ==
    /\ NothingForced /\ SpecialistNeeded(neg, verified)
    /\ neg' = [neg EXCEPT !.flags = FlagsAtHandoff(neg)]
    /\ Propose("handoff", Specialist, "none", "none", FALSE, Specialist)
    /\ UNCHANGED <<offer, blocked>>

(* Under hardship the eligibility tool is to be followed by a proposal tool *)
(* that this node never calls.                                              *)
AwaitsProposalTool ==
    EffectiveMode = "hardship_negotiation" /\ tool = "offer_eligibility"

ProposePlan ==
    /\ NothingForced /\ ~SpecialistNeeded(neg, verified) /\ ~AwaitsProposalTool
    /\ \E target \in {"customer", "self"}, tree \in DraftTrees,
          draft \in Writings, sounds \in BOOLEAN :
          Propose("plan", target, RepairedTree(tree, verified), draft, sounds,
                  target)
    /\ UNCHANGED <<neg, offer, blocked>>

(* The LLM may name the specialist of its own accord: the proposal is for   *)
(* the customer and only its objective is a hand-over.                      *)
ProposePlanForSpecialist ==
    /\ NothingForced /\ ~SpecialistNeeded(neg, verified) /\ ~AwaitsProposalTool
    /\ ~(EffectiveMode = "hardship_negotiation" /\ tool = "plan_propose")
    /\ \E tree \in DraftTrees, draft \in Writings, sounds \in BOOLEAN :
          Propose("plan", "customer", RepairedTree(tree, verified), draft, sounds,
                  Specialist)
    /\ UNCHANGED <<neg, offer, blocked>>

-----------------------------------------------------------------------------
(* Reflection and the answer *)

MayRetry == retries + 1 < MaxReflect

(* Mutant of ReflectRetries: the counter of retries is lost. *)
RetriesUncounted ==
    /\ pc = "reflect" /\ MayRetry
    /\ pc' = "plan_state"
    /\ UNCHANGED <<sessionVars, text, planned, retries, proposal, reply>>

(* Retried when rejected, or when the reflecting LLM gives no valid JSON. *)
ReflectRetries ==
    /\ pc = "reflect" /\ MayRetry
    /\ retries' = retries + 1
    /\ pc' = "plan_state"
    /\ UNCHANGED <<sessionVars, text, planned, proposal, reply>>

ReflectCompletes ==
    /\ pc = "reflect" /\ (~Rejected(planned, proposal) \/ ~MayRetry)
    /\ pc' = "respond"
    /\ UNCHANGED <<sessionVars, text, planned, retries, proposal, reply>>

(* CollectionResponseNode and the end of run_turn.  The rendering LLM may   *)
(* send no usable text; where the answer goes does not change it.           *)
Respond ==
    /\ pc = "respond"
    /\ \E written \in Writings :
          reply' = Rendered(written, verified, proposal)
    /\ pc' = "idle"
    /\ UNCHANGED <<sessionVars, text, planned, retries, proposal>>

(* An exception leaves the graph: an LLM error in a node that is strict     *)
(* about it, a tool, a rate limit while rendering, or the unset proposal of *)
(* a turn that awaits the proposal tool.  What the turn has stored remains. *)
MayFail ==
    \/ pc \in {"classify", "route"}
    \/ pc = "plan_state" /\ ~planned /\ retries = 0
    \/ NothingForced /\ ~SpecialistNeeded(neg, verified)
    \/ pc = "respond" /\ proposal.target # Specialist

TurnFails ==
    /\ MayFail
    /\ pc' = "idle" /\ reply' = "failed"
    /\ UNCHANGED <<sessionVars, text, planned, retries, proposal>>

-----------------------------------------------------------------------------
TurnStep ==
    \/ Classify \/ PlanDirectly \/ UseTools
    \/ PlanState \/ UpdatePlan
    \/ ProposeGuard \/ ProposeClosing \/ ProposeOffer
    \/ ProposeHandoff \/ ProposePlan \/ ProposePlanForSpecialist
    \/ ReflectRetries \/ ReflectCompletes \/ Respond \/ TurnFails

Next ==
    \/ AdminMessage \/ SpecialistAnswers \/ LoopCapped
    \/ ReceiveRelevant \/ ReceiveIrrelevant
    \/ TurnStep

(* Every node is called as soon as the one before it has returned. *)
Spec == Init /\ [][Next]_vars /\ WF_vars(TurnStep)

-----------------------------------------------------------------------------
(* Properties *)

(* Every field of the session and of the turn stays among the values the    *)
(* nodes know, whatever the LLM answers.                                    *)
TypeOK ==
    /\ verified \in BOOLEAN /\ neg \in NegotiationState /\ mode \in Modes
    /\ plan \in Plan /\ offer \in BOOLEAN /\ blocked \in BOOLEAN
    /\ tool \in Tools \cup {"none", "other"}
    /\ pc \in Stages /\ text \in Texts /\ planned \in BOOLEAN
    /\ retries \in 0..(MaxReflect - 1)
    /\ proposal \in Proposals /\ reply \in Replies

(* The discount flags tell a possible story: nothing is accepted, rejected  *)
(* or countered that was not offered, nothing offered that was not          *)
(* requested, and what the stage says the flags say too.  Three nodes write *)
(* them, each from its own copy of the state.                               *)
DiscountStory ==
    /\ neg.flags \cap {"accepted", "rejected", "counter_offer"} # {}
          => "offered" \in neg.flags
    /\ "offered" \in neg.flags => "requested" \in neg.flags
    /\ RaisedBy(neg.discount) \subseteq neg.flags

(* Before the customer is verified an answer states dues in one case only:  *)
(* the planning LLM has named the specialist and drafted a text with dues,  *)
(* and no usable text was written from its proposal.  Whatever else the     *)
(* LLMs write and whichever template replaces it, no dues are stated.       *)
NoDuesBeforeVerification ==
    reply = "dues" /\ ~verified =>
        /\ proposal.objective = "handoff_to_offer_agent"
        /\ proposal.target = "customer" /\ proposal.draft = "dues"

(* The specialist is asked, and its recommendation kept, only for verified  *)
(* customers, and a hand-over is remembered as a request.                   *)
SpecialistOnlyVerified ==
    /\ offer \/ reply = "handoff" => verified
    /\ reply = "handoff" => "requested" \in neg.flags

(* The plan does not claim what has not happened: verify_identity is done   *)
(* only if the customer is verified, and the current step is one whose      *)
(* predecessors are all done.                                               *)
PlanConsistent ==
    /\ plan.markers["verify_identity"] = "done" => verified
    /\ \A p \in Parents(plan.current) : plan.markers[p] = "done"

(* Within a turn nothing learned is lost: verification, hardship and the    *)
(* discount flags only grow; an operator's message is what resets them.     *)
NothingForgotten ==
    [][pc # "idle" =>
          /\ verified => verified'
          /\ neg.hardship => neg'.hardship
          /\ neg.flags \subseteq neg'.flags]_vars

(* A turn never takes the plan back: the current step moves along the edges *)
(* and a step that is done stays done, also when planning is repeated.      *)
PlanForward ==
    [][pc # "idle" =>
          /\ plan'.current \in From(plan.current)
          /\ \A s \in StepIds :
                plan.markers[s] = "done" => plan'.markers[s] = "done"]_vars

(* Reflection cannot keep a turn planning for ever. *)
TurnEnds == pc # "idle" ~> pc = "idle"
=============================================================================
