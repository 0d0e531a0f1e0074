--------------------------- MODULE PlanProposal ---------------------------
(***************************************************************************)
(* What one planning pass of a collections turn proposes, how its          *)
(* reflection judges it and what may be rendered from it:                  *)
(* PlanProposalDirectiveNode, CollectionReflectNode and                    *)
(* CollectionResponseNode.  Of a proposal only its subject, its target,    *)
(* the objective of the answer, the drafted answer and its                 *)
(* plan_tree_update are kept: absent, "bare" (without an operation) or     *)
(* with an operation.                                                      *)
(***************************************************************************)
EXTENDS Negotiation

(* Texts a message may be: both nodes have phrases of their own that end a  *)
(* conversation, and only some are in both lists.                           *)
Texts == {"talk", "goodbye", "close_this", "end_call"}

(* PlanProposalDirectiveNode._is_conversation_termination *)
ClosesConversation(text) == text \in {"goodbye", "close_this"}

(* plan_proposal_utils.is_conversation_termination *)
EndsPlan(text) == text \in {"goodbye", "end_call"}

Subjects  == {"guard", "closing", "offer", "verification", "handoff",
              "snapshot", "plan"}
Specialist == "discount_planning_agent"
ReplyTargets == {"customer", "self", Specialist}
Trees == {"none", "bare", "operation"}

Objectives ==
    {"collect_verification", "capture_promise", "present_arrangement_options",
     "assess_affordability", "negotiate_installment", "confirm_commitment",
     "explain_dues", "handoff_to_offer_agent"}

(* What an LLM writes, as a draft while planning or as the answer: no text  *)
(* at all, one that says nothing about money, or one that does.             *)
Writings == {"none", "plain", "dues"}

Proposals == [about : Subjects, target : ReplyTargets, tree : Trees,
              draft : Writings, objective : Objectives]

-----------------------------------------------------------------------------
(* Handing over to the specialist *)

(* Mutant of SpecialistNeeded: verification is not asked for. *)
SpecialistNeededByAnyone(neg, verified) ==
    \/ neg.discount \in {"requested", "counter_offer"}
    \/ neg.posture = "partial_now"
    \/ neg.hardship /\ neg.posture = "cannot_pay"
    \/ "counter_offer" \in neg.flags

(* The classifier's needs_discount_specialist does not reach this node: it  *)
(* is no key of the graph's state.                                          *)
SpecialistNeeded(neg, verified) ==
    /\ verified
    /\ \/ neg.discount \in {"requested", "counter_offer"}
       \/ neg.posture = "partial_now"
       \/ neg.hardship /\ neg.posture = "cannot_pay"
       \/ "counter_offer" \in neg.flags

(* The flags a hand-over and the presentation of an offer leave behind. *)
FlagsAtHandoff(neg) ==
    neg.flags \cup {"requested"}
              \cup (IF neg.discount = "counter_offer"
                    THEN {"counter_offer"} ELSE {})

FlagsAtOffer(neg) == neg.flags \cup {"requested", "offered"}

-----------------------------------------------------------------------------
(* _infer_response_objective *)

HardshipObjective(neg) ==
    CASE neg.stage \in {"discovering_hardship", "assessing_capacity"} ->
            "assess_affordability"
      [] neg.stage \in {"evaluating_options", "awaiting_customer_decision"} ->
            "present_arrangement_options"
      [] neg.stage = "negotiating_plan" -> "negotiate_installment"
      [] neg.stage = "confirming_commitment" -> "confirm_commitment"
      [] OTHER -> IF neg.posture \in {"partial_now", "cannot_pay", "negotiating"}
                  THEN "present_arrangement_options" ELSE "assess_affordability"

VerifiedObjective(neg) ==
    IF neg.mode = "promise_capture" \/ neg.posture \in {"pay_now", "promise_to_pay"}
    THEN "capture_promise"
    ELSE IF neg.discount \in {"offered", "counter_offer"}
    THEN "present_arrangement_options"
    ELSE IF neg.mode = "hardship_negotiation" \/ neg.hardship
    THEN HardshipObjective(neg)
    ELSE IF neg.posture \in {"partial_now", "cannot_pay", "negotiating"}
    THEN "present_arrangement_options" ELSE "explain_dues"

(* Mutant of Objective: verification is looked at last. *)
ObjectiveOfStage(neg, verified, target) ==
    IF target = Specialist THEN "handoff_to_offer_agent"
    ELSE VerifiedObjective(neg)

Objective(neg, verified, target) ==
    IF target = Specialist THEN "handoff_to_offer_agent"
    ELSE IF ~verified THEN "collect_verification"
    ELSE VerifiedObjective(neg)

-----------------------------------------------------------------------------
(* Repair and alignment *)

(* The plan_tree_update a drafted proposal may bring. *)
DraftTrees == {"none", "operation"}

(* _validate_and_repair_proposal of what the LLM sent.  A missing tree is   *)
(* made up in both cases, with an operation only before verification.       *)
RepairedTree(tree, verified) ==
    IF ~verified THEN "operation" ELSE IF tree = "none" THEN "bare" ELSE tree

(* _align_customer_proposal_with_plan.  soundsLikeVerification: the draft   *)
(* or the intent is about verifying.                                        *)
AlignedSubject(about, target, verified, step, soundsLikeVerification) ==
    IF target # "customer" THEN about
    ELSE IF ~verified /\ step = "verify_identity" THEN "verification"
    ELSE IF /\ verified /\ step = "explain_dues"
            /\ about = "offer" \/ (about = "plan" /\ soundsLikeVerification)
    THEN "snapshot" ELSE about

AlignedTree(tree, target, verified, step) ==
    IF target = "customer" /\ ~verified /\ step = "verify_identity" /\ tree = "none"
    THEN "bare" ELSE tree

(* A draft that states dues to an unverified customer is kept, with a       *)
(* warning; only the snapshot of the dues takes a draft's place.            *)
AlignedDraft(draft, aligned) == IF aligned = "snapshot" THEN "none" ELSE draft

(* with_plan: the proposal as the node returns it.  responseTarget is what  *)
(* the update names, which need not be the proposal's own target.           *)
Proposed(about, target, tree, draft, neg, verified, step, sounds, responseTarget) ==
    LET aligned == AlignedSubject(about, target, verified, step, sounds) IN
    [about     |-> aligned,
     target    |-> target,
     tree      |-> AlignedTree(tree, target, verified, step),
     draft     |-> AlignedDraft(draft, aligned),
     objective |-> Objective(neg, verified, responseTarget)]

-----------------------------------------------------------------------------
(* Reflection *)

(* _normalize_reflection_result retries an invalid or an empty plan.  After  *)
(* a turn that went straight to planning the proposal is judged; after      *)
(* tools the observation of the last tool is, which never holds a plan.     *)

(* _is_valid_plan_structure: an update of the tree names its operation. *)
InvalidPlan(planned, proposal) == planned /\ proposal.tree = "bare"

(* _is_empty_payload: without a plan the text stands alone, and only a      *)
(* hand-over has one at this point.                                         *)
EmptyPlan(planned, proposal) == ~planned /\ proposal.about # "handoff"

Rejected(planned, proposal) ==
    InvalidPlan(planned, proposal) \/ EmptyPlan(planned, proposal)

-----------------------------------------------------------------------------
(* Rendering *)

(* _fallback_from_directive.  One template states an amount; the one of a   *)
(* hand-over to the customer is the planner's draft, as it stands.          *)
FallbackText(target, objective, draft) ==
    CASE target = "customer" /\ objective = "explain_dues" -> "dues"
      [] target = "customer" /\ objective = "handoff_to_offer_agent" ->
            IF draft = "none" THEN "plain" ELSE draft
      [] OTHER -> "plain"

(* _validate_response_against_directive; a text blocked for its wording is  *)
(* the same as none.                                                        *)
Unusable(text, verified) == text = "none" \/ (text = "dues" /\ ~verified)

(* _llm_render_from_proposal and _render_from_proposal *)
Rendered(text, verified, proposal) ==
    IF proposal.target = Specialist THEN "handoff"
    ELSE IF Unusable(text, verified)
    THEN FallbackText(proposal.target, proposal.objective, proposal.draft)
    ELSE text

=============================================================================
