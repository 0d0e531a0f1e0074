-------------------------- MODULE MCConversation --------------------------
(* A small set of answers of the LLM and of phrases, chosen so that every   *)
(* lifecycle stage of a discount, hardship and each way of paying occur.    *)
EXTENDS Conversation

Says(m, s, p, d, h) ==
    [mode |-> m, stage |-> s, posture |-> p, discount |-> d, hardship |-> h]

MCPayloads ==
    { Says("collections", "none", "unknown", "none", FALSE),
      Says("hardship_negotiation", "discovering_hardship", "cannot_pay",
           "requested", TRUE),
      Says("promise_capture", "confirming_commitment", "promise_to_pay",
           "accepted", FALSE),
      Says("verification", "evaluating", "partly", "counter_offer", FALSE) }

MCWordings == { <<{"discount"}, {}>>, <<{"counter", "now"}, {"amount"}>> }

MCTools == {"other", "plan_propose", "offer_eligibility"}

=============================================================================
