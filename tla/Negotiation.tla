---------------------------- MODULE Negotiation ----------------------------
(***************************************************************************)
(* The negotiation state of a collections session and how one message      *)
(* changes it: NegotiationClassificationNode.  The LLM's payload wins over *)
(* the keyword rules, the rules of _merge_with_prior_state win over the    *)
(* payload, and the discount flags only ever grow.  Confidence, capacity,  *)
(* willingness and the tone of the answer are left out.                    *)
(***************************************************************************)

ConversationModes == {"collections", "hardship_negotiation",
                      "promise_capture", "verification", "escalation"}

NegotiationStages == {"none", "discovering_hardship", "assessing_capacity",
                      "evaluating_options", "negotiating_plan",
                      "confirming_commitment", "awaiting_customer_decision"}

Postures == {"unknown", "pay_now", "partial_now", "promise_to_pay",
             "cannot_pay", "refuses_to_pay", "negotiating"}

DiscountStages == {"none", "requested", "planning", "offered", "accepted",
                   "rejected", "counter_offer", "closed"}

Flags == {"requested", "offered", "accepted", "rejected", "counter_offer"}

NegotiationState ==
    [mode : ConversationModes, stage : NegotiationStages, posture : Postures,
     discount : DiscountStages, hardship : BOOLEAN, flags : SUBSET Flags]

(* _ensure_negotiation_state_defaults of a new session, and what an admin   *)
(* message puts back.                                                       *)
NegotiationDefaults ==
    [mode |-> "collections", stage |-> "none", posture |-> "unknown",
     discount |-> "none", hardship |-> FALSE, flags |-> {}]

-----------------------------------------------------------------------------
(* The discount flags *)

(* The flags a lifecycle stage raises. *)
RaisedBy(stage) ==
    CASE stage \in {"requested", "planning"} -> {"requested"}
      [] stage \in {"offered", "closed"}     -> {"requested", "offered"}
      [] stage \in {"accepted", "rejected", "counter_offer"} ->
            {"requested", "offered", stage}
      [] OTHER -> {}

(* Mutant of DiscountFlags: a flag is raised without the ones it rests on.  *)
FlagOfStageOnly(prior, stage) == prior \cup ({stage} \cap Flags)

DiscountFlags(prior, stage) == prior \cup RaisedBy(stage)

-----------------------------------------------------------------------------
(* Keyword rules, used when the provider limits the rate of calls           *)

(* words: groups of phrases the message holds; entities: what was extracted *)
(* from this message.                                                       *)
FallbackPosture(prior, words, entities, hardship) ==
    LET sum == entities \cap {"amount", "pct"} # {}
    IN  CASE "refuse" \in words -> "refuses_to_pay"
          [] "refuse" \notin words /\ "pay_full" \in words
                /\ "amount" \notin entities -> "pay_now"
          [] OTHER ->
               IF sum THEN IF "now" \in words THEN "partial_now"
                           ELSE IF "next" \in words THEN "promise_to_pay"
                           ELSE prior.posture
               ELSE IF "date" \in entities \/ "will_pay" \in words
                    THEN "promise_to_pay"
               ELSE IF hardship \/ "cannot" \in words THEN "cannot_pay"
               ELSE IF words \cap {"discount", "arrangement"} # {}
                    THEN "negotiating"
               ELSE prior.posture

FallbackStage(prior, words, entities, hardship, posture) ==
    IF hardship /\ "amount" \in entities THEN "negotiating_plan"
    ELSE IF hardship /\ "installment" \in words THEN "assessing_capacity"
    ELSE IF posture \in {"pay_now", "promise_to_pay"}
         THEN "confirming_commitment"
    ELSE IF hardship /\ prior.stage = "none" THEN "discovering_hardship"
    ELSE prior.stage

FallbackDiscount(prior, words, entities) ==
    IF /\ prior.discount \in {"planning", "offered"}
       /\ entities \cap {"amount", "pct"} # {} /\ "counter" \in words
    THEN "counter_offer"
    ELSE IF "discount" \in words THEN "requested"
    ELSE IF prior.discount = "offered" /\ "accept" \in words THEN "accepted"
    ELSE IF prior.discount = "offered" /\ "reject" \in words THEN "rejected"
    ELSE IF prior.discount \in {"accepted", "rejected"} /\ "done" \in words
         THEN "closed"
    ELSE prior.discount

FallbackClassification(prior, words, entities, verified) ==
    LET hardship == prior.hardship \/ "hardship" \in words
        posture  == FallbackPosture(prior, words, entities, hardship)
    IN  [mode |-> IF hardship THEN "hardship_negotiation"
                  ELSE IF ~verified THEN "verification"
                  ELSE IF posture \in {"pay_now", "promise_to_pay"}
                       THEN "promise_capture" ELSE "collections",
         stage |-> FallbackStage(prior, words, entities, hardship, posture),
         posture |-> IF hardship /\ posture = "unknown" THEN "cannot_pay"
                     ELSE posture,
         discount |-> FallbackDiscount(prior, words, entities),
         hardship |-> hardship]

-----------------------------------------------------------------------------
(* _merge_with_prior_state *)

(* _normalize_choice: a value that is not allowed falls back to the prior.  *)
Choice(value, allowed, default) == IF value \in allowed THEN value ELSE default

MergedPosture(prior, raw, hardship) ==
    LET posture == Choice(raw.posture, Postures, prior.posture)
    IN  IF hardship /\ posture = "unknown" THEN "cannot_pay" ELSE posture

MergedStage(prior, raw, hardship, verified) ==
    LET stage == Choice(raw.stage, NegotiationStages, prior.stage)
    IN  IF stage # "none" \/ (verified /\ ~hardship) THEN stage
        ELSE IF hardship /\ prior.stage = "none" THEN "discovering_hardship"
        ELSE prior.stage

(* Hardship and missing verification come first; a posture of paying or of  *)
(* refusing overrides both.                                                 *)
MergedMode(prior, raw, hardship, verified, posture) ==
    LET chosen == Choice(raw.mode, ConversationModes, prior.mode)
    IN  IF posture \in {"pay_now", "promise_to_pay"} THEN "promise_capture"
        ELSE IF posture = "refuses_to_pay" THEN "escalation"
        ELSE IF hardship THEN "hardship_negotiation"
        ELSE IF ~verified THEN "verification"
        ELSE IF chosen = "verification" THEN "collections"
        ELSE chosen

MergedDiscount(prior, raw) ==
    LET stage == Choice(raw.discount, DiscountStages, prior.discount)
    IN  IF stage = "none" THEN prior.discount ELSE stage

(* Mutant of MergeWithPriorState: hardship is what this payload says. *)
MergeForgettingHardship(prior, raw, verified) ==
    LET posture == MergedPosture(prior, raw, raw.hardship)
    IN  [mode |-> MergedMode(prior, raw, raw.hardship, verified, posture),
         stage |-> MergedStage(prior, raw, raw.hardship, verified),
         posture |-> posture,
         discount |-> MergedDiscount(prior, raw),
         hardship |-> raw.hardship,
         flags |-> DiscountFlags(prior.flags, MergedDiscount(prior, raw))]

MergeWithPriorState(prior, raw, verified) ==
    LET hardship == raw.hardship \/ prior.hardship
        posture  == MergedPosture(prior, raw, hardship)
    IN  [mode |-> MergedMode(prior, raw, hardship, verified, posture),
         stage |-> MergedStage(prior, raw, hardship, verified),
         posture |-> posture,
         discount |-> MergedDiscount(prior, raw),
         hardship |-> hardship,
         flags |-> DiscountFlags(prior.flags, MergedDiscount(prior, raw))]

=============================================================================
