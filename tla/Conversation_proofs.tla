------------------------ MODULE Conversation_proofs ------------------------
(***************************************************************************)
(* Theorems about the conversation, for every answer of the LLM: any set   *)
(* of payloads, of phrases and of tools.                                   *)
(***************************************************************************)
EXTENDS Conversation, TLAPS

(* What a turn under way still has to render was allowed when proposed, and *)
(* it has not answered yet.                                                 *)
ProposalInv ==
    pc # "idle" =>
        /\ reply = "none"
        /\ proposal.target = Specialist =>
              verified /\ "requested" \in neg.flags
        /\ proposal.objective = "explain_dues" => verified

Inv == /\ TypeOK /\ DiscountStory /\ NoDuesBeforeVerification
       /\ SpecialistOnlyVerified /\ PlanConsistent /\ ProposalInv

-----------------------------------------------------------------------------
(* Negotiation *)

(* A value that is not allowed cannot get through.                          *)
LEMMA ChoiceAllowed ==
    ASSUME NEW value, NEW allowed, NEW default \in allowed
    PROVE  Choice(value, allowed, default) \in allowed
BY DEF Choice

(* The keyword rules say of hardship only yes or no.                        *)
LEMMA ClassificationHardship ==
    ASSUME neg \in NegotiationState, NEW raw \in Classifications
    PROVE  raw.hardship \in BOOLEAN
<1>1. CASE raw \in Payloads
  BY <1>1, PayloadsAssumption DEF Raw
<1>2. CASE \E w \in Wordings :
              raw = FallbackClassification(neg, w[1], w[2], verified)
  BY <1>2 DEF FallbackClassification, NegotiationState
<1> QED BY <1>1, <1>2 DEF Classifications

(* A stage raises flags, and never one without the flags it rests on.       *)
LEMMA RaisedFlags ==
    ASSUME NEW stage
    PROVE  /\ RaisedBy(stage) \subseteq Flags
           /\ RaisedBy(stage) \cap {"accepted", "rejected", "counter_offer"} # {}
                 => "offered" \in RaisedBy(stage)
           /\ "offered" \in RaisedBy(stage) => "requested" \in RaisedBy(stage)
<1>1. CASE stage \in {"requested", "planning"}
  BY <1>1 DEF RaisedBy, Flags
<1>2. CASE stage \in {"offered", "closed"}
  BY <1>2 DEF RaisedBy, Flags
<1>3. CASE stage \in {"accepted", "rejected", "counter_offer"}
  BY <1>3 DEF RaisedBy, Flags
<1>4. CASE stage \notin {"requested", "planning", "offered", "closed",
                         "accepted", "rejected", "counter_offer"}
  <2>1. RaisedBy(stage) = {}
    BY <1>4 DEF RaisedBy
  <2> QED BY <2>1
<1> QED BY <1>1, <1>2, <1>3, <1>4

(* Merging keeps the type, hardship and the flags, and raises what the      *)
(* merged stage says.                                                       *)
LEMMA MergeFacts ==
    ASSUME NEW prior \in NegotiationState, NEW raw, raw.hardship \in BOOLEAN,
           NEW seen \in BOOLEAN
    PROVE  LET merged == MergeWithPriorState(prior, raw, seen)
           IN  /\ merged \in NegotiationState
               /\ merged.hardship = (raw.hardship \/ prior.hardship)
               /\ merged.flags = prior.flags \cup RaisedBy(merged.discount)
<1> DEFINE hardship == raw.hardship \/ prior.hardship
           posture  == MergedPosture(prior, raw, hardship)
           stage    == MergedStage(prior, raw, hardship, seen)
           newMode  == MergedMode(prior, raw, hardship, seen, posture)
           discount == MergedDiscount(prior, raw)
<1>1. /\ prior.mode \in ConversationModes /\ prior.stage \in NegotiationStages
      /\ prior.posture \in Postures /\ prior.discount \in DiscountStages
      /\ prior.hardship \in BOOLEAN /\ prior.flags \subseteq Flags
  BY DEF NegotiationState
<1>2. posture \in Postures
  <2>1. Choice(raw.posture, Postures, prior.posture) \in Postures
    BY <1>1, ChoiceAllowed
  <2> QED BY <2>1 DEF MergedPosture, Postures
<1>3. stage \in NegotiationStages
  <2>1. Choice(raw.stage, NegotiationStages, prior.stage) \in NegotiationStages
    BY <1>1, ChoiceAllowed
  <2> QED BY <2>1, <1>1 DEF MergedStage, NegotiationStages
<1>4. newMode \in ConversationModes
  <2>1. Choice(raw.mode, ConversationModes, prior.mode) \in ConversationModes
    BY <1>1, ChoiceAllowed
  <2>2. {"promise_capture", "escalation", "hardship_negotiation", "verification",
         "collections"} \subseteq ConversationModes
    BY DEF ConversationModes
  <2> HIDE DEF posture, hardship
  <2> QED BY <2>1, <2>2 DEF MergedMode
<1>5. discount \in DiscountStages
  <2>1. Choice(raw.discount, DiscountStages, prior.discount) \in DiscountStages
    BY <1>1, ChoiceAllowed
  <2> QED BY <2>1, <1>1 DEF MergedDiscount
<1>6. DiscountFlags(prior.flags, discount) \in SUBSET Flags
  BY <1>1, RaisedFlags DEF DiscountFlags
<1>7. hardship \in BOOLEAN
  BY <1>1
<1> HIDE DEF hardship, posture, stage, newMode, discount
<1>8. MergeWithPriorState(prior, raw, seen) =
        [mode |-> newMode, stage |-> stage, posture |-> posture,
         discount |-> discount, hardship |-> hardship,
         flags |-> DiscountFlags(prior.flags, discount)]
  BY DEF MergeWithPriorState, hardship, posture, stage, newMode, discount
<1>9. hardship = (raw.hardship \/ prior.hardship)
  BY DEF hardship
<1> QED
  BY <1>2, <1>3, <1>4, <1>5, <1>6, <1>7, <1>8, <1>9 DEF NegotiationState, DiscountFlags

-----------------------------------------------------------------------------
(* The plan *)

(* Some position comes first. *)
LEMMA FirstExists ==
    ASSUME NEW P, P \subseteq 1..6, P # {}
    PROVE  \E i \in P : \A j \in P : i <= j
<1>1. CASE 1 \in P
  BY <1>1
<1>2. CASE 1 \notin P /\ 2 \in P
  BY <1>2
<1>3. CASE P \subseteq 3..6 /\ 3 \in P
  BY <1>3
<1>4. CASE P \subseteq 4..6 /\ 4 \in P
  BY <1>4
<1>5. CASE P \subseteq 5..6 /\ 5 \in P
  BY <1>5
<1>6. CASE P \subseteq 6..6
  <2>1. PICK i \in P : TRUE
    OBVIOUS
  <2>2. \A j \in P : i <= j
    BY <1>6
  <2> QED BY <2>2
<1> QED BY <1>1, <1>2, <1>3, <1>4, <1>5, <1>6

(* The steps of the plan, as a tuple and as a set.                          *)
LEMMA StepsFacts ==
    /\ DOMAIN Steps = 1..6
    /\ \A i \in 1..6 : Steps[i] \in StepIds
    /\ Root \in StepIds /\ "verify_identity" \in StepIds
    /\ "resolve_outcome" \in StepIds
<1>1. DOMAIN Steps = 1..6
  BY DEF Steps
<1>2. Steps[1] = Root /\ Steps[2] = "verify_identity" /\ Steps[5] = "resolve_outcome"
  BY DEF Steps, Root
<1> QED BY <1>1, <1>2 DEF StepIds

(* The next step is one of the plan, and either unlocked or where the plan  *)
(* was.                                                                     *)
LEMMA NextCurrentFacts ==
    ASSUME NEW marks, NEW previous \in StepIds, NEW candidate \in StepIds
    PROVE  LET next == NextCurrent(marks, previous, candidate)
           IN  next \in StepIds /\ (next = previous \/ Unlocked(marks, next))
<1> DEFINE open == ActionableFrom(marks, Children(previous))
<1>1. ASSUME open # {}
      PROVE  FirstOf(open) \in StepIds /\ Unlocked(marks, FirstOf(open))
  <2>1. open \subseteq 1..6
    BY StepsFacts DEF ActionableFrom
  <2>2. \E i \in open : \A j \in open : i <= j
    BY <1>1, <2>1, FirstExists
  <2>3. PICK i \in open : FirstOf(open) = Steps[i]
    BY <2>2 DEF FirstOf
  <2>4. Actionable(marks, Steps[i])
    BY <2>3 DEF ActionableFrom
  <2> QED BY <2>1, <2>3, <2>4, StepsFacts DEF Actionable
<1>2. CASE Children(previous) # {}
  BY <1>1, <1>2 DEF NextCurrent, Actionable
<1>3. CASE Children(previous) = {}
  BY <1>3 DEF NextCurrent
<1> QED BY <1>2, <1>3

(* One planning pass keeps the plan's type and its consistency.             *)
LEMMA UpdatedPlanFacts ==
    ASSUME TypeOK, PlanConsistent, NEW ends \in BOOLEAN,
           NEW next, next = UpdatedPlan(plan, verified, ends)
    PROVE  /\ next \in Plan
           /\ next.markers["verify_identity"] = "done" => verified
           /\ \A p \in Parents(next.current) : next.markers[p] = "done"
<1> DEFINE candidate == Candidate(plan.current, ends)
           marks == MarksAfter(plan.markers, verified, plan.current, candidate)
<1>1. /\ plan.current \in StepIds /\ plan.markers \in [StepIds -> MarkerStates]
      /\ verified \in BOOLEAN
  BY DEF TypeOK, Plan
<1>2. candidate \in StepIds
  BY <1>1, StepsFacts DEF Candidate
<1>3. /\ marks \in [StepIds -> MarkerStates]
      /\ marks["verify_identity"] = "done" => verified
      /\ verified => marks["verify_identity"] = "done"
      /\ \A s \in StepIds \ {"verify_identity"} :
            plan.markers[s] = "done" => marks[s] = "done"
  <2>1. Root # "verify_identity"
    BY DEF Root
  <2> HIDE DEF candidate
  <2> QED BY <1>1, <2>1, StepsFacts DEF MarksAfter, MarkerStates
<1>4. \A s \in StepIds : plan.markers[s] = "done" => marks[s] = "done"
  BY <1>3 DEF PlanConsistent
<1>5. \A s : Parents(s) \subseteq StepIds
  <2>1. Edges \subseteq StepIds \X StepIds
    <3>1. StepIds = {Steps[1], Steps[2], Steps[3], Steps[4], Steps[5], Steps[6]}
      BY StepsFacts DEF StepIds
    <3>2. StepIds = {"open_and_context", "verify_identity", "explain_dues",
                     "collect_payment_intent", "resolve_outcome",
                     "evaluate_assistance"}
      BY <3>1 DEF Steps
    <3> QED BY <3>2 DEF Edges
  <2> QED BY <2>1 DEF Parents
<1> HIDE DEF marks, candidate
<1>6. next = [current |-> NextCurrent(marks, plan.current, candidate),
              markers |-> marks,
              status |-> IF ends THEN "completed" ELSE "active"]
  BY DEF UpdatedPlan, marks, candidate
<1>7. next.current \in StepIds
      /\ (next.current = plan.current \/ Unlocked(marks, next.current))
  BY <1>1, <1>2, <1>6, NextCurrentFacts
<1>8. \A p \in Parents(next.current) : marks[p] = "done"
  <2>1. CASE next.current = plan.current
    BY <2>1, <1>4, <1>5 DEF PlanConsistent
  <2>2. CASE Unlocked(marks, next.current)
    BY <2>2 DEF Unlocked
  <2> QED BY <2>1, <2>2, <1>7
<1> QED BY <1>3, <1>6, <1>7, <1>8 DEF Plan, PlanStatuses

(* The steps one by one, and where they lead.                               *)
LEMMA StepsListed ==
    StepIds = {"open_and_context", "verify_identity", "explain_dues",
               "collect_payment_intent", "resolve_outcome", "evaluate_assistance"}
<1>1. StepIds = {Steps[1], Steps[2], Steps[3], Steps[4], Steps[5], Steps[6]}
  BY StepsFacts DEF StepIds
<1> QED BY <1>1 DEF Steps

LEMMA ChildrenListed ==
    /\ Children("open_and_context") = {"verify_identity"}
    /\ Children("verify_identity") = {"explain_dues"}
    /\ Children("explain_dues") = {"collect_payment_intent"}
    /\ Children("collect_payment_intent") = {"resolve_outcome", "evaluate_assistance"}
    /\ Children("resolve_outcome") = {}
    /\ Children("evaluate_assistance") = {"resolve_outcome"}
<1>1. \A s, t : t \in Children(s) <=> <<s, t>> \in Edges
  <2> TAKE s, t
  <2>1. \A e \in Edges : \E a, b : e = <<a, b>>
    BY DEF Edges
  <2>2. \A e \in Edges : e[2] = t /\ e[1] = s <=> e = <<s, t>>
    BY <2>1
  <2>3. t \in Children(s) <=> \E e \in Edges : e[1] = s /\ e[2] = t
    BY DEF Children
  <2> QED BY <2>2, <2>3
<1>2. Children("open_and_context") = {"verify_identity"}
  BY <1>1 DEF Edges
<1>3. Children("verify_identity") = {"explain_dues"}
  BY <1>1 DEF Edges
<1>4. Children("explain_dues") = {"collect_payment_intent"}
  BY <1>1 DEF Edges
<1>5. Children("collect_payment_intent") = {"resolve_outcome", "evaluate_assistance"}
  BY <1>1 DEF Edges
<1>6. Children("resolve_outcome") = {}
  BY <1>1 DEF Edges
<1>7. Children("evaluate_assistance") = {"resolve_outcome"}
  BY <1>1 DEF Edges
<1> QED BY <1>2, <1>3, <1>4, <1>5, <1>6, <1>7

(* What is reachable is closed: four hops are enough for every step.        *)
LEMMA FromIsClosed ==
    ASSUME NEW s \in StepIds
    PROVE  Onwards(From(s)) = From(s) /\ s \in From(s)
<1> DEFINE end == {"resolve_outcome"}
<1> DEFINE help == {"evaluate_assistance"} \cup end
<1> DEFINE collect == {"collect_payment_intent"} \cup help
<1> DEFINE dues == {"explain_dues"} \cup collect
<1> DEFINE verify == {"verify_identity"} \cup dues
<1> DEFINE all == {"open_and_context"} \cup verify
<1>1. /\ Onwards(end) = end /\ Onwards(help) = help
  BY ChildrenListed DEF Onwards
<1>2. Onwards(collect) = collect /\ Onwards(dues) = dues
  BY ChildrenListed DEF Onwards
<1>3. Onwards(verify) = verify /\ Onwards(all) = all
  BY ChildrenListed DEF Onwards
<1>4. /\ Onwards({"evaluate_assistance"}) = help
      /\ Onwards({"collect_payment_intent"}) = collect
  BY ChildrenListed DEF Onwards
<1>5. /\ Onwards({"explain_dues"}) = {"explain_dues", "collect_payment_intent"}
      /\ Onwards({"explain_dues", "collect_payment_intent"}) = dues
  BY ChildrenListed DEF Onwards
<1>6. /\ Onwards({"verify_identity"}) = {"verify_identity", "explain_dues"}
      /\ Onwards({"verify_identity", "explain_dues"})
             = {"verify_identity", "explain_dues", "collect_payment_intent"}
      /\ Onwards({"verify_identity", "explain_dues", "collect_payment_intent"}) = verify
  BY ChildrenListed DEF Onwards
<1>7. /\ Onwards({"open_and_context"}) = {"open_and_context", "verify_identity"}
      /\ Onwards({"open_and_context", "verify_identity"})
             = {"open_and_context", "verify_identity", "explain_dues"}
      /\ Onwards({"open_and_context", "verify_identity", "explain_dues"})
             = {"open_and_context", "verify_identity", "explain_dues", "collect_payment_intent"}
      /\ Onwards({"open_and_context", "verify_identity", "explain_dues",
                  "collect_payment_intent"}) = all
  BY ChildrenListed DEF Onwards
<1>8. s \in From(s)
  BY DEF From, Onwards
<1> HIDE DEF end, help, collect, dues, verify, all
<1>9. CASE s = "resolve_outcome"
  BY <1>1, <1>8, <1>9 DEF From, end
<1>10. CASE s = "evaluate_assistance"
  BY <1>1, <1>4, <1>8, <1>10 DEF From
<1>11. CASE s = "collect_payment_intent"
  BY <1>2, <1>4, <1>8, <1>11 DEF From
<1>12. CASE s = "explain_dues"
  BY <1>2, <1>5, <1>8, <1>12 DEF From
<1>13. CASE s = "verify_identity"
  BY <1>3, <1>6, <1>8, <1>13 DEF From
<1>14. CASE s = "open_and_context"
  BY <1>3, <1>7, <1>8, <1>14 DEF From
<1> QED BY <1>9, <1>10, <1>11, <1>12, <1>13, <1>14, StepsListed

(* What is reachable from a step after s is reachable from s.               *)
LEMMA FromOnwards ==
    ASSUME NEW s \in StepIds, NEW c \in Children(s)
    PROVE  From(c) \subseteq From(s)
<1>1. ASSUME NEW S, NEW T, S \subseteq T PROVE Onwards(S) \subseteq Onwards(T)
  BY <1>1 DEF Onwards
<1>2. Onwards(From(s)) = From(s) /\ s \in From(s)
  BY FromIsClosed
<1>3. {c} \subseteq From(s)
  BY <1>2 DEF Onwards
<1>4. Onwards({c}) \subseteq From(s)
  BY <1>1, <1>2, <1>3
<1>5. Onwards(Onwards({c})) \subseteq From(s)
  BY <1>1, <1>2, <1>4
<1>6. Onwards(Onwards(Onwards({c}))) \subseteq From(s)
  BY <1>1, <1>2, <1>5
<1>7. Onwards(Onwards(Onwards(Onwards({c})))) \subseteq From(s)
  BY <1>1, <1>2, <1>6
<1> QED BY <1>7 DEF From

(* The next step lies onwards, and what is done stays done.                 *)
LEMMA UpdatedPlanMoves ==
    ASSUME TypeOK, PlanConsistent, NEW ends \in BOOLEAN,
           NEW next, next = UpdatedPlan(plan, verified, ends)
    PROVE  /\ next.current \in From(plan.current)
           /\ \A s \in StepIds : plan.markers[s] = "done" => next.markers[s] = "done"
<1> DEFINE now == plan.current
           candidate == Candidate(now, ends)
           marks == MarksAfter(plan.markers, verified, now, candidate)
           open == ActionableFrom(marks, Children(now))
<1>1. /\ now \in StepIds /\ plan.markers \in [StepIds -> MarkerStates]
      /\ verified \in BOOLEAN
  BY DEF TypeOK, Plan
<1>2. \A s \in StepIds : plan.markers[s] = "done" => marks[s] = "done"
  <2> HIDE DEF candidate
  <2>1. Root # "verify_identity"
    BY DEF Root
  <2> QED BY <1>1, <2>1, StepsFacts DEF MarksAfter, PlanConsistent
<1>3. candidate \in {now, "resolve_outcome"}
  BY DEF Candidate
<1> HIDE DEF candidate, marks
<1>4. next.markers = marks /\ next.current = NextCurrent(marks, now, candidate)
  BY DEF UpdatedPlan, marks, candidate
<1>5. now \in From(now)
  BY <1>1, FromIsClosed
<1>6. CASE Children(now) = {}
  <2>1. now = "resolve_outcome"
    BY <1>1, <1>6, StepsListed, ChildrenListed
  <2> QED BY <1>2, <1>3, <1>4, <1>5, <1>6, <2>1 DEF NextCurrent
<1>7. CASE Children(now) # {}
  <2>1. ASSUME NEW c \in Children(now) PROVE c \in From(now)
    <3>1. Onwards(From(now)) = From(now)
      BY <1>1, FromIsClosed
    <3> QED BY <1>5, <3>1 DEF Onwards
  <2>2. ASSUME open # {} PROVE FirstOf(open) \in From(now)
    <3>1. open \subseteq 1..6
      BY StepsFacts DEF ActionableFrom
    <3>2. \E i \in open : \A j \in open : i <= j
      BY <2>2, <3>1, FirstExists
    <3>3. PICK i \in open : FirstOf(open) = Steps[i]
      BY <3>2 DEF FirstOf
    <3>4. PICK c \in Children(now) : Steps[i] \in From(c)
      BY <3>3 DEF ActionableFrom
    <3> QED BY <1>1, <3>3, <3>4, FromOnwards
  <2> HIDE DEF open
  <2>3. next.current \in From(now)
    BY <1>4, <1>5, <1>7, <2>1, <2>2 DEF NextCurrent, open
  <2> QED BY <1>2, <1>4, <2>3
<1> QED BY <1>6, <1>7

-----------------------------------------------------------------------------
(* The invariant *)

(* The session starts consistent.                                           *)
LEMMA InitInv == Init => Inv
<1> SUFFICES ASSUME Init PROVE Inv
  OBVIOUS
<1>1. neg \in NegotiationState /\ neg.flags = {} /\ RaisedBy(neg.discount) = {}
  BY DEF Init, NegotiationDefaults, NegotiationState, ConversationModes,
     NegotiationStages, Postures, DiscountStages, RaisedBy
<1>2. plan \in Plan /\ plan.current = Root
      /\ plan.markers["verify_identity"] = "pending"
  BY StepsFacts DEF Init, NoPlan, Plan, MarkerStates, PlanStatuses
<1>3. Parents(Root) = {}
  BY DEF Parents, Edges, Root
<1>4. proposal \in Proposals /\ 0 \in 0..(MaxReflect - 1)
  BY MaxReflectAssumption DEF Init, NoProposal, Proposals, Subjects, ReplyTargets,
     Trees, Writings, Objectives
<1>5. TypeOK
  BY <1>1, <1>2, <1>4 DEF Init, TypeOK, Modes, Stages, Texts, Replies
<1> QED
  BY <1>1, <1>2, <1>3, <1>5 DEF Init, Inv, DiscountStory,
     NoDuesBeforeVerification, SpecialistOnlyVerified, PlanConsistent, ProposalInv

(* A proposal of known parts is a proposal, and it is for the specialist or *)
(* explains dues only as its parts say.                                     *)
LEMMA ProposedFacts ==
    ASSUME TypeOK, NEW about \in Subjects, NEW target \in ReplyTargets,
           NEW tree \in Trees, NEW draft \in Writings, NEW sounds,
           NEW answer \in ReplyTargets, NEW step
    PROVE  LET p == Proposed(about, target, tree, draft, neg, verified, step,
                             sounds, answer)
           IN  /\ p \in Proposals /\ p.target = target
               /\ p.objective = "explain_dues" => verified
<1>1. AlignedSubject(about, target, verified, step, sounds) \in Subjects
  BY DEF AlignedSubject, Subjects
<1>2. AlignedTree(tree, target, verified, step) \in Trees
  BY DEF AlignedTree, Trees
<1>3. HardshipObjective(neg) \in Objectives
  <2>1. CASE neg.stage \in {"discovering_hardship", "assessing_capacity"}
    BY <2>1 DEF HardshipObjective, Objectives
  <2>2. CASE neg.stage \in {"evaluating_options", "awaiting_customer_decision"}
    BY <2>2 DEF HardshipObjective, Objectives
  <2>3. CASE neg.stage \in {"negotiating_plan", "confirming_commitment"}
    BY <2>3 DEF HardshipObjective, Objectives
  <2>4. CASE neg.stage \notin {"discovering_hardship", "assessing_capacity",
                               "evaluating_options", "awaiting_customer_decision",
                               "negotiating_plan", "confirming_commitment"}
    BY <2>4 DEF HardshipObjective, Objectives
  <2> QED BY <2>1, <2>2, <2>3, <2>4
<1>4. VerifiedObjective(neg) \in Objectives
  BY <1>3 DEF VerifiedObjective, Objectives
<1>5. /\ Objective(neg, verified, answer) \in Objectives
      /\ Objective(neg, verified, answer) = "explain_dues" => verified
  BY <1>4 DEF Objective, Objectives
<1>6. \A about1 : AlignedDraft(draft, about1) \in Writings
  BY DEF AlignedDraft, Writings
<1> QED BY <1>1, <1>2, <1>5, <1>6 DEF Proposed, Proposals

(* A case of the directive node that writes no more than its flags and its  *)
(* handed-over things keeps the invariant.                                  *)
LEMMA ProposeKeeps ==
    ASSUME Inv, pc = "directive",
           NEW about \in Subjects, NEW target \in ReplyTargets,
           NEW tree \in Trees, NEW draft \in Writings, NEW sounds,
           NEW answer \in ReplyTargets,
           Propose(about, target, tree, draft, sounds, answer),
           NEW flags \in SUBSET Flags, neg' = [neg EXCEPT !.flags = flags],
           neg.flags \subseteq flags,
           flags \cap {"accepted", "rejected", "counter_offer"} # {}
              => "offered" \in flags,
           "offered" \in flags => "requested" \in flags,
           offer' \in BOOLEAN, offer' => offer, blocked' \in BOOLEAN,
           target = Specialist => verified /\ "requested" \in flags
    PROVE  Inv'
<1>1. /\ proposal' \in Proposals /\ proposal'.target = target
      /\ proposal'.objective = "explain_dues" => verified
  BY ProposedFacts DEF Inv, Propose
<1>2. /\ neg' \in NegotiationState /\ neg'.flags = flags
      /\ neg'.discount = neg.discount
  BY DEF Inv, TypeOK, NegotiationState
<1>3. TypeOK'
  BY <1>1, <1>2 DEF Inv, TypeOK, Propose, Stages
<1>4. DiscountStory'
  BY <1>2 DEF Inv, DiscountStory
<1>5. NoDuesBeforeVerification' /\ SpecialistOnlyVerified'
  <2>1. reply' = reply /\ reply = "none" /\ verified' = verified
    BY DEF Propose, Inv, ProposalInv
  <2> QED BY <2>1, <1>2 DEF Inv, NoDuesBeforeVerification, SpecialistOnlyVerified
<1>6. PlanConsistent'
  BY DEF Inv, PlanConsistent, Propose
<1>7. ProposalInv'
  BY <1>1, <1>2 DEF Inv, ProposalInv, Propose
<1> QED BY <1>3, <1>4, <1>5, <1>6, <1>7 DEF Inv

(* Every step keeps the invariant.                                          *)
LEMMA StepInv == Inv /\ [Next]_vars => Inv'
<1> SUFFICES ASSUME Inv, [Next]_vars PROVE Inv'
  OBVIOUS
<1> USE DEF Inv
<1>a. /\ TypeOK /\ DiscountStory /\ NoDuesBeforeVerification
      /\ SpecialistOnlyVerified /\ PlanConsistent /\ ProposalInv
  OBVIOUS
<1>b. neg \in NegotiationState /\ neg.flags \subseteq Flags
  BY DEF TypeOK, NegotiationState
<1>1. CASE UNCHANGED vars
  BY <1>1, <1>a DEF vars, sessionVars, turnVars, TypeOK, DiscountStory,
     NoDuesBeforeVerification, SpecialistOnlyVerified, PlanConsistent, ProposalInv
<1>2. CASE AdminMessage
  <2>1. /\ neg' \in NegotiationState /\ neg'.flags = {}
        /\ RaisedBy(neg'.discount) = {}
    BY <1>2 DEF AdminMessage, NegotiationDefaults, NegotiationState,
       ConversationModes, NegotiationStages, Postures, DiscountStages, RaisedBy
  <2>2. /\ plan' \in Plan /\ plan'.current = Root
        /\ plan'.markers["verify_identity"] = "pending"
    BY <1>2, StepsFacts DEF AdminMessage, NoPlan, Plan, MarkerStates, PlanStatuses
  <2>3. Parents(Root) = {}
    BY DEF Parents, Edges, Root
  <2>4. TypeOK'
    BY <1>2, <2>1, <2>2 DEF AdminMessage, TypeOK, Modes, Replies
  <2>5. DiscountStory' /\ PlanConsistent'
    BY <2>1, <2>2, <2>3 DEF DiscountStory, PlanConsistent
  <2> QED BY <1>2, <2>4, <2>5 DEF AdminMessage, NoDuesBeforeVerification,
          SpecialistOnlyVerified, ProposalInv
<1>3. CASE SpecialistAnswers \/ LoopCapped
  <2>1. neg' = neg /\ plan' = plan /\ verified' = verified /\ reply' = reply
        /\ pc' = pc /\ proposal' = proposal
    BY <1>3 DEF SpecialistAnswers, LoopCapped, turnVars
  <2>2. TypeOK'
    BY <1>3, <2>1 DEF TypeOK, SpecialistAnswers, LoopCapped, turnVars
  <2>3. SpecialistOnlyVerified'
    BY <1>3, <2>1 DEF SpecialistOnlyVerified, SpecialistAnswers, LoopCapped
  <2> QED BY <2>1, <2>2, <2>3 DEF DiscountStory, NoDuesBeforeVerification,
          PlanConsistent, ProposalInv
<1>4. CASE ReceiveRelevant
  <2>1. NoProposal \in Proposals /\ 0 \in 0..(MaxReflect - 1)
    BY MaxReflectAssumption DEF NoProposal, Proposals, Subjects, ReplyTargets,
       Trees, Writings, Objectives
  <2>2. NoProposal.target = "customer" /\ NoProposal.objective = "collect_verification"
    BY DEF NoProposal
  <2> QED BY <1>4, <2>1, <2>2 DEF ReceiveRelevant, sessionVars, TypeOK, Stages,
          Replies, DiscountStory, NoDuesBeforeVerification, SpecialistOnlyVerified,
          PlanConsistent, ProposalInv, Specialist
<1>5. CASE ReceiveIrrelevant
  BY <1>5 DEF ReceiveIrrelevant, sessionVars, TypeOK, Replies, DiscountStory,
     NoDuesBeforeVerification, SpecialistOnlyVerified, PlanConsistent, ProposalInv
<1>6. CASE Classify
  <2>1. PICK raw \in Classifications :
           neg' = MergeWithPriorState(neg, raw, verified)
    BY <1>6 DEF Classify
  <2>2. /\ neg' \in NegotiationState
        /\ neg'.flags = neg.flags \cup RaisedBy(neg'.discount)
    BY <2>1, <1>b, ClassificationHardship, MergeFacts DEF TypeOK
  <2>3. DiscountStory'
    BY <2>2, RaisedFlags DEF DiscountStory
  <2>4. TypeOK'
    BY <1>6, <2>2 DEF Classify, TypeOK, Modes, Stages
  <2> QED BY <1>6, <2>2, <2>3, <2>4 DEF Classify, NoDuesBeforeVerification,
          SpecialistOnlyVerified, PlanConsistent, ProposalInv
<1>7. CASE PlanDirectly
  BY <1>7 DEF PlanDirectly, sessionVars, TypeOK, Stages, DiscountStory,
     NoDuesBeforeVerification, SpecialistOnlyVerified, PlanConsistent, ProposalInv
<1>8. CASE UseTools
  <2>1. verified' \in BOOLEAN /\ (verified => verified')
    BY <1>8 DEF UseTools, TypeOK
  <2>2. TypeOK'
    BY <1>8, <2>1 DEF UseTools, TypeOK, Stages
  <2> QED BY <1>8, <2>1, <2>2 DEF UseTools, DiscountStory,
          NoDuesBeforeVerification, SpecialistOnlyVerified, PlanConsistent, ProposalInv
<1>9. CASE PlanState
  <2>1. mode' \in Modes
    BY <1>9 DEF PlanState, SuggestedModes, TypeOK, Modes
  <2> QED BY <1>9, <2>1 DEF PlanState, TypeOK, Stages, DiscountStory,
          NoDuesBeforeVerification, SpecialistOnlyVerified, PlanConsistent, ProposalInv
<1>10. CASE UpdatePlan
  <2>1. EndsPlan(text) \in BOOLEAN
    BY DEF EndsPlan
  <2>2. /\ plan' \in Plan
        /\ plan'.markers["verify_identity"] = "done" => verified
        /\ \A p \in Parents(plan'.current) : plan'.markers[p] = "done"
    BY <1>10, <2>1, UpdatedPlanFacts DEF UpdatePlan
  <2> QED BY <1>10, <2>2 DEF UpdatePlan, TypeOK, Stages, DiscountStory,
          NoDuesBeforeVerification, SpecialistOnlyVerified, PlanConsistent, ProposalInv
<1>11. CASE ProposeGuard \/ ProposeClosing
  <2>1. neg' = [neg EXCEPT !.flags = neg.flags]
    BY <1>11, <1>b DEF ProposeGuard, ProposeClosing, NegotiationState
  <2>2. "customer" # Specialist
    BY DEF Specialist
  <2>3. PICK about \in {"guard", "closing"}, tree \in {"none", "operation"} :
           Propose(about, "customer", tree, "none", FALSE, "customer")
    BY <1>11 DEF ProposeGuard, ProposeClosing
  <2>4. /\ about \in Subjects /\ tree \in Trees /\ "customer" \in ReplyTargets
        /\ pc = "directive" /\ offer' = offer /\ blocked' \in BOOLEAN
    BY <1>11 DEF ProposeGuard, ProposeClosing, Subjects, Trees, ReplyTargets, TypeOK
  <2>5. offer' \in BOOLEAN /\ (offer' => offer) /\ "none" \in Writings
    BY <2>4 DEF TypeOK, Writings
  <2> QED BY <2>1, <2>2, <2>3, <2>4, <2>5, <1>b, ProposeKeeps DEF DiscountStory
<1>12. CASE ProposeOffer
  <2>1. /\ "offer" \in Subjects /\ "operation" \in Trees
        /\ "customer" \in ReplyTargets /\ "customer" # Specialist
    BY DEF Subjects, Trees, ReplyTargets, Specialist
  <2>2. /\ FlagsAtOffer(neg) \in SUBSET Flags /\ neg.flags \subseteq FlagsAtOffer(neg)
        /\ "offered" \in FlagsAtOffer(neg) /\ "requested" \in FlagsAtOffer(neg)
    BY <1>b DEF FlagsAtOffer, Flags
  <2>0. "none" \in Writings
    BY DEF Writings
  <2>3. /\ neg' = [neg EXCEPT !.flags = FlagsAtOffer(neg)] /\ pc = "directive"
        /\ Propose("offer", "customer", "operation", "none", FALSE, "customer")
        /\ offer' = FALSE /\ blocked' = blocked
    BY <1>12 DEF ProposeOffer
  <2>4. offer' \in BOOLEAN /\ (offer' => offer) /\ blocked' \in BOOLEAN
    BY <2>3 DEF TypeOK
  <2> QED BY <2>0, <2>1, <2>2, <2>3, <2>4, ProposeKeeps
<1>13. CASE ProposeHandoff
  <2>1. /\ "handoff" \in Subjects /\ "none" \in Trees /\ Specialist \in ReplyTargets
    BY DEF Subjects, Trees, ReplyTargets
  <2>0. "none" \in Writings
    BY DEF Writings
  <2>2. /\ FlagsAtHandoff(neg) \in SUBSET Flags
        /\ neg.flags \subseteq FlagsAtHandoff(neg)
        /\ "requested" \in FlagsAtHandoff(neg)
    BY <1>b DEF FlagsAtHandoff, Flags
  <2>3. FlagsAtHandoff(neg) \cap {"accepted", "rejected", "counter_offer"} # {}
           => "offered" \in FlagsAtHandoff(neg)
    <3>1. neg.discount = "counter_offer" => "offered" \in neg.flags
      BY DEF DiscountStory, RaisedBy
    <3> QED BY <3>1 DEF FlagsAtHandoff, DiscountStory
  <2>4. /\ neg' = [neg EXCEPT !.flags = FlagsAtHandoff(neg)] /\ pc = "directive"
        /\ Propose("handoff", Specialist, "none", "none", FALSE, Specialist)
        /\ offer' = offer /\ blocked' = blocked /\ verified
    BY <1>13 DEF ProposeHandoff, NothingForced, SpecialistNeeded
  <2>5. offer' \in BOOLEAN /\ (offer' => offer) /\ blocked' \in BOOLEAN
    BY <2>4 DEF TypeOK
  <2> QED BY <2>0, <2>1, <2>2, <2>3, <2>4, <2>5, ProposeKeeps
<1>14. CASE ProposePlan \/ ProposePlanForSpecialist
  <2>1. PICK target \in {"customer", "self"}, tree \in Trees, draft \in Writings,
             sounds \in BOOLEAN, answer \in ReplyTargets :
           Propose("plan", target, tree, draft, sounds, answer)
    <3>1. \A tree \in DraftTrees : RepairedTree(tree, verified) \in Trees
      BY DEF RepairedTree, Trees, DraftTrees
    <3>2. {"customer", "self", Specialist} \subseteq ReplyTargets
      BY DEF ReplyTargets
    <3>3. CASE ProposePlan
      BY <3>1, <3>2, <3>3 DEF ProposePlan
    <3>4. CASE ProposePlanForSpecialist
      BY <3>1, <3>2, <3>4 DEF ProposePlanForSpecialist
    <3> QED BY <1>14, <3>3, <3>4
  <2>2. neg' = [neg EXCEPT !.flags = neg.flags]
    BY <1>14, <1>b DEF ProposePlan, ProposePlanForSpecialist, NegotiationState
  <2>3. /\ pc = "directive" /\ offer' = offer /\ blocked' = blocked
    BY <1>14 DEF ProposePlan, ProposePlanForSpecialist, NothingForced
  <2>4. offer' \in BOOLEAN /\ (offer' => offer) /\ blocked' \in BOOLEAN
    BY <2>3 DEF TypeOK
  <2>5. "plan" \in Subjects /\ target \in ReplyTargets /\ target # Specialist
    BY DEF Subjects, ReplyTargets, Specialist
  <2> QED BY <2>1, <2>2, <2>3, <2>4, <2>5, <1>b, ProposeKeeps DEF DiscountStory
<1>15. CASE ReflectRetries
  <2>1. retries' \in 0..(MaxReflect - 1)
    BY <1>15, MaxReflectAssumption DEF ReflectRetries, MayRetry, TypeOK
  <2> QED BY <1>15, <2>1 DEF ReflectRetries, sessionVars, TypeOK, Stages,
          DiscountStory, NoDuesBeforeVerification, SpecialistOnlyVerified,
          PlanConsistent, ProposalInv
<1>16. CASE ReflectCompletes
  BY <1>16 DEF ReflectCompletes, sessionVars, TypeOK, Stages, DiscountStory,
     NoDuesBeforeVerification, SpecialistOnlyVerified, PlanConsistent, ProposalInv
<1>17. CASE Respond
  <2>1. PICK written \in Writings :
           reply' = Rendered(written, verified, proposal)
    BY <1>17 DEF Respond
  <2>2. /\ reply' \in Replies
        /\ reply' = "dues" /\ ~verified =>
              /\ proposal.objective = "handoff_to_offer_agent"
              /\ proposal.target = "customer" /\ proposal.draft = "dues"
        /\ reply' = "handoff" => proposal.target = Specialist
    <3>1. proposal.draft \in Writings
      BY DEF TypeOK, Proposals
    <3>2. proposal.objective = "explain_dues" => verified
      BY <1>17 DEF ProposalInv, Respond
    <3>3. proposal.target # Specialist =>
             \/ reply' = written /\ ~Unusable(written, verified)
             \/ reply' = FallbackText(proposal.target, proposal.objective,
                                      proposal.draft)
      BY <2>1 DEF Rendered
    <3>4. proposal.target = Specialist => reply' = "handoff"
      BY <2>1 DEF Rendered
    <3> QED BY <3>1, <3>2, <3>3, <3>4 DEF Unusable, Writings, FallbackText, Replies
  <2>3. pc = "respond" /\ pc' = "idle" /\ UNCHANGED <<sessionVars, text, planned,
                                                     retries, proposal>>
    BY <1>17 DEF Respond
  <2> QED BY <2>2, <2>3 DEF sessionVars, TypeOK, Stages,
          DiscountStory, NoDuesBeforeVerification, SpecialistOnlyVerified,
          PlanConsistent, ProposalInv
<1>18. CASE TurnFails
  BY <1>18 DEF TurnFails, sessionVars, TypeOK, Stages, Replies, DiscountStory,
     NoDuesBeforeVerification, SpecialistOnlyVerified, PlanConsistent, ProposalInv
<1> QED
  BY <1>1, <1>2, <1>3, <1>4, <1>5, <1>6, <1>7, <1>8, <1>9, <1>10, <1>11, <1>12,
     <1>13, <1>14, <1>15, <1>16, <1>17, <1>18 DEF Next, TurnStep

(* Whatever the LLM answers, every field stays among the values the nodes   *)
(* know.                                                                    *)
THEOREM ConversationTyped == Spec => []TypeOK
<1>1. Inv => TypeOK
  BY DEF Inv
<1> QED BY <1>1, InitInv, StepInv, PTL DEF Spec

(* The flags of the discount always tell a possible story.                  *)
THEOREM DiscountStoryHolds == Spec => []DiscountStory
<1>1. Inv => DiscountStory
  BY DEF Inv
<1> QED BY <1>1, InitInv, StepInv, PTL DEF Spec

(* No answer states dues to a customer who is not verified, but for a draft *)
(* the planning LLM has written for a proposal naming the specialist.       *)
THEOREM DuesAreGuarded == Spec => []NoDuesBeforeVerification
<1>1. Inv => NoDuesBeforeVerification
  BY DEF Inv
<1> QED BY <1>1, InitInv, StepInv, PTL DEF Spec

(* The specialist works for verified customers only.                        *)
THEOREM SpecialistIsGuarded == Spec => []SpecialistOnlyVerified
<1>1. Inv => SpecialistOnlyVerified
  BY DEF Inv
<1> QED BY <1>1, InitInv, StepInv, PTL DEF Spec

(* The plan never stands at a step whose predecessors are not done.         *)
THEOREM PlanIsConsistent == Spec => []PlanConsistent
<1>1. Inv => PlanConsistent
  BY DEF Inv
<1> QED BY <1>1, InitInv, StepInv, PTL DEF Spec

(* Within a turn verification, hardship and the discount flags only grow.   *)
THEOREM TurnsForgetNothing == Spec => NothingForgotten
<1>1. Inv /\ [Next]_vars =>
        [pc # "idle" => /\ verified => verified'
                        /\ neg.hardship => neg'.hardship
                        /\ neg.flags \subseteq neg'.flags]_vars
  <2> SUFFICES ASSUME Inv, Next, pc # "idle"
               PROVE  /\ verified => verified'
                      /\ neg.hardship => neg'.hardship
                      /\ neg.flags \subseteq neg'.flags
    OBVIOUS
  <2>0. neg \in NegotiationState /\ verified \in BOOLEAN
    BY DEF Inv, TypeOK
  <2>1. CASE Classify
    <3>1. PICK raw \in Classifications :
             neg' = MergeWithPriorState(neg, raw, verified)
      BY <2>1 DEF Classify
    <3>2. raw.hardship \in BOOLEAN
      BY <2>0, ClassificationHardship
    <3>3. /\ neg'.hardship = (raw.hardship \/ neg.hardship)
          /\ neg.flags \subseteq neg'.flags
      BY <2>0, <3>1, <3>2, MergeFacts
    <3> QED BY <2>1, <3>3 DEF Classify
  <2>2. CASE ProposeOffer
    BY <2>0, <2>2 DEF ProposeOffer, Propose, FlagsAtOffer, NegotiationState
  <2>3. CASE ProposeHandoff
    BY <2>0, <2>3 DEF ProposeHandoff, Propose, FlagsAtHandoff, NegotiationState
  <2>4. CASE UseTools
    BY <2>0, <2>4 DEF UseTools
  <2>5. CASE PlanDirectly \/ PlanState \/ UpdatePlan \/ ReflectRetries
             \/ ReflectCompletes \/ Respond \/ TurnFails
    BY <2>5 DEF PlanDirectly, PlanState, UpdatePlan, ReflectRetries,
       ReflectCompletes, Respond, TurnFails, sessionVars
  <2>6. CASE ProposeGuard \/ ProposeClosing \/ ProposePlan
             \/ ProposePlanForSpecialist
    <3>1. neg' = neg
      BY <2>6 DEF ProposeGuard, ProposeClosing, ProposePlan,
         ProposePlanForSpecialist
    <3>2. verified' = verified
      <4>1. CASE ProposeGuard
        BY <4>1 DEF ProposeGuard, Propose
      <4>2. CASE ProposeClosing
        BY <4>2 DEF ProposeClosing, Propose
      <4>3. CASE ProposePlan
        <5>1. PICK target \in {"customer", "self"}, tree \in DraftTrees,
                   draft \in Writings, sounds \in BOOLEAN :
                 Propose("plan", target, RepairedTree(tree, verified), draft,
                         sounds, target)
          BY <4>3 DEF ProposePlan
        <5> QED BY <5>1 DEF Propose
      <4>4. CASE ProposePlanForSpecialist
        <5>1. PICK tree \in DraftTrees, draft \in Writings, sounds \in BOOLEAN :
                 Propose("plan", "customer", RepairedTree(tree, verified), draft,
                         sounds, Specialist)
          BY <4>4 DEF ProposePlanForSpecialist
        <5> QED BY <5>1 DEF Propose
      <4> QED BY <2>6, <4>1, <4>2, <4>3, <4>4
    <3> QED BY <3>1, <3>2
  <2>7. ~(AdminMessage \/ SpecialistAnswers \/ LoopCapped
          \/ ReceiveRelevant \/ ReceiveIrrelevant)
    BY DEF AdminMessage, SpecialistAnswers, LoopCapped, ReceiveRelevant,
       ReceiveIrrelevant
  <2> QED BY <2>1, <2>2, <2>3, <2>4, <2>5, <2>6, <2>7 DEF Next, TurnStep
<1> QED BY <1>1, InitInv, StepInv, PTL DEF Spec, NothingForgotten

(* A turn never takes the plan back: the current step moves along the edges *)
(* and a step that is done stays done, also when planning is repeated       *)
(* (PlanProposalGraphNode).                                                 *)
THEOREM PlanMovesForward == Spec => PlanForward
<1>1. Inv /\ [Next]_vars =>
        [pc # "idle" => /\ plan'.current \in From(plan.current)
                        /\ \A s \in StepIds :
                              plan.markers[s] = "done" => plan'.markers[s] = "done"]_vars
  <2> SUFFICES ASSUME Inv, Next, pc # "idle"
               PROVE  /\ plan'.current \in From(plan.current)
                      /\ \A s \in StepIds :
                            plan.markers[s] = "done" => plan'.markers[s] = "done"
    OBVIOUS
  <2>1. CASE UpdatePlan
    <3>1. EndsPlan(text) \in BOOLEAN
      BY DEF EndsPlan
    <3>2. plan' = UpdatedPlan(plan, verified, EndsPlan(text))
      BY <2>1 DEF UpdatePlan
    <3> QED BY <3>1, <3>2, UpdatedPlanMoves DEF Inv
  <2>2. CASE ~UpdatePlan
    <3>1. plan' = plan
      BY <2>2 DEF Next, AdminMessage, SpecialistAnswers, LoopCapped, ReceiveRelevant,
         ReceiveIrrelevant, TurnStep, Classify, PlanDirectly, UseTools, PlanState,
         ProposeGuard, ProposeClosing, ProposeOffer, ProposeHandoff, ProposePlan,
         ProposePlanForSpecialist, Propose, ReflectRetries, ReflectCompletes, Respond,
         TurnFails, sessionVars
    <3>2. plan.current \in From(plan.current)
      <4>1. plan.current \in StepIds
        BY DEF Inv, TypeOK, Plan
      <4> QED BY <4>1, FromIsClosed
    <3> QED BY <3>1, <3>2
  <2> QED BY <2>1, <2>2
<1> QED BY <1>1, InitInv, StepInv, PTL DEF Spec, PlanForward

-----------------------------------------------------------------------------
(* Every turn runs down: the safety half of TurnEnds *)

(* The nodes from here to the end of the turn, if planning is not repeated. *)
NodesAhead ==
    [classify |-> 7, route |-> 6, plan_state |-> 5, plan_graph |-> 4,
     directive |-> 3, reflect |-> 2, respond |-> 1]

(* Every retry that is left may repeat the four nodes of planning. *)
StepsLeft ==
    IF pc = "idle" THEN 0
    ELSE 4 * (MaxReflect - 1 - retries) + NodesAhead[pc]

(* A step of a turn goes on to the next node, with the retries it had, or   *)
(* repeats planning at the price of a retry, or ends the turn.              *)
LEMMA TurnStepAdvances ==
    ASSUME TurnStep
    PROVE  /\ pc # "idle"
           /\ \/ pc' = "idle"
              \/ /\ retries' = retries /\ pc' # "idle"
                 /\ NodesAhead[pc'] = NodesAhead[pc] - 1
              \/ pc = "reflect" /\ pc' = "plan_state" /\ retries' = retries + 1
<1>1. CASE Classify \/ PlanDirectly \/ UseTools \/ PlanState \/ UpdatePlan
  BY <1>1 DEF Classify, PlanDirectly, UseTools, PlanState, UpdatePlan, NodesAhead
<1>2. CASE \/ ProposeGuard \/ ProposeClosing \/ ProposeOffer
           \/ ProposeHandoff \/ ProposePlan \/ ProposePlanForSpecialist
  <2>1. pc = "directive" /\ pc' = "reflect" /\ retries' = retries
    BY <1>2 DEF ProposeGuard, ProposeClosing, ProposeOffer, ProposeHandoff,
       ProposePlan, ProposePlanForSpecialist, NothingForced, Propose
  <2> QED BY <2>1 DEF NodesAhead
<1>3. CASE ReflectRetries
  BY <1>3 DEF ReflectRetries
<1>4. CASE ReflectCompletes
  BY <1>4 DEF ReflectCompletes, NodesAhead
<1>5. CASE Respond
  BY <1>5 DEF Respond
<1>6. CASE TurnFails
  BY <1>6 DEF TurnFails, MayFail, NothingForced
<1> QED BY <1>1, <1>2, <1>3, <1>4, <1>5, <1>6 DEF TurnStep

(* Whatever the LLM answers and the reflection rejects, a turn takes at     *)
(* most 4 * MaxReflect + 3 steps, and each of them leaves fewer: with the   *)
(* fairness of the thread that runs it, every turn ends.                    *)
THEOREM TurnsRunDown ==
    Spec => [][IF pc = "idle" THEN StepsLeft' \in 0..(4 * MaxReflect + 3)
               ELSE StepsLeft' \in 0..(StepsLeft - 1)]_vars
<1>1. Inv /\ Inv' /\ [Next]_vars
        => [IF pc = "idle" THEN StepsLeft' \in 0..(4 * MaxReflect + 3)
            ELSE StepsLeft' \in 0..(StepsLeft - 1)]_vars
  <2> SUFFICES ASSUME Inv, Inv', Next
               PROVE  IF pc = "idle" THEN StepsLeft' \in 0..(4 * MaxReflect + 3)
                      ELSE StepsLeft' \in 0..(StepsLeft - 1)
    OBVIOUS
  <2>1. /\ retries \in 0..(MaxReflect - 1) /\ retries' \in 0..(MaxReflect - 1)
        /\ pc \in Stages /\ pc' \in Stages /\ MaxReflect \in Nat
    BY MaxReflectAssumption DEF Inv, TypeOK
  <2>2. \A stage \in Stages \ {"idle"} : NodesAhead[stage] \in 1..7
    BY DEF Stages, NodesAhead
  <2>3. CASE pc = "idle"
    <3>1. ~TurnStep
      BY <2>3, TurnStepAdvances
    <3>2. pc' = "idle" \/ (pc' = "classify" /\ retries' = 0)
      BY <2>3, <3>1 DEF Next, AdminMessage, SpecialistAnswers, LoopCapped,
         ReceiveRelevant, ReceiveIrrelevant, turnVars
    <3> QED BY <2>1, <2>3, <3>2 DEF StepsLeft, NodesAhead
  <2>4. CASE pc # "idle"
    <3>1. TurnStep
      BY <2>4 DEF Next, AdminMessage, SpecialistAnswers, LoopCapped,
         ReceiveRelevant, ReceiveIrrelevant
    <3>2. CASE pc' = "idle"
      BY <2>1, <2>2, <2>4, <3>2 DEF StepsLeft
    <3>3. CASE /\ retries' = retries /\ pc' # "idle"
               /\ NodesAhead[pc'] = NodesAhead[pc] - 1
      BY <2>1, <2>2, <2>4, <3>3 DEF StepsLeft
    <3>4. CASE pc = "reflect" /\ pc' = "plan_state" /\ retries' = retries + 1
      BY <2>1, <2>4, <3>4 DEF StepsLeft, NodesAhead
    <3> QED BY <2>4, <3>1, <3>2, <3>3, <3>4, TurnStepAdvances
  <2> QED BY <2>3, <2>4
<1> QED BY <1>1, InitInv, StepInv, PTL DEF Spec
=============================================================================
