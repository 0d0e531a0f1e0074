-------------------------- MODULE ConversationPlan --------------------------
(***************************************************************************)
(* The conversation plan of a session: PlanProposalGraphNode.  The plan is *)
(* a fixed graph of six steps with a marker per step; each planning pass   *)
(* marks what is known to be done and chooses the current step among the   *)
(* unlocked ones.  The node always hands the builder an empty proposal, so *)
(* the tree updates the builder could apply do not occur, no step is added *)
(* or removed, and only two markers are ever set.  Labels, owners, version *)
(* and the bounded timelines are left out.                                 *)
(***************************************************************************)
EXTENDS Naturals, Sequences

(* In breadth-first order from the root. *)
Steps == <<"open_and_context", "verify_identity", "explain_dues",
           "collect_payment_intent", "resolve_outcome", "evaluate_assistance">>
StepIds == {Steps[i] : i \in DOMAIN Steps}
Root    == "open_and_context"

Edges == { <<"open_and_context", "verify_identity">>,
           <<"verify_identity", "explain_dues">>,
           <<"explain_dues", "collect_payment_intent">>,
           <<"collect_payment_intent", "resolve_outcome">>,
           <<"collect_payment_intent", "evaluate_assistance">>,
           <<"evaluate_assistance", "resolve_outcome">> }

Parents(s)  == {e[1] : e \in {d \in Edges : d[2] = s}}
Children(s) == {e[2] : e \in {d \in Edges : d[1] = s}}

MarkerStates == {"pending", "done"}
PlanStatuses == {"active", "completed"}

Plan == [current : StepIds, markers : [StepIds -> MarkerStates],
         status : PlanStatuses]

(* A session without a plan: active_conversation_plan = {}. *)
NoPlan == [current |-> Root, markers |-> [s \in StepIds |-> "pending"],
           status |-> "active"]

(* _create_initial_plan_graph; the markers start from the node statuses. *)
InitialPlan(verified) ==
    [NoPlan EXCEPT !.markers["verify_identity"] =
        IF verified THEN "done" ELSE "pending"]

-----------------------------------------------------------------------------
(* Markers *)

(* _apply_step_marker_updates and _enforce_verification_marker_consistency  *)
(* under an empty update: verify_identity is done exactly when the session  *)
(* is verified, and the root is done once the plan moves on from it.        *)
MarksAfter(marks, verified, previous, candidate) ==
    [marks EXCEPT
        !["verify_identity"] = IF verified THEN "done" ELSE "pending",
        ![Root] = IF previous = Root /\ candidate # Root THEN "done" ELSE @]

-----------------------------------------------------------------------------
(* The current step *)

(* Mutant of Unlocked: one finished parent is enough, or none. *)
AlwaysUnlocked(marks, s) == TRUE

Unlocked(marks, s) == \A p \in Parents(s) : marks[p] = "done"

Actionable(marks, s) == Unlocked(marks, s) /\ marks[s] = "pending"

Onwards(some) == some \cup UNION {Children(s) : s \in some}

(* Everything reachable from s, s included: four hops span the graph. *)
From(s) == Onwards(Onwards(Onwards(Onwards({s}))))

(* first_actionable_descendant over all of starts, breadth first. *)
ActionableFrom(marks, starts) ==
    {i \in DOMAIN Steps : /\ Steps[i] \in UNION {From(s) : s \in starts}
                          /\ Actionable(marks, Steps[i])}

FirstOf(positions) == Steps[CHOOSE i \in positions : \A j \in positions : i <= j]

(* The candidate of _infer_current_node_id in strict mode: the end of the   *)
(* plan when the customer ends the call, otherwise no change.               *)
Candidate(previous, ends) == IF ends THEN "resolve_outcome" ELSE previous

(* _resolve_next_current_node.  nearest_unlocked(previous) is previous: a   *)
(* step is entered only unlocked and no marker it rests on is withdrawn.    *)
NextCurrent(marks, previous, candidate) ==
    LET open == ActionableFrom(marks, Children(previous))
    IN  IF Children(previous) # {}
        THEN IF candidate \in Children(previous) /\ Actionable(marks, candidate)
             THEN candidate
             ELSE IF open # {} THEN FirstOf(open) ELSE previous
        ELSE IF Unlocked(marks, candidate) THEN candidate ELSE previous

(* Mutant of UpdatedPlan: the stored plan is not taken up again. *)
PlanFromScratch(plan, verified, ends) ==
    LET candidate == Candidate(Root, ends)
        marks == MarksAfter(InitialPlan(verified).markers, verified, Root, candidate)
    IN  [current |-> NextCurrent(marks, Root, candidate),
         markers |-> marks,
         status  |-> IF ends THEN "completed" ELSE "active"]

(* _build_or_update_conversation_plan *)
UpdatedPlan(plan, verified, ends) ==
    LET candidate == Candidate(plan.current, ends)
        marks == MarksAfter(plan.markers, verified, plan.current, candidate)
    IN  [current |-> NextCurrent(marks, plan.current, candidate),
         markers |-> marks,
         status  |-> IF ends THEN "completed" ELSE "active"]

=============================================================================
