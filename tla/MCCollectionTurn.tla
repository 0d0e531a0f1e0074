-------------------------- MODULE MCCollectionTurn --------------------------
(* Small instances of CollectionTurn.  *)
EXTENDS CollectionTurn

(* The nodes whose code raises: the strict intent nodes, the directive and  *)
(* response nodes in strict mode, and the tool node.                        *)
RaisingNodes ==
    {"relevance_intent", "pre_plan_intent", "execution_path_intent",
     "post_memory_plan_intent", "post_verification_intent",
     "plan_proposal_directive", "relevant_response", "tool_execution"}

BothFields == Fields
OneField   == {"dob"}
Outputs    == {0}
=============================================================================
