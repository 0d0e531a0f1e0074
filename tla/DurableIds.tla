----------------------------- MODULE DurableIds -----------------------------
(***************************************************************************)
(* What the layered memory promises of identities: a record that has been  *)
(* saved can be found for ever after.  Nothing in the store forgets one,   *)
(* whatever it moves between its layers and wherever a crash stops it.     *)
(***************************************************************************)
CONSTANT Ids

VARIABLE known     \* the ids that a lookup can still find

Init == known = {}

Learn == \E id \in Ids : known' = known \cup {id}

Spec == Init /\ [][Learn]_known
=============================================================================
