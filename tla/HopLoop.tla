------------------------------- MODULE HopLoop -------------------------------
(***************************************************************************)
(* What the two routers above run_turn have in common: main.py's for the   *)
(* command line and ui/server.py's for the debug server.  Both route one   *)
(* message in a loop of hops with a soft and a hard cap, load the session, *)
(* and leave something in it for the turn of the next hop.  Their steps    *)
(* differ, and are in CliRouting and UiRouting.                            *)
(***************************************************************************)
EXTENDS SessionTurns

CONSTANTS
    SoftCap,       \* hops after which the loop guard answers (10)
    HardCap,       \* iterations of the hop loop (50)
    MaxMessages    \* bound on the messages explored

ASSUME CapsAssumption ==
    /\ SoftCap \in Nat \ {0} /\ HardCap \in Nat /\ HardCap >= SoftCap
    /\ MaxMessages \in Nat

VARIABLES
    held,      \* per caller: the memory object loaded by its router
    hop,       \* per caller: the hop of the loop
    due,       \* per caller: what the router left for this turn
    messages   \* messages so far

loopVars == <<held, hop, due, messages>>

Due == {"none", "guard", "offer"}

InitLoop ==
    /\ InitTurns
    /\ held = [c \in Callers |-> EmptySession(0)]
    /\ hop = [c \in Callers |-> 0]
    /\ due = [c \in Callers |-> "none"]
    /\ messages = 0

(* The turn's response goes to the specialist or back to the agent. *)
Continues(c) == pc[c] = "route" /\ due[c] # "guard" /\ target[c] # "customer"

LoopTypeOK ==
    /\ TurnTypeOK
    /\ held \in [Callers -> Session]
    /\ hop \in [Callers -> 0..HardCap] /\ due \in [Callers -> Due]
    /\ messages \in 0..MaxMessages

(* Where a session is routed by one thread at a time, what the router       *)
(* leaves in it is there when the turn it is meant for starts, however old  *)
(* the copy the router wrote it with (main.py 244-265, ui/server.py         *)
(* 547-601).                                                                *)
HandoffArrives ==
    \A c \in Callers : pc[c] = "graph" =>
        /\ due[c] = "guard" => copy[c].blocked
        /\ due[c] = "offer" => copy[c].offer
=============================================================================
