---------------------------- MODULE SessionTurns ----------------------------
(***************************************************************************)
(* CollectionAgent.run_turn as its routers see it: one pass of the graph   *)
(* over the stored state of one session, under the session's lock.  The    *)
(* turn loads the stored state once, works on its own copy and saves the   *)
(* whole copy each time (ConversationMemory.set_state); its last act is to *)
(* count the turn.  What the graph does inside is CollectionTurn's matter: *)
(* kept here are the target of the response and the two flags through      *)
(* which a router hands something to the next turn.                        *)
(***************************************************************************)
EXTENDS Integers

CONSTANTS
    Callers,       \* threads routing a message of this session
    NoCaller,      \* the lock is free
    MaxReplans     \* reflect retries in one turn (max_retry_loops - 1 = 1)

ASSUME CallersAssumption == NoCaller \notin Callers /\ MaxReplans \in Nat

VARIABLES
    stored,    \* CollectionRepository._states[session]
    lock,      \* who holds _session_locks[session]
    pc,        \* per caller: where its thread is
    copy,      \* per caller: memory.state of its run_turn, empty outside
    replans,   \* per caller: reflect retries taken in this turn
    target,    \* per caller: response_target of its last turn
    answer     \* per caller: what the last plan proposal was about

turnVars == <<stored, lock, pc, copy, replans, target, answer>>

Targets == {"customer", "self", "discount_planning_agent"}
Answers == {"none", "scope", "guardrail", "closing", "offer", "plan"}

(* turn: turn_index; blocked: agent_loop_blocked; offer: a discount         *)
(* recommendation is stored; run: the conversation all other data is from.  *)
Session == [turn : Nat, blocked : BOOLEAN, offer : BOOLEAN, run : Nat]

EmptySession(run) ==
    [turn |-> 0, blocked |-> FALSE, offer |-> FALSE, run |-> run]

TurnStages == {"waiting", "graph", "replan", "planned"}
InTurn(c)  == pc[c] \in TurnStages \ {"waiting"}

InitTurns ==
    /\ stored = EmptySession(0) /\ lock = NoCaller
    /\ pc = [c \in Callers |-> "idle"]
    /\ copy = [c \in Callers |-> EmptySession(0)]
    /\ replans = [c \in Callers |-> 0]
    /\ target = [c \in Callers |-> "customer"]
    /\ answer = [c \in Callers |-> "none"]

Move(c, stage) == pc' = [pc EXCEPT ![c] = stage]

(* set_state: the caller's whole copy replaces what is stored. *)
Save(c, session) ==
    /\ copy' = [copy EXCEPT ![c] = session]
    /\ stored' = session

(* Mutant of BeginTurn: the lock is not waited for. *)
BeginUnlocked(c) ==
    /\ pc[c] = "waiting"
    /\ lock' = c
    /\ copy' = [copy EXCEPT ![c] = stored]
    /\ replans' = [replans EXCEPT ![c] = 0]
    /\ Move(c, "graph")
    /\ UNCHANGED <<stored, target, answer>>

BeginTurn(c) ==
    /\ pc[c] = "waiting" /\ lock = NoCaller
    /\ lock' = c
    /\ copy' = [copy EXCEPT ![c] = stored]
    /\ replans' = [replans EXCEPT ![c] = 0]
    /\ Move(c, "graph")
    /\ UNCHANGED <<stored, target, answer>>

(* Nodes save what they learn before the proposal is made. *)
SaveProgress(c) ==
    /\ pc[c] \in {"graph", "replan"}
    /\ Save(c, copy[c])
    /\ UNCHANGED <<lock, pc, replans, target, answer>>

Propose(c, about, to) ==
    /\ Move(c, "planned")
    /\ target' = [target EXCEPT ![c] = to]
    /\ answer' = [answer EXCEPT ![c] = about]
    /\ UNCHANGED <<lock, replans>>

(* The relevance node ends the turn without any proposal. *)
OutOfScope(c) ==
    /\ pc[c] = "graph"
    /\ Propose(c, "scope", "customer")
    /\ UNCHANGED <<stored, copy>>

(* PlanProposalDirectiveNode.execute, in the order of its checks. *)
AtDirective(c) == pc[c] \in {"graph", "replan"}

ProposeGuardrail(c) ==
    /\ AtDirective(c) /\ copy[c].blocked
    /\ Save(c, [copy[c] EXCEPT !.blocked = FALSE])
    /\ Propose(c, "guardrail", "customer")

ProposeClosing(c) ==
    /\ AtDirective(c) /\ ~copy[c].blocked
    /\ Save(c, copy[c])
    /\ Propose(c, "closing", "customer")

(* Mutant of ProposeOffer: the recommendation stays in the session. *)
ProposeOfferAgain(c) ==
    /\ AtDirective(c) /\ ~copy[c].blocked /\ copy[c].offer
    /\ Save(c, copy[c])
    /\ Propose(c, "offer", "customer")

ProposeOffer(c) ==
    /\ AtDirective(c) /\ ~copy[c].blocked /\ copy[c].offer
    /\ Save(c, [copy[c] EXCEPT !.offer = FALSE])
    /\ Propose(c, "offer", "customer")

ProposePlan(c) ==
    /\ AtDirective(c) /\ ~copy[c].blocked /\ ~copy[c].offer
    /\ Save(c, copy[c])
    /\ \E to \in Targets : Propose(c, "plan", to)

(* The reflect node could not read the validator's answer: plan once more. *)
Replan(c) ==
    /\ pc[c] = "planned" /\ answer[c] # "scope" /\ replans[c] < MaxReplans
    /\ replans' = [replans EXCEPT ![c] = @ + 1]
    /\ Move(c, "replan")
    /\ UNCHANGED <<stored, lock, copy, target, answer>>

FinishTurn(c) ==
    /\ pc[c] = "planned"
    /\ stored' = [copy[c] EXCEPT !.turn = @ + 1]
    /\ copy' = [copy EXCEPT ![c] = EmptySession(0)]
    /\ lock' = NoCaller
    /\ Move(c, "route")
    /\ UNCHANGED <<replans, target, answer>>

(* Mutant of FailTurn: the lock is released on the normal path only. *)
FailTurnLocked(c) ==
    /\ InTurn(c)
    /\ Move(c, "idle")
    /\ UNCHANGED <<stored, lock, copy, replans, target, answer>>

(* A node raises: the exception leaves run_turn and the router. *)
FailTurn(c) ==
    /\ InTurn(c)
    /\ lock' = NoCaller
    /\ copy' = [copy EXCEPT ![c] = EmptySession(0)]
    /\ Move(c, "idle")
    /\ UNCHANGED <<stored, replans, target, answer>>

GraphStep(c) ==
    \/ BeginTurn(c) \/ OutOfScope(c)
    \/ ProposeGuardrail(c) \/ ProposeClosing(c)
    \/ ProposeOffer(c) \/ ProposePlan(c)
    \/ Replan(c) \/ FinishTurn(c) \/ FailTurn(c)

TurnTypeOK ==
    /\ stored \in Session /\ lock \in Callers \cup {NoCaller}
    /\ copy \in [Callers -> Session]
    /\ replans \in [Callers -> 0..MaxReplans]
    /\ target \in [Callers -> Targets] /\ answer \in [Callers -> Answers]
=============================================================================
