----------------------------- MODULE CliRouting -----------------------------
(***************************************************************************)
(* _route_internal_turn of the collection agent's main.py, which the       *)
(* command line and the voice bot use: one message is one loop of internal *)
(* hops between the collection agent and the discount planning agent.  The *)
(* router loads the session once, before the first hop, and writes that    *)
(* copy back whenever it leaves something for the next hop.                *)
(***************************************************************************)
EXTENDS HopLoop

VARIABLE ran    \* history, per caller: turns run for the current message

cliRouterVars == <<loopVars, ran>>
cliVars == <<turnVars, cliRouterVars>>

CliInit == InitLoop /\ ran = [c \in Callers |-> 0]

(* Enter run_turn for what is due. *)
CliRun(c, what) ==
    /\ Move(c, "waiting")
    /\ due' = [due EXCEPT ![c] = what]
    /\ ran' = [ran EXCEPT ![c] = IF pc[c] = "idle" THEN 1 ELSE @ + 1]

(* memory.set_state: the router's own copy, with what it leaves behind. *)
Leave(c, session) ==
    /\ held' = [held EXCEPT ![c] = session]
    /\ stored' = session
    /\ UNCHANGED <<lock, copy, replans, target, answer, messages>>

CliReceive(c) ==
    /\ pc[c] = "idle" /\ messages < MaxMessages
    /\ messages' = messages + 1
    /\ held' = [held EXCEPT ![c] = stored]
    /\ hop' = [hop EXCEPT ![c] = 1]
    /\ CliRun(c, "none")
    /\ UNCHANGED <<stored, lock, copy, replans, target, answer>>

(* The customer is answered: by the guard's turn whatever its target. *)
CliReply(c) ==
    /\ pc[c] = "route"
    /\ due[c] = "guard" \/ target[c] = "customer"
    /\ Move(c, "idle")
    /\ UNCHANGED <<stored, lock, copy, replans, target, answer, cliRouterVars>>

(* Mutant of AtSoftCap: only loops of the agent with itself are guarded. *)
AtSoftCapForSelf(c) == hop[c] >= SoftCap /\ target[c] = "self"

AtSoftCap(c) == hop[c] >= SoftCap

(* Mutant of Guard: nothing is left for the turn. *)
GuardSilently(c) ==
    /\ Continues(c) /\ AtSoftCap(c)
    /\ Leave(c, held[c])
    /\ CliRun(c, "guard")
    /\ UNCHANGED hop

Guard(c) ==
    /\ Continues(c) /\ AtSoftCap(c)
    /\ Leave(c, [held[c] EXCEPT !.blocked = TRUE])
    /\ CliRun(c, "guard")
    /\ UNCHANGED hop

CliNextHop(c, what) ==
    IF hop[c] < HardCap
    THEN hop' = [hop EXCEPT ![c] = @ + 1] /\ CliRun(c, what)
    ELSE Move(c, "exhausted") /\ UNCHANGED <<hop, due, ran>>

TakeRecommendation(c) ==
    /\ Continues(c) /\ ~AtSoftCap(c) /\ target[c] = "discount_planning_agent"
    /\ Leave(c, [held[c] EXCEPT !.offer = TRUE])
    /\ CliNextHop(c, "offer")

CliSelf(c) ==
    /\ Continues(c) /\ ~AtSoftCap(c) /\ target[c] = "self"
    /\ CliNextHop(c, "none")
    /\ UNCHANGED <<stored, lock, copy, replans, target, answer, held, messages>>

CliCallerStep(c) ==
    \/ GraphStep(c) /\ UNCHANGED cliRouterVars
    \/ CliReply(c) \/ Guard(c) \/ TakeRecommendation(c) \/ CliSelf(c)

CliNext == \E c \in Callers :
    \/ CliReceive(c)
    \/ CliCallerStep(c)
    \/ SaveProgress(c) /\ UNCHANGED cliRouterVars

CliSpec == CliInit /\ [][CliNext]_cliVars

(* The thread of a message goes on until it has answered. *)
CliFairSpec == CliSpec /\ \A c \in Callers : WF_cliVars(CliCallerStep(c))

-----------------------------------------------------------------------------
(* Properties *)

(* Every variable keeps its type. *)
CliTypeOK ==
    /\ LoopTypeOK
    /\ pc \in [Callers -> TurnStages \cup {"idle", "route", "exhausted"}]
    /\ ran \in [Callers -> Nat]

(* Whatever targets the turns choose, by themselves or through the          *)
(* specialist, one message runs at most SoftCap + 1 of them, guard          *)
(* included (main.py 217-272).                                              *)
TurnsPerMessageBounded == \A c \in Callers : ran[c] <= SoftCap + 1

(* The loop never runs out: the hard cap behind it and the answer that      *)
(* follows the loop (main.py 274-288) are not needed.                       *)
HardCapNotReached == \A c \in Callers : pc[c] # "exhausted"

(* Every message is answered or ends in an error. *)
MessageEnds == \A c \in Callers : (pc[c] # "idle") ~> (pc[c] = "idle")
=============================================================================
