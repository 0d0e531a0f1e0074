------------------------------ MODULE UiRouting ------------------------------
(***************************************************************************)
(* CollectionDebugRuntime of the collection agent's ui/server.py: each     *)
(* HTTP request runs in a thread of its own, so that several messages and  *)
(* start_conversation calls of one session may be under way together.      *)
(* Only run_turn takes the session's lock; the router loads and saves the  *)
(* session outside of it.                                                  *)
(***************************************************************************)
EXTENDS HopLoop

CONSTANT MaxStarts    \* bound on the calls of start_conversation

ASSUME StartsAssumption == MaxStarts \in Nat

VARIABLES
    run,       \* history: the conversation started last
    presented, \* history: offers presented in this conversation
    received   \* history: recommendations stored in this conversation

counters   == <<messages, run, presented, received>>
routerVars == <<loopVars, run, presented, received>>
vars == <<turnVars, routerVars>>

RouterStages == {"idle", "route", "offer", "guard", "exhausted",
                 "reset", "loaded", "opening"}

Init == InitLoop /\ run = 0 /\ presented = 0 /\ received = 0

Run(c, what) ==
    /\ Move(c, "waiting")
    /\ due' = [due EXCEPT ![c] = what]

(* session_store.load, without the lock. *)
LoadSession(c, stage) ==
    /\ held' = [held EXCEPT ![c] = stored]
    /\ Move(c, stage)
    /\ UNCHANGED <<stored, lock, copy, replans, target, answer, hop, due>>

(* set_state on what was loaded, without the lock. *)
SaveSession(c, session) ==
    /\ held' = [held EXCEPT ![c] = session]
    /\ stored' = session
    /\ UNCHANGED <<lock, copy, replans, target, answer>>

-----------------------------------------------------------------------------
(* run_turn: the hops of one message *)

Receive(c) ==
    /\ pc[c] = "idle" /\ messages < MaxMessages
    /\ messages' = messages + 1
    /\ hop' = [hop EXCEPT ![c] = 1]
    /\ Run(c, "none")
    /\ UNCHANGED <<stored, lock, copy, replans, target, answer, held,
                   run, presented, received>>

Reply(c) ==
    /\ pc[c] = "route"
    /\ due[c] = "guard" \/ target[c] = "customer"
    /\ Move(c, "idle")
    /\ UNCHANGED <<stored, lock, copy, replans, target, answer, routerVars>>

NextHop(c, what) ==
    IF hop[c] < HardCap
    THEN hop' = [hop EXCEPT ![c] = @ + 1] /\ Run(c, what)
    ELSE Move(c, "exhausted") /\ UNCHANGED <<hop, due>>

(* Mutant of LoadForRecommendation: what was loaded before is used again. *)
LoadForRecommendationOnce(c) ==
    /\ Continues(c) /\ target[c] = "discount_planning_agent"
    /\ Move(c, "offer")
    /\ UNCHANGED <<stored, lock, copy, replans, target, answer, routerVars>>

(* The specialist is asked before the soft cap is looked at. *)
LoadForRecommendation(c) ==
    /\ Continues(c) /\ target[c] = "discount_planning_agent"
    /\ LoadSession(c, "offer")
    /\ UNCHANGED counters

SaveRecommendation(c) ==
    /\ pc[c] = "offer"
    /\ SaveSession(c, [held[c] EXCEPT !.offer = TRUE])
    /\ received' = received + 1
    /\ NextHop(c, "offer")
    /\ UNCHANGED <<messages, run, presented>>

LoadForGuard(c) ==
    /\ Continues(c) /\ target[c] = "self" /\ hop[c] >= SoftCap
    /\ LoadSession(c, "guard")
    /\ UNCHANGED counters

(* Mutant of SaveGuard: the flag is not set. *)
SaveGuardSilently(c) ==
    /\ pc[c] = "guard"
    /\ SaveSession(c, held[c])
    /\ Run(c, "guard")
    /\ UNCHANGED <<hop, counters>>

SaveGuard(c) ==
    /\ pc[c] = "guard"
    /\ SaveSession(c, [held[c] EXCEPT !.blocked = TRUE])
    /\ Run(c, "guard")
    /\ UNCHANGED <<hop, counters>>

(* Mutant of Self: the soft cap is not looked at. *)
SelfUncapped(c) ==
    /\ Continues(c) /\ target[c] = "self"
    /\ NextHop(c, "none")
    /\ UNCHANGED <<stored, lock, copy, replans, target, answer, held, counters>>

Self(c) ==
    /\ Continues(c) /\ target[c] = "self" /\ hop[c] < SoftCap
    /\ NextHop(c, "none")
    /\ UNCHANGED <<stored, lock, copy, replans, target, answer, held, counters>>

(* After the loop: "No terminal response generated." *)
NoResponse(c) ==
    /\ pc[c] = "exhausted"
    /\ Move(c, "idle")
    /\ UNCHANGED <<stored, lock, copy, replans, target, answer, routerVars>>

-----------------------------------------------------------------------------
(* start_conversation: reset the session, load it, describe it twice *)

ResetSession(c) ==
    /\ pc[c] = "idle" /\ run < MaxStarts
    /\ run' = run + 1
    /\ stored' = EmptySession(run')
    /\ presented' = 0 /\ received' = 0
    /\ Move(c, "reset")
    /\ UNCHANGED <<lock, copy, replans, target, answer, held, hop, due, messages>>

LoadFresh(c) ==
    /\ pc[c] = "reset"
    /\ LoadSession(c, "loaded")
    /\ UNCHANGED counters

DescribeCase(c) ==
    /\ pc[c] = "loaded"
    /\ SaveSession(c, [held[c] EXCEPT !.blocked = FALSE])
    /\ Move(c, "opening")
    /\ UNCHANGED <<hop, due, counters>>

Open(c) ==
    /\ pc[c] = "opening"
    /\ SaveSession(c, [held[c] EXCEPT !.turn = 1])
    /\ Move(c, "idle")
    /\ UNCHANGED <<hop, due, counters>>

-----------------------------------------------------------------------------
(* A turn that presents the stored recommendation is counted. *)
TurnStep(c) ==
    /\ GraphStep(c)
    /\ presented' = IF pc[c] = "planned" /\ pc'[c] = "route" /\ answer[c] = "offer"
                    THEN presented + 1 ELSE presented
    /\ UNCHANGED <<held, hop, due, messages, run, received>>

CallerStep(c) ==
    \/ TurnStep(c)
    \/ Reply(c) \/ Self(c) \/ NoResponse(c)
    \/ LoadForRecommendation(c) \/ SaveRecommendation(c)
    \/ LoadForGuard(c) \/ SaveGuard(c)
    \/ LoadFresh(c) \/ DescribeCase(c) \/ Open(c)

Next == \E c \in Callers :
    \/ Receive(c) \/ ResetSession(c)
    \/ CallerStep(c)
    \/ SaveProgress(c) /\ UNCHANGED routerVars

Spec == Init /\ [][Next]_vars

(* Every thread goes on until its request is answered. *)
FairSpec == Spec /\ \A c \in Callers : WF_vars(CallerStep(c))

-----------------------------------------------------------------------------
(* Properties *)

(* Every variable keeps its type. *)
TypeOK ==
    /\ LoopTypeOK
    /\ pc \in [Callers -> TurnStages \cup RouterStages]
    /\ run \in 0..MaxStarts /\ presented \in Nat /\ received \in Nat

(* Two requests never run the graph on one session together, and a request  *)
(* that has left run_turn, by an exception too, holds no lock.              *)
OneTurnAtATime == \A c \in Callers : InTurn(c) <=> lock = c

(* Every request is answered, whatever the others do and however its turns  *)
(* end: no lock is left behind and no loop goes on for ever.                *)
RequestEnds == \A c \in Callers : (pc[c] # "idle") ~> (pc[c] = "idle")

(* With one request at a time, no turn of a conversation is forgotten by a  *)
(* later save.                                                              *)
TurnsKept == [][run' = run => stored'.turn >= stored.turn]_vars

(* With one request at a time, a recommendation is presented at most once,  *)
(* whatever reflect retries, failed or off-topic turns come between.        *)
OfferPresentedOnce == presented <= received

(* With one request at a time, hops beyond the soft cap are only those the  *)
(* specialist asked for.                                                    *)
HopsBounded ==
    \A c \in Callers : InTurn(c) => hop[c] <= SoftCap + received

=============================================================================
