--------------------------- MODULE Routing_proofs ---------------------------
(***************************************************************************)
(* Theorems about the two routers above run_turn: the debug server's, for  *)
(* any number of concurrent requests, messages and restarts of the         *)
(* conversation, and the command line's, for any caps, any number of       *)
(* messages and, but for CliHandoffsArrive, of threads on the session.  *)
(***************************************************************************)
EXTENDS CliRouting, UiRouting, TLAPS

-----------------------------------------------------------------------------
(* The debug server                                                         *)

(* Where the thread of a caller may be. *)
Stages == TurnStages \cup RouterStages

-----------------------------------------------------------------------------
(* One turn at a time *)

(* The stages of the threads and the holder of the lock. *)
LockInv ==
    /\ pc \in [Callers -> Stages]
    /\ lock \in Callers \cup {NoCaller}
    /\ OneTurnAtATime

(* Before the first request nobody holds the lock.                          *)
LEMMA LockInit == Init => LockInv
BY CallersAssumption DEF Init, InitLoop, InitTurns, LockInv, OneTurnAtATime,
     InTurn, Stages, TurnStages, RouterStages

(* A step outside run_turn, or inside it, that does not touch the lock.     *)
LEMMA LockKept ==
    ASSUME LockInv, NEW c \in Callers, NEW stage \in Stages, Move(c, stage),
           lock' = lock,
           pc[c] \in TurnStages \ {"waiting"} <=> stage \in TurnStages \ {"waiting"}
    PROVE  LockInv'
BY DEF LockInv, OneTurnAtATime, InTurn, Move

(* Only the holder of the lock leaves run_turn, and it lets the lock go.    *)
LEMMA LockReleased ==
    ASSUME LockInv, NEW c \in Callers, NEW stage \in Stages, Move(c, stage),
           InTurn(c), lock' = NoCaller, stage \notin TurnStages
    PROVE  LockInv'
<1>1. lock = c
  BY DEF LockInv, OneTurnAtATime
<1>2. \A d \in Callers : pc'[d] = IF d = c THEN stage ELSE pc[d]
  BY DEF LockInv, Move
<1>3. \A d \in Callers : ~InTurn(d)'
  BY <1>1, <1>2 DEF LockInv, OneTurnAtATime, InTurn
<1> QED BY <1>3, CallersAssumption DEF LockInv, OneTurnAtATime, Move

(* Every step keeps the lock with the one thread inside run_turn.           *)
LEMMA LockStep == LockInv /\ [Next]_vars => LockInv'
<1> SUFFICES ASSUME LockInv, [Next]_vars PROVE LockInv'
  OBVIOUS
<1> USE DEF Stages, TurnStages, RouterStages
<1>1. CASE UNCHANGED vars
  BY <1>1 DEF vars, turnVars, LockInv, OneTurnAtATime, InTurn
<1>2. ASSUME NEW c \in Callers, TurnStep(c) PROVE LockInv'
  <2>1. CASE BeginTurn(c)
    <3>1. \A d \in Callers : pc'[d] = IF d = c THEN "graph" ELSE pc[d]
      BY <2>1 DEF BeginTurn, Move, LockInv
    <3>2. \A d \in Callers : ~InTurn(d)
      BY <2>1, CallersAssumption DEF BeginTurn, LockInv, OneTurnAtATime
    <3>3. \A d \in Callers : InTurn(d)' <=> d = c
      BY <3>1, <3>2 DEF InTurn
    <3> QED BY <2>1, <3>3 DEF BeginTurn, Move, LockInv, OneTurnAtATime
  <2>2. CASE OutOfScope(c)
    BY <2>2, LockKept DEF OutOfScope, Propose
  <2>3. CASE ProposeGuardrail(c) \/ ProposeClosing(c) \/ ProposeOffer(c)
    BY <2>3, LockKept DEF ProposeGuardrail, ProposeClosing, ProposeOffer,
         AtDirective, Propose
  <2>4. CASE ProposePlan(c)
    BY <2>4, LockKept DEF ProposePlan, AtDirective, Propose
  <2>5. CASE Replan(c)
    BY <2>5, LockKept DEF Replan
  <2>6. CASE FinishTurn(c) \/ FailTurn(c)
    BY <2>6, LockReleased DEF FinishTurn, FailTurn, InTurn
  <2> QED BY <1>2, <2>1, <2>2, <2>3, <2>4, <2>5, <2>6 DEF TurnStep, GraphStep
<1>3. ASSUME NEW c \in Callers, Receive(c) \/ ResetSession(c) PROVE LockInv'
  BY <1>3, LockKept DEF Receive, ResetSession, Run
<1>4. ASSUME NEW c \in Callers, Reply(c) \/ NoResponse(c) PROVE LockInv'
  BY <1>4, LockKept DEF Reply, NoResponse
<1>5. ASSUME NEW c \in Callers, SaveRecommendation(c) \/ Self(c) PROVE LockInv'
  BY <1>5, LockKept DEF SaveRecommendation, Self, Continues, SaveSession,
       NextHop, Run
<1>6. ASSUME NEW c \in Callers,
             LoadForRecommendation(c) \/ LoadForGuard(c) \/ LoadFresh(c)
      PROVE  LockInv'
  BY <1>6, LockKept DEF LoadForRecommendation, LoadForGuard, LoadFresh,
       Continues, LoadSession
<1>7. ASSUME NEW c \in Callers, SaveGuard(c) \/ DescribeCase(c) \/ Open(c)
      PROVE  LockInv'
  BY <1>7, LockKept DEF SaveGuard, DescribeCase, Open, SaveSession, Run
<1>8. ASSUME NEW c \in Callers, SaveProgress(c) PROVE LockInv'
  BY <1>8 DEF SaveProgress, LockInv, OneTurnAtATime, InTurn
<1> QED
  BY <1>1, <1>2, <1>3, <1>4, <1>5, <1>6, <1>7, <1>8 DEF Next, CallerStep

(* However many requests of one session are under way, whatever raises: the *)
(* thread that holds _session_locks[session] is the only one in run_turn.   *)
THEOREM TurnsDoNotOverlap == Spec => []OneTurnAtATime
<1>1. Init => LockInv
  BY LockInit
<1>2. LockInv /\ [Next]_vars => LockInv'
  BY LockStep
<1>3. LockInv => OneTurnAtATime
  BY DEF LockInv
<1> QED BY <1>1, <1>2, <1>3, PTL DEF Spec
-----------------------------------------------------------------------------
(* Type correctness *)

(* Initially every variable has its type.                                   *)
LEMMA TypeInit == Init => TypeOK
BY CapsAssumption, StartsAssumption, CallersAssumption DEF Init, InitLoop,
     InitTurns, TypeOK, LoopTypeOK, TurnTypeOK, EmptySession, Session, Targets,
     Answers, RouterStages, Due

(* A session with another flag or turn number is still a session.           *)
LEMMA SessionUpdates ==
    ASSUME NEW s \in Session, NEW b \in BOOLEAN, NEW n \in Nat
    PROVE  /\ [s EXCEPT !.blocked = b] \in Session
           /\ [s EXCEPT !.offer = b] \in Session
           /\ [s EXCEPT !.turn = n] \in Session
BY DEF Session

(* A fresh session, of whatever conversation, is a session.                 *)
LEMMA FreshSession == ASSUME NEW n \in Nat PROVE EmptySession(n) \in Session
BY DEF Session, EmptySession

(* A save outside of run_turn keeps the types of what it assigns.           *)
LEMMA TypeSaveSession ==
    ASSUME TypeOK, NEW c \in Callers, NEW s \in Session, SaveSession(c, s)
    PROVE  TurnTypeOK' /\ held' \in [Callers -> Session]
BY DEF TypeOK, LoopTypeOK, TurnTypeOK, SaveSession

(* What a turn assigns keeps its type.                                      *)
LEMMA TypeTurn ==
    ASSUME TurnTypeOK, NEW c \in Callers, GraphStep(c),
           NEW Places, pc \in [Callers -> Places],
           TurnStages \cup {"idle", "route"} \subseteq Places
    PROVE  TurnTypeOK' /\ pc' \in [Callers -> Places]
<1> USE DEF TurnTypeOK
<1>1. CASE BeginTurn(c)
  BY <1>1, CallersAssumption DEF BeginTurn, Move, TurnStages
<1>2. CASE OutOfScope(c)
  BY <1>2 DEF OutOfScope, Propose, Move, TurnStages, Targets, Answers
<1>3. CASE ProposeGuardrail(c)
  <2>1. [copy[c] EXCEPT !.blocked = FALSE] \in Session
    BY SessionUpdates
  <2> QED BY <1>3, <2>1 DEF ProposeGuardrail, Save, Propose, Move, TurnStages,
       Targets, Answers
<1>4. CASE ProposeClosing(c)
  BY <1>4 DEF ProposeClosing, Save, Propose, Move, TurnStages, Targets, Answers
<1>5. CASE ProposeOffer(c)
  <2>1. [copy[c] EXCEPT !.offer = FALSE] \in Session
    BY SessionUpdates
  <2> QED BY <1>5, <2>1 DEF ProposeOffer, Save, Propose, Move, TurnStages,
       Targets, Answers
<1>6. CASE ProposePlan(c)
  BY <1>6 DEF ProposePlan, Save, Propose, Move, TurnStages, Targets, Answers
<1>7. CASE Replan(c)
  <2>1. replans[c] + 1 \in 0..MaxReplans
    BY <1>7, CallersAssumption DEF Replan
  <2> QED BY <1>7, <2>1 DEF Replan, Move, TurnStages
<1>8. CASE FinishTurn(c)
  <2>1. copy[c].turn + 1 \in Nat /\ EmptySession(0) \in Session
    BY FreshSession DEF Session
  <2>2. [copy[c] EXCEPT !.turn = @ + 1] \in Session
    BY <2>1, SessionUpdates
  <2> QED BY <1>8, <2>1, <2>2 DEF FinishTurn, Move
<1>9. CASE FailTurn(c)
  <2>1. EmptySession(0) \in Session
    BY FreshSession
  <2> QED BY <1>9, <2>1 DEF FailTurn, Move
<1> QED
  BY <1>1, <1>2, <1>3, <1>4, <1>5, <1>6, <1>7, <1>8, <1>9 DEF GraphStep

(* Going on to the next hop stays below the hard cap.                       *)
LEMMA TypeNextHop ==
    ASSUME TypeOK, NEW c \in Callers, NEW what \in Due, NextHop(c, what)
    PROVE  /\ pc' \in [Callers -> TurnStages \cup RouterStages]
           /\ hop' \in [Callers -> 0..HardCap] /\ due' \in [Callers -> Due]
<1>1. CASE hop[c] < HardCap
  <2>1. hop[c] + 1 \in 0..HardCap
    BY <1>1, CapsAssumption DEF TypeOK, LoopTypeOK
  <2> QED BY <1>1, <2>1 DEF NextHop, Run, Move, TypeOK, LoopTypeOK, TurnStages
<1>2. CASE ~(hop[c] < HardCap)
  BY <1>2 DEF NextHop, Move, TypeOK, LoopTypeOK, RouterStages
<1> QED BY <1>1, <1>2

(* Every step keeps the types.                                              *)
LEMMA TypeStep == TypeOK /\ [Next]_vars => TypeOK'
<1> SUFFICES ASSUME TypeOK, [Next]_vars PROVE TypeOK'
  OBVIOUS
<1>1. CASE UNCHANGED vars
  BY <1>1 DEF vars, turnVars, routerVars, loopVars, counters, TypeOK,
       LoopTypeOK, TurnTypeOK
<1>2. ASSUME NEW c \in Callers, TurnStep(c) PROVE TypeOK'
  <2>1. TurnTypeOK' /\ pc' \in [Callers -> TurnStages \cup RouterStages]
    BY <1>2, TypeTurn DEF TurnStep, TypeOK, LoopTypeOK, RouterStages
  <2>2. presented' \in Nat
    BY <1>2 DEF TurnStep, TypeOK, LoopTypeOK
  <2> QED BY <1>2, <2>1, <2>2 DEF TurnStep, TypeOK, LoopTypeOK
<1>3. ASSUME NEW c \in Callers, Receive(c) PROVE TypeOK'
  <2>1. 1 \in 0..HardCap /\ messages + 1 \in 0..MaxMessages
    BY <1>3, CapsAssumption DEF Receive, TypeOK, LoopTypeOK
  <2> QED BY <1>3, <2>1 DEF Receive, Run, Move, TypeOK, LoopTypeOK, TurnTypeOK,
       TurnStages, Due
<1>4. ASSUME NEW c \in Callers, ResetSession(c) PROVE TypeOK'
  <2>1. run + 1 \in 0..MaxStarts /\ run + 1 \in Nat
    BY <1>4, CapsAssumption, StartsAssumption DEF ResetSession, TypeOK,
         LoopTypeOK
  <2>2. EmptySession(run + 1) \in Session
    BY <2>1, FreshSession
  <2> QED BY <1>4, <2>1, <2>2 DEF ResetSession, Move, TypeOK, LoopTypeOK,
       TurnTypeOK, RouterStages
<1>5. ASSUME NEW c \in Callers, Reply(c) \/ NoResponse(c) PROVE TypeOK'
  BY <1>5 DEF Reply, NoResponse, Move, routerVars, loopVars, counters, TypeOK,
       LoopTypeOK, TurnTypeOK, RouterStages
<1>6. ASSUME NEW c \in Callers,
             LoadForRecommendation(c) \/ LoadForGuard(c) \/ LoadFresh(c)
      PROVE  TypeOK'
  BY <1>6 DEF LoadForRecommendation, LoadForGuard, LoadFresh, LoadSession,
       Move, counters, TypeOK, LoopTypeOK, TurnTypeOK, RouterStages
<1>7. ASSUME NEW c \in Callers, SaveRecommendation(c) PROVE TypeOK'
  <2>1. [held[c] EXCEPT !.offer = TRUE] \in Session
    BY SessionUpdates DEF TypeOK, LoopTypeOK
  <2>2. /\ pc' \in [Callers -> TurnStages \cup RouterStages]
        /\ hop' \in [Callers -> 0..HardCap] /\ due' \in [Callers -> Due]
    BY <1>7, TypeNextHop DEF SaveRecommendation, Due
  <2>3. TurnTypeOK' /\ held' \in [Callers -> Session]
    BY <1>7, <2>1, TypeSaveSession DEF SaveRecommendation
  <2> QED BY <1>7, <2>2, <2>3 DEF SaveRecommendation, TypeOK, LoopTypeOK
<1>8. ASSUME NEW c \in Callers, Self(c) PROVE TypeOK'
  <2>1. /\ pc' \in [Callers -> TurnStages \cup RouterStages]
        /\ hop' \in [Callers -> 0..HardCap] /\ due' \in [Callers -> Due]
    BY <1>8, TypeNextHop DEF Self, Due
  <2> QED BY <1>8, <2>1 DEF Self, counters, TypeOK, LoopTypeOK, TurnTypeOK
<1>9. ASSUME NEW c \in Callers, SaveGuard(c) PROVE TypeOK'
  <2>1. [held[c] EXCEPT !.blocked = TRUE] \in Session
    BY SessionUpdates DEF TypeOK, LoopTypeOK
  <2>2. TurnTypeOK' /\ held' \in [Callers -> Session]
    BY <1>9, <2>1, TypeSaveSession DEF SaveGuard
  <2> QED BY <1>9, <2>2 DEF SaveGuard, Run, Move, counters, TypeOK, LoopTypeOK,
       TurnStages, Due
<1>10. ASSUME NEW c \in Callers, DescribeCase(c) \/ Open(c) PROVE TypeOK'
  <2>1. /\ [held[c] EXCEPT !.blocked = FALSE] \in Session
        /\ [held[c] EXCEPT !.turn = 1] \in Session
    BY SessionUpdates DEF TypeOK, LoopTypeOK
  <2>2. TurnTypeOK' /\ held' \in [Callers -> Session]
    BY <1>10, <2>1, TypeSaveSession DEF DescribeCase, Open
  <2> QED BY <1>10, <2>2 DEF DescribeCase, Open, Move, counters, TypeOK,
       LoopTypeOK, RouterStages
<1>11. ASSUME NEW c \in Callers, SaveProgress(c), UNCHANGED routerVars PROVE TypeOK'
  BY <1>11 DEF SaveProgress, Save, routerVars, loopVars, counters, TypeOK,
       LoopTypeOK, TurnTypeOK
<1> QED
  BY <1>1, <1>2, <1>3, <1>4, <1>5, <1>6, <1>7, <1>8, <1>9, <1>10, <1>11
       DEF Next, CallerStep

(* Every variable keeps its type: the hop counter never passes the hard     *)
(* cap, and no turn plans more than MaxReplans times again.                 *)
THEOREM TypeCorrect == Spec => []TypeOK
<1> QED BY TypeInit, TypeStep, PTL DEF Spec

-----------------------------------------------------------------------------
(* One request at a time *)

OneAtATime == \A c, d \in Callers : c = d

(* The stages in which the thread has a message to route.                   *)
Routing == {"waiting", "graph", "replan", "planned", "route", "offer", "guard"}

(* What a lone thread works on is what is stored: the copy of its turn, and *)
(* what its router has loaded.                                              *)
FreshInv ==
    \A c \in Callers :
        /\ InTurn(c) => copy[c] = stored
        /\ pc[c] \in {"offer", "guard", "loaded", "opening"} => held[c] = stored

(* A conversation that is being started has no turns yet.                   *)
StartInv ==
    \A c \in Callers : pc[c] \in {"reset", "loaded", "opening"} => stored.turn = 0

(* What was left for the next turn is in the session until it is planned.   *)
LeftInv ==
    \A c \in Callers : pc[c] \in {"waiting", "graph"} =>
        /\ due[c] = "guard" => stored.blocked
        /\ due[c] = "offer" => stored.offer

(* An offer that is stored, or proposed and not yet presented, was received *)
(* and has not been presented; it is never both.                            *)
OfferInv ==
    /\ presented <= received
    /\ stored.offer => presented < received
    /\ \A c \in Callers : pc[c] = "planned" /\ answer[c] = "offer" =>
          presented < received /\ ~stored.offer

(* Hops beyond the soft cap have been paid for with recommendations.        *)
HopInv == \A c \in Callers : pc[c] \in Routing => hop[c] <= SoftCap + received

SingleInv ==
    /\ TypeOK
    /\ FreshInv /\ StartInv /\ LeftInv /\ OfferInv /\ HopInv

(* The one thread, as the conjuncts see it.                                 *)
SingleAt(c) ==
    /\ InTurn(c) => copy[c] = stored
    /\ pc[c] \in {"offer", "guard", "loaded", "opening"} => held[c] = stored
    /\ pc[c] \in {"reset", "loaded", "opening"} => stored.turn = 0
    /\ pc[c] \in {"waiting", "graph"} =>
        /\ due[c] = "guard" => stored.blocked
        /\ due[c] = "offer" => stored.offer
    /\ presented <= received
    /\ stored.offer => presented < received
    /\ pc[c] = "planned" /\ answer[c] = "offer" =>
          presented < received /\ ~stored.offer
    /\ pc[c] \in Routing => hop[c] <= SoftCap + received

(* With one thread, the invariant is what it says of that thread.           *)
LEMMA SingleIsAt ==
    ASSUME OneAtATime, NEW c \in Callers
    PROVE  /\ SingleInv => TypeOK /\ SingleAt(c)
           /\ TypeOK' /\ SingleAt(c)' => SingleInv'
<1>1. \A d \in Callers : d = c
  BY DEF OneAtATime
<1>2. SingleInv => TypeOK /\ SingleAt(c)
  BY DEF SingleInv, FreshInv, StartInv, LeftInv, OfferInv, HopInv, SingleAt
<1>3. TypeOK' /\ SingleAt(c)' => SingleInv'
  BY <1>1 DEF SingleInv, FreshInv, StartInv, LeftInv, OfferInv, HopInv,
       SingleAt, InTurn
<1> QED BY <1>2, <1>3

(* The turn itself, whatever it proposes and however it ends.               *)
LEMMA SingleTurn ==
    ASSUME TypeOK, NEW c \in Callers, SingleAt(c), TurnStep(c)
    PROVE  SingleAt(c)'
<1> USE DEF TypeOK, LoopTypeOK, TurnTypeOK, SingleAt, TurnStep, Routing,
     InTurn, TurnStages, Move
<1>1. CASE BeginTurn(c)
  BY <1>1 DEF BeginTurn
<1>2. CASE OutOfScope(c)
  BY <1>2 DEF OutOfScope, Propose
<1>3. CASE ProposeGuardrail(c)
  BY <1>3 DEF ProposeGuardrail, Save, Propose, AtDirective, Session
<1>4. CASE ProposeClosing(c)
  BY <1>4 DEF ProposeClosing, Save, Propose, AtDirective, Session
<1>5. CASE ProposeOffer(c)
  BY <1>5 DEF ProposeOffer, Save, Propose, AtDirective, Session
<1>6. CASE ProposePlan(c)
  BY <1>6 DEF ProposePlan, Save, Propose, AtDirective, Session
<1>7. CASE Replan(c)
  BY <1>7 DEF Replan
<1>8. CASE FinishTurn(c)
  BY <1>8 DEF FinishTurn, Session
<1>9. CASE FailTurn(c)
  BY <1>9 DEF FailTurn
<1> QED
  BY <1>1, <1>2, <1>3, <1>4, <1>5, <1>6, <1>7, <1>8, <1>9 DEF GraphStep

(* The router's part of a message, and the start of a conversation.         *)
LEMMA SingleRouter ==
    ASSUME TypeOK, NEW c \in Callers, SingleAt(c),
           \/ Receive(c) \/ ResetSession(c) \/ Reply(c) \/ Self(c) \/ NoResponse(c)
           \/ LoadForRecommendation(c) \/ SaveRecommendation(c)
           \/ LoadForGuard(c) \/ SaveGuard(c)
           \/ LoadFresh(c) \/ DescribeCase(c) \/ Open(c)
           \/ SaveProgress(c) /\ UNCHANGED routerVars
    PROVE  SingleAt(c)'
<1> USE DEF TypeOK, LoopTypeOK, TurnTypeOK, SingleAt, Routing, InTurn,
     TurnStages, Move,
        routerVars, loopVars, counters
<1>1. CASE Receive(c)
  BY <1>1, CapsAssumption DEF Receive, Run
<1>2. CASE ResetSession(c)
  BY <1>2, CapsAssumption, StartsAssumption DEF ResetSession, EmptySession
<1>3. CASE Reply(c) \/ NoResponse(c)
  BY <1>3 DEF Reply, NoResponse
<1>4. CASE Self(c)
  BY <1>4, CapsAssumption DEF Self, Continues, NextHop, Run
<1>5. CASE LoadForRecommendation(c) \/ LoadForGuard(c)
  BY <1>5 DEF LoadForRecommendation, LoadForGuard, LoadSession, Continues
<1>6. CASE SaveRecommendation(c)
  BY <1>6, CapsAssumption DEF SaveRecommendation, SaveSession, NextHop, Run,
       Session
<1>7. CASE SaveGuard(c)
  BY <1>7 DEF SaveGuard, SaveSession, Run, Session
<1>8. CASE LoadFresh(c)
  BY <1>8 DEF LoadFresh, LoadSession
<1>9. CASE DescribeCase(c)
  BY <1>9 DEF DescribeCase, SaveSession, Session
<1>10. CASE Open(c)
  BY <1>10 DEF Open, SaveSession, Session
<1>11. CASE SaveProgress(c) /\ UNCHANGED routerVars
  BY <1>11 DEF SaveProgress, Save
<1> QED BY <1>1, <1>2, <1>3, <1>4, <1>5, <1>6, <1>7, <1>8, <1>9, <1>10, <1>11

(* Before the first request there is nothing to lose.                       *)
LEMMA SingleInit == Init => SingleInv
BY TypeInit DEF Init, InitLoop, InitTurns, SingleInv, FreshInv, StartInv,
     LeftInv, OfferInv, HopInv, InTurn, TurnStages, Routing, EmptySession

(* Every step of one request at a time keeps the invariant.                 *)
LEMMA SingleStep == OneAtATime /\ SingleInv /\ [Next]_vars => SingleInv'
<1> SUFFICES ASSUME OneAtATime, SingleInv, [Next]_vars PROVE SingleInv'
  OBVIOUS
<1>1. TypeOK'
  BY TypeStep DEF SingleInv
<1>2. CASE UNCHANGED vars
  BY <1>1, <1>2 DEF vars, turnVars, routerVars, loopVars, counters, SingleInv,
       FreshInv, StartInv, LeftInv, OfferInv, HopInv, InTurn
<1>3. CASE Next
  <2>1. PICK c \in Callers : \/ Receive(c) \/ ResetSession(c) \/ CallerStep(c)
                             \/ SaveProgress(c) /\ UNCHANGED routerVars
    BY <1>3 DEF Next
  <2>2. TypeOK /\ SingleAt(c)
    BY SingleIsAt
  <2>3. SingleAt(c)'
    BY <2>1, <2>2, SingleTurn, SingleRouter DEF CallerStep
  <2> QED BY <1>1, <2>3, SingleIsAt
<1> QED BY <1>2, <1>3

(* One request at a time is an assumption about the constants, so it holds  *)
(* in every state.                                                          *)
LEMMA SingleInvariant == ASSUME OneAtATime PROVE Spec => []SingleInv
<1>1. SingleInv /\ [Next]_vars => SingleInv'
  BY SingleStep
<1> QED BY <1>1, SingleInit, PTL DEF Spec

(* With one request at a time, the guard flag and the recommendation that   *)
(* the router leaves in the session are in the copy of the turn they are    *)
(* meant for.                                                               *)
THEOREM HandoffsArrive == ASSUME OneAtATime PROVE Spec => []HandoffArrives
<1>1. SingleInv => HandoffArrives
  BY DEF SingleInv, FreshInv, LeftInv, HandoffArrives, InTurn, TurnStages
<1> QED BY <1>1, SingleInvariant, PTL

(* With one request at a time, no recommendation is presented twice.        *)
THEOREM OffersArePresentedOnce == ASSUME OneAtATime PROVE Spec => []OfferPresentedOnce
<1>1. SingleInv => OfferPresentedOnce
  BY DEF SingleInv, OfferInv, OfferPresentedOnce
<1> QED BY <1>1, SingleInvariant, PTL

(* With one request at a time, hops beyond the soft cap are paid for with   *)
(* recommendations.                                                         *)
THEOREM HopsAreBounded == ASSUME OneAtATime PROVE Spec => []HopsBounded
<1>1. SingleInv => HopsBounded
  BY DEF SingleInv, HopInv, HopsBounded, InTurn, TurnStages, Routing
<1> QED BY <1>1, SingleInvariant, PTL

(* With one request at a time, no save takes a turn of the conversation     *)
(* back.                                                                    *)
THEOREM TurnsAreKept == ASSUME OneAtATime PROVE Spec => TurnsKept
<1>1. SingleInv /\ [Next]_vars => [run' = run => stored'.turn >= stored.turn]_vars
  <2> SUFFICES ASSUME SingleInv, Next, run' = run PROVE stored'.turn >= stored.turn
    OBVIOUS
  <2>1. PICK c \in Callers : \/ Receive(c) \/ ResetSession(c) \/ CallerStep(c)
                             \/ SaveProgress(c) /\ UNCHANGED routerVars
    BY DEF Next
  <2>s. /\ stored \in Session /\ stored.turn \in Nat
        /\ copy[c] \in Session /\ held[c] \in Session
        /\ InTurn(c) => copy[c] = stored
        /\ pc[c] \in {"offer", "guard", "loaded", "opening"} => held[c] = stored
        /\ pc[c] = "opening" => stored.turn = 0
    BY DEF SingleInv, TypeOK, LoopTypeOK, TurnTypeOK, FreshInv, StartInv,
         Session
  <2>u. \A s \in Session :
           /\ [s EXCEPT !.blocked = FALSE].turn = s.turn
           /\ [s EXCEPT !.blocked = TRUE].turn = s.turn
           /\ [s EXCEPT !.offer = FALSE].turn = s.turn
           /\ [s EXCEPT !.offer = TRUE].turn = s.turn
           /\ [s EXCEPT !.turn = @ + 1].turn = s.turn + 1
           /\ [s EXCEPT !.turn = 1].turn = 1
    BY DEF Session
  <2>v. /\ [stored EXCEPT !.blocked = FALSE].turn = stored.turn
        /\ [stored EXCEPT !.blocked = TRUE].turn = stored.turn
        /\ [stored EXCEPT !.offer = FALSE].turn = stored.turn
        /\ [stored EXCEPT !.offer = TRUE].turn = stored.turn
    BY <2>s, <2>u
  <2>2. CASE TurnStep(c)
    <3>1. CASE FinishTurn(c)
      <4>1. stored' = [stored EXCEPT !.turn = @ + 1]
        BY <3>1, <2>s DEF FinishTurn, InTurn, TurnStages
      <4> QED BY <4>1, <2>s, <2>u
    <3>2. CASE ProposeGuardrail(c) \/ ProposeOffer(c)
      <4>1. \/ stored' = [stored EXCEPT !.blocked = FALSE]
            \/ stored' = [stored EXCEPT !.offer = FALSE]
        BY <3>2, <2>s DEF ProposeGuardrail, ProposeOffer, AtDirective, Save,
             InTurn, TurnStages
      <4>2. stored'.turn = stored.turn
        BY <4>1, <2>v, Zenon
      <4> QED BY <4>2, <2>s
    <3>3. CASE ProposeClosing(c) \/ ProposePlan(c)
      <4>1. stored' = stored
        BY <3>3, <2>s DEF ProposeClosing, ProposePlan, AtDirective, Save,
             InTurn, TurnStages
      <4> QED BY <4>1, <2>s
    <3>4. CASE BeginTurn(c) \/ OutOfScope(c) \/ Replan(c) \/ FailTurn(c)
      <4>1. stored' = stored
        BY <3>4 DEF BeginTurn, OutOfScope, Replan, FailTurn
      <4> QED BY <4>1, <2>s
    <3> QED BY <2>2, <3>1, <3>2, <3>3, <3>4 DEF TurnStep, GraphStep
  <2>3. CASE SaveProgress(c)
    BY <2>3, <2>s DEF SaveProgress, Save, InTurn, TurnStages
  <2>4. ~ResetSession(c)
    <3> SUFFICES ASSUME ResetSession(c) PROVE FALSE
      OBVIOUS
    <3>1. run \in Nat /\ run' = run + 1
      BY DEF ResetSession, SingleInv, TypeOK, LoopTypeOK
    <3> QED BY <3>1
  <2>5. CASE SaveRecommendation(c) \/ SaveGuard(c) \/ DescribeCase(c)
    <3>1. \/ stored' = [stored EXCEPT !.offer = TRUE]
          \/ stored' = [stored EXCEPT !.blocked = TRUE]
          \/ stored' = [stored EXCEPT !.blocked = FALSE]
      BY <2>5, <2>s DEF SaveRecommendation, SaveGuard, DescribeCase, SaveSession
    <3>2. stored'.turn = stored.turn
      BY <3>1, <2>v, Zenon
    <3> QED BY <3>2, <2>s
  <2>6. CASE Open(c)
    <3>1. stored' = [stored EXCEPT !.turn = 1] /\ stored.turn = 0
      BY <2>6, <2>s DEF Open, SaveSession
    <3> QED BY <3>1, <2>s, <2>u
  <2>7. CASE \/ Receive(c) \/ Reply(c) \/ Self(c) \/ NoResponse(c) \/ LoadFresh(c)
             \/ LoadForRecommendation(c) \/ LoadForGuard(c)
    <3>1. stored' = stored
      BY <2>7 DEF Receive, Reply, Self, NoResponse, LoadFresh,
           LoadForRecommendation, LoadForGuard, LoadSession
    <3> QED BY <3>1, <2>s
  <2> QED BY <2>1, <2>2, <2>3, <2>4, <2>5, <2>6, <2>7 DEF CallerStep
<1> QED BY <1>1, SingleInvariant, PTL DEF Spec, TurnsKept

-----------------------------------------------------------------------------
(* The command line                                                         *)

(* Where the thread of a caller may be. *)
CliStages == TurnStages \cup {"idle", "route", "exhausted"}

-----------------------------------------------------------------------------
(* The caps *)

(* The turns of a message are its hops and, at the soft cap, the guard's.   *)
CapInv ==
    /\ pc \in [Callers -> CliStages] /\ due \in [Callers -> Due]
    /\ hop \in [Callers -> 0..SoftCap] /\ ran \in [Callers -> Nat]
    /\ \A c \in Callers :
          /\ pc[c] # "exhausted"
          /\ pc[c] # "idle" => ran[c] = IF due[c] = "guard" THEN hop[c] + 1
                                        ELSE hop[c]
          /\ ran[c] <= SoftCap + 1

(* No message has been received yet.                                        *)
LEMMA CapInit == CliInit => CapInv
BY CapsAssumption DEF CliInit, InitLoop, InitTurns, CapInv, CliStages, Due

(* A step inside run_turn, or one that answers, only moves the thread.      *)
LEMMA CapMove ==
    ASSUME CapInv, NEW c \in Callers, NEW stage \in CliStages \ {"exhausted"},
           Move(c, stage), pc[c] # "idle", UNCHANGED <<hop, due, ran>>
    PROVE  CapInv'
BY DEF CapInv, Move

(* Entering run_turn counts a turn: of the next hop, or of the guard.       *)
LEMMA CapRun ==
    ASSUME CapInv, NEW c \in Callers, NEW what \in Due, CliRun(c, what),
           NEW h \in 0..SoftCap, hop' = [hop EXCEPT ![c] = h],
           \/ pc[c] = "idle" /\ h = 1 /\ what # "guard"
           \/ /\ pc[c] # "idle" /\ due[c] # "guard"
              /\ h + (IF what = "guard" THEN 1 ELSE 0) = hop[c] + 1
    PROVE  CapInv'
<1> DEFINE n == IF pc[c] = "idle" THEN 1 ELSE ran[c] + 1
<1>1. /\ pc' = [pc EXCEPT ![c] = "waiting"] /\ due' = [due EXCEPT ![c] = what]
      /\ ran' = [ran EXCEPT ![c] = n]
  BY DEF CliRun, Move
<1>2. n = (IF what = "guard" THEN h + 1 ELSE h) /\ n \in Nat /\ n <= SoftCap + 1
  BY CapsAssumption DEF CapInv
<1> HIDE DEF n
<1>3. /\ pc' \in [Callers -> CliStages] /\ due' \in [Callers -> Due]
      /\ hop' \in [Callers -> 0..SoftCap] /\ ran' \in [Callers -> Nat]
  BY <1>1, <1>2 DEF CapInv, CliStages, TurnStages
<1>4. ASSUME NEW d \in Callers
      PROVE  /\ pc'[d] # "exhausted"
             /\ pc'[d] # "idle" => ran'[d] = IF due'[d] = "guard" THEN hop'[d] + 1
                                             ELSE hop'[d]
             /\ ran'[d] <= SoftCap + 1
  BY <1>1, <1>2 DEF CapInv
<1> QED BY <1>3, <1>4 DEF CapInv

(* Below the soft cap the loop goes on, since the hard cap is no lower.     *)
LEMMA CapNextHop ==
    ASSUME CapInv, NEW c \in Callers, NEW what \in Due \ {"guard"},
           Continues(c), ~AtSoftCap(c), CliNextHop(c, what)
    PROVE  CapInv'
<1> DEFINE h == hop[c] + 1
<1>1. h \in 0..SoftCap /\ hop[c] < HardCap
  BY CapsAssumption DEF CapInv, AtSoftCap
<1>2. hop' = [hop EXCEPT ![c] = h] /\ CliRun(c, what)
  BY <1>1 DEF CliNextHop
<1>3. pc[c] # "idle" /\ due[c] # "guard"
  BY DEF Continues
<1>4. h + (IF what = "guard" THEN 1 ELSE 0) = hop[c] + 1
  BY <1>1
<1>5. what \in Due
  OBVIOUS
<1> HIDE DEF h
<1> QED BY <1>1, <1>2, <1>3, <1>4, <1>5, CapRun

(* Every step stays within the caps.                                        *)
LEMMA CapStep == CapInv /\ [CliNext]_cliVars => CapInv'
<1> SUFFICES ASSUME CapInv, [CliNext]_cliVars PROVE CapInv'
  OBVIOUS
<1>1. CASE UNCHANGED cliVars
  BY <1>1 DEF cliVars, turnVars, cliRouterVars, loopVars, CapInv
<1>2. ASSUME NEW c \in Callers, GraphStep(c), UNCHANGED cliRouterVars
      PROVE  CapInv'
  <2>1. PICK stage \in CliStages \ {"exhausted"} :
            Move(c, stage) /\ pc[c] # "idle"
    BY <1>2 DEF GraphStep, BeginTurn, OutOfScope, ProposeGuardrail,
         ProposeClosing, ProposeOffer, ProposePlan, AtDirective, Propose,
         Replan, FinishTurn, FailTurn, InTurn, CliStages, TurnStages
  <2> QED BY <1>2, <2>1, CapMove DEF cliRouterVars, loopVars
<1>3. ASSUME NEW c \in Callers, CliReceive(c) PROVE CapInv'
  <2>1. 1 \in 0..SoftCap
    BY CapsAssumption
  <2> QED BY <1>3, <2>1, CapRun DEF CliReceive, Due
<1>4. ASSUME NEW c \in Callers, CliReply(c) PROVE CapInv'
  BY <1>4, CapMove DEF CliReply, cliRouterVars, loopVars, CliStages
<1>5. ASSUME NEW c \in Callers, Guard(c) PROVE CapInv'
  <2>1. hop[c] \in 0..SoftCap /\ hop' = [hop EXCEPT ![c] = hop[c]]
    BY <1>5 DEF Guard, CapInv
  <2>2. hop[c] + (IF "guard" = "guard" THEN 1 ELSE 0) = hop[c] + 1
    BY <2>1
  <2> QED BY <1>5, <2>1, <2>2, CapRun DEF Guard, Continues, Due
<1>6. ASSUME NEW c \in Callers, TakeRecommendation(c) \/ CliSelf(c)
      PROVE  CapInv'
  BY <1>6, CapNextHop DEF TakeRecommendation, CliSelf, Due
<1>7. ASSUME NEW c \in Callers, SaveProgress(c), UNCHANGED cliRouterVars
      PROVE  CapInv'
  BY <1>7 DEF SaveProgress, cliRouterVars, loopVars, CapInv
<1> QED
  BY <1>1, <1>2, <1>3, <1>4, <1>5, <1>6, <1>7 DEF CliNext, CliCallerStep

(* In every run the hops stay below the soft cap.                           *)
THEOREM CapInvariant == CliSpec => []CapInv
<1> QED BY CapInit, CapStep, PTL DEF CliSpec

(* One message runs at most SoftCap + 1 turns, whatever targets they choose. *)
THEOREM TurnsPerMessageAreBounded == CliSpec => []TurnsPerMessageBounded
<1>1. CapInv => TurnsPerMessageBounded
  BY DEF CapInv, TurnsPerMessageBounded
<1> QED BY <1>1, CapInvariant, PTL

(* The hop loop never runs out of iterations.                               *)
THEOREM HardCapIsNotReached == CliSpec => []HardCapNotReached
<1>1. CapInv => HardCapNotReached
  BY DEF CapInv, HardCapNotReached
<1> QED BY <1>1, CapInvariant, PTL

-----------------------------------------------------------------------------
(* The handoff *)

(* What is due to a waiting turn is in the stored session; what was due to  *)
(* the turn that has just begun is in its copy.                             *)
HandoffInv ==
    /\ stored \in Session /\ held \in [Callers -> Session]
    /\ copy \in [Callers -> Session]
    /\ pc \in [Callers -> CliStages] /\ due \in [Callers -> Due]
    /\ \A c \in Callers : pc[c] = "waiting" =>
          /\ due[c] = "guard" => stored.blocked
          /\ due[c] = "offer" => stored.offer
    /\ HandoffArrives

(* No turn is waiting or running. *)
LEMMA HandoffInit == CliInit => HandoffInv
BY DEF CliInit, InitLoop, InitTurns, HandoffInv, HandoffArrives, EmptySession,
     Session, CliStages, Due

(* What is saved, counted or flagged is a session.                          *)
LEMMA CliSessionUpdates ==
    ASSUME NEW s \in Session
    PROVE  /\ \A b \in BOOLEAN : /\ [s EXCEPT !.blocked = b] \in Session
                                 /\ [s EXCEPT !.offer = b] \in Session
           /\ [s EXCEPT !.turn = @ + 1] \in Session
           /\ [s EXCEPT !.blocked = TRUE].blocked
           /\ [s EXCEPT !.offer = TRUE].offer
           /\ EmptySession(0) \in Session
BY DEF Session, EmptySession

(* With one thread, a step keeps what is due where it is needed.            *)
LEMMA HandoffStep ==
    ASSUME \A c, d \in Callers : c = d
    PROVE  HandoffInv /\ [CliNext]_cliVars => HandoffInv'
<1> SUFFICES ASSUME HandoffInv, [CliNext]_cliVars PROVE HandoffInv'
  OBVIOUS
<1>1. CASE UNCHANGED cliVars
  BY <1>1 DEF cliVars, turnVars, cliRouterVars, loopVars, HandoffInv,
       HandoffArrives
(* A step out of the stages in which something is due. *)
<1>m. ASSUME NEW c \in Callers, NEW stage \in CliStages \ {"waiting", "graph"},
             Move(c, stage), UNCHANGED <<held, due>>,
             stored' \in Session, copy' \in [Callers -> Session]
      PROVE  HandoffInv'
  BY <1>m DEF HandoffInv, HandoffArrives, Move
(* A step into run_turn. *)
<1>r. ASSUME NEW c \in Callers, NEW what \in Due, CliRun(c, what),
             stored' \in Session, held' \in [Callers -> Session],
             UNCHANGED copy,
             what = "guard" => stored'.blocked, what = "offer" => stored'.offer
      PROVE  HandoffInv'
  BY <1>r DEF HandoffInv, HandoffArrives, CliRun, Move, CliStages, TurnStages
<1>2. ASSUME NEW c \in Callers, GraphStep(c), UNCHANGED cliRouterVars
      PROVE  HandoffInv'
  <2>s. copy[c] \in Session /\ UNCHANGED <<held, due>>
    BY <1>2 DEF HandoffInv, cliRouterVars, loopVars
  <2>1. CASE BeginTurn(c)
    BY <2>1, <2>s DEF BeginTurn, Move, HandoffInv, HandoffArrives, CliStages,
         TurnStages
  <2>2. CASE OutOfScope(c) \/ Replan(c)
    BY <2>2, <2>s, <1>m DEF OutOfScope, Propose, Replan, HandoffInv, CliStages,
         TurnStages
  <2>3. CASE ProposeGuardrail(c) \/ ProposeClosing(c) \/ ProposeOffer(c)
             \/ ProposePlan(c)
    <3>1. PICK s \in Session : Save(c, s)
      BY <2>3, <2>s, CliSessionUpdates DEF ProposeGuardrail, ProposeClosing,
           ProposeOffer, ProposePlan
    <3>2. Move(c, "planned")
      BY <2>3 DEF ProposeGuardrail, ProposeClosing, ProposeOffer, ProposePlan,
           Propose
    <3> QED BY <2>s, <3>1, <3>2, <1>m DEF Save, HandoffInv, CliStages,
         TurnStages
  <2>4. CASE FinishTurn(c)
    <3>1. stored' \in Session /\ copy' \in [Callers -> Session]
      BY <2>4, <2>s, CliSessionUpdates DEF FinishTurn, HandoffInv
    <3> QED BY <2>4, <2>s, <3>1, <1>m DEF FinishTurn, CliStages
  <2>5. CASE FailTurn(c)
    <3>1. stored' \in Session /\ copy' \in [Callers -> Session]
      BY <2>5, <2>s, CliSessionUpdates DEF FailTurn, HandoffInv
    <3> QED BY <2>5, <2>s, <3>1, <1>m DEF FailTurn, CliStages
  <2> QED BY <1>2, <2>1, <2>2, <2>3, <2>4, <2>5 DEF GraphStep
<1>3. ASSUME NEW c \in Callers, CliReceive(c) PROVE HandoffInv'
  BY <1>3, <1>r DEF CliReceive, HandoffInv, Due
<1>4. ASSUME NEW c \in Callers, CliReply(c) PROVE HandoffInv'
  BY <1>4, <1>m DEF CliReply, cliRouterVars, loopVars, HandoffInv, CliStages
<1>5. ASSUME NEW c \in Callers, Guard(c) PROVE HandoffInv'
  <2> DEFINE s == [held[c] EXCEPT !.blocked = TRUE]
  <2>1. s \in Session /\ s.blocked
    BY CliSessionUpdates DEF HandoffInv
  <2>2. Leave(c, s) /\ CliRun(c, "guard")
    BY <1>5 DEF Guard
  <2> HIDE DEF s
  <2> QED BY <2>1, <2>2, <1>r DEF Leave, HandoffInv, Due
<1>6. ASSUME NEW c \in Callers, TakeRecommendation(c) PROVE HandoffInv'
  <2> DEFINE s == [held[c] EXCEPT !.offer = TRUE]
  <2>1. s \in Session /\ s.offer
    BY CliSessionUpdates DEF HandoffInv
  <2>2. Leave(c, s) /\ CliNextHop(c, "offer") /\ pc[c] = "route"
    BY <1>6 DEF TakeRecommendation, Continues
  <2> HIDE DEF s
  <2>3. CASE CliRun(c, "offer")
    BY <2>1, <2>2, <2>3, <1>r DEF Leave, HandoffInv, Due
  <2>4. CASE Move(c, "exhausted") /\ UNCHANGED due
    BY <2>1, <2>2, <2>4 DEF Leave, Move, HandoffInv, HandoffArrives, CliStages
  <2> QED BY <2>2, <2>3, <2>4 DEF CliNextHop
<1>7. ASSUME NEW c \in Callers, CliSelf(c) PROVE HandoffInv'
  <2>1. CliNextHop(c, "none") /\ UNCHANGED <<stored, copy, held>>
    BY <1>7 DEF CliSelf
  <2>2. CASE CliRun(c, "none")
    BY <2>1, <2>2, <1>r DEF HandoffInv, Due
  <2>3. CASE Move(c, "exhausted") /\ UNCHANGED due
    BY <2>1, <2>3, <1>m DEF HandoffInv, CliStages
  <2> QED BY <2>1, <2>2, <2>3 DEF CliNextHop
<1>8. ASSUME NEW c \in Callers, SaveProgress(c), UNCHANGED cliRouterVars
      PROVE  HandoffInv'
  BY <1>8 DEF SaveProgress, Save, cliRouterVars, loopVars, HandoffInv,
       HandoffArrives
<1> QED
  BY <1>1, <1>2, <1>3, <1>4, <1>5, <1>6, <1>7, <1>8 DEF CliNext, CliCallerStep

(* With one thread per session, as on the command line, what the router     *)
(* leaves for a turn is there when the turn starts.                         *)
THEOREM CliHandoffsArrive ==
    ASSUME \A c, d \in Callers : c = d
    PROVE  CliSpec => []HandoffArrives
<1>1. HandoffInv /\ [CliNext]_cliVars => HandoffInv'
  BY HandoffStep
<1>2. HandoffInv => HandoffArrives
  BY DEF HandoffInv
<1> QED BY <1>1, <1>2, HandoffInit, PTL DEF CliSpec

-----------------------------------------------------------------------------
(* Type correctness *)

(* Initially every variable has its type.                                   *)
LEMMA CliTypeInit == CliInit => CliTypeOK
BY CapsAssumption, CallersAssumption DEF CliInit, InitLoop, InitTurns,
     CliTypeOK, LoopTypeOK, TurnTypeOK, EmptySession, Session, Targets,
     Answers, Due

(* What entering run_turn assigns keeps its type.                           *)
LEMMA CliTypeRun ==
    ASSUME CliTypeOK, NEW c \in Callers, NEW what \in Due, CliRun(c, what)
    PROVE  /\ pc' \in [Callers -> CliStages] /\ due' \in [Callers -> Due]
           /\ ran' \in [Callers -> Nat]
BY DEF CliRun, Move, CliTypeOK, LoopTypeOK, CliStages, TurnStages

(* Going on to the next hop stays below the hard cap.                       *)
LEMMA CliTypeNextHop ==
    ASSUME CliTypeOK, NEW c \in Callers, NEW what \in Due, CliNextHop(c, what)
    PROVE  /\ pc' \in [Callers -> CliStages] /\ due' \in [Callers -> Due]
           /\ ran' \in [Callers -> Nat] /\ hop' \in [Callers -> 0..HardCap]
<1>1. CASE hop[c] < HardCap
  <2>1. hop[c] + 1 \in 0..HardCap
    BY <1>1, CapsAssumption DEF CliTypeOK, LoopTypeOK
  <2>2. CliRun(c, what) /\ hop' = [hop EXCEPT ![c] = @ + 1]
    BY <1>1 DEF CliNextHop
  <2> QED BY <2>1, <2>2, CliTypeRun DEF CliTypeOK, LoopTypeOK
<1>2. CASE ~(hop[c] < HardCap)
  BY <1>2 DEF CliNextHop, Move, CliTypeOK, LoopTypeOK, CliStages
<1> QED BY <1>1, <1>2

(* Every step keeps the types.                                              *)
LEMMA CliTypeStep == CliTypeOK /\ [CliNext]_cliVars => CliTypeOK'
<1> SUFFICES ASSUME CliTypeOK, [CliNext]_cliVars PROVE CliTypeOK'
  OBVIOUS
<1>1. CASE UNCHANGED cliVars
  BY <1>1 DEF cliVars, turnVars, cliRouterVars, loopVars, CliTypeOK,
       LoopTypeOK, TurnTypeOK
<1>2. ASSUME NEW c \in Callers, GraphStep(c), UNCHANGED cliRouterVars
      PROVE  CliTypeOK'
  <2>1. TurnTypeOK' /\ pc' \in [Callers -> CliStages]
    BY <1>2, TypeTurn DEF CliTypeOK, LoopTypeOK, CliStages
  <2> QED BY <1>2, <2>1 DEF cliRouterVars, loopVars, CliTypeOK, LoopTypeOK,
               CliStages
<1>3. ASSUME NEW c \in Callers, CliReceive(c) PROVE CliTypeOK'
  <2>1. 1 \in 0..HardCap /\ messages + 1 \in 0..MaxMessages /\ "none" \in Due
    BY <1>3, CapsAssumption DEF CliReceive, CliTypeOK, LoopTypeOK, Due
  <2>2. CliRun(c, "none")
    BY <1>3 DEF CliReceive
  <2> QED BY <1>3, <2>1, <2>2, CliTypeRun DEF CliReceive, CliTypeOK,
       LoopTypeOK, TurnTypeOK, CliStages
<1>4. ASSUME NEW c \in Callers, CliReply(c) PROVE CliTypeOK'
  BY <1>4 DEF CliReply, Move, cliRouterVars, loopVars, CliTypeOK, LoopTypeOK,
       TurnTypeOK
<1>5. ASSUME NEW c \in Callers, Guard(c) PROVE CliTypeOK'
  <2>1. [held[c] EXCEPT !.blocked = TRUE] \in Session /\ "guard" \in Due
    BY CliSessionUpdates DEF CliTypeOK, LoopTypeOK, Due
  <2>2. CliRun(c, "guard")
    BY <1>5 DEF Guard
  <2> QED BY <1>5, <2>1, <2>2, CliTypeRun DEF Guard, Leave, CliTypeOK,
       LoopTypeOK, TurnTypeOK, CliStages
<1>6. ASSUME NEW c \in Callers, TakeRecommendation(c) PROVE CliTypeOK'
  <2>1. [held[c] EXCEPT !.offer = TRUE] \in Session /\ "offer" \in Due
    BY CliSessionUpdates DEF CliTypeOK, LoopTypeOK, Due
  <2>2. CliNextHop(c, "offer")
    BY <1>6 DEF TakeRecommendation
  <2> QED BY <1>6, <2>1, <2>2, CliTypeNextHop DEF TakeRecommendation, Leave,
       CliTypeOK, LoopTypeOK, TurnTypeOK, CliStages
<1>7. ASSUME NEW c \in Callers, CliSelf(c) PROVE CliTypeOK'
  <2>1. CliNextHop(c, "none") /\ "none" \in Due
    BY <1>7 DEF CliSelf, Due
  <2> QED BY <1>7, <2>1, CliTypeNextHop DEF CliSelf, CliTypeOK, LoopTypeOK,
       TurnTypeOK, CliStages
<1>8. ASSUME NEW c \in Callers, SaveProgress(c), UNCHANGED cliRouterVars
      PROVE  CliTypeOK'
  BY <1>8 DEF SaveProgress, Save, cliRouterVars, loopVars, CliTypeOK,
       LoopTypeOK, TurnTypeOK
<1> QED
  BY <1>1, <1>2, <1>3, <1>4, <1>5, <1>6, <1>7, <1>8 DEF CliNext, CliCallerStep

(* Every variable keeps its type, for any number of threads: the loop's     *)
(* counter never passes the hard cap, and no turn plans more than           *)
(* MaxReplans times again.                                                  *)
THEOREM CliTypeCorrect == CliSpec => []CliTypeOK
<1> QED BY CliTypeInit, CliTypeStep, PTL DEF CliSpec
-----------------------------------------------------------------------------
(* Every message runs down: the safety half of RequestEnds and MessageEnds  *)

(* The stages before the next hop, or the end, of the thread of a caller;   *)
(* replansLeft are the reflect retries that its turn may still take.        *)
StageRank(stage, replansLeft) ==
    CASE stage = "waiting" -> 2 * MaxReplans + 6
      [] stage = "graph"   -> 2 * MaxReplans + 5
      [] stage = "replan"  -> 2 * replansLeft + 5
      [] stage = "planned" -> 2 * replansLeft + 4
      [] stage \in {"route", "reset"} -> 3
      [] stage \in {"offer", "guard", "loaded"} -> 2
      [] stage \in {"exhausted", "opening"} -> 1
      [] OTHER -> 0

StagesLeft(c) == StageRank(pc[c], MaxReplans - replans[c])

(* The turns that a message may still run after this one, where its hops    *)
(* never pass the cap.                                                      *)
TurnsLeft(c, cap) ==
    IF pc[c] = "idle" \/ due[c] = "guard" THEN 0 ELSE cap + 1 - hop[c]

Lower(c, cap) ==
    /\ StagesLeft(c)' \in Nat /\ TurnsLeft(c, cap)' \in Nat
    /\ \/ TurnsLeft(c, cap)' < TurnsLeft(c, cap)
       \/ /\ TurnsLeft(c, cap)' = TurnsLeft(c, cap)
          /\ StagesLeft(c)' < StagesLeft(c)

(* What the measure depends on. *)
RankTyped(c, cap) ==
    /\ pc \in [Callers -> Stages]
    /\ replans \in [Callers -> 0..MaxReplans]
    /\ hop[c] \in 0..cap

(* The rank of a stage is a number.                                         *)
LEMMA StageRankIsNat ==
    ASSUME NEW stage \in Stages, NEW n \in Nat
    PROVE  StageRank(stage, n) \in Nat
BY CallersAssumption DEF StageRank, Stages, TurnStages, RouterStages

(* A caller that goes on, with its due and its hop, to a stage of lower     *)
(* rank gets nearer to its end.                                             *)
LEMMA StageLowers ==
    ASSUME NEW c \in Callers, NEW cap \in Nat,
           RankTyped(c, cap), RankTyped(c, cap)', pc[c] # "idle",
           UNCHANGED <<hop, due>>, StagesLeft(c)' < StagesLeft(c)
    PROVE  Lower(c, cap)
<1>1. StagesLeft(c)' \in Nat
  BY StageRankIsNat, CallersAssumption DEF RankTyped, StagesLeft
<1>2. cap + 1 - hop[c] \in Nat /\ cap + 1 - hop[c] > 0
  BY DEF RankTyped
<1>3. CASE pc'[c] = "idle"
  BY <1>1, <1>2, <1>3 DEF Lower, TurnsLeft
<1>4. CASE pc'[c] # "idle"
  BY <1>1, <1>2, <1>4 DEF Lower, TurnsLeft
<1> QED BY <1>3, <1>4

(* A step of a turn takes its caller to a stage of lower rank.              *)
LEMMA TurnLowers ==
    ASSUME NEW c \in Callers, GraphStep(c), pc \in [Callers -> Stages],
           replans \in [Callers -> 0..MaxReplans]
    PROVE  pc[c] # "idle" /\ StagesLeft(c)' < StagesLeft(c)
<1> USE CallersAssumption
<1>1. CASE BeginTurn(c)
  BY <1>1 DEF BeginTurn, Move, StagesLeft, StageRank
<1>2. CASE \/ OutOfScope(c) \/ ProposeGuardrail(c) \/ ProposeClosing(c)
           \/ ProposeOffer(c) \/ ProposePlan(c)
  <2>1. /\ pc[c] \in {"graph", "replan"} /\ pc'[c] = "planned"
        /\ replans' = replans
    BY <1>2 DEF OutOfScope, ProposeGuardrail, ProposeClosing, ProposeOffer,
         ProposePlan, AtDirective, Propose, Move
  <2> QED BY <2>1 DEF StagesLeft, StageRank
<1>3. CASE Replan(c)
  <2>1. /\ pc[c] = "planned" /\ pc'[c] = "replan"
        /\ replans'[c] = replans[c] + 1 /\ replans[c] \in 0..MaxReplans
    BY <1>3 DEF Replan, Move
  <2> QED BY <2>1 DEF StagesLeft, StageRank
<1>4. CASE FinishTurn(c)
  BY <1>4 DEF FinishTurn, Move, StagesLeft, StageRank
<1>5. CASE FailTurn(c)
  BY <1>5 DEF FailTurn, InTurn, TurnStages, Move, StagesLeft, StageRank
<1> QED BY <1>1, <1>2, <1>3, <1>4, <1>5 DEF GraphStep

(* Entering run_turn again uses up a turn. *)
LEMMA RunLowers ==
    ASSUME NEW c \in Callers, NEW cap \in Nat,
           RankTyped(c, cap), RankTyped(c, cap)',
           pc[c] # "idle", due[c] # "guard", pc'[c] = "waiting",
           due'[c] = "guard" \/ hop'[c] = hop[c] + 1
    PROVE  Lower(c, cap)
<1>1. StagesLeft(c)' \in Nat
  BY StageRankIsNat, CallersAssumption DEF RankTyped, StagesLeft
<1>2. hop[c] \in 0..cap /\ hop'[c] \in 0..cap
  BY DEF RankTyped
<1>3. TurnsLeft(c, cap) = cap + 1 - hop[c]
  BY DEF TurnsLeft
<1>4. CASE due'[c] = "guard"
  <2>1. TurnsLeft(c, cap)' = 0
    BY <1>4 DEF TurnsLeft
  <2> QED BY <1>1, <1>2, <1>3, <2>1 DEF Lower
<1>5. CASE due'[c] # "guard"
  <2>1. TurnsLeft(c, cap)' = cap + 1 - hop'[c] /\ hop'[c] = hop[c] + 1
    BY <1>5 DEF TurnsLeft
  <2> QED BY <1>1, <1>2, <1>3, <2>1 DEF Lower
<1> QED BY <1>4, <1>5
(* A caller that does not move keeps its distance. *)
Waits(c, cap) == UNCHANGED <<StagesLeft(c), TurnsLeft(c, cap)>>

(* What leaves a caller's place, retries, hop and due alone leaves its      *)
(* distance alone.                                                          *)
LEMMA UnmovedWaits ==
    ASSUME NEW c \in Callers, NEW cap,
           UNCHANGED <<pc[c], replans[c], hop[c], due[c]>>
    PROVE  Waits(c, cap)
BY DEF Waits, StagesLeft, TurnsLeft

(* A step of a turn leaves every other caller alone.                        *)
LEMMA TurnLeavesOthers ==
    ASSUME NEW d \in Callers, GraphStep(d), pc \in [Callers -> Stages],
           replans \in [Callers -> 0..MaxReplans],
           NEW c \in Callers, c # d
    PROVE  UNCHANGED <<pc[c], replans[c]>>
BY DEF GraphStep, BeginTurn, OutOfScope, ProposeGuardrail, ProposeClosing,
   ProposeOffer, ProposePlan, AtDirective, Propose, Replan, FinishTurn, FailTurn,
   Move

(* The router only prepares a next hop after a turn that was not the        *)
(* guard's.                                                                 *)
DueInv == \A c \in Callers : pc[c] \in {"offer", "guard"} => due[c] # "guard"

(* Every step keeps the guard's turn out of the two stages.                 *)
LEMMA DueStep == TypeOK /\ DueInv /\ [Next]_vars => DueInv'
<1> SUFFICES ASSUME TypeOK, DueInv, [Next]_vars PROVE DueInv'
  OBVIOUS
<1>t. pc \in [Callers -> Stages] /\ due \in [Callers -> Due]
  BY DEF TypeOK, LoopTypeOK, Stages
<1>1. CASE UNCHANGED vars
  BY <1>1 DEF vars, turnVars, routerVars, loopVars, DueInv
<1>2. ASSUME NEW d \in Callers, NEW stage \in Stages \ {"offer", "guard"},
             Move(d, stage),
             \A c \in Callers \ {d} : due'[c] = due[c]
      PROVE  DueInv'
  BY <1>2, <1>t DEF Move, DueInv
<1>3. ASSUME NEW d \in Callers, TurnStep(d) PROVE DueInv'
  <2>1. PICK stage \in Stages \ {"offer", "guard"} : Move(d, stage)
    BY <1>3 DEF TurnStep, GraphStep, BeginTurn, OutOfScope, ProposeGuardrail,
         ProposeClosing, ProposeOffer, ProposePlan, AtDirective, Propose, Replan,
         FinishTurn, FailTurn, Stages, TurnStages, RouterStages
  <2> QED BY <1>2, <1>3, <2>1 DEF TurnStep
<1>4. ASSUME NEW d \in Callers,
             Receive(d) \/ ResetSession(d) \/ Reply(d) \/ Self(d) \/ NoResponse(d)
             \/ SaveRecommendation(d) \/ SaveGuard(d) \/ LoadFresh(d)
             \/ DescribeCase(d) \/ Open(d)
      PROVE  DueInv'
  <2>1. PICK stage \in Stages \ {"offer", "guard"} : Move(d, stage)
    BY <1>4 DEF Receive, ResetSession, Reply, Self, NoResponse,
         SaveRecommendation, SaveGuard, LoadFresh, DescribeCase, Open,
         LoadSession, NextHop, Run, Stages, TurnStages, RouterStages
  <2>2. \A c \in Callers \ {d} : due'[c] = due[c]
    BY <1>4, <1>t DEF Receive, ResetSession, Reply, Self, NoResponse,
         SaveRecommendation, SaveGuard, LoadFresh, DescribeCase, Open,
         LoadSession, NextHop, Run, routerVars, loopVars
  <2> QED BY <1>2, <2>1, <2>2
<1>5. ASSUME NEW d \in Callers, LoadForRecommendation(d) \/ LoadForGuard(d)
      PROVE  DueInv'
  BY <1>5, <1>t DEF LoadForRecommendation, LoadForGuard, Continues, LoadSession,
       Move, DueInv
<1>6. ASSUME NEW d \in Callers, SaveProgress(d), UNCHANGED routerVars
      PROVE  DueInv'
  BY <1>6 DEF SaveProgress, routerVars, loopVars, DueInv
<1> QED BY <1>1, <1>3, <1>4, <1>5, <1>6 DEF Next, CallerStep

(* A step of a caller in the router brings it nearer to its end.            *)
LEMMA RouterLowers ==
    ASSUME TypeOK, TypeOK', DueInv, NEW c \in Callers, CallerStep(c)
    PROVE  Lower(c, HardCap)
<1>t. /\ RankTyped(c, HardCap) /\ RankTyped(c, HardCap)'
      /\ due \in [Callers -> Due] /\ HardCap \in Nat
  BY CapsAssumption DEF TypeOK, LoopTypeOK, TurnTypeOK, RankTyped, Stages
<1>1. CASE TurnStep(c)
  <2>1. pc[c] # "idle" /\ StagesLeft(c)' < StagesLeft(c)
    BY <1>1, <1>t, TurnLowers DEF TurnStep, RankTyped
  <2> QED BY <1>1, <1>t, <2>1, StageLowers DEF TurnStep
<1>2. CASE Reply(c) \/ NoResponse(c) \/ LoadFresh(c) \/ DescribeCase(c)
           \/ Open(c) \/ LoadForRecommendation(c) \/ LoadForGuard(c)
  <2>1. UNCHANGED <<hop, due, replans>>
    BY <1>2 DEF Reply, NoResponse, LoadFresh, DescribeCase, Open,
         LoadForRecommendation, LoadForGuard, LoadSession, SaveSession,
         routerVars, loopVars
  <2>2. \/ pc[c] = "route" /\ pc'[c] \in {"idle", "offer", "guard"}
        \/ pc[c] = "exhausted" /\ pc'[c] = "idle"
        \/ pc[c] = "reset" /\ pc'[c] = "loaded"
        \/ pc[c] = "loaded" /\ pc'[c] = "opening"
        \/ pc[c] = "opening" /\ pc'[c] = "idle"
    BY <1>2, <1>t DEF Reply, NoResponse, LoadFresh, DescribeCase, Open,
         LoadForRecommendation, LoadForGuard, LoadSession, Continues, Move,
         RankTyped
  <2>3. pc[c] # "idle" /\ StagesLeft(c)' < StagesLeft(c)
    BY <2>2 DEF StagesLeft, StageRank
  <2> QED BY <1>t, <2>1, <2>3, StageLowers
<1>3. CASE Self(c) \/ SaveRecommendation(c)
  <2>1. pc[c] \in {"route", "offer"} /\ due[c] # "guard"
    BY <1>3 DEF Self, SaveRecommendation, Continues, DueInv
  <2>2. CASE hop[c] < HardCap
    <3>1. pc'[c] = "waiting" /\ hop'[c] = hop[c] + 1
      BY <1>3, <1>t, <2>2 DEF Self, SaveRecommendation, NextHop, Run, Move,
           RankTyped, TypeOK, LoopTypeOK
    <3> QED BY <1>t, <2>1, <3>1, RunLowers
  <2>3. CASE ~(hop[c] < HardCap)
    <3>1. pc'[c] = "exhausted" /\ UNCHANGED <<hop, due>>
      BY <1>3, <1>t, <2>3 DEF Self, SaveRecommendation, NextHop, Move, RankTyped
    <3>2. StagesLeft(c)' < StagesLeft(c)
      BY <2>1, <3>1 DEF StagesLeft, StageRank
    <3> QED BY <1>t, <2>1, <3>1, <3>2, StageLowers
  <2> QED BY <2>2, <2>3
<1>4. CASE SaveGuard(c)
  <2>1. /\ pc[c] = "guard" /\ due[c] # "guard"
        /\ pc'[c] = "waiting" /\ due'[c] = "guard"
    BY <1>4, <1>t DEF SaveGuard, Run, Move, DueInv, RankTyped
  <2> QED BY <1>t, <2>1, RunLowers
<1> QED BY <1>1, <1>2, <1>3, <1>4 DEF CallerStep

(* A step of another caller, or a save within the turn, changes nothing.    *)
LEMMA OthersWait ==
    ASSUME TypeOK, NEW c \in Callers, NEW d \in Callers,
           \/ c # d /\ (Receive(d) \/ ResetSession(d) \/ CallerStep(d))
           \/ SaveProgress(d) /\ UNCHANGED routerVars
    PROVE  Waits(c, HardCap)
<1>t. /\ pc \in [Callers -> Stages] /\ replans \in [Callers -> 0..MaxReplans]
      /\ hop \in [Callers -> 0..HardCap] /\ due \in [Callers -> Due]
  BY DEF TypeOK, LoopTypeOK, TurnTypeOK, Stages
<1>1. CASE SaveProgress(d) /\ UNCHANGED routerVars
  BY <1>1, UnmovedWaits DEF SaveProgress, routerVars, loopVars
<1>2. CASE c # d /\ TurnStep(d)
  BY <1>2, <1>t, TurnLeavesOthers, UnmovedWaits DEF TurnStep
<1>3. CASE c # d /\ (Receive(d) \/ ResetSession(d) \/ Reply(d) \/ Self(d)
                    \/ NoResponse(d) \/ SaveRecommendation(d) \/ SaveGuard(d)
                    \/ LoadFresh(d) \/ DescribeCase(d) \/ Open(d)
                    \/ LoadForRecommendation(d) \/ LoadForGuard(d))
  <2>1. UNCHANGED replans /\ UNCHANGED <<pc[c], hop[c], due[c]>>
    BY <1>3, <1>t DEF Receive, ResetSession, Reply, Self, NoResponse,
         SaveRecommendation, SaveGuard, LoadFresh, DescribeCase, Open,
         LoadForRecommendation, LoadForGuard, LoadSession, SaveSession, NextHop,
         Run, Move, routerVars, loopVars
  <2> QED BY <2>1, UnmovedWaits
<1> QED BY <1>1, <1>2, <1>3 DEF CallerStep

(* However many requests are under way together, a step of a request's      *)
(* thread brings that request nearer to its end, and no step of anything    *)
(* else takes it back: with the fairness of the threads every request is    *)
(* answered or fails.                                                       *)
THEOREM RequestsRunDown ==
    Spec => [][\A c \in Callers :
                  /\ CallerStep(c) => Lower(c, HardCap)
                  /\ pc[c] # "idle" => Lower(c, HardCap) \/ Waits(c, HardCap)]_vars
<1> DEFINE RunsDown == \A c \in Callers :
               /\ CallerStep(c) => Lower(c, HardCap)
               /\ pc[c] # "idle" => Lower(c, HardCap) \/ Waits(c, HardCap)
<1>1. Init => DueInv
  BY DEF Init, InitLoop, InitTurns, DueInv
<1>2. TypeOK /\ TypeOK' /\ DueInv /\ [Next]_vars => [RunsDown]_vars
  <2> SUFFICES ASSUME TypeOK, TypeOK', DueInv, Next, NEW c \in Callers
               PROVE  /\ CallerStep(c) => Lower(c, HardCap)
                      /\ pc[c] # "idle"
                            => Lower(c, HardCap) \/ Waits(c, HardCap)
    OBVIOUS
  <2>1. PICK d \in Callers : \/ Receive(d) \/ ResetSession(d) \/ CallerStep(d)
                             \/ SaveProgress(d) /\ UNCHANGED routerVars
    BY DEF Next
  <2>2. pc[d] # "idle" /\ d = c => \/ CallerStep(c)
                                   \/ SaveProgress(c) /\ UNCHANGED routerVars
    BY <2>1 DEF Receive, ResetSession
  <2>3. CallerStep(c) => Lower(c, HardCap)
    BY RouterLowers
  <2> QED BY <2>1, <2>2, <2>3, OthersWait
<1> HIDE DEF RunsDown
<1>3. Spec => [][RunsDown]_vars
  BY <1>1, <1>2, DueStep, TypeCorrect, PTL DEF Spec
<1> QED BY <1>3 DEF RunsDown
(* On the command line the soft cap bounds the hops, and with them the      *)
(* turns that are left.                                                     *)
LEMMA CliLowers ==
    ASSUME CliTypeOK, CliTypeOK', CapInv, CapInv',
           NEW c \in Callers, CliCallerStep(c)
    PROVE  Lower(c, SoftCap)
<1>t. /\ RankTyped(c, SoftCap) /\ RankTyped(c, SoftCap)'
      /\ due \in [Callers -> Due] /\ SoftCap \in Nat
  BY CapsAssumption DEF CliTypeOK, LoopTypeOK, TurnTypeOK, CapInv, CliStages,
     RankTyped, Stages, RouterStages
<1>1. CASE GraphStep(c) /\ UNCHANGED cliRouterVars
  <2>1. pc[c] # "idle" /\ StagesLeft(c)' < StagesLeft(c)
    BY <1>1, <1>t, TurnLowers DEF RankTyped
  <2> QED BY <1>1, <1>t, <2>1, StageLowers DEF cliRouterVars, loopVars
<1>2. CASE CliReply(c)
  <2>1. UNCHANGED <<hop, due>> /\ pc[c] = "route" /\ pc'[c] = "idle"
    BY <1>2, <1>t DEF CliReply, Move, RankTyped, cliRouterVars, loopVars
  <2>2. StagesLeft(c)' < StagesLeft(c)
    BY <2>1 DEF StagesLeft, StageRank
  <2> QED BY <1>t, <2>1, <2>2, StageLowers
<1>3. CASE Guard(c)
  <2>1. /\ pc[c] = "route" /\ due[c] # "guard"
        /\ pc'[c] = "waiting" /\ due'[c] = "guard"
    BY <1>3, <1>t DEF Guard, Continues, CliRun, Move, RankTyped
  <2> QED BY <1>t, <2>1, RunLowers
<1>4. CASE CliSelf(c) \/ TakeRecommendation(c)
  <2>1. /\ pc[c] = "route" /\ due[c] # "guard"
        /\ \E what \in Due : CliNextHop(c, what)
    BY <1>4 DEF CliSelf, TakeRecommendation, Continues, Due
  <2>2. pc'[c] # "exhausted"
    BY DEF CapInv
  <2>3. pc'[c] = "waiting" /\ hop'[c] = hop[c] + 1
    BY <1>t, <2>1, <2>2 DEF CliNextHop, CliRun, Move, RankTyped, CliTypeOK,
       LoopTypeOK
  <2> QED BY <1>t, <2>1, <2>3, RunLowers
<1> QED BY <1>1, <1>2, <1>3, <1>4 DEF CliCallerStep

(* A step of another caller, or a save within the turn, changes nothing.    *)
LEMMA CliOthersWait ==
    ASSUME CliTypeOK, NEW c \in Callers, NEW d \in Callers,
           \/ c # d /\ (CliReceive(d) \/ CliCallerStep(d))
           \/ SaveProgress(d) /\ UNCHANGED cliRouterVars
    PROVE  Waits(c, SoftCap)
<1>t. /\ pc \in [Callers -> Stages] /\ replans \in [Callers -> 0..MaxReplans]
      /\ hop \in [Callers -> 0..HardCap] /\ due \in [Callers -> Due]
  BY DEF CliTypeOK, LoopTypeOK, TurnTypeOK, Stages, RouterStages
<1>1. CASE SaveProgress(d) /\ UNCHANGED cliRouterVars
  BY <1>1, UnmovedWaits DEF SaveProgress, cliRouterVars, loopVars
<1>2. CASE c # d /\ GraphStep(d) /\ UNCHANGED cliRouterVars
  BY <1>2, <1>t, TurnLeavesOthers, UnmovedWaits DEF cliRouterVars, loopVars
<1>3. CASE c # d /\ (CliReceive(d) \/ CliReply(d) \/ Guard(d) \/ CliSelf(d)
                    \/ TakeRecommendation(d))
  <2>1. UNCHANGED replans /\ UNCHANGED <<pc[c], hop[c], due[c]>>
    BY <1>3, <1>t DEF CliReceive, CliReply, Guard, CliSelf, TakeRecommendation,
       Leave, CliNextHop, CliRun, Move, cliRouterVars, loopVars
  <2> QED BY <2>1, UnmovedWaits
<1> QED BY <1>1, <1>2, <1>3 DEF CliCallerStep

(* On the command line, too, a step of a message's thread brings it nearer  *)
(* to its end and nothing takes it back; here even the soft cap is never    *)
(* passed on the way.                                                       *)
THEOREM MessagesRunDown ==
    CliSpec =>
      [][\A c \in Callers :
            /\ CliCallerStep(c) => Lower(c, SoftCap)
            /\ pc[c] # "idle" => Lower(c, SoftCap) \/ Waits(c, SoftCap)]_cliVars
<1> DEFINE RunsDown == \A c \in Callers :
               /\ CliCallerStep(c) => Lower(c, SoftCap)
               /\ pc[c] # "idle" => Lower(c, SoftCap) \/ Waits(c, SoftCap)
<1>1. CliTypeOK /\ CliTypeOK' /\ CapInv /\ CapInv' /\ [CliNext]_cliVars
        => [RunsDown]_cliVars
  <2> SUFFICES ASSUME CliTypeOK, CliTypeOK', CapInv, CapInv', CliNext,
                      NEW c \in Callers
               PROVE  /\ CliCallerStep(c) => Lower(c, SoftCap)
                      /\ pc[c] # "idle"
                            => Lower(c, SoftCap) \/ Waits(c, SoftCap)
    OBVIOUS
  <2>1. PICK d \in Callers : \/ CliReceive(d) \/ CliCallerStep(d)
                             \/ SaveProgress(d) /\ UNCHANGED cliRouterVars
    BY DEF CliNext
  <2>2. pc[d] # "idle" /\ d = c => \/ CliCallerStep(c)
                                   \/ SaveProgress(c) /\ UNCHANGED cliRouterVars
    BY <2>1 DEF CliReceive
  <2>3. CliCallerStep(c) => Lower(c, SoftCap)
    BY CliLowers
  <2> QED BY <2>1, <2>2, <2>3, CliOthersWait
<1> HIDE DEF RunsDown
<1>2. CliSpec => [][RunsDown]_cliVars
  BY <1>1, CliTypeCorrect, CapInvariant, PTL DEF CliSpec
<1> QED BY <1>2 DEF RunsDown
=============================================================================
