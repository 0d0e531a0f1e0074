-------------------------- MODULE MailTriage_proofs --------------------------
(***************************************************************************)
(* Theorems about MailTriage, for any number of mails, any limits, any     *)
(* texts and plans, and any number of turns and faults.                    *)
(***************************************************************************)
EXTENDS MailTriage, FiniteSetTheorems, SequenceTheorems, WellFoundedInduction, TLAPS

-----------------------------------------------------------------------------
(* Lemmas about the operators of the model *)

(* A set of naturals that is not empty has a least element.                 *)
LEMMA LeastNatural ==
    ASSUME NEW S \in SUBSET Nat, S # {}
    PROVE  \E x \in S : \A y \in S : x <= y
<1> DEFINE R == {ss \in Nat \X Nat : ss[1] < ss[2]}
<1>1. R = OpToRel(<, Nat)
  BY DEF OpToRel
<1>2. PICK x \in S : \A y \in S : ~ (<<y, x>> \in R)
  BY <1>1, NatLessThanWellFounded, WFMin, Zenon
<1>3. ASSUME NEW y \in S PROVE x <= y
  <2>1. <<y, x>> \in R <=> y < x
    OBVIOUS
  <2> QED BY <1>2, <2>1
<1> QED BY <1>3

(* A set of mails that is not empty has a newest one, which is its Max.     *)
LEMMA NewestMail ==
    ASSUME NEW S \in SUBSET Mails, S # {}
    PROVE  Max(S) \in S
<1>1. MaxMail \in Nat
  BY MailTriageAssumption
<1> DEFINE T == {MaxMail - m : m \in S}
<1>2. T \in SUBSET Nat
  BY <1>1 DEF Mails
<1>6. T # {}
  OBVIOUS
<1>3. PICK x \in T : \A y \in T : x <= y
  BY <1>2, <1>6, LeastNatural
<1>4. PICK m \in S : x = MaxMail - m
  OBVIOUS
<1>5. \A n \in S : m >= n
  BY <1>1, <1>3, <1>4 DEF Mails
<1> QED BY <1>5 DEF Max

(* The only copy of a mail has id 1.                                        *)
LEMMA MaxOfZero == Max({0}) = 0
BY DEF Max

-----------------------------------------------------------------------------
(* Types *)

Triggers == {"query", "poll", "approval", "maintenance"}
Nodes == {"idle", "intent", "entry_router", "approval_router", "memory_retrieve", "react",
          "tool_execution", "reflect", "response", "memory_write", "whatsapp_response"}
Routes == Triggers \union {"approve_send", "reject", "redraft", "more_context"}
Turns == [node : Nodes, trigger : Triggers,
          text : SUBSET {"word", "approve", "reject", "redraft", "context"},
          route : Routes, steps : Nat, hops : Nat, doing : Calls \union {NoCall},
          queue : Seq(Calls), wrote : BOOLEAN, phase : {"start", "loop", "log"},
          todo : SUBSET Mails, answer : {"none", "text", "default", "observation"}]
Ids0 == Nat \ {0}

(* Every variable keeps its type, ids of stored copies are positive, and a  *)
(* tool is under way only in a node that may run it.                        *)
TypeOK ==
    /\ inbox \in 0 .. MaxMail
    /\ stored \in [Mails -> Nat]
    /\ classified \subseteq Mails \X Ids0 /\ drafts \subseteq Mails \X Ids0
    /\ sent \in [Mails -> Nat] /\ logged \in [Mails -> Nat]
    /\ history \in Seq([turn : Nat, role : {"user", "agent"}])
    /\ answered \subseteq Nat
    /\ turns \in Nat /\ faults \in Nat
    /\ turn \in Turns
    /\ turn.phase # "start" => turn.node = "tool_execution" /\ Room

(* Before the first message. *)
LEMMA TypeInit == Init => TypeOK
<1> SUFFICES ASSUME Init PROVE TypeOK
  OBVIOUS
<1>1. <<>> \in Seq(Calls)
  OBVIOUS
<1>2. Idle \in Turns
  BY <1>1 DEF Idle, Turns, Nodes, Routes, Triggers
<1>3. inbox \in 0 .. MaxMail
  BY MailTriageAssumption DEF Init
<1> QED BY <1>2, <1>3 DEF Init, TypeOK, Idle

(* A node is entered with the phase and the call the graph has left.        *)
LEMMA VisitedType ==
    ASSUME NEW t \in Turns, NEW next \in Nodes
    PROVE  /\ Visited(t, next) \in Turns
           /\ next # "idle" => /\ Visited(t, next).node = next
                               /\ Visited(t, next).phase = t.phase
                               /\ Visited(t, next).doing = t.doing
                               /\ Visited(t, next).trigger = t.trigger
                               /\ Visited(t, next).text = t.text
                               /\ t.hops < NodeLimit
                                    => Visited(t, next).hops = t.hops + 1
<1>1. <<>> \in Seq(Calls)
  OBVIOUS
<1>2. Idle \in Turns
  BY <1>1 DEF Idle, Turns, Nodes, Routes, Triggers
<1>3. NodeLimit \in Nat
  BY MailTriageAssumption
<1>4. CASE next = "idle"
  BY <1>2, <1>4 DEF Visited
<1>5. CASE next # "idle"
  <2> DEFINE h == IF t.hops = NodeLimit THEN t.hops ELSE t.hops + 1
  <2>1. h \in Nat
    BY <1>3 DEF Turns
  <2>2. Visited(t, next) = [t EXCEPT !.node = next, !.hops = h]
    BY <1>5 DEF Visited
  <2>3. t.hops < NodeLimit => h = t.hops + 1
    BY <1>3 DEF Turns
  <2> HIDE DEF h
  <2> QED BY <2>1, <2>2, <2>3 DEF Turns
<1> QED BY <1>4, <1>5
(* Steps of the graph move no mail and touch no table of mails.             *)
Quiet ==
    /\ UNCHANGED <<tables, sent, logged, faults>>
    /\ turn.phase = "start" /\ turn'.phase = "start"

LEMMA IdleType == Idle \in Turns /\ Idle.node = "idle" /\ Idle.phase = "start"
<1>1. <<>> \in Seq(Calls)
  OBVIOUS
<1> QED BY <1>1 DEF Idle, Turns, Nodes, Routes, Triggers

(* A message begins a turn. *)
LEMMA BeginType ==
    ASSUME TypeOK, NEW trigger \in Triggers, NEW text \in Texts, Begin(trigger, text)
    PROVE  TypeOK' /\ Quiet
<1>1. turn' \in Turns /\ turn'.phase = "start"
  BY IdleType, MailTriageAssumption DEF Begin, Turns, Nodes
<1>2. UNCHANGED <<tables, mail, talk, faults>> /\ turns' \in Nat
  BY DEF Begin, TypeOK
<1>3. turn.phase = "start"
  BY DEF Begin, TypeOK
<1> QED BY <1>1, <1>2, <1>3 DEF TypeOK, Quiet, tables, mail, talk

(* A turn may have moved on in its state, but not in its message.           *)
OfTurn(t) ==
    /\ t \in Turns /\ t.phase = "start" /\ t.hops = turn.hops
    /\ t.trigger = turn.trigger /\ t.text = turn.text

(* The planner's next call. *)
LEMMA DecideType ==
    ASSUME TypeOK, NEW calls \in Seq(Calls), NEW wrote \in BOOLEAN, Decide(calls, wrote)
    PROVE  \E t : OfTurn(t) /\ turn' \in {Visited(t, "reflect"), Visited(t, "tool_execution")}
<1> DEFINE doing == IF calls = <<>> THEN NoCall ELSE Head(calls)
           rest == IF calls = <<>> THEN <<>> ELSE Tail(calls)
           steps == IF OverLimit(turn.steps) THEN turn.steps ELSE turn.steps + 1
           t == [turn EXCEPT !.steps = steps, !.doing = doing, !.queue = rest,
                             !.wrote = wrote, !.phase = "start"]
           next == IF doing = NoCall \/ OverLimit(t.steps) THEN "reflect" ELSE "tool_execution"
<1>1. doing \in Calls \union {NoCall} /\ rest \in Seq(Calls)
  OBVIOUS
<1>2. steps \in Nat
  BY DEF TypeOK, Turns
<1>3. turn' = Visited(t, next)
  BY DEF Decide, Step
<1> HIDE DEF doing, rest, steps
<1>4. OfTurn(t)
  BY <1>1, <1>2 DEF TypeOK, Turns, OfTurn
<1>5. next = "reflect" \/ next = "tool_execution"
  OBVIOUS
<1> HIDE DEF t, next
<1> QED BY <1>3, <1>4, <1>5

(* Where the graph goes from the nodes that leave the history alone.        *)
LEMMA StepsOn ==
    ASSUME TypeOK,
           \/ Intent \/ EntryRouter \/ ApprovalRouter \/ MemoryRetrieve
           \/ React \/ Reflect \/ Response \/ LogTool
    PROVE  \E t : /\ OfTurn(t)
                  /\ \/ Intent /\ turn' = Visited(t, "entry_router")
                     \/ EntryRouter /\ turn' = Visited(t, EntryNode(turn.trigger))
                     \/ ApprovalRouter /\ turn' = Visited(t, ApprovalNode[ApprovalRoute(turn.text)])
                     \/ (MemoryRetrieve \/ LogTool) /\ turn' = Visited(t, "react")
                     \/ React /\ turn' \in {Visited(t, "reflect"), Visited(t, "tool_execution")}
                     \/ Reflect /\ turn' \in {Visited(t, "response"), Visited(t, "react")}
                     \/ Response /\ turn' = Visited(t, "memory_write")
<1> USE DEF TypeOK, OfTurn
<1>1. CASE Intent \/ MemoryRetrieve \/ Reflect
  <2>1. OfTurn(turn)
    BY <1>1 DEF Intent, MemoryRetrieve, Reflect, At
  <2> QED BY <1>1, <2>1 DEF Intent, MemoryRetrieve, Reflect, Step, NextNode
<1>2. CASE EntryRouter
  <2> DEFINE t == [turn EXCEPT !.route = turn.trigger]
  <2>1. OfTurn(t)
    BY <1>2 DEF EntryRouter, At, Turns, Routes
  <2>2. turn' = Visited(t, EntryNode(turn.trigger))
    BY <1>2 DEF EntryRouter, Step
  <2> HIDE DEF t
  <2> QED BY <1>2, <2>1, <2>2
<1>3. CASE ApprovalRouter
  <2> DEFINE r == ApprovalRoute(turn.text)
             t == [turn EXCEPT !.route = r]
  <2>1. turn' = Visited(t, ApprovalNode[r])
    BY <1>3 DEF ApprovalRouter, Step
  <2>2. r \in {"approve_send", "reject", "redraft", "more_context"}
    BY DEF ApprovalRoute
  <2> HIDE DEF r
  <2>3. OfTurn(t)
    BY <1>3, <2>2 DEF ApprovalRouter, At, Turns, Routes
  <2> HIDE DEF t
  <2> QED BY <1>3, <2>1, <2>3 DEF r
<1>4. CASE React
  <2>1. turn.queue \in Seq(Calls)
    BY DEF Turns
  <2>2. CASE turn.queue # <<>>
    BY <1>4, <2>1, <2>2, DecideType DEF React
  <2>3. CASE turn.queue = <<>>
    <3>1. PICK plan \in Planned, wrote \in BOOLEAN : Decide(plan, wrote)
      BY <1>4, <2>3 DEF React
    <3>2. \E t : OfTurn(t) /\ turn' \in {Visited(t, "reflect"), Visited(t, "tool_execution")}
      BY <3>1, PlannedAssumption, DecideType
    <3> QED BY <1>4, <3>2
  <2> QED BY <2>2, <2>3
<1>5. CASE Response
  <2> DEFINE t == [turn EXCEPT !.answer = Answer]
  <2>1. Answer \in {"text", "default", "observation"}
    BY DEF Answer
  <2>2. turn' = Visited(t, "memory_write")
    BY <1>5 DEF Response, Step, NextNode
  <2>3. OfTurn(t)
    BY <1>5, <2>1 DEF Response, At, Turns
  <2> HIDE DEF t
  <2> QED BY <1>5, <2>2, <2>3
<1>6. CASE LogTool
  <2> DEFINE t == [turn EXCEPT !.phase = "start"]
  <2>1. OfTurn(t)
    BY DEF Turns
  <2>2. turn' = Visited(t, "react")
    BY <1>6 DEF LogTool, Step, NextNode
  <2> HIDE DEF t
  <2> QED BY <1>6, <2>1, <2>2
<1> QED BY <1>1, <1>2, <1>3, <1>4, <1>5, <1>6

(* None of them ends the turn or answers. *)
LEMMA NodeAfter ==
    ASSUME TypeOK,
           \/ Intent \/ EntryRouter \/ ApprovalRouter \/ MemoryRetrieve
           \/ React \/ Reflect \/ Response \/ LogTool
    PROVE  /\ turn' \in Turns /\ turn'.phase = "start"
           /\ turn'.node \notin {"idle", "whatsapp_response"}
           /\ turn'.trigger = turn.trigger /\ turn'.text = turn.text
           /\ turn'.hops = turn.hops + 1
           /\ Intent => turn'.node = "entry_router"
           /\ EntryRouter => turn'.node = EntryNode(turn.trigger)
           /\ ApprovalRouter => turn'.node = ApprovalNode[ApprovalRoute(turn.text)]
           /\ Response => turn'.node = "memory_write"
<1> DEFINE Next1 == {"entry_router", "approval_router", "memory_retrieve", "react", "reflect",
                     "tool_execution", "response", "memory_write"}
<1>1. EntryNode(turn.trigger) \in Next1
  BY DEF EntryNode
<1>2. ApprovalNode[ApprovalRoute(turn.text)] \in Next1
  BY DEF ApprovalNode, ApprovalRoute
<1>3. ASSUME NEW t, OfTurn(t), NEW next \in Next1, turn' = Visited(t, next)
      PROVE  /\ turn' \in Turns /\ turn'.phase = "start" /\ turn'.node = next
             /\ turn'.trigger = turn.trigger /\ turn'.text = turn.text
             /\ turn'.hops = turn.hops + 1
  <2>1. turn.hops < NodeLimit
    BY DEF Intent, EntryRouter, ApprovalRouter, MemoryRetrieve, React, Reflect,
       Response, LogTool, At, Room
  <2> QED BY <1>3, <2>1, VisitedType DEF OfTurn, Nodes
<1>4. /\ Intent \/ EntryRouter \/ ApprovalRouter \/ Response => turn.phase = "start"
      /\ Intent => turn.node = "intent"
      /\ EntryRouter => turn.node = "entry_router"
      /\ ApprovalRouter => turn.node = "approval_router"
      /\ MemoryRetrieve => turn.node = "memory_retrieve"
      /\ React => turn.node = "react"
      /\ Reflect => turn.node = "reflect"
      /\ Response => turn.node = "response"
      /\ LogTool => turn.node = "tool_execution"
  BY DEF TypeOK, Intent, EntryRouter, ApprovalRouter, MemoryRetrieve, React, Reflect, Response,
         LogTool, At
<1>5. PICK t : /\ OfTurn(t)
               /\ \/ Intent /\ turn' = Visited(t, "entry_router")
                  \/ EntryRouter /\ turn' = Visited(t, EntryNode(turn.trigger))
                  \/ ApprovalRouter /\ turn' = Visited(t, ApprovalNode[ApprovalRoute(turn.text)])
                  \/ (MemoryRetrieve \/ LogTool) /\ turn' = Visited(t, "react")
                  \/ React /\ turn' \in {Visited(t, "reflect"), Visited(t, "tool_execution")}
                  \/ Reflect /\ turn' \in {Visited(t, "response"), Visited(t, "react")}
                  \/ Response /\ turn' = Visited(t, "memory_write")
  BY StepsOn
<1>6. PICK next \in Next1 :
         /\ turn' = Visited(t, next)
         /\ Intent => next = "entry_router"
         /\ EntryRouter => next = EntryNode(turn.trigger)
         /\ ApprovalRouter => next = ApprovalNode[ApprovalRoute(turn.text)]
         /\ Response => next = "memory_write"
  BY <1>1, <1>2, <1>4, <1>5
<1>7. /\ turn' \in Turns /\ turn'.phase = "start" /\ turn'.node = next
      /\ turn'.trigger = turn.trigger /\ turn'.text = turn.text
      /\ turn'.hops = turn.hops + 1
  BY <1>3, <1>5, <1>6
<1> QED BY <1>6, <1>7

(* Such a node leaves the tables and the history alone. *)
LEMMA NodeType ==
    ASSUME TypeOK,
           \/ Intent \/ EntryRouter \/ ApprovalRouter \/ MemoryRetrieve
           \/ React \/ Reflect \/ Response \/ LimitReached
    PROVE  TypeOK' /\ Quiet /\ UNCHANGED <<inbox, talk, count>>
<1> USE DEF TypeOK
<1>1. turn.phase = "start"
  BY DEF Intent, EntryRouter, ApprovalRouter, MemoryRetrieve, React, Reflect, Response,
         LimitReached, At, Room
<1>2. UNCHANGED <<tables, mail, talk, count>>
  BY DEF Intent, EntryRouter, ApprovalRouter, MemoryRetrieve, React, Reflect, Response,
         LimitReached
<1>3. turn' \in Turns /\ turn'.phase = "start"
  BY NodeAfter, IdleType DEF LimitReached
<1> QED BY <1>1, <1>2, <1>3 DEF Quiet, tables, mail, talk, count

Row == [turn : Nat, role : {"user", "agent"}]

(* What is written to the history: the agent's row, after the user's row if *)
(* there is one.                                                            *)
LEMMA RowsType ==
    ASSUME TypeOK
    PROVE  /\ Rows \in Seq(Row) /\ Len(Rows) \in {1, 2}
           /\ \A i \in 1 .. Len(Rows) : Rows[i].turn = turns
           /\ Rows[Len(Rows)] = [turn |-> turns, role |-> "agent"]
           /\ Len(Rows) = 2 => Rows[1].role = "user"
<1> DEFINE u == [turn |-> turns, role |-> "user"]
           a == [turn |-> turns, role |-> "agent"]
<1>1. u \in Row /\ a \in Row
  BY DEF TypeOK, Row
<1>2. u.turn = turns /\ a.turn = turns /\ u.role = "user"
  OBVIOUS
<1>7. Rows = (IF turn.text = {} THEN <<>> ELSE <<u>>) \o <<a>>
  BY DEF Rows
<1> HIDE DEF u, a
<1>8. <<u>> \in Seq(Row) /\ <<a>> \in Seq(Row)
  BY <1>1
<1>4. a = [turn |-> turns, role |-> "agent"]
  BY DEF a
<1>5. CASE turn.text = {}
  <2>1. Rows = <<a>>
    BY <1>5, <1>7, <1>8, ConcatEmptySeq
  <2> QED BY <1>1, <1>2, <1>4, <2>1
<1>6. CASE turn.text # {}
  <2>1. Rows = Append(<<u>>, a)
    BY <1>1, <1>6, <1>7, <1>8, AppendIsConcat
  <2>2. Rows \in Seq(Row) /\ Len(Rows) = 2 /\ Rows[1] = u /\ Rows[2] = a
    BY <1>1, <1>8, <2>1
  <2> QED BY <1>2, <1>4, <2>2
<1> QED BY <1>5, <1>6

(* The nodes after the answer. *)
LEMMA AnswerType ==
    ASSUME TypeOK, MemoryWrite \/ WhatsApp
    PROVE  TypeOK' /\ Quiet /\ UNCHANGED <<inbox, count>>
<1> USE DEF TypeOK
<1>1. turn.phase = "start" /\ UNCHANGED <<tables, mail, count>>
  BY DEF MemoryWrite, WhatsApp, At
<1>2. turn' \in Turns /\ turn'.phase = "start"
  <2>1. PICK next \in {"whatsapp_response", "idle"} : turn' = Visited(turn, next)
    BY DEF MemoryWrite, WhatsApp, Step, NextNode
  <2>2. CASE next = "idle"
    BY <2>1, <2>2, IdleType DEF Visited
  <2> QED BY <2>1, <2>2, <1>1, VisitedType DEF Nodes
<1>3. history' \in Seq(Row) /\ answered' \subseteq Nat
  <2>1. history \in Seq(Row) /\ Rows \in Seq(Row)
    BY RowsType DEF Row
  <2>2. history \o Rows \in Seq(Row)
    BY <2>1
  <2> QED BY <2>1, <2>2 DEF MemoryWrite, WhatsApp, Remembered, talk
<1> QED BY <1>1, <1>2, <1>3 DEF Quiet, tables, mail, talk, count, Row

(* A mail that a fetch stores for the first time gets id 1.                 *)
LEMMA NewIdType ==
    ASSUME TypeOK, NEW m \in Mails, RowsReferToStored, m \notin InStore
    PROVE  NewId(m) = 1
<1>1. stored[m] = 0
  BY DEF InStore
<1>2. {r \in classified \union drafts : r[1] = m} = {}
  BY <1>1 DEF RowsReferToStored, TypeOK, Ids0
<1>3. {0, stored[m]} \union {row[2] : row \in {r \in classified \union drafts : r[1] = m}} = {0}
  BY <1>1, <1>2
<1> QED BY <1>3, MaxOfZero DEF NewId
(* A call that needs a message names one. *)
LEMMA CallOf ==
    ASSUME TypeOK, turn.doing.tool \in {"draft_reply", "email_send"}
    PROVE  turn.doing.of \in Mails
<1>1. turn.doing \in Calls \union {NoCall}
  BY DEF TypeOK, Turns
<1> QED BY <1>1 DEF Calls, NoCall, Call

(* A tool is under way before the limit of the graph is reached. *)
LEMMA UnderWay ==
    ASSUME TypeOK, NEW phase \in {"start", "loop", "log"}, NEW S \in SUBSET Mails,
           At("tool_execution"),
           \/ turn' = [turn EXCEPT !.phase = phase, !.todo = S]
           \/ turn' = [turn EXCEPT !.todo = S] /\ phase = turn.phase
           \/ turn' = [turn EXCEPT !.phase = phase] /\ S = turn.todo
    PROVE  /\ turn' \in Turns /\ turn'.node = "tool_execution" /\ Room'
           /\ turn'.phase = phase /\ turn'.todo = S /\ turn'.doing = turn.doing
           /\ turn'.trigger = turn.trigger /\ turn'.text = turn.text
           /\ turn'.hops = turn.hops
BY DEF TypeOK, Turns, At, Room

-----------------------------------------------------------------------------
(* The tables *)

(* While a fetch is under way, what it has still to store is not in the     *)
(* store; what a classifier has still to classify is.                       *)
StoreInv ==
    /\ TypeOK
    /\ RowsReferToStored
    /\ turn.phase = "loop" /\ turn.doing.tool = "gmail_fetch" => turn.todo \cap InStore = {}
    /\ turn.phase = "loop" /\ turn.doing.tool = "email_classifier" => turn.todo \subseteq InStore

LEMMA StoreInit == Init => StoreInv
BY TypeInit DEF Init, StoreInv, RowsReferToStored, Idle

(* Steps that move no mail. *)
LEMMA StoreQuiet ==
    ASSUME StoreInv, TypeOK', UNCHANGED <<tables, sent>>,
           turn'.phase # "loop" \/ turn' = turn
    PROVE  StoreInv'
BY DEF StoreInv, RowsReferToStored, InStore, tables

(* A loop starts over mails that exist. *)
LEMMA StoreStartLoop == StoreInv /\ StartLoop => StoreInv' /\ turn'.doing = turn.doing
<1> SUFFICES ASSUME StoreInv, StartLoop PROVE StoreInv' /\ turn'.doing = turn.doing
  OBVIOUS
<1> DEFINE S == IF turn.doing.tool = "gmail_fetch" THEN NewMails ELSE Ids
<1>1. InStore \subseteq Mails
  BY DEF InStore
<1>2. Listed \subseteq Mails
  BY MailTriageAssumption DEF Listed, Newest, StoreInv, TypeOK, Mails
<1>3. NewMails \subseteq Mails /\ NewMails \cap InStore = {}
  BY <1>2 DEF NewMails
<1>4. Ids \subseteq InStore
  BY DEF Ids, DefaultIds, Newest
<1>5. turn' = [turn EXCEPT !.phase = "loop", !.todo = S] /\ At("tool_execution")
  BY DEF StartLoop
<1>6. S \in SUBSET Mails
  BY <1>1, <1>3, <1>4
<1>7. UNCHANGED <<tables, mail, talk, count>>
  BY DEF StartLoop
<1>8. TypeOK' /\ turn'.doing = turn.doing /\ turn'.todo = S
  BY <1>5, <1>6, <1>7, UnderWay DEF StoreInv, TypeOK, tables, mail, talk, count
<1>9. turn.doing.tool = "gmail_fetch" => S = NewMails
  OBVIOUS
<1>10. turn.doing.tool = "email_classifier" => S = Ids
  OBVIOUS
<1>11. InStore' = InStore /\ RowsReferToStored'
  BY <1>7 DEF StoreInv, RowsReferToStored, InStore, tables, mail
<1> HIDE DEF S
<1> QED BY <1>3, <1>4, <1>8, <1>9, <1>10, <1>11 DEF StoreInv

(* Storing a mail that is not in the store yet: it gets id 1.               *)
LEMMA StoreNewMail ==
    ASSUME StoreInv, NEW m \in Mails, m \notin InStore,
           stored' = WithMessage(m), drafts' = drafts, sent' = sent,
           classified' = classified \union FetchedRows(m) \/ classified' = classified
    PROVE  /\ stored' \in [Mails -> Nat]
           /\ classified' \subseteq Mails \X Ids0
           /\ RowsReferToStored'
           /\ InStore' = InStore \union {m}
           /\ \A n \in Mails \ {m} : stored'[n] = stored[n]
<1> USE DEF StoreInv, TypeOK
<1>1. NewId(m) = 1
  BY NewIdType
<1>2. stored' = [stored EXCEPT ![m] = 1]
  BY <1>1 DEF WithMessage
<1>3. classified' \subseteq classified \union {<<m, 1>>}
  BY <1>1 DEF FetchedRows
<1>4. \A row \in classified \union drafts : row[1] \in Mails /\ row[1] # m
  BY DEF RowsReferToStored, InStore, Ids0
<1>5. InStore' = InStore \union {m}
  BY <1>2 DEF InStore
<1>6. <<m, 1>> \in Mails \X Ids0
  BY DEF Ids0
<1>7. RowsReferToStored'
  <2>1. ASSUME NEW row \in classified' \union drafts' PROVE stored'[row[1]] = row[2]
    <3>1. CASE row = <<m, 1>>
      BY <1>2, <3>1
    <3>2. CASE row \in classified \union drafts
      BY <1>2, <1>4, <3>2 DEF RowsReferToStored
    <3> QED BY <1>3, <2>1, <3>1, <3>2
  <2> QED BY <1>5, <2>1 DEF RowsReferToStored
<1> QED BY <1>2, <1>3, <1>5, <1>6, <1>7
LEMMA StoreFetchOne == StoreInv /\ FetchOne => StoreInv'
<1> SUFFICES ASSUME StoreInv, FetchOne PROVE StoreInv'
  OBVIOUS
<1> DEFINE m == Max(turn.todo)
<1>1. turn.todo \in SUBSET Mails /\ turn.todo # {} /\ turn.phase = "loop"
      /\ turn.doing.tool = "gmail_fetch" /\ At("tool_execution")
  BY DEF FetchOne, Using, StoreInv, TypeOK, Turns
<1>2. m \in turn.todo
  BY <1>1, NewestMail
<1>3. m \in Mails /\ m \notin InStore
  BY <1>1, <1>2 DEF StoreInv
<1>4. /\ stored' = WithMessage(m) /\ classified' = classified \union FetchedRows(m)
      /\ turn' = [turn EXCEPT !.todo = turn.todo \ {m}]
      /\ UNCHANGED <<drafts, mail, talk, count>>
  BY DEF FetchOne
<1> HIDE DEF m
<1>5. /\ stored' \in [Mails -> Nat] /\ classified' \subseteq Mails \X Ids0
      /\ RowsReferToStored' /\ InStore' = InStore \union {m}
  BY <1>3, <1>4, StoreNewMail DEF mail
<1>6. /\ turn' \in Turns /\ turn'.node = "tool_execution" /\ Room'
      /\ turn'.phase = "loop" /\ turn'.todo = turn.todo \ {m} /\ turn'.doing = turn.doing
  <2>1. turn.todo \ {m} \in SUBSET Mails /\ "loop" \in {"start", "loop", "log"}
    BY <1>1
  <2> QED BY <1>1, <1>4, <2>1, UnderWay DEF StoreInv
<1>7. turn'.todo \cap InStore' = {}
  BY <1>1, <1>5, <1>6 DEF StoreInv
<1>8. TypeOK'
  BY <1>4, <1>5, <1>6 DEF StoreInv, TypeOK, mail, talk, count
<1> QED BY <1>1, <1>5, <1>6, <1>7, <1>8 DEF StoreInv

LEMMA StoreClassifyOne ==
    ASSUME StoreInv, ClassifyOne
    PROVE  /\ StoreInv' /\ turn'.doing = turn.doing
           /\ \E m \in turn.todo : /\ classified' = classified \union {Copy(m)}
                                   /\ turn'.todo = turn.todo \ {m}
<1> DEFINE m == Max(turn.todo)
<1>1. turn.todo \in SUBSET Mails /\ turn.todo # {} /\ turn.phase = "loop"
      /\ turn.doing.tool = "email_classifier" /\ At("tool_execution")
  BY DEF ClassifyOne, Using, StoreInv, TypeOK, Turns
<1>2. m \in turn.todo
  BY <1>1, NewestMail
<1>3. /\ classified' = classified \union {Copy(m)}
      /\ turn' = [turn EXCEPT !.todo = turn.todo \ {m}]
      /\ UNCHANGED <<stored, drafts, mail, talk, count>>
  BY DEF ClassifyOne
<1> HIDE DEF m
<1>4. m \in Mails /\ m \in InStore
  BY <1>1, <1>2 DEF StoreInv
<1>5. Copy(m) \in Mails \X Ids0 /\ Copy(m)[1] = m /\ Copy(m)[2] = stored[m]
  BY <1>4 DEF Copy, InStore, Ids0, StoreInv, TypeOK
<1>6. /\ turn' \in Turns /\ turn'.node = "tool_execution" /\ Room'
      /\ turn'.phase = "loop" /\ turn'.todo = turn.todo \ {m} /\ turn'.doing = turn.doing
  <2>1. turn.todo \ {m} \in SUBSET Mails /\ "loop" \in {"start", "loop", "log"}
    BY <1>1
  <2> QED BY <1>1, <1>3, <2>1, UnderWay DEF StoreInv
<1>7. TypeOK'
  BY <1>3, <1>5, <1>6 DEF StoreInv, TypeOK, mail, talk, count
<1>8. InStore' = InStore /\ RowsReferToStored'
  BY <1>3, <1>5 DEF StoreInv, RowsReferToStored, InStore, mail
<1> QED BY <1>1, <1>2, <1>3, <1>6, <1>7, <1>8 DEF StoreInv

(* The steps that leave the phase "loop" or never enter it.                 *)
LEMMA StoreTool ==
    ASSUME StoreInv, EndLoop \/ DraftReply \/ EmailSend \/ ReadMail \/ LogTool \/ ToolRaises
    PROVE  /\ StoreInv' /\ faults' = faults
           /\ turn'.phase \in {"start", "log"}
           /\ turn'.phase = "log" => turn'.doing = turn.doing
<1> USE DEF StoreInv, TypeOK
<1>1. CASE EndLoop \/ ReadMail
  <2>1. turn' \in Turns /\ turn'.node = "tool_execution" /\ Room'
        /\ turn'.phase = "log" /\ turn'.doing = turn.doing
    BY <1>1, UnderWay DEF EndLoop, ReadMail, Using, Turns
  <2>2. UNCHANGED <<tables, mail, talk, count>>
    BY <1>1 DEF EndLoop, ReadMail
  <2>3. TypeOK'
    BY <2>1, <2>2 DEF tables, mail, talk, count
  <2> QED BY <2>1, <2>2, <2>3, StoreQuiet DEF mail, count
<1>2. CASE DraftReply
  <2> DEFINE m == turn.doing.of
  <2>1. m \in Mails /\ m \in InStore /\ drafts' = drafts \union {Copy(m)}
        /\ UNCHANGED <<stored, classified, mail, talk, count>>
    BY <1>2, CallOf DEF DraftReply, Using, CanDraft
  <2>2. turn' \in Turns /\ turn'.node = "tool_execution" /\ Room'
        /\ turn'.phase = "log" /\ turn'.doing = turn.doing
    BY <1>2, UnderWay DEF DraftReply, Using, Turns
  <2> HIDE DEF m
  <2>3. Copy(m) \in Mails \X Ids0 /\ Copy(m)[1] = m /\ Copy(m)[2] = stored[m]
    BY <2>1 DEF Copy, InStore, Ids0
  <2>4. TypeOK'
    BY <2>1, <2>2, <2>3 DEF mail, talk, count
  <2>5. RowsReferToStored'
    BY <2>1, <2>3 DEF RowsReferToStored, InStore, mail
  <2> QED BY <2>1, <2>2, <2>4, <2>5 DEF count
<1>3. CASE EmailSend
  <2> DEFINE m == turn.doing.of
  <2>1. m \in Mails /\ m \in InStore /\ sent' = [sent EXCEPT ![m] = @ + 1]
        /\ UNCHANGED <<tables, inbox, logged, talk, count>>
    BY <1>3, CallOf DEF EmailSend, Using, CanSend
  <2>2. turn' \in Turns /\ turn'.node = "tool_execution" /\ Room'
        /\ turn'.phase = "log" /\ turn'.doing = turn.doing
    BY <1>3, UnderWay DEF EmailSend, Using, Turns
  <2> HIDE DEF m
  <2>3. TypeOK'
    BY <2>1, <2>2 DEF tables, talk, count
  <2>4. RowsReferToStored'
    BY <2>1 DEF RowsReferToStored, InStore, tables
  <2> QED BY <2>1, <2>2, <2>3, <2>4 DEF count
<1>4. CASE LogTool
  <2> DEFINE t == [turn EXCEPT !.phase = "start"]
  <2>1. UNCHANGED <<tables, inbox, sent, talk, count>> /\ logged' \in [Mails -> Nat]
    <3>1. UNCHANGED <<tables, inbox, sent, talk, count>> /\ logged' = WithRow(turn.doing)
      BY <1>4 DEF LogTool
    <3>2. WithRow(turn.doing) \in [Mails -> Nat]
      BY CallOf DEF WithRow
    <3> QED BY <3>1, <3>2
  <2>2. turn' = Visited(t, "react")
    BY <1>4 DEF LogTool, Step, NextNode
  <2>3. t \in Turns /\ t.phase = "start"
    BY DEF Turns
  <2> HIDE DEF t
  <2>4. turn' \in Turns /\ turn'.phase = "start"
    BY <2>2, <2>3, VisitedType DEF Nodes
  <2>5. TypeOK'
    BY <2>1, <2>4 DEF tables, talk, count
  <2> QED BY <2>1, <2>4, <2>5, StoreQuiet DEF count
<1>5. CASE ToolRaises
  <2>1. turn' = Idle /\ UNCHANGED <<tables, mail, talk, count>>
    BY <1>5 DEF ToolRaises
  <2>2. TypeOK'
    BY <2>1, IdleType DEF tables, mail, talk, count
  <2> QED BY <2>1, <2>2, IdleType, StoreQuiet DEF mail, count
<1> QED BY <1>1, <1>2, <1>3, <1>4, <1>5
(* A row or two of the turn may be written before the process stops.        *)
LEMMA HalfWrittenType ==
    ASSUME TypeOK, HalfWritten
    PROVE  \E k \in 1 .. Len(Rows) :
              /\ history' = history \o SubSeq(Rows, 1, k)
              /\ SubSeq(Rows, 1, k) \in Seq(Row)
              /\ history' \in Seq(Row)
<1>1. PICK k \in 1 .. Len(Rows) : history' = history \o SubSeq(Rows, 1, k)
  BY DEF HalfWritten, Remembered
<1>2. Rows \in Seq(Row) /\ Len(Rows) \in Nat /\ history \in Seq(Row)
  BY RowsType DEF TypeOK, Row
<1>3. SubSeq(Rows, 1, k) \in Seq(Row)
  BY <1>2, SubSeqProperties
<1>4. history' \in Seq(Row)
  BY <1>1, <1>2, <1>3, ConcatProperties
<1> QED BY <1>1, <1>3, <1>4

LEMMA StoreCrash ==
    ASSUME StoreInv, Crash
    PROVE  /\ StoreInv'
           /\ turn' = Idle /\ faults' = faults + 1 /\ logged' = logged
           /\ \/ sent' = sent
              \/ /\ turn.phase = "start" /\ turn.doing.of \in Mails
                 /\ sent' = [sent EXCEPT ![turn.doing.of] = @ + 1]
<1> USE DEF StoreInv, TypeOK
<1>1. turn' = Idle /\ faults' = faults + 1 /\ faults' \in Nat
      /\ UNCHANGED <<inbox, logged, turns>>
  BY DEF Crash
<1>2. turn' \in Turns /\ turn'.node = "idle" /\ turn'.phase = "start"
  BY <1>1, IdleType
<1>3. CASE UNCHANGED <<tables, sent>> /\ history' \in Seq(Row) /\ answered' \subseteq Nat
  <2>1. TypeOK'
    BY <1>1, <1>2, <1>3 DEF tables, Row
  <2> QED BY <1>1, <1>2, <1>3, <2>1, StoreQuiet
<1>4. CASE Torn /\ UNCHANGED <<sent, history, answered>>
  <2>1. /\ stored' \in [Mails -> Nat] /\ RowsReferToStored'
        /\ classified' \subseteq Mails \X Ids0 /\ drafts' \subseteq Mails \X Ids0
    <3>1. CASE Using("gmail_fetch") /\ turn.phase = "loop" /\ turn.todo # {} /\ Unclassifiable
      <4> DEFINE m == Max(turn.todo)
      <4>1. m \in turn.todo
        BY <3>1, NewestMail DEF Turns
      <4>2. m \in Mails /\ m \notin InStore
        BY <3>1, <4>1 DEF Using, Turns
      <4>3. stored' = WithMessage(m) /\ UNCHANGED <<classified, drafts, sent>>
        BY <1>4, <3>1 DEF Unclassifiable
      <4> HIDE DEF m
      <4> QED BY <4>2, <4>3, StoreNewMail
    <3>2. CASE \/ Using("email_classifier") /\ turn.phase = "loop" /\ TornClassification
               \/ Using("draft_reply") /\ turn.phase = "start" /\ TornDraft
      <4>1. stored' = stored /\ sent' = sent /\ classified' \subseteq classified
            /\ drafts' \subseteq drafts
        BY <1>4, <3>2 DEF TornClassification, TornDraft
      <4> QED BY <4>1 DEF RowsReferToStored, InStore
    <3> QED BY <1>4, <3>1, <3>2 DEF Torn
  <2>2. TypeOK'
    BY <1>1, <1>2, <1>4, <2>1
  <2> QED BY <1>1, <1>2, <1>4, <2>1, <2>2
<1>5. CASE SentAnyway /\ UNCHANGED <<tables, history, answered>>
  <2>1. turn.doing.of \in Mails /\ turn.doing.of \in InStore /\ turn.phase = "start"
        /\ sent' = [sent EXCEPT ![turn.doing.of] = @ + 1]
    BY <1>5, CallOf DEF SentAnyway, Using, CanSend
  <2>2. RowsReferToStored'
    BY <1>5, <2>1 DEF RowsReferToStored, InStore, tables
  <2>3. TypeOK'
    BY <1>1, <1>2, <1>5, <2>1 DEF tables
  <2> QED BY <1>1, <1>2, <2>1, <2>2, <2>3
<1>6. CASE UNCHANGED <<tables, sent, history, answered>>
  BY <1>3, <1>6 DEF Row
<1>7. CASE DeliveredAnyway /\ UNCHANGED <<tables, sent, history>>
  BY <1>3, <1>7 DEF DeliveredAnyway, Row
<1>8. CASE HalfWritten /\ UNCHANGED <<tables, sent, answered>>
  <2>1. history' \in Seq(Row)
    BY <1>8, HalfWrittenType
  <2> QED BY <1>3, <1>8, <2>1
<1> QED BY <1>4, <1>5, <1>6, <1>7, <1>8 DEF Crash

LEMMA StoreArrives ==
    ASSUME StoreInv, MailArrives
    PROVE  StoreInv' /\ UNCHANGED <<tables, sent, logged, talk, count, turn>>
<1>1. UNCHANGED <<tables, sent, logged, talk, count, turn>>
  BY DEF MailArrives
<1>2. inbox' \in 0 .. MaxMail
  BY MailTriageAssumption DEF MailArrives, StoreInv, TypeOK
<1>3. TypeOK'
  BY <1>1, <1>2 DEF StoreInv, TypeOK, Room, tables, talk, count
<1> QED BY <1>1, <1>3, StoreQuiet

(* Steps of the graph, without the tools. *)
LEMMA StoreGraph ==
    ASSUME StoreInv,
           \/ \E trigger \in Started, text \in Texts : FromTerminal(trigger, text)
           \/ \E text \in Texts : FromWebhook(text)
           \/ GraphStep
    PROVE  StoreInv' /\ Quiet
<1>1. TypeOK' /\ Quiet
  <2>1. CASE \/ \E trigger \in Started, text \in Texts : FromTerminal(trigger, text)
             \/ \E text \in Texts : FromWebhook(text)
    BY <2>1, BeginType, MailTriageAssumption DEF FromTerminal, FromWebhook, Triggers, StoreInv
  <2>2. CASE GraphStep
    BY <2>2, NodeType, AnswerType DEF GraphStep, StoreInv
  <2> QED BY <2>1, <2>2
<1> QED BY <1>1, StoreQuiet DEF Quiet

LEMMA StoreStep == StoreInv /\ [Next]_vars => StoreInv'
<1> SUFFICES ASSUME StoreInv, [Next]_vars PROVE StoreInv'
  OBVIOUS
<1>1. CASE UNCHANGED vars
  <2>1. TypeOK'
    BY <1>1 DEF vars, tables, mail, talk, count, StoreInv, TypeOK, Room
  <2> QED BY <1>1, <2>1, StoreQuiet DEF vars, mail
<1>2. CASE Next
  BY <1>2, StoreGraph, StoreStartLoop, StoreFetchOne, StoreClassifyOne, StoreTool,
     StoreCrash, StoreArrives DEF Next, TurnStep, ToolStep
<1> QED BY <1>1, <1>2

LEMMA StoreInvariant == Spec => []StoreInv
BY StoreInit, StoreStep, PTL DEF Spec

(* Every variable keeps its type. *)
THEOREM TypeCorrect == Spec => []TypeOK
<1>1. StoreInv => TypeOK
  BY DEF StoreInv
<1> QED BY <1>1, StoreInvariant, PTL

(* No fetch, after whatever fault, replaces the copy that a classification, *)
(* a draft or a sent mail refers to.                                        *)
THEOREM CopiesAreKept == Spec => []RowsReferToStored
<1>1. StoreInv => RowsReferToStored
  BY DEF StoreInv
<1> QED BY <1>1, StoreInvariant, PTL
-----------------------------------------------------------------------------
(* The classifier catches up *)

(* What a classifier call without ids has not classified it still has to do.*)
CatchUpInv ==
    turn.phase # "start" /\ turn.doing = Call("email_classifier", 0, FALSE) =>
        \A m \in Newest(ListLimit, InStore) :
            Copy(m) \in classified \/ (turn.phase = "loop" /\ m \in turn.todo)

(* As long as no mail is stored, the newest mails stay the same.            *)
LEMMA CatchUpNext ==
    ASSUME stored' = stored,
           turn'.phase # "start" /\ turn'.doing = Call("email_classifier", 0, FALSE) =>
               \A m \in Newest(ListLimit, InStore) :
                   Copy(m) \in classified' \/ (turn'.phase = "loop" /\ m \in turn'.todo)
    PROVE  CatchUpInv'
BY DEF CatchUpInv, InStore, Copy

LEMMA CatchUpStep == StoreInv /\ CatchUpInv /\ [Next]_vars => CatchUpInv'
<1> SUFFICES ASSUME StoreInv, CatchUpInv, [Next]_vars PROVE CatchUpInv'
  OBVIOUS
<1>t. turn \in Turns
  BY DEF StoreInv, TypeOK
<1>1. CASE turn'.phase = "start"
  BY <1>1 DEF CatchUpInv
<1>2. CASE UNCHANGED <<tables, turn>>
  BY <1>2 DEF CatchUpInv, tables, InStore, Copy
<1>3. CASE StartLoop
  <2>1. /\ turn'.doing = turn.doing /\ UNCHANGED tables
        /\ turn'.phase = "loop"
        /\ turn'.todo = IF turn.doing.tool = "gmail_fetch" THEN NewMails ELSE Ids
    BY <1>t, <1>3 DEF StartLoop, Turns
  <2>2. turn.doing = Call("email_classifier", 0, FALSE) => turn'.todo = DefaultIds
    BY <2>1 DEF Ids, Call
  <2>3. turn'.doing = Call("email_classifier", 0, FALSE) =>
           \A m \in Newest(ListLimit, InStore) : Copy(m) \in classified \/ m \in turn'.todo
    BY <2>1, <2>2 DEF DefaultIds
  <2>4. turn'.phase # "start" /\ turn'.doing = Call("email_classifier", 0, FALSE) =>
           \A m \in Newest(ListLimit, InStore) :
               Copy(m) \in classified' \/ (turn'.phase = "loop" /\ m \in turn'.todo)
    BY <2>1, <2>3 DEF tables
  <2>5. stored' = stored
    BY <2>1 DEF tables
  <2> QED BY <2>4, <2>5, CatchUpNext
<1>4. CASE FetchOne
  <2>1. turn'.doing = turn.doing /\ turn.doing.tool = "gmail_fetch"
    BY <1>t, <1>4 DEF FetchOne, Using, Turns
  <2>2. turn'.doing # Call("email_classifier", 0, FALSE)
    BY <2>1 DEF Call
  <2> QED BY <2>2 DEF CatchUpInv
<1>5. CASE ClassifyOne
  <2>1. PICK n \in turn.todo : /\ classified' = classified \union {Copy(n)}
                               /\ turn'.todo = turn.todo \ {n}
    BY <1>5, StoreClassifyOne
  <2>2. turn'.doing = turn.doing /\ turn.phase = "loop" /\ turn'.phase = "loop"
        /\ stored' = stored
    BY <1>t, <1>5 DEF ClassifyOne, Turns
  <2>3. turn'.doing = Call("email_classifier", 0, FALSE) =>
           \A m \in Newest(ListLimit, InStore) : Copy(m) \in classified' \/ m \in turn'.todo
    BY <2>1, <2>2 DEF CatchUpInv
  <2>4. turn'.phase # "start" /\ turn'.doing = Call("email_classifier", 0, FALSE) =>
           \A m \in Newest(ListLimit, InStore) :
               Copy(m) \in classified' \/ (turn'.phase = "loop" /\ m \in turn'.todo)
    BY <2>2, <2>3
  <2>5. stored' = stored
    BY <2>2
  <2> QED BY <2>4, <2>5, CatchUpNext
<1>6. CASE EndLoop
  <2>1. turn'.doing = turn.doing /\ turn.phase = "loop" /\ turn.todo = {}
        /\ UNCHANGED tables
    BY <1>t, <1>6 DEF EndLoop, Turns
  <2> QED BY <2>1 DEF CatchUpInv, tables, InStore, Copy
<1>7. CASE DraftReply \/ EmailSend \/ ReadMail
  <2>1. turn'.doing = turn.doing /\ turn.doing.tool \in {"draft_reply", "email_send", "read"}
    BY <1>t, <1>7 DEF DraftReply, EmailSend, ReadMail, Using, Turns
  <2>2. turn'.doing # Call("email_classifier", 0, FALSE)
    BY <2>1 DEF Call
  <2> QED BY <2>2 DEF CatchUpInv
<1>8. LogTool \/ ToolRaises => turn'.phase = "start"
  <2> DEFINE t == [turn EXCEPT !.phase = "start"]
  <2>1. t \in Turns /\ t.phase = "start"
    BY <1>t DEF Turns
  <2> HIDE DEF t
  <2>2. LogTool => turn' = Visited(t, "react")
    BY DEF LogTool, Step, NextNode, t
  <2> QED BY <2>1, <2>2, VisitedType, IdleType DEF ToolRaises, Nodes
<1>9. CASE Next
  BY <1>1, <1>2, <1>3, <1>4, <1>5, <1>6, <1>7, <1>8, <1>9, StoreGraph, StoreCrash,
     StoreArrives, IdleType DEF Next, TurnStep, ToolStep, Quiet
<1> QED BY <1>2, <1>9 DEF vars

(* A classifier call without ids that gets to its end leaves none of the    *)
(* newest mails unclassified.                                               *)
THEOREM ClassifierIsComplete == Spec => []ClassifierCatchesUp
<1>1. Init => CatchUpInv
  BY DEF Init, CatchUpInv, Idle
<1>2. CatchUpInv => ClassifierCatchesUp
  BY DEF CatchUpInv, ClassifierCatchesUp
<1> QED BY <1>1, <1>2, CatchUpStep, StoreInvariant, PTL DEF Spec
-----------------------------------------------------------------------------
(* The log of what was sent *)

Open == turn.phase = "log" /\ turn.doing.tool = "email_send"

(* The mail of a call that is about to be logged is one without a row; only *)
(* a fetch and the classifier have a loop.                                  *)
SendInv ==
    /\ turn.phase = "loop" => turn.doing.tool \in {"gmail_fetch", "email_classifier"}
    /\ \A m \in Mails : logged[m] <= sent[m]
    /\ Open => logged[turn.doing.of] < sent[turn.doing.of]
    /\ IsFiniteSet(Unlogged)
    /\ Cardinality(Unlogged) <= faults + (IF Open THEN 1 ELSE 0)

(* Sending a mail adds one that has no row yet. *)
LEMMA SendOne ==
    ASSUME TypeOK, NEW m \in Mails, logged[m] <= sent[m],
           sent' = [sent EXCEPT ![m] = @ + 1], logged' = logged
    PROVE  Unlogged' = Unlogged \union {<<m, sent[m] + 1>>}
<1> USE DEF TypeOK
<1>1. \A n \in Mails : \A k \in Int : k \in logged'[n] + 1 .. sent'[n]
                             <=> k \in logged[n] + 1 .. sent[n] \/ (n = m /\ k = sent[m] + 1)
  <2> SUFFICES ASSUME NEW n \in Mails, NEW k \in Int
               PROVE  k \in logged'[n] + 1 .. sent'[n]
                         <=> k \in logged[n] + 1 .. sent[n] \/ (n = m /\ k = sent[m] + 1)
    OBVIOUS
  <2>1. CASE n = m
    <3> DEFINE a == logged[m]
               b == sent[m]
    <3>1. a \in Nat /\ b \in Nat /\ a <= b /\ logged'[n] = a /\ sent'[n] = b + 1
      BY <2>1
    <3> HIDE DEF a, b
    <3>2. k \in a + 1 .. b + 1 <=> k \in a + 1 .. b \/ k = b + 1
      BY <3>1
    <3> QED BY <2>1, <3>1, <3>2 DEF a, b
  <2>2. CASE n # m
    BY <2>2
  <2> QED BY <2>1, <2>2
<1> QED BY <1>1 DEF Unlogged

(* A row takes the oldest of them away. *)
LEMMA LogOne ==
    ASSUME TypeOK, NEW m \in Mails, logged[m] < sent[m],
           logged' = [logged EXCEPT ![m] = @ + 1], sent' = sent
    PROVE  Unlogged' = Unlogged \ {<<m, logged[m] + 1>>} /\ <<m, logged[m] + 1>> \in Unlogged
<1> USE DEF TypeOK
<1>1. \A n \in Mails : \A k \in Int : k \in logged'[n] + 1 .. sent'[n]
                             <=> k \in logged[n] + 1 .. sent[n] /\ ~ (n = m /\ k = logged[m] + 1)
  OBVIOUS
<1>2. logged[m] + 1 \in logged[m] + 1 .. sent[m]
  OBVIOUS
<1> QED BY <1>1, <1>2 DEF Unlogged
LEMMA OneMore ==
    ASSUME NEW S, NEW x, IsFiniteSet(S)
    PROVE  /\ IsFiniteSet(S \union {x}) /\ Cardinality(S) \in Nat
           /\ Cardinality(S \union {x}) \in Nat
           /\ Cardinality(S \union {x}) <= Cardinality(S) + 1
<1>1. IsFiniteSet(S \union {x}) /\ Cardinality(S) \in Nat
  BY FS_AddElement, FS_CardinalityType
<1>2. Cardinality(S \union {x}) = IF x \in S THEN Cardinality(S) ELSE Cardinality(S) + 1
  BY FS_AddElement
<1> QED BY <1>1, <1>2, FS_CardinalityType

LEMMA SendStep == StoreInv /\ SendInv /\ [Next]_vars => SendInv'
<1> SUFFICES ASSUME StoreInv, SendInv, [Next]_vars PROVE SendInv'
  OBVIOUS
<1>t. TypeOK
  BY DEF StoreInv
<1>c. Cardinality(Unlogged) \in Nat /\ faults \in Nat /\ IsFiniteSet(Unlogged)
  BY <1>t, FS_CardinalityType DEF SendInv, TypeOK
<1>p. turn'.phase = "loop" => turn'.doing.tool \in {"gmail_fetch", "email_classifier"}
  <2>1. CASE StartLoop \/ FetchOne
    BY <1>t, <2>1 DEF StartLoop, FetchOne, Using, TypeOK, Turns
  <2>2. CASE ClassifyOne
    BY <1>t, <2>2 DEF ClassifyOne, Using, TypeOK, Turns
  <2>3. CASE UNCHANGED turn \/ turn'.phase # "loop"
    BY <2>3 DEF SendInv
  <2>4. CASE Next
    BY <2>1, <2>2, <2>3, <2>4, StoreGraph, StoreArrives, StoreTool, StoreCrash, IdleType
       DEF Next, TurnStep, ToolStep, Quiet
  <2> QED BY <2>3, <2>4 DEF vars
<1>1. CASE UNCHANGED <<sent, logged, faults>> /\ UNCHANGED turn
  BY <1>1 DEF SendInv, Unlogged, Open
<1>2. CASE UNCHANGED <<sent, logged, faults>> /\ ~Open' /\ ~Open
  BY <1>p, <1>2 DEF SendInv, Unlogged
<1>3. CASE StartLoop \/ FetchOne \/ ClassifyOne \/ EndLoop \/ DraftReply \/ ReadMail \/ ToolRaises
  <2>1. UNCHANGED <<sent, logged, faults>>
    BY <1>3 DEF StartLoop, FetchOne, ClassifyOne, EndLoop, DraftReply, ReadMail, ToolRaises,
         mail, count
  <2>2. ~Open
    BY <1>3 DEF StartLoop, FetchOne, ClassifyOne, EndLoop, DraftReply, ReadMail, ToolRaises, Open
  <2>3. ~Open'
    <3>1. CASE StartLoop
      BY <1>t, <3>1 DEF StartLoop, Open, TypeOK, Turns
    <3>2. CASE FetchOne \/ ClassifyOne
      BY <1>t, <3>2 DEF FetchOne, ClassifyOne, Open, TypeOK, Turns
    <3>3. CASE EndLoop
      BY <1>t, <3>3 DEF EndLoop, Open, TypeOK, Turns, SendInv
    <3>4. CASE DraftReply \/ ReadMail
      BY <1>t, <3>4 DEF DraftReply, ReadMail, Using, Open, TypeOK, Turns
    <3>5. CASE ToolRaises
      BY <3>5, IdleType DEF ToolRaises, Open
    <3> QED BY <1>3, <3>1, <3>2, <3>3, <3>4, <3>5
  <2> QED BY <1>2, <2>1, <2>2, <2>3
<1>4. CASE EmailSend
  <2> DEFINE m == turn.doing.of
  <2>1. /\ m \in Mails /\ sent' = [sent EXCEPT ![m] = @ + 1] /\ logged' = logged
        /\ faults' = faults /\ ~Open /\ turn'.doing = turn.doing
    BY <1>t, <1>4, CallOf DEF EmailSend, Using, count, Open, TypeOK, Turns
  <2> HIDE DEF m
  <2>2. Unlogged' = Unlogged \union {<<m, sent[m] + 1>>}
    BY <1>t, <2>1, SendOne DEF SendInv
  <2>3. Open' /\ turn'.doing.of = m
    BY <1>t, <1>4 DEF EmailSend, Using, Open, TypeOK, Turns, m
  <2>4. IsFiniteSet(Unlogged') /\ Cardinality(Unlogged') <= Cardinality(Unlogged) + 1
    BY <1>c, <2>2, OneMore
  <2>5. Cardinality(Unlogged') <= faults + 1 /\ Cardinality(Unlogged') \in Nat
    BY <1>c, <2>1, <2>4, FS_CardinalityType DEF SendInv
  <2>6. (\A n \in Mails : logged'[n] <= sent'[n]) /\ logged'[m] < sent'[m]
    BY <1>t, <2>1 DEF SendInv, TypeOK
  <2> QED BY <1>p, <2>1, <2>3, <2>4, <2>5, <2>6 DEF SendInv
<1>5. CASE LogTool
  <2> DEFINE m == turn.doing.of
             t == [turn EXCEPT !.phase = "start"]
  <2>1. sent' = sent /\ faults' = faults /\ logged' = WithRow(turn.doing)
    BY <1>5 DEF LogTool, count
  <2>2. ~Open'
    <3>1. t \in Turns /\ t.phase = "start" /\ turn' = Visited(t, "react")
      BY <1>t, <1>5 DEF LogTool, Step, NextNode, TypeOK, Turns
    <3> HIDE DEF t
    <3> QED BY <3>1, VisitedType DEF Open, Nodes
  <2>3. CASE turn.doing.tool = "email_send"
    <3>1. /\ m \in Mails /\ Open /\ logged[m] < sent[m]
          /\ logged' = [logged EXCEPT ![m] = @ + 1]
      BY <1>t, <1>5, <2>1, <2>3, CallOf DEF LogTool, Open, WithRow, SendInv
    <3> HIDE DEF m
    <3>2. Unlogged' = Unlogged \ {<<m, logged[m] + 1>>} /\ <<m, logged[m] + 1>> \in Unlogged
      BY <1>t, <2>1, <3>1, LogOne
    <3>3. IsFiniteSet(Unlogged') /\ Cardinality(Unlogged') = Cardinality(Unlogged) - 1
      BY <1>c, <3>2, FS_RemoveElement
    <3>4. Cardinality(Unlogged') <= faults
      BY <1>c, <3>1, <3>3 DEF SendInv
    <3>5. \A n \in Mails : logged'[n] <= sent'[n]
      BY <1>t, <2>1, <3>1 DEF SendInv, TypeOK
    <3> QED BY <1>p, <1>c, <2>1, <2>2, <3>3, <3>4, <3>5 DEF SendInv
  <2>4. CASE turn.doing.tool # "email_send"
    <3>1. ~Open /\ logged' = logged
      BY <2>1, <2>4 DEF Open, WithRow
    <3> QED BY <1>2, <2>1, <2>2, <3>1
  <2> QED BY <2>3, <2>4
<1>6. CASE Crash
  <2>1. /\ ~Open' /\ faults' = faults + 1 /\ logged' = logged
        /\ \/ sent' = sent
           \/ /\ ~Open /\ turn.doing.of \in Mails
              /\ sent' = [sent EXCEPT ![turn.doing.of] = @ + 1]
    BY <1>6, StoreCrash, IdleType DEF Open
  <2>2. CASE sent' = sent
    <3>1. Unlogged' = Unlogged
      BY <2>1, <2>2 DEF Unlogged
    <3>2. Cardinality(Unlogged) <= faults + 1
      BY <1>c DEF SendInv
    <3> QED BY <1>p, <2>1, <2>2, <3>1, <3>2, <1>c DEF SendInv
  <2>3. CASE /\ ~Open /\ turn.doing.of \in Mails
             /\ sent' = [sent EXCEPT ![turn.doing.of] = @ + 1]
    <3> DEFINE m == turn.doing.of
    <3>1. m \in Mails /\ sent' = [sent EXCEPT ![m] = @ + 1] /\ ~Open
      BY <2>3
    <3> HIDE DEF m
    <3>2. Unlogged' = Unlogged \union {<<m, sent[m] + 1>>}
      BY <1>t, <2>1, <3>1, SendOne DEF SendInv
    <3>3. IsFiniteSet(Unlogged') /\ Cardinality(Unlogged') <= Cardinality(Unlogged) + 1
      BY <1>c, <3>2, OneMore
    <3>4. Cardinality(Unlogged) <= faults /\ Cardinality(Unlogged') \in Nat
      BY <1>c, <3>1, <3>3, FS_CardinalityType DEF SendInv
    <3>5. \A n \in Mails : logged'[n] <= sent'[n]
      BY <1>t, <2>1, <3>1 DEF SendInv, TypeOK
    <3>6. Cardinality(Unlogged') <= faults + 1
      BY <1>c, <3>3, <3>4
    <3> QED BY <1>p, <1>c, <2>1, <3>3, <3>5, <3>6 DEF SendInv
  <2> QED BY <2>1, <2>2, <2>3
<1>7. CASE Next
  BY <1>1, <1>2, <1>3, <1>4, <1>5, <1>6, <1>7, StoreGraph, StoreArrives
     DEF Next, TurnStep, ToolStep, Quiet, Open, count
<1> QED BY <1>1, <1>7 DEF vars, mail, count, Open

(* The log claims no mail that did not go out, and a mail that went out     *)
(* without a row in the log was sent in a turn that a fault cut short.      *)
THEOREM LogIsTrue == Spec => []SendsAreLogged
<1>1. Init => SendInv
  <2> SUFFICES ASSUME Init PROVE SendInv
    OBVIOUS
  <2>1. Unlogged = {}
    BY DEF Init, Unlogged
  <2> QED BY <2>1, FS_EmptySet DEF Init, SendInv, Idle, Open
<1>2. SendInv => SendsAreLogged
  BY DEF SendInv, SendsAreLogged, Open
<1> QED BY <1>1, <1>2, SendStep, StoreInvariant, PTL DEF Spec
-----------------------------------------------------------------------------
(* The history and the answers *)

(* Rows of a turn stand after those of earlier turns, the user's first.     *)
Ordered(h) ==
    \A i, j \in DOMAIN h :
        i < j => \/ h[i].turn < h[j].turn
                 \/ h[i].turn = h[j].turn /\ h[i].role = "user" /\ h[j].role = "agent"

AgentRow(n, h) == \E i \in DOMAIN h : h[i] = [turn |-> n, role |-> "agent"]

(* A turn has no rows before it writes them, and its answer when the answer *)
(* is about to be sent.                                                     *)
HistoryInv ==
    /\ \A n \in answered : AgentRow(n, history)
    /\ Ordered(history)
    /\ \A i \in DOMAIN history :
          /\ history[i].turn <= turns
          /\ turn.node \notin {"idle", "whatsapp_response"} => history[i].turn < turns
    /\ turn.node = "whatsapp_response" => AgentRow(turns, history)

(* There are one or two rows. *)
LEMMA OneOrTwo ==
    ASSUME NEW n \in Nat, NEW k \in Nat, k = 1 \/ k = 2
    PROVE  /\ n >= 1 /\ n <= k => n = 1 \/ n = 2
           /\ n + k \in n + 1 .. n + k /\ n + k \in 1 .. n + k /\ (n + k) - n = k
           /\ \A i, j \in Int : i >= n + 1 /\ j >= i + 1 /\ j <= n + k
                                   => k = 2 /\ i = n + 1 /\ j = n + 2
OBVIOUS

(* The rows of a turn come after all there is. *)
LEMMA AppendRows ==
    ASSUME NEW h \in Seq(Row), Ordered(h), NEW T \in Nat, \A i \in DOMAIN h : h[i].turn < T,
           NEW r \in Seq(Row), Len(r) \in {1, 2}, \A i \in 1 .. Len(r) : r[i].turn = T,
           Len(r) = 2 => r[1].role = "user" /\ r[2].role = "agent"
    PROVE  /\ Ordered(h \o r)
           /\ \A i \in DOMAIN (h \o r) : (h \o r)[i].turn <= T
           /\ \A n : AgentRow(n, h) => AgentRow(n, h \o r)
           /\ r[Len(r)] = [turn |-> T, role |-> "agent"] => AgentRow(T, h \o r)
<1> DEFINE g == h \o r
           l == Len(h)
<1>1. /\ g \in Seq(Row) /\ Len(g) = l + Len(r) /\ l \in Nat
      /\ \A i \in 1 .. l : g[i] = h[i]
      /\ \A i \in l + 1 .. l + Len(r) : g[i] = r[i - l]
  BY ConcatProperties, LenProperties
<1>2. DOMAIN h = 1 .. l /\ DOMAIN g = 1 .. l + Len(r) /\ \A i \in 1 .. l : h[i] \in Row
  BY <1>1, LenProperties, ElementOfSeq
<1>9. Len(r) \in Nat /\ (Len(r) = 1 \/ Len(r) = 2)
  BY LenProperties
<1> HIDE DEF g, l
<1>3. \A i \in l + 1 .. l + Len(r) : g[i].turn = T
  BY <1>1
<1>4. \A i \in 1 .. l : g[i].turn \in Nat /\ g[i].turn < T
  BY <1>1, <1>2 DEF Row
<1>5. Ordered(g)
  <2> SUFFICES ASSUME NEW i \in DOMAIN g, NEW j \in DOMAIN g, i < j
               PROVE  \/ g[i].turn < g[j].turn
                      \/ g[i].turn = g[j].turn /\ g[i].role = "user" /\ g[j].role = "agent"
    BY DEF Ordered
  <2>1. CASE j <= l
    BY <1>1, <1>2, <2>1 DEF Ordered
  <2>2. CASE i <= l /\ j > l
    BY <1>1, <1>2, <1>3, <1>4, <2>2
  <2>3. CASE i > l
    <3>3. i \in Int /\ j \in Int /\ i >= l + 1 /\ j >= i + 1 /\ j <= l + Len(r)
      BY <1>1, <1>2, <1>9, <2>3
    <3>1. Len(r) = 2 /\ i = l + 1 /\ j = l + 2
      BY <1>1, <1>9, <3>3, OneOrTwo
    <3>2. g[i] = r[1] /\ g[j] = r[2]
      BY <1>1, <3>1
    <3> QED BY <3>1, <3>2
  <2> QED BY <1>1, <1>2, <2>1, <2>2, <2>3
<1>6. \A i \in DOMAIN g : g[i].turn <= T
  BY <1>1, <1>2, <1>3, <1>4
<1>7. \A n : AgentRow(n, h) => AgentRow(n, g)
  BY <1>1, <1>2 DEF AgentRow
<1>8. r[Len(r)] = [turn |-> T, role |-> "agent"] => AgentRow(T, g)
  <2>1. l + Len(r) \in l + 1 .. l + Len(r) /\ l + Len(r) \in 1 .. l + Len(r)
        /\ (l + Len(r)) - l = Len(r)
    BY <1>1, <1>9, OneOrTwo
  <2>2. l + Len(r) \in DOMAIN g /\ g[l + Len(r)] = r[Len(r)]
    BY <1>1, <1>2, <2>1
  <2> QED BY <2>2 DEF AgentRow
<1> QED BY <1>5, <1>6, <1>7, <1>8 DEF g

(* Writing the rows, or some of them before a stop. *)
LEMMA HistoryWrite ==
    ASSUME TypeOK, HistoryInv, turn.node = "memory_write", turns' = turns, answered' = answered,
           NEW r \in Seq(Row), history' = history \o r,
           \/ r = Rows
           \/ \E k \in 1 .. Len(Rows) : r = SubSeq(Rows, 1, k)
    PROVE  /\ \A n \in answered' : AgentRow(n, history')
           /\ Ordered(history') /\ \A i \in DOMAIN history' : history'[i].turn <= turns'
           /\ r = Rows => AgentRow(turns', history')
<1>1. history \in Seq(Row) /\ turns \in Nat
  BY DEF TypeOK, Row
<1>2. /\ Rows \in Seq(Row) /\ Len(Rows) \in {1, 2}
      /\ \A i \in 1 .. Len(Rows) : Rows[i].turn = turns
      /\ Rows[Len(Rows)] = [turn |-> turns, role |-> "agent"]
      /\ Len(Rows) = 2 => Rows[1].role = "user"
  BY RowsType
<1>3. /\ Len(r) \in 1 .. Len(Rows) /\ \A i \in 1 .. Len(r) : r[i] = Rows[i]
  <2>1. CASE r = Rows
    BY <1>2, <2>1
  <2>2. ASSUME NEW k \in 1 .. Len(Rows), r = SubSeq(Rows, 1, k)
        PROVE  Len(r) \in 1 .. Len(Rows) /\ \A i \in 1 .. Len(r) : r[i] = Rows[i]
    BY <1>2, <2>2
  <2> QED BY <2>1, <2>2
<1>n. Len(Rows) \in Nat /\ (Len(Rows) = 1 \/ Len(Rows) = 2)
  BY <1>2
<1>4. Len(r) \in {1, 2} /\ \A i \in 1 .. Len(r) : r[i].turn = turns
  <2>1. Len(r) \in Nat /\ Len(r) >= 1 /\ Len(r) <= Len(Rows)
    BY <1>n, <1>3
  <2>2. Len(r) = 1 \/ Len(r) = 2
    BY <1>n, <2>1, OneOrTwo
  <2>3. \A i \in 1 .. Len(r) : i \in 1 .. Len(Rows)
    BY <1>n, <2>1
  <2> QED BY <1>2, <1>3, <2>2, <2>3
<1>5. Len(r) = 2 => r[1].role = "user" /\ r[2].role = "agent"
  BY <1>2, <1>3
<1>6. \A i \in DOMAIN history : history[i].turn < turns
  BY DEF HistoryInv
<1>7. Ordered(history) /\ \A n \in answered : AgentRow(n, history)
  BY DEF HistoryInv
<1>8. /\ Ordered(history \o r)
      /\ \A i \in DOMAIN (history \o r) : (history \o r)[i].turn <= turns
      /\ \A n : AgentRow(n, history) => AgentRow(n, history \o r)
      /\ r[Len(r)] = [turn |-> turns, role |-> "agent"] => AgentRow(turns, history \o r)
  BY <1>1, <1>4, <1>5, <1>6, <1>7, AppendRows
<1>9. r = Rows => r[Len(r)] = [turn |-> turns, role |-> "agent"]
  BY <1>2
<1> QED BY <1>7, <1>8, <1>9
LEMMA HistoryStep == StoreInv /\ HistoryInv /\ [Next]_vars => HistoryInv'
<1> SUFFICES ASSUME StoreInv, HistoryInv, [Next]_vars PROVE HistoryInv'
  OBVIOUS
<1>t. TypeOK /\ history \in Seq(Row) /\ turns \in Nat
  BY DEF StoreInv, TypeOK, Row
<1>0. /\ \A n \in answered : AgentRow(n, history)
      /\ Ordered(history)
      /\ \A i \in DOMAIN history :
            /\ history[i].turn \in Nat /\ history[i].turn <= turns
            /\ turn.node \notin {"idle", "whatsapp_response"} => history[i].turn < turns
  <2>1. \A i \in DOMAIN history : history[i] \in Row
    BY <1>t, LenProperties, ElementOfSeq
  <2>2. \A i \in DOMAIN history : history[i].turn \in Nat
    BY <2>1 DEF Row
  <2> QED BY <2>2 DEF HistoryInv
<1>1. CASE UNCHANGED <<talk, turns>> /\ (turn'.node = turn.node \/ turn'.node = "idle")
  BY <1>1 DEF HistoryInv, talk
<1>2. CASE UNCHANGED <<talk, turns>> /\ turn.node \notin {"idle", "whatsapp_response"}
           /\ turn'.node \notin {"idle", "whatsapp_response"}
  BY <1>2 DEF HistoryInv, talk
<1>3. ASSUME NEW trigger, NEW text, Begin(trigger, text) PROVE HistoryInv'
  <2>1. UNCHANGED talk /\ turns' = turns + 1 /\ turn'.node = "intent"
    BY <1>3 DEF Begin, Idle
  <2> QED BY <1>0, <1>t, <2>1 DEF HistoryInv, talk
<1>4. CASE Intent \/ EntryRouter \/ ApprovalRouter \/ MemoryRetrieve \/ React \/ Reflect
           \/ Response \/ LogTool
  <2>1. turn.node \notin {"idle", "whatsapp_response"} /\ UNCHANGED <<talk, turns>>
    BY <1>4 DEF Intent, EntryRouter, ApprovalRouter, MemoryRetrieve, React, Reflect, Response,
         LogTool, At, Using, count
  <2>2. turn'.node \notin {"idle", "whatsapp_response"}
    BY <1>t, <1>4, NodeAfter
  <2> QED BY <1>2, <2>1, <2>2
<1>5. CASE MemoryWrite
  <2>1. /\ turn.node = "memory_write" /\ turns' = turns /\ answered' = answered
        /\ history' = history \o Rows /\ turn' = Visited(turn, "whatsapp_response")
    BY <1>5 DEF MemoryWrite, At, count, Remembered, Step, NextNode
  <2>2. /\ \A n \in answered' : AgentRow(n, history')
        /\ Ordered(history') /\ \A i \in DOMAIN history' : history'[i].turn <= turns'
        /\ AgentRow(turns', history')
    BY <1>t, <2>1, RowsType, HistoryWrite
  <2>3. turn'.node = "whatsapp_response"
    BY <1>t, <2>1, VisitedType DEF TypeOK, Nodes
  <2> QED BY <2>2, <2>3 DEF HistoryInv
<1>6. CASE WhatsApp
  <2>1. /\ turn.node = "whatsapp_response" /\ turns' = turns /\ history' = history
        /\ answered' = answered \union {turns} /\ turn' = Visited(turn, "idle")
    BY <1>6 DEF WhatsApp, At, count, Step, NextNode
  <2>2. turn'.node = "idle"
    BY <2>1, IdleType DEF Visited
  <2>3. \A n \in answered' : AgentRow(n, history')
    BY <1>0, <2>1 DEF HistoryInv
  <2> QED BY <1>0, <2>1, <2>2, <2>3 DEF HistoryInv
<1>7. CASE StartLoop \/ FetchOne \/ ClassifyOne \/ EndLoop \/ DraftReply \/ EmailSend \/ ReadMail
  <2>1. UNCHANGED <<talk, turns>>
    BY <1>7 DEF StartLoop, FetchOne, ClassifyOne, EndLoop, DraftReply, EmailSend, ReadMail, count
  <2>2. turn'.node = turn.node
    BY <1>t, <1>7 DEF StartLoop, FetchOne, ClassifyOne, EndLoop, DraftReply, EmailSend, ReadMail,
         TypeOK, Turns
  <2> QED BY <1>1, <2>1, <2>2
<1>8. CASE LimitReached \/ ToolRaises
  BY <1>1, <1>8, IdleType DEF LimitReached, ToolRaises, count
<1>9. CASE Crash
  <2>1. turn' = Idle /\ turns' = turns
    BY <1>9 DEF Crash
  <2>2. CASE UNCHANGED talk
    BY <1>1, <2>1, <2>2, IdleType
  <2>3. CASE DeliveredAnyway /\ history' = history
    <3>1. turn.node = "whatsapp_response" /\ answered' = answered \union {turns}
      BY <2>3 DEF DeliveredAnyway, At
    <3>2. \A n \in answered' : AgentRow(n, history')
      BY <1>0, <2>3, <3>1 DEF HistoryInv
    <3> QED BY <1>0, <2>1, <2>3, <3>2, IdleType DEF HistoryInv
  <2>4. CASE HalfWritten /\ answered' = answered
    <3>1. turn.node = "memory_write"
      BY <2>4 DEF HalfWritten, At
    <3>2. PICK k \in 1 .. Len(Rows) : /\ history' = history \o SubSeq(Rows, 1, k)
                                      /\ SubSeq(Rows, 1, k) \in Seq(Row)
      BY <1>t, <2>4, HalfWrittenType
    <3>3. /\ \A n \in answered' : AgentRow(n, history')
          /\ Ordered(history') /\ \A i \in DOMAIN history' : history'[i].turn <= turns'
      BY <1>t, <2>1, <2>4, <3>1, <3>2, HistoryWrite
    <3> QED BY <2>1, <3>3, IdleType DEF HistoryInv
  <2> QED BY <1>9, <2>2, <2>3, <2>4 DEF Crash, talk
<1>10. CASE MailArrives \/ UNCHANGED vars
  BY <1>1, <1>10 DEF MailArrives, vars, count
<1> QED
  BY <1>3, <1>4, <1>5, <1>6, <1>7, <1>8, <1>9, <1>10
     DEF Next, FromTerminal, FromWebhook, TurnStep, GraphStep, ToolStep

(* An answer reaches the user only after the turn is in the history, in its *)
(* place there.                                                             *)
THEOREM AnswersAreRecorded == Spec => []AnswersRecorded
<1>1. Init => HistoryInv
  BY DEF Init, HistoryInv, Ordered, Idle
<1>2. HistoryInv => AnswersRecorded
  BY DEF HistoryInv, Ordered, AgentRow, AnswersRecorded
<1> QED BY <1>1, <1>2, HistoryStep, StoreInvariant, PTL DEF Spec
-----------------------------------------------------------------------------
(* A refusal *)

Refused == turn.trigger = "approval" /\ "reject" \in turn.text /\ "approve" \notin turn.text

(* The way of a refusal through the graph passes neither planner nor tools. *)
RefusalInv ==
    Refused => turn.node \in {"idle", "intent", "entry_router", "approval_router", "response",
                              "memory_write", "whatsapp_response"}

LEMMA RefusalStep ==
    StoreInv /\ RefusalInv /\ [Next]_vars =>
        RefusalInv' /\ (Refused => sent' = sent /\ drafts' = drafts)
<1> SUFFICES ASSUME StoreInv, RefusalInv, [Next]_vars
             PROVE  RefusalInv' /\ (Refused => sent' = sent /\ drafts' = drafts)
  OBVIOUS
<1>t. TypeOK
  BY DEF StoreInv
<1>1. CASE turn'.node \in {"idle", "intent"} /\ UNCHANGED <<drafts, sent>>
  BY <1>1 DEF RefusalInv
<1>2. CASE Intent \/ EntryRouter \/ ApprovalRouter \/ MemoryRetrieve \/ React \/ Reflect
           \/ Response \/ LogTool
  <2>1. UNCHANGED <<drafts, sent>>
    BY <1>2 DEF Intent, EntryRouter, ApprovalRouter, MemoryRetrieve, React, Reflect, Response,
         LogTool, mail, tables
  <2>2. RefusalInv'
    <3> SUFFICES ASSUME Refused'
                 PROVE  turn'.node \in {"intent", "entry_router", "approval_router", "response",
                                        "memory_write", "whatsapp_response"}
      BY DEF RefusalInv
    <3>1. Refused
      BY <1>t, <1>2, NodeAfter DEF Refused
    <3>2. Intent \/ EntryRouter \/ ApprovalRouter \/ Response
      BY <1>2, <3>1 DEF RefusalInv, MemoryRetrieve, React, Reflect, LogTool, At
    <3>3. EntryNode(turn.trigger) = "approval_router"
      BY <3>1 DEF Refused, EntryNode
    <3>4. ApprovalRoute(turn.text) = "reject"
      BY <3>1 DEF Refused, ApprovalRoute
    <3>5. ApprovalNode[ApprovalRoute(turn.text)] = "response"
      BY <3>4 DEF ApprovalNode
    <3> QED BY <1>t, <3>2, <3>3, <3>5, NodeAfter
  <2> QED BY <2>1, <2>2
<1>3. CASE MemoryWrite \/ WhatsApp
  <2>1. UNCHANGED <<drafts, sent>>
    BY <1>3 DEF MemoryWrite, WhatsApp, mail, tables
  <2>2. turn'.node \in {"idle", "whatsapp_response"}
    <3>1. turn' = Visited(turn, "whatsapp_response") \/ turn' = Visited(turn, "idle")
      BY <1>3 DEF MemoryWrite, WhatsApp, Step, NextNode
    <3>2. Visited(turn, "idle") = Idle
      BY DEF Visited
    <3> QED BY <1>t, <3>1, <3>2, IdleType, VisitedType DEF TypeOK, Nodes
  <2> QED BY <2>1, <2>2 DEF RefusalInv
<1>4. CASE StartLoop \/ FetchOne \/ ClassifyOne \/ EndLoop \/ DraftReply \/ EmailSend \/ ReadMail
  <2>1. turn.node = "tool_execution"
    BY <1>4 DEF StartLoop, FetchOne, ClassifyOne, EndLoop, DraftReply, EmailSend, ReadMail, Using, At
  <2>2. ~Refused
    BY <2>1 DEF RefusalInv
  <2>3. turn'.trigger = turn.trigger /\ turn'.text = turn.text
    BY <1>t, <1>4 DEF StartLoop, FetchOne, ClassifyOne, EndLoop, DraftReply, EmailSend, ReadMail,
         TypeOK, Turns
  <2> QED BY <2>2, <2>3 DEF Refused, RefusalInv
<1>5. CASE LimitReached \/ ToolRaises
  BY <1>1, <1>5, IdleType DEF LimitReached, ToolRaises, mail, tables
<1>6. CASE Crash
  <2>1. turn' = Idle
    BY <1>6 DEF Crash
  <2>2. turn.node = "tool_execution" \/ UNCHANGED <<drafts, sent>>
    BY <1>6 DEF Crash, Torn, SentAnyway, Using, At, tables
  <2>3. Refused => UNCHANGED <<drafts, sent>>
    BY <2>2 DEF RefusalInv
  <2> QED BY <2>1, <2>3, IdleType DEF RefusalInv
<1>7. ASSUME NEW trigger, NEW text, Begin(trigger, text)
      PROVE  RefusalInv' /\ UNCHANGED <<drafts, sent>>
  BY <1>7 DEF Begin, Idle, RefusalInv, mail, tables
<1>8. CASE MailArrives \/ UNCHANGED vars
  BY <1>8 DEF MailArrives, vars, mail, tables, RefusalInv, Refused
<1> QED
  BY <1>2, <1>3, <1>4, <1>5, <1>6, <1>7, <1>8
     DEF Next, FromTerminal, FromWebhook, TurnStep, GraphStep, ToolStep

(* A turn started as an approval reply that refuses, and approves nowhere,  *)
(* sends nothing and leaves the drafts alone.                               *)
THEOREM RefusalIsHeard == Spec => RefusalStopsMail
<1>1. Init => RefusalInv
  BY DEF Init, RefusalInv, Idle
<1>2. StoreInv /\ RefusalInv /\ [Next]_vars => RefusalInv'
  BY RefusalStep
<1>3. StoreInv /\ RefusalInv /\ [Next]_vars =>
        [turn.trigger = "approval" /\ "reject" \in turn.text /\ "approve" \notin turn.text
            => sent' = sent /\ drafts' = drafts]_vars
  BY RefusalStep DEF Refused
<1> QED BY <1>1, <1>2, <1>3, StoreInvariant, PTL DEF Spec, RefusalStopsMail

-----------------------------------------------------------------------------
(* Every turn runs down: the safety half of TurnEnds *)

(* The nodes of the graph that LangGraph still lets the turn run, and the   *)
(* error that ends it.                                                      *)
NodesLeft == IF turn.node = "idle" THEN 0 ELSE NodeLimit + 1 - turn.hops

(* The steps that are left of a tool. *)
ToolStepsLeft == CASE turn.phase = "start" -> MaxMail + 2
                   [] turn.phase = "loop"  -> Cardinality(turn.todo) + 1
                   [] turn.phase = "log"   -> 0

Lower ==
    /\ NodesLeft' \in Nat /\ ToolStepsLeft' \in Nat
    /\ \/ NodesLeft' < NodesLeft
       \/ NodesLeft' = NodesLeft /\ ToolStepsLeft' < ToolStepsLeft

(* The counter of LangGraph never passes its limit. *)
HopsInv == turn.hops <= NodeLimit

(* The mails that a tool has still to handle are no more than there are.    *)
LEMMA TodoIsSmall ==
    ASSUME NEW S \in SUBSET Mails
    PROVE  IsFiniteSet(S) /\ Cardinality(S) \in 0..MaxMail
<1>1. MaxMail \in Nat
  BY MailTriageAssumption
<1>2. IsFiniteSet(Mails) /\ Cardinality(Mails) = MaxMail
  <2>1. IsFiniteSet(1..MaxMail) /\ Cardinality(1..MaxMail) = IF 1 > MaxMail THEN 0 ELSE MaxMail - 1 + 1
    BY <1>1, FS_Interval
  <2> QED BY <1>1, <2>1 DEF Mails
<1>3. IsFiniteSet(S) /\ Cardinality(S) <= MaxMail
  BY <1>2, FS_Subset
<1> QED BY <1>1, <1>3, FS_CardinalityType

(* A step of a turn enters the next node, or goes on in a tool, or ends the *)
(* turn.                                                                    *)
LEMMA TurnStepAdvances ==
    ASSUME TypeOK, TurnStep
    PROVE  /\ turn.node # "idle"
           /\ \/ turn' = Idle
              \/ /\ turn.hops < NodeLimit /\ turn'.hops = turn.hops + 1
                 /\ turn'.node # "idle" /\ turn'.phase = "start"
              \/ /\ turn.hops < NodeLimit /\ turn'.hops = turn.hops
                 /\ turn'.node # "idle"
                 /\ ToolStepsLeft' \in Nat /\ ToolStepsLeft' < ToolStepsLeft
<1>1. CASE Intent \/ EntryRouter \/ ApprovalRouter \/ MemoryRetrieve \/ React \/ Reflect
           \/ Response \/ LogTool
  <2>1. turn.node # "idle" /\ turn.hops < NodeLimit
    BY <1>1 DEF Intent, EntryRouter, ApprovalRouter, MemoryRetrieve, React, Reflect,
       Response, LogTool, At, Room
  <2> QED BY <1>1, <2>1, NodeAfter
<1>2. CASE MemoryWrite
  <2>1. turn.node = "memory_write" /\ turn.hops < NodeLimit /\ turn.phase = "start"
    BY <1>2 DEF MemoryWrite, At, Room, TypeOK
  <2>2. turn' = Visited(turn, "whatsapp_response")
    BY <1>2 DEF MemoryWrite, Step, NextNode
  <2> QED BY <2>1, <2>2, VisitedType DEF TypeOK, Nodes
<1>3. CASE WhatsApp
  <2>1. turn.node = "whatsapp_response"
    BY <1>3 DEF WhatsApp, At
  <2>2. turn' = Idle
    BY <1>3 DEF WhatsApp, Step, NextNode, Visited
  <2> QED BY <2>1, <2>2
<1>4. CASE LimitReached
  BY <1>4 DEF LimitReached
<1>5. CASE ToolRaises
  BY <1>5 DEF ToolRaises, Using, At
<1>6. CASE StartLoop \/ EndLoop \/ DraftReply \/ EmailSend \/ ReadMail
  <2>1. PICK phase \in {"loop", "log"}, S \in SUBSET Mails :
            \/ /\ turn' = [turn EXCEPT !.phase = phase, !.todo = S]
               /\ turn.phase = "start"
            \/ /\ turn' = [turn EXCEPT !.phase = phase] /\ S = turn.todo
               /\ \/ turn.phase = "start"
                  \/ turn.phase = "loop" /\ phase = "log"
    <3>1. turn.todo \in SUBSET Mails
      BY DEF TypeOK, Turns
    <3>2. NewMails \in SUBSET Mails
      BY MailTriageAssumption DEF TypeOK, NewMails, Listed, Newest, Mails
    <3>3. Ids \in SUBSET Mails
      BY DEF Ids, DefaultIds, Newest, InStore
    <3> QED BY <1>6, <3>1, <3>2, <3>3 DEF StartLoop, EndLoop, DraftReply, EmailSend, ReadMail
  <2>2. At("tool_execution")
    BY <1>6 DEF StartLoop, EndLoop, DraftReply, EmailSend, ReadMail, Using
  <2>3. /\ turn'.node = "tool_execution" /\ turn'.hops = turn.hops
        /\ turn'.phase = phase /\ turn'.todo = S
    BY <2>1, <2>2, UnderWay
  <2>4. Cardinality(S) \in 0..MaxMail /\ MaxMail \in Nat
    BY TodoIsSmall, MailTriageAssumption
  <2>5. ToolStepsLeft' \in Nat /\ ToolStepsLeft' < ToolStepsLeft
    BY <2>1, <2>3, <2>4 DEF ToolStepsLeft
  <2> QED BY <2>2, <2>3, <2>5 DEF At, Room
<1>7. CASE FetchOne \/ ClassifyOne
  <2>1. turn.todo \in SUBSET Mails
    BY DEF TypeOK, Turns
  <2>2. /\ At("tool_execution") /\ turn.phase = "loop" /\ turn.todo # {}
        /\ turn' = [turn EXCEPT !.todo = turn.todo \ {Max(turn.todo)}]
    BY <1>7 DEF FetchOne, ClassifyOne, Using
  <2>3. Max(turn.todo) \in turn.todo
    BY <2>1, <2>2, NewestMail
  <2>4. /\ turn'.node = "tool_execution" /\ turn'.hops = turn.hops
        /\ turn'.phase = "loop" /\ turn'.todo = turn.todo \ {Max(turn.todo)}
    BY <2>1, <2>2, UnderWay
  <2>5. /\ Cardinality(turn'.todo) = Cardinality(turn.todo) - 1
        /\ Cardinality(turn.todo) \in Nat /\ Cardinality(turn'.todo) \in Nat
    BY <2>1, <2>3, <2>4, TodoIsSmall, FS_RemoveElement, FS_CardinalityType
  <2>6. ToolStepsLeft' \in Nat /\ ToolStepsLeft' < ToolStepsLeft
    BY <2>2, <2>4, <2>5 DEF ToolStepsLeft
  <2> QED BY <2>2, <2>4, <2>6 DEF At, Room
<1> QED
  BY <1>1, <1>2, <1>3, <1>4, <1>5, <1>6, <1>7 DEF TurnStep, GraphStep, ToolStep

(* Every step keeps the counter within the limit. *)
LEMMA HopsStep == TypeOK /\ HopsInv /\ [Next]_vars => HopsInv'
<1> SUFFICES ASSUME TypeOK, HopsInv, [Next]_vars PROVE HopsInv'
  OBVIOUS
<1>1. NodeLimit \in Nat /\ turn.hops \in Nat /\ Idle.hops = 0
  BY MailTriageAssumption DEF TypeOK, Turns, Idle
<1>2. CASE TurnStep
  BY <1>1, <1>2, TurnStepAdvances DEF HopsInv
<1>3. CASE Crash
  BY <1>1, <1>3 DEF Crash, HopsInv
<1>4. ASSUME NEW trigger, NEW text, Begin(trigger, text) PROVE HopsInv'
  BY <1>1, <1>4 DEF Begin, Idle, HopsInv
<1>5. CASE MailArrives \/ UNCHANGED vars
  BY <1>5 DEF MailArrives, vars, HopsInv
<1> QED BY <1>2, <1>3, <1>4, <1>5 DEF Next, FromTerminal, FromWebhook

(* Whatever the planner and the reviewer answer, each step of a turn leaves *)
(* fewer nodes, or fewer steps of the tool under way; a fault ends the turn *)
(* and mail that arrives meanwhile does not prolong it.  With the fairness  *)
(* of the process that runs it, every turn ends.                            *)
THEOREM TurnsRunDown ==
    Spec => [][/\ TurnStep => Lower
               /\ turn.node # "idle"
                    => Lower \/ UNCHANGED <<NodesLeft, ToolStepsLeft>>]_vars
<1> DEFINE RunsDown == /\ TurnStep => Lower
                       /\ turn.node # "idle"
                            => Lower \/ UNCHANGED <<NodesLeft, ToolStepsLeft>>
<1>1. Init => HopsInv
  BY MailTriageAssumption DEF Init, Idle, HopsInv
<1>2. TypeOK /\ HopsInv /\ [Next]_vars => [RunsDown]_vars
  <2> SUFFICES ASSUME TypeOK, HopsInv, Next PROVE RunsDown
    OBVIOUS
  <2>1. /\ NodeLimit \in Nat /\ MaxMail \in Nat
        /\ turn.hops \in Nat /\ turn.hops <= NodeLimit
    BY MailTriageAssumption DEF TypeOK, Turns, HopsInv
  <2>2. ASSUME turn.node # "idle", turn' = Idle PROVE Lower
    BY <2>1, <2>2 DEF Lower, NodesLeft, ToolStepsLeft, Idle
  <2>3. ASSUME TurnStep PROVE Lower
    <3>1. turn.node # "idle"
      BY <2>3, TurnStepAdvances
    <3>2. CASE /\ turn.hops < NodeLimit /\ turn'.hops = turn.hops + 1
               /\ turn'.node # "idle" /\ turn'.phase = "start"
      BY <2>1, <3>1, <3>2 DEF Lower, NodesLeft, ToolStepsLeft
    <3>3. CASE /\ turn.hops < NodeLimit /\ turn'.hops = turn.hops
               /\ turn'.node # "idle"
               /\ ToolStepsLeft' \in Nat /\ ToolStepsLeft' < ToolStepsLeft
      BY <2>1, <3>1, <3>3 DEF Lower, NodesLeft
    <3> QED BY <2>2, <2>3, <3>1, <3>2, <3>3, TurnStepAdvances
  <2>4. CASE turn.node = "idle"
    BY <2>3, <2>4
  <2>5. CASE Crash
    BY <2>2, <2>3, <2>5 DEF Crash
  <2>6. CASE MailArrives
    BY <2>3, <2>6 DEF MailArrives, NodesLeft, ToolStepsLeft
  <2> QED BY <2>3, <2>4, <2>5, <2>6 DEF Next, FromTerminal, FromWebhook, Begin
<1> HIDE DEF RunsDown
<1>3. Spec => [][RunsDown]_vars
  BY <1>1, <1>2, HopsStep, TypeCorrect, PTL DEF Spec
<1> QED BY <1>3 DEF RunsDown
=============================================================================
