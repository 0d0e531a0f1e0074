----------------------------- MODULE MailTriage -----------------------------
(***************************************************************************)
(* The mail agent (agents/mailmind): one graph run per user message, the   *)
(* tools its planner may call, and the DuckDB tables those tools write.    *)
(*                                                                         *)
(* Turns do not overlap: the command line reads one message after the      *)
(* other and the webhook handler runs the agent inside its coroutine.      *)
(* What is concurrent is the outside world: mail arrives at any time, any  *)
(* call of Gmail, the model, Twilio or the database may raise, and the     *)
(* process may stop between two statements.  Every statement commits by    *)
(* itself and a "save" is a DELETE followed by an INSERT, so that a stop   *)
(* in between leaves the row deleted; nobody else reads in between, hence  *)
(* the pair is one step here and the torn outcome belongs to Crash.        *)
(*                                                                         *)
(* A text is the set of keyword lists of the approval router it matches,   *)
(* with "word" when it has any text at all.  The planner's and the         *)
(* reviewer's answers are arbitrary.                                       *)
(***************************************************************************)
EXTENDS Integers, FiniteSets, Sequences, FiniteSetsExt

CONSTANTS MaxMail,     \* bound: mails that arrive
          FetchLimit,  \* max_results of the Gmail listing (50)
          ListLimit,   \* limit of list_messages (1000)
          StepLimit,   \* max_steps of the planner (6)
          NodeLimit,   \* LangGraph's recursion limit (25)
          MaxTurns,    \* bound: turns
          MaxFaults,   \* bound: raising calls and crashes
          Texts,       \* the user's messages
          Started,     \* the triggers the program is started with
          Planned      \* the planner's choices of tool calls

ASSUME MailTriageAssumption ==
    /\ {MaxMail, FetchLimit, ListLimit, StepLimit, NodeLimit, MaxTurns} \subseteq Nat \ {0}
    /\ MaxFaults \in Nat
    /\ Texts \subseteq SUBSET {"word", "approve", "reject", "redraft", "context"}
    /\ Started \subseteq {"query", "poll", "approval", "maintenance"}

Mails == 1 .. MaxMail

\* A call of the planner: of is 0 where the tool takes no message, and written
\* says that the call brings a subject and a body of its own.
Call(tool, of, written) == [tool |-> tool, of |-> of, written |-> written]
Calls == {Call("gmail_fetch", 0, FALSE), Call("email_classifier", 0, FALSE),
          Call("read", 0, FALSE)}
         \union {Call(tool, m, FALSE) : tool \in {"email_classifier", "draft_reply", "email_send"}, m \in Mails}
         \union {Call("email_send", m, TRUE) : m \in Mails}
NoCall == Call("none", 0, FALSE)

ASSUME PlannedAssumption == Planned \subseteq Seq(Calls)

VARIABLES inbox,      \* mails 1 .. inbox have arrived at Gmail, in this order
          stored,     \* table messages: the id of the stored copy, 0 if none
          classified, \* table classifications: <<mail, id of the copy>>
          drafts,     \* table drafts: <<mail, id of the copy>>
          sent,       \* how often a reply to a mail has gone out
          logged,     \* table tool_logs: completed email_send rows per mail
          history,    \* table conversation_messages of the session
          answered,   \* turns whose answer was sent over WhatsApp
          turns,      \* turns begun
          faults,     \* raising calls and crashes so far
          turn        \* the running graph's state

tables == <<stored, classified, drafts>>
mail == <<inbox, sent, logged>>
talk == <<history, answered>>
count == <<turns, faults>>
vars == <<tables, mail, talk, count, turn>>

Idle == [node |-> "idle", trigger |-> "query", text |-> {}, route |-> "query", steps |-> 0, hops |-> 0,
         doing |-> NoCall, queue |-> <<>>, wrote |-> FALSE, phase |-> "start", todo |-> {}, answer |-> "none"]

Init ==
    /\ inbox = 0
    /\ stored = [m \in Mails |-> 0]
    /\ classified = {} /\ drafts = {}
    /\ sent = [m \in Mails |-> 0] /\ logged = [m \in Mails |-> 0]
    /\ history = <<>> /\ answered = {}
    /\ turns = 0 /\ faults = 0
    /\ turn = Idle

-----------------------------------------------------------------------------
(* The graph.                                                              *)

(* Mutant of NextNode: the answer goes out before memory is written. *)
AnswerFirst == [intent |-> "entry_router", memory_retrieve |-> "react", tool_execution |-> "react",
                response |-> "whatsapp_response", whatsapp_response |-> "memory_write", memory_write |-> "idle"]

NextNode == [intent |-> "entry_router", memory_retrieve |-> "react", tool_execution |-> "react",
             response |-> "memory_write", memory_write |-> "whatsapp_response", whatsapp_response |-> "idle"]

(* Mutant of Room: no limit. *)
NoRoomCheck == TRUE

\* LangGraph runs at most NodeLimit nodes and then raises.
Room == turn.hops < NodeLimit
At(node) == turn.node = node /\ Room
Visited(t, next) == IF next = "idle" THEN Idle
                    ELSE [t EXCEPT !.node = next, !.hops = IF @ = NodeLimit THEN @ ELSE @ + 1]
Step(t, next) == turn' = Visited(t, next)

Begin(trigger, text) ==
    /\ turn.node = "idle" /\ turns < MaxTurns
    /\ turns' = turns + 1
    /\ turn' = [Idle EXCEPT !.node = "intent", !.trigger = trigger, !.text = text]
    /\ UNCHANGED <<tables, mail, talk, faults>>

\* The terminal skips empty lines and gives every turn the trigger the program
\* was started with; the webhook passes on any body, as a query.
FromTerminal(trigger, text) == text # {} /\ Begin(trigger, text)
FromWebhook(text) == Begin("query", text)

\* The intent is classified, but every trigger the program can be started with
\* has a route of its own, so that the intent never chooses it.
Intent ==
    /\ At("intent")
    /\ Step(turn, NextNode["intent"])
    /\ UNCHANGED <<tables, mail, talk, count>>

EntryNode(route) == CASE route = "approval" -> "approval_router"
                      [] route = "maintenance" -> "react"
                      [] OTHER -> "memory_retrieve"

EntryRouter ==
    /\ At("entry_router")
    /\ Step([turn EXCEPT !.route = turn.trigger], EntryNode(turn.trigger))
    /\ UNCHANGED <<tables, mail, talk, count>>

(* Mutant of ApprovalRoute: the rejecting keywords are forgotten. *)
RejectAsContext(text) == IF "approve" \in text THEN "approve_send"
                         ELSE IF "redraft" \in text THEN "redraft" ELSE "more_context"

\* The approving keywords are looked for first, as substrings: "dont send"
\* matches the approving "send" before the rejecting "dont send" is tried.
ApprovalRoute(text) == IF "approve" \in text THEN "approve_send"
                       ELSE IF "reject" \in text THEN "reject"
                       ELSE IF "redraft" \in text THEN "redraft" ELSE "more_context"
ApprovalNode == [approve_send |-> "memory_retrieve", reject |-> "response",
                 redraft |-> "react", more_context |-> "memory_retrieve"]

ApprovalRouter ==
    /\ At("approval_router")
    /\ LET route == ApprovalRoute(turn.text)
       IN Step([turn EXCEPT !.route = route], ApprovalNode[route])
    /\ UNCHANGED <<tables, mail, talk, count>>

\* Reads only.
MemoryRetrieve ==
    /\ At("memory_retrieve")
    /\ Step(turn, NextNode["memory_retrieve"])
    /\ UNCHANGED <<tables, mail, talk, count>>

\* A queued call goes before the model is asked again; beyond the limit the
\* call that was taken from the queue or from the model is not run.
OverLimit(steps) == steps > StepLimit

Decide(calls, wrote) ==
    LET doing == IF calls = <<>> THEN NoCall ELSE Head(calls)
        t == [turn EXCEPT !.steps = IF OverLimit(@) THEN @ ELSE @ + 1,
                          !.doing = doing,
                          !.queue = IF calls = <<>> THEN <<>> ELSE Tail(calls),
                          !.wrote = wrote,
                          !.phase = "start"]
    IN Step(t, IF doing = NoCall \/ OverLimit(t.steps) THEN "reflect" ELSE "tool_execution")

React ==
    /\ At("react")
    /\ IF turn.queue # <<>> THEN Decide(turn.queue, FALSE)
       ELSE \E plan \in Planned, wrote \in BOOLEAN : (plan # <<>> => ~wrote) /\ Decide(plan, wrote)
    /\ UNCHANGED <<tables, mail, talk, count>>

\* Whatever the reviewer's model writes is read as one of these.
Verdicts == BOOLEAN

\* The reviewer may send the turn back to the planner any number of times.
Reflect ==
    /\ At("reflect")
    /\ \E complete \in Verdicts : Step(turn, IF complete THEN "response" ELSE "react")
    /\ UNCHANGED <<tables, mail, talk, count>>

\* The planner's text; without one the observation the reviewer has left, as
\* JSON; after a refusal, which skips both, the default sentence.
Answer == IF turn.wrote THEN "text" ELSE IF turn.route = "reject" THEN "default" ELSE "observation"

Response ==
    /\ At("response")
    /\ Step([turn EXCEPT !.answer = Answer], NextNode["response"])
    /\ UNCHANGED <<tables, mail, talk, count>>

Rows == (IF turn.text = {} THEN <<>> ELSE <<[turn |-> turns, role |-> "user"]>>)
        \o <<[turn |-> turns, role |-> "agent"]>>

Remembered(rows) == history \o rows

MemoryWrite ==
    /\ At("memory_write")
    /\ history' = Remembered(Rows)
    /\ Step(turn, NextNode["memory_write"])
    /\ UNCHANGED <<tables, mail, answered, count>>

WhatsApp ==
    /\ At("whatsapp_response")
    /\ answered' = answered \union {turns}
    /\ Step(turn, NextNode["whatsapp_response"])
    /\ UNCHANGED <<tables, mail, history, count>>

-----------------------------------------------------------------------------
(* The tools, run by the node tool_execution.  A tool that raises ends the *)
(* turn without an answer.                                                 *)

Using(tool) == At("tool_execution") /\ turn.doing.tool = tool
Copy(m) == <<m, stored[m]>>
InStore == {m \in Mails : stored[m] # 0}
Newest(n, S) == {m \in S : Cardinality({x \in S : x > m}) < n}
Listed == Newest(FetchLimit, 1 .. inbox)

(* Mutant of NewMails: without has_message. *)
AllListedMails == Listed

\* Of what Gmail lists, the tool handles the mails it has not stored yet; each
\* fetched copy has an id of its own.
NewMails == Listed \ InStore
NewId(m) == 1 + Max({0, stored[m]} \union {row[2] : row \in {r \in classified \union drafts : r[1] = m}})

(* Mutant of DefaultIds: off by one. *)
DefaultIdsOffByOne == {m \in Newest(ListLimit - 1, InStore) : Copy(m) \notin classified}

\* Without ids the classifier takes the unclassified mails among the newest.
DefaultIds == {m \in Newest(ListLimit, InStore) : Copy(m) \notin classified}
Ids == IF turn.doing.of = 0 THEN DefaultIds ELSE {turn.doing.of} \intersect InStore

StartLoop ==
    /\ At("tool_execution") /\ turn.phase = "start"
    /\ turn.doing.tool \in {"gmail_fetch", "email_classifier"}
    /\ turn' = [turn EXCEPT !.phase = "loop",
                            !.todo = IF turn.doing.tool = "gmail_fetch" THEN NewMails ELSE Ids]
    /\ UNCHANGED <<tables, mail, talk, count>>

WithMessage(m) == [stored EXCEPT ![m] = NewId(m)]

FetchedRows(m) == {<<m, NewId(m)>>}

FetchOne ==
    /\ Using("gmail_fetch") /\ turn.phase = "loop" /\ turn.todo # {}
    /\ LET m == Max(turn.todo)
       IN /\ stored' = WithMessage(m)
          /\ classified' = classified \union FetchedRows(m)
          /\ turn' = [turn EXCEPT !.todo = @ \ {m}]
    /\ UNCHANGED <<drafts, mail, talk, count>>

ClassifyOne ==
    /\ Using("email_classifier") /\ turn.phase = "loop" /\ turn.todo # {}
    /\ classified' = classified \union {Copy(Max(turn.todo))}
    /\ turn' = [turn EXCEPT !.todo = @ \ {Max(turn.todo)}]
    /\ UNCHANGED <<stored, drafts, mail, talk, count>>

EndLoop ==
    /\ At("tool_execution") /\ turn.phase = "loop" /\ turn.todo = {}
    /\ turn' = [turn EXCEPT !.phase = "log"]
    /\ UNCHANGED <<tables, mail, talk, count>>

CanDraft(m) == m \in InStore /\ Copy(m) \in classified

DraftReply ==
    /\ Using("draft_reply") /\ turn.phase = "start" /\ CanDraft(turn.doing.of)
    /\ drafts' = drafts \union {Copy(turn.doing.of)}
    /\ turn' = [turn EXCEPT !.phase = "log"]
    /\ UNCHANGED <<stored, classified, mail, talk, count>>

CanSend(m) == m \in InStore /\ (Copy(m) \in drafts \/ turn.doing.written)

EmailSend ==
    /\ Using("email_send") /\ turn.phase = "start" /\ CanSend(turn.doing.of)
    /\ sent' = [sent EXCEPT ![turn.doing.of] = @ + 1]
    /\ turn' = [turn EXCEPT !.phase = "log"]
    /\ UNCHANGED <<tables, inbox, logged, talk, count>>

\* The two summaries and the search only read the tables.
ReadMail ==
    /\ Using("read") /\ turn.phase = "start"
    /\ turn' = [turn EXCEPT !.phase = "log"]
    /\ UNCHANGED <<tables, mail, talk, count>>

(* Mutant of WithRow: the row of a completed call is not saved. *)
WithoutRow(call) == logged

\* The executor writes the log row after the tool has returned; the node then
\* notes the tool in the session's state.
WithRow(call) == IF call.tool = "email_send" THEN [logged EXCEPT ![call.of] = @ + 1] ELSE logged

LogTool ==
    /\ At("tool_execution") /\ turn.phase = "log"
    /\ logged' = WithRow(turn.doing)
    /\ Step([turn EXCEPT !.phase = "start"], NextNode["tool_execution"])
    /\ UNCHANGED <<tables, inbox, sent, talk, count>>

-----------------------------------------------------------------------------
(* What goes wrong.                                                        *)

\* The tool refuses its input.
ToolRaises ==
    /\ turn.phase = "start"
    /\ \/ Using("draft_reply") /\ ~CanDraft(turn.doing.of)
       \/ Using("email_send") /\ ~CanSend(turn.doing.of)
    /\ turn' = Idle
    /\ UNCHANGED <<tables, mail, talk, count>>

LimitReached ==
    /\ turn.node # "idle" /\ ~Room
    /\ turn' = Idle
    /\ UNCHANGED <<tables, mail, talk, count>>

\* A call outside raises, or the process stops, in the middle of a node.
\* The model's classification may be unusable when the mail is stored already.
Unclassifiable == stored' = WithMessage(Max(turn.todo)) /\ UNCHANGED <<classified, drafts>>
TornClassification == classified' = classified \ {Copy(Max(turn.todo))} /\ UNCHANGED <<stored, drafts>>
TornDraft == CanDraft(turn.doing.of) /\ drafts' = drafts \ {Copy(turn.doing.of)} /\ UNCHANGED <<stored, classified>>

Torn ==
    /\ At("tool_execution")
    /\ \/ Using("gmail_fetch") /\ turn.phase = "loop" /\ turn.todo # {} /\ Unclassifiable
       \/ Using("email_classifier") /\ turn.phase = "loop" /\ turn.todo # {} /\ TornClassification
       \/ Using("draft_reply") /\ turn.phase = "start" /\ TornDraft

\* Gmail may have taken the mail although the call raises, and Twilio the answer.
SentAnyway ==
    Using("email_send") /\ turn.phase = "start" /\ CanSend(turn.doing.of) /\ sent' = [sent EXCEPT ![turn.doing.of] = @ + 1]
DeliveredAnyway == At("whatsapp_response") /\ answered' = answered \union {turns}
HalfWritten == At("memory_write") /\ \E k \in 1 .. Len(Rows) : history' = Remembered(SubSeq(Rows, 1, k))

Crash ==
    /\ turn.node # "idle" /\ Room /\ faults < MaxFaults
    /\ faults' = faults + 1
    /\ turn' = Idle
    /\ \/ UNCHANGED <<tables, sent, history, answered>>
       \/ Torn /\ UNCHANGED <<sent, history, answered>>
       \/ SentAnyway /\ UNCHANGED <<tables, history, answered>>
       \/ DeliveredAnyway /\ UNCHANGED <<tables, sent, history>>
       \/ HalfWritten /\ UNCHANGED <<tables, sent, answered>>
    /\ UNCHANGED <<inbox, logged, turns>>

MailArrives ==
    /\ inbox < MaxMail
    /\ inbox' = inbox + 1
    /\ UNCHANGED <<tables, sent, logged, talk, count, turn>>

ToolStep == StartLoop \/ FetchOne \/ ClassifyOne \/ EndLoop \/ DraftReply \/ EmailSend \/ ReadMail \/ LogTool \/ ToolRaises
GraphStep == Intent \/ EntryRouter \/ ApprovalRouter \/ MemoryRetrieve \/ React \/ Reflect \/ Response
             \/ MemoryWrite \/ WhatsApp \/ LimitReached
TurnStep == GraphStep \/ ToolStep

Next ==
    \/ \E trigger \in Started, text \in Texts : FromTerminal(trigger, text)
    \/ \E text \in Texts : FromWebhook(text)
    \/ TurnStep
    \/ Crash
    \/ MailArrives

Spec == Init /\ [][Next]_vars
FairSpec == Spec /\ WF_vars(TurnStep)

-----------------------------------------------------------------------------
(* Properties.                                                             *)

\* A classification, a draft and a mail that went out always belong to the copy
\* of the message in the store: a fetch that finds a mail again, after whatever
\* fault, never replaces the copy the other tables refer to.
RowsReferToStored ==
    /\ \A row \in classified \union drafts : stored[row[1]] = row[2]
    /\ \A m \in Mails : sent[m] > 0 => m \in InStore

\* A classifier call without ids that gets to its end leaves none of the newest
\* ListLimit mails unclassified, whatever faults came before.
ClassifierCatchesUp ==
    turn.phase = "log" /\ turn.doing = Call("email_classifier", 0, FALSE)
        => \A m \in Newest(ListLimit, InStore) : Copy(m) \in classified

\* The mails that went out, each with its number among the replies to the same
\* mail, for which the log has no row.
Unlogged == UNION {{m} \X (logged[m] + 1 .. sent[m]) : m \in Mails}

\* The log never claims a mail that did not go out, and every mail that went out
\* without a row in the log was sent in a turn that a fault cut short.
SendsAreLogged ==
    /\ \A m \in Mails : logged[m] <= sent[m]
    /\ Cardinality(Unlogged) <=
          faults + (IF turn.phase = "log" /\ turn.doing.tool = "email_send" THEN 1 ELSE 0)

\* An answer reaches the user only after the turn's messages are in the history,
\* with the user's before the agent's.
AnswersRecorded ==
    /\ \A n \in answered : \E i \in DOMAIN history : history[i] = [turn |-> n, role |-> "agent"]
    /\ \A i, j \in DOMAIN history :
          i < j => \/ history[i].turn < history[j].turn
                   \/ history[i].turn = history[j].turn /\ history[i].role = "user" /\ history[j].role = "agent"

\* A turn started as an approval reply whose text matches a rejecting and no
\* approving keyword sends nothing and leaves the drafts alone.
RefusalStopsMail ==
    [][turn.trigger = "approval" /\ "reject" \in turn.text /\ "approve" \notin turn.text
          => sent' = sent /\ drafts' = drafts]_vars

\* Every turn ends, although neither the planner nor the reviewer has to agree
\* to an end: the recursion limit is what ends it.
TurnEnds == turn.node # "idle" ~> turn.node = "idle"
=============================================================================
