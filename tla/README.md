# Verification of openclaw_agents

TLA+ models, TLC runs and TLAPS proofs about the agents of this repository.
The collection agent (`src/agents/collection_agent`) is where the program's own
logic is: a graph of decisions around an LLM, tools with lasting effects, a
session memory, a conversation plan, files shared by threads, and routers that
hand messages from agent to agent. Around it are the memory helper, the layered
memory store, the mail agent and the graph builder.

Paths below are relative to the repository's root. `agent.py`, `main.py`,
`ui/server.py`, `repository.py` and `nodes/` are those of
`src/agents/collection_agent`; in `PROJECT.json` the paths start with one more
`src/`.

## 1. The system

| Part | State it keeps | Operations | What makes it correct |
|---|---|---|---|
| Turn graph (`agent.py`, `nodes/`, `src/nodes`) | graph state of one invocation: steps, decision, pending tool calls, retries | one node after another, chosen by an LLM and by rules that override it | a turn ends; tools are bounded; values given are checked, once |
| Verification (`nodes/verification_react_node.py`, `tools/verify_*.py`) | tool history (40 entries) and verified fields in the session; failed attempts in a file | check a field, apply the history, lock after 3 failures | verified only by a tool; a success is never lost |
| Sessions (`agent.py run_turn`, `src/memory/conversation.py`, `repository.py`) | one dictionary per session, one lock per session, messages, three JSON files | load, `set_state` (saves the whole dictionary), reset, append message | one turn at a time; lock released; nothing newer overwritten |
| Command line router (`main.py`) | a memory object loaded once per message, a hop count | hop, ask the specialist, loop guard | bounded hops; what it leaves arrives |
| Debug server router (`ui/server.py`) | a thread per request; a shared agent | the same, concurrently; start a conversation | every request ends with an answer; a new conversation is new |
| Layered memory (`src/memory`) | hot cache, warm table, cold file | save, get, retrieve, archive | a record once saved can be found |
| Other tools, tool executor (`src/tools`) | runtime files, tool log | run a registered tool, log it | failures keep effects and log together |
| Conversation plan, negotiation (`nodes/plan_*`, `nodes/negotiation_*`) | plan graph with markers, negotiation fields, discount flags | classify a message, merge, move markers, propose, reflect, render | nothing private before verification; flags tell a possible story; the plan only moves forward |
| Memory helper (`src/agents/collection_memory_helper_agent`) | two files: cues of all customers, a record per customer | extract key points of a closed conversation, file them, migrate old files | the two files agree; points of one customer stay his |
| Mail agent (`src/agents/mailmind`, `src/tools/gmail`, `src/storage`) | tables of messages, classifications, drafts, tool log; message history | fetch, classify, draft, send, answer | rows refer to stored mail; what went out is accounted for; a refusal sends nothing |
| Graph builder (`src/graph_builder`, `src/endpoints`) | the graph on the screen, a local copy, the issues shown | edit, import, validate, export | exported shapes are what the mode says; the screen shows the issues of the graph |
| Discount agent | none | recommend | always recommends something |
| Simple conversation, voice, retrieval, LLM adapters, tracing | adapters and small agents | I/O | see section 7 |

How they interact: a router calls `run_turn` with a message and receives a
`response_target`. It answers the customer, or calls the discount planning agent
and leaves its recommendation in the session, or sends the text back as a new
message. `run_turn` takes the session's lock; the routers do not. A turn
communicates with the next one only through the session dictionary, and with the
tools through files. A closing turn makes the router call the memory helper,
whose files every later turn reads. The mail agent and the graph builder share
the generic nodes and the tool executor with the rest, and nothing else.

What is hard here: two tool loops that hand over to each other while an LLM
decides; a turn that dies after a tool has had its effect; whole-dictionary
saves of old copies; requests and resets of one session at once; caps on hops
that are looked at in a particular order; moves between files with a crash in
the middle; a cache that is not told of every write; files that all sessions
rewrite whole and in place; flags that several nodes raise from copies of the
state; tables written one statement at a time around calls that may raise;
answers that arrive after the next edit. The list with lines is in
`PROJECT.json` under `hazards`, with the property that covers each one or the
reason why none does.

## 2. Modules

| Module | Models | State and actions |
|---|---|---|
| `CollectionTurn` | the compiled graph of one session, turn after turn | `pc` is the next node; one action per node or per decisive branch of it; `obs` and `verified` are the session's memory, `attempts` the file |
| `SessionTurns` | `run_turn` as seen from outside | `stored`, `lock`, and per caller its `copy` of the session; begin, save, propose, retry, finish, fail |
| `HopLoop` | what both routers share | extends `SessionTurns` with the loop over hops, its caps and what is left for the next turn, `due` |
| `CliRouting` | `_route_internal_turn` of `main.py` | extends `HopLoop`; the router's own old copy, `held`, is loaded once per message |
| `UiRouting` | `CollectionDebugRuntime` of `ui/server.py` | extends `HopLoop` with concurrent requests and `start_conversation`, each load and save a step of its own |
| `LayeredMemory` | `MemoryStore`, its layers and the retriever | `hot`, `warm`, `cold` of (id, version); copies and deletions are separate steps |
| `DurableIds` | what the store promises | the set of ids that can be found only grows |
| `Negotiation` | `NegotiationClassificationNode` | operators: keyword rules, merge with the prior state, discount flags |
| `ConversationPlan` | `PlanProposalGraphNode` | operators: the six steps, their markers, the next current step |
| `PlanProposal` | `PlanProposalDirectiveNode`, `CollectionReflectNode`, `CollectionResponseNode` | operators: what is proposed, rejected and rendered |
| `Conversation` | one session as a conversation; composes the three above | `neg`, `plan`, `proposal`, ...; one action per node, the routers and the operator as environment |
| `SharedFiles` | `repository.py`, `tools/data_store.py`, the helper's files, and the server's threads | `disk`, `wanted` and per session its `op`, `stage`, `snap`; read, open (which empties the file) and write are separate steps |
| `KeyEventMemory` | the memory helper, its two files, and what turns read from them | `globalFile`, `userFile`, the `run` under way, `writing` the file being rewritten |
| `MailTriage` | the mail agent, its tools and tables | `stored`, `classified`, `drafts`, `sent`, `logged`, `history`, and the `turn` |
| `GraphBuilder` | `spec.py` and `static/graph_builder/app.js` | `graph`, `screen`, `stored`, `shown`, `asked`; the validation as operators |
| `CollectionTurn_proofs` | theorems about `CollectionTurn` | section 6 |
| `Routing_proofs` | theorems about both routers | section 6 |
| `LayeredMemory_proofs`, `Conversation_proofs`, `SharedFiles_proofs`, `MailTriage_proofs`, `KeyEventMemory_proofs`, `GraphBuilder_proofs` | theorems about the module they name | section 6 |
| `MC*` | small instances for TLC | values of set-valued constants |

Definitions called "Mutant of ..." are never used by a specification: each is a
plausible mistake in the definition it names, and shows that a property notices.

### CollectionTurn

An action is one LangGraph super-step. The LLM is a free choice among what the
code accepts from it; what the code forces is a guard:

* the pre-plan rule (`EvidenceToCheck`) and the execution path rule
  (`MissingEvidence`) send a message with an unchecked value towards
  `verification_react`;
* `verification_react` first applies the tool history to the verification state
  (`AppliedFields`), then takes a queued call, or queues the message's values
  for the missing fields, or asks the LLM; repeated checks are dropped
  (`Filtered`);
* `ReactNode.execute` counts the decision, `ReactNode.route` compares it with
  `max_steps` (`Decide`); both nodes use the same counter;
* the tool node appends to the history (`Remember`): an entry equal to the last
  one is not repeated, and the newest 40 are kept;
* the reflect node retries a plan while `planRetries + 1 < MaxRetry`.

A turn can end in a response, in an exception of any node that raises in strict
mode (`NodeFails`), in a failing tool before or after its effect (`ToolFails`),
or at LangGraph's recursion limit (`NodeLimitReached`). The react nodes are not
among the raising ones: an LLM error makes them answer directly
(`src/nodes/react_node.py:219`).

`obs` stands for both `observations` in the graph state and
`tool_observations_history` in memory: a turn starts with the latter as the
former, and every tool step sets both to the same list. `passed`, `answered`,
`tried` and `toolRuns` are history variables. The default verification policy,
`tool_only_verification`, is assumed: with it the reconciliation after entity
extraction compares nothing. A failed check of a field already verified does not
take it back, which is what the code does for resolved fields.

### SessionTurns, HopLoop, CliRouting, UiRouting

The session is reduced to what the routers and the directive node pass on: the
guard flag, the stored recommendation, the turn counter, and (for
`start_conversation`) which conversation the rest belongs to. `Propose*` follow
the order of the checks in `plan_proposal_directive_node.py`: guard flag,
closing words, recommendation, plan. `run_turn` works on its own copy and every
save replaces the stored session; a fail leaves what was saved so far.

The two routers are variants of one loop and share `HopLoop`: its variables, the
condition to go on, and `HandoffArrives`, the property both are meant to have.
Their steps differ; those of the command line are named `Cli...`, so that the
theorems about both can stand side by side. In `CliRouting` the router's copy is
loaded once per message (`held`), so its `set_state` also puts back what that
copy had. In `UiRouting` the router loads before every save, in two steps that
other requests may come between.

### LayeredMemory

A save is a new version of an id. `get` moves a record up and refreshes the
cache; `retrieve` saves the first archived matches to the warm table again;
`archive_old` reads its candidates once, then copies and deletes one by one;
`archive` copies what `get` returns. The process may stop between any two
writes: the cache and the sweep are then gone, the table and the file remain.
Which records match a query or are old is a free choice. All records are in one
scope and one thread uses the store, as the agents do.

### Negotiation, ConversationPlan, PlanProposal, Conversation

The LLM's classification is any payload, known values or not; `Choice` lets only
allowed ones through, `MergeWithPriorState` applies the rules of
`_merge_with_prior_state`, and `DiscountFlags` raises flags from the stage. On a
rate limit the keyword rules answer (`FallbackClassification`). The plan node is
always handed an empty proposal, so the tree updates its builder knows do not
occur: only two markers are ever set, and a verified customer's plan stands at
`explain_dues` and no further. The directive's checks come in the code's order:
guard flag, closing words, recommendation, hand-over, plan. What reflection
rejects is planned again with the session as the first planning left it. The
draft of a proposal is whatever the LLM wrote. Every template that replaces an
answer is plain, except the one of a hand-over, which is that draft
(`FallbackText`).

A turn reaches planning directly or through tools; `CollectionTurn` has the
loops in between, and `verified` may become true there. Keys that are not in the
graph's state schema (`plan_signals`, `plan_mode`, `observed_tool` and others)
are dropped by LangGraph between nodes and therefore absent. Numbers, scores,
texts and the bounded timelines are left out.

### SharedFiles

What a file says is how many entries it has per session. A turn makes its
changes in the code's order (`AfterOp`); each change reads what it needs, opens
the file, which empties it, and writes it. A thread is delayed anywhere, and the
process may crash anywhere. `harmed` collects the files in which two changes or
a crash have met, `alone` says whether a thread has been met. `promises` stands
for every file of `append_runtime` and for the tool log, `users` for the helper's
files; messages and states are flushed from the process's memory.

### KeyEventMemory

A turn logs a question and an answer and reads the customer's memory, for the
customer known before the case is looked up (`Resolved`, `Hydrated`); a message may
name a case, one that there is not, or a customer, so that a session may have no
customer and be filed under its own id. An operator's message and a reset are
actions of their own, and so is a new conversation, which brings its customer. A
case is known by its customer, who has no other. A closing turn, and leaving the
command line, start a run of two reads, react, tool, react, reflect and response:
messages and state are read one after the other with the session's lock released
(`ReadMessages`, `ReadState`), and anything may come before and between them. A turn
is one step, so a read in the middle of another turn of the session is left out. The
default file knows some customers (`Seed`, with points of their own), and a row of
version 1 without a customer becomes a session's. A file is rewritten in two steps,
emptying and filling, so a crash leaves it absent, empty or torn; a start creates or
migrates. What the helper can find in a message are the message's `points` and
`words`. `was` keeps what the files said at first, `raised`, `mixed` and `switched`
are history variables, and `cut` says that a crash has met a run or a write. One
process and one run at a time: overlapping runs are `SharedFiles`'. Left out:
summaries, signals, channels, profiles, follow-up hints and time stamps; the seed
cues, which never change; the lists' lengths, which the helper's six points and a
small enough old file do not reach (`SizesAssumption`), and the recursion limit,
which a tool that always answers "updated" does not reach.

### MailTriage

One graph run per user message, over any choices of the planner and any opinion
of the reviewer. A tool works on one mail per step, so that a raising call or a
crash comes between any two. A save is one step; the torn outcome of its DELETE
and INSERT is among those of `Crash`. A text is the set of keyword lists it
matches. Left out: the conversation state row, which only feeds prompts; approvals
and notifications, whose notifier `main.py` leaves unset; the layered memory,
likewise; the intent node's answer, which decides nothing. The database's file
lock excludes a second process.

### GraphBuilder

The graph is the sequence of nodes, the sequence of edges and the mode. Ids of
nodes may repeat in a file, ids of edges are taken to differ. Validation counts
degrees, roots and leaves of the ids and marks cycle edges by the depth-first
search of `spec.py` (`Visit`, a recursive function over the set of visited
nodes). Edits, import and clear set off a delayed request; answers may come in
any order or not at all, and the local storage may refuse a copy. An import may
break off (`ImportBreaksOff`), and what is clicked on is what was last drawn
(`screen`). An export changes nothing in the editor: `Exportable` is its decision.
Positions, ports, labels and the generated code are left out.

## 3. Runs

| Run | Shows | States |
|---|---|---|
| `turn_verification` | verification is not invented, lost, repeated or skipped, in turns that respond, raise or are cut off | 3.2 million |
| `turn_length` | every turn ends by itself within the proved bound | 0.55 million |
| `cli_routing` | bounded hops, hand-overs arrive, every message ends | 5.8 thousand |
| `ui_concurrent` | one turn at a time, locks released, every request ends, with two requests | 0.68 million |
| `ui_sequential` | with one request at a time: hand-overs arrive, an offer is presented once, hops bounded, no turn forgotten | 0.12 million |
| `memory_layers` | what is cached is stored, `DurableIds` is implemented: no id is forgotten | 1.1 million |
| `conversation` | the negotiation, the plan and the answers of a session agree; turns end | 0.76 million |
| `session_files` | a file loses nothing unless two changes or a crash meet in it | 4.2 million |
| `graph_builder` | degree counting decides paths and trees, cycles are cut, the editor's issues are current | 3.4 million |
| `mail_triage` | rows refer to stored mail, sends are accounted for, a refusal sends nothing, turns end | 0.70 million |
| `key_events` | the helper's two files tell one story, old memory is kept, points are the customer's own unless a conversation is taken over, runs end | 1.7 million |

A run checks what proofs do not reach, and the proved properties that say most.
Type invariants and a few others that are proved (`ToolRunsBounded`,
`VerifiedSticky`, `QueueOnlyForMissingFields`, `HardCapNotReached`,
`NeverForgotten`, `MoveCopiesFirst`) are left to the proofs.

One more run shows where the code does something other than its documentation
says. `key_events_customer`: the helper "extracts key events from conversation
content", but looks for the customer's part in messages of role `user`, while
`run_turn` logs them as `customer` (or `admin`). Nothing a customer says becomes
a key point, so the outcome never becomes successful by "payment intent".

What else was met while modelling, in words. The models contain all of it; the
properties above are stated so that they do not deny it:

* `src/agents/collection_agent/README.md:89` says the graph "always ends at
  response". With `max_steps = 8` and LangGraph's default recursion limit of 25
  (`agent.py:959`) a turn with repeated tool calls is cut off; `TurnLengthBounded`
  is the bound the graph would keep by itself.
* `README.md:125` there says session memory survives across turns. The command
  line's router saves, after a specialist's hop or at the soft cap, the copy from
  before the first hop (`main.py:259`).
* The guard's turn need not return the guardrail text: it may be classed as
  off-topic, or planned again after the flag was cleared.
* In the server a hop to the specialist is not counted by the soft cap, and the
  loop may run out without an answer. A conversation started while a turn of the
  session is under way is overwritten by that turn (`ui/server.py:333`).
* Dues may be said to an unverified customer on one path. A proposal to hand over
  that fails its checks goes on, with a warning that "response node will guard
  this" (`plan_proposal_directive_node.py:879`); but when the LLM gives no usable
  rendering, the response node answers with the draft as it is
  (`collection_response_node.py:664`). `NoDuesBeforeVerification` names this
  path and excludes every other.
* A file without nodes or edges that is imported changes the mode, or the mode and
  the nodes, before the importer passes over the error (`app.js:220`, `235`,
  `1164`): nothing is drawn, validated or stored until the next edit. Nodes with
  one id are one node to the validation: such a file is exported as a chain.
* `archive` copies the cached version of a record and deletes a newer one
  (`src/memory/types/base.py:156`).
* An operator's message that changes the case keeps `identity_verified` and a
  stored recommendation (`agent.py:1370`).
* A history whose last entry is `offer_eligibility` makes the directive node
  return a proposal it never built, and the turn raises.
* `email_send` asks for no approval; and "dont send" is read as an approval since
  it contains "send" (`nodes/routers.py` of mailmind).
* What a customer has raised may be filed under another: when a case or a customer
  is named in a conversation that has begun, and when a conversation is started
  between the helper's two reads (`ui/server.py:760-761`). A conversation opened
  with a case that there is not has no customer, and its points go to a record
  named after the session (`update_key_event_memory_tool.py:71`). `RecordsAreOwn`
  leaves out those who took over messages (`mixed`) and covers every other record.
* Two turns that overlap on one file may lose rows, and a crash in a rewrite may
  empty it. A torn file of the helper makes every later start raise.

## 4. Bounds

* `turn_verification`: both fields required, a right and a wrong value, so that
  a field can fail, succeed, or be locked (`MaxFailed = 1`, and `Init` lets
  earlier sessions have used attempts). `MaxSteps = 3` lets both fields be
  checked and one more decision follow; two turns, because what a dying turn
  leaves is read by the next one; `HistoryCap = 3` is exceeded by four tool
  runs; `NodeBudget = 17` cuts turns off in both loops.
* `turn_length`: `NodeBudget = 40` is above `2*3 + 4*3 + 11 = 29`, so that the
  graph's own ending is what is checked; `MaxRetry = 3` gives two retries.
* `cli_routing`: `SoftCap = 3` allows hops of every kind before the guard and
  `HardCap = 6` could be reached if the soft cap failed; three messages, because
  a guard flag or an offer may outlive its message. The code clamps both caps to
  `HardCap >= SoftCap >= 1` (`main.py:420-421`, `434-435`); under that the code
  after the loop is not reached (`HardCapNotReached`) and is not an action.
* `ui_concurrent`: `SoftCap = 1`, `HardCap = 2`, no reflect retry (it does not
  touch the lock), one `start_conversation`. `ui_sequential` has the larger caps
  and the retry.
* `memory_layers`: three ids against a cache of two, so that eviction happens;
  two versions of an id; three archive lines, so that an id is archived twice.

* `conversation` has no bound on the number of messages: the state is finite.
  Four payloads reach every stage of a discount, hardship and each way of
  paying, one of them with unknown values; `MaxReflect = 2` allows one retry,
  after which planning has changed the session once.
* `session_files`: two sessions are enough for two changes to meet in each file,
  and one entry per session and file tells a lost change from a kept one;
  symmetric in the sessions. The theorems have no bound.
* `graph_builder`: three nodes have paths, trees, forks, joins and cycles of one,
  two and three edges; a first file of one edge (three nodes, or two of one id) and
  three edits reach them all; a file of one node that breaks off before or after
  the first edit leaves edges to unknown nodes; two requests under way can
  overtake each other.
* `mail_triage`: two mails with `FetchLimit = ListLimit = 1`, so that a listing
  misses one; `StepLimit = 2` and `NodeLimit = 11` are both reached; one fault and
  two turns, because what a fault leaves is found by the next turn.
* `key_events`: one conversation at a time, two customers, one of them known to
  the default file, and a case that there is not; an old file with two rows of a
  customer and one of nobody. `MaxTurns = 3` counts turns, operators' messages,
  resets and new conversations: enough for a conversation, a closing turn and a
  change between the reads of its run; windows of 3 and 2 messages are exceeded
  by two turns, a history of 3 by several runs. One message raises two points,
  whose cues are counted in either order; two starts, so that a crash is survived
  once.

`MaxTurns`, `MaxMessages`, `MaxStarts`, `MaxVersion`, `MaxCold`, `MaxEntries`,
`MaxEdits`, `MaxRepeating`, `MaxLoaded`, `MaxBroken`, `LastImport`,
`LastBreakOff`, `MaxAsked`, `MaxMail` and `MaxFaults` are
bounds of the exploration and not of the code. Deadlock is not checked where they
stop a run.

## 5. Fairness

* `CollectionTurn!FairSpec`: the thread that holds the session's lock keeps
  running the graph (`graph.invoke` is a synchronous call). Nothing makes a
  customer write again: `StartTurn` has no fairness.
* `CliRouting` and `UiRouting`: each thread goes on with the message it has
  (weak fairness per caller). Weak fairness is enough for a thread that waits
  for the lock because the number of messages is bounded in the run; nothing is
  claimed about unbounded contention. `SaveProgress` and the arrival of messages
  have no fairness.
* `Conversation!Spec` and `MailTriage!FairSpec`: the graph is a synchronous call,
  so a turn under way goes on (`TurnStep`). Messages, operators, arriving mail and
  crashes have no fairness.
* `KeyEventMemory!FairSpec`: a run of the helper goes on (`Helper`); the router
  waits for it. A process that crashes ends the run too.
* `SharedFiles` and `GraphBuilder` claim safety only and state none.

## 6. Proofs

Checked by `tlapm`, for all values of the constants that satisfy the named
assumptions of each module. An invariant in a run is seldom inductive; the last
column of the table names what was added, and the text says why.

| Theorem | Of | Further assumption | Inductive invariant |
|---|---|---|---|
| `TypeCorrect` | `CollectionTurn` | | `TypeOK` itself |
| `ToolRunsAreBounded`, `TurnsAreBounded` | `CollectionTurn` | | `CountInv` |
| `VerifiedIsBacked`, `SuccessIsNotLost` | `CollectionTurn` | | `SuccessInv` |
| `VerifiedIsSticky` | `CollectionTurn` | | action by action |
| `QueueIsForMissingFields` | `CollectionTurn` | | `QueueInv` |
| `TurnsRunDown` | `CollectionTurn` | | from `CountInv` |
| `ChecksAreNotRepeated` | `CollectionTurn` | `MaxSteps <= HistoryCap` | `RepeatInv` |
| `EvidenceIsChecked` | `CollectionTurn` | `MaxSteps >= 2` | `EvidenceInv` |
| `CliTypeCorrect` | `CliRouting` | | `CliTypeOK` itself |
| `TurnsPerMessageAreBounded`, `HardCapIsNotReached` | `CliRouting` | | `CapInv` |
| `CliHandoffsArrive` | `CliRouting` | one caller | `HandoffInv` |
| `MessagesRunDown` | `CliRouting` | | from `CapInv` |
| `TypeCorrect` | `UiRouting` | | `TypeOK` with `LockInv` |
| `TurnsDoNotOverlap` | `UiRouting` | | `LockInv` |
| `HandoffsArrive`, `OffersArePresentedOnce`, `HopsAreBounded`, `TurnsAreKept` | `UiRouting` | one request at a time | `SingleInv` |
| `RequestsRunDown` | `UiRouting` | | `DueInv` with `TypeOK` |
| `TypeCorrect`, `NothingIsForgotten`, `CopiesComeFirst`, `CacheIsBacked` | `LayeredMemory` | | `StoreInv` |
| `StoreIsDurable` | `LayeredMemory` | | refinement, from `StoreInv` |
| `ConversationTyped`, `DiscountStoryHolds`, `DuesAreGuarded`, `SpecialistIsGuarded`, `PlanIsConsistent` | `Conversation` | | `Inv`, their conjunction with `ProposalInv` |
| `TurnsForgetNothing`, `PlanMovesForward`, `TurnsRunDown` | `Conversation` | | from `Inv`, action by action |
| `FilesTyped` | `SharedFiles` | | `TypeInv` |
| `FilesAreKept` | `SharedFiles` | | `FilesInv` with `TypeInv` |
| `TypeCorrect` | `MailTriage` | | `TypeOK` itself |
| `CopiesAreKept` | `MailTriage` | | `StoreInv` |
| `ClassifierIsComplete` | `MailTriage` | | `CatchUpInv` |
| `LogIsTrue` | `MailTriage` | | `SendInv` |
| `AnswersAreRecorded` | `MailTriage` | | `HistoryInv` |
| `RefusalIsHeard` | `MailTriage` | | `RefusalInv` |
| `TurnsRunDown` | `MailTriage` | | `HopsInv` |
| `TypeCorrect` | `KeyEventMemory` | | `BaseInv`: `TypeOK` with `BootInv` |
| `PointsAreKept` | `KeyEventMemory` | | from `BaseInv`, action by action |
| `OldMemoryIsKept` | `KeyEventMemory` | | `OldInv` |
| `ContextIsOwn` | `KeyEventMemory` | | `ContextInv` |
| `RecordsAreKeptApart` | `KeyEventMemory` | | `OwnInv` |
| `FilesAgree` | `KeyEventMemory` | | `TallyInv`, `NamedInv`, `TodoInv` |
| `RunsRunDown` | `KeyEventMemory` | | `SeenInv` |
| `EditorIsInStep` | `GraphBuilder` | | `EditorInv` |

The turn graph:

* `TypeCorrect`: the part with content is that `Remember` keeps the history
  within its cap (`NewestProperties`, `RememberProperties`) and that an attempt
  is only added below the lock.
* `CountInv`: a tool is paid for by a step before it runs and only runs while
  `steps <= MaxSteps` (`ToolInv`). `LengthInv` says for each node how far the
  turn can have come: two nodes per decision, at most one decision beyond the
  limit in each react node, four nodes per reflect retry. The bound alone is not
  inductive since nothing in it says what is left to do at each node.
* `SuccessInv`: every success in the history is real, and one that is not yet
  applied is the *last* entry of the history while the turn stands at no
  decision. So cutting the history from its old end cannot drop it, and the next
  visit of `verification_react` finds it. `AppliedProperties` is the lemma that
  applying the history loses and invents nothing.
* `QueueInv`: one check at most waits, and while it waits the tool node is
  running a verification tool, which leads back to the node that empties the
  queue.
* `RepeatInv`: `verification_react` looks for repetitions in the history, so
  every check of this turn must still be in it: among its last `toolRuns`
  entries (`RecentInv`), of which there are at most `MaxSteps`. Hence the
  assumption, which the code's 40 entries and at most 8 steps satisfy. With a
  longer turn than history the statement is false.
* `EvidenceInv`: what the message gave and nobody checked is in the decision or
  in the queue, and it gets there in the first two decisions (`UncheckedInv`).
  With a single decision per turn the second field would be left.

The routers:

* `CapInv` relates the turns of a message to its hops: they are equal, and the
  guard is one more. `HardCapNotReached` follows only because the soft cap is
  tested first on every path to the next hop.
* `HandoffInv` says where the flag or the recommendation is while the turn waits
  for the lock: in the stored session. A second thread on the session would take
  it away, so one caller is assumed, as on the command line.
* `SingleInv` does the same for the server, under `OneAtATime`: what the turn and
  the router work on is what is stored (`FreshInv`, the part without which nothing
  else is inductive, since every save replaces the whole session); what was left
  for a turn is there until it plans (`LeftInv`); an offer is stored or proposed,
  never both, and not yet presented (`OfferInv`); hops beyond the soft cap have
  been paid for (`HopInv`). The assumption is on the constants, the one
  `ui_sequential` makes; with two requests at once all four properties are false.
* `LockInv` is the mutual exclusion itself, with the type of the lock: who is
  inside `run_turn` is who the lock names. Any number of requests is allowed.

The store: `StoreInv` joins the three properties of the layers with the types.
None is inductive alone: a cached record that is moved must be stored for the
copy to exist, and a deletion in the middle of a sweep must find its copy.
`StoreIsDurable` (`Spec => DurableSpec`) maps the ids in the table and the file
to `known` of `DurableIds`; a save is its `Learn`, everything else a stutter. The
run `memory_layers` checks the same.

The conversation, for any set of payloads, phrases and tools:

* `Inv` joins the properties with `ProposalInv`: what a turn under way still has
  to render (a hand-over, an explanation of dues) was allowed when it was
  proposed, and is still allowed, since within a turn nothing is taken back. An
  answer is rendered several steps after the check that allows it, so the
  properties are not inductive without it.
* `MergeFacts` and `RaisedFlags` say of the negotiation's operators that they
  keep the flags' story whatever the payload; `UpdatedPlanFacts` says of the
  plan's operators that the current step has its predecessors done and that a
  marker for verification needs a verified customer.
* `PlanMovesForward` rests on `FromIsClosed`, that four hops reach all there is
  to reach from each of the six steps, and on `PlanConsistent`: the marker of a
  verification is taken back for a customer who is not verified, but such a marker
  is never done.

The files, for any number of sessions:

* `TypeInv` adds to the types that there is room for the entries a turn will
  still add, that rows never outnumber what was appended, and that a thread's
  operation and stage fit each other.
* `FilesInv` has six parts: who meets whom is known (`MeetingsKnown`,
  `MeetingsHarm`), the snapshot a thread is about to write agrees with what the
  process holds (`SnapshotAgrees`, `RowsAgree`), an opened file is empty, and a
  file nobody has open says what it should (`FileAgrees`). `Kept` speaks of the
  file after the write; the invariant has to follow the content through the
  thread that carries it.

The mail agent, for any mails, texts, tools, limits and faults:

* `StoreInv`: while a fetch runs, what it has still to store is not in the store,
  so that no copy is replaced that a row refers to; what a classifier has still to
  classify is there. `CatchUpInv` says of a classifier call under way that the
  newest mails are classified or still on its list.
* `SendInv` counts: the mails sent without a row in the log are no more than the
  faults, and one more between a send and its row (`Unlogged` is the set of such
  sends; the lemma `SendOne` adds one, a row takes one away).
* `HistoryInv` keeps the history ordered by turn, with no row of a turn before the
  turn writes them. `RefusalInv` names the nodes a refusal can pass; neither
  planner nor tools are among them.

The proofs have corrected the model in one place: the routing of an approval reply
was a `CASE` with overlapping guards, whose value TLA+ leaves open (TLC takes the
first). It is the chain of conditions of the code instead.

The memory helper, for any sessions, customers, messages, old files and limits,
and any number of turns, runs, starts and crashes:

* `BootInv` says what each step of the start has found out about the files: none
  is absent once created, none torn or of version 1 once migrated, and the file
  being written is empty on disk. With it the types show that only whole contents
  of version 2 are written.
* The files are rewritten in two steps, so the invariants speak of `Settled` and
  `SettledGlobal`, what a file says or will say when the write under way is done.
  `SettledSteps` is the lemma that only four steps change them (two migrations, a
  cue, a record) and everything else, a crash apart, leaves them alone.
* `OldInv` and `ContextInv` follow what was there at first and what a turn was given
  through those four steps. `ContextInv` speaks of the file and of the default one,
  which a turn reads while the file is being rewritten.
* `OwnInv` says of a session's messages that their points were raised while its
  owner was the active one, the customer or, without one, the session itself
  (`OwnerOf`), unless he is in `mixed`. A run carries the messages of the owner it
  read them of until it has read the state, then those of the record they are
  filed in; a change between the reads has put the latter in `mixed`.
* `FilesAgree` compares one file, written cue by cue, with the other, written
  after it. `NamedInv` says how far the cues are ahead (`Ahead`: those of the run
  under way that have been counted), `TodoInv` that what is to be counted was
  extracted, and `TallyInv` that the counters are sums. The counting is done on
  sets: `NamingAppend` and `NamingCut` say what one more entry, and dropping the
  oldest, do to the number of entries that name a point; `TallyCounts` what one
  more count does to a sum.
* `SizesAssumption` says that the points and the migrated events are few enough
  for the lists' lengths not to cut them; the code has six points. A larger old
  file would lose events when migrated (`repository.py:182`,
  `migrated["unsuccessful_cues"] = unsuccessful_cues[-25:]`), and what
  `OldMemoryIsKept` says is not true of it.

The editor, for any nodes, imported files and number of requests: `EditorInv`
says that while the timer does not run either the newest request is still under
way and is of the graph that the editor holds, or every request under way has been
overtaken and the issues on the screen are of this graph, unless the last answer
came late or not at all. An import that breaks off counts as a newer request that
never came. The invariant speaks of `Issues(graph)` as a value and the proof
expands no operator of the validation, so `EditorIsInStep` holds for any.

What the liveness properties rest on is proved too, in the form of a rank: every
step of a turn lowers the rank of that turn, and nothing another process does
raises it while the turn is under way. Each step that a fair thread takes is then
one fewer until the turn ends; what is left to TLC is that a step is possible.

| Theorem | Rank | For |
|---|---|---|
| `CollectionTurn_proofs!TurnsRunDown` | nodes left of `LongestTurn` | `TurnEndsByItself` |
| `Routing_proofs!MessagesRunDown` | turns left under the soft cap, then stages of the hop | `MessageEnds` |
| `Routing_proofs!RequestsRunDown` | turns left under the hard cap, then stages of the hop | `RequestEnds` |
| `Conversation_proofs!TurnsRunDown` | four nodes per retry left, and the nodes ahead | `TurnEnds` |
| `MailTriage_proofs!TurnsRunDown` | nodes left under the limit, then what the tool still has to do | `TurnEnds` |
| `KeyEventMemory_proofs!RunsRunDown` | writes still to be begun and ended, and the nodes after them | `RunsEnd` |

`RequestsRunDown` is about any number of overlapping requests: they overwrite
each other's sessions, but never a thread's own hop counter, so none can keep
another going round. No theorem keeps the recursion limit out of a turn's reach:
with the defaults it is not (section 3).

Left to TLC:

* what needs fairness (`TurnEndsByItself`, `MessageEnds`, `RequestEnds`,
  `TurnEnds`, `RunsEnd`): liveness and `ENABLED` are out of the prover's reach;
* `ExportedShape` and `CyclesAreCut`: what the depth-first search marks on every
  graph is an induction over the graph, which the prover's library cannot be
  instantiated for. `graph_builder` checks them on all graphs it reaches.

## 7. Not modelled

* Texts, prompts, scores, amounts and time: the time limits of both routers are
  commented out in the code, and arithmetic on offers decides no state here.
* Two processes over one directory: each keeps its own copy of messages and
  states and they overwrite each other whenever both write, so nothing is
  promised.
* The sleeping-task queue and the reflection tasks, which no agent runs; the
  memory router and its policies, pure functions whose choice is free in
  `LayeredMemory`.
* Evaluation and the read-only services of the collection agent; the simple
  conversation agent (one LLM node without a state); the placeholders; schemas
  and configuration.
* LLM adapters, Gmail, FAISS, Twilio, audio and the other endpoints: I/O whose
  answers and failures are free choices of the models.

Hazards the models do not reach, or whose bad outcome is real and therefore no
property: requests of the server share `trace_sink` and `last_trace`, which only
people read (`ui/server.py:507`); `get_record` answers with the oldest archived
line of an id (`src/memory/backends/archive_backend.py:34`), and `archive` may
keep an older version than it deletes; `pop_next` truncates the queue before it
writes the rest back (`src/memory/tasks/sleeping_queue.py:41`), though no agent
runs the queue; the cycle search recurses once per node of a path
(`src/graph_builder/spec.py:479`); `plan_signals` is lost between nodes.

What could be added: versions in the specification of the memory store.
