-------------------------- MODULE KeyEventMemory --------------------------
(***************************************************************************)
(* The memory helper: after a closing turn, and when the command line is   *)
(* left, the router reads the session's messages and then its state, and a *)
(* small graph (react, tool, react, reflect, response) extracts key points *)
(* from them and rewrites two files: first a cue of each point, for all    *)
(* customers, then the record of the customer.  Every turn of the          *)
(* collection agent reads them.  One process and one helper run at a time  *)
(* (SharedFiles has the ones that overlap); a turn is one step.  The       *)
(* process may die at any point, and starts by creating or migrating the   *)
(* files.  Texts and time stamps are left out: what the helper can find in *)
(* a message is the message's points and words.  The seed cues never       *)
(* change.  A case is known by its customer, who has no other.             *)
(***************************************************************************)
EXTENDS Naturals, Sequences, FiniteSets

CONSTANTS
    Sessions, None,
    Users,          \* customers and any other ids a message may give for one
    Customers,      \* those who have a case
    DefaultUser,    \* the customer of COLL-1001, the case of a new session
    Unknown,        \* a case that there is not
    SeedUsers,      \* the customers the default file knows
    SeedPoints,     \* and what it knows of each
    CustomerSays,   \* messages, [role, points, words]: what the helper looks
    AgentSays,      \* for in the words of that side, and their tone
    Mentions,       \* the ids in a message, [case, customer], or None
    OldEvents,      \* event types of version 1
    OldPoints,      \* key events of version 1
    OldGlobals,     \* the counts of events a version 1 file may have ...
    OldRows,        \* ... and its sessions' rows, <<[user, points], ...>>
    PointWindow, OutcomeWindow, HistoryLimit,  \* 30, 20 and 30 in the code
    MaxTurns, MaxStarts   \* bounds: MaxTurns also on operators' messages,
                          \* resets and new conversations

Points == UNION {m.points : m \in CustomerSays \cup AgentSays}
Filed  == {"successful", "unsuccessful"}
Cues   == Points \cup OldEvents
Keys   == Users \cup Sessions     \* a session is SESSION::<session_id>

(* Cues and old events are keys of one dictionary, as are the files of the  *)
(* outcomes and the old counters: conversation_outcome::... is no event of  *)
(* version 1, the key events of version 1 are event types, where a point is *)
(* a sentence, and the sentences of the default file are others.            *)
ASSUME UsersAssumption ==
    /\ None \notin Users \cup Points /\ Unknown \notin Users \cup {None}
    /\ Users \cap Sessions = {} /\ Points \cap OldEvents = {}
    /\ Filed \cap OldEvents = {} /\ Points \cap OldPoints = {}
    /\ DefaultUser \in Customers /\ Customers \subseteq Users
    /\ Mentions \subseteq [case : Customers \cup {Unknown, None},
                           customer : Users \cup {None}]
ASSUME SeedsAssumption ==
    /\ SeedUsers \subseteq Users
    /\ \A u \in SeedUsers : SeedPoints[u] \cap Points = {}
ASSUME LimitsAssumption ==
    /\ PointWindow \in Nat \ {0} /\ OutcomeWindow \in Nat \ {0}
    /\ HistoryLimit \in Nat \ {0} /\ MaxTurns \in Nat /\ MaxStarts \in Nat
ASSUME OldAssumption ==
    /\ OldGlobals \subseteq [OldEvents -> Nat]
    /\ OldRows \subseteq Seq([user : Keys, points : SUBSET OldPoints])

(* The lists are cut: a history's entry at 12 points, a record at 20, the   *)
(* migrated cues at 25 with the seed, all cues at 40, the key events of a   *)
(* migrated row at 8.  The helper knows six points, the seed two a record;  *)
(* a file of version 1 is taken to be small enough.                         *)
ASSUME SizesAssumption ==
    /\ IsFiniteSet(Points) /\ Cardinality(Points) <= 12
    /\ IsFiniteSet(OldEvents) /\ Cardinality(OldEvents) <= 24
    /\ \A rows \in OldRows : \A i \in DOMAIN rows :
          IsFiniteSet(rows[i].points) /\ Cardinality(rows[i].points) <= 8
    /\ \A u \in SeedUsers :
          IsFiniteSet(SeedPoints[u]) /\ Cardinality(SeedPoints[u]) <= 8

VARIABLES
    at,         \* "down", what __post_init__ does next, or "serving"
    starts,     \* how often the process was started
    globalFile, \* global_key_event_memory.json: absent, emptied by being
                \* opened, torn by a crash, or text of version 1 or 2
    userFile,   \* user_key_event_memory.json, likewise
    writing,    \* the write_text under way
    said,       \* per session: conversation messages
    user,       \* per session: active_user_id
    case,       \* per session: active_case_id
    context,    \* per session: user_key_event_memory, and whose it is
    switched,   \* history: sessions whose latest step changed the customer
    turns,      \* how many turns and changes from outside there were
    run,        \* the helper's run
    was,        \* history: the version 1 files there were
    cut,        \* history: a crash has met a run or a write
    raised,     \* history: points raised while a customer was active, or
                \* while a session had none
    mixed       \* history: customers and sessions that took over messages

files == <<globalFile, userFile, writing>>
talk  == <<said, user, case, context, switched, turns, raised, mixed>>
vars  == <<at, starts, files, talk, run, was, cut>>

-----------------------------------------------------------------------------
LastOf(n, s) == IF Len(s) <= n THEN s ELSE SubSeq(s, Len(s) - n + 1, Len(s))

NoRecord == [points |-> {}, history |-> <<>>]
(* The one entry of a seed names a sentence of its own, and no point.       *)
OneEntry == <<[points |-> {}, outcome |-> "neutral"]>>
Seed(u)  == [points |-> SeedPoints[u], history |-> OneEntry]

DefaultGlobal == [form |-> "v2",
                  cues |-> [o \in Filed |-> [c \in Cues |-> 0]],
                  counters |-> [k \in Filed \cup OldEvents |-> 0]]
DefaultUsers  == [form |-> "v2",
                  known |-> [k \in Keys |-> IF k \in SeedUsers THEN Seed(k)
                                            ELSE NoRecord]]

(* _read_json: an absent or empty file reads as the default. *)
Read(file, default) == IF file.form \in {"absent", "empty"} THEN default ELSE file
GlobalNow == Read(globalFile, DefaultGlobal)
UsersNow  == Read(userFile, DefaultUsers)

Idle == [file |-> "none"]

(* path.write_text empties the file first. *)
Begin(file, content) ==
    /\ writing = Idle
    /\ writing' = [file |-> file, content |-> content]
    /\ globalFile' = IF file = "global" THEN [form |-> "empty"] ELSE globalFile
    /\ userFile' = IF file = "user" THEN [form |-> "empty"] ELSE userFile

Finish ==
    /\ writing # Idle
    /\ globalFile' = IF writing.file = "global" THEN writing.content ELSE globalFile
    /\ userFile' = IF writing.file = "user" THEN writing.content ELSE userFile
    /\ writing' = Idle
    /\ UNCHANGED <<at, starts, talk, run, was, cut>>

(* Mutant of MigratedGlobal: the counters start from nothing. *)
MigratedUncounted(old) == DefaultGlobal

MigratedGlobal(old) ==
    [DefaultGlobal EXCEPT
        !.cues["unsuccessful"] = [c \in Cues |->
            IF c \in OldEvents THEN old.events[c] ELSE 0],
        !.counters = [k \in Filed \cup OldEvents |->
            IF k \in OldEvents THEN old.events[k] ELSE 0]]

(* The rows were kept by session: the last one of a customer replaces the   *)
(* others, and the seed; one without a customer is of SESSION::<session_id>. *)
LastRow(rows, k) ==
    CHOOSE i \in DOMAIN rows :
        rows[i].user = k /\ \A j \in DOMAIN rows : rows[j].user = k => j <= i

MigratedUsers(old) ==
    LET record(row) ==
          [points |-> row.points,
           history |-> <<[points |-> row.points, outcome |-> "neutral"]>>]
    IN  [form |-> "v2",
         known |-> [k \in Keys |->
             IF \E i \in DOMAIN old.rows : old.rows[i].user = k
             THEN record(old.rows[LastRow(old.rows, k)])
             ELSE DefaultUsers.known[k]]]

Init ==
    /\ at = "down" /\ starts = 0 /\ writing = Idle
    /\ \/ /\ globalFile = [form |-> "absent"] /\ userFile = [form |-> "absent"]
       \/ /\ \E events \in OldGlobals : globalFile = [form |-> "v1", events |-> events]
          /\ \E rows \in OldRows : userFile = [form |-> "v1", rows |-> rows]
    /\ was = [global |-> globalFile, users |-> userFile]
    /\ said = [s \in Sessions |-> <<>>]
    /\ user = [s \in Sessions |-> None] /\ case = [s \in Sessions |-> None]
    /\ context = [s \in Sessions |-> [user |-> None, points |-> {}]]
    /\ switched = {} /\ turns = 0
    /\ run = [node |-> "none"] /\ cut = FALSE
    /\ raised = [k \in Keys |-> {}] /\ mixed = {}

-----------------------------------------------------------------------------
(* CollectionMemoryRepository.__post_init__, when a process is started.     *)
Start ==
    /\ at = "down" /\ starts < MaxStarts
    /\ at' = "create_global" /\ starts' = starts + 1
    /\ UNCHANGED <<files, talk, run, was, cut>>

(* One step of the start: write the file, or leave it alone. *)
BootStep(here, next, file, due, content) ==
    /\ at = here /\ writing = Idle
    /\ IF due THEN Begin(file, content) ELSE UNCHANGED files
    /\ at' = next
    /\ UNCHANGED <<starts, talk, run, was, cut>>

CreateGlobal ==
    BootStep("create_global", "create_user", "global",
             globalFile.form = "absent", DefaultGlobal)
CreateUser ==
    BootStep("create_user", "migrate_global", "user",
             userFile.form = "absent", DefaultUsers)
MigrateGlobal ==
    /\ globalFile.form # "torn"
    /\ BootStep("migrate_global", "migrate_user", "global",
                GlobalNow.form = "v1", MigratedGlobal(globalFile))
MigrateUser ==
    /\ userFile.form # "torn"
    /\ BootStep("migrate_user", "serving", "user",
                UsersNow.form = "v1", MigratedUsers(userFile))

(* json.loads raises, and so does every later start. *)
StartFails ==
    /\ writing = Idle
    /\ \/ (at = "migrate_global" /\ globalFile.form = "torn")
       \/ (at = "migrate_user" /\ userFile.form = "torn")
    /\ at' = "down"
    /\ UNCHANGED <<starts, files, talk, run, was, cut>>

-----------------------------------------------------------------------------
(* run_turn *)
Ready == at = "serving" /\ (writing = Idle \/ run.node # "none")
Another == turns < MaxTurns /\ turns' = turns + 1
NoRun == [node |-> "none"]

(* A run before it has read anything; owner is a history variable.          *)
Request(s, reason) ==
    [node |-> "messages", session |-> s, reason |-> reason, owner |-> s, key |-> s,
     messages |-> <<>>, points |-> {}, todo |-> {}, outcome |-> "neutral",
     observed |-> FALSE]

(* The case the message names, the session's, or COLL-1001. *)
CaseNamed(s, m) ==
    IF m.case # None THEN m.case
    ELSE IF case[s] # None THEN case[s] ELSE DefaultUser

(* Mutant of Resolved: the customer whose context there already is. *)
RememberedUser(s, m) ==
    IF context[s].user # None THEN context[s].user
    ELSE IF m.customer # None THEN m.customer
    ELSE IF CaseNamed(s, m) \in Customers THEN CaseNamed(s, m) ELSE None

(* _resolve_user_id: there may be nobody. *)
Resolved(s, m) ==
    IF user[s] # None THEN user[s]
    ELSE IF m.customer # None THEN m.customer
    ELSE IF CaseNamed(s, m) \in Customers THEN CaseNamed(s, m) ELSE None

(* _hydrate_case_context: a case has the last word on the customer, one     *)
(* that there is not gives way to the customer's own, if there is one.      *)
Hydrated(c, u) ==
    IF c \in Customers THEN [user |-> c, case |-> c]
    ELSE [user |-> u, case |-> IF u \in Customers THEN u ELSE c]

MemoryOf(u) ==
    [user |-> u, points |-> IF u = None THEN {} ELSE UsersNow.known[u].points]

(* The points of a message: the tool knows the roles user and agent, the    *)
(* collection agent logs what it is told with the sender as role.           *)
KeyPoints(m) == IF m.role \in {"user", "agent"} THEN m.points ELSE {}

(* Whose a session's conversation is. *)
OwnerOf(u, s) == IF u # None THEN u ELSE s

TakesOver(s, u) ==
    mixed' = IF said[s] = <<>> \/ OwnerOf(u, s) = OwnerOf(user[s], s) THEN mixed
             ELSE mixed \cup {OwnerOf(u, s)}

(* The context is read for the customer known before the case is looked up. *)
Turn(s, question, answer, mention, closing) ==
    LET known == Resolved(s, mention)
        now   == Hydrated(CaseNamed(s, mention), known)
    IN
    /\ Ready /\ Another
    /\ closing => run = NoRun
    /\ said' = [said EXCEPT ![s] = @ \o <<question, answer>>]
    /\ user' = [user EXCEPT ![s] = now.user]
    /\ case' = [case EXCEPT ![s] = now.case]
    /\ context' = [context EXCEPT ![s] = MemoryOf(known)]
    /\ switched' = IF now.user = user[s] THEN switched \ {s} ELSE switched \cup {s}
    /\ raised' = [raised EXCEPT ![OwnerOf(now.user, s)] =
                     @ \cup KeyPoints(question) \cup KeyPoints(answer)]
    /\ TakesOver(s, now.user)
    /\ run' = IF closing THEN Request(s, "conversation_termination") ELSE run
    /\ UNCHANGED <<at, starts, files, was, cut>>

(* _maybe_handle_admin_message: nothing is logged and no memory is read; a  *)
(* customer named without a case brings his own.                            *)
AdminMessage(s, mention) ==
    LET named == IF mention.customer # None THEN mention.customer ELSE user[s]
        now   == Hydrated(IF mention.case = None /\ named \in Customers THEN named
                          ELSE CaseNamed(s, mention), named)
    IN
    /\ Ready /\ Another
    /\ user' = [user EXCEPT ![s] = now.user]
    /\ case' = [case EXCEPT ![s] = now.case]
    /\ switched' = IF now.user = user[s] THEN switched ELSE switched \cup {s}
    /\ TakesOver(s, now.user)
    /\ UNCHANGED <<at, starts, files, said, context, run, was, cut, raised>>

(* reset_conversation_session: messages and state are dropped. *)
Reset(s, owner) ==
    /\ Ready /\ Another
    /\ said' = [said EXCEPT ![s] = <<>>]
    /\ user' = [user EXCEPT ![s] = owner] /\ case' = [case EXCEPT ![s] = owner]
    /\ context' = [context EXCEPT ![s] = [user |-> None, points |-> {}]]
    /\ UNCHANGED <<at, starts, files, run, was, cut, raised, mixed>>

ResetConversation(s) == Reset(s, None) /\ switched' = switched \ {s}

(* start_conversation puts the customer's case in.                          *)
StartConversation(s, u) == Reset(s, u) /\ switched' = switched \cup {s}

(* "exit" or "quit" at the command line runs the helper and ends the        *)
(* process, whether or not a closing turn has run it for the same messages. *)
Exit(s) ==
    /\ Ready /\ run = NoRun
    /\ at' = "leaving"
    /\ run' = Request(s, "interactive_exit")
    /\ UNCHANGED <<talk, starts, files, was, cut>>

-----------------------------------------------------------------------------
(* _build_memory_helper_payload, with the session's lock released: another  *)
(* turn, an operator or a new conversation may come between the two reads.  *)
ReadMessages ==
    /\ run.node = "messages"
    /\ run' = [run EXCEPT !.node = "state", !.messages = said[run.session],
                          !.owner = OwnerOf(user[run.session], run.session)]
    /\ UNCHANGED <<at, starts, files, talk, was, cut>>

(* Mutant of FiledFor: the customer whose context the turn was given. *)
FiledForContext(s) == IF context[s].user # None THEN context[s].user ELSE s

(* The customer of the state, or of its case, or the session itself. *)
FiledFor(s) ==
    IF user[s] # None THEN user[s] ELSE IF case[s] \in Customers THEN case[s] ELSE s

ReadState ==
    LET s == run.session IN
    /\ run.node = "state"
    /\ run' = [run EXCEPT !.node = "react", !.key = FiledFor(s)]
    /\ mixed' = IF run.owner = OwnerOf(user[s], s) THEN mixed
                ELSE mixed \cup {OwnerOf(user[s], s)}
    /\ UNCHANGED <<at, starts, files, was, cut>>
    /\ UNCHANGED <<said, user, case, context, switched, turns, raised>>

(* The helper's graph. *)
PointsAt(i, messages) == KeyPoints(LastOf(PointWindow, messages)[i])

Extracted(messages) ==
    UNION {PointsAt(i, messages) : i \in DOMAIN LastOf(PointWindow, messages)}

(* The points are counted in the order in which they first come up, those   *)
(* of one message in any order.                                             *)
ComesFirst(p, points, messages) ==
    \E i \in DOMAIN LastOf(PointWindow, messages) :
        /\ p \in PointsAt(i, messages)
        /\ \A j \in 1 .. (i - 1) : PointsAt(j, messages) \cap points = {}

Says(word) == \E i \in DOMAIN LastOf(OutcomeWindow, run.messages) :
                 word \in LastOf(OutcomeWindow, run.messages)[i].words

(* _classify_outcome; the customer's "payment intent" is a key point. *)
Outcome ==
    IF "intent" \in Extracted(run.messages) THEN "successful"
    ELSE IF run.reason = "conversation_termination" /\ Says("promise")
         THEN "successful"
    ELSE IF Says("refusal") THEN "unsuccessful" ELSE "neutral"

React ==
    /\ run.node = "react" /\ writing = Idle
    /\ run' = IF run.observed THEN [run EXCEPT !.node = "reflect"]
              ELSE [run EXCEPT !.node = "tool_execution", !.outcome = Outcome,
                               !.points = Extracted(run.messages),
                               !.todo = Extracted(run.messages)]
    /\ UNCHANGED <<at, starts, files, talk, was, cut>>

(* Mutant of FiledAs: what is neutral counts as a success. *)
NeutralAsSuccess(outcome) ==
    IF outcome = "unsuccessful" THEN "unsuccessful" ELSE "successful"

FiledAs(outcome) ==
    IF outcome = "successful" THEN "successful" ELSE "unsuccessful"

(* upsert_global_cue *)
Counted(global, o, p) ==
    [global EXCEPT !.cues[o][p] = @ + 1, !.counters[o] = @ + 1]

UpsertCue ==
    /\ run.node = "tool_execution"
    /\ \E p \in run.todo :
          /\ ComesFirst(p, run.todo, run.messages)
          /\ Begin("global", Counted(GlobalNow, FiledAs(run.outcome), p))
          /\ run' = [run EXCEPT !.todo = @ \ {p}]
    /\ UNCHANGED <<at, starts, talk, was, cut>>

EntryOf(points) == [points |-> points, outcome |-> run.outcome]

(* Mutant of Merged: the points of the latest conversation only. *)
MergedAnew(points, record) ==
    [points |-> points,
     history |-> LastOf(HistoryLimit, Append(record.history, EntryOf(points)))]

Merged(points, record) ==
    [points |-> record.points \cup points,
     history |-> LastOf(HistoryLimit, Append(record.history, EntryOf(points)))]

(* Mutant of Observation: the tool's output does not say it has updated. *)
NoObservation == FALSE

Observation == TRUE

(* upsert_user_memory, and the tool's output as the observation. *)
UpsertUser ==
    /\ run.node = "tool_execution" /\ run.todo = {}
    /\ Begin("user", [UsersNow EXCEPT !.known[run.key] = Merged(run.points, @)])
    /\ run' = [run EXCEPT !.node = "react", !.observed = Observation]
    /\ UNCHANGED <<at, starts, talk, was, cut>>

Reflect ==
    /\ run.node = "reflect" /\ writing = Idle
    /\ run' = [run EXCEPT !.node = IF run.observed THEN "response" ELSE "react"]
    /\ UNCHANGED <<at, starts, files, talk, was, cut>>

Respond ==
    /\ run.node = "response"
    /\ run' = NoRun
    /\ at' = IF run.reason = "interactive_exit" THEN "down" ELSE at
    /\ UNCHANGED <<starts, files, talk, was, cut>>

Crash ==
    /\ at # "down" /\ at' = "down"
    /\ \E form \in {"empty", "torn"} :
          /\ globalFile' = IF writing.file = "global" THEN [form |-> form]
                           ELSE globalFile
          /\ userFile' = IF writing.file = "user" THEN [form |-> form] ELSE userFile
    /\ writing' = Idle /\ run' = NoRun
    /\ cut' = (cut \/ writing # Idle \/ run # NoRun)
    /\ UNCHANGED <<starts, talk, was>>

Boot   == \/ CreateGlobal \/ CreateUser \/ MigrateGlobal \/ MigrateUser \/ StartFails
Helper == \/ ReadMessages \/ ReadState
          \/ React \/ UpsertCue \/ UpsertUser \/ Reflect \/ Respond \/ Finish

Dialogue(s) ==
    \/ \E question \in CustomerSays, answer \in AgentSays,
          mention \in Mentions, closing \in BOOLEAN :
          Turn(s, question, answer, mention, closing)
    \/ \E mention \in Mentions : AdminMessage(s, mention)
    \/ \E u \in Customers : StartConversation(s, u)
    \/ ResetConversation(s) \/ Exit(s)

Next == Start \/ Boot \/ Helper \/ Crash \/ \E s \in Sessions : Dialogue(s)

Spec     == Init /\ [][Next]_vars
FairSpec == Spec /\ WF_vars(Helper)

-----------------------------------------------------------------------------
(* Properties *)

Quiet == at = "serving" /\ writing = Idle /\ run = NoRun /\ ~cut

(* The entries of the histories that name a point and ended in a success,   *)
(* or in anything else, and what the cues filed under o count, one by one.  *)
Naming(known, o, p) ==
    UNION {{k} \X {i \in DOMAIN known[k].history :
                      /\ p \in known[k].history[i].points
                      /\ (known[k].history[i].outcome = "successful")
                            <=> (o = "successful")} : k \in Keys}
Tally(cues, o) == UNION {{p} \X (1 .. cues[o][p]) : p \in Points}

(* The two files tell the same story, although one is written cue by cue    *)
(* before the other: unless a crash has cut a run or a write, a cue is      *)
(* counted under its outcome exactly as often as the histories of all       *)
(* customers name it, and at least as often once a history has reached its  *)
(* limit; the counters are the sums of the cues.                            *)
CuesMatchHistories ==
    Quiet => \A o \in Filed :
        /\ \A p \in Points :
              LET remembered == Cardinality(Naming(UsersNow.known, o, p))
              IN  /\ GlobalNow.cues[o][p] >= remembered
                  /\ (\A k \in Keys : Len(UsersNow.known[k].history) < HistoryLimit)
                        => GlobalNow.cues[o][p] = remembered
        /\ GlobalNow.counters[o] = Cardinality(Tally(GlobalNow.cues, o))

(* What version 1 has counted, and the key events of the last session of    *)
(* each of its customers, are there after any number of starts and runs.    *)
OldMemoryKept ==
    Quiet =>
        /\ was.global.form = "v1" =>
              \A e \in OldEvents :
                 /\ GlobalNow.counters[e] = was.global.events[e]
                 /\ GlobalNow.cues["unsuccessful"][e] = was.global.events[e]
        /\ was.users.form = "v1" =>
              \A i \in DOMAIN was.users.rows :
                 \/ was.users.rows[i].points \subseteq
                       UsersNow.known[was.users.rows[i].user].points
                 \/ \E j \in DOMAIN was.users.rows :
                       j > i /\ was.users.rows[j].user = was.users.rows[i].user

(* A record names, of what the helper looks for, only what was raised while *)
(* its customer was the active one, and the record of a session only what   *)
(* was raised while it had none.  The exceptions are those who took over    *)
(* messages of another: because a case or a customer was named in a         *)
(* conversation that had begun, or because a new one was started between    *)
(* the two reads of a run.                                                  *)
RecordsAreOwn ==
    userFile.form = "v2" =>
        \A k \in Keys \ mixed : userFile.known[k].points \cap Points \subseteq raised[k]

(* The planner is given the memory of the customer the session is about,    *)
(* except after a step that has changed the customer: the turn that does so *)
(* is planned with the memory of the customer before.  And never is it      *)
(* given more than the file says, or the default a turn reads while the     *)
(* file is being rewritten.                                                 *)
ContextIsOfCustomer ==
    \A s \in Sessions : LET u == context[s].user IN
        /\ s \notin switched => u = user[s]
        /\ at = "serving" /\ writing = Idle /\ ~cut /\ u # None =>
              context[s].points \subseteq
                  UsersNow.known[u].points \cup DefaultUsers.known[u].points

(* Key points of a customer are added to, never taken away, by any run,     *)
(* start or turn that no crash meets.                                       *)
Settled == IF writing # Idle /\ writing.file = "user" THEN writing.content ELSE UsersNow
PointsOnlyGrow ==
    [][~cut' /\ Settled.form = "v2" =>
          \A k \in Keys :
              Settled.known[k].points \subseteq Settled'.known[k].points]_vars

(* Every run of the helper ends, so that the message that has closed the    *)
(* conversation is answered.                                                *)
RunsEnd == run.node # "none" ~> run.node = "none"

(* "Extracts key events from conversation content": when the helper answers, *)
(* what the customer has raised in the window is in the customer's record.   *)
CustomerIsHeard ==
    run.node = "response" /\ writing = Idle =>
        \A i \in DOMAIN LastOf(PointWindow, run.messages) :
            LET m == LastOf(PointWindow, run.messages)[i] IN
            m.role = "customer" => m.points \subseteq UsersNow.known[run.key].points
=============================================================================
