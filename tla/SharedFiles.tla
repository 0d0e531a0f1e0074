---------------------------- MODULE SharedFiles ----------------------------
(***************************************************************************)
(* The JSON files below runtime/ and the threads of the debug server that  *)
(* rewrite them: conversation messages and states, which the process also  *)
(* keeps in memory, and rows that are read from the file for each change:  *)
(* promises stand for every file of append_runtime and for the tool log,   *)
(* users for both files of the memory helper.  A turn holds the lock of    *)
(* its session only, every file belongs to all sessions, and a file is     *)
(* rewritten in place: opening it for writing empties it.  What a file     *)
(* says is abstracted to how many user messages, counted turns or rows it  *)
(* holds for each session.                                                 *)
(***************************************************************************)
EXTENDS Naturals

CONSTANTS
    Sessions,      \* conversations, each with at most one turn at a time
    Unreadable,    \* a file no JSON can be read from
    MaxEntries     \* bound on the entries of one session in one file

InMemory == {"messages", "states"}
RowFiles == {"promises", "users"}
Files    == InMemory \cup RowFiles
Content  == [Sessions -> 0..MaxEntries]
Blank    == [s \in Sessions |-> 0]

ASSUME UnreadableAssumption == Unreadable \notin Content
ASSUME BoundAssumption == MaxEntries \in Nat \ {0}

VARIABLES
    up,        \* the server runs
    disk,      \* the files
    wanted,    \* _messages and _states; for the other files what was appended
    op,        \* per session: the change its thread is making
    stage,     \* per session: how far that change is
    snap,      \* per session: what its thread is about to write
    harmed,    \* files two changes or a crash have met in
    alone      \* per session: no other change has met its thread's

vars == <<up, disk, wanted, op, stage, snap, harmed, alone>>

(* hear and say: add_conversation_message; note and count: set_state before *)
(* and after the graph; promise: append_runtime or save_tool_log; remember: *)
(* the memory helper; forget and drop: reset_conversation_session.          *)
FileOf == [hear |-> "messages", note |-> "states", promise |-> "promises",
           count |-> "states", say |-> "messages", remember |-> "users",
           forget |-> "messages", drop |-> "states"]
Ops    == DOMAIN FileOf
Adding == {"hear", "count"}
Stages == {"idle", "ready", "changed", "open", "opened"}

(* What follows a change in a turn of the debug server: tools are optional, *)
(* an answer to an agent is not logged, the helper runs after a closing.    *)
AfterOp == [hear |-> {"note"}, note |-> {"promise", "count"},
            promise |-> {"count"}, count |-> {"say", "end"},
            say |-> {"remember", "end"}, remember |-> {"end"},
            forget |-> {"drop"}, drop |-> {"end"}]

Added(content, s) == [content EXCEPT ![s] = @ + 1]

(* A session is busy with a file from the change in memory to the end of    *)
(* the write; a reset changes both maps before it writes either.            *)
Busy(s, f) ==
    /\ stage[s] # "idle"
    /\ FileOf[op[s]] = f \/ (op[s] = "forget" /\ f = "states")

Opened(s, f)   == stage[s] = "opened" /\ FileOf[op[s]] = f
InWindow(s, f) == stage[s] \in {"open", "opened"} /\ FileOf[op[s]] = f

Init ==
    /\ up = TRUE
    /\ disk = [f \in Files |-> Blank] /\ wanted = [f \in Files |-> Blank]
    /\ op = [s \in Sessions |-> "hear"] /\ stage = [s \in Sessions |-> "idle"]
    /\ snap = [s \in Sessions |-> Blank]
    /\ harmed = {} /\ alone = [s \in Sessions |-> TRUE]

-----------------------------------------------------------------------------
(* run_turn takes a message of a session that has no turn under way; what   *)
(* the router itself says is not logged.                                    *)
StartTurn(s) ==
    /\ up /\ stage[s] = "idle"
    /\ \A f \in InMemory : wanted[f][s] < MaxEntries
    /\ \E first \in {"hear", "note"} : op' = [op EXCEPT ![s] = first]
    /\ stage' = [stage EXCEPT ![s] = "ready"]
    /\ UNCHANGED <<up, disk, wanted, snap, harmed, alone>>

StartReset(s) ==
    /\ up /\ stage[s] = "idle"
    /\ wanted' = [f \in Files |-> IF f \in InMemory
                                  THEN [wanted[f] EXCEPT ![s] = 0] ELSE wanted[f]]
    /\ op' = [op EXCEPT ![s] = "forget"]
    /\ stage' = [stage EXCEPT ![s] = "changed"]
    /\ UNCHANGED <<up, disk, snap, harmed, alone>>

(* The process changes its own maps at once; the session's state takes in   *)
(* what is remembered of the user.                                          *)
ChangeMemory(s) ==
    LET f == FileOf[op[s]] IN
    /\ stage[s] = "ready" /\ f \in InMemory
    /\ op[s] = "note" => disk["users"] # Unreadable
    /\ wanted' = IF op[s] \in Adding
                 THEN [wanted EXCEPT ![f] = Added(@, s)] ELSE wanted
    /\ stage' = [stage EXCEPT ![s] = "changed"]
    /\ UNCHANGED <<up, disk, op, snap, harmed, alone>>

(* A thread begins its window: another in it means harm. *)
Enter(s, content) ==
    LET f      == FileOf[op[s]]
        others == {t \in Sessions \ {s} : InWindow(t, f)} IN
    /\ snap' = [snap EXCEPT ![s] = content]
    /\ stage' = [stage EXCEPT ![s] = "open"]
    /\ harmed' = IF others = {} THEN harmed ELSE harmed \cup {f}
    /\ alone' = [t \in Sessions |->
                    IF t = s THEN others = {}
                    ELSE IF t \in others THEN FALSE ELSE alone[t]]
    /\ UNCHANGED <<up, disk, wanted, op>>

(* _flush_messages, _flush_states: the text of the whole map. *)
TakeSnapshot(s) ==
    /\ stage[s] = "changed"
    /\ Enter(s, wanted[FileOf[op[s]]])

(* Mutant of ReadRows: a thread writes its own row only. *)
ReadNoRows(s) ==
    LET f == FileOf[op[s]] IN
    /\ stage[s] = "ready" /\ f \in RowFiles /\ disk[f] # Unreadable
    /\ Enter(s, Added(Blank, s))

(* load_runtime, _read_json: the rows there are, and one more. *)
ReadRows(s) ==
    LET f == FileOf[op[s]] IN
    /\ stage[s] = "ready" /\ f \in RowFiles /\ disk[f] # Unreadable
    /\ wanted[f][s] < MaxEntries
    /\ Enter(s, Added(disk[f], s))

(* path.write_text: the file is emptied when it is opened ... *)
OpenFile(s) ==
    /\ stage[s] = "open"
    /\ disk' = [disk EXCEPT ![FileOf[op[s]]] = Blank]
    /\ stage' = [stage EXCEPT ![s] = "opened"]
    /\ UNCHANGED <<up, wanted, op, snap, harmed, alone>>

(* ... and written from its start.  What another thread has written since   *)
(* stays behind a shorter text.                                             *)
Overwritten(old, new) == IF old = Blank THEN {new} ELSE {new, Unreadable}

End(s) ==
    /\ op' = [op EXCEPT ![s] = "hear"]
    /\ stage' = [stage EXCEPT ![s] = "idle"]

GoOn(s) ==
    \/ \E next \in AfterOp[op[s]] \cap Ops :
          /\ op' = [op EXCEPT ![s] = next]
          /\ stage' = [stage EXCEPT ![s] = "ready"]
    \/ /\ "end" \in AfterOp[op[s]]
       /\ End(s)

WriteFile(s) ==
    LET f == FileOf[op[s]] IN
    /\ stage[s] = "opened"
    /\ \E content \in Overwritten(disk[f], snap[s]) :
          disk' = [disk EXCEPT ![f] = content]
    /\ wanted' = IF f \in RowFiles THEN [wanted EXCEPT ![f] = Added(@, s)]
                 ELSE wanted
    /\ harmed' = IF f \in InMemory /\ alone[s] THEN harmed \ {f} ELSE harmed
    /\ GoOn(s)
    /\ snap' = [snap EXCEPT ![s] = Blank]
    /\ alone' = [alone EXCEPT ![s] = TRUE]
    /\ UNCHANGED up

(* Another session enters the map or is dropped from it while it is         *)
(* iterated: "dictionary changed size during iteration".                    *)
SnapshotFails(s) ==
    /\ stage[s] = "changed" /\ FileOf[op[s]] = "messages"
    /\ \E t \in Sessions \ {s} :
          /\ stage[t] = "changed"
          /\ op[t] = "forget" \/ (op[t] = "hear" /\ wanted["messages"][t] = 1)
    /\ End(s)
    /\ harmed' = harmed \cup {f \in Files : Busy(s, f)}
    /\ alone' = [t \in Sessions |->
                    alone[t] /\ ~\E f \in Files : Busy(s, f) /\ InWindow(t, f)]
    /\ UNCHANGED <<up, disk, wanted, snap>>

(* An unreadable file ends every turn that needs it by an exception. *)
ReadFails(s) ==
    /\ stage[s] = "ready"
    /\ \/ (FileOf[op[s]] \in RowFiles /\ disk[FileOf[op[s]]] = Unreadable)
       \/ (op[s] = "note" /\ disk["users"] = Unreadable)
    /\ End(s)
    /\ UNCHANGED <<up, disk, wanted, snap, harmed, alone>>

-----------------------------------------------------------------------------
Crash ==
    /\ up /\ up' = FALSE
    /\ stage' = [s \in Sessions |-> "idle"]
    /\ harmed' = harmed \cup
                 {f \in Files : \E s \in Sessions : Opened(s, f)}
    /\ snap' = [s \in Sessions |-> Blank]
    /\ alone' = [s \in Sessions |-> TRUE]
    /\ op' = [s \in Sessions |-> "hear"]
    /\ UNCHANGED <<disk, wanted>>

(* _load_from_disk: an empty file is an empty map, an unreadable one an     *)
(* exception.                                                               *)
Restart ==
    /\ ~up /\ up' = TRUE
    /\ \A f \in Files \ {"promises"} : disk[f] # Unreadable
    /\ wanted' = [f \in Files |-> IF f \in InMemory THEN disk[f] ELSE wanted[f]]
    /\ harmed' = harmed \ InMemory
    /\ UNCHANGED <<disk, op, stage, snap, alone>>

ThreadStep(s) ==
    \/ ChangeMemory(s) \/ TakeSnapshot(s) \/ ReadRows(s) \/ OpenFile(s)
    \/ WriteFile(s) \/ SnapshotFails(s) \/ ReadFails(s)

Next ==
    \/ \E s \in Sessions : StartTurn(s) \/ StartReset(s) \/ ThreadStep(s)
    \/ Crash \/ Restart

Spec == Init /\ [][Next]_vars

-----------------------------------------------------------------------------
(* Properties *)

(* Every file is readable text or the remains of two writes, and counts     *)
(* stay within the bound.                                                   *)
TypeOK ==
    /\ up \in BOOLEAN
    /\ disk \in [Files -> Content \cup {Unreadable}]
    /\ wanted \in [Files -> Content]
    /\ op \in [Sessions -> Ops] /\ stage \in [Sessions -> Stages]
    /\ snap \in [Sessions -> Content]
    /\ harmed \subseteq Files /\ alone \in [Sessions -> BOOLEAN]

(* Without a common lock a file still loses nothing as long as no two       *)
(* changes of it have overlapped and no crash has met an open file: while   *)
(* nobody has it open it is readable and says of every session that is not  *)
(* busy with it what the process holds or has appended.  So a crash at such *)
(* a moment costs the changes under way and nothing else, and the next      *)
(* undisturbed flush repairs the maps.                                      *)
Kept ==
    up => \A f \in Files \ harmed :
             (\A s \in Sessions : ~Opened(s, f)) =>
                /\ disk[f] # Unreadable
                /\ \A s \in Sessions :
                      ~Busy(s, f) => disk[f][s] = wanted[f][s]
=============================================================================
