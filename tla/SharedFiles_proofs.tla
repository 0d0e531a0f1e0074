------------------------- MODULE SharedFiles_proofs -------------------------
(***************************************************************************)
(* Theorems about the files shared by the sessions, for any number of      *)
(* sessions and entries.                                                   *)
(***************************************************************************)
EXTENDS SharedFiles, TLAPS

(* The changes, their files and what follows them, spelled out.             *)
LEMMA OpsAre ==
    /\ Ops = {"hear", "note", "promise", "count", "say", "remember",
              "forget", "drop"}
    /\ \A o \in Ops : FileOf[o] \in Files
BY DEF Ops, FileOf, Files, InMemory, RowFiles

LEMMA FilesAre ==
    /\ FileOf["hear"] = "messages" /\ FileOf["note"] = "states"
    /\ FileOf["promise"] = "promises" /\ FileOf["count"] = "states"
    /\ FileOf["say"] = "messages" /\ FileOf["remember"] = "users"
    /\ FileOf["forget"] = "messages" /\ FileOf["drop"] = "states"
BY DEF FileOf

LEMMA NextOpsAre ==
    ASSUME NEW o \in Ops
    PROVE  /\ "hear" \notin AfterOp[o] /\ "forget" \notin AfterOp[o]
           /\ "note" \in AfterOp[o] => o = "hear"
           /\ "promise" \in AfterOp[o] => o = "note"
           /\ "count" \in AfterOp[o] => o \in {"note", "promise"}
           /\ "drop" \in AfterOp[o] => o = "forget"
           /\ o = "forget" => AfterOp[o] = {"drop"}
BY OpsAre DEF AfterOp

LEMMA AddedType ==
    ASSUME NEW content \in Content, NEW s \in Sessions,
           content[s] < MaxEntries
    PROVE  Added(content, s) \in Content
BY BoundAssumption DEF Content, Added

LEMMA BlankType == Blank \in Content
BY BoundAssumption DEF Content, Blank

-----------------------------------------------------------------------------
(* Types *)

(* A turn is begun, and a row is read, only while there is room for what    *)
(* they will add.                                                           *)
RoomLeft == \A s \in Sessions :
    /\ stage[s] = "ready" /\ op[s] = "hear" => wanted["messages"][s] < MaxEntries
    /\ stage[s] # "idle" /\ op[s] \in {"hear", "note", "promise"}
          => wanted["states"][s] < MaxEntries
    /\ stage[s] = "ready" /\ op[s] = "count" => wanted["states"][s] < MaxEntries
    /\ \A f \in RowFiles : InWindow(s, f) => wanted[f][s] < MaxEntries

(* No row file, and nothing about to be written to one, holds more than has *)
(* been appended, but for the row being appended.                           *)
RowsBounded == \A f \in RowFiles : \A s \in Sessions :
    /\ disk[f] # Unreadable => disk[f][s] <= wanted[f][s]
    /\ InWindow(s, f) => snap[s][s] <= wanted[f][s] + 1
    /\ \A t \in Sessions \ {s} : InWindow(t, f) => snap[t][s] <= wanted[f][s]

(* Threads run in a process that is up, and only the maps are changed       *)
(* before a snapshot is taken of them.                                      *)
Threads == \A s \in Sessions :
    /\ stage[s] # "idle" => up
    /\ stage[s] = "changed" => FileOf[op[s]] \in InMemory

TypeInv == TypeOK /\ RoomLeft /\ RowsBounded /\ Threads

LEMMA TypeInit == Init => TypeInv
BY OpsAre, BlankType, BoundAssumption DEF Init, TypeInv, TypeOK, RoomLeft,
   RowsBounded, Threads, InWindow, Stages, Blank, Files, InMemory, RowFiles

LEMMA TypeStart ==
    ASSUME TypeInv, NEW s \in Sessions, StartTurn(s)
    PROVE  TypeInv'
<1>1. TypeOK'
  BY OpsAre DEF TypeInv, TypeOK, StartTurn, Stages
<1>2. RoomLeft'
  BY DEF TypeInv, TypeOK, StartTurn, RoomLeft, InWindow, InMemory
<1>3. RowsBounded'
  BY DEF TypeInv, TypeOK, StartTurn, RowsBounded, InWindow
<1>4. Threads'
  BY DEF TypeInv, TypeOK, StartTurn, Threads
<1> QED BY <1>1, <1>2, <1>3, <1>4 DEF TypeInv

LEMMA TypeReset ==
    ASSUME TypeInv, NEW s \in Sessions, StartReset(s)
    PROVE  TypeInv'
<1> USE DEF TypeInv, StartReset
<1>1. \A f \in InMemory : [wanted[f] EXCEPT ![s] = 0] \in Content
  BY BoundAssumption DEF TypeOK, Content, Files
<1>2. TypeOK'
  BY <1>1, OpsAre DEF TypeOK, Stages, Files
<1>3. RoomLeft'
  BY BoundAssumption DEF TypeOK, RoomLeft, InWindow, InMemory, RowFiles, Files, Content
<1>4. RowsBounded'
  BY DEF TypeOK, RowsBounded, InWindow, InMemory, RowFiles, Files
<1>5. Threads'
  BY FilesAre DEF TypeOK, Threads, InMemory
<1> QED BY <1>2, <1>3, <1>4, <1>5

LEMMA TypeChange ==
    ASSUME TypeInv, NEW s \in Sessions, ChangeMemory(s)
    PROVE  TypeInv'
<1> DEFINE f == FileOf[op[s]]
<1> USE DEF TypeInv, ChangeMemory
<1>1. op[s] \in Adding => wanted[f][s] < MaxEntries
  BY FilesAre DEF RoomLeft, Adding
<1>2. op[s] \in Adding => Added(wanted[f], s) \in Content
  BY <1>1, OpsAre, AddedType DEF TypeOK
<1>3. TypeOK'
  BY <1>2, OpsAre DEF TypeOK, Stages
<1>4. RoomLeft'
  <2>1. op[s] \in Adding => f = (IF op[s] = "hear" THEN "messages" ELSE "states")
    BY FilesAre DEF Adding
  <2>2. \A g \in Files, t \in Sessions :
           wanted'[g][t] = IF op[s] \in Adding /\ g = f /\ t = s
                           THEN wanted[g][t] + 1 ELSE wanted[g][t]
    BY OpsAre DEF TypeOK, Added, Content
  <2>3. \A t \in Sessions : stage'[t] = IF t = s THEN "changed" ELSE stage[t]
    BY DEF TypeOK
  <2> QED BY <2>1, <2>2, <2>3 DEF RoomLeft, InWindow, InMemory, RowFiles, Files, Adding
<1>5. RowsBounded'
  <2>1. \A g \in RowFiles : wanted'[g] = wanted[g]
    BY DEF TypeOK, InMemory, RowFiles, Files
  <2>2. \A t \in Sessions : stage'[t] = IF t = s THEN "changed" ELSE stage[t]
    BY DEF TypeOK
  <2> QED BY <2>1, <2>2 DEF RowsBounded, InWindow
<1>6. Threads'
  BY DEF TypeOK, Threads
<1> QED BY <1>3, <1>4, <1>5, <1>6

(* A window is entered with content of the right type. *)
LEMMA TypeEnter ==
    ASSUME TypeInv, NEW s \in Sessions, NEW content \in Content,
           Enter(s, content)
    PROVE  TypeOK'
BY OpsAre DEF TypeInv, TypeOK, Enter, Stages

LEMMA TypeSnapshot ==
    ASSUME TypeInv, NEW s \in Sessions, TakeSnapshot(s)
    PROVE  TypeInv'
<1> USE DEF TypeInv, TakeSnapshot
<1>1. TypeOK'
  BY TypeEnter, OpsAre DEF TypeOK
<1>2. \A t \in Sessions : /\ stage'[t] = IF t = s THEN "open" ELSE stage[t]
                          /\ t # s => snap'[t] = snap[t]
  BY DEF TypeOK, Enter
<1>3. RoomLeft' /\ RowsBounded' /\ Threads'
  BY <1>2 DEF Enter, RoomLeft, RowsBounded, Threads, InWindow, InMemory, RowFiles
<1> QED BY <1>1, <1>3

LEMMA TypeRead ==
    ASSUME TypeInv, NEW s \in Sessions, ReadRows(s)
    PROVE  TypeInv'
<1> DEFINE f == FileOf[op[s]]
<1> USE DEF TypeInv, ReadRows
<1>1. /\ f \in Files /\ disk[f] \in Content
      /\ \A t \in Sessions : disk[f][t] <= wanted[f][t]
  BY OpsAre DEF TypeOK, RowsBounded
<1>2. disk[f][s] < MaxEntries
  BY <1>1, BoundAssumption DEF TypeOK, Content
<1>3. TypeOK'
  BY <1>1, <1>2, AddedType, TypeEnter
<1>4. \A t \in Sessions : /\ stage'[t] = IF t = s THEN "open" ELSE stage[t]
                          /\ snap'[t] = IF t = s THEN Added(disk[f], s) ELSE snap[t]
  BY DEF TypeOK, Enter
<1>5. \A t \in Sessions : Added(disk[f], s)[t] =
                             IF t = s THEN disk[f][t] + 1 ELSE disk[f][t]
  BY <1>1 DEF Added, Content
<1>6. RoomLeft'
  BY <1>4 DEF Enter, RoomLeft, InWindow
<1>7. RowsBounded'
  BY <1>1, <1>4, <1>5 DEF Enter, RowsBounded, InWindow, TypeOK, Content, Files
<1>8. Threads'
  BY <1>4 DEF Enter, Threads
<1> QED BY <1>3, <1>6, <1>7, <1>8

LEMMA TypeOpen ==
    ASSUME TypeInv, NEW s \in Sessions, OpenFile(s)
    PROVE  TypeInv'
<1> USE DEF TypeInv, OpenFile
<1>1. TypeOK'
  BY BlankType, OpsAre DEF TypeOK, Stages
<1>2. \A t \in Sessions : stage'[t] = IF t = s THEN "opened" ELSE stage[t]
  BY DEF TypeOK
<1>3. RoomLeft'
  BY <1>2 DEF RoomLeft, InWindow
<1>4. RowsBounded'
  <2>1. \A f \in Files : disk'[f] = disk[f] \/ disk'[f] = Blank
    BY DEF TypeOK
  <2>2. \A f \in Files, t \in Sessions : Blank[t] <= wanted[f][t]
    BY DEF TypeOK, Content, Blank
  <2> QED BY <1>2, <2>1, <2>2 DEF RowsBounded, InWindow, Files
<1>5. Threads'
  BY <1>2 DEF Threads
<1> QED BY <1>1, <1>3, <1>4, <1>5

(* Where a session's thread stands after its write. *)
LEMMA GoesOn ==
    ASSUME TypeOK, NEW s \in Sessions, GoOn(s)
    PROVE  /\ \A t \in Sessions \ {s} : stage'[t] = stage[t] /\ op'[t] = op[t]
           /\ stage' \in [Sessions -> Stages] /\ op' \in [Sessions -> Ops]
           /\ \/ stage'[s] = "idle" /\ "end" \in AfterOp[op[s]]
              \/ stage'[s] = "ready" /\ op'[s] \in AfterOp[op[s]]
BY OpsAre DEF TypeOK, GoOn, End, Stages

LEMMA TypeWrite ==
    ASSUME TypeInv, NEW s \in Sessions, WriteFile(s)
    PROVE  TypeInv'
<1> DEFINE f == FileOf[op[s]]
<1>a. /\ f \in Files /\ op[s] \in Ops /\ InWindow(s, f)
      /\ f \in RowFiles => wanted[f][s] < MaxEntries
  BY OpsAre DEF TypeInv, TypeOK, RoomLeft, WriteFile, InWindow
<1>b. /\ \A t \in Sessions \ {s} : stage'[t] = stage[t] /\ op'[t] = op[t]
      /\ stage' \in [Sessions -> Stages] /\ op' \in [Sessions -> Ops]
      /\ \/ stage'[s] = "idle"
         \/ stage'[s] = "ready" /\ op'[s] \in AfterOp[op[s]]
  BY GoesOn DEF TypeInv, WriteFile
<1>c. \A g \in Files, t \in Sessions :
         wanted'[g][t] = IF g = f /\ g \in RowFiles /\ t = s
                         THEN wanted[g][t] + 1 ELSE wanted[g][t]
  BY <1>a DEF TypeInv, TypeOK, WriteFile, Added, Content
<1>d. \A t \in Sessions : snap'[t] = IF t = s THEN Blank ELSE snap[t]
  BY DEF TypeInv, TypeOK, WriteFile
<1>e. \A g \in Files : disk'[g] # disk[g] => g = f /\ disk'[g] \in {snap[s], Unreadable}
  BY DEF TypeInv, TypeOK, WriteFile, Overwritten
<1>1. TypeOK'
  <2>1. Added(wanted[f], s) \in Content \/ f \notin RowFiles
    BY <1>a, AddedType DEF TypeInv, TypeOK
  <2>2. wanted' \in [Files -> Content]
    BY <2>1 DEF TypeInv, TypeOK, WriteFile
  <2>3. disk' \in [Files -> Content \cup {Unreadable}]
    BY <1>a DEF TypeInv, TypeOK, WriteFile, Overwritten
  <2> QED BY <1>a, <1>b, <2>2, <2>3, BlankType DEF TypeInv, TypeOK, WriteFile
<1>2. RoomLeft'
  <2>1. /\ stage'[s] = "ready" => op'[s] # "hear"
        /\ stage'[s] = "ready" /\ op'[s] \in {"note", "promise", "count"}
              => wanted'["states"][s] < MaxEntries
    <3>1. stage'[s] = "ready" /\ op'[s] \in {"note", "promise", "count"}
             => op[s] \in {"hear", "note", "promise"}
      BY <1>a, <1>b, NextOpsAre
    <3>2. op[s] \in {"hear", "note", "promise"} => wanted["states"][s] < MaxEntries
      BY DEF TypeInv, RoomLeft, WriteFile
    <3>3. wanted'["states"][s] = wanted["states"][s]
      BY <1>c DEF Files, InMemory, RowFiles
    <3> QED BY <1>a, <1>b, <3>1, <3>2, <3>3, NextOpsAre
  <2>2. ~InWindow(s, f)' /\ \A g \in Files : ~InWindow(s, g)'
    BY <1>b DEF InWindow
  <2>3. \A t \in Sessions \ {s}, g \in Files : wanted'[g][t] = wanted[g][t]
    BY <1>c
  <2> QED BY <1>b, <2>1, <2>2, <2>3 DEF TypeInv, RoomLeft, InWindow, Files, InMemory
<1>3. RowsBounded'
  <2>1. \A g \in RowFiles, t \in Sessions : disk'[g] # Unreadable => disk'[g][t] <= wanted'[g][t]
    <3> SUFFICES ASSUME NEW g \in RowFiles, NEW t \in Sessions, disk'[g] # Unreadable
                 PROVE  disk'[g][t] <= wanted'[g][t]
      OBVIOUS
    <3>0. wanted[g][t] \in Nat /\ g \in Files
      BY DEF TypeInv, TypeOK, Content, Files
    <3>1. CASE disk'[g] = disk[g]
      <4>1. disk[g][t] <= wanted[g][t]
        BY <3>1 DEF TypeInv, RowsBounded
      <4>2. wanted'[g][t] \in {wanted[g][t], wanted[g][t] + 1}
        BY <3>0, <1>c
      <4>3. disk[g][t] \in Nat
        BY <3>0, <3>1 DEF TypeInv, TypeOK, Content
      <4> QED BY <3>0, <3>1, <4>1, <4>2, <4>3
    <3>2. CASE disk'[g] # disk[g]
      <4>1. g = f /\ disk'[g] = snap[s]
        BY <3>0, <3>2, <1>e
      <4> QED BY <3>0, <4>1, <1>a, <1>c DEF TypeInv, RowsBounded
    <3> QED BY <3>1, <3>2
  <2>2. \A g \in RowFiles, t \in Sessions : InWindow(t, g)' => t # s /\ InWindow(t, g)
    BY <1>b DEF InWindow
  <2>3. \A g \in RowFiles, t \in Sessions :
           /\ wanted[g][t] \in Nat /\ wanted'[g][t] \in {wanted[g][t], wanted[g][t] + 1}
    BY <1>c DEF TypeInv, TypeOK, Content, Files
  <2>4. \A t, u \in Sessions : snap[t][u] \in Nat
    BY DEF TypeInv, TypeOK, Content
  <2> QED BY <2>1, <2>2, <2>3, <2>4, <1>d DEF TypeInv, RowsBounded
<1>4. Threads'
  <2>1. up' = up /\ stage[s] = "opened"
    BY DEF WriteFile
  <2> QED BY <1>b, <2>1 DEF TypeInv, Threads
<1> QED BY <1>1, <1>2, <1>3, <1>4 DEF TypeInv

LEMMA TypeEnds ==
    ASSUME TypeInv, NEW s \in Sessions, SnapshotFails(s) \/ ReadFails(s)
    PROVE  TypeInv'
<1> USE DEF SnapshotFails, ReadFails, End
<1>1. TypeOK'
  BY OpsAre DEF TypeInv, TypeOK, Stages
<1>2. \A t \in Sessions : IF t = s THEN stage'[t] = "idle"
                          ELSE stage'[t] = stage[t] /\ op'[t] = op[t]
  BY DEF TypeInv, TypeOK
<1>3. RoomLeft' /\ RowsBounded' /\ Threads'
  BY <1>2 DEF TypeInv, RoomLeft, RowsBounded, Threads, InWindow
<1> QED BY <1>1, <1>3 DEF TypeInv

LEMMA TypeCrash == TypeInv /\ (Crash \/ Restart) => TypeInv'
<1> SUFFICES ASSUME TypeInv, Crash \/ Restart PROVE TypeInv'
  OBVIOUS
<1>1. CASE Crash
  BY <1>1, OpsAre, BlankType DEF Crash, TypeInv, TypeOK, RoomLeft, RowsBounded,
     Threads, InWindow, Stages
<1>2. CASE Restart
  <2>1. \A f \in InMemory : disk[f] \in Content
    BY <1>2 DEF Restart, TypeInv, TypeOK, InMemory, RowFiles, Files
  <2>2. TypeOK'
    BY <1>2, <2>1 DEF Restart, TypeInv, TypeOK, Files
  <2>3. \A s \in Sessions : stage'[s] = "idle"
    BY <1>2 DEF Restart, TypeInv, Threads
  <2>4. \A f \in RowFiles : wanted'[f] = wanted[f] /\ disk'[f] = disk[f]
    BY <1>2 DEF Restart, Files, InMemory, RowFiles
  <2> QED BY <2>2, <2>3, <2>4 DEF TypeInv, RoomLeft, RowsBounded, Threads, InWindow
<1> QED BY <1>1, <1>2

LEMMA TypeStep == TypeInv /\ [Next]_vars => TypeInv'
<1> SUFFICES ASSUME TypeInv, [Next]_vars PROVE TypeInv'
  OBVIOUS
<1>1. CASE UNCHANGED vars
  BY <1>1 DEF vars, TypeInv, TypeOK, RoomLeft, RowsBounded, Threads, InWindow
<1>2. ASSUME NEW s \in Sessions, ThreadStep(s) PROVE TypeInv'
  BY <1>2, TypeChange, TypeSnapshot, TypeRead, TypeOpen, TypeWrite, TypeEnds
     DEF ThreadStep
<1> QED BY <1>1, <1>2, TypeStart, TypeReset, TypeCrash DEF Next

(* Every file is readable text or the remains of two writes, and no count   *)
(* outgrows the bound, whatever the interleavings and crashes.              *)
THEOREM FilesTyped == Spec => []TypeOK
<1>1. TypeInv => TypeOK
  BY DEF TypeInv
<1> QED BY <1>1, TypeInit, TypeStep, PTL DEF Spec

-----------------------------------------------------------------------------
(* What the files keep *)

(* A session whose entry of a map may differ from the file: it has changed  *)
(* the map and not written the file yet, or is being reset.                 *)
Pending(s, f) ==
    /\ stage[s] # "idle"
    /\ \/ FileOf[op[s]] = f /\ (stage[s] # "ready" \/ op[s] = "drop")
       \/ op[s] = "forget" /\ f = "states"

(* Threads that meet in a window know it ... *)
MeetingsKnown == \A s, t \in Sessions : \A f \in Files :
    s # t /\ InWindow(s, f) /\ InWindow(t, f) => ~alone[s]

(* ... and leave their mark on the file. *)
MeetingsHarm == \A s \in Sessions : \A f \in Files :
    InWindow(s, f) /\ ~alone[s] => f \in harmed

(* What an undisturbed thread is about to write of a map is right for its   *)
(* own session and for all that have not changed theirs since.              *)
SnapshotAgrees == \A s \in Sessions : \A f \in InMemory :
    InWindow(s, f) /\ alone[s] =>
        \A t \in Sessions : t = s \/ ~Pending(t, f) => snap[s][t] = wanted[f][t]

(* What it is about to write of rows is what there is and its own.          *)
RowsAgree == \A s \in Sessions : \A f \in RowFiles \ harmed :
    InWindow(s, f) =>
        \A t \in Sessions : snap[s][t] = IF t = s THEN wanted[f][t] + 1
                                         ELSE wanted[f][t]

(* The file an undisturbed thread has opened is empty. *)
OpenedEmpty == \A s \in Sessions : \A f \in Files :
    Opened(s, f) /\ alone[s] => disk[f] = Blank

(* An unharmed file that nobody has open agrees with what is wanted of it.  *)
FileAgrees == \A f \in Files \ harmed :
    (up \/ f \in RowFiles) /\ (\A s \in Sessions : ~Opened(s, f)) =>
        /\ disk[f] # Unreadable
        /\ \A t \in Sessions :
              (f \in InMemory => ~Pending(t, f)) => disk[f][t] = wanted[f][t]

FilesInv ==
    /\ MeetingsKnown /\ MeetingsHarm
    /\ SnapshotAgrees /\ RowsAgree /\ OpenedEmpty /\ FileAgrees

LEMMA FilesAgree == TypeInv /\ FilesInv => Kept
<1> SUFFICES ASSUME TypeInv, FilesInv, up, NEW f \in Files \ harmed,
                    \A s \in Sessions : ~Opened(s, f)
             PROVE  /\ disk[f] # Unreadable
                    /\ \A s \in Sessions : ~Busy(s, f) => disk[f][s] = wanted[f][s]
  BY DEF Kept
<1>1. \A s \in Sessions : Pending(s, f) => Busy(s, f)
  BY DEF Pending, Busy
<1> QED BY <1>1 DEF FilesInv, FileAgrees

LEMMA FilesInit == Init => FilesInv
BY UnreadableAssumption, BlankType DEF Init, FilesInv, MeetingsKnown, MeetingsHarm,
   SnapshotAgrees, RowsAgree, OpenedEmpty, FileAgrees, InWindow, Opened, Pending,
   Blank

(* A step of a thread that is in no window and stays out of every one: what *)
(* it changes of the maps it owes to the file.                              *)
LEMMA StepOutside ==
    ASSUME FilesInv, NEW s \in Sessions,
           UNCHANGED <<up, disk, snap, harmed, alone>>,
           \A t \in Sessions \ {s} : stage'[t] = stage[t] /\ op'[t] = op[t],
           \A f \in Files : ~InWindow(s, f) /\ ~InWindow(s, f)',
           \A f \in InMemory : Pending(s, f) => Pending(s, f)',
           \A f \in Files, t \in Sessions : wanted'[f][t] # wanted[f][t]
               => t = s /\ f \in InMemory /\ Pending(s, f)'
    PROVE  FilesInv'
<1>1. \A t \in Sessions, f \in Files :
         /\ InWindow(t, f)' <=> InWindow(t, f)
         /\ Opened(t, f)' <=> Opened(t, f)
         /\ f \in InMemory /\ ~Pending(t, f)'
               => ~Pending(t, f) /\ wanted'[f][t] = wanted[f][t]
         /\ t # s => wanted'[f][t] = wanted[f][t]
         /\ f \in RowFiles => wanted'[f][t] = wanted[f][t]
  BY DEF InWindow, Opened, Pending, InMemory, RowFiles
<1>2. (MeetingsKnown /\ MeetingsHarm /\ OpenedEmpty)'
  BY <1>1 DEF FilesInv, MeetingsKnown, MeetingsHarm, OpenedEmpty
<1>3. SnapshotAgrees' /\ RowsAgree'
  BY <1>1 DEF FilesInv, SnapshotAgrees, RowsAgree, Files
<1>4. FileAgrees'
  BY <1>1 DEF FilesInv, FileAgrees, Files
<1> QED BY <1>2, <1>3, <1>4 DEF FilesInv

LEMMA FilesOutside ==
    ASSUME TypeInv, FilesInv, NEW s \in Sessions,
           StartTurn(s) \/ StartReset(s) \/ ChangeMemory(s) \/ ReadFails(s)
    PROVE  FilesInv'
<1>1. /\ UNCHANGED <<up, disk, snap, harmed, alone>>
      /\ \A t \in Sessions \ {s} : stage'[t] = stage[t] /\ op'[t] = op[t]
      /\ \A f \in Files : ~InWindow(s, f) /\ ~InWindow(s, f)'
  BY DEF TypeInv, TypeOK, StartTurn, StartReset, ChangeMemory, ReadFails, End, InWindow
<1>2. \A f \in InMemory : Pending(s, f) => Pending(s, f)'
  BY FilesAre DEF TypeInv, TypeOK, StartTurn, StartReset, ChangeMemory, ReadFails, End,
     Pending, InMemory, RowFiles
<1>3. \A f \in Files, t \in Sessions : wanted'[f][t] # wanted[f][t]
         => t = s /\ f \in InMemory /\ Pending(s, f)'
  <2>1. CASE StartTurn(s) \/ ReadFails(s)
    BY <2>1 DEF StartTurn, ReadFails
  <2>2. CASE StartReset(s)
    BY <2>2, FilesAre DEF StartReset, TypeInv, TypeOK, Content, InMemory, Pending
  <2>3. CASE ChangeMemory(s)
    BY <2>3, OpsAre DEF ChangeMemory, TypeInv, TypeOK, Content, Added, Pending
  <2> QED BY <2>1, <2>2, <2>3
<1> QED BY <1>1, <1>2, <1>3, StepOutside

(* SnapshotFails harms every file its session was busy with, and whoever is *)
(* writing one knows.                                                       *)
LEMMA FilesSnapshotFails ==
    ASSUME TypeInv, FilesInv, NEW s \in Sessions, SnapshotFails(s)
    PROVE  FilesInv'
<1>1. /\ UNCHANGED <<up, disk, wanted, snap>>
      /\ \A t \in Sessions \ {s} : stage'[t] = stage[t] /\ op'[t] = op[t]
      /\ stage'[s] = "idle" /\ stage[s] = "changed"
      /\ \A f \in Files : f \in harmed' <=> f \in harmed \/ Busy(s, f)
      /\ \A t \in Sessions : alone'[t] <=>
            alone[t] /\ ~\E f \in Files : Busy(s, f) /\ InWindow(t, f)
  BY DEF TypeInv, TypeOK, SnapshotFails, End
<1>2. \A t \in Sessions, f \in Files :
         /\ InWindow(t, f)' <=> InWindow(t, f)
         /\ Opened(t, f)' <=> Opened(t, f)
         /\ Pending(s, f) => Busy(s, f)
         /\ t # s => (Pending(t, f)' <=> Pending(t, f))
  BY <1>1 DEF InWindow, Opened, Pending, Busy
<1>3. \A t \in Sessions, f, g \in Files : InWindow(t, f) /\ InWindow(t, g) => f = g
  BY DEF InWindow
<1>4. MeetingsKnown' /\ OpenedEmpty'
  BY <1>1, <1>2 DEF FilesInv, MeetingsKnown, OpenedEmpty
<1>5. MeetingsHarm'
  BY <1>1, <1>2, <1>3 DEF FilesInv, MeetingsHarm
<1>6. SnapshotAgrees'
  BY <1>1, <1>2 DEF FilesInv, SnapshotAgrees, Files
<1>7. RowsAgree'
  BY <1>1, <1>2 DEF FilesInv, RowsAgree, Files
<1>8. FileAgrees'
  BY <1>1, <1>2 DEF FilesInv, FileAgrees, Files
<1> QED BY <1>4, <1>5, <1>6, <1>7, <1>8 DEF FilesInv

(* A thread enters the window of a file, alone or not. *)
LEMMA FilesEnter ==
    ASSUME TypeInv, FilesInv, NEW s \in Sessions, NEW content \in Content,
           stage[s] \in {"ready", "changed"}, Enter(s, content),
           FileOf[op[s]] \in RowFiles \/ stage[s] = "changed",
           FileOf[op[s]] \in InMemory => content = wanted[FileOf[op[s]]],
           FileOf[op[s]] \in RowFiles => content = Added(disk[FileOf[op[s]]], s)
    PROVE  FilesInv'
<1> DEFINE f      == FileOf[op[s]]
           others == {t \in Sessions \ {s} : InWindow(t, f)}
<1>1. /\ UNCHANGED <<up, disk, wanted, op>> /\ f \in Files
      /\ \A t \in Sessions : /\ stage'[t] = IF t = s THEN "open" ELSE stage[t]
                             /\ snap'[t] = IF t = s THEN content ELSE snap[t]
      /\ harmed' = IF others = {} THEN harmed ELSE harmed \cup {f}
  BY OpsAre DEF TypeInv, TypeOK, Enter
<1>a. /\ alone'[s] <=> \A t \in Sessions \ {s} : ~InWindow(t, f)
      /\ \A t \in Sessions \ {s} : alone'[t] <=> alone[t] /\ ~InWindow(t, f)
  BY DEF TypeInv, TypeOK, Enter
<1>b. /\ f \notin harmed' => \A t \in Sessions \ {s} : ~InWindow(t, f)
      /\ \A g \in Files : g \in harmed => g \in harmed'
      /\ \A t \in Sessions \ {s} : InWindow(t, f) => f \in harmed'
  BY <1>1
<1>2. \A t \in Sessions, g \in Files :
         /\ InWindow(t, g)' <=> InWindow(t, g) \/ (t = s /\ g = f)
         /\ ~InWindow(s, g) /\ ~Opened(s, g)
         /\ Opened(t, g)' <=> Opened(t, g)
         /\ InWindow(t, g) /\ InWindow(t, f) => g = f
         /\ g \in InMemory => (Pending(t, g)' <=> Pending(t, g))
  BY <1>1 DEF InWindow, Opened, Pending, InMemory, RowFiles
<1>3. MeetingsKnown'
  BY <1>1, <1>2, <1>a, <1>b DEF FilesInv, MeetingsKnown
<1>4. MeetingsHarm'
  BY <1>1, <1>2, <1>a, <1>b DEF FilesInv, MeetingsHarm
<1>5. OpenedEmpty'
  BY <1>1, <1>2, <1>a, <1>b DEF FilesInv, OpenedEmpty
<1>6. SnapshotAgrees'
  BY <1>1, <1>2, <1>a DEF FilesInv, SnapshotAgrees, Files
<1>7. RowsAgree'
  <2>1. ASSUME f \in RowFiles \ harmed' PROVE disk[f] \in Content
                 /\ \A t \in Sessions : disk[f][t] = wanted[f][t]
    <3>1. f \notin harmed /\ others = {}
      BY <1>1, <2>1
    <3>2. \A t \in Sessions : ~Opened(t, f)
      BY <1>2, <3>1 DEF Opened, InWindow
    <3> QED BY <1>1, <2>1, <3>1, <3>2 DEF FilesInv, FileAgrees, TypeInv, TypeOK,
               InMemory, RowFiles
  <2>2. ASSUME f \in RowFiles \ harmed'
        PROVE  \A t \in Sessions : content[t] = IF t = s THEN wanted[f][t] + 1
                                                ELSE wanted[f][t]
    BY <2>1, <2>2 DEF Added, Content
  <2> QED BY <1>1, <1>2, <1>b, <2>2 DEF FilesInv, RowsAgree, Files
<1>8. FileAgrees'
  BY <1>1, <1>2, <1>b DEF FilesInv, FileAgrees, Files
<1> QED BY <1>3, <1>4, <1>5, <1>6, <1>7, <1>8 DEF FilesInv

LEMMA FilesOpen ==
    ASSUME TypeInv, FilesInv, NEW s \in Sessions, OpenFile(s)
    PROVE  FilesInv'
<1> DEFINE f == FileOf[op[s]]
<1>1. /\ UNCHANGED <<up, wanted, op, snap, harmed, alone>> /\ f \in Files
      /\ \A t \in Sessions : stage'[t] = IF t = s THEN "opened" ELSE stage[t]
      /\ \A g \in Files : disk'[g] = IF g = f THEN Blank ELSE disk[g]
      /\ stage[s] = "open"
  BY OpsAre DEF TypeInv, TypeOK, OpenFile
<1>2. \A t \in Sessions, g \in Files :
         /\ InWindow(t, g)' <=> InWindow(t, g)
         /\ Opened(t, g)' <=> Opened(t, g) \/ (t = s /\ g = f)
         /\ Pending(t, g)' <=> Pending(t, g)
  BY <1>1 DEF InWindow, Opened, Pending
<1>3. (MeetingsKnown /\ MeetingsHarm)'
  BY <1>1, <1>2 DEF FilesInv, MeetingsKnown, MeetingsHarm
<1>4. OpenedEmpty'
  BY <1>1, <1>2 DEF FilesInv, OpenedEmpty
<1>5. SnapshotAgrees' /\ RowsAgree'
  BY <1>1, <1>2 DEF FilesInv, SnapshotAgrees, RowsAgree, Files
<1>6. FileAgrees'
  BY <1>1, <1>2 DEF FilesInv, FileAgrees, Files
<1> QED BY <1>3, <1>4, <1>5, <1>6 DEF FilesInv

(* An undisturbed thread that writes its file leaves what is wanted there:  *)
(* it repairs a map that was harmed before.                                 *)
LEMMA FilesWrite ==
    ASSUME TypeInv, FilesInv, NEW s \in Sessions, WriteFile(s)
    PROVE  FilesInv'
<1> DEFINE f == FileOf[op[s]]
<1>1. /\ UNCHANGED up /\ f \in Files /\ op[s] \in Ops
      /\ Opened(s, f) /\ InWindow(s, f)
      /\ \A t \in Sessions \ {s} : /\ alone'[t] = alone[t] /\ snap'[t] = snap[t]
      /\ \A g \in Files : g # f => disk'[g] = disk[g]
      /\ disk'[f] \in Overwritten(disk[f], snap[s])
      /\ harmed' = IF f \in InMemory /\ alone[s] THEN harmed \ {f} ELSE harmed
  BY OpsAre DEF TypeInv, TypeOK, WriteFile, Opened, InWindow
<1>2. /\ \A t \in Sessions \ {s} : stage'[t] = stage[t] /\ op'[t] = op[t]
      /\ \/ stage'[s] = "idle" /\ "end" \in AfterOp[op[s]]
         \/ stage'[s] = "ready" /\ op'[s] \in AfterOp[op[s]]
  BY GoesOn DEF TypeInv, WriteFile
<1>3. \A g \in Files, t \in Sessions :
         wanted'[g][t] = IF g = f /\ g \in RowFiles /\ t = s
                         THEN wanted[g][t] + 1 ELSE wanted[g][t]
  BY <1>1 DEF TypeInv, TypeOK, WriteFile, Added, Content
<1>4. \A t \in Sessions, g \in Files :
         /\ InWindow(t, g)' <=> t # s /\ InWindow(t, g)
         /\ Opened(t, g)' <=> t # s /\ Opened(t, g)
         /\ Opened(t, g) => InWindow(t, g)
         /\ InWindow(s, g) => g = f
  BY <1>2 DEF InWindow, Opened
<1>5. \A t \in Sessions, g \in InMemory :
         g # f \/ t # s => (Pending(t, g) => Pending(t, g)')
  <2>1. \A g \in InMemory : g # f /\ Pending(s, g) => Pending(s, g)'
    BY <1>1, <1>2, NextOpsAre, FilesAre DEF Pending
  <2> QED BY <1>2, <2>1 DEF Pending
<1>6. \A t \in Sessions \ {s} : InWindow(t, f) => ~alone[s] /\ ~alone[t] /\ f \in harmed
  BY <1>1 DEF FilesInv, MeetingsKnown, MeetingsHarm
<1>7. MeetingsKnown' /\ MeetingsHarm'
  BY <1>1, <1>4, <1>6 DEF FilesInv, MeetingsKnown, MeetingsHarm
<1>8. OpenedEmpty'
  BY <1>1, <1>4, <1>6 DEF FilesInv, OpenedEmpty
<1>9. SnapshotAgrees'
  <2> SUFFICES ASSUME NEW t \in Sessions, NEW g \in InMemory, InWindow(t, g)', alone'[t],
                      NEW u \in Sessions, u = t \/ ~Pending(u, g)'
               PROVE  snap'[t][u] = wanted'[g][u]
    BY DEF SnapshotAgrees
  <2>1. /\ t # s /\ g # f /\ g \in Files /\ g \notin RowFiles
        /\ InWindow(t, g) /\ alone[t]
    BY <1>1, <1>4, <1>6 DEF Files, InMemory, RowFiles
  <2>2. u = t \/ ~Pending(u, g)
    BY <1>5, <2>1
  <2>3. snap[t][u] = wanted[g][u]
    BY <2>1, <2>2 DEF FilesInv, SnapshotAgrees
  <2> QED BY <1>1, <1>3, <2>1, <2>3
<1>10. RowsAgree'
  <2> SUFFICES ASSUME NEW t \in Sessions, NEW g \in RowFiles \ harmed', InWindow(t, g)'
               PROVE  \A u \in Sessions :
                         snap'[t][u] = IF u = t THEN wanted'[g][u] + 1 ELSE wanted'[g][u]
    BY DEF RowsAgree
  <2>1. t # s /\ InWindow(t, g) /\ g \in Files /\ g \notin harmed
    BY <1>1, <1>4 DEF Files, InMemory, RowFiles
  <2>2. g # f
    BY <1>6, <2>1
  <2> QED BY <1>1, <1>3, <2>1, <2>2 DEF FilesInv, RowsAgree
<1>11. FileAgrees'
  <2> SUFFICES ASSUME NEW g \in Files \ harmed', (up \/ g \in RowFiles)',
                      \A t \in Sessions : ~Opened(t, g)'
               PROVE  /\ disk'[g] # Unreadable
                      /\ \A t \in Sessions : (g \in InMemory => ~Pending(t, g)')
                                                => disk'[g][t] = wanted'[g][t]
    BY DEF FileAgrees
  <2>1. CASE g # f
    <3>1. g \notin harmed /\ \A t \in Sessions : ~Opened(t, g)
      BY <1>1, <1>4, <2>1
    <3>2. \A t \in Sessions : /\ g \in InMemory => (Pending(t, g) => Pending(t, g)')
                              /\ wanted'[g][t] = wanted[g][t]
      BY <1>3, <1>5, <2>1
    <3> QED BY <1>1, <2>1, <3>1, <3>2 DEF FilesInv, FileAgrees
  <2>2. CASE g = f
    <3>1. alone[s] /\ (f \in RowFiles => f \notin harmed)
      BY <1>1, <2>2 DEF FilesInv, MeetingsHarm, InMemory, RowFiles
    <3>2. disk'[f] = snap[s] /\ snap[s] # Unreadable
      BY <1>1, <3>1, UnreadableAssumption DEF FilesInv, OpenedEmpty, Overwritten,
         TypeInv, TypeOK
    <3>3. CASE f \in InMemory
      <4>1. \A t \in Sessions : /\ wanted'[g][t] = wanted[g][t]
                                /\ t = s \/ (Pending(t, g) => Pending(t, g)')
        BY <1>3, <1>5, <2>2, <3>3 DEF InMemory, RowFiles
      <4>2. \A t \in Sessions : t = s \/ ~Pending(t, f) => snap[s][t] = wanted[f][t]
        BY <1>1, <3>1, <3>3 DEF FilesInv, SnapshotAgrees
      <4> QED BY <2>2, <3>2, <3>3, <4>1, <4>2
    <3>4. CASE f \in RowFiles
      <4>1. \A t \in Sessions : snap[s][t] = IF t = s THEN wanted[f][t] + 1
                                             ELSE wanted[f][t]
        BY <1>1, <3>1, <3>4 DEF FilesInv, RowsAgree
      <4> QED BY <1>1, <1>3, <2>2, <3>2, <3>4, <4>1
    <3> QED BY <1>1, <3>3, <3>4 DEF Files
  <2> QED BY <2>1, <2>2
<1> QED BY <1>7, <1>8, <1>9, <1>10, <1>11 DEF FilesInv

LEMMA FilesCrash == TypeInv /\ FilesInv /\ (Crash \/ Restart) => FilesInv'
<1> SUFFICES ASSUME TypeInv, FilesInv, Crash \/ Restart PROVE FilesInv'
  OBVIOUS
<1>1. /\ \A s \in Sessions : stage'[s] = "idle"
      /\ disk' = disk
      /\ \A f \in RowFiles : wanted'[f] = wanted[f] /\ (f \notin harmed' => f \notin harmed)
  BY DEF TypeInv, TypeOK, Threads, Crash, Restart, Files, InMemory, RowFiles
<1>2. (MeetingsKnown /\ MeetingsHarm /\ SnapshotAgrees /\ RowsAgree /\ OpenedEmpty)'
  BY <1>1 DEF MeetingsKnown, MeetingsHarm, SnapshotAgrees, RowsAgree, OpenedEmpty,
     InWindow, Opened
<1>3. FileAgrees'
  <2>1. ASSUME NEW f \in RowFiles, f \notin harmed'
        PROVE  \A s \in Sessions : ~Opened(s, f)
    <3>1. CASE Crash
      BY <2>1, <3>1 DEF Crash, Files
    <3>2. CASE Restart
      BY <3>2 DEF Restart, TypeInv, Threads, Opened
    <3> QED BY <3>1, <3>2
  <2>2. ASSUME NEW f \in RowFiles, f \notin harmed'
        PROVE  /\ disk[f] # Unreadable
               /\ \A t \in Sessions : disk[f][t] = wanted[f][t]
    BY <1>1, <2>1, <2>2 DEF FilesInv, FileAgrees, Files, InMemory, RowFiles
  <2>3. ASSUME up', NEW f \in InMemory
        PROVE  disk[f] # Unreadable /\ wanted'[f] = disk[f]
    BY <2>3 DEF Crash, Restart, Files, InMemory, RowFiles
  <2> QED BY <1>1, <2>2, <2>3 DEF FileAgrees, Files
<1> QED BY <1>2, <1>3 DEF FilesInv

LEMMA FilesStep == TypeInv /\ FilesInv /\ [Next]_vars => FilesInv'
<1> SUFFICES ASSUME TypeInv, FilesInv, [Next]_vars PROVE FilesInv'
  OBVIOUS
<1>1. CASE UNCHANGED vars
  BY <1>1 DEF vars, FilesInv, MeetingsKnown, MeetingsHarm, SnapshotAgrees,
     RowsAgree, OpenedEmpty, FileAgrees, InWindow, Opened, Pending
<1>2. ASSUME NEW s \in Sessions, TakeSnapshot(s) PROVE FilesInv'
  BY <1>2, OpsAre, FilesEnter DEF TakeSnapshot, TypeInv, TypeOK, Threads,
     InMemory, RowFiles
<1>3. ASSUME NEW s \in Sessions, ReadRows(s) PROVE FilesInv'
  <2>1. Added(disk[FileOf[op[s]]], s) \in Content
    <3>1. /\ FileOf[op[s]] \in Files /\ disk[FileOf[op[s]]] \in Content
          /\ disk[FileOf[op[s]]][s] <= wanted[FileOf[op[s]]][s]
      BY <1>3, OpsAre DEF ReadRows, TypeInv, TypeOK, RowsBounded
    <3>2. disk[FileOf[op[s]]][s] < MaxEntries
      BY <1>3, <3>1, BoundAssumption DEF ReadRows, TypeInv, TypeOK, Content
    <3> QED BY <3>1, <3>2, AddedType
  <2> QED BY <1>3, <2>1, FilesEnter DEF ReadRows, InMemory, RowFiles
<1>4. ASSUME NEW s \in Sessions, ThreadStep(s) PROVE FilesInv'
  BY <1>2, <1>3, <1>4, FilesOutside, FilesOpen, FilesWrite, FilesSnapshotFails
     DEF ThreadStep
<1> QED BY <1>1, <1>4, FilesOutside, FilesCrash DEF Next

(* Changes that do not overlap lose nothing, whatever else overlaps or      *)
(* crashes: a file that is neither harmed nor open is readable and holds    *)
(* what is wanted for every session that is not busy with it.               *)
THEOREM FilesAreKept == Spec => []Kept
<1>1. Spec => [](TypeInv /\ FilesInv)
  BY TypeInit, TypeStep, FilesInit, FilesStep, PTL DEF Spec
<1> QED BY <1>1, FilesAgree, PTL
=============================================================================
