------------------------ MODULE KeyEventMemory_proofs ------------------------
(***************************************************************************)
(* Theorems about KeyEventMemory, for any sessions, customers, messages,   *)
(* old files and limits, and any number of turns, runs and starts.         *)
(***************************************************************************)
EXTENDS KeyEventMemory, FiniteSetTheorems, SequenceTheorems,
        WellFoundedInduction, TLAPS

-----------------------------------------------------------------------------
(* Types *)

Messages == CustomerSays \cup AgentSays
AllPoints == Points \cup OldPoints \cup UNION {SeedPoints[u] : u \in SeedUsers}
Outcomes == {"neutral", "successful", "unsuccessful"}
Entry == [points : SUBSET AllPoints, outcome : Outcomes]
Record == [points : SUBSET AllPoints, history : Seq(Entry)]

Formless == [form : {"absent", "empty", "torn"}]
Global1 == [form : {"v1"}, events : [OldEvents -> Nat]]
Global2 == [form : {"v2"}, cues : [Filed -> [Cues -> Nat]],
            counters : [Filed \cup OldEvents -> Nat]]
Users1 == [form : {"v1"}, rows : OldRows]
Users2 == [form : {"v2"}, known : [Keys -> Record]]

Runs == [node : {"messages", "state", "react", "tool_execution", "reflect", "response"},
         session : Sessions, owner : Keys, observed : BOOLEAN, reason : {"conversation_termination", "interactive_exit"},
         key : Keys, messages : Seq(Messages), points : SUBSET Points,
         todo : SUBSET Points, outcome : Outcomes]

Places == {"down", "create_global", "create_user", "migrate_global",
           "migrate_user", "serving", "leaving"}

FilesOK ==
    /\ globalFile \in Formless \cup Global1 \cup Global2
    /\ userFile \in Formless \cup Users1 \cup Users2
    /\ \/ writing = Idle
       \/ writing \in [file : {"global"}, content : Global2]
       \/ writing \in [file : {"user"}, content : Users2]

TalkOK ==
    /\ said \in [Sessions -> Seq(Messages)]
    /\ user \in [Sessions -> Users \cup {None}]
    /\ context \in [Sessions -> [user : Users \cup {None}, points : SUBSET AllPoints]]
    /\ case \in [Sessions -> Customers \cup {Unknown, None}]
    /\ switched \subseteq Sessions /\ mixed \subseteq Keys
    /\ raised \in [Keys -> SUBSET Points] /\ turns \in Nat

RunOK == run = NoRun \/ run \in Runs

TypeOK ==
    /\ at \in Places /\ starts \in Nat /\ cut \in BOOLEAN
    /\ FilesOK /\ TalkOK /\ RunOK

(* What a process has found when it has come so far: no file is missing     *)
(* once it has been created, and none is of version 1 or torn once it has   *)
(* been migrated.                                                           *)
BootInv ==
    /\ at \in {"create_user", "migrate_global"} => globalFile.form # "absent"
    /\ at \in {"migrate_global", "migrate_user"} => userFile.form # "absent"
    /\ at \in {"migrate_user", "serving", "leaving"} => globalFile.form \in {"empty", "v2"}
    /\ at \in {"serving", "leaving"} => userFile.form \in {"empty", "v2"}
    /\ run # NoRun => at \in {"serving", "leaving"}
    /\ writing # Idle => at \notin {"down", "create_global"}
    /\ run # NoRun /\ run.node \in {"reflect", "response"} => writing = Idle
    /\ writing.file = "global" => globalFile.form = "empty"
    /\ writing.file = "user" => userFile.form = "empty"

BaseInv == TypeOK /\ BootInv

(* What the default files say. *)
LEMMA DefaultTypes ==
    /\ DefaultGlobal \in Global2 /\ DefaultGlobal.form = "v2"
    /\ DefaultGlobal.cues = [o \in Filed |-> [c \in Cues |-> 0]]
    /\ DefaultGlobal.counters = [k \in Filed \cup OldEvents |-> 0]
    /\ DefaultUsers \in Users2 /\ DefaultUsers.form = "v2"
    /\ \A k \in Keys : /\ DefaultUsers.known[k] \in Record
                        /\ DefaultUsers.known[k] =
                              IF k \in SeedUsers THEN Seed(k) ELSE NoRecord
<1>1. /\ DefaultGlobal \in Global2 /\ DefaultGlobal.form = "v2"
      /\ DefaultGlobal.cues = [o \in Filed |-> [c \in Cues |-> 0]]
      /\ DefaultGlobal.counters = [k \in Filed \cup OldEvents |-> 0]
  BY DEF DefaultGlobal, Global2
<1>2. OneEntry \in Seq(Entry) /\ <<>> \in Seq(Entry)
  BY DEF OneEntry, Entry, Outcomes
<1>3. /\ \A k \in SeedUsers : Seed(k) \in Record
      /\ NoRecord \in Record
  BY <1>2 DEF Seed, NoRecord, Record, AllPoints
<1> DEFINE known == [k \in Keys |-> IF k \in SeedUsers THEN Seed(k) ELSE NoRecord]
<1>4. /\ known \in [Keys -> Record]
      /\ \A k \in Keys : known[k] = IF k \in SeedUsers THEN Seed(k) ELSE NoRecord
  BY <1>3
<1>5. DefaultUsers = [form |-> "v2", known |-> known]
  BY DEF DefaultUsers
<1> HIDE DEF known
<1>6. DefaultUsers \in Users2 /\ DefaultUsers.form = "v2" /\ DefaultUsers.known = known
  BY <1>4, <1>5 DEF Users2
<1> QED BY <1>1, <1>4, <1>6

(* What is read from a file that is neither torn nor of version 1.          *)
LEMMA ReadTypes ==
    ASSUME TypeOK
    PROVE  /\ globalFile.form \in {"absent", "empty", "v2"} => GlobalNow \in Global2
           /\ userFile.form \in {"absent", "empty", "v2"} => UsersNow \in Users2
           /\ globalFile.form \in {"v1", "v2"} => GlobalNow = globalFile
           /\ userFile.form \in {"v1", "v2"} => UsersNow = userFile
           /\ globalFile.form = "v1" => globalFile \in Global1
           /\ userFile.form = "v1" => userFile \in Users1
           /\ globalFile.form = "v2" => globalFile \in Global2
           /\ userFile.form = "v2" => userFile \in Users2
           /\ globalFile.form \in {"absent", "empty"} => GlobalNow = DefaultGlobal
           /\ userFile.form \in {"absent", "empty"} => UsersNow = DefaultUsers
BY DefaultTypes DEF TypeOK, FilesOK, GlobalNow, UsersNow, Read, Formless, Global1, Global2,
   Users1, Users2
-----------------------------------------------------------------------------
(* What the operators return *)

(* A set of naturals that is not empty has a least element.                 *)
LEMMA LeastNatural ==
    ASSUME NEW S \in SUBSET Nat, S # {}
    PROVE  \E x \in S : \A y \in S : x <= y
<1> DEFINE R == {ss \in Nat \X Nat : ss[1] < ss[2]}
<1>1. R = OpToRel(<, Nat)
  BY DEF OpToRel
<1>2. PICK x \in S : \A y \in S : ~ (<<y, x>> \in R)
  BY <1>1, NatLessThanWellFounded, WFMin, Zenon
<1>3. ASSUME NEW y \in S PROVE x <= y
  <2>1. <<y, x>> \in R <=> y < x
    OBVIOUS
  <2> QED BY <1>2, <2>1
<1> QED BY <1>3

(* LastRow is the last of the rows of a customer who has one.               *)
LEMMA LastRowIsLast ==
    ASSUME NEW rows \in OldRows, NEW k,
           NEW i \in DOMAIN rows, rows[i].user = k
    PROVE  /\ LastRow(rows, k) \in DOMAIN rows /\ rows[LastRow(rows, k)].user = k
           /\ \A j \in DOMAIN rows : rows[j].user = k => j <= LastRow(rows, k)
<1>1. rows \in Seq([user : Keys, points : SUBSET OldPoints])
  BY OldAssumption
<1>2. Len(rows) \in Nat /\ DOMAIN rows = 1 .. Len(rows)
  BY <1>1, LenProperties
<1> DEFINE n == Len(rows)
<1> DEFINE back == {n - j : j \in {j \in 1 .. n : rows[j].user = k}}
<1>3. back \in SUBSET Nat /\ back # {}
  BY <1>2
<1>4. PICK x \in back : \A y \in back : x <= y
  BY <1>3, LeastNatural
<1>5. PICK l \in 1 .. n : rows[l].user = k /\ x = n - l
  BY <1>4
<1>6. ASSUME NEW j \in 1 .. n, rows[j].user = k PROVE j <= l
  <2>1. n - j \in back
    BY <1>6
  <2>2. x <= n - j
    BY <1>4, <2>1
  <2> QED BY <1>2, <1>5, <2>2
<1>7. \E m \in DOMAIN rows :
          rows[m].user = k /\ \A j \in DOMAIN rows : rows[j].user = k => j <= m
  BY <1>2, <1>5, <1>6
<1> QED BY <1>7 DEF LastRow

LEMMA EndArithmetic ==
    ASSUME NEW l \in Nat, NEW n \in Nat \ {0}, ~ (l <= n), NEW m, m = l - n + 1
    PROVE  /\ m \in Int /\ l \in Int /\ m <= l /\ l - m + 1 = n /\ m > 0
           /\ \A i \in 1 .. n : m + i - 1 = i + (l - n) /\ i + (l - n) \in 1 .. l
OBVIOUS

(* LastOf returns the end of a sequence.                                    *)
LEMMA LastOfIsEnd ==
    ASSUME NEW S, NEW s \in Seq(S), NEW n \in Nat \ {0}
    PROVE  /\ LastOf(n, s) \in Seq(S)
           /\ Len(LastOf(n, s)) = IF Len(s) <= n THEN Len(s) ELSE n
           /\ \A i \in 1 .. Len(LastOf(n, s)) :
                 /\ i + (Len(s) - Len(LastOf(n, s))) \in 1 .. Len(s)
                 /\ LastOf(n, s)[i] = s[i + (Len(s) - Len(LastOf(n, s)))]
<1> DEFINE l == Len(s)
<1>1. l \in Nat /\ \A i \in 1 .. l : s[i] \in S
  BY LenProperties, ElementOfSeq
<1> HIDE DEF l
<1>2. CASE l <= n
  <2>1. LastOf(n, s) = s
    BY <1>2 DEF LastOf, l
  <2> QED BY <1>1, <1>2, <2>1 DEF l
<1>3. CASE ~ (l <= n)
  <2> DEFINE m == l - n + 1
  <2>1. LastOf(n, s) = SubSeq(s, m, l)
    BY <1>3 DEF LastOf, l
  <2>7. l \in Nat /\ m = l - n + 1
    BY <1>1
  <2>5. /\ m \in Int /\ l \in Int /\ m <= l /\ l - m + 1 = n /\ m > 0
        /\ \A i \in 1 .. n : m + i - 1 = i + (l - n) /\ i + (l - n) \in 1 .. l
    BY <1>3, <2>7, EndArithmetic
  <2> HIDE DEF m
  <2>2. \A i \in m .. l : s[i] \in S
    BY <1>1, <2>5
  <2>3. /\ SubSeq(s, m, l) \in Seq(S) /\ Len(SubSeq(s, m, l)) = n
        /\ \A i \in 1 .. n : SubSeq(s, m, l)[i] = s[m + i - 1]
    BY <2>2, <2>5, SubSeqProperties
  <2> QED BY <1>3, <2>1, <2>3, <2>5 DEF l
<1> QED BY <1>2, <1>3

(* What is found in messages are points.                                    *)
LEMMA KeyPointType == ASSUME NEW m \in Messages PROVE KeyPoints(m) \subseteq Points
BY DEF KeyPoints, Points, Messages

LEMMA ExtractedType ==
    ASSUME NEW messages \in Seq(Messages)
    PROVE  /\ Extracted(messages) \subseteq Points
           /\ \A p \in Extracted(messages) : \E i \in 1 .. Len(messages) : p \in KeyPoints(messages[i])
<1> DEFINE last == LastOf(PointWindow, messages)
<1>1. /\ last \in Seq(Messages) /\ DOMAIN last = 1 .. Len(last)
      /\ \A i \in 1 .. Len(last) : \E j \in 1 .. Len(messages) : last[i] = messages[j]
  BY LastOfIsEnd, LimitsAssumption, LenProperties
<1>2. \A i \in 1 .. Len(last) : last[i] \in Messages
  BY <1>1, ElementOfSeq
<1> HIDE DEF last
<1>3. Extracted(messages) = UNION {KeyPoints(last[i]) : i \in 1 .. Len(last)}
  BY <1>1 DEF Extracted, PointsAt, last
<1>4. \A i \in 1 .. Len(last) : KeyPoints(last[i]) \subseteq Points
  BY <1>2, KeyPointType
<1> QED BY <1>1, <1>3, <1>4

(* What is written has the type of what was read.                           *)
LEMMA FiledAsType == \A o : FiledAs(o) \in Filed
BY DEF FiledAs, Filed

LEMMA CountedType ==
    ASSUME NEW global \in Global2, NEW o \in Filed, NEW p \in Points
    PROVE  /\ Counted(global, o, p) \in Global2
           /\ Counted(global, o, p).cues =
                 [global.cues EXCEPT ![o] = [global.cues[o] EXCEPT ![p] = @ + 1]]
           /\ Counted(global, o, p).counters = [global.counters EXCEPT ![o] = @ + 1]
<1>1. /\ global.cues \in [Filed -> [Cues -> Nat]] /\ global.counters \in [Filed \cup OldEvents -> Nat]
      /\ global = [form |-> "v2", cues |-> global.cues, counters |-> global.counters]
      /\ p \in Cues /\ o \in Filed \cup OldEvents
  BY DEF Global2, Cues
<1> DEFINE cues == [global.cues EXCEPT ![o] = [global.cues[o] EXCEPT ![p] = @ + 1]]
<1> DEFINE counters == [global.counters EXCEPT ![o] = @ + 1]
<1>2. cues \in [Filed -> [Cues -> Nat]]
  BY <1>1
<1>3. counters \in [Filed \cup OldEvents -> Nat]
  BY <1>1
<1>6. Counted(global, o, p) = [global EXCEPT !.cues = cues, !.counters = counters]
  BY <1>1 DEF Counted
<1> HIDE DEF cues, counters
<1>4. Counted(global, o, p) = [form |-> "v2", cues |-> cues, counters |-> counters]
  <2>1. Counted(global, o, p) = [[global EXCEPT !.cues = cues] EXCEPT !.counters = counters]
    BY <1>6
  <2>2. [global EXCEPT !.cues = cues]
          = [form |-> "v2", cues |-> cues, counters |-> global.counters]
    BY <1>1
  <2> QED BY <2>1, <2>2
<1>5. /\ Counted(global, o, p) \in Global2 /\ Counted(global, o, p).cues = cues
      /\ Counted(global, o, p).counters = counters
  BY <1>2, <1>3, <1>4 DEF Global2
<1> QED BY <1>5 DEF cues, counters

LEMMA MergedType ==
    ASSUME NEW record \in Record, NEW points \in SUBSET Points, run.outcome \in Outcomes
    PROVE  Merged(points, record) \in Record
<1>1. EntryOf(points) \in Entry
  BY DEF Entry, AllPoints, EntryOf
<1>2. Append(record.history, EntryOf(points)) \in Seq(Entry)
  BY <1>1, AppendProperties DEF Record
<1>3. LastOf(HistoryLimit, Append(record.history, EntryOf(points))) \in Seq(Entry)
  BY <1>2, LastOfIsEnd, LimitsAssumption
<1>4. record.points \cup points \in SUBSET AllPoints
  BY DEF Record, AllPoints
<1> QED BY <1>3, <1>4 DEF Merged, Record

LEMMA MigratedGlobalType ==
    ASSUME NEW old \in Global1
    PROVE  /\ MigratedGlobal(old) \in Global2
           /\ \A e \in OldEvents : /\ MigratedGlobal(old).counters[e] = old.events[e]
                                   /\ MigratedGlobal(old).cues["unsuccessful"][e] = old.events[e]
           /\ \A o \in Filed, p \in Points : MigratedGlobal(old).cues[o][p] = 0
           /\ \A o \in Filed : MigratedGlobal(old).counters[o] = 0
<1> DEFINE cues == [c \in Cues |-> IF c \in OldEvents THEN old.events[c] ELSE 0]
<1> DEFINE counters == [k \in Filed \cup OldEvents |-> IF k \in OldEvents THEN old.events[k] ELSE 0]
<1>1. MigratedGlobal(old) =
        [DefaultGlobal EXCEPT !.cues = [DefaultGlobal.cues EXCEPT !["unsuccessful"] = cues],
                              !.counters = counters]
  BY DefaultTypes DEF MigratedGlobal
<1>2. cues \in [Cues -> Nat] /\ counters \in [Filed \cup OldEvents -> Nat]
  BY DEF Global1
<1>3. /\ \A e \in OldEvents : cues[e] = old.events[e] /\ counters[e] = old.events[e]
      /\ \A p \in Points : cues[p] = 0
      /\ \A o \in Filed : counters[o] = 0
  BY UsersAssumption DEF Cues
<1> HIDE DEF cues, counters
<1>4. /\ MigratedGlobal(old).form = "v2" /\ MigratedGlobal(old).counters = counters
      /\ MigratedGlobal(old).cues = [DefaultGlobal.cues EXCEPT !["unsuccessful"] = cues]
      /\ MigratedGlobal(old) \in Global2
  <2>1. /\ DefaultGlobal.cues \in [Filed -> [Cues -> Nat]]
        /\ DefaultGlobal =
              [form |-> "v2", cues |-> DefaultGlobal.cues, counters |-> DefaultGlobal.counters]
    BY DefaultTypes DEF Global2
  <2> DEFINE all == [DefaultGlobal.cues EXCEPT !["unsuccessful"] = cues]
  <2>2. all \in [Filed -> [Cues -> Nat]]
    BY <1>2, <2>1
  <2>5. MigratedGlobal(old) = [DefaultGlobal EXCEPT !.cues = all, !.counters = counters]
    BY <1>1
  <2> HIDE DEF all
  <2>3. MigratedGlobal(old) = [form |-> "v2", cues |-> all, counters |-> counters]
    <3>1. MigratedGlobal(old) = [[DefaultGlobal EXCEPT !.cues = all] EXCEPT !.counters = counters]
      BY <2>5
    <3>2. [DefaultGlobal EXCEPT !.cues = all]
            = [form |-> "v2", cues |-> all, counters |-> DefaultGlobal.counters]
      BY <2>1
    <3> QED BY <3>1, <3>2
  <2>4. /\ MigratedGlobal(old).form = "v2" /\ MigratedGlobal(old).counters = counters
        /\ MigratedGlobal(old).cues = all /\ MigratedGlobal(old) \in Global2
    BY <1>2, <2>2, <2>3 DEF Global2
  <2> QED BY <2>4 DEF all
<1>5. \A o \in Filed, p \in Points : DefaultGlobal.cues[o][p] = 0
  BY DefaultTypes DEF Cues
<1>6. /\ MigratedGlobal(old).cues["unsuccessful"] = cues
      /\ MigratedGlobal(old).cues["successful"] = DefaultGlobal.cues["successful"]
  BY <1>4, DefaultTypes DEF Filed
<1> QED BY <1>3, <1>4, <1>5, <1>6 DEF Filed

LEMMA MigratedUsersType ==
    ASSUME NEW old \in Users1
    PROVE  /\ MigratedUsers(old) \in Users2
           /\ \A k \in Keys :
                 \/ /\ \E i \in DOMAIN old.rows : old.rows[i].user = k
                    /\ LET row == old.rows[LastRow(old.rows, k)] IN
                       /\ row.points \subseteq OldPoints
                       /\ MigratedUsers(old).known[k] =
                            [points |-> row.points,
                             history |-> <<[points |-> row.points, outcome |-> "neutral"]>>]
                 \/ /\ ~ \E i \in DOMAIN old.rows : old.rows[i].user = k
                    /\ MigratedUsers(old).known[k] = DefaultUsers.known[k]
<1> DEFINE record(row) == [points |-> row.points,
                           history |-> <<[points |-> row.points, outcome |-> "neutral"]>>]
<1> DEFINE known(k) == IF \E i \in DOMAIN old.rows : old.rows[i].user = k
                       THEN record(old.rows[LastRow(old.rows, k)])
                       ELSE DefaultUsers.known[k]
<1>1. MigratedUsers(old) = [form |-> "v2", known |-> [k \in Keys |-> known(k)]]
  BY DEF MigratedUsers
<1>2. old.rows \in OldRows /\ old.rows \in Seq([user : Keys, points : SUBSET OldPoints])
  BY OldAssumption DEF Users1
<1>3. ASSUME NEW k \in Keys, \E i \in DOMAIN old.rows : old.rows[i].user = k
      PROVE  /\ old.rows[LastRow(old.rows, k)].points \subseteq OldPoints
             /\ known(k) = record(old.rows[LastRow(old.rows, k)])
             /\ known(k) \in Record
  <2>1. LastRow(old.rows, k) \in DOMAIN old.rows
    BY <1>2, <1>3, LastRowIsLast
  <2>2. old.rows[LastRow(old.rows, k)] \in [user : Keys, points : SUBSET OldPoints]
    BY <1>2, <2>1, LenProperties, ElementOfSeq
  <2> DEFINE row == old.rows[LastRow(old.rows, k)]
  <2>3. row.points \in SUBSET OldPoints /\ known(k) = record(row)
    BY <1>3, <2>2
  <2> HIDE DEF row
  <2>4. [points |-> row.points, outcome |-> "neutral"] \in Entry
    BY <2>3 DEF Entry, AllPoints, Outcomes
  <2>5. record(row) \in Record
    BY <2>3, <2>4 DEF Record, AllPoints
  <2> QED BY <2>3, <2>5 DEF row
<1>4. ASSUME NEW k \in Keys, ~ \E i \in DOMAIN old.rows : old.rows[i].user = k
      PROVE  known(k) = DefaultUsers.known[k] /\ known(k) \in Record
  BY <1>4, DefaultTypes
<1>5. \A k \in Keys : known(k) \in Record /\ MigratedUsers(old).known[k] = known(k)
  BY <1>1, <1>3, <1>4
<1>6. MigratedUsers(old) \in Users2
  BY <1>1, <1>5 DEF Users2
<1> QED BY <1>3, <1>4, <1>5, <1>6
-----------------------------------------------------------------------------
(* Types and places are kept. *)

LEMMA BaseInit == ASSUME Init PROVE BaseInv
<1>1. globalFile \in Formless \cup Global1 /\ globalFile.form \in {"absent", "v1"}
  BY OldAssumption DEF Init, Formless, Global1
<1>2. userFile \in Formless \cup Users1 /\ userFile.form \in {"absent", "v1"}
  BY OldAssumption DEF Init, Formless, Users1
<1>3. FilesOK
  BY <1>1, <1>2 DEF Init, FilesOK
<1>4. said \in [Sessions -> Seq(Messages)]
  BY EmptySeq DEF Init
<1>5. TalkOK
  BY <1>4 DEF Init, TalkOK
<1>6. at \in Places /\ starts \in Nat /\ cut \in BOOLEAN /\ RunOK
  BY DEF Init, Places, RunOK, NoRun
<1>7. BootInv
  BY DEF Init, BootInv, NoRun, Idle
<1> QED BY <1>3, <1>5, <1>6, <1>7 DEF BaseInv, TypeOK

(* A write empties its file, and promises one of version 2.                 *)
LEMMA BeginTypes ==
    ASSUME FilesOK, NEW file, NEW content, Begin(file, content),
           \/ file = "global" /\ content \in Global2
           \/ file = "user" /\ content \in Users2
    PROVE  /\ FilesOK' /\ writing = Idle /\ writing' # Idle
           /\ writing' = [file |-> file, content |-> content]
           /\ file = "global" => globalFile'.form = "empty" /\ userFile' = userFile
           /\ file = "user" => globalFile' = globalFile /\ userFile'.form = "empty"
<1>1. [form |-> "empty"] \in Formless
  BY DEF Formless
<1>2. /\ writing = Idle /\ writing' = [file |-> file, content |-> content]
      /\ file = "global" => globalFile' = [form |-> "empty"] /\ userFile' = userFile
      /\ file = "user" => globalFile' = globalFile /\ userFile' = [form |-> "empty"]
  BY DEF Begin
<1>3. FilesOK'
  BY <1>1, <1>2 DEF FilesOK
<1>4. writing'.file = file /\ Idle.file = "none" /\ writing' # Idle
  BY <1>2 DEF Idle
<1> QED BY <1>2, <1>3, <1>4

(* The files of a starting process.                                         *)
LEMMA BootTypes ==
    ASSUME BaseInv, NEW here, NEW next \in Places, NEW file, NEW due \in BOOLEAN, NEW content,
           BootStep(here, next, file, due, content),
           due => \/ file = "global" /\ content \in Global2
                  \/ file = "user" /\ content \in Users2
    PROVE  /\ TypeOK' /\ at = here /\ at' = next /\ UNCHANGED <<run, was, cut, talk>>
           /\ writing = Idle
           /\ ~due => UNCHANGED <<globalFile, userFile, writing>>
           /\ due => /\ writing' = [file |-> file, content |-> content] /\ writing' # Idle
                     /\ file = "global" => globalFile'.form = "empty" /\ userFile' = userFile
                     /\ file = "user" => globalFile' = globalFile /\ userFile'.form = "empty"
<1>1. FilesOK /\ TalkOK /\ RunOK
  BY DEF BaseInv, TypeOK
<1>2. /\ at = here /\ at' = next /\ writing = Idle
      /\ UNCHANGED starts /\ UNCHANGED talk /\ UNCHANGED run /\ UNCHANGED was /\ UNCHANGED cut
      /\ due => Begin(file, content)
      /\ ~due => UNCHANGED <<globalFile, userFile, writing>>
  BY DEF BootStep, files
<1>3. TalkOK' /\ RunOK'
  BY <1>1, <1>2 DEF talk, TalkOK, RunOK
<1>4. CASE due
  <2>1. /\ Begin(file, content)
        /\ \/ file = "global" /\ content \in Global2
           \/ file = "user" /\ content \in Users2
    BY <1>2, <1>4
  <2>2. /\ FilesOK' /\ writing' # Idle /\ writing' = [file |-> file, content |-> content]
        /\ file = "global" => globalFile'.form = "empty" /\ userFile' = userFile
        /\ file = "user" => globalFile' = globalFile /\ userFile'.form = "empty"
    BY <1>1, <2>1, BeginTypes
  <2> QED BY <1>2, <1>3, <1>4, <2>2 DEF BaseInv, TypeOK
<1>5. CASE ~due
  <2>1. FilesOK'
    BY <1>1, <1>2, <1>5 DEF FilesOK
  <2> QED BY <1>2, <1>3, <1>5, <2>1 DEF BaseInv, TypeOK
<1> QED BY <1>4, <1>5

LEMMA BaseCreateGlobal == ASSUME BaseInv, CreateGlobal PROVE BaseInv'
<1> DEFINE due == globalFile.form = "absent"
<1>1. due \in BOOLEAN /\ DefaultGlobal \in Global2 /\ "create_user" \in Places
  BY DefaultTypes DEF Places
<1>2. BootStep("create_global", "create_user", "global", due, DefaultGlobal)
  BY DEF CreateGlobal
<1> HIDE DEF due
<1>3. /\ TypeOK' /\ at = "create_global" /\ at' = "create_user" /\ run' = run
      /\ writing = Idle
      /\ ~due => UNCHANGED <<globalFile, userFile, writing>>
      /\ due => /\ writing' = [file |-> "global", content |-> DefaultGlobal]
                /\ globalFile'.form = "empty" /\ userFile' = userFile
  BY <1>1, <1>2, BootTypes
<1>4. run = NoRun
  BY <1>3 DEF BaseInv, BootInv
<1>5. BootInv'
  <2>1. CASE due
    BY <1>3, <1>4, <2>1 DEF BootInv, NoRun
  <2>2. CASE ~due
    BY <1>3, <1>4, <2>2 DEF BootInv, NoRun, Idle, due
  <2> QED BY <2>1, <2>2
<1> QED BY <1>3, <1>5 DEF BaseInv

LEMMA BaseCreateUser == ASSUME BaseInv, CreateUser PROVE BaseInv'
<1> DEFINE due == userFile.form = "absent"
<1>1. due \in BOOLEAN /\ DefaultUsers \in Users2 /\ "migrate_global" \in Places
  BY DefaultTypes DEF Places
<1>2. BootStep("create_user", "migrate_global", "user", due, DefaultUsers)
  BY DEF CreateUser
<1> HIDE DEF due
<1>3. /\ TypeOK' /\ at = "create_user" /\ at' = "migrate_global" /\ run' = run
      /\ writing = Idle
      /\ ~due => UNCHANGED <<globalFile, userFile, writing>>
      /\ due => /\ writing' = [file |-> "user", content |-> DefaultUsers]
                /\ globalFile' = globalFile /\ userFile'.form = "empty"
  BY <1>1, <1>2, BootTypes
<1>4. run = NoRun /\ globalFile.form # "absent"
  BY <1>3 DEF BaseInv, BootInv
<1>5. BootInv'
  <2>1. CASE due
    BY <1>3, <1>4, <2>1 DEF BootInv, NoRun
  <2>2. CASE ~due
    BY <1>3, <1>4, <2>2 DEF BootInv, NoRun, Idle, due
  <2> QED BY <2>1, <2>2
<1> QED BY <1>3, <1>5 DEF BaseInv

LEMMA BaseMigrateGlobal ==
    ASSUME BaseInv, MigrateGlobal
    PROVE  /\ BaseInv' /\ (GlobalNow = globalFile \/ GlobalNow = DefaultGlobal)
           /\ GlobalNow.form = "v1" => globalFile \in Global1
<1> DEFINE due == GlobalNow.form = "v1"
<1>1. "migrate_user" \in Places /\ globalFile.form # "torn" /\ at = "migrate_global"
  BY DEF MigrateGlobal, BootStep, Places
<1>2. globalFile.form \in {"empty", "v1", "v2"}
  BY <1>1 DEF BaseInv, BootInv, TypeOK, FilesOK, Formless, Global1, Global2
<1>3. /\ due <=> globalFile.form = "v1"
      /\ due => globalFile \in Global1
      /\ GlobalNow = globalFile \/ GlobalNow = DefaultGlobal
  BY <1>2, ReadTypes, DefaultTypes DEF BaseInv
<1>4. due \in BOOLEAN
  OBVIOUS
<1>5. BootStep("migrate_global", "migrate_user", "global", due, MigratedGlobal(globalFile))
  BY DEF MigrateGlobal
<1> HIDE DEF due
<1>6. due => MigratedGlobal(globalFile) \in Global2
  BY <1>3, MigratedGlobalType
<1>7. /\ TypeOK' /\ at' = "migrate_user" /\ run' = run /\ writing = Idle
      /\ ~due => UNCHANGED <<globalFile, userFile, writing>>
      /\ due => /\ writing' = [file |-> "global", content |-> MigratedGlobal(globalFile)]
                /\ globalFile'.form = "empty" /\ userFile' = userFile
  BY <1>1, <1>4, <1>5, <1>6, BootTypes
<1>8. run = NoRun /\ userFile.form # "absent"
  BY <1>1 DEF BaseInv, BootInv
<1>9. BootInv'
  <2>1. CASE due
    BY <1>7, <1>8, <2>1 DEF BootInv, NoRun
  <2>2. CASE ~due
    BY <1>2, <1>3, <1>7, <1>8, <2>2 DEF BootInv, NoRun, Idle
  <2> QED BY <2>1, <2>2
<1> QED BY <1>3, <1>7, <1>9 DEF BaseInv, due

LEMMA BaseMigrateUser ==
    ASSUME BaseInv, MigrateUser
    PROVE  /\ BaseInv' /\ (UsersNow = userFile \/ UsersNow = DefaultUsers)
           /\ UsersNow.form = "v1" => userFile \in Users1
<1> DEFINE due == UsersNow.form = "v1"
<1>1. "serving" \in Places /\ userFile.form # "torn" /\ at = "migrate_user"
  BY DEF MigrateUser, BootStep, Places
<1>2. userFile.form \in {"empty", "v1", "v2"}
  BY <1>1 DEF BaseInv, BootInv, TypeOK, FilesOK, Formless, Users1, Users2
<1>3. /\ due <=> userFile.form = "v1"
      /\ due => userFile \in Users1
      /\ UsersNow = userFile \/ UsersNow = DefaultUsers
  BY <1>2, ReadTypes, DefaultTypes DEF BaseInv
<1>4. due \in BOOLEAN
  OBVIOUS
<1>5. BootStep("migrate_user", "serving", "user", due, MigratedUsers(userFile))
  BY DEF MigrateUser
<1> HIDE DEF due
<1>6. due => MigratedUsers(userFile) \in Users2
  BY <1>3, MigratedUsersType
<1>7. /\ TypeOK' /\ at' = "serving" /\ run' = run /\ writing = Idle
      /\ ~due => UNCHANGED <<globalFile, userFile, writing>>
      /\ due => /\ writing' = [file |-> "user", content |-> MigratedUsers(userFile)]
                /\ globalFile' = globalFile /\ userFile'.form = "empty"
  BY <1>1, <1>4, <1>5, <1>6, BootTypes
<1>8. run = NoRun /\ globalFile.form \in {"empty", "v2"}
  BY <1>1 DEF BaseInv, BootInv
<1>9. BootInv'
  <2>1. CASE due
    BY <1>7, <1>8, <2>1 DEF BootInv, NoRun
  <2>2. CASE ~due
    BY <1>2, <1>3, <1>7, <1>8, <2>2 DEF BootInv, NoRun, Idle
  <2> QED BY <2>1, <2>2
<1> QED BY <1>3, <1>7, <1>9 DEF BaseInv, due

LEMMA BaseStart == ASSUME BaseInv, Start PROVE BaseInv'
<1>1. /\ TalkOK' /\ RunOK' /\ FilesOK' /\ at' \in Places /\ starts' \in Nat /\ cut' \in BOOLEAN
  BY DEF Start, BaseInv, TypeOK, talk, files, TalkOK, RunOK, FilesOK, Places
<1>2. BootInv'
  BY DEF Start, BaseInv, BootInv, files
<1> QED BY <1>1, <1>2 DEF BaseInv, TypeOK

LEMMA BaseStartFails == ASSUME BaseInv, StartFails PROVE BaseInv'
<1>1. /\ TalkOK' /\ RunOK' /\ FilesOK' /\ at' \in Places /\ starts' \in Nat /\ cut' \in BOOLEAN
  BY DEF StartFails, BaseInv, TypeOK, talk, files, TalkOK, RunOK, FilesOK, Places
<1>2. BootInv'
  BY DEF StartFails, BaseInv, BootInv, files, Idle
<1> QED BY <1>1, <1>2 DEF BaseInv, TypeOK

LEMMA BaseFinish == ASSUME BaseInv, Finish PROVE BaseInv'
<1>1. TalkOK' /\ RunOK' /\ at' \in Places /\ starts' \in Nat /\ cut' \in BOOLEAN
  BY DEF Finish, BaseInv, TypeOK, talk, TalkOK, RunOK
<1>2. \/ /\ writing \in [file : {"global"}, content : Global2]
         /\ globalFile' = writing.content /\ userFile' = userFile
         /\ writing.file = "global" /\ globalFile' \in Global2 /\ globalFile'.form = "v2"
      \/ /\ writing \in [file : {"user"}, content : Users2]
         /\ globalFile' = globalFile /\ userFile' = writing.content
         /\ writing.file = "user" /\ userFile' \in Users2 /\ userFile'.form = "v2"
  BY DEF Finish, BaseInv, TypeOK, FilesOK, Global2, Users2
<1>3. FilesOK'
  BY <1>2 DEF Finish, BaseInv, TypeOK, FilesOK
<1>4. BootInv'
  BY <1>2 DEF Finish, BaseInv, BootInv, Idle
<1> QED BY <1>1, <1>3, <1>4 DEF BaseInv, TypeOK

LEMMA BaseCrash == ASSUME BaseInv, Crash PROVE BaseInv'
<1>1. /\ TalkOK' /\ RunOK' /\ at' \in Places /\ starts' \in Nat /\ cut' \in BOOLEAN
  BY DEF Crash, BaseInv, TypeOK, talk, TalkOK, RunOK, Places
<1>2. FilesOK'
  BY DEF Crash, BaseInv, TypeOK, FilesOK, Formless
<1>3. BootInv'
  BY DEF Crash, BootInv, NoRun, Idle
<1> QED BY <1>1, <1>2, <1>3 DEF BaseInv, TypeOK

(* The helper's nodes change only the run, and write while it goes on.      *)
LEMMA ServingFiles ==
    ASSUME BaseInv, run # NoRun
    PROVE  /\ run \in Runs /\ at \in {"serving", "leaving"}
           /\ GlobalNow \in Global2 /\ UsersNow \in Users2
           /\ GlobalNow.form = "v2" /\ UsersNow.form = "v2"
<1>1. at \in {"serving", "leaving"} /\ globalFile.form \in {"empty", "v2"}
      /\ userFile.form \in {"empty", "v2"}
  BY DEF BaseInv, BootInv
<1>2. GlobalNow \in Global2 /\ UsersNow \in Users2
  BY <1>1, ReadTypes DEF BaseInv
<1> QED BY <1>1, <1>2 DEF BaseInv, TypeOK, RunOK, Global2, Users2

LEMMA BaseReact ==
    ASSUME BaseInv, React
    PROVE  /\ BaseInv' /\ run \in Runs /\ run' \in Runs
           /\ Extracted(run.messages) \in SUBSET Points /\ Outcome \in Outcomes
           /\ UNCHANGED <<files, talk, was, cut, at>>
<1>1. run \in Runs /\ run.node = "react" /\ at \in {"serving", "leaving"} /\ writing = Idle
  BY ServingFiles DEF React, NoRun
<1>2. run.messages \in Seq(Messages)
  BY <1>1 DEF Runs
<1>3. Extracted(run.messages) \in SUBSET Points /\ Outcome \in Outcomes
  BY <1>2, ExtractedType DEF Outcome, Outcomes
<1>4. /\ run' \in Runs /\ run'.node \in {"reflect", "tool_execution"}
      /\ UNCHANGED <<at, starts>> /\ UNCHANGED files /\ UNCHANGED talk /\ UNCHANGED was
      /\ UNCHANGED cut
  BY <1>1, <1>3 DEF React, Runs
<1>5. TypeOK'
  BY <1>4 DEF BaseInv, TypeOK, TalkOK, FilesOK, RunOK, talk, files
<1>6. BootInv'
  BY <1>1, <1>4 DEF BaseInv, BootInv, files, Idle
<1> QED BY <1>1, <1>3, <1>4, <1>5, <1>6 DEF BaseInv

LEMMA BaseReflect == ASSUME BaseInv, Reflect PROVE BaseInv' /\ run' \in Runs /\ run \in Runs
<1>1. run \in Runs /\ run.node = "reflect" /\ at \in {"serving", "leaving"} /\ writing = Idle
  BY ServingFiles DEF Reflect, NoRun
<1>2. /\ run' \in Runs /\ UNCHANGED <<at, starts>> /\ UNCHANGED files /\ UNCHANGED talk
      /\ UNCHANGED was /\ UNCHANGED cut
  BY <1>1 DEF Reflect, Runs
<1>3. TypeOK'
  BY <1>2 DEF BaseInv, TypeOK, TalkOK, FilesOK, RunOK, talk, files
<1>4. BootInv'
  BY <1>1, <1>2 DEF BaseInv, BootInv, files, Idle
<1> QED BY <1>1, <1>2, <1>3, <1>4 DEF BaseInv

LEMMA BaseRespond == ASSUME BaseInv, Respond PROVE BaseInv'
<1>1. run \in Runs /\ run.node = "response" /\ at \in {"serving", "leaving"} /\ run # NoRun
  BY ServingFiles DEF Respond, NoRun
<1>2. /\ run' = NoRun /\ UNCHANGED starts /\ UNCHANGED files /\ UNCHANGED talk
      /\ UNCHANGED was /\ UNCHANGED cut /\ at' \in {"down", at} /\ writing = Idle
  BY <1>1 DEF Respond, BaseInv, BootInv
<1>3. TypeOK'
  BY <1>1, <1>2 DEF BaseInv, TypeOK, TalkOK, FilesOK, RunOK, talk, files, Places
<1>4. BootInv'
  BY <1>1, <1>2 DEF BaseInv, BootInv, files, Idle
<1> QED BY <1>3, <1>4 DEF BaseInv

(* One cue is counted in what the file says.                                *)
LEMMA BaseUpsertCue ==
    ASSUME BaseInv, UpsertCue
    PROVE  /\ BaseInv' /\ run \in Runs /\ run' \in Runs /\ run.node = "tool_execution"
           /\ GlobalNow \in Global2 /\ UsersNow \in Users2 /\ writing = Idle
           /\ UNCHANGED <<at, starts, was, cut, userFile>> /\ UNCHANGED talk
           /\ \E p \in run.todo :
                 /\ p \in Points
                 /\ writing' = [file |-> "global",
                                content |-> Counted(GlobalNow, FiledAs(run.outcome), p)]
                 /\ run' = [run EXCEPT !.todo = @ \ {p}]
<1>1. run.node = "tool_execution" /\ run # NoRun
  BY DEF UpsertCue, NoRun
<1>2. run \in Runs /\ at \in {"serving", "leaving"} /\ GlobalNow \in Global2 /\ UsersNow \in Users2
  BY <1>1, ServingFiles
<1>3. PICK p \in run.todo :
        /\ Begin("global", Counted(GlobalNow, FiledAs(run.outcome), p))
        /\ run' = [run EXCEPT !.todo = @ \ {p}]
  BY DEF UpsertCue
<1>4. p \in Points
  BY <1>2 DEF Runs
<1>5. Counted(GlobalNow, FiledAs(run.outcome), p) \in Global2
  BY <1>2, <1>4, CountedType, FiledAsType
<1>6. /\ FilesOK' /\ writing = Idle
      /\ writing' = [file |-> "global", content |-> Counted(GlobalNow, FiledAs(run.outcome), p)]
      /\ globalFile'.form = "empty" /\ userFile' = userFile
  BY <1>3, <1>5, BeginTypes DEF BaseInv, TypeOK
<1>7. run' \in Runs /\ run'.node = "tool_execution"
  BY <1>1, <1>2, <1>3 DEF Runs
<1>8. UNCHANGED <<at, starts, was, cut>> /\ UNCHANGED talk
  BY DEF UpsertCue
<1>9. TypeOK'
  BY <1>6, <1>7, <1>8 DEF BaseInv, TypeOK, TalkOK, RunOK, talk
<1>10. BootInv'
  BY <1>1, <1>2, <1>6, <1>7, <1>8 DEF BaseInv, BootInv
<1> QED BY <1>1, <1>2, <1>3, <1>4, <1>6, <1>7, <1>8, <1>9, <1>10 DEF BaseInv

(* The record of the run's customer is put into what the file says.         *)
LEMMA BaseUpsertUser ==
    ASSUME BaseInv, UpsertUser
    PROVE  /\ BaseInv' /\ run \in Runs /\ run' \in Runs /\ run.node = "tool_execution"
           /\ GlobalNow \in Global2 /\ UsersNow \in Users2 /\ writing = Idle
           /\ UNCHANGED <<at, starts, was, cut, globalFile>> /\ UNCHANGED talk
           /\ run.todo = {} /\ run' = [run EXCEPT !.node = "react", !.observed = TRUE]
           /\ UsersNow.known[run.key] \in Record
           /\ Merged(run.points, UsersNow.known[run.key]) \in Record
           /\ writing' = [file |-> "user",
                          content |-> [UsersNow EXCEPT !.known = [UsersNow.known EXCEPT
                             ![run.key] = Merged(run.points, UsersNow.known[run.key])]]]
<1>1. run.node = "tool_execution" /\ run # NoRun
  BY DEF UpsertUser, NoRun
<1>2. run \in Runs /\ at \in {"serving", "leaving"} /\ GlobalNow \in Global2 /\ UsersNow \in Users2
  BY <1>1, ServingFiles
<1>3. run.key \in Keys /\ run.points \in SUBSET Points /\ run.outcome \in Outcomes
  BY <1>2 DEF Runs
<1> DEFINE record == Merged(run.points, UsersNow.known[run.key])
<1> DEFINE content == [UsersNow EXCEPT !.known = [UsersNow.known EXCEPT ![run.key] = record]]
<1>4. UsersNow.known \in [Keys -> Record] /\ UsersNow = [form |-> "v2", known |-> UsersNow.known]
  BY <1>2 DEF Users2
<1>5. UsersNow.known[run.key] \in Record /\ record \in Record
  BY <1>3, <1>4, MergedType
<1>6. Begin("user", content)
  BY DEF UpsertUser
<1> HIDE DEF record
<1>7. [UsersNow.known EXCEPT ![run.key] = record] \in [Keys -> Record]
  BY <1>4, <1>5
<1>8. content \in Users2
  BY <1>4, <1>7 DEF Users2
<1> HIDE DEF content
<1>9. /\ FilesOK' /\ writing = Idle /\ writing' = [file |-> "user", content |-> content]
      /\ globalFile' = globalFile /\ userFile'.form = "empty"
  BY <1>6, <1>8, BeginTypes DEF BaseInv, TypeOK
<1>10. run.todo = {} /\ run' = [run EXCEPT !.node = "react", !.observed = TRUE]
  BY DEF UpsertUser, Observation
<1>11. run' \in Runs /\ run'.node = "react"
  BY <1>2, <1>10 DEF Runs
<1>12. UNCHANGED <<at, starts, was, cut>> /\ UNCHANGED talk
  BY DEF UpsertUser
<1>13. TypeOK'
  BY <1>9, <1>11, <1>12 DEF BaseInv, TypeOK, TalkOK, RunOK, talk
<1>14. BootInv'
  BY <1>1, <1>2, <1>9, <1>11, <1>12 DEF BaseInv, BootInv
<1> QED BY <1>1, <1>2, <1>5, <1>9, <1>10, <1>11, <1>12, <1>13, <1>14 DEF BaseInv, content, record

(* The helper reads the messages, and then whose they are.                  *)
LEMMA OwnerType ==
    ASSUME TalkOK, NEW s \in Sessions
    PROVE  /\ OwnerOf(user[s], s) \in Keys /\ FiledFor(s) \in Keys
           /\ said[s] \in Seq(Messages)
           /\ user[s] = None /\ case[s] \notin Customers => FiledFor(s) = OwnerOf(user[s], s)
           /\ user[s] # None => FiledFor(s) = OwnerOf(user[s], s)
BY UsersAssumption DEF TalkOK, OwnerOf, FiledFor, Keys

LEMMA BaseReadMessages ==
    ASSUME BaseInv, ReadMessages
    PROVE  /\ BaseInv' /\ run \in Runs /\ run' \in Runs /\ run.node = "messages"
           /\ run' = [run EXCEPT !.node = "state", !.messages = said[run.session],
                                 !.owner = OwnerOf(user[run.session], run.session)]
           /\ UNCHANGED <<files, talk, was, cut, at>>
<1>1. run.node = "messages" /\ run # NoRun
  BY DEF ReadMessages, NoRun
<1>2. run \in Runs /\ at \in {"serving", "leaving"}
  BY <1>1, ServingFiles
<1>3. run.session \in Sessions
  BY <1>2 DEF Runs
<1>4. OwnerOf(user[run.session], run.session) \in Keys /\ said[run.session] \in Seq(Messages)
  BY <1>3, OwnerType DEF BaseInv, TypeOK
<1>5. /\ run' = [run EXCEPT !.node = "state", !.messages = said[run.session],
                            !.owner = OwnerOf(user[run.session], run.session)]
      /\ UNCHANGED <<at, starts>> /\ UNCHANGED files /\ UNCHANGED talk
      /\ UNCHANGED was /\ UNCHANGED cut
  BY DEF ReadMessages
<1>6. run' \in Runs /\ run'.node = "state"
  BY <1>2, <1>4, <1>5 DEF Runs
<1>7. TypeOK'
  BY <1>5, <1>6 DEF BaseInv, TypeOK, TalkOK, FilesOK, RunOK, talk, files
<1>8. BootInv'
  BY <1>1, <1>2, <1>5, <1>6 DEF BaseInv, BootInv, files
<1> QED BY <1>1, <1>2, <1>5, <1>6, <1>7, <1>8 DEF BaseInv

LEMMA BaseReadState ==
    ASSUME BaseInv, ReadState
    PROVE  /\ BaseInv' /\ run \in Runs /\ run' \in Runs /\ run.node = "state"
           /\ run' = [run EXCEPT !.node = "react", !.key = FiledFor(run.session)]
           /\ UNCHANGED <<was, cut, at>> /\ UNCHANGED files
           /\ UNCHANGED <<said, user, case, context, switched, turns, raised>>
           /\ mixed' = IF run.owner = OwnerOf(user[run.session], run.session) THEN mixed
                       ELSE mixed \cup {OwnerOf(user[run.session], run.session)}
<1>1. run.node = "state" /\ run # NoRun
  BY DEF ReadState, NoRun
<1>2. run \in Runs /\ at \in {"serving", "leaving"}
  BY <1>1, ServingFiles
<1>3. run.session \in Sessions
  BY <1>2 DEF Runs
<1>4. OwnerOf(user[run.session], run.session) \in Keys /\ FiledFor(run.session) \in Keys
  BY <1>3, OwnerType DEF BaseInv, TypeOK
<1>5. /\ run' = [run EXCEPT !.node = "react", !.key = FiledFor(run.session)]
      /\ mixed' = IF run.owner = OwnerOf(user[run.session], run.session) THEN mixed
                  ELSE mixed \cup {OwnerOf(user[run.session], run.session)}
      /\ UNCHANGED <<at, starts>> /\ UNCHANGED files
      /\ UNCHANGED <<said, user, case, context, switched, turns, raised>>
      /\ UNCHANGED was /\ UNCHANGED cut
  BY DEF ReadState
<1>6. run' \in Runs /\ run'.node = "react"
  BY <1>2, <1>4, <1>5 DEF Runs
<1>7. mixed' \subseteq Keys
  BY <1>4, <1>5 DEF BaseInv, TypeOK, TalkOK
<1>8. TypeOK'
  BY <1>5, <1>6, <1>7 DEF BaseInv, TypeOK, TalkOK, FilesOK, RunOK, files
<1>9. BootInv'
  BY <1>1, <1>2, <1>5, <1>6 DEF BaseInv, BootInv, files
<1> QED BY <1>1, <1>2, <1>5, <1>6, <1>8, <1>9 DEF BaseInv

(* The case and the customer a step leaves a session with: only a session   *)
(* whose case there is not, or that has none yet, has no customer.          *)
LEMMA HydratedType ==
    ASSUME NEW c \in Customers \cup {Unknown, None}, NEW u \in Users \cup {None}
    PROVE  /\ Hydrated(c, u).user \in Users \cup {None}
           /\ Hydrated(c, u).case \in Customers \cup {Unknown, None}
           /\ Hydrated(c, u).user = None => Hydrated(c, u).case \notin Customers
BY UsersAssumption DEF Hydrated

LEMMA NamedType ==
    ASSUME TalkOK, NEW s \in Sessions, NEW mention \in Mentions
    PROVE  /\ CaseNamed(s, mention) \in Customers \cup {Unknown, None}
           /\ Resolved(s, mention) \in Users \cup {None}
           /\ mention.customer \in Users \cup {None}
<1>1. mention.case \in Customers \cup {Unknown, None} /\ mention.customer \in Users \cup {None}
  BY UsersAssumption
<1>2. case[s] \in Customers \cup {Unknown, None} /\ user[s] \in Users \cup {None}
  BY DEF TalkOK
<1>3. CaseNamed(s, mention) \in Customers \cup {Unknown, None}
  BY <1>1, <1>2, UsersAssumption DEF CaseNamed
<1> QED BY <1>1, <1>2, <1>3, UsersAssumption DEF Resolved

LEMMA RequestType ==
    ASSUME NEW s \in Sessions,
           NEW reason \in {"conversation_termination", "interactive_exit"}
    PROVE  /\ Request(s, reason) \in Runs /\ Request(s, reason).node = "messages"
           /\ Request(s, reason).points = {} /\ Request(s, reason).todo = {}
<1>1. <<>> \in Seq(Messages)
  BY EmptySeq
<1> QED BY <1>1 DEF Request, Runs, Outcomes, Keys

LEMMA MixedType ==
    ASSUME TalkOK, NEW s \in Sessions, NEW u \in Users \cup {None}, TakesOver(s, u)
    PROVE  mixed' \subseteq Keys
BY DEF TalkOK, TakesOver, OwnerOf, Keys

(* What the planner is given has a type whenever the file can be read.      *)
LEMMA MemoryType ==
    ASSUME UsersNow \in Users2, NEW u \in Users \cup {None}
    PROVE  /\ MemoryOf(u) \in [user : Users \cup {None}, points : SUBSET AllPoints]
           /\ MemoryOf(u).user = u
           /\ u # None => MemoryOf(u).points = UsersNow.known[u].points
<1>1. u # None => UsersNow.known[u].points \in SUBSET AllPoints
  BY DEF Users2, Record, Keys
<1> QED BY <1>1 DEF MemoryOf

LEMMA BaseTurn ==
    ASSUME BaseInv, NEW s \in Sessions, NEW question \in CustomerSays, NEW answer \in AgentSays,
           NEW mention \in Mentions, NEW closing \in BOOLEAN,
           Turn(s, question, answer, mention, closing)
    PROVE  /\ BaseInv' /\ UsersNow \in Users2 /\ at = "serving"
           /\ UNCHANGED <<at, starts, was, cut>> /\ UNCHANGED files
           /\ closing => run = NoRun
           /\ run' = IF closing THEN Request(s, "conversation_termination") ELSE run
<1> DEFINE known == Resolved(s, mention)
<1> DEFINE now == Hydrated(CaseNamed(s, mention), known)
<1>1. /\ TalkOK /\ FilesOK /\ RunOK /\ BootInv /\ at = "serving"
      /\ known \in Users \cup {None}
      /\ now.user \in Users \cup {None} /\ now.case \in Customers \cup {Unknown, None}
  BY NamedType, HydratedType DEF BaseInv, TypeOK, Turn, Ready
<1>14. /\ said' = [said EXCEPT ![s] = said[s] \o <<question, answer>>]
       /\ user' = [user EXCEPT ![s] = now.user] /\ case' = [case EXCEPT ![s] = now.case]
       /\ context' = [context EXCEPT ![s] = MemoryOf(known)]
       /\ switched' \in {switched \ {s}, switched \cup {s}}
       /\ raised' = [raised EXCEPT ![OwnerOf(now.user, s)] =
             raised[OwnerOf(now.user, s)] \cup KeyPoints(question) \cup KeyPoints(answer)]
       /\ TakesOver(s, now.user) /\ turns' = turns + 1
  BY DEF Turn, Another
<1>10. /\ run' = IF closing THEN Request(s, "conversation_termination") ELSE run
       /\ UNCHANGED <<at, starts, was, cut>> /\ UNCHANGED files /\ (closing => run = NoRun)
  BY DEF Turn
<1> HIDE DEF known, now
<1>2. userFile.form \in {"empty", "v2"} /\ UsersNow \in Users2
  BY <1>1, ReadTypes DEF BaseInv, BootInv
<1>4. said' \in [Sessions -> Seq(Messages)]
  <2>1. question \in Messages /\ answer \in Messages
    BY DEF Messages
  <2>2. said[s] \in Seq(Messages) /\ <<question, answer>> \in Seq(Messages)
    BY <1>1, <2>1 DEF TalkOK
  <2>3. said[s] \o <<question, answer>> \in Seq(Messages)
    BY <2>2, ConcatProperties
  <2> QED BY <1>1, <1>14, <2>3 DEF TalkOK
<1>5. /\ user' \in [Sessions -> Users \cup {None}]
      /\ case' \in [Sessions -> Customers \cup {Unknown, None}]
  BY <1>1, <1>14 DEF TalkOK
<1>6. context' \in [Sessions -> [user : Users \cup {None}, points : SUBSET AllPoints]]
  <2>1. MemoryOf(known) \in [user : Users \cup {None}, points : SUBSET AllPoints]
    BY <1>1, <1>2, MemoryType
  <2> QED BY <1>1, <1>14, <2>1 DEF TalkOK
<1>7. switched' \subseteq Sessions /\ mixed' \subseteq Keys /\ turns' \in Nat
  BY <1>1, <1>14, MixedType DEF TalkOK
<1>8. raised' \in [Keys -> SUBSET Points]
  <2>1. KeyPoints(question) \subseteq Points /\ KeyPoints(answer) \subseteq Points
    BY KeyPointType DEF Messages
  <2>2. OwnerOf(now.user, s) \in Keys
    BY <1>1 DEF OwnerOf, Keys
  <2>3. raised[OwnerOf(now.user, s)] \cup KeyPoints(question) \cup KeyPoints(answer)
            \in SUBSET Points
    BY <1>1, <2>1, <2>2 DEF TalkOK
  <2> QED BY <1>1, <1>14, <2>2, <2>3 DEF TalkOK
<1>9. TalkOK'
  BY <1>4, <1>5, <1>6, <1>7, <1>8 DEF TalkOK
<1>11. run' = run \/ (run' \in Runs /\ run'.node = "messages")
  BY <1>10, RequestType
<1>12. FilesOK' /\ RunOK'
  BY <1>1, <1>10, <1>11 DEF FilesOK, RunOK, files
<1>13. BootInv'
  BY <1>1, <1>10, <1>11 DEF BootInv, files
<1> QED BY <1>1, <1>2, <1>9, <1>10, <1>12, <1>13 DEF BaseInv, TypeOK

LEMMA BaseAdminMessage ==
    ASSUME BaseInv, NEW s \in Sessions, NEW mention \in Mentions, AdminMessage(s, mention)
    PROVE  /\ BaseInv' /\ UNCHANGED <<at, starts, run, was, cut>> /\ UNCHANGED files
           /\ \E c \in Customers \cup {Unknown, None}, u \in Users \cup {None} :
                 /\ user' = [user EXCEPT ![s] = Hydrated(c, u).user]
                 /\ case' = [case EXCEPT ![s] = Hydrated(c, u).case]
                 /\ switched' = IF Hydrated(c, u).user = user[s] THEN switched
                                ELSE switched \cup {s}
                 /\ TakesOver(s, Hydrated(c, u).user)
           /\ UNCHANGED <<said, context, raised>>
<1> DEFINE u == IF mention.customer # None THEN mention.customer ELSE user[s]
<1> DEFINE c == IF mention.case = None /\ u \in Customers THEN u ELSE CaseNamed(s, mention)
<1> DEFINE now == Hydrated(c, u)
<1>1. TalkOK /\ FilesOK /\ RunOK /\ BootInv
  BY DEF BaseInv, TypeOK
<1>2. /\ user' = [user EXCEPT ![s] = now.user] /\ case' = [case EXCEPT ![s] = now.case]
      /\ switched' = IF now.user = user[s] THEN switched ELSE switched \cup {s}
      /\ TakesOver(s, now.user) /\ turns' = turns + 1
      /\ UNCHANGED <<at, starts, run, was, cut>> /\ UNCHANGED files
      /\ UNCHANGED <<said, context, raised>>
  BY DEF AdminMessage, Another
<1>3. u \in Users \cup {None} /\ c \in Customers \cup {Unknown, None}
  BY <1>1, NamedType DEF TalkOK
<1> HIDE DEF u, c
<1>4. now.user \in Users \cup {None} /\ now.case \in Customers \cup {Unknown, None}
  BY <1>3, HydratedType
<1> HIDE DEF now
<1>5. mixed' \subseteq Keys
  BY <1>1, <1>2, <1>4, MixedType
<1>6. TalkOK'
  BY <1>1, <1>2, <1>4, <1>5 DEF TalkOK
<1>7. FilesOK' /\ RunOK' /\ BootInv'
  BY <1>1, <1>2 DEF files, FilesOK, RunOK, BootInv
<1> QED BY <1>1, <1>2, <1>3, <1>6, <1>7 DEF BaseInv, TypeOK, now

LEMMA BaseReset ==
    ASSUME BaseInv, NEW s \in Sessions, NEW owner \in Customers \cup {None}, Reset(s, owner),
           switched' \subseteq Sessions
    PROVE  BaseInv' /\ UNCHANGED <<at, starts, run, was, cut>> /\ UNCHANGED files
<1>1. TalkOK /\ FilesOK /\ RunOK /\ BootInv
  BY DEF BaseInv, TypeOK
<1>2. said' = [said EXCEPT ![s] = <<>>] /\ said' \in [Sessions -> Seq(Messages)]
  BY <1>1 DEF Reset, TalkOK
<1>3. owner \in Users \cup {None}
  BY UsersAssumption
<1>4. TalkOK'
  BY <1>1, <1>2, <1>3 DEF Reset, Another, TalkOK
<1>5. UNCHANGED <<at, starts, run, was, cut>> /\ UNCHANGED files
  BY DEF Reset
<1>6. FilesOK' /\ RunOK' /\ BootInv'
  BY <1>1, <1>5 DEF files, FilesOK, RunOK, BootInv
<1> QED BY <1>1, <1>4, <1>5, <1>6 DEF BaseInv, TypeOK

LEMMA BaseStartConversation ==
    ASSUME BaseInv, NEW s \in Sessions, NEW u \in Customers, StartConversation(s, u)
    PROVE  BaseInv' /\ UNCHANGED <<at, starts, run, was, cut>> /\ UNCHANGED files
BY BaseReset DEF StartConversation, BaseInv, TypeOK, TalkOK

LEMMA BaseResetConversation ==
    ASSUME BaseInv, NEW s \in Sessions, ResetConversation(s)
    PROVE  BaseInv' /\ UNCHANGED <<at, starts, run, was, cut>> /\ UNCHANGED files
BY BaseReset DEF ResetConversation, BaseInv, TypeOK, TalkOK

LEMMA BaseExit ==
    ASSUME BaseInv, NEW s \in Sessions, Exit(s)
    PROVE  /\ BaseInv' /\ UNCHANGED talk /\ UNCHANGED files /\ UNCHANGED <<was, cut>>
           /\ run = NoRun /\ run' = Request(s, "interactive_exit")
<1>1. TalkOK /\ FilesOK /\ RunOK /\ BootInv
  BY DEF BaseInv, TypeOK
<1>2. /\ UNCHANGED talk /\ UNCHANGED files /\ UNCHANGED <<starts, was, cut>> /\ run = NoRun
      /\ run' = Request(s, "interactive_exit") /\ at = "serving" /\ at' = "leaving"
  BY DEF Exit, Ready
<1>3. TalkOK' /\ FilesOK'
  BY <1>1, <1>2 DEF talk, files, TalkOK, FilesOK
<1>4. run' \in Runs /\ run'.node = "messages"
  BY <1>2, RequestType
<1>5. BootInv'
  BY <1>1, <1>2, <1>4 DEF BootInv, files
<1> QED BY <1>2, <1>3, <1>4, <1>5 DEF BaseInv, TypeOK, RunOK, Places

LEMMA BaseStep == ASSUME BaseInv, [Next]_vars PROVE BaseInv'
<1>1. CASE Start BY <1>1, BaseStart
<1>2. CASE Boot
  BY <1>2, BaseCreateGlobal, BaseCreateUser, BaseMigrateGlobal, BaseMigrateUser,
     BaseStartFails DEF Boot
<1>3. CASE Helper
  BY <1>3, BaseReadMessages, BaseReadState, BaseReact, BaseUpsertCue, BaseUpsertUser,
     BaseReflect, BaseRespond, BaseFinish DEF Helper
<1>4. CASE Crash BY <1>4, BaseCrash
<1>5. CASE \E s \in Sessions : Dialogue(s)
  BY <1>5, BaseTurn, BaseAdminMessage, BaseStartConversation, BaseResetConversation,
     BaseExit DEF Dialogue
<1>6. CASE UNCHANGED vars
  BY <1>6 DEF vars, files, talk, BaseInv, TypeOK, FilesOK, TalkOK, RunOK, BootInv
<1> QED BY <1>1, <1>2, <1>3, <1>4, <1>5, <1>6 DEF Next

LEMMA BaseInvariant == Spec => []BaseInv
BY BaseInit, BaseStep, PTL DEF Spec

(* Every variable keeps its type: in particular no file is ever written     *)
(* but with a whole content of version 2, whatever was in the one that was  *)
(* read (_write_json of the repository).                                    *)
THEOREM TypeCorrect == Spec => []TypeOK
BY BaseInvariant, PTL DEF BaseInv
-----------------------------------------------------------------------------
(* What the files say *)

(* What the global file says, or will say when the write under way is done. *)
SettledGlobal ==
    IF writing # Idle /\ writing.file = "global" THEN writing.content ELSE GlobalNow

LEMMA SettledTypes ==
    ASSUME BaseInv
    PROVE  /\ Settled \in Formless \cup Users1 \cup Users2
           /\ SettledGlobal \in Formless \cup Global1 \cup Global2
           /\ Settled.form = "v1" => Settled \in Users1
           /\ Settled.form = "v2" => Settled \in Users2
           /\ SettledGlobal.form = "v1" => SettledGlobal \in Global1
           /\ SettledGlobal.form = "v2" => SettledGlobal \in Global2
           /\ writing = Idle => Settled = UsersNow /\ SettledGlobal = GlobalNow
<1>1. UsersNow \in Formless \cup Users1 \cup Users2 /\ GlobalNow \in Formless \cup Global1 \cup Global2
  BY DefaultTypes DEF BaseInv, TypeOK, FilesOK, UsersNow, GlobalNow, Read
<1>2. Settled \in Formless \cup Users1 \cup Users2
  BY <1>1 DEF Settled, BaseInv, TypeOK, FilesOK, Idle
<1>3. SettledGlobal \in Formless \cup Global1 \cup Global2
  BY <1>1 DEF SettledGlobal, BaseInv, TypeOK, FilesOK, Idle
<1>4. /\ Settled.form = "v1" => Settled \in Users1
      /\ Settled.form = "v2" => Settled \in Users2
      /\ SettledGlobal.form = "v1" => SettledGlobal \in Global1
      /\ SettledGlobal.form = "v2" => SettledGlobal \in Global2
  BY <1>2, <1>3 DEF Formless, Users1, Users2, Global1, Global2
<1> QED BY <1>2, <1>3, <1>4 DEF Settled, SettledGlobal

LEMMA SettledUnchanged ==
    ASSUME UNCHANGED <<globalFile, userFile, writing>>
    PROVE  Settled' = Settled /\ SettledGlobal' = SettledGlobal
BY DEF Settled, SettledGlobal, UsersNow, GlobalNow

(* Only a migration or the helper's tool changes what the files say, unless *)
(* a write is cut.                                                          *)
SettledStep ==
    \/ Settled' = Settled /\ SettledGlobal' = SettledGlobal
    \/ /\ MigrateGlobal /\ SettledGlobal \in Global1
       /\ SettledGlobal' = MigratedGlobal(SettledGlobal) /\ Settled' = Settled
    \/ /\ MigrateUser /\ Settled \in Users1
       /\ Settled' = MigratedUsers(Settled) /\ SettledGlobal' = SettledGlobal
    \/ UpsertCue /\ Settled' = Settled
    \/ UpsertUser /\ SettledGlobal' = SettledGlobal

LEMMA SettledCreates ==
    ASSUME BaseInv, CreateGlobal \/ CreateUser
    PROVE  Settled' = Settled /\ SettledGlobal' = SettledGlobal
<1>1. CASE CreateGlobal
  <2> DEFINE due == globalFile.form = "absent"
  <2>1. BootStep("create_global", "create_user", "global", due, DefaultGlobal)
    BY <1>1 DEF CreateGlobal
  <2>2. CASE due
    <3>1. due \in BOOLEAN /\ DefaultGlobal \in Global2 /\ "create_user" \in Places
      BY DefaultTypes DEF Places
    <3>2. /\ writing' = [file |-> "global", content |-> DefaultGlobal] /\ writing' # Idle
          /\ userFile' = userFile /\ writing = Idle
      BY <2>1, <2>2, <3>1, BootTypes
    <3>3. GlobalNow = DefaultGlobal
      BY <2>2 DEF GlobalNow, Read
    <3> QED BY <3>2, <3>3 DEF Settled, SettledGlobal, UsersNow
  <2>3. CASE ~due
    <3>1. UNCHANGED <<globalFile, userFile, writing>>
      BY <2>1, <2>3 DEF BootStep, files
    <3> QED BY <3>1, SettledUnchanged
  <2> QED BY <2>2, <2>3
<1>2. CASE CreateUser
  <2> DEFINE due == userFile.form = "absent"
  <2>1. BootStep("create_user", "migrate_global", "user", due, DefaultUsers)
    BY <1>2 DEF CreateUser
  <2>2. CASE due
    <3>1. due \in BOOLEAN /\ DefaultUsers \in Users2 /\ "migrate_global" \in Places
      BY DefaultTypes DEF Places
    <3>2. /\ writing' = [file |-> "user", content |-> DefaultUsers] /\ writing' # Idle
          /\ globalFile' = globalFile /\ writing = Idle
      BY <2>1, <2>2, <3>1, BootTypes
    <3>3. UsersNow = DefaultUsers
      BY <2>2 DEF UsersNow, Read
    <3> QED BY <3>2, <3>3 DEF Settled, SettledGlobal, GlobalNow
  <2>3. CASE ~due
    <3>1. UNCHANGED <<globalFile, userFile, writing>>
      BY <2>1, <2>3 DEF BootStep, files
    <3> QED BY <3>1, SettledUnchanged
  <2> QED BY <2>2, <2>3
<1> QED BY <1>1, <1>2

LEMMA SettledMigrateGlobal ==
    ASSUME BaseInv, MigrateGlobal
    PROVE  /\ Settled' = Settled /\ run' = run
           /\ \/ SettledGlobal' = SettledGlobal
              \/ /\ SettledGlobal \in Global1 /\ SettledGlobal.form = "v1"
                 /\ SettledGlobal' = MigratedGlobal(SettledGlobal)
<1> DEFINE due == GlobalNow.form = "v1"
<1>1. BootStep("migrate_global", "migrate_user", "global", due, MigratedGlobal(globalFile))
  BY DEF MigrateGlobal
<1>2. writing = Idle /\ due \in BOOLEAN /\ "migrate_user" \in Places /\ run' = run
  BY <1>1 DEF BootStep, Places
<1>5. due <=> GlobalNow.form = "v1"
  OBVIOUS
<1> HIDE DEF due
<1>3. CASE due
  <2>1. globalFile \in Global1 /\ GlobalNow = globalFile
    BY <1>3, <1>5, BaseMigrateGlobal, DefaultTypes
  <2>2. MigratedGlobal(globalFile) \in Global2
    BY <2>1, MigratedGlobalType
  <2>3. /\ writing' = [file |-> "global", content |-> MigratedGlobal(globalFile)]
        /\ writing' # Idle /\ userFile' = userFile
    BY <1>1, <1>2, <1>3, <2>2, BootTypes
  <2>4. SettledGlobal = globalFile
    BY <1>2, <2>1 DEF SettledGlobal
  <2>5. SettledGlobal' = MigratedGlobal(globalFile)
    BY <2>3 DEF SettledGlobal
  <2>6. Settled' = Settled
    BY <1>2, <2>3 DEF Settled, UsersNow
  <2> QED BY <1>2, <1>3, <1>5, <2>1, <2>4, <2>5, <2>6
<1>4. CASE ~due
  <2>1. UNCHANGED <<globalFile, userFile, writing>>
    BY <1>1, <1>4 DEF BootStep, files
  <2> QED BY <1>2, <2>1, SettledUnchanged
<1> QED BY <1>3, <1>4

LEMMA SettledMigrateUser ==
    ASSUME BaseInv, MigrateUser
    PROVE  /\ SettledGlobal' = SettledGlobal /\ run' = run
           /\ \/ Settled' = Settled
              \/ /\ Settled \in Users1 /\ Settled.form = "v1"
                 /\ Settled' = MigratedUsers(Settled)
<1> DEFINE due == UsersNow.form = "v1"
<1>1. BootStep("migrate_user", "serving", "user", due, MigratedUsers(userFile))
  BY DEF MigrateUser
<1>2. writing = Idle /\ due \in BOOLEAN /\ "serving" \in Places /\ run' = run
  BY <1>1 DEF BootStep, Places
<1>5. due <=> UsersNow.form = "v1"
  OBVIOUS
<1> HIDE DEF due
<1>3. CASE due
  <2>1. userFile \in Users1 /\ UsersNow = userFile
    BY <1>3, <1>5, BaseMigrateUser, DefaultTypes
  <2>2. MigratedUsers(userFile) \in Users2
    BY <2>1, MigratedUsersType
  <2>3. /\ writing' = [file |-> "user", content |-> MigratedUsers(userFile)]
        /\ writing' # Idle /\ globalFile' = globalFile
    BY <1>1, <1>2, <1>3, <2>2, BootTypes
  <2>4. Settled = userFile
    BY <1>2, <2>1 DEF Settled
  <2>5. Settled' = MigratedUsers(userFile)
    BY <2>3 DEF Settled
  <2>6. SettledGlobal' = SettledGlobal
    BY <1>2, <2>3 DEF SettledGlobal, GlobalNow
  <2> QED BY <1>2, <1>3, <1>5, <2>1, <2>4, <2>5, <2>6
<1>4. CASE ~due
  <2>1. UNCHANGED <<globalFile, userFile, writing>>
    BY <1>1, <1>4 DEF BootStep, files
  <2> QED BY <1>2, <2>1, SettledUnchanged
<1> QED BY <1>3, <1>4

LEMMA SettledFinish ==
    ASSUME BaseInv, Finish
    PROVE  Settled' = Settled /\ SettledGlobal' = SettledGlobal
<1>1. \/ /\ writing # Idle /\ writing.file = "global" /\ writing.content \in Global2
         /\ globalFile' = writing.content /\ userFile' = userFile
      \/ /\ writing # Idle /\ writing.file = "user" /\ writing.content \in Users2
         /\ globalFile' = globalFile /\ userFile' = writing.content
  BY DEF Finish, BaseInv, TypeOK, FilesOK
<1>2. writing' = Idle
  BY DEF Finish
<1> QED BY <1>1, <1>2 DEF Settled, SettledGlobal, UsersNow, GlobalNow, Read, Global2, Users2

LEMMA SettledUpsertCue ==
    ASSUME BaseInv, UpsertCue
    PROVE  /\ Settled' = Settled /\ SettledGlobal \in Global2 /\ Settled \in Users2
           /\ \E p \in run.todo :
                 /\ p \in Points /\ run' = [run EXCEPT !.todo = @ \ {p}]
                 /\ SettledGlobal' = Counted(SettledGlobal, FiledAs(run.outcome), p)
<1>1. PICK p \in run.todo :
         /\ p \in Points /\ run' = [run EXCEPT !.todo = @ \ {p}]
         /\ writing' = [file |-> "global", content |-> Counted(GlobalNow, FiledAs(run.outcome), p)]
  BY BaseUpsertCue
<1>2. /\ writing = Idle /\ userFile' = userFile /\ GlobalNow \in Global2 /\ UsersNow \in Users2
  BY BaseUpsertCue
<1>3. writing' # Idle /\ writing'.file = "global"
  BY <1>1 DEF Idle
<1>4. SettledGlobal = GlobalNow /\ Settled = UsersNow
  BY <1>2 DEF SettledGlobal, Settled
<1>5. SettledGlobal' = Counted(GlobalNow, FiledAs(run.outcome), p)
  BY <1>1, <1>3 DEF SettledGlobal
<1>6. Settled' = UsersNow
  BY <1>2, <1>3 DEF Settled, UsersNow
<1> QED BY <1>1, <1>2, <1>4, <1>5, <1>6

LEMMA SettledUpsertUser ==
    ASSUME BaseInv, UpsertUser
    PROVE  /\ SettledGlobal' = SettledGlobal /\ SettledGlobal \in Global2
           /\ Settled \in Users2 /\ Settled' \in Users2 /\ run.key \in Keys
           /\ Settled.known[run.key] \in Record
           /\ Settled'.known = [Settled.known EXCEPT
                 ![run.key] = Merged(run.points, Settled.known[run.key])]
<1>1. /\ writing = Idle /\ UsersNow \in Users2 /\ globalFile' = globalFile
      /\ run.key \in Keys /\ Merged(run.points, UsersNow.known[run.key]) \in Record
      /\ UsersNow.known[run.key] \in Record /\ GlobalNow \in Global2
      /\ writing' = [file |-> "user",
                     content |-> [UsersNow EXCEPT !.known = [UsersNow.known EXCEPT
                             ![run.key] = Merged(run.points, UsersNow.known[run.key])]]]
  BY BaseUpsertUser DEF Runs
<1> DEFINE record == Merged(run.points, UsersNow.known[run.key])
<1> DEFINE known == [UsersNow.known EXCEPT ![run.key] = record]
<1>2. UsersNow = [form |-> "v2", known |-> UsersNow.known] /\ UsersNow.known \in [Keys -> Record]
  BY <1>1 DEF Users2
<1>3. known \in [Keys -> Record]
  BY <1>1, <1>2
<1> HIDE DEF record, known
<1>4. writing' = [file |-> "user", content |-> [UsersNow EXCEPT !.known = known]]
  BY <1>1 DEF known, record
<1>5. [UsersNow EXCEPT !.known = known] = [form |-> "v2", known |-> known]
  BY <1>2
<1>6. writing' # Idle /\ writing'.file = "user" /\ writing'.content = [form |-> "v2", known |-> known]
  BY <1>4, <1>5 DEF Idle
<1>7. Settled' = [form |-> "v2", known |-> known] /\ Settled' \in Users2
  BY <1>3, <1>6 DEF Settled, Users2
<1>8. Settled = UsersNow
  BY <1>1 DEF Settled
<1>9. SettledGlobal' = SettledGlobal /\ SettledGlobal = GlobalNow
  BY <1>1, <1>6 DEF SettledGlobal, GlobalNow
<1>10. Settled'.known = known
  BY <1>7
<1> QED BY <1>1, <1>7, <1>8, <1>9, <1>10 DEF known, record

(* No conversation touches a file. *)
LEMMA DialogueKeeps ==
    ASSUME NEW s \in Sessions, Dialogue(s)
    PROVE  UNCHANGED files /\ UNCHANGED <<was, cut>>
<1>1. ASSUME NEW question \in CustomerSays, NEW answer \in AgentSays, NEW mention \in Mentions,
             NEW closing \in BOOLEAN, Turn(s, question, answer, mention, closing)
      PROVE  UNCHANGED files /\ UNCHANGED <<was, cut>>
  BY <1>1 DEF Turn
<1>2. ASSUME NEW mention \in Mentions, AdminMessage(s, mention)
      PROVE  UNCHANGED files /\ UNCHANGED <<was, cut>>
  BY <1>2 DEF AdminMessage
<1>3. ASSUME NEW u \in Customers, StartConversation(s, u)
      PROVE  UNCHANGED files /\ UNCHANGED <<was, cut>>
  BY <1>3 DEF StartConversation, Reset
<1>4. CASE ResetConversation(s)
  BY <1>4 DEF ResetConversation, Reset
<1>5. CASE Exit(s)
  BY <1>5 DEF Exit
<1> QED BY <1>1, <1>2, <1>3, <1>4, <1>5 DEF Dialogue

LEMMA SettledSteps ==
    ASSUME BaseInv, [Next]_vars, ~cut'
    PROVE  ~cut /\ SettledStep
<1>1. CASE Start
  BY <1>1, SettledUnchanged DEF Start, SettledStep, files
<1>2. CASE Boot
  <2>1. cut' = cut
    BY <1>2 DEF Boot, CreateGlobal, CreateUser, MigrateGlobal, MigrateUser, BootStep, StartFails
  <2>2. CASE StartFails
    BY <2>1, <2>2, SettledUnchanged DEF StartFails, SettledStep, files
  <2>3. CASE CreateGlobal \/ CreateUser
    BY <2>1, <2>3, SettledCreates DEF SettledStep
  <2>4. CASE MigrateGlobal
    BY <2>1, <2>4, SettledMigrateGlobal DEF SettledStep
  <2>5. CASE MigrateUser
    BY <2>1, <2>5, SettledMigrateUser DEF SettledStep
  <2> QED BY <1>2, <2>2, <2>3, <2>4, <2>5 DEF Boot
<1>3. CASE Helper
  <2>1. cut' = cut
    BY <1>3 DEF Helper, ReadMessages, ReadState, React, Reflect, Respond, UpsertCue,
       UpsertUser, Finish
  <2>2. CASE ReadMessages \/ ReadState \/ React \/ Reflect \/ Respond
    BY <2>1, <2>2, SettledUnchanged DEF ReadMessages, ReadState, React, Reflect, Respond,
       SettledStep, files
  <2>3. CASE UpsertCue
    BY <2>1, <2>3, SettledUpsertCue DEF SettledStep
  <2>4. CASE UpsertUser
    BY <2>1, <2>4, SettledUpsertUser DEF SettledStep
  <2>5. CASE Finish
    BY <2>1, <2>5, SettledFinish DEF SettledStep
  <2> QED BY <1>3, <2>2, <2>3, <2>4, <2>5 DEF Helper
<1>4. CASE Crash
  <2>1. ~cut /\ writing = Idle /\ writing' = Idle
    BY <1>4 DEF Crash, BaseInv, TypeOK
  <2>2. globalFile' = globalFile /\ userFile' = userFile
    BY <1>4, <2>1 DEF Crash, Idle
  <2> QED BY <2>1, <2>2, SettledUnchanged DEF SettledStep
<1>5. CASE \E s \in Sessions : Dialogue(s)
  <2>1. UNCHANGED files /\ UNCHANGED cut
    BY <1>5, DialogueKeeps
  <2> QED BY <2>1, SettledUnchanged DEF files, SettledStep
<1>6. CASE UNCHANGED vars
  BY <1>6, SettledUnchanged DEF vars, files, SettledStep
<1> QED BY <1>1, <1>2, <1>3, <1>4, <1>5, <1>6 DEF Next

(* What the user file says of a customer only grows.                        *)
LEMMA PointsGrow ==
    ASSUME BaseInv, [Next]_vars, ~cut', Settled.form = "v2"
    PROVE  /\ ~cut /\ Settled'.form = "v2"
           /\ \A k \in Keys : Settled.known[k].points \subseteq Settled'.known[k].points
<1>1. ~cut /\ SettledStep
  BY SettledSteps
<1>2. CASE Settled' = Settled
  BY <1>1, <1>2
<1>3. CASE UpsertUser
  <2>1. /\ Settled \in Users2 /\ run.key \in Keys /\ Settled' \in Users2
        /\ Settled'.known = [Settled.known EXCEPT
               ![run.key] = Merged(run.points, Settled.known[run.key])]
    BY <1>3, SettledUpsertUser
  <2>2. Settled.known \in [Keys -> Record] /\ Settled'.form = "v2"
    BY <2>1 DEF Users2
  <2>3. Settled.known[run.key].points \subseteq Merged(run.points, Settled.known[run.key]).points
    BY DEF Merged
  <2> QED BY <1>1, <2>1, <2>2, <2>3
<1> QED BY <1>1, <1>2, <1>3 DEF SettledStep, Users1

(* Key points of a customer are added to, never taken away, by any run,     *)
(* start or turn that no crash meets: upsert_user_memory merges, and a      *)
(* migration is of a file that had none (repository.py, upsert_user_memory  *)
(* and _migrate_if_needed).                                                 *)
THEOREM PointsAreKept == Spec => PointsOnlyGrow
<1> DEFINE Grow == ~cut' /\ Settled.form = "v2" =>
                     \A k \in Keys : Settled.known[k].points \subseteq Settled'.known[k].points
<1>1. ASSUME BaseInv, [Next]_vars PROVE Grow
  BY <1>1, PointsGrow
<1>2. BaseInv /\ [Next]_vars => [Grow]_vars
  BY <1>1
<1>3. Spec => [][Grow]_vars
  BY <1>2, BaseInvariant, PTL DEF Spec
<1> QED BY <1>3 DEF PointsOnlyGrow
-----------------------------------------------------------------------------
(* The old memory *)

(* Before it is migrated the old memory is there as it was.                 *)
OldGlobalKept(global) ==
    \A e \in OldEvents : /\ global.counters[e] = was.global.events[e]
                         /\ global.cues["unsuccessful"][e] = was.global.events[e]
OldUsersKept(known) ==
    \A i \in DOMAIN was.users.rows :
        \/ was.users.rows[i].points \subseteq known[was.users.rows[i].user].points
        \/ \E j \in DOMAIN was.users.rows :
              j > i /\ was.users.rows[j].user = was.users.rows[i].user

OldInv ==
    /\ was.global \in Formless \cup Global1 /\ was.users \in Formless \cup Users1
    /\ ~cut =>
          /\ SettledGlobal.form = "v1" => SettledGlobal = was.global
          /\ Settled.form = "v1" => Settled = was.users
          /\ SettledGlobal.form = "v2" /\ was.global.form = "v1" =>
                OldGlobalKept(SettledGlobal)
          /\ Settled.form = "v2" /\ was.users.form = "v1" => OldUsersKept(Settled.known)

LEMMA OldInit == ASSUME Init PROVE OldInv
<1>1. /\ \/ globalFile \in Formless /\ globalFile.form = "absent"
         \/ globalFile \in Global1 /\ globalFile.form = "v1"
      /\ \/ userFile \in Formless /\ userFile.form = "absent"
         \/ userFile \in Users1 /\ userFile.form = "v1"
      /\ was.global = globalFile /\ was.users = userFile /\ writing = Idle
  BY OldAssumption DEF Init, Formless, Global1, Users1
<1>2. /\ globalFile.form = "absent" => SettledGlobal.form = "v2"
      /\ globalFile.form = "v1" => SettledGlobal = globalFile
      /\ userFile.form = "absent" => Settled.form = "v2"
      /\ userFile.form = "v1" => Settled = userFile
  BY <1>1, DefaultTypes DEF SettledGlobal, Settled, GlobalNow, UsersNow, Read
<1> QED BY <1>1, <1>2 DEF OldInv

LEMMA WasUnchanged == ASSUME [Next]_vars PROVE was' = was
<1>1. CASE Start \/ Boot \/ Helper \/ Crash \/ UNCHANGED vars
  BY <1>1 DEF Start, Boot, CreateGlobal, CreateUser, MigrateGlobal, MigrateUser, BootStep,
     StartFails, Helper, ReadMessages, ReadState, React, UpsertCue, UpsertUser, Reflect,
     Respond, Finish, Crash, vars
<1>2. CASE \E s \in Sessions : Dialogue(s)
  BY <1>2, DialogueKeeps
<1> QED BY <1>1, <1>2 DEF Next

(* A cue that is counted is none of the old ones.                           *)
LEMMA OldGlobalStep ==
    ASSUME NEW global \in Global2, NEW o \in Filed, NEW p \in Points, OldGlobalKept(global)
    PROVE  OldGlobalKept(Counted(global, o, p))
<1>9. global.cues \in [Filed -> [Cues -> Nat]] /\ global.counters \in [Filed \cup OldEvents -> Nat]
  BY DEF Global2
<1>1. /\ Counted(global, o, p).cues =
                 [global.cues EXCEPT ![o] = [global.cues[o] EXCEPT ![p] = @ + 1]]
      /\ Counted(global, o, p).counters = [global.counters EXCEPT ![o] = @ + 1]
  BY CountedType
<1>2. "unsuccessful" \in Filed
  BY DEF Filed
<1> SUFFICES ASSUME NEW e \in OldEvents
             PROVE  /\ Counted(global, o, p).counters[e] = was.global.events[e]
                    /\ Counted(global, o, p).cues["unsuccessful"][e] = was.global.events[e]
  BY DEF OldGlobalKept
<1>3. e # o /\ e # p /\ e \in Cues
  BY UsersAssumption DEF Cues
<1>4. /\ global.counters[e] = was.global.events[e]
      /\ global.cues["unsuccessful"][e] = was.global.events[e]
  BY DEF OldGlobalKept
<1> DEFINE row == [global.cues[o] EXCEPT ![p] = @ + 1]
<1>5. row[e] = global.cues[o][e]
  BY <1>3, <1>9
<1> HIDE DEF row
<1>6. Counted(global, o, p).cues = [global.cues EXCEPT ![o] = row]
  BY <1>1 DEF row
<1>7. Counted(global, o, p).cues["unsuccessful"][e] = global.cues["unsuccessful"][e]
  BY <1>2, <1>5, <1>6, <1>9
<1>8. Counted(global, o, p).counters[e] = global.counters[e]
  BY <1>1, <1>3, <1>9
<1> QED BY <1>4, <1>7, <1>8

(* A migration takes the last row of every customer.                        *)
LEMMA OldUsersMigrated ==
    ASSUME NEW old \in Users1, old = was.users
    PROVE  OldUsersKept(MigratedUsers(old).known)
<1>1. old.rows \in OldRows /\ old.rows \in Seq([user : Keys, points : SUBSET OldPoints])
  BY OldAssumption DEF Users1
<1> SUFFICES ASSUME NEW i \in DOMAIN old.rows
             PROVE  \/ old.rows[i].points \subseteq
                          MigratedUsers(old).known[old.rows[i].user].points
                    \/ \E j \in DOMAIN old.rows : j > i /\ old.rows[j].user = old.rows[i].user
  BY DEF OldUsersKept
<1> DEFINE k == old.rows[i].user
<1>2. k \in Keys
  <2>1. old.rows[i] \in [user : Keys, points : SUBSET OldPoints]
    BY <1>1, LenProperties, ElementOfSeq
  <2> QED BY <2>1 DEF Keys
<1>3. LastRow(old.rows, k) \in DOMAIN old.rows /\ old.rows[LastRow(old.rows, k)].user = k
      /\ i <= LastRow(old.rows, k)
  BY <1>1, LastRowIsLast
<1>5. i \in Nat /\ LastRow(old.rows, k) \in Nat
  BY <1>1, <1>3, LenProperties
<1>8. \E j \in DOMAIN old.rows : old.rows[j].user = k
  OBVIOUS
<1> HIDE DEF k
<1>4. MigratedUsers(old).known[k].points = old.rows[LastRow(old.rows, k)].points
  <2> DEFINE row == old.rows[LastRow(old.rows, k)]
  <2>1. MigratedUsers(old).known[k] =
           [points |-> row.points,
            history |-> <<[points |-> row.points, outcome |-> "neutral"]>>]
    BY <1>2, <1>8, MigratedUsersType
  <2> QED BY <2>1
<1>6. CASE LastRow(old.rows, k) = i
  BY <1>4, <1>6 DEF k
<1>7. CASE LastRow(old.rows, k) > i
  BY <1>3, <1>7 DEF k
<1> QED BY <1>3, <1>5, <1>6, <1>7

LEMMA OldStep == ASSUME BaseInv, OldInv, [Next]_vars PROVE OldInv'
<1>1. was' = was
  BY WasUnchanged
<1>2. CASE cut'
  BY <1>1, <1>2 DEF OldInv
<1>3. CASE ~cut'
  <2>1. ~cut /\ SettledStep
    BY <1>3, SettledSteps
  <2>2. CASE Settled' = Settled /\ SettledGlobal' = SettledGlobal
    BY <1>1, <2>1, <2>2 DEF OldInv, OldGlobalKept, OldUsersKept
  <2>3. CASE /\ MigrateGlobal /\ SettledGlobal \in Global1
             /\ SettledGlobal' = MigratedGlobal(SettledGlobal) /\ Settled' = Settled
    <3>1. SettledGlobal = was.global
      BY <2>1, <2>3 DEF OldInv, Global1
    <3>2. /\ SettledGlobal'.form = "v2"
          /\ \A e \in OldEvents :
                /\ SettledGlobal'.counters[e] = SettledGlobal.events[e]
                /\ SettledGlobal'.cues["unsuccessful"][e] = SettledGlobal.events[e]
      BY <2>3, MigratedGlobalType DEF Global2
    <3> QED BY <1>1, <2>1, <2>3, <3>1, <3>2 DEF OldInv, OldGlobalKept, OldUsersKept
  <2>4. CASE /\ MigrateUser /\ Settled \in Users1
             /\ Settled' = MigratedUsers(Settled) /\ SettledGlobal' = SettledGlobal
    <3>1. Settled = was.users
      BY <2>1, <2>4 DEF OldInv, Users1
    <3>2. Settled'.form = "v2" /\ OldUsersKept(Settled'.known)
      BY <2>4, <3>1, MigratedUsersType, OldUsersMigrated DEF Users2
    <3> QED BY <1>1, <2>1, <2>4, <3>2 DEF OldInv, OldGlobalKept, OldUsersKept
  <2>5. CASE UpsertCue /\ Settled' = Settled
    <3>1. SettledGlobal \in Global2 /\ SettledGlobal.form = "v2"
      BY <2>5, SettledUpsertCue DEF Global2
    <3>2. PICK p \in Points : SettledGlobal' = Counted(SettledGlobal, FiledAs(run.outcome), p)
      BY <2>5, SettledUpsertCue
    <3>3. was.global.form = "v1" => OldGlobalKept(SettledGlobal')
      BY <2>1, <3>1, <3>2, OldGlobalStep, FiledAsType DEF OldInv
    <3>4. SettledGlobal'.form = "v2"
      <4>1. Counted(SettledGlobal, FiledAs(run.outcome), p) \in Global2
        BY <3>1, CountedType, FiledAsType
      <4> QED BY <3>2, <4>1 DEF Global2
    <3> QED BY <1>1, <2>1, <2>5, <3>3, <3>4 DEF OldInv, OldGlobalKept, OldUsersKept
  <2>6. CASE UpsertUser /\ SettledGlobal' = SettledGlobal
    <3>1. Settled.form = "v2" /\ Settled'.form = "v2"
      BY <2>6, SettledUpsertUser DEF Users2
    <3>2. \A k \in Keys : Settled.known[k].points \subseteq Settled'.known[k].points
      BY <1>3, <3>1, PointsGrow
    <3>3. was.users.form = "v1" => OldUsersKept(Settled'.known)
      <4> SUFFICES ASSUME was.users.form = "v1", NEW i \in DOMAIN was.users.rows
                   PROVE  \/ was.users.rows[i].points \subseteq
                                Settled'.known[was.users.rows[i].user].points
                          \/ \E j \in DOMAIN was.users.rows :
                                j > i /\ was.users.rows[j].user = was.users.rows[i].user
        BY DEF OldUsersKept
      <4>1. was.users.rows \in Seq([user : Keys, points : SUBSET OldPoints])
        BY OldAssumption DEF OldInv, Formless, Users1
      <4>2. was.users.rows[i] \in [user : Keys, points : SUBSET OldPoints]
        BY <4>1, LenProperties, ElementOfSeq
      <4>3. was.users.rows[i].user \in Keys
        BY <4>2 DEF Keys
      <4> QED BY <2>1, <3>1, <3>2, <4>3 DEF OldInv, OldUsersKept
    <3> QED BY <1>1, <2>1, <2>6, <3>1, <3>3 DEF OldInv, OldGlobalKept, OldUsersKept
  <2> QED BY <2>1, <2>2, <2>3, <2>4, <2>5, <2>6 DEF SettledStep
<1> QED BY <1>2, <1>3

(* What version 1 has counted, and the key events of the last session of    *)
(* each of its customers, are there after any number of starts and runs     *)
(* that no crash meets (repository.py, _migrate_global_payload and          *)
(* _migrate_user_payload).                                                  *)
THEOREM OldMemoryIsKept == Spec => []OldMemoryKept
<1>1. ASSUME BaseInv, OldInv PROVE OldMemoryKept
  <2> SUFFICES ASSUME Quiet PROVE OldMemoryKept
    BY DEF OldMemoryKept
  <2>1. at = "serving" /\ writing = Idle /\ ~cut
    BY DEF Quiet
  <2>2. globalFile.form \in {"empty", "v2"} /\ userFile.form \in {"empty", "v2"}
    BY <1>1, <2>1 DEF BaseInv, BootInv
  <2>3. GlobalNow.form = "v2" /\ UsersNow.form = "v2"
    BY <1>1, <2>2, ReadTypes DEF BaseInv, Global2, Users2
  <2>4. SettledGlobal = GlobalNow /\ Settled = UsersNow
    BY <1>1, <2>1, SettledTypes
  <2> QED BY <1>1, <2>1, <2>3, <2>4 DEF OldInv, OldMemoryKept, OldGlobalKept, OldUsersKept
<1>2. Spec => []OldInv
  <2>1. Init => OldInv
    BY OldInit
  <2>2. BaseInv /\ OldInv /\ [Next]_vars => OldInv'
    BY OldStep
  <2> QED BY <2>1, <2>2, BaseInvariant, PTL DEF Spec
<1> QED BY <1>1, <1>2, BaseInvariant, PTL
-----------------------------------------------------------------------------
(* The memory a turn is given *)

(* Once a customer's memory was given to the planner, there is one.         *)
Given(known, c) ==
    c.points \subseteq known[c.user].points \cup DefaultUsers.known[c.user].points

ContextInv ==
    \A s \in Sessions :
        /\ s \notin switched => context[s].user = user[s]
        /\ ~cut /\ context[s].user # None =>
              Settled.form = "v2" /\ Given(Settled.known, context[s])

(* A step that leaves a context alone adds to the memory at most.           *)
LEMMA ContextKept ==
    ASSUME BaseInv, ContextInv, [Next]_vars, NEW s \in Sessions, context'[s] = context[s],
           ~cut', context[s].user # None
    PROVE  Settled'.form = "v2" /\ Given(Settled'.known, context'[s])
<1>1. ~cut
  BY SettledSteps
<1>2. Settled.form = "v2" /\ Given(Settled.known, context[s])
  BY <1>1 DEF ContextInv
<1>3. context[s].user \in Keys
  BY DEF BaseInv, TypeOK, TalkOK, Keys
<1>4. /\ Settled'.form = "v2"
      /\ Settled.known[context[s].user].points \subseteq Settled'.known[context[s].user].points
  BY <1>2, <1>3, PointsGrow
<1> QED BY <1>2, <1>4 DEF Given

LEMMA ContextQuietStep ==
    ASSUME BaseInv, ContextInv, [Next]_vars, UNCHANGED <<user, context, switched>>
    PROVE  ContextInv'
BY ContextKept DEF ContextInv

(* What a turn reads while the record is being written is the default.      *)
LEMMA ContextRead ==
    ASSUME BaseInv, at = "serving", NEW u \in Users
    PROVE  Settled.form = "v2" /\ Given(Settled.known, MemoryOf(u))
<1>1. userFile.form \in {"empty", "v2"} /\ (writing.file = "user" => userFile.form = "empty")
  BY DEF BaseInv, BootInv
<1>2. UsersNow \in Users2 /\ UsersNow.form = "v2"
  BY <1>1, ReadTypes DEF BaseInv, Users2
<1>5. MemoryOf(u).user = u /\ MemoryOf(u).points = UsersNow.known[u].points
  BY <1>2, MemoryType, UsersAssumption
<1>3. CASE writing # Idle /\ writing.file = "user"
  <2>1. Settled \in Users2 /\ Settled.form = "v2"
    BY <1>3 DEF Settled, BaseInv, TypeOK, FilesOK, Users2
  <2>2. UsersNow = DefaultUsers
    BY <1>1, <1>3 DEF UsersNow, Read
  <2> QED BY <1>5, <2>1, <2>2 DEF Given
<1>4. CASE ~(writing # Idle /\ writing.file = "user")
  BY <1>2, <1>4, <1>5 DEF Settled, Given
<1> QED BY <1>3, <1>4

LEMMA ContextTurn ==
    ASSUME BaseInv, ContextInv, NEW s \in Sessions,
           NEW question \in CustomerSays, NEW answer \in AgentSays,
           NEW mention \in Mentions, NEW closing \in BOOLEAN,
           Turn(s, question, answer, mention, closing), [Next]_vars
    PROVE  ContextInv'
<1> DEFINE known == Resolved(s, mention)
<1> DEFINE now == Hydrated(CaseNamed(s, mention), known)
<1>1. /\ known \in Users \cup {None} /\ at = "serving" /\ TalkOK /\ UsersNow \in Users2
      /\ UNCHANGED files /\ UNCHANGED cut
  BY BaseTurn, NamedType DEF BaseInv, TypeOK
<1>2. /\ user' = [user EXCEPT ![s] = now.user]
      /\ context' = [context EXCEPT ![s] = MemoryOf(known)]
      /\ switched' = IF now.user = user[s] THEN switched \ {s} ELSE switched \cup {s}
  BY DEF Turn
<1>3. now.user = user[s] => known = user[s]
  BY UsersAssumption, <1>1 DEF Resolved, Hydrated
<1> HIDE DEF known, now
<1>4. Settled' = Settled
  BY <1>1, SettledUnchanged DEF files
<1>6. known # None => Settled.form = "v2" /\ Given(Settled.known, MemoryOf(known))
  BY <1>1, ContextRead
<1>5. MemoryOf(known).user = known
  BY <1>1, MemoryType
<1>7. /\ context'[s] = MemoryOf(known) /\ user'[s] = now.user
      /\ \A t \in Sessions \ {s} :
            context'[t] = context[t] /\ user'[t] = user[t] /\ (t \in switched' <=> t \in switched)
  BY <1>1, <1>2 DEF TalkOK
<1>8. s \notin switched' => context'[s].user = user'[s]
  BY <1>2, <1>3, <1>5, <1>7
<1>9. \A t \in Sessions \ {s} : t \notin switched' => context'[t].user = user'[t]
  BY <1>7 DEF ContextInv
<1>10. ASSUME NEW t \in Sessions, ~cut', context'[t].user # None
       PROVE  Settled'.form = "v2" /\ Given(Settled'.known, context'[t])
  BY <1>4, <1>5, <1>6, <1>7, <1>10, ContextKept
<1> QED BY <1>8, <1>9, <1>10 DEF ContextInv

LEMMA ContextAdminMessage ==
    ASSUME BaseInv, ContextInv, NEW s \in Sessions, NEW mention \in Mentions,
           AdminMessage(s, mention), [Next]_vars
    PROVE  ContextInv'
<1>1. PICK c \in Customers \cup {Unknown, None}, u \in Users \cup {None} :
         /\ user' = [user EXCEPT ![s] = Hydrated(c, u).user]
         /\ switched' = IF Hydrated(c, u).user = user[s] THEN switched ELSE switched \cup {s}
  BY BaseAdminMessage
<1>2. UNCHANGED context /\ TalkOK
  BY BaseAdminMessage DEF BaseInv, TypeOK
<1>3. ASSUME NEW t \in Sessions, t \notin switched' PROVE context'[t].user = user'[t]
  <2>1. t \notin switched /\ user'[t] = user[t]
    BY <1>1, <1>2, <1>3 DEF TalkOK
  <2> QED BY <1>2, <2>1 DEF ContextInv
<1> QED BY <1>2, <1>3, ContextKept DEF ContextInv

LEMMA ContextReset ==
    ASSUME BaseInv, ContextInv, NEW s \in Sessions, NEW owner \in Customers \cup {None},
           Reset(s, owner), [Next]_vars,
           \/ owner = None /\ switched' = switched \ {s}
           \/ switched' = switched \cup {s}
    PROVE  ContextInv'
<1>1. /\ context' = [context EXCEPT ![s] = [user |-> None, points |-> {}]]
      /\ user' = [user EXCEPT ![s] = owner] /\ TalkOK
  BY DEF Reset, BaseInv, TypeOK
<1>2. /\ context'[s].user = None /\ user'[s] = owner
      /\ \A t \in Sessions \ {s} :
            context'[t] = context[t] /\ user'[t] = user[t] /\ (t \in switched' <=> t \in switched)
  BY <1>1 DEF TalkOK
<1>3. \A t \in Sessions : t \notin switched' => context'[t].user = user'[t]
  BY <1>2 DEF ContextInv
<1> QED BY <1>2, <1>3, ContextKept DEF ContextInv

LEMMA ContextStep == ASSUME BaseInv, ContextInv, [Next]_vars PROVE ContextInv'
<1>2. CASE \E s \in Sessions : Dialogue(s)
  <2>1. CASE \E s \in Sessions : Exit(s)
    BY <2>1, ContextQuietStep DEF Exit, talk
  <2>2. CASE \E s \in Sessions : ResetConversation(s) \/ \E u \in Customers : StartConversation(s, u)
    BY <2>2, ContextReset DEF ResetConversation, StartConversation
  <2> QED BY <1>2, <2>1, <2>2, ContextTurn, ContextAdminMessage DEF Dialogue
<1>3. CASE Start \/ Boot \/ Helper \/ Crash \/ UNCHANGED vars
  <2>1. UNCHANGED <<user, context, switched>>
    BY <1>3 DEF Start, Boot, CreateGlobal, CreateUser, MigrateGlobal, MigrateUser, BootStep,
       StartFails, Helper, ReadMessages, ReadState, React, UpsertCue, UpsertUser, Reflect,
       Respond, Finish, Crash, vars, talk
  <2> QED BY <2>1, ContextQuietStep
<1> QED BY <1>2, <1>3 DEF Next

(* The planner is given the memory of the customer the session is about,    *)
(* except after a step that has changed the customer; and never more than   *)
(* the file says, or the default that a turn reads while the file is being  *)
(* rewritten (agent.py, _sync_user_and_memory_context, and repository.py,   *)
(* get_user_memory).                                                        *)
THEOREM ContextIsOwn == Spec => []ContextIsOfCustomer
<1>1. Init => ContextInv
  BY DEF Init, ContextInv
<1>2. BaseInv /\ ContextInv /\ [Next]_vars => ContextInv'
  BY ContextStep
<1>3. Spec => []ContextInv
  BY <1>1, <1>2, BaseInvariant, PTL DEF Spec
<1>4. ASSUME BaseInv, ContextInv PROVE ContextIsOfCustomer
  <2>1. writing = Idle => Settled = UsersNow
    BY <1>4, SettledTypes
  <2>2. ASSUME NEW s \in Sessions
        PROVE  /\ s \notin switched => context[s].user = user[s]
               /\ writing = Idle /\ ~cut /\ context[s].user # None =>
                     context[s].points \subseteq UsersNow.known[context[s].user].points
                         \cup DefaultUsers.known[context[s].user].points
    BY <1>4, <2>1 DEF ContextInv, Given
  <2> QED BY <2>2 DEF ContextIsOfCustomer
<1> QED BY <1>3, <1>4, BaseInvariant, PTL
-----------------------------------------------------------------------------
(* Whose memory it is *)

(* A record names what was raised, and every message of a conversation that *)
(* nobody has taken over was said while its owner was the active one: the   *)
(* customer, or the session while it has none, and then its case is none of *)
(* a customer.  A run takes messages and key over in two steps.             *)
Own(known) == \A k \in Keys \ mixed : known[k].points \cap Points \subseteq raised[k]
SaidOf(k, messages) == \A i \in DOMAIN messages : KeyPoints(messages[i]) \subseteq raised[k]

OwnFiles ==
    /\ userFile.form = "v2" => Own(userFile.known)
    /\ writing.file = "user" => Own(writing.content.known)
OwnTalk ==
    \A s \in Sessions :
        /\ user[s] = None => case[s] \notin Customers
        /\ OwnerOf(user[s], s) \notin mixed => SaidOf(OwnerOf(user[s], s), said[s])
OwnRun ==
    run # NoRun =>
        /\ run.points \subseteq Extracted(run.messages)
        /\ run.node = "messages" => run.points = {}
        /\ run.node = "state" /\ run.owner \notin mixed => SaidOf(run.owner, run.messages)
        /\ run.node \notin {"messages", "state"} /\ run.key \notin mixed =>
              SaidOf(run.key, run.messages)
OwnInv == OwnFiles /\ OwnTalk /\ OwnRun

LEMMA OwnInit == ASSUME Init PROVE OwnInv
<1>1. userFile.form # "v2" /\ writing.file # "user" /\ run = NoRun
  BY DEF Init, Idle, NoRun
<1>2. \A s \in Sessions : case[s] = None /\ said[s] = <<>>
  BY DEF Init
<1> QED BY <1>1, <1>2, UsersAssumption DEF OwnInv, OwnFiles, OwnTalk, OwnRun, SaidOf

(* The default file and what a migration makes of an old one are no one     *)
(* else's.                                                                  *)
LEMMA DefaultPoints ==
    ASSUME NEW k \in Keys PROVE DefaultUsers.known[k].points \cap Points = {}
<1>1. CASE k \in SeedUsers
  <2>1. DefaultUsers.known[k] = Seed(k)
    BY <1>1, DefaultTypes
  <2> QED BY <1>1, <2>1, SeedsAssumption DEF Seed
<1>2. CASE k \notin SeedUsers
  <2>1. DefaultUsers.known[k] = NoRecord
    BY <1>2, DefaultTypes
  <2> QED BY <2>1 DEF NoRecord
<1> QED BY <1>1, <1>2

LEMMA DefaultOwn == Own(DefaultUsers.known)
BY DefaultPoints DEF Own

LEMMA MigratedOwn == ASSUME NEW old \in Users1 PROVE Own(MigratedUsers(old).known)
<1> SUFFICES ASSUME NEW k \in Keys \ mixed
             PROVE  MigratedUsers(old).known[k].points \cap Points \subseteq raised[k]
  BY DEF Own
<1> DEFINE row == old.rows[LastRow(old.rows, k)]
<1>1. \/ row.points \subseteq OldPoints /\ MigratedUsers(old).known[k].points = row.points
      \/ MigratedUsers(old).known[k] = DefaultUsers.known[k]
  <2>1. \/ /\ row.points \subseteq OldPoints
           /\ MigratedUsers(old).known[k] =
                 [points |-> row.points,
                  history |-> <<[points |-> row.points, outcome |-> "neutral"]>>]
        \/ MigratedUsers(old).known[k] = DefaultUsers.known[k]
    BY MigratedUsersType
  <2> HIDE DEF row
  <2> QED BY <2>1
<1>2. Points \cap OldPoints = {}
  BY UsersAssumption
<1> HIDE DEF row
<1> QED BY <1>1, <1>2, DefaultPoints

(* What is read is no one else's.                                           *)
LEMMA ReadOwn ==
    ASSUME BaseInv, OwnInv, userFile.form \in {"empty", "v2"}
    PROVE  Own(UsersNow.known)
<1>1. CASE userFile.form = "v2"
  BY <1>1, ReadTypes DEF OwnInv, OwnFiles, BaseInv
<1>2. CASE userFile.form = "empty"
  <2>1. UsersNow = DefaultUsers
    BY <1>2 DEF UsersNow, Read
  <2> QED BY <2>1, DefaultOwn
<1> QED BY <1>1, <1>2

(* Steps that leave the conversations alone.                                *)
LEMMA OwnTalkUnchanged == ASSUME OwnTalk, UNCHANGED talk PROVE OwnTalk'
BY DEF OwnTalk, talk, SaidOf, OwnerOf

LEMMA OwnRunUnchanged == ASSUME OwnRun, UNCHANGED talk, UNCHANGED run PROVE OwnRun'
BY DEF OwnRun, talk, SaidOf

LEMMA OwnFilesUnchanged == ASSUME OwnFiles, UNCHANGED talk, UNCHANGED files PROVE OwnFiles'
BY DEF OwnFiles, talk, files, Own

(* What was own stays so when more is raised, or taken over.                *)
LEMMA OwnGrows ==
    ASSUME mixed \subseteq mixed', \A k \in Keys : raised[k] \subseteq raised'[k]
    PROVE  /\ \A known : Own(known) =>
                 \A k \in Keys \ mixed' : known[k].points \cap Points \subseteq raised'[k]
           /\ \A k \in Keys : \A messages : SaidOf(k, messages) =>
                 \A i \in DOMAIN messages : KeyPoints(messages[i]) \subseteq raised'[k]
BY DEF Own, SaidOf

LEMMA OwnFilesGrow ==
    ASSUME OwnFiles, UNCHANGED files,
           mixed \subseteq mixed', \A k \in Keys : raised[k] \subseteq raised'[k]
    PROVE  OwnFiles'
<1>1. \A known : Own(known) =>
         \A k \in Keys \ mixed' : known[k].points \cap Points \subseteq raised'[k]
  BY OwnGrows
<1> QED BY <1>1 DEF OwnFiles, Own, files

LEMMA OwnRunGrows ==
    ASSUME BaseInv, OwnRun, UNCHANGED run,
           mixed \subseteq mixed', \A k \in Keys : raised[k] \subseteq raised'[k]
    PROVE  OwnRun'
<1>1. \A k \in Keys : \A messages : SaidOf(k, messages) =>
         \A i \in DOMAIN messages : KeyPoints(messages[i]) \subseteq raised'[k]
  BY OwnGrows
<1>2. run # NoRun => run.owner \in Keys /\ run.key \in Keys
  BY DEF BaseInv, TypeOK, RunOK, Runs
<1> QED BY <1>1, <1>2 DEF OwnRun, SaidOf

LEMMA OwnBoot ==
    ASSUME BaseInv, OwnInv, Start \/ Boot
    PROVE  OwnInv'
<1>1. UNCHANGED talk /\ UNCHANGED run
  BY DEF Start, Boot, CreateGlobal, CreateUser, MigrateGlobal, MigrateUser, BootStep, StartFails
<1>2. OwnTalk' /\ OwnRun'
  BY <1>1, OwnTalkUnchanged, OwnRunUnchanged DEF OwnInv
<1>3. CASE UNCHANGED files
  BY <1>1, <1>2, <1>3, OwnFilesUnchanged DEF OwnInv
<1>4. CASE CreateGlobal \/ MigrateGlobal
  <2>1. UNCHANGED files \/ \E content : Begin("global", content)
    BY <1>4 DEF CreateGlobal, MigrateGlobal, BootStep
  <2>2. CASE \E content : Begin("global", content)
    <3>1. userFile' = userFile /\ writing'.file # "user"
      BY <2>2 DEF Begin
    <3> QED BY <1>1, <1>2, <3>1 DEF OwnInv, OwnFiles, Own, talk
  <2> QED BY <1>3, <2>1, <2>2
<1>5. CASE CreateUser \/ MigrateUser
  <2>1. UNCHANGED files \/ Begin("user", DefaultUsers)
        \/ (MigrateUser /\ UsersNow.form = "v1" /\ Begin("user", MigratedUsers(userFile)))
    BY <1>5 DEF CreateUser, MigrateUser, BootStep
  <2>2. CASE \/ Begin("user", DefaultUsers)
             \/ MigrateUser /\ UsersNow.form = "v1" /\ Begin("user", MigratedUsers(userFile))
    <3>1. userFile' = [form |-> "empty"]
      BY <2>2 DEF Begin
    <3>2. Own(writing'.content.known)
      <4>1. CASE Begin("user", DefaultUsers)
        BY <4>1, DefaultOwn DEF Begin
      <4>2. CASE MigrateUser /\ UsersNow.form = "v1" /\ Begin("user", MigratedUsers(userFile))
        <5>1. Own(MigratedUsers(userFile).known)
          BY <4>2, BaseMigrateUser, MigratedOwn
        <5> QED BY <4>2, <5>1 DEF Begin
      <4> QED BY <2>2, <4>1, <4>2
    <3> QED BY <1>1, <1>2, <3>1, <3>2 DEF OwnInv, OwnFiles, Own, talk
  <2> QED BY <1>3, <2>1, <2>2
<1>6. Start \/ StartFails => UNCHANGED files
  BY DEF Start, StartFails
<1> QED BY <1>3, <1>4, <1>5, <1>6 DEF Boot

(* A step of a run that has its messages and key.                           *)
LEMMA OwnRunGoesOn ==
    ASSUME OwnRun, run # NoRun, UNCHANGED talk, run.node \notin {"messages", "state"},
           run'.node \notin {"messages", "state"},
           run'.key = run.key, run'.messages = run.messages,
           run'.points \in {run.points, Extracted(run.messages)}
    PROVE  OwnRun'
BY DEF OwnRun, SaidOf, talk

(* The other sessions keep theirs. *)
LEMMA OwnOthers ==
    ASSUME BaseInv, OwnTalk, NEW t \in Sessions,
           user'[t] = user[t], case'[t] = case[t], said'[t] = said[t],
           mixed \subseteq mixed', \A k \in Keys : raised[k] \subseteq raised'[k]
    PROVE  /\ user'[t] = None => case'[t] \notin Customers
           /\ OwnerOf(user'[t], t) \notin mixed' =>
                 \A i \in DOMAIN said'[t] :
                     KeyPoints(said'[t][i]) \subseteq raised'[OwnerOf(user'[t], t)]
<1>1. OwnerOf(user[t], t) \in Keys
  BY OwnerType DEF BaseInv, TypeOK
<1>2. \A messages : SaidOf(OwnerOf(user[t], t), messages) =>
         \A i \in DOMAIN messages : KeyPoints(messages[i]) \subseteq raised'[OwnerOf(user[t], t)]
  BY <1>1, OwnGrows
<1> QED BY <1>2 DEF OwnTalk

LEMMA OwnReadMessages == ASSUME BaseInv, OwnInv, ReadMessages PROVE OwnInv'
<1> DEFINE s == run.session
<1> DEFINE k == OwnerOf(user[s], s)
<1>1. /\ run \in Runs /\ run.node = "messages" /\ UNCHANGED files /\ UNCHANGED talk
      /\ run' = [run EXCEPT !.node = "state", !.messages = said[s], !.owner = k]
  BY BaseReadMessages
<1>2. s \in Sessions /\ run # NoRun
  BY <1>1 DEF Runs, NoRun
<1>3. run.points = {} /\ (k \notin mixed => SaidOf(k, said[s]))
  BY <1>1, <1>2 DEF OwnInv, OwnRun, OwnTalk
<1> HIDE DEF s, k
<1>4. /\ run'.node = "state" /\ run'.messages = said[s] /\ run'.owner = k
      /\ run'.points = {}
  BY <1>1, <1>3 DEF Runs
<1>5. OwnRun'
  BY <1>1, <1>3, <1>4 DEF OwnRun, SaidOf, talk
<1> QED BY <1>1, <1>5, OwnTalkUnchanged, OwnFilesUnchanged DEF OwnInv

LEMMA OwnReadState == ASSUME BaseInv, OwnInv, ReadState PROVE OwnInv'
<1> DEFINE s == run.session
<1> DEFINE k == OwnerOf(user[s], s)
<1>1. /\ run \in Runs /\ run.node = "state" /\ UNCHANGED files
      /\ run' = [run EXCEPT !.node = "react", !.key = FiledFor(s)]
      /\ UNCHANGED <<said, user, case, raised>>
      /\ mixed' = IF run.owner = k THEN mixed ELSE mixed \cup {k}
  BY BaseReadState
<1>2. s \in Sessions /\ run # NoRun
  BY <1>1 DEF Runs, NoRun
<1>3. FiledFor(s) = k
  BY <1>2, OwnerType DEF BaseInv, TypeOK, OwnInv, OwnTalk
<1>4. mixed \subseteq mixed' /\ \A j \in Keys : raised[j] \subseteq raised'[j]
  BY <1>1
<1>5. OwnTalk'
  <2>1. ASSUME NEW t \in Sessions
        PROVE  /\ user'[t] = None => case'[t] \notin Customers
               /\ OwnerOf(user'[t], t) \notin mixed' =>
                     \A i \in DOMAIN said'[t] :
                         KeyPoints(said'[t][i]) \subseteq raised'[OwnerOf(user'[t], t)]
    BY <1>1, <1>4, OwnOthers DEF OwnInv
  <2> QED BY <2>1 DEF OwnTalk, SaidOf, OwnerOf
<1> HIDE DEF s, k
<1>6. /\ run'.node = "react" /\ run'.key = k /\ run'.messages = run.messages
      /\ run'.points = run.points
  BY <1>1, <1>3 DEF Runs
<1>7. /\ run.points \subseteq Extracted(run.messages)
      /\ run.owner \notin mixed => SaidOf(run.owner, run.messages)
  BY <1>1, <1>2 DEF OwnInv, OwnRun
<1>8. OwnRun'
  BY <1>1, <1>6, <1>7 DEF OwnRun, SaidOf
<1> QED BY <1>1, <1>4, <1>5, <1>8, OwnFilesGrow DEF OwnInv

LEMMA OwnHelper == ASSUME BaseInv, OwnInv, Helper PROVE OwnInv'
<1>9. CASE ReadMessages \/ ReadState
  BY <1>9, OwnReadMessages, OwnReadState
<1> SUFFICES ASSUME React \/ UpsertCue \/ UpsertUser \/ Reflect \/ Respond \/ Finish
             PROVE  OwnInv'
  BY <1>9 DEF Helper
<1>1. UNCHANGED talk
  BY DEF React, UpsertCue, UpsertUser, Reflect, Respond, Finish
<1>2. OwnTalk'
  BY <1>1, OwnTalkUnchanged DEF OwnInv
<1>3. CASE React
  <2>1. /\ run \in Runs /\ run' \in Runs /\ UNCHANGED files
        /\ run' = IF run.observed THEN [run EXCEPT !.node = "reflect"]
                  ELSE [run EXCEPT !.node = "tool_execution", !.outcome = Outcome,
                                   !.points = Extracted(run.messages),
                                   !.todo = Extracted(run.messages)]
    BY <1>3, BaseReact DEF React
  <2>2. /\ run'.key = run.key /\ run'.messages = run.messages
        /\ run'.points \in {run.points, Extracted(run.messages)}
        /\ run'.node \in {"reflect", "tool_execution"}
    BY <2>1 DEF Runs
  <2>3. run # NoRun /\ run.node = "react"
    BY <1>3 DEF React, NoRun
  <2>4. OwnRun'
    BY <1>1, <2>2, <2>3, OwnRunGoesOn DEF OwnInv
  <2> QED BY <1>1, <1>2, <2>1, <2>4, OwnFilesUnchanged DEF OwnInv
<1>4. CASE Reflect
  <2>1. run \in Runs /\ UNCHANGED files
        /\ run' = [run EXCEPT !.node = IF run.observed THEN "response" ELSE "react"]
    BY <1>4, BaseReflect DEF Reflect
  <2>2. /\ run'.key = run.key /\ run'.messages = run.messages /\ run'.points = run.points
        /\ run'.node \in {"react", "response"}
    BY <2>1 DEF Runs
  <2>3. run # NoRun /\ run.node = "reflect"
    BY <1>4 DEF Reflect, NoRun
  <2>4. OwnRun'
    BY <1>1, <2>2, <2>3, OwnRunGoesOn DEF OwnInv
  <2> QED BY <1>1, <1>2, <2>1, <2>4, OwnFilesUnchanged DEF OwnInv
<1>5. CASE Respond
  <2>1. run' = NoRun /\ UNCHANGED files
    BY <1>5 DEF Respond
  <2> QED BY <1>1, <1>2, <2>1, OwnFilesUnchanged DEF OwnInv, OwnRun
<1>6. CASE UpsertCue
  <2>1. PICK p \in run.todo :
            /\ writing' = [file |-> "global",
                           content |-> Counted(GlobalNow, FiledAs(run.outcome), p)]
            /\ run' = [run EXCEPT !.todo = @ \ {p}]
    BY <1>6, BaseUpsertCue
  <2>2. run \in Runs /\ userFile' = userFile /\ writing'.file # "user"
    BY <1>6, <2>1, BaseUpsertCue
  <2>3. /\ run'.key = run.key /\ run'.messages = run.messages /\ run'.points = run.points
        /\ run'.node = run.node
    BY <2>1, <2>2 DEF Runs
  <2>4. run # NoRun /\ run.node = "tool_execution"
    BY <1>6 DEF UpsertCue, NoRun
  <2>5. OwnRun'
    BY <1>1, <2>3, <2>4, OwnRunGoesOn DEF OwnInv
  <2> QED BY <1>1, <1>2, <2>2, <2>5 DEF OwnInv, OwnFiles, Own, talk
<1>7. CASE UpsertUser
  <2>1. /\ run \in Runs /\ run' = [run EXCEPT !.node = "react", !.observed = TRUE]
        /\ writing' = [file |-> "user",
                       content |-> [UsersNow EXCEPT !.known = [UsersNow.known EXCEPT
                             ![run.key] = Merged(run.points, UsersNow.known[run.key])]]]
        /\ UsersNow \in Users2
    BY <1>7, BaseUpsertUser
  <2>2. /\ run # NoRun /\ userFile' = [form |-> "empty"]
        /\ run.node = "tool_execution"
    BY <1>7 DEF UpsertUser, NoRun, Begin
  <2>3. /\ run'.key = run.key /\ run'.messages = run.messages /\ run'.points = run.points
        /\ run'.node = "react"
    BY <2>1 DEF Runs
  <2>4. OwnRun'
    BY <1>1, <2>2, <2>3, OwnRunGoesOn DEF OwnInv
  <2> DEFINE record == Merged(run.points, UsersNow.known[run.key])
  <2> DEFINE known == [UsersNow.known EXCEPT ![run.key] = record]
  <2>5. record.points = UsersNow.known[run.key].points \cup run.points
    BY DEF Merged
  <2>6. UsersNow.known \in [Keys -> Record] /\ run.key \in Keys /\ run.messages \in Seq(Messages)
    BY <2>1 DEF Users2, Runs
  <2>7. writing'.content.known = known
    BY <2>1 DEF Users2
  <2> HIDE DEF record, known
  <2>8. known = [UsersNow.known EXCEPT ![run.key] = record]
    BY DEF known
  <2>9. Own(UsersNow.known)
    BY <2>2, ReadOwn DEF BaseInv, BootInv
  <2>10. run.key \notin mixed => run.points \subseteq raised[run.key]
    <3> SUFFICES ASSUME run.key \notin mixed, NEW p \in run.points
                 PROVE  p \in raised[run.key]
      OBVIOUS
    <3>1. run.points \subseteq Extracted(run.messages) /\ SaidOf(run.key, run.messages)
      BY <2>2 DEF OwnInv, OwnRun
    <3>2. PICK i \in 1 .. Len(run.messages) : p \in KeyPoints(run.messages[i])
      BY <2>6, <3>1, ExtractedType
    <3>3. DOMAIN run.messages = 1 .. Len(run.messages)
      BY <2>6, LenProperties
    <3> QED BY <3>1, <3>2, <3>3 DEF SaidOf
  <2>12. Own(known)
    <3> SUFFICES ASSUME NEW k \in Keys \ mixed
                 PROVE  known[k].points \cap Points \subseteq raised[k]
      BY DEF Own
    <3>1. UsersNow.known[k].points \cap Points \subseteq raised[k]
      BY <2>9 DEF Own
    <3> QED BY <2>5, <2>6, <2>8, <2>10, <3>1
  <2>13. OwnFiles'
    BY <1>1, <2>2, <2>7, <2>12 DEF OwnFiles, Own, talk
  <2> QED BY <1>2, <2>4, <2>13 DEF OwnInv
<1>8. CASE Finish
  <2>1. /\ writing' = Idle /\ run' = run
        /\ userFile' = IF writing.file = "user" THEN writing.content ELSE userFile
    BY <1>8 DEF Finish
  <2>2. OwnFiles'
    BY <1>1, <2>1 DEF OwnInv, OwnFiles, Own, talk, Idle
  <2> QED BY <1>1, <1>2, <2>1, <2>2, OwnRunUnchanged DEF OwnInv
<1> QED BY <1>3, <1>4, <1>5, <1>6, <1>7, <1>8 DEF Helper

LEMMA OwnCrash == ASSUME BaseInv, OwnInv, Crash PROVE OwnInv'
<1>1. /\ UNCHANGED talk /\ run' = NoRun /\ writing' = Idle
      /\ \/ userFile' = userFile
         \/ userFile'.form \in {"empty", "torn"}
  BY DEF Crash
<1>2. OwnTalk'
  BY <1>1, OwnTalkUnchanged DEF OwnInv
<1>3. OwnFiles' /\ OwnRun'
  BY <1>1 DEF OwnInv, OwnFiles, OwnRun, Own, talk, Idle
<1> QED BY <1>2, <1>3 DEF OwnInv

(* Who takes a conversation over, if anybody does, is marked.               *)
LEMMA OwnTakenOver ==
    ASSUME BaseInv, OwnTalk, NEW s \in Sessions, NEW u \in Users \cup {None}, TakesOver(s, u),
           \A k \in Keys : raised[k] \subseteq raised'[k]
    PROVE  /\ mixed \subseteq mixed'
           /\ OwnerOf(u, s) \notin mixed' =>
                 \A i \in DOMAIN said[s] : KeyPoints(said[s][i]) \subseteq raised'[OwnerOf(u, s)]
<1> DEFINE k == OwnerOf(u, s)
<1>1. mixed' = IF said[s] = <<>> \/ k = OwnerOf(user[s], s) THEN mixed ELSE mixed \cup {k}
  BY DEF TakesOver
<1>2. k \in Keys
  BY DEF OwnerOf, Keys
<1>3. OwnerOf(user[s], s) \notin mixed => SaidOf(OwnerOf(user[s], s), said[s])
  BY DEF OwnTalk
<1> HIDE DEF k
<1>4. mixed \subseteq mixed'
  BY <1>1
<1>5. CASE said[s] = <<>>
  <2>1. \A i \in DOMAIN said[s] : KeyPoints(said[s][i]) \subseteq raised'[k]
    BY <1>5
  <2> QED BY <1>4, <2>1 DEF k
<1>6. CASE said[s] # <<>> /\ k = OwnerOf(user[s], s)
  <2>1. k \notin mixed' => SaidOf(k, said[s])
    BY <1>1, <1>3, <1>6
  <2>2. k \notin mixed' => \A i \in DOMAIN said[s] : KeyPoints(said[s][i]) \subseteq raised'[k]
    BY <1>2, <2>1 DEF SaidOf
  <2> QED BY <1>4, <2>2 DEF k
<1>7. CASE said[s] # <<>> /\ k # OwnerOf(user[s], s)
  BY <1>1, <1>4, <1>7 DEF k
<1> QED BY <1>5, <1>6, <1>7

LEMMA OwnTurn ==
    ASSUME BaseInv, OwnInv, NEW s \in Sessions,
           NEW question \in CustomerSays, NEW answer \in AgentSays,
           NEW mention \in Mentions, NEW closing \in BOOLEAN,
           Turn(s, question, answer, mention, closing)
    PROVE  OwnInv'
<1> DEFINE known == Resolved(s, mention)
<1> DEFINE now == Hydrated(CaseNamed(s, mention), known)
<1> DEFINE k == OwnerOf(now.user, s)
<1>1. /\ TalkOK /\ UNCHANGED files /\ now.user \in Users \cup {None}
      /\ now.user = None => now.case \notin Customers
      /\ run' = IF closing THEN Request(s, "conversation_termination") ELSE run
  BY BaseTurn, NamedType, HydratedType DEF BaseInv, TypeOK
<1>2. /\ user' = [user EXCEPT ![s] = now.user] /\ case' = [case EXCEPT ![s] = now.case]
      /\ said' = [said EXCEPT ![s] = said[s] \o <<question, answer>>]
      /\ raised' = [raised EXCEPT ![k] =
                       raised[k] \cup KeyPoints(question) \cup KeyPoints(answer)]
      /\ TakesOver(s, now.user)
  BY DEF Turn
<1>12. k = OwnerOf(now.user, s) /\ k \in Keys
  BY <1>1 DEF OwnerOf, Keys
<1> HIDE DEF known, now, k
<1>3. /\ \A j \in Keys : raised[j] \subseteq raised'[j]
      /\ raised'[k] = raised[k] \cup KeyPoints(question) \cup KeyPoints(answer)
  BY <1>1, <1>2, <1>12 DEF TalkOK
<1>4. /\ mixed \subseteq mixed'
      /\ k \notin mixed' => \A i \in DOMAIN said[s] : KeyPoints(said[s][i]) \subseteq raised'[k]
  BY <1>1, <1>2, <1>3, <1>12, OwnTakenOver DEF OwnInv
<1>5. OwnFiles'
  BY <1>1, <1>3, <1>4, OwnFilesGrow DEF OwnInv
<1>6. /\ user'[s] = now.user /\ case'[s] = now.case
      /\ said'[s] = said[s] \o <<question, answer>>
      /\ \A t \in Sessions \ {s} :
            user'[t] = user[t] /\ case'[t] = case[t] /\ said'[t] = said[t]
  BY <1>1, <1>2 DEF TalkOK
<1>7. k \notin mixed' =>
         \A i \in DOMAIN said'[s] : KeyPoints(said'[s][i]) \subseteq raised'[k]
  <2> SUFFICES ASSUME k \notin mixed', NEW i \in DOMAIN said'[s]
               PROVE  KeyPoints(said'[s][i]) \subseteq raised'[k]
    OBVIOUS
  <2>2. \A j \in DOMAIN said[s] : KeyPoints(said[s][j]) \subseteq raised'[k]
    BY <1>4
  <2>3. said[s] \in Seq(Messages) /\ <<question, answer>> \in Seq(Messages)
    BY <1>1 DEF TalkOK, Messages
  <2>4. Len(<<question, answer>>) = 2
    OBVIOUS
  <2> DEFINE n == Len(said[s])
  <2> DEFINE both == said[s] \o <<question, answer>>
  <2>5. /\ Len(both) = n + 2 /\ both \in Seq(Messages) /\ n \in Nat
        /\ \A j \in 1 .. n + 2 :
              both[j] = IF j <= n THEN said[s][j] ELSE <<question, answer>>[j - n]
    BY <2>3, <2>4, ConcatProperties, LenProperties
  <2>6. DOMAIN both = 1 .. (n + 2) /\ DOMAIN said[s] = 1 .. n
    BY <2>3, <2>5, LenProperties
  <2>7. i \in 1 .. (n + 2) /\ said'[s][i] = both[i]
    BY <1>6, <2>6
  <2> HIDE DEF n, both
  <2>8. CASE i <= n
    BY <2>2, <2>5, <2>6, <2>7, <2>8
  <2>9. CASE ~ (i <= n)
    <3>1. i - n \in {1, 2}
      BY <2>5, <2>7, <2>9
    <3>2. <<question, answer>>[i - n] \in {question, answer}
      BY <3>1
    <3>3. both[i] \in {question, answer}
      BY <2>5, <2>7, <2>9, <3>2
    <3> QED BY <1>3, <2>7, <3>3
  <2> QED BY <2>8, <2>9
<1>8. OwnTalk'
  <2>1. /\ user'[s] = None => case'[s] \notin Customers
        /\ OwnerOf(user'[s], s) \notin mixed' =>
              \A i \in DOMAIN said'[s] :
                  KeyPoints(said'[s][i]) \subseteq raised'[OwnerOf(user'[s], s)]
    BY <1>1, <1>6, <1>7, <1>12
  <2>2. ASSUME NEW t \in Sessions \ {s}
        PROVE  /\ user'[t] = None => case'[t] \notin Customers
               /\ OwnerOf(user'[t], t) \notin mixed' =>
                     \A i \in DOMAIN said'[t] :
                         KeyPoints(said'[t][i]) \subseteq raised'[OwnerOf(user'[t], t)]
    BY <1>3, <1>4, <1>6, OwnOthers DEF OwnInv
  <2>3. \A t \in Sessions :
            /\ user'[t] = None => case'[t] \notin Customers
            /\ OwnerOf(user'[t], t) \notin mixed' =>
                  \A i \in DOMAIN said'[t] :
                      KeyPoints(said'[t][i]) \subseteq raised'[OwnerOf(user'[t], t)]
    BY <2>1, <2>2
  <2> QED BY <2>3 DEF OwnTalk, SaidOf, OwnerOf
<1>9. OwnRun'
  <2>1. CASE closing
    <3>1. run'.node = "messages" /\ run'.points = {}
      BY <1>1, <2>1, RequestType
    <3> QED BY <3>1 DEF OwnRun
  <2>2. CASE ~closing
    BY <1>1, <1>3, <1>4, <2>2, OwnRunGrows DEF OwnInv
  <2> QED BY <2>1, <2>2
<1> QED BY <1>5, <1>8, <1>9 DEF OwnInv

LEMMA OwnAdminMessage ==
    ASSUME BaseInv, OwnInv, NEW s \in Sessions, NEW mention \in Mentions,
           AdminMessage(s, mention)
    PROVE  OwnInv'
<1>1. PICK c \in Customers \cup {Unknown, None}, u \in Users \cup {None} :
         /\ user' = [user EXCEPT ![s] = Hydrated(c, u).user]
         /\ case' = [case EXCEPT ![s] = Hydrated(c, u).case]
         /\ TakesOver(s, Hydrated(c, u).user)
  BY BaseAdminMessage
<1>2. UNCHANGED files /\ UNCHANGED <<run, said, raised>> /\ TalkOK
  BY BaseAdminMessage DEF BaseInv, TypeOK
<1> DEFINE now == Hydrated(c, u)
<1>3. now.user \in Users \cup {None} /\ (now.user = None => now.case \notin Customers)
  BY HydratedType
<1>4. /\ user' = [user EXCEPT ![s] = now.user] /\ case' = [case EXCEPT ![s] = now.case]
      /\ TakesOver(s, now.user)
  BY <1>1
<1> HIDE DEF now
<1>5. \A k \in Keys : raised[k] \subseteq raised'[k]
  BY <1>2
<1>6. /\ mixed \subseteq mixed'
      /\ OwnerOf(now.user, s) \notin mixed' =>
            \A i \in DOMAIN said[s] : KeyPoints(said[s][i]) \subseteq raised'[OwnerOf(now.user, s)]
  BY <1>3, <1>4, <1>5, OwnTakenOver DEF OwnInv
<1>7. /\ user'[s] = now.user /\ case'[s] = now.case
      /\ \A t \in Sessions \ {s} : user'[t] = user[t] /\ case'[t] = case[t]
  BY <1>2, <1>4 DEF TalkOK
<1>8. ASSUME NEW t \in Sessions
      PROVE  /\ user'[t] = None => case'[t] \notin Customers
             /\ OwnerOf(user'[t], t) \notin mixed' =>
                   \A i \in DOMAIN said'[t] :
                       KeyPoints(said'[t][i]) \subseteq raised'[OwnerOf(user'[t], t)]
  <2>1. CASE t = s
    BY <1>2, <1>3, <1>6, <1>7, <2>1
  <2>2. CASE t # s
    BY <1>2, <1>5, <1>6, <1>7, <2>2, OwnOthers DEF OwnInv
  <2> QED BY <2>1, <2>2
<1>9. OwnTalk'
  BY <1>8 DEF OwnTalk, SaidOf, OwnerOf
<1> QED BY <1>2, <1>5, <1>6, <1>9, OwnFilesGrow, OwnRunGrows DEF OwnInv

LEMMA OwnReset ==
    ASSUME BaseInv, OwnInv, NEW s \in Sessions, NEW owner \in Customers \cup {None},
           Reset(s, owner)
    PROVE  OwnInv'
<1>1. /\ UNCHANGED files /\ UNCHANGED <<run, raised, mixed>> /\ TalkOK
      /\ said' = [said EXCEPT ![s] = <<>>] /\ user' = [user EXCEPT ![s] = owner]
      /\ case' = [case EXCEPT ![s] = owner]
  BY DEF Reset, BaseInv, TypeOK
<1>2. /\ said'[s] = <<>> /\ user'[s] = owner /\ case'[s] = owner
      /\ \A t \in Sessions \ {s} :
            user'[t] = user[t] /\ case'[t] = case[t] /\ said'[t] = said[t]
  BY <1>1 DEF TalkOK
<1>3. ASSUME NEW t \in Sessions
      PROVE  /\ user'[t] = None => case'[t] \notin Customers
             /\ OwnerOf(user'[t], t) \notin mixed' =>
                   \A i \in DOMAIN said'[t] :
                       KeyPoints(said'[t][i]) \subseteq raised'[OwnerOf(user'[t], t)]
  <2>1. CASE t = s
    BY <1>2, <2>1, UsersAssumption
  <2>2. CASE t # s
    BY <1>1, <1>2, <2>2, OwnOthers DEF OwnInv
  <2> QED BY <2>1, <2>2
<1>4. OwnTalk'
  BY <1>3 DEF OwnTalk, SaidOf, OwnerOf
<1> QED BY <1>1, <1>4, OwnFilesGrow, OwnRunGrows DEF OwnInv

LEMMA OwnExit == ASSUME BaseInv, OwnInv, NEW s \in Sessions, Exit(s) PROVE OwnInv'
<1>1. UNCHANGED talk /\ UNCHANGED files /\ run' = Request(s, "interactive_exit")
  BY BaseExit
<1>2. OwnFiles' /\ OwnTalk'
  BY <1>1, OwnTalkUnchanged, OwnFilesUnchanged DEF OwnInv
<1>3. run'.node = "messages" /\ run'.points = {}
  BY <1>1, RequestType
<1> QED BY <1>2, <1>3 DEF OwnInv, OwnRun

LEMMA OwnStep == ASSUME BaseInv, OwnInv, [Next]_vars PROVE OwnInv'
<1>1. CASE Start \/ Boot BY <1>1, OwnBoot
<1>2. CASE Helper BY <1>2, OwnHelper
<1>3. CASE Crash BY <1>3, OwnCrash
<1>4. CASE \E s \in Sessions : Dialogue(s)
  <2>1. CASE \E s \in Sessions : ResetConversation(s) \/ \E u \in Customers : StartConversation(s, u)
    BY <2>1, OwnReset DEF ResetConversation, StartConversation
  <2> QED BY <1>4, <2>1, OwnTurn, OwnAdminMessage, OwnExit DEF Dialogue
<1>5. CASE UNCHANGED vars
  <2>1. UNCHANGED talk /\ UNCHANGED files /\ UNCHANGED run
    BY <1>5 DEF vars
  <2> QED BY <2>1, OwnTalkUnchanged, OwnRunUnchanged, OwnFilesUnchanged DEF OwnInv
<1> QED BY <1>1, <1>2, <1>3, <1>4, <1>5 DEF Next

(* A record names, of what the helper looks for, only what was raised while *)
(* its customer was the active one, and the record of a session only what   *)
(* was raised while it had none; but for those who took over messages of    *)
(* another (_run_key_event_memory_tool and upsert_user_memory, and          *)
(* _build_memory_helper_payload of the user interface).                     *)
THEOREM RecordsAreKeptApart == Spec => []RecordsAreOwn
<1>1. Init => OwnInv
  BY OwnInit
<1>2. BaseInv /\ OwnInv /\ [Next]_vars => OwnInv'
  BY OwnStep
<1>3. Spec => []OwnInv
  BY <1>1, <1>2, BaseInvariant, PTL DEF Spec
<1>4. OwnInv => RecordsAreOwn
  BY DEF OwnInv, OwnFiles, Own, RecordsAreOwn
<1> QED BY <1>3, <1>4, PTL
-----------------------------------------------------------------------------
(* The two files tell the same story *)

(* What a history names, entry by entry.                                    *)
Names(entry, o, p) ==
    /\ p \in entry.points
    /\ (entry.outcome = "successful") <=> (o = "successful")

LEMMA NamingElements ==
    ASSUME NEW known \in [Keys -> Record], NEW o, NEW p
    PROVE  \A x : x \in Naming(known, o, p) <=>
               \E k \in Keys : \E i \in 1 .. Len(known[k].history) :
                   x = <<k, i>> /\ Names(known[k].history[i], o, p)
<1>1. \A k \in Keys : DOMAIN known[k].history = 1 .. Len(known[k].history)
  <2> SUFFICES ASSUME NEW k \in Keys
               PROVE  DOMAIN known[k].history = 1 .. Len(known[k].history)
    OBVIOUS
  <2>1. known[k].history \in Seq(Entry)
    BY DEF Record
  <2> QED BY <2>1, LenProperties
<1> DEFINE row(k) == {i \in DOMAIN known[k].history : Names(known[k].history[i], o, p)}
<1>2. Naming(known, o, p) = UNION {{k} \X row(k) : k \in Keys}
  BY DEF Naming, Names
<1>3. \A k \in Keys : row(k) = {i \in 1 .. Len(known[k].history) : Names(known[k].history[i], o, p)}
  BY <1>1
<1> HIDE DEF row
<1>4. \A x : x \in UNION {{k} \X row(k) : k \in Keys} <=>
               \E k \in Keys : \E i \in row(k) : x = <<k, i>>
  OBVIOUS
<1> QED BY <1>2, <1>3, <1>4

(* One more entry in the history of a customer.                             *)
Longer(known, longer, key, entry) ==
    /\ known \in [Keys -> Record] /\ longer \in [Keys -> Record]
    /\ key \in Keys /\ entry \in Entry
    /\ longer[key].history = Append(known[key].history, entry)
    /\ \A k \in Keys \ {key} : longer[k].history = known[k].history

LEMMA NamingAppend ==
    ASSUME NEW known, NEW longer, NEW key, NEW entry, NEW o, NEW p,
           Longer(known, longer, key, entry), IsFiniteSet(Naming(known, o, p))
    PROVE  /\ IsFiniteSet(Naming(longer, o, p))
           /\ Names(entry, o, p) =>
                 Cardinality(Naming(longer, o, p)) = Cardinality(Naming(known, o, p)) + 1
           /\ ~Names(entry, o, p) =>
                 Cardinality(Naming(longer, o, p)) = Cardinality(Naming(known, o, p))
<1>8. /\ known \in [Keys -> Record] /\ longer \in [Keys -> Record]
      /\ key \in Keys /\ entry \in Entry
      /\ longer[key].history = Append(known[key].history, entry)
      /\ \A k \in Keys \ {key} : longer[k].history = known[k].history
  BY DEF Longer
<1> USE <1>8
<1> DEFINE n == Len(known[key].history)
<1> DEFINE last == <<key, n + 1>>
<1>1. known[key].history \in Seq(Entry)
  BY DEF Record
<1>2. /\ n \in Nat /\ Len(longer[key].history) = n + 1
      /\ \A i \in 1 .. n : longer[key].history[i] = known[key].history[i]
      /\ longer[key].history[n + 1] = entry
  BY <1>1, AppendProperties, LenProperties
<1> HIDE DEF n
<1>3. last \notin Naming(known, o, p)
  <2> SUFFICES ASSUME last \in Naming(known, o, p) PROVE FALSE
    OBVIOUS
  <2>1. PICK k \in Keys : \E i \in 1 .. Len(known[k].history) : last = <<k, i>>
    BY NamingElements
  <2>2. PICK i \in 1 .. Len(known[k].history) : last = <<k, i>>
    BY <2>1
  <2>3. k = key /\ i = n + 1
    BY <2>2
  <2> QED BY <1>2, <2>2, <2>3 DEF n
<1>4. \A x : x \in Naming(longer, o, p) <=>
                \/ x \in Naming(known, o, p)
                \/ x = last /\ Names(entry, o, p)
  <2> TAKE x
  <2>1. ASSUME x \in Naming(longer, o, p)
        PROVE  x \in Naming(known, o, p) \/ (x = last /\ Names(entry, o, p))
    <3>1. PICK k \in Keys : \E i \in 1 .. Len(longer[k].history) :
                               x = <<k, i>> /\ Names(longer[k].history[i], o, p)
      BY <2>1, NamingElements
    <3>2. PICK i \in 1 .. Len(longer[k].history) : x = <<k, i>> /\ Names(longer[k].history[i], o, p)
      BY <3>1
    <3>3. CASE k # key
      <4>1. i \in 1 .. Len(known[k].history) /\ Names(known[k].history[i], o, p)
        BY <3>2, <3>3
      <4> QED BY <3>2, <4>1, NamingElements
    <3>4. CASE k = key /\ i = n + 1
      BY <1>2, <3>2, <3>4
    <3>5. CASE k = key /\ i # n + 1
      <4>1. i \in 1 .. n
        BY <1>2, <3>2, <3>5
      <4>2. i \in 1 .. Len(known[k].history) /\ Names(known[k].history[i], o, p)
        BY <1>2, <3>2, <3>5, <4>1 DEF n
      <4> QED BY <3>2, <4>2, NamingElements
    <3> QED BY <3>3, <3>4, <3>5
  <2>2. ASSUME x \in Naming(known, o, p) PROVE x \in Naming(longer, o, p)
    <3>1. PICK k \in Keys : \E i \in 1 .. Len(known[k].history) :
                               x = <<k, i>> /\ Names(known[k].history[i], o, p)
      BY <2>2, NamingElements
    <3>2. PICK i \in 1 .. Len(known[k].history) : x = <<k, i>> /\ Names(known[k].history[i], o, p)
      BY <3>1
    <3>3. i \in 1 .. Len(longer[k].history) /\ Names(longer[k].history[i], o, p)
      <4>1. CASE k # key
        BY <3>2, <4>1
      <4>2. CASE k = key
        <5>1. i \in 1 .. n
          BY <3>2, <4>2 DEF n
        <5>2. i \in 1 .. (n + 1)
          BY <1>2, <5>1
        <5> QED BY <1>2, <3>2, <4>2, <5>1, <5>2
      <4> QED BY <4>1, <4>2
    <3> QED BY <3>2, <3>3, NamingElements
  <2>3. ASSUME x = last, Names(entry, o, p) PROVE x \in Naming(longer, o, p)
    <3>1. n + 1 \in 1 .. Len(longer[key].history) /\ Names(longer[key].history[n + 1], o, p)
      BY <1>2, <2>3
    <3> QED BY <2>3, <3>1, NamingElements
  <2> QED BY <2>1, <2>2, <2>3
<1> HIDE DEF last
<1>5. Cardinality(Naming(known, o, p)) \in Nat
  BY FS_CardinalityType
<1>6. CASE Names(entry, o, p)
  <2>1. Naming(longer, o, p) = Naming(known, o, p) \cup {last}
    BY <1>4, <1>6
  <2>2. /\ IsFiniteSet(Naming(known, o, p) \cup {last})
        /\ Cardinality(Naming(known, o, p) \cup {last}) = Cardinality(Naming(known, o, p)) + 1
    BY <1>3, FS_AddElement
  <2> QED BY <1>6, <2>1, <2>2
<1>7. CASE ~Names(entry, o, p)
  <2>1. Naming(longer, o, p) = Naming(known, o, p)
    BY <1>4, <1>7
  <2> QED BY <1>5, <1>7, <2>1
<1> QED BY <1>6, <1>7

(* The oldest entries of a history are dropped.                             *)
LEMMA NamingCut ==
    ASSUME NEW known \in [Keys -> Record], NEW shorter \in [Keys -> Record],
           NEW key \in Keys, NEW o, NEW p, NEW off \in Nat,
           \A i \in 1 .. Len(shorter[key].history) :
               /\ i + off \in 1 .. Len(known[key].history)
               /\ shorter[key].history[i] = known[key].history[i + off],
           \A k \in Keys \ {key} : shorter[k].history = known[k].history,
           IsFiniteSet(Naming(known, o, p))
    PROVE  /\ IsFiniteSet(Naming(shorter, o, p))
           /\ Cardinality(Naming(shorter, o, p)) <= Cardinality(Naming(known, o, p))
<1> DEFINE S == Naming(shorter, o, p)
<1> DEFINE T == Naming(known, o, p)
<1> DEFINE image(x) == IF x[1] = key THEN <<key, x[2] + off>> ELSE x
<1> DEFINE f == [x \in S |-> image(x)]
<1>1. ASSUME NEW x \in S
      PROVE  /\ image(x) \in T
             /\ \E k \in Keys, i \in Nat : x = <<k, i>>
  <2>1. PICK k \in Keys : \E i \in 1 .. Len(shorter[k].history) :
                             x = <<k, i>> /\ Names(shorter[k].history[i], o, p)
    BY NamingElements
  <2>2. PICK i \in 1 .. Len(shorter[k].history) : x = <<k, i>> /\ Names(shorter[k].history[i], o, p)
    BY <2>1
  <2>3. i \in Nat /\ x[1] = k /\ x[2] = i
    <3>1. shorter[k].history \in Seq(Entry)
      BY DEF Record
    <3> QED BY <2>2, <3>1, LenProperties
  <2>4. CASE k = key
    <3>1. image(x) = <<k, i + off>>
      BY <2>3, <2>4
    <3>2. i + off \in 1 .. Len(known[k].history) /\ Names(known[k].history[i + off], o, p)
      BY <2>2, <2>4
    <3>3. \E j \in 1 .. Len(known[k].history) :
              <<k, i + off>> = <<k, j>> /\ Names(known[k].history[j], o, p)
      BY <3>2
    <3>4. <<k, i + off>> \in T
      BY <3>3, NamingElements
    <3> QED BY <2>2, <2>3, <3>1, <3>4
  <2>5. CASE k # key
    <3>1. image(x) = <<k, i>>
      BY <2>2, <2>3, <2>5
    <3>2. i \in 1 .. Len(known[k].history) /\ Names(known[k].history[i], o, p)
      BY <2>2, <2>5
    <3>3. <<k, i>> \in T
      BY <3>2, NamingElements
    <3> QED BY <2>2, <2>3, <3>1, <3>3
  <2> QED BY <2>4, <2>5
<1>2. ASSUME NEW x \in S, NEW y \in S, image(x) = image(y) PROVE x = y
  <2>1. PICK k \in Keys, i \in Nat : x = <<k, i>>
    BY <1>1
  <2>2. PICK l \in Keys, j \in Nat : y = <<l, j>>
    BY <1>1
  <2>3. /\ x[1] = k /\ x[2] = i /\ y[1] = l /\ y[2] = j
    BY <2>1, <2>2
  <2>4. image(x)[1] = k /\ image(y)[1] = l
    BY <2>1, <2>2, <2>3
  <2>5. k = l
    BY <1>2, <2>4
  <2>6. CASE k = key
    <3>1. image(x) = <<key, i + off>> /\ image(y) = <<key, j + off>>
      BY <2>3, <2>5, <2>6
    <3>2. i + off = j + off
      BY <1>2, <3>1
    <3> QED BY <2>1, <2>2, <2>5, <3>2
  <2>7. CASE k # key
    BY <1>2, <2>3, <2>5, <2>7
  <2> QED BY <2>6, <2>7
<1> HIDE DEF image, S, T
<1>3. f \in Injection(S, T)
  BY <1>1, <1>2 DEF Injection, IsInjective
<1>4. IsFiniteSet(T)
  BY DEF T
<1> HIDE DEF f
<1>5. IsFiniteSet(S) /\ Cardinality(S) <= Cardinality(T)
  BY <1>3, <1>4, FS_Injection
<1> QED BY <1>5 DEF S, T

(* What the cues count, one by one.                                         *)
LEMMA TallyOfNone ==
    ASSUME NEW cues, NEW o, \A p \in Points : cues[o][p] = 0
    PROVE  IsFiniteSet(Tally(cues, o)) /\ Cardinality(Tally(cues, o)) = 0
<1>1. Tally(cues, o) = {}
  BY DEF Tally
<1> QED BY <1>1, FS_EmptySet

LEMMA TallyCounts ==
    ASSUME NEW cues, NEW more, NEW o, NEW p \in Points,
           \A q \in Points : cues[o][q] \in Nat,
           more[o][p] = cues[o][p] + 1,
           \A q \in Points \ {p} : more[o][q] = cues[o][q],
           IsFiniteSet(Tally(cues, o))
    PROVE  /\ IsFiniteSet(Tally(more, o))
           /\ Cardinality(Tally(more, o)) = Cardinality(Tally(cues, o)) + 1
<1> DEFINE n == cues[o][p]
<1> DEFINE last == <<p, n + 1>>
<1>1. n \in Nat /\ more[o][p] = n + 1 /\ 1 .. (n + 1) = (1 .. n) \cup {n + 1} /\ n + 1 \notin 1 .. n
  OBVIOUS
<1>2. \A x : x \in Tally(cues, o) <=> \E q \in Points : \E i \in 1 .. cues[o][q] : x = <<q, i>>
  BY DEF Tally
<1>3. \A x : x \in Tally(more, o) <=> \E q \in Points : \E i \in 1 .. more[o][q] : x = <<q, i>>
  BY DEF Tally
<1>4. last \notin Tally(cues, o)
  <2> SUFFICES ASSUME last \in Tally(cues, o) PROVE FALSE
    OBVIOUS
  <2>1. PICK q \in Points : \E i \in 1 .. cues[o][q] : last = <<q, i>>
    BY <1>2
  <2>2. PICK i \in 1 .. cues[o][q] : last = <<q, i>>
    BY <2>1
  <2>3. q = p /\ i = n + 1
    BY <2>2
  <2> QED BY <1>1, <2>2, <2>3
<1> HIDE DEF n
<1>5. ASSUME NEW x PROVE x \in Tally(more, o) <=> x \in Tally(cues, o) \/ x = last
  <2>1. ASSUME NEW q \in Points, q # p
        PROVE  (\E i \in 1 .. more[o][q] : x = <<q, i>>) <=> (\E i \in 1 .. cues[o][q] : x = <<q, i>>)
    BY <2>1
  <2>2. (\E i \in 1 .. more[o][p] : x = <<p, i>>)
           <=> (\E i \in 1 .. cues[o][p] : x = <<p, i>>) \/ x = last
    BY <1>1 DEF n
  <2> HIDE DEF last
  <2> QED BY <1>2, <1>3, <2>1, <2>2
<1>6. Tally(more, o) = Tally(cues, o) \cup {last}
  BY <1>5
<1> HIDE DEF last
<1> QED BY <1>4, <1>6, FS_AddElement

TallyInv ==
    ~cut /\ SettledGlobal.form = "v2" =>
        \A o \in Filed :
            /\ IsFiniteSet(Tally(SettledGlobal.cues, o))
            /\ SettledGlobal.counters[o] = Cardinality(Tally(SettledGlobal.cues, o))

LEMMA TallyInit == ASSUME Init PROVE TallyInv
<1>1. /\ writing = Idle /\ (globalFile.form = "absent" \/ globalFile.form = "v1")
  BY DEF Init
<1>2. SettledGlobal = IF globalFile.form = "absent" THEN DefaultGlobal ELSE globalFile
  BY <1>1 DEF SettledGlobal, GlobalNow, Read
<1>3. \A o \in Filed : /\ DefaultGlobal.counters[o] = 0
                       /\ \A p \in Points : DefaultGlobal.cues[o][p] = 0
  BY DefaultTypes DEF Cues
<1> QED BY <1>1, <1>2, <1>3, TallyOfNone DEF TallyInv

LEMMA TallyStep == ASSUME BaseInv, TallyInv, [Next]_vars PROVE TallyInv'
<1> SUFFICES ASSUME ~cut', SettledGlobal'.form = "v2", NEW o \in Filed
             PROVE  /\ IsFiniteSet(Tally(SettledGlobal'.cues, o))
                    /\ SettledGlobal'.counters[o] = Cardinality(Tally(SettledGlobal'.cues, o))
  BY DEF TallyInv, Tally
<1>1. ~cut /\ SettledStep
  BY SettledSteps
<1>2. CASE SettledGlobal' = SettledGlobal
  BY <1>1, <1>2 DEF TallyInv
<1>3. CASE SettledGlobal \in Global1 /\ SettledGlobal' = MigratedGlobal(SettledGlobal)
  <2>1. SettledGlobal'.counters[o] = 0 /\ \A p \in Points : SettledGlobal'.cues[o][p] = 0
    BY <1>3, MigratedGlobalType
  <2> QED BY <2>1, TallyOfNone
<1>4. CASE UpsertCue
  <2>1. SettledGlobal \in Global2 /\ SettledGlobal.form = "v2"
    BY <1>4, SettledUpsertCue DEF Global2
  <2>2. PICK p \in Points : SettledGlobal' = Counted(SettledGlobal, FiledAs(run.outcome), p)
    BY <1>4, SettledUpsertCue
  <2> DEFINE filed == FiledAs(run.outcome)
  <2>3. filed \in Filed
    BY FiledAsType
  <2> HIDE DEF filed
  <2>4. /\ Counted(SettledGlobal, filed, p).cues =
             [SettledGlobal.cues EXCEPT ![filed] = [SettledGlobal.cues[filed] EXCEPT ![p] = @ + 1]]
        /\ Counted(SettledGlobal, filed, p).counters = [SettledGlobal.counters EXCEPT ![filed] = @ + 1]
    BY <2>1, <2>3, CountedType
  <2>5. SettledGlobal.cues \in [Filed -> [Cues -> Nat]] /\ Points \subseteq Cues
        /\ SettledGlobal.counters \in [Filed \cup OldEvents -> Nat]
    BY <2>1 DEF Global2, Cues
  <2> DEFINE row == [SettledGlobal.cues[filed] EXCEPT ![p] = @ + 1]
  <2>6. row[p] = SettledGlobal.cues[filed][p] + 1
        /\ \A q \in Points \ {p} : row[q] = SettledGlobal.cues[filed][q]
    BY <2>3, <2>5
  <2>7. SettledGlobal'.cues = [SettledGlobal.cues EXCEPT ![filed] = row]
    BY <2>2, <2>4 DEF filed
  <2> HIDE DEF row
  <2>8. SettledGlobal'.counters = [SettledGlobal.counters EXCEPT ![filed] = @ + 1]
    BY <2>2, <2>4 DEF filed
  <2>9. /\ IsFiniteSet(Tally(SettledGlobal.cues, o))
        /\ SettledGlobal.counters[o] = Cardinality(Tally(SettledGlobal.cues, o))
    BY <1>1, <2>1 DEF TallyInv
  <2>10. CASE o = filed
    <3>1. /\ SettledGlobal'.cues[o] = row /\ SettledGlobal'.counters[o] = SettledGlobal.counters[o] + 1
      BY <2>3, <2>5, <2>7, <2>8, <2>10
    <3>2. /\ \A q \in Points : SettledGlobal.cues[o][q] \in Nat
          /\ SettledGlobal'.cues[o][p] = SettledGlobal.cues[o][p] + 1
          /\ \A q \in Points \ {p} : SettledGlobal'.cues[o][q] = SettledGlobal.cues[o][q]
      BY <2>3, <2>5, <2>6, <2>10, <3>1
    <3>3. /\ IsFiniteSet(Tally(SettledGlobal'.cues, o))
          /\ Cardinality(Tally(SettledGlobal'.cues, o)) = Cardinality(Tally(SettledGlobal.cues, o)) + 1
      BY <2>9, <3>2, TallyCounts
    <3> QED BY <2>9, <3>1, <3>3
  <2>11. CASE o # filed
    <3>1. /\ SettledGlobal'.cues[o] = SettledGlobal.cues[o]
          /\ SettledGlobal'.counters[o] = SettledGlobal.counters[o]
      BY <2>3, <2>5, <2>7, <2>8, <2>11
    <3>2. Tally(SettledGlobal'.cues, o) = Tally(SettledGlobal.cues, o)
      BY <3>1 DEF Tally
    <3> QED BY <2>9, <3>1, <3>2
  <2> QED BY <2>10, <2>11
<1> QED BY <1>1, <1>2, <1>3, <1>4 DEF SettledStep

(* During a run the cues are ahead of the histories, by the points that     *)
(* were counted already.                                                    *)
Ahead(o, p) ==
    IF /\ run.node = "tool_execution" /\ p \in run.points \ run.todo
       /\ FiledAs(run.outcome) = o
    THEN 1 ELSE 0

Below(known) == \A k \in Keys : Len(known[k].history) < HistoryLimit

TodoInv == run # NoRun => run.todo \subseteq run.points

(* The cues of the global file, when the user file says what is known.      *)
SameStory(known, cues) ==
    \A o \in Filed, p \in Points :
        /\ IsFiniteSet(Naming(known, o, p))
        /\ cues[o][p] >= Cardinality(Naming(known, o, p)) + Ahead(o, p)
        /\ Below(known) => cues[o][p] = Cardinality(Naming(known, o, p)) + Ahead(o, p)

NamedInv ==
    ~cut =>
        /\ Settled.form = "v1" /\ SettledGlobal.form = "v2" =>
              \A o \in Filed, p \in Points : SettledGlobal.cues[o][p] = 0
        /\ Settled.form = "v2" =>
              SettledGlobal.form = "v2" /\ SameStory(Settled.known, SettledGlobal.cues)

(* A file without a word of the conversations.                              *)
LEMMA NothingNamed ==
    ASSUME NEW known \in [Keys -> Record], NEW cues,
           \A k \in Keys : \A i \in 1 .. Len(known[k].history) :
               known[k].history[i].points \cap Points = {},
           \A o \in Filed, p \in Points : cues[o][p] = 0 /\ Ahead(o, p) = 0
    PROVE  SameStory(known, cues)
<1> SUFFICES ASSUME NEW o \in Filed, NEW p \in Points
             PROVE  /\ IsFiniteSet(Naming(known, o, p)) /\ Cardinality(Naming(known, o, p)) = 0
  BY DEF SameStory
<1>1. ASSUME NEW x \in Naming(known, o, p) PROVE FALSE
  <2>1. PICK k \in Keys : \E i \in 1 .. Len(known[k].history) :
                             x = <<k, i>> /\ Names(known[k].history[i], o, p)
    BY NamingElements
  <2> QED BY <2>1 DEF Names
<1>2. Naming(known, o, p) = {}
  BY <1>1
<1> QED BY <1>2, FS_EmptySet

LEMMA DefaultNamesNothing ==
    /\ DefaultUsers.known \in [Keys -> Record]
    /\ \A k \in Keys : \A i \in 1 .. Len(DefaultUsers.known[k].history) :
          DefaultUsers.known[k].history[i].points \cap Points = {}
<1>1. DefaultUsers.known \in [Keys -> Record]
  BY DefaultTypes DEF Users2
<1>2. ASSUME NEW k \in Keys, NEW i \in 1 .. Len(DefaultUsers.known[k].history)
      PROVE  DefaultUsers.known[k].history[i].points \cap Points = {}
  <2>1. CASE DefaultUsers.known[k] = Seed(k)
    <3>1. DefaultUsers.known[k].history = <<[points |-> {}, outcome |-> "neutral"]>>
      BY <2>1 DEF Seed, OneEntry
    <3>2. i = 1
      BY <1>2, <3>1
    <3> QED BY <3>1, <3>2
  <2>2. CASE DefaultUsers.known[k] = NoRecord
    <3>1. Len(DefaultUsers.known[k].history) = 0
      BY <2>2 DEF NoRecord
    <3> QED BY <1>2, <3>1
  <2>3. DefaultUsers.known[k] = IF k \in SeedUsers THEN Seed(k) ELSE NoRecord
    BY DefaultTypes
  <2> QED BY <2>1, <2>2, <2>3
<1> QED BY <1>1, <1>2

LEMMA MigratedNamesNothing ==
    ASSUME NEW old \in Users1
    PROVE  /\ MigratedUsers(old).known \in [Keys -> Record]
           /\ \A k \in Keys : \A i \in 1 .. Len(MigratedUsers(old).known[k].history) :
                 MigratedUsers(old).known[k].history[i].points \cap Points = {}
<1>1. MigratedUsers(old).known \in [Keys -> Record]
  BY MigratedUsersType DEF Users2
<1>2. ASSUME NEW k \in Keys, NEW i \in 1 .. Len(MigratedUsers(old).known[k].history)
      PROVE  MigratedUsers(old).known[k].history[i].points \cap Points = {}
  <2> DEFINE row == old.rows[LastRow(old.rows, k)]
  <2>1. \/ /\ row.points \subseteq OldPoints
           /\ MigratedUsers(old).known[k] =
                 [points |-> row.points,
                  history |-> <<[points |-> row.points, outcome |-> "neutral"]>>]
        \/ MigratedUsers(old).known[k] = DefaultUsers.known[k]
    BY MigratedUsersType
  <2> HIDE DEF row
  <2>2. CASE MigratedUsers(old).known[k] = DefaultUsers.known[k]
    BY <1>2, <2>2, DefaultNamesNothing
  <2>3. CASE /\ row.points \subseteq OldPoints
             /\ MigratedUsers(old).known[k] =
                   [points |-> row.points,
                    history |-> <<[points |-> row.points, outcome |-> "neutral"]>>]
    <3>1. MigratedUsers(old).known[k].history = <<[points |-> row.points, outcome |-> "neutral"]>>
      BY <2>3
    <3>2. i = 1
      BY <1>2, <3>1
    <3>3. MigratedUsers(old).known[k].history[i].points = row.points
      BY <3>1, <3>2
    <3> QED BY <2>3, <3>3, UsersAssumption
  <2> QED BY <2>1, <2>2, <2>3
<1> QED BY <1>1, <1>2

LEMMA NamedInit == ASSUME Init PROVE NamedInv /\ TodoInv
<1>1. /\ writing = Idle /\ run = NoRun
      /\ \/ globalFile.form = "absent" /\ userFile.form = "absent"
         \/ globalFile.form = "v1" /\ userFile.form = "v1"
  BY DEF Init, NoRun
<1>2. \A o, p : Ahead(o, p) = 0
  BY <1>1 DEF Ahead, NoRun
<1>3. CASE globalFile.form = "absent" /\ userFile.form = "absent"
  <2>1. SettledGlobal = DefaultGlobal /\ Settled = DefaultUsers
    BY <1>1, <1>3 DEF SettledGlobal, Settled, GlobalNow, UsersNow, Read
  <2>2. \A o \in Filed, p \in Points : DefaultGlobal.cues[o][p] = 0 /\ Ahead(o, p) = 0
    BY <1>2, DefaultTypes DEF Cues
  <2>3. SameStory(DefaultUsers.known, DefaultGlobal.cues)
    BY <2>2, DefaultNamesNothing, NothingNamed
  <2> QED BY <1>1, <2>1, <2>3, DefaultTypes DEF NamedInv, TodoInv
<1>4. CASE globalFile.form = "v1" /\ userFile.form = "v1"
  <2>1. SettledGlobal = globalFile /\ Settled = userFile
    BY <1>1, <1>4 DEF SettledGlobal, Settled, GlobalNow, UsersNow, Read
  <2> QED BY <1>1, <1>4, <2>1 DEF NamedInv, TodoInv
<1> QED BY <1>1, <1>3, <1>4

(* A run starts with nothing read, and nothing found.                       *)
Talking == \E s \in Sessions : Dialogue(s)

LEMMA RunBegins ==
    ASSUME Talking
    PROVE  \/ run' = run
           \/ run = NoRun /\ run'.node = "messages" /\ run'.todo = {}
<1>1. PICK s \in Sessions : Dialogue(s)
  BY DEF Talking
<1>2. \A reason : Request(s, reason).node = "messages" /\ Request(s, reason).todo = {}
  BY DEF Request
<1>3. ASSUME NEW question \in CustomerSays, NEW answer \in AgentSays,
             NEW mention \in Mentions, NEW closing \in BOOLEAN,
             Turn(s, question, answer, mention, closing)
      PROVE  run' = run \/ (run = NoRun /\ run'.node = "messages" /\ run'.todo = {})
  BY <1>2, <1>3 DEF Turn
<1>4. ASSUME NEW mention \in Mentions, AdminMessage(s, mention) PROVE run' = run
  BY <1>4 DEF AdminMessage
<1>5. ASSUME NEW u \in Customers, StartConversation(s, u) PROVE run' = run
  BY <1>5 DEF StartConversation, Reset
<1>6. ASSUME ResetConversation(s) PROVE run' = run
  BY <1>6 DEF ResetConversation, Reset
<1>7. ASSUME Exit(s) PROVE run = NoRun /\ run'.node = "messages" /\ run'.todo = {}
  BY <1>2, <1>7 DEF Exit
<1> QED BY <1>1, <1>3, <1>4, <1>5, <1>6, <1>7 DEF Dialogue

LEMMA TodoStep == ASSUME BaseInv, TodoInv, [Next]_vars PROVE TodoInv'
<1>1. CASE run' = run \/ run' = NoRun
  BY <1>1 DEF TodoInv
<1>2. CASE React \/ Reflect
  <2>1. run \in Runs /\ run # NoRun
    BY <1>2, BaseReact, BaseReflect DEF React, Reflect, NoRun
  <2>2. CASE React
    BY <2>1, <2>2 DEF React, TodoInv, Runs
  <2>3. CASE Reflect
    BY <2>1, <2>3 DEF Reflect, TodoInv, Runs
  <2> QED BY <1>2, <2>2, <2>3
<1>3. CASE UpsertCue
  <2>1. PICK p \in run.todo : run' = [run EXCEPT !.todo = @ \ {p}]
    BY <1>3, BaseUpsertCue
  <2>2. run \in Runs
    BY <1>3, BaseUpsertCue
  <2>3. run # NoRun
    BY <1>3 DEF UpsertCue, NoRun
  <2> QED BY <2>1, <2>2, <2>3 DEF TodoInv, Runs
<1>4. CASE UpsertUser
  <2>1. run \in Runs /\ run.todo = {} /\ run' = [run EXCEPT !.node = "react", !.observed = TRUE]
    BY <1>4, BaseUpsertUser
  <2> QED BY <2>1 DEF TodoInv, Runs
<1>5. CASE Talking
  BY <1>1, <1>5, RunBegins DEF TodoInv
<1>6. CASE ReadMessages \/ ReadState
  <2>1. run.node \in {"messages", "state"} /\ run # NoRun
    BY <1>6 DEF ReadMessages, ReadState, NoRun
  <2>2. CASE ReadMessages
    <3>1. run'.todo = run.todo /\ run'.points = run.points
      BY <2>2, BaseReadMessages DEF Runs
    <3> QED BY <2>1, <3>1 DEF TodoInv
  <2>3. CASE ReadState
    <3>1. run'.todo = run.todo /\ run'.points = run.points
      BY <2>3, BaseReadState DEF Runs
    <3> QED BY <2>1, <3>1 DEF TodoInv
  <2> QED BY <1>6, <2>2, <2>3
<1> QED BY <1>1, <1>2, <1>3, <1>4, <1>5, <1>6
     DEF Next, Start, Boot, CreateGlobal, CreateUser, MigrateGlobal, MigrateUser, BootStep,
         StartFails, Helper, Respond, Finish, Crash, Talking, vars

(* Only the helper's tool comes ahead, and only its last write catches up.  *)
LEMMA AheadUnchanged ==
    ASSUME BaseInv, [Next]_vars, ~cut', ~UpsertCue, ~UpsertUser
    PROVE  \A o, p : Ahead(o, p)' = Ahead(o, p)
<1>1. CASE run' = run
  BY <1>1 DEF Ahead
<1>2. CASE /\ run.node # "tool_execution"
           /\ run'.node = "tool_execution" => run'.points = run'.todo
  BY <1>2 DEF Ahead
<1>3. CASE React
  <2>1. run \in Runs
    BY <1>3, BaseReact
  <2> QED BY <1>2, <1>3, <2>1 DEF React, Runs
<1>4. CASE Reflect
  <2>1. run \in Runs
    BY <1>4, BaseReflect
  <2> QED BY <1>2, <1>4, <2>1 DEF Reflect, Runs
<1>5. CASE Respond
  BY <1>2, <1>5 DEF Respond, NoRun
<1>6. CASE Crash
  <2>1. run = NoRun /\ run' = NoRun
    BY <1>6 DEF Crash, BaseInv, TypeOK
  <2> QED BY <1>1, <2>1
<1>7. CASE Talking
  <2>1. run' = run \/ (run = NoRun /\ run'.node = "messages")
    BY <1>7, RunBegins
  <2> QED BY <1>1, <1>2, <2>1 DEF NoRun
<1>8. CASE ReadMessages \/ ReadState
  <2>1. run.node # "tool_execution" /\ run'.node # "tool_execution"
    BY <1>8, BaseReadMessages, BaseReadState DEF Runs
  <2> QED BY <1>2, <2>1
<1> QED BY <1>1, <1>3, <1>4, <1>5, <1>6, <1>7, <1>8
     DEF Next, Start, Boot, CreateGlobal, CreateUser, MigrateGlobal, MigrateUser, BootStep,
         StartFails, Helper, Finish, Talking, vars

(* The record of a conversation catches up with its cues.                   *)
LEMMA StoryUser ==
    ASSUME BaseInv, UpsertUser, NEW cues \in [Filed -> [Cues -> Nat]],
           SameStory(Settled.known, cues), NEW o \in Filed, NEW p \in Points
    PROVE  /\ IsFiniteSet(Naming(Settled'.known, o, p))
           /\ cues[o][p] >= Cardinality(Naming(Settled'.known, o, p))
           /\ Below(Settled'.known) => cues[o][p] = Cardinality(Naming(Settled'.known, o, p))
           /\ Ahead(o, p)' = 0
<1> DEFINE key == run.key
<1> DEFINE known == Settled.known
<1> DEFINE now == Settled'.known
<1> DEFINE entry == EntryOf(run.points)
<1> DEFINE all == Append(known[key].history, entry)
<1> DEFINE longer == [known EXCEPT ![key] = [points |-> known[key].points, history |-> all]]
<1>1. /\ Settled \in Users2 /\ Settled' \in Users2 /\ key \in Keys /\ known[key] \in Record
      /\ now = [known EXCEPT ![key] = Merged(run.points, known[key])]
  BY SettledUpsertUser
<1>2. /\ run \in Runs /\ run.node = "tool_execution" /\ run.todo = {}
      /\ run' = [run EXCEPT !.node = "react", !.observed = TRUE]
  BY BaseUpsertUser
<1>3. known \in [Keys -> Record] /\ now \in [Keys -> Record]
  BY <1>1 DEF Users2
<1>4. entry \in Entry
  BY <1>2 DEF Runs, Entry, EntryOf, AllPoints
<1>5. known[key].history \in Seq(Entry)
  BY <1>1 DEF Record
<1> DEFINE n == Len(known[key].history)
<1> HIDE DEF known, now, key, entry
<1>6. n \in Nat /\ all \in Seq(Entry) /\ Len(all) = n + 1
  BY <1>4, <1>5, AppendProperties, LenProperties
<1>7. now[key].history = LastOf(HistoryLimit, all)
  BY <1>1, <1>3 DEF Merged, entry
<1>8. \A k \in Keys \ {key} : now[k].history = known[k].history
  BY <1>1, <1>3
<1>9. HistoryLimit \in Nat \ {0}
  BY LimitsAssumption
<1>10. [points |-> known[key].points, history |-> all] \in Record
  BY <1>1, <1>6 DEF Record
<1>11. /\ longer \in [Keys -> Record] /\ longer[key].history = all
       /\ \A k \in Keys \ {key} : longer[k].history = known[k].history
  <2> HIDE DEF all
  <2> QED BY <1>1, <1>3, <1>10
<1>23. all = Append(known[key].history, entry)
  OBVIOUS
<1> HIDE DEF longer, all, n
<1> DEFINE more == Ahead(o, p)
<1>12. more = 1 <=> Names(entry, o, p)
  BY <1>2 DEF Names, entry, EntryOf, Ahead, FiledAs, Filed
<1>24. more \in {0, 1}
  BY DEF Ahead
<1>13. Ahead(o, p) \in {0, 1} /\ Ahead(o, p)' = 0
  <2>1. run'.node = "react"
    BY <1>2 DEF Runs
  <2> QED BY <2>1 DEF Ahead
<1>14. /\ IsFiniteSet(Naming(known, o, p))
       /\ cues[o][p] >= Cardinality(Naming(known, o, p)) + Ahead(o, p)
       /\ Below(known) => cues[o][p] = Cardinality(Naming(known, o, p)) + Ahead(o, p)
  BY DEF SameStory, known
<1>15. Cardinality(Naming(known, o, p)) \in Nat /\ cues[o][p] \in Nat
  <2>1. p \in Cues
    BY DEF Cues
  <2> QED BY <1>14, <2>1, FS_CardinalityType
<1> DEFINE old == Cardinality(Naming(known, o, p))
<1> DEFINE new == Cardinality(Naming(now, o, p))
<1>16. /\ IsFiniteSet(Naming(longer, o, p))
       /\ Cardinality(Naming(longer, o, p)) = old + Ahead(o, p)
  <2> HIDE DEF more
  <2> SUFFICES /\ IsFiniteSet(Naming(longer, o, p))
               /\ Cardinality(Naming(longer, o, p)) = Cardinality(Naming(known, o, p)) + more
    BY DEF more
  <2>1. Longer(known, longer, key, entry)
    BY <1>1, <1>3, <1>4, <1>11, <1>23 DEF Longer
  <2>2. /\ IsFiniteSet(Naming(longer, o, p))
        /\ Names(entry, o, p) =>
              Cardinality(Naming(longer, o, p)) = Cardinality(Naming(known, o, p)) + 1
        /\ ~Names(entry, o, p) =>
              Cardinality(Naming(longer, o, p)) = Cardinality(Naming(known, o, p))
    BY <1>14, <2>1, NamingAppend, SMT
  <2> QED BY <1>12, <1>15, <1>24, <2>2
<1> DEFINE off == Len(all) - Len(now[key].history)
<1>17. /\ Len(now[key].history) = IF Len(all) <= HistoryLimit THEN Len(all) ELSE HistoryLimit
       /\ \A i \in 1 .. Len(now[key].history) :
             i + off \in 1 .. Len(all) /\ now[key].history[i] = all[i + off]
  <2> DEFINE l == LastOf(HistoryLimit, all)
  <2>1. /\ Len(l) = IF Len(all) <= HistoryLimit THEN Len(all) ELSE HistoryLimit
        /\ \A i \in 1 .. Len(l) : /\ i + (Len(all) - Len(l)) \in 1 .. Len(all)
                                  /\ l[i] = all[i + (Len(all) - Len(l))]
    BY <1>6, <1>9, LastOfIsEnd
  <2>2. now[key].history = l
    BY <1>7
  <2> HIDE DEF l
  <2> QED BY <2>1, <2>2
<1>18. off \in Nat
  BY <1>6, <1>9, <1>17
<1> HIDE DEF off
<1>19. IsFiniteSet(Naming(now, o, p)) /\ new <= Cardinality(Naming(longer, o, p))
  <2>1. /\ longer \in [Keys -> Record] /\ now \in [Keys -> Record] /\ key \in Keys /\ off \in Nat
        /\ \A i \in 1 .. Len(now[key].history) :
              /\ i + off \in 1 .. Len(longer[key].history)
              /\ now[key].history[i] = longer[key].history[i + off]
        /\ IsFiniteSet(Naming(longer, o, p))
    BY <1>1, <1>3, <1>11, <1>16, <1>17, <1>18
  <2>2. \A k \in Keys \ {key} : now[k].history = longer[k].history
    BY <1>8, <1>11
  <2> QED BY <2>1, <2>2, NamingCut, Zenon
<1>20. new \in Nat
  BY <1>19, FS_CardinalityType
<1>21. cues[o][p] >= new
  <2> HIDE DEF old, new
  <2> QED BY <1>13, <1>14, <1>15, <1>16, <1>19, <1>20 DEF old
<1>22. ASSUME Below(now) PROVE cues[o][p] = new
  <2>1. Len(now[key].history) < HistoryLimit
    BY <1>1, <1>22 DEF Below
  <2>2. Len(all) <= HistoryLimit /\ n + 1 < HistoryLimit
    BY <1>6, <1>9, <1>17, <2>1
  <2>3. now[key].history = all
    BY <1>7, <2>2 DEF LastOf
  <2>6. new = old + Ahead(o, p)
    <3> HIDE DEF more
    <3> SUFFICES Cardinality(Naming(now, o, p)) = Cardinality(Naming(known, o, p)) + more
      BY DEF more
    <3>1. Longer(known, now, key, entry)
      BY <1>1, <1>3, <1>4, <1>8, <1>23, <2>3 DEF Longer
    <3>2. /\ Names(entry, o, p) =>
              Cardinality(Naming(now, o, p)) = Cardinality(Naming(known, o, p)) + 1
          /\ ~Names(entry, o, p) =>
              Cardinality(Naming(now, o, p)) = Cardinality(Naming(known, o, p))
      BY <1>14, <3>1, NamingAppend, SMT
    <3> QED BY <1>12, <1>15, <1>24, <3>2
  <2>5. Below(known)
    <3> SUFFICES ASSUME NEW k \in Keys PROVE Len(known[k].history) < HistoryLimit
      BY DEF Below
    <3>1. CASE k = key
      BY <1>6, <1>9, <2>2, <3>1 DEF n
    <3>2. CASE k # key
      BY <1>8, <1>22, <3>2 DEF Below
    <3> QED BY <3>1, <3>2
  <2> QED BY <1>14, <2>5, <2>6
<1> QED BY <1>13, <1>19, <1>21, <1>22 DEF now

(* A cue comes ahead of the histories.                                      *)
LEMMA StoryCue ==
    ASSUME BaseInv, TodoInv, UpsertCue, SameStory(Settled.known, SettledGlobal.cues),
           NEW o \in Filed, NEW p \in Points
    PROVE  /\ SettledGlobal'.form = "v2"
           /\ SettledGlobal'.cues[o][p] - SettledGlobal.cues[o][p] = Ahead(o, p)' - Ahead(o, p)
           /\ SettledGlobal'.cues[o][p] \in Nat /\ SettledGlobal.cues[o][p] \in Nat
           /\ Ahead(o, p) \in {0, 1} /\ Ahead(o, p)' \in {0, 1}
<1> DEFINE filed == FiledAs(run.outcome)
<1>1. SettledGlobal \in Global2 /\ run \in Runs /\ run.node = "tool_execution" /\ filed \in Filed
  BY BaseUpsertCue, SettledUpsertCue, FiledAsType
<1>2. PICK q \in Points : /\ q \in run.todo /\ run' = [run EXCEPT !.todo = @ \ {q}]
                          /\ SettledGlobal' = Counted(SettledGlobal, filed, q)
  BY SettledUpsertCue
<1>3. q \in run.points
  <2>1. run # NoRun
    BY <1>1 DEF NoRun
  <2> QED BY <1>2, <2>1 DEF TodoInv
<1>4. /\ run'.node = "tool_execution" /\ run'.points = run.points
      /\ run'.outcome = run.outcome /\ run'.todo = run.todo \ {q}
  BY <1>1, <1>2 DEF Runs
<1>5. /\ Ahead(o, p) = IF p \in run.points \ run.todo /\ filed = o THEN 1 ELSE 0
      /\ Ahead(o, p)' = IF p \in run.points \ (run.todo \ {q}) /\ filed = o THEN 1 ELSE 0
  BY <1>1, <1>4 DEF Ahead
<1> HIDE DEF filed
<1>6. /\ Counted(SettledGlobal, filed, q) \in Global2
      /\ Counted(SettledGlobal, filed, q).cues =
             [SettledGlobal.cues EXCEPT ![filed] = [SettledGlobal.cues[filed] EXCEPT ![q] = @ + 1]]
  <2>1. SettledGlobal \in Global2 /\ filed \in Filed
    BY <1>1
  <2>2. Counted(SettledGlobal, filed, q) \in Global2
    BY <2>1, CountedType
  <2>3. /\ Counted(SettledGlobal, filed, q).cues =
             [SettledGlobal.cues EXCEPT ![filed] = [SettledGlobal.cues[filed] EXCEPT ![q] = @ + 1]]
        /\ Counted(SettledGlobal, filed, q).counters = [SettledGlobal.counters EXCEPT ![filed] = @ + 1]
    BY <2>1, CountedType
  <2> QED BY <2>2, <2>3
<1>7. SettledGlobal.cues \in [Filed -> [Cues -> Nat]] /\ p \in Cues /\ q \in Cues
  BY <1>1, <1>2 DEF Global2, Cues
<1> DEFINE row == [SettledGlobal.cues[filed] EXCEPT ![q] = @ + 1]
<1>8. row[p] = SettledGlobal.cues[filed][p] + (IF p = q THEN 1 ELSE 0)
  BY <1>1, <1>7
<1>9. SettledGlobal'.cues = [SettledGlobal.cues EXCEPT ![filed] = row]
  BY <1>2, <1>6
<1> HIDE DEF row
<1>10. SettledGlobal.cues[o][p] \in Nat
  BY <1>7
<1>11. SettledGlobal'.form = "v2"
  BY <1>2, <1>6 DEF Global2
<1>12. CASE o = filed /\ p = q
  <2>1. SettledGlobal'.cues[o][p] = SettledGlobal.cues[o][p] + 1
    BY <1>7, <1>8, <1>9, <1>12
  <2>2. Ahead(o, p) = 0 /\ Ahead(o, p)' = 1
    BY <1>2, <1>3, <1>5, <1>12
  <2> QED BY <1>10, <1>11, <2>1, <2>2
<1>13. CASE ~(o = filed /\ p = q)
  <2>1. SettledGlobal'.cues[o][p] = SettledGlobal.cues[o][p]
    <3>1. CASE o = filed
      BY <1>7, <1>8, <1>9, <1>10, <1>13, <3>1
    <3>2. CASE o # filed
      BY <1>1, <1>7, <1>9, <3>2
    <3> QED BY <3>1, <3>2
  <2>2. Ahead(o, p)' = Ahead(o, p) /\ Ahead(o, p) \in {0, 1}
    BY <1>5, <1>13
  <2> QED BY <1>10, <1>11, <2>1, <2>2
<1> QED BY <1>12, <1>13

LEMMA NamedStep == ASSUME BaseInv, TodoInv, NamedInv, [Next]_vars PROVE NamedInv'
<1>1. CASE cut'
  BY <1>1 DEF NamedInv
<1>2. CASE ~cut'
  <2>1. ~cut /\ SettledStep
    BY <1>2, SettledSteps
  <2>2. CASE UpsertUser
    <3>6. SettledGlobal' = SettledGlobal
      BY <2>2, SettledUpsertUser
    <3>1. /\ Settled.form = "v2" /\ Settled'.form = "v2" /\ SettledGlobal.form = "v2"
          /\ SettledGlobal.cues \in [Filed -> [Cues -> Nat]]
      BY <2>2, SettledUpsertUser DEF Users2, Global2
    <3>2. SameStory(Settled.known, SettledGlobal.cues)
      BY <2>1, <3>1 DEF NamedInv
    <3>3. \A o \in Filed, p \in Points :
             /\ IsFiniteSet(Naming(Settled'.known, o, p))
             /\ SettledGlobal.cues[o][p] >= Cardinality(Naming(Settled'.known, o, p))
             /\ Below(Settled'.known) =>
                   SettledGlobal.cues[o][p] = Cardinality(Naming(Settled'.known, o, p))
             /\ Ahead(o, p)' = 0
      BY <2>2, <3>1, <3>2, StoryUser
    <3>4. \A o \in Filed, p \in Points : Cardinality(Naming(Settled'.known, o, p)) \in Nat
      BY <3>3, FS_CardinalityType
    <3>5. SameStory(Settled.known, SettledGlobal.cues)'
      BY <3>3, <3>4, <3>6 DEF SameStory, Below, Naming
    <3> QED BY <3>1, <3>5, <3>6 DEF NamedInv
  <2>3. CASE UpsertCue
    <3>8. Settled' = Settled
      BY <2>3, SettledUpsertCue
    <3>1. Settled.form = "v2" /\ SettledGlobal.form = "v2"
      BY <2>3, SettledUpsertCue DEF Users2, Global2
    <3>2. SameStory(Settled.known, SettledGlobal.cues)
      BY <2>1, <3>1 DEF NamedInv
    <3>3. \A o \in Filed, p \in Points :
             /\ SettledGlobal'.form = "v2"
             /\ SettledGlobal'.cues[o][p] - SettledGlobal.cues[o][p] = Ahead(o, p)' - Ahead(o, p)
             /\ SettledGlobal'.cues[o][p] \in Nat /\ SettledGlobal.cues[o][p] \in Nat
             /\ Ahead(o, p) \in {0, 1} /\ Ahead(o, p)' \in {0, 1}
      BY <2>3, <3>2, StoryCue
    <3>4. ASSUME NEW o \in Filed, NEW p \in Points
          PROVE  /\ IsFiniteSet(Naming(Settled.known, o, p))
                 /\ SettledGlobal'.cues[o][p] >= Cardinality(Naming(Settled.known, o, p)) + Ahead(o, p)'
                 /\ Below(Settled.known) => SettledGlobal'.cues[o][p] =
                                              Cardinality(Naming(Settled.known, o, p)) + Ahead(o, p)'
      <4> DEFINE c == Cardinality(Naming(Settled.known, o, p))
      <4>1. /\ IsFiniteSet(Naming(Settled.known, o, p)) /\ SettledGlobal.cues[o][p] >= c + Ahead(o, p)
            /\ Below(Settled.known) => SettledGlobal.cues[o][p] = c + Ahead(o, p)
        BY <3>2 DEF SameStory
      <4>2. c \in Nat
        BY <4>1, FS_CardinalityType
      <4> DEFINE a == Ahead(o, p)
      <4> DEFINE b == Ahead(o, p)'
      <4> DEFINE x == SettledGlobal.cues[o][p]
      <4> DEFINE y == SettledGlobal'.cues[o][p]
      <4>3. y - x = b - a /\ y \in Nat /\ x \in Nat /\ a \in {0, 1} /\ b \in {0, 1}
        BY <3>3
      <4>4. x >= c + a /\ (Below(Settled.known) => x = c + a)
        BY <4>1
      <4> HIDE DEF a, b, c, x, y
      <4>5. y >= c + b /\ (Below(Settled.known) => y = c + b)
        BY <4>2, <4>3, <4>4
      <4> QED BY <4>1, <4>5 DEF b, c, y
    <3>5. SameStory(Settled.known, SettledGlobal.cues)'
      BY <3>4, <3>8 DEF SameStory, Below, Naming
    <3>6. CASE Points = {}
      <4>1. SettledGlobal'.form = "v2"
        BY <2>3, <3>6, SettledUpsertCue
      <4> QED BY <3>1, <3>5, <3>8, <4>1 DEF NamedInv
    <3>7. CASE Points # {}
      <4>1. SettledGlobal'.form = "v2"
        BY <3>3, <3>7 DEF Filed
      <4> QED BY <3>1, <3>5, <3>8, <4>1 DEF NamedInv
    <3> QED BY <3>6, <3>7
  <2>4. CASE ~UpsertUser /\ ~UpsertCue
    <3>1. \A o, p : Ahead(o, p)' = Ahead(o, p)
      BY <1>2, <2>4, AheadUnchanged
    <3>2. CASE Settled' = Settled /\ SettledGlobal' = SettledGlobal
      <4>1. SameStory(Settled.known, SettledGlobal.cues)
               => SameStory(Settled.known, SettledGlobal.cues)'
        BY <3>1, <3>2 DEF SameStory, Below, Naming
      <4> QED BY <2>1, <3>2, <4>1 DEF NamedInv
    <3>3. CASE /\ MigrateGlobal /\ SettledGlobal \in Global1
               /\ SettledGlobal' = MigratedGlobal(SettledGlobal) /\ Settled' = Settled
      <4>1. Settled.form # "v2"
        BY <2>1, <3>3 DEF NamedInv, Global1
      <4>2. \A o \in Filed, p \in Points : SettledGlobal'.cues[o][p] = 0
        BY <3>3, MigratedGlobalType
      <4> QED BY <3>3, <4>1, <4>2 DEF NamedInv
    <3>4. CASE /\ MigrateUser /\ Settled \in Users1
               /\ Settled' = MigratedUsers(Settled) /\ SettledGlobal' = SettledGlobal
      <4>1. Settled.form = "v1" /\ Settled'.form = "v2"
        BY <3>4, MigratedUsersType DEF Users1, Users2
      <4>2. at = "migrate_user" /\ writing = Idle
        BY <3>4 DEF MigrateUser, BootStep
      <4>3. globalFile.form \in {"empty", "v2"} /\ run = NoRun
        BY <4>2 DEF BaseInv, BootInv
      <4>4. SettledGlobal.form = "v2"
        <5>1. GlobalNow \in Global2
          BY <4>3, ReadTypes DEF BaseInv
        <5> QED BY <4>2, <5>1, SettledTypes DEF Global2
      <4>5. \A o \in Filed, p \in Points : SettledGlobal.cues[o][p] = 0 /\ Ahead(o, p) = 0
        BY <2>1, <4>1, <4>3, <4>4 DEF NamedInv, Ahead, NoRun
      <4>6. SameStory(MigratedUsers(Settled).known, SettledGlobal.cues)
        BY <3>4, <4>5, MigratedNamesNothing, NothingNamed
      <4>7. SameStory(Settled.known, SettledGlobal.cues)'
        BY <3>1, <3>4, <4>6 DEF SameStory, Below, Naming
      <4> QED BY <3>4, <4>1, <4>4, <4>7 DEF NamedInv
    <3> QED BY <2>1, <2>4, <3>2, <3>3, <3>4 DEF SettledStep
  <2> QED BY <2>2, <2>3, <2>4
<1> QED BY <1>1, <1>2

(* Unless a crash has cut a run or a write, a cue is counted under its      *)
(* outcome as often as the histories of all customers name it, at least as  *)
(* often once a history has reached its limit, and the counters are the     *)
(* sums of the cues (upsert_global_cue and upsert_user_memory, one written  *)
(* cue by cue before the other).                                            *)
THEOREM FilesAgree == Spec => []CuesMatchHistories
<1>1. Init => TallyInv /\ NamedInv /\ TodoInv
  BY TallyInit, NamedInit
<1>2. BaseInv /\ TallyInv /\ NamedInv /\ TodoInv /\ [Next]_vars => TallyInv' /\ NamedInv' /\ TodoInv'
  BY TallyStep, NamedStep, TodoStep
<1>3. Spec => [](TallyInv /\ NamedInv)
  BY <1>1, <1>2, BaseInvariant, PTL DEF Spec
<1>4. ASSUME BaseInv, TallyInv, NamedInv PROVE CuesMatchHistories
  <2> SUFFICES ASSUME Quiet PROVE CuesMatchHistories
    BY DEF CuesMatchHistories
  <2>1. at = "serving" /\ writing = Idle /\ ~cut /\ run = NoRun
    BY DEF Quiet
  <2>2. globalFile.form \in {"empty", "v2"} /\ userFile.form \in {"empty", "v2"}
    BY <1>4, <2>1 DEF BaseInv, BootInv
  <2>3. GlobalNow \in Global2 /\ UsersNow \in Users2
    BY <1>4, <2>2, ReadTypes DEF BaseInv
  <2>4. /\ SettledGlobal = GlobalNow /\ Settled = UsersNow
        /\ GlobalNow.form = "v2" /\ UsersNow.form = "v2"
    BY <1>4, <2>1, <2>3, SettledTypes DEF Global2, Users2
  <2>5. \A o \in Filed, p \in Points : Ahead(o, p) = 0
    BY <2>1 DEF Ahead, NoRun
  <2>6. ASSUME NEW o \in Filed, NEW p \in Points
        PROVE  /\ GlobalNow.cues[o][p] >= Cardinality(Naming(UsersNow.known, o, p))
               /\ Below(UsersNow.known) =>
                     GlobalNow.cues[o][p] = Cardinality(Naming(UsersNow.known, o, p))
    <3>1. /\ IsFiniteSet(Naming(UsersNow.known, o, p))
          /\ GlobalNow.cues[o][p] >= Cardinality(Naming(UsersNow.known, o, p)) + 0
          /\ Below(UsersNow.known) =>
                GlobalNow.cues[o][p] = Cardinality(Naming(UsersNow.known, o, p)) + 0
      BY <1>4, <2>1, <2>4, <2>5 DEF NamedInv, SameStory
    <3>2. Cardinality(Naming(UsersNow.known, o, p)) \in Nat
      BY <3>1, FS_CardinalityType
    <3> QED BY <3>1, <3>2
  <2>7. \A o \in Filed : GlobalNow.counters[o] = Cardinality(Tally(GlobalNow.cues, o))
    BY <1>4, <2>1, <2>4 DEF TallyInv
  <2> QED BY <2>6, <2>7 DEF CuesMatchHistories, Below
<1> QED BY <1>3, <1>4, BaseInvariant, PTL
-----------------------------------------------------------------------------
(* RunsEnd *)

(* A run is reflected upon only once its tool has answered.                 *)
SeenInv == run # NoRun /\ run.node = "reflect" => run.observed

(* The most steps a run still takes: each point of the tool costs a write   *)
(* and the end of that write, the record of the customer likewise.          *)
StepsAhead ==
    CASE run.node = "messages"               -> 2 * Cardinality(Points) + 9
      [] run.node = "state"                  -> 2 * Cardinality(Points) + 8
      [] run.node = "react" /\ ~run.observed -> 2 * Cardinality(Points) + 7
      [] run.node = "tool_execution"         -> 2 * Cardinality(run.todo) + 5
      [] run.node = "react" /\ run.observed  -> 3
      [] run.node = "reflect"                -> 2
      [] OTHER                               -> 1

StepsLeft ==
    IF run = NoRun THEN 0
    ELSE IF writing = Idle THEN StepsAhead ELSE StepsAhead + 1

(* The points still to be counted are among the points there are.           *)
LEMMA TodoIsSmall ==
    ASSUME NEW S \in SUBSET Points
    PROVE  /\ IsFiniteSet(S) /\ Cardinality(S) \in Nat /\ Cardinality(Points) \in Nat
           /\ Cardinality(S) <= Cardinality(Points)
<1>1. IsFiniteSet(Points)
  BY SizesAssumption
<1> QED BY <1>1, FS_Subset, FS_CardinalityType

LEMMA StepsAheadType ==
    ASSUME BaseInv, run # NoRun
    PROVE  StepsAhead \in Nat /\ StepsAhead > 0 /\ run \in Runs
<1>1. run \in Runs
  BY DEF BaseInv, TypeOK, RunOK
<1>2. run.todo \in SUBSET Points
  BY <1>1 DEF Runs
<1>3. Cardinality(run.todo) \in Nat /\ Cardinality(Points) \in Nat
  BY <1>2, TodoIsSmall
<1> QED BY <1>1, <1>3 DEF StepsAhead

LEMMA SeenStep == ASSUME BaseInv, SeenInv, [Next]_vars PROVE SeenInv'
<1>1. CASE run' = run \/ run' = NoRun
  BY <1>1 DEF SeenInv
<1>2. CASE React
  <2>1. run \in Runs /\ run.node = "react"
    BY <1>2, BaseReact DEF React
  <2> QED BY <1>2, <2>1 DEF React, SeenInv, Runs
<1>3. CASE Reflect
  <2>1. run \in Runs
    BY <1>3, BaseReflect
  <2> QED BY <1>3, <2>1 DEF Reflect, SeenInv, Runs
<1>4. CASE UpsertCue
  <2>1. PICK p \in run.todo : run' = [run EXCEPT !.todo = @ \ {p}]
    BY <1>4, BaseUpsertCue
  <2>2. run \in Runs /\ run.node = "tool_execution"
    BY <1>4, BaseUpsertCue
  <2> QED BY <2>1, <2>2 DEF SeenInv, Runs
<1>5. CASE UpsertUser
  <2>1. run \in Runs /\ run' = [run EXCEPT !.node = "react", !.observed = TRUE]
    BY <1>5, BaseUpsertUser
  <2> QED BY <2>1 DEF SeenInv, Runs
<1>6. CASE Talking
  BY <1>1, <1>6, RunBegins DEF SeenInv
<1>7. CASE ReadMessages \/ ReadState
  <2>1. run'.node \in {"state", "react"}
    BY <1>7, BaseReadMessages, BaseReadState DEF Runs
  <2> QED BY <2>1 DEF SeenInv
<1> QED BY <1>1, <1>2, <1>3, <1>4, <1>5, <1>6, <1>7
     DEF Next, Start, Boot, CreateGlobal, CreateUser, MigrateGlobal, MigrateUser, BootStep,
         StartFails, Helper, Respond, Finish, Crash, Talking, vars

(* Each step of the helper takes one off, and a point off the tool's list   *)
(* two, of which the write it begins gives one back.                        *)
LEMMA HelperAdvances ==
    ASSUME BaseInv, SeenInv, run # NoRun, Helper
    PROVE  StepsLeft' \in Nat /\ StepsLeft' < StepsLeft
<1>1. StepsAhead \in Nat /\ StepsAhead > 0 /\ run \in Runs
  BY StepsAheadType
<1>10. Cardinality(Points) \in Nat
  BY SizesAssumption, FS_CardinalityType
<1>8. CASE ReadMessages
  <2>1. /\ run.node = "messages" /\ run'.node = "state" /\ run' # NoRun
        /\ writing' = writing
    BY <1>8, BaseReadMessages DEF Runs, NoRun, files
  <2> HIDE DEF Points
  <2>2. StepsAhead = 2 * Cardinality(Points) + 9 /\ StepsAhead' = 2 * Cardinality(Points) + 8
    BY <2>1 DEF StepsAhead
  <2> QED BY <1>10, <2>1, <2>2 DEF StepsLeft
<1>9. CASE ReadState
  <2>1. /\ run.node = "state" /\ run'.node = "react" /\ run' # NoRun
        /\ writing' = writing
    BY <1>9, BaseReadState DEF Runs, NoRun, files
  <2> HIDE DEF Points
  <2>2. /\ StepsAhead = 2 * Cardinality(Points) + 8
        /\ \/ StepsAhead' = 2 * Cardinality(Points) + 7
           \/ StepsAhead' = 3
    BY <2>1 DEF StepsAhead
  <2>3. StepsAhead' \in Nat /\ StepsAhead' < StepsAhead
    BY <1>10, <2>2
  <2>4. CASE writing = Idle
    <3>1. StepsLeft = StepsAhead /\ StepsLeft' = StepsAhead'
      BY <2>1, <2>4 DEF StepsLeft
    <3> QED BY <2>3, <3>1
  <2>5. CASE writing # Idle
    <3>1. StepsLeft = StepsAhead + 1 /\ StepsLeft' = StepsAhead' + 1
      BY <2>1, <2>5 DEF StepsLeft
    <3>2. StepsAhead \in Nat /\ StepsAhead' \in Nat
      BY <1>1, <2>3
    <3>3. \A a, b \in Nat : a < b => a + 1 \in Nat /\ a + 1 < b + 1
      OBVIOUS
    <3>4. StepsAhead' + 1 \in Nat /\ StepsAhead' + 1 < StepsAhead + 1
      BY <2>3, <3>2, <3>3
    <3> QED BY <3>1, <3>4
  <2> QED BY <2>4, <2>5
<1>2. CASE Finish
  <2>1. writing # Idle /\ writing' = Idle /\ run' = run
    BY <1>2 DEF Finish
  <2>2. StepsAhead' = StepsAhead
    BY <2>1 DEF StepsAhead
  <2> QED BY <1>1, <2>1, <2>2 DEF StepsLeft
<1>3. CASE Respond
  BY <1>1, <1>3 DEF Respond, StepsLeft
<1>4. CASE Reflect
  <2>1. /\ run.node = "reflect" /\ writing = Idle /\ writing' = Idle
        /\ run'.node = "response" /\ run' # NoRun
    BY <1>1, <1>4 DEF Reflect, SeenInv, Runs, files, NoRun
  <2> QED BY <2>1 DEF StepsLeft, StepsAhead
<1>5. CASE React
  <2>1. /\ run.node = "react" /\ writing = Idle /\ writing' = Idle
        /\ Extracted(run.messages) \in SUBSET Points
    BY <1>5, BaseReact DEF React, files
  <2>2. CASE run.observed
    <3>1. run'.node = "reflect" /\ run' # NoRun
      BY <1>1, <1>5, <2>2 DEF React, Runs, NoRun
    <3> QED BY <2>1, <2>2, <3>1 DEF StepsLeft, StepsAhead
  <2>3. CASE ~run.observed
    <3>1. /\ run'.node = "tool_execution" /\ run' # NoRun
          /\ run'.todo = Extracted(run.messages)
      BY <1>1, <1>5, <2>3 DEF React, Runs, NoRun
    <3>2. /\ Cardinality(run'.todo) \in Nat /\ Cardinality(Points) \in Nat
          /\ Cardinality(run'.todo) <= Cardinality(Points)
      BY <2>1, <3>1, TodoIsSmall
    <3> HIDE DEF Points
    <3>3. /\ StepsLeft = 2 * Cardinality(Points) + 7
          /\ StepsLeft' = 2 * Cardinality(run'.todo) + 5
      BY <2>1, <2>3, <3>1 DEF StepsLeft, StepsAhead
    <3> QED BY <3>2, <3>3
  <2> QED BY <2>2, <2>3
<1>6. CASE UpsertCue
  <2>1. PICK p \in run.todo : run' = [run EXCEPT !.todo = @ \ {p}]
    BY <1>6, BaseUpsertCue
  <2>2. /\ run.node = "tool_execution" /\ run' \in Runs /\ writing = Idle
        /\ run.todo \in SUBSET Points
    BY <1>1, <1>6, BaseUpsertCue DEF Runs
  <2>3. run'.node = "tool_execution" /\ run'.todo = run.todo \ {p} /\ run' # NoRun
    BY <1>1, <2>1, <2>2 DEF Runs, NoRun
  <2>4. /\ Cardinality(run.todo) \in Nat /\ Cardinality(run'.todo) \in Nat
        /\ Cardinality(run'.todo) = Cardinality(run.todo) - 1
    BY <2>1, <2>2, <2>3, TodoIsSmall, FS_RemoveElement, FS_CardinalityType
  <2>5. /\ StepsLeft = 2 * Cardinality(run.todo) + 5
        /\ StepsLeft' \in {2 * Cardinality(run'.todo) + 5, 2 * Cardinality(run'.todo) + 5 + 1}
    BY <2>2, <2>3 DEF StepsLeft, StepsAhead, NoRun
  <2> QED BY <2>4, <2>5
<1>7. CASE UpsertUser
  <2>1. /\ run.node = "tool_execution" /\ writing = Idle /\ run.todo = {}
        /\ run' = [run EXCEPT !.node = "react", !.observed = TRUE]
    BY <1>7, BaseUpsertUser
  <2>2. run'.node = "react" /\ run'.observed /\ run' # NoRun
    BY <1>1, <2>1 DEF Runs, NoRun
  <2>3. StepsLeft = 2 * 0 + 5 /\ StepsLeft' \in {3, 3 + 1}
    BY <2>1, <2>2, FS_EmptySet DEF StepsLeft, StepsAhead, NoRun
  <2> QED BY <2>3
<1> QED BY <1>2, <1>3, <1>4, <1>5, <1>6, <1>7, <1>8, <1>9 DEF Helper

(* A turn that starts no run writes no file, and a run starts when nothing  *)
(* is being written.                                                        *)
LEMMA TalkingKeeps ==
    ASSUME Talking
    PROVE  writing' = writing /\ (run = NoRun /\ run' # run => writing = Idle)
<1>1. PICK s \in Sessions : Dialogue(s)
  BY DEF Talking
<1>2. writing' = writing
  BY <1>1, DialogueKeeps DEF files
<1>3. ASSUME NEW question \in CustomerSays, NEW answer \in AgentSays,
             NEW mention \in Mentions, NEW closing \in BOOLEAN,
             Turn(s, question, answer, mention, closing)
      PROVE  Ready
  BY <1>3 DEF Turn
<1>4. ASSUME NEW mention \in Mentions, AdminMessage(s, mention) PROVE Ready
  BY <1>4 DEF AdminMessage
<1>5. ASSUME NEW u \in Customers, StartConversation(s, u) PROVE Ready
  BY <1>5 DEF StartConversation, Reset
<1>6. ASSUME ResetConversation(s) PROVE Ready
  BY <1>6 DEF ResetConversation, Reset
<1>7. ASSUME Exit(s) PROVE Ready
  BY <1>7 DEF Exit
<1>8. Ready
  BY <1>1, <1>3, <1>4, <1>5, <1>6, <1>7 DEF Dialogue
<1> QED BY <1>2, <1>8 DEF Ready, NoRun

(* Each step of the helper, while it runs, takes something off the steps    *)
(* its run still has; no turn, start or crash adds to them, and a run       *)
(* begins with 2 * Cardinality(Points) + 9 at most.  With the fairness of   *)
(* the helper, every run ends (CollectionMemoryHelperAgent.run, which the   *)
(* turn that closes the conversation waits for).                            *)
THEOREM RunsRunDown ==
    Spec => [][/\ run # NoRun /\ Helper => StepsLeft' < StepsLeft
               /\ StepsLeft' <= IF run = NoRun THEN 2 * Cardinality(Points) + 9
                                ELSE StepsLeft]_vars
<1> DEFINE Most == 2 * Cardinality(Points) + 9
<1> DEFINE RunsDown ==
      /\ run # NoRun /\ Helper => StepsLeft' < StepsLeft
      /\ StepsLeft' <= IF run = NoRun THEN Most ELSE StepsLeft
<1>1. Init => SeenInv
  BY DEF Init, SeenInv, NoRun
<1>2. BaseInv /\ BaseInv' /\ SeenInv /\ [Next]_vars => [RunsDown]_vars
  <2> SUFFICES ASSUME BaseInv, BaseInv', SeenInv, Next PROVE RunsDown
    OBVIOUS
  <2>1. Cardinality(Points) \in Nat /\ Most \in Nat
    BY SizesAssumption, FS_CardinalityType
  <2>2. StepsLeft \in Nat
    BY StepsAheadType DEF StepsLeft
  <2> HIDE DEF Most
  <2>3. ASSUME run # NoRun, Helper PROVE StepsLeft' < StepsLeft
    BY <2>3, HelperAdvances
  <2>4. CASE run # NoRun /\ Helper
    BY <2>2, <2>4, HelperAdvances
  <2>5. CASE run' = NoRun
    BY <2>1, <2>2, <2>3, <2>5 DEF StepsLeft
  <2>6. CASE run' = run /\ writing' = writing
    <3>1. StepsLeft' = StepsLeft
      BY <2>6 DEF StepsLeft, StepsAhead
    <3>2. run = NoRun => StepsLeft = 0
      BY DEF StepsLeft
    <3> QED BY <2>1, <2>2, <2>3, <3>1, <3>2
  <2>7. CASE Talking /\ run = NoRun /\ run' # run
    <3>1. writing' = Idle /\ run'.node = "messages" /\ run' # NoRun
      BY <2>7, RunBegins, TalkingKeeps DEF NoRun
    <3>2. StepsLeft' = Most
      BY <3>1 DEF StepsLeft, StepsAhead, Most
    <3> QED BY <2>1, <2>7, <3>2
  <2>8. CASE Boot \/ Start
    <3>1. run' = run
      BY <2>8 DEF Boot, Start, CreateGlobal, CreateUser, MigrateGlobal, MigrateUser, BootStep,
         StartFails
    <3>2. at \notin {"serving", "leaving"}
      BY <2>8 DEF Boot, Start, CreateGlobal, CreateUser, MigrateGlobal, MigrateUser, BootStep,
         StartFails
    <3>3. run = NoRun
      BY <3>2 DEF BaseInv, BootInv
    <3> QED BY <2>5, <3>1, <3>3
  <2>9. CASE Helper /\ run = NoRun
    BY <2>5, <2>9 DEF Helper, ReadMessages, ReadState, React, UpsertCue, UpsertUser, Reflect, Respond, Finish, NoRun
  <2>10. CASE Crash
    BY <2>5, <2>10 DEF Crash
  <2>11. CASE Talking
    <3>1. run # NoRun => run' = run
      BY <2>11, RunBegins
    <3> QED BY <2>6, <2>7, <2>11, <3>1, TalkingKeeps
  <2> QED BY <2>4, <2>8, <2>9, <2>10, <2>11 DEF Next, Talking
<1> HIDE DEF RunsDown
<1>3. BaseInv /\ SeenInv /\ [Next]_vars => SeenInv'
  BY SeenStep
<1>4. Spec => [][RunsDown]_vars
  BY <1>1, <1>2, <1>3, BaseInvariant, PTL DEF Spec
<1> QED BY <1>4 DEF RunsDown, Most
=============================================================================
