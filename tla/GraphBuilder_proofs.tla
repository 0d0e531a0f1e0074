-------------------------- MODULE GraphBuilder_proofs --------------------------
(***************************************************************************)
(* Theorems about the editor of the graph builder, for any nodes, any      *)
(* number of edits and of validation requests under way.                   *)
(***************************************************************************)
EXTENDS GraphBuilder, SequenceTheorems, TLAPS

(* What a request under way carries, of the issues some of them will answer. *)
Requests(issues) == [issues : issues, overtaken : BOOLEAN]

(* A sequence is one of its own elements.                                   *)
LEMMA SeqOfItself ==
    ASSUME NEW S, NEW s \in Seq(S)
    PROVE  /\ Len(s) \in Nat /\ DOMAIN s = 1..Len(s)
           /\ \A j \in 1..Len(s) : s[j] \in S
BY LenProperties, ElementOfSeq

(* Without its element at i a sequence is the one before and the one after. *)
LEMMA RemoveAtProperties ==
    ASSUME NEW S, NEW s \in Seq(S), NEW i \in 1..Len(s)
    PROVE  /\ RemoveAt(s, i) \in Seq(S)
           /\ Len(RemoveAt(s, i)) = Len(s) - 1
           /\ \A j \in 1..Len(s) - 1 :
                 RemoveAt(s, i)[j] = IF j < i THEN s[j] ELSE s[j + 1]
<1> DEFINE before == SubSeq(s, 1, i - 1)
           after  == SubSeq(s, i + 1, Len(s))
<1>1. Len(s) \in Nat /\ \A j \in 1..Len(s) : s[j] \in S
  BY SeqOfItself
<1>2. /\ before \in Seq(S) /\ Len(before) = i - 1
      /\ \A j \in 1..i - 1 : before[j] = s[j]
  BY <1>1, SubSeqProperties
<1>3. /\ after \in Seq(S) /\ Len(after) = Len(s) - i
      /\ \A j \in 1..Len(s) - i : after[j] = s[i + j]
  BY <1>1, SubSeqProperties
<1>4. RemoveAt(s, i) = before \o after
  BY DEF RemoveAt
<1> HIDE DEF before, after
<1>5. /\ before \o after \in Seq(S)
      /\ Len(before \o after) = Len(s) - 1
      /\ \A j \in 1..Len(s) - 1 :
            (before \o after)[j] = IF j < i THEN before[j] ELSE after[j - (i - 1)]
  BY <1>1, <1>2, <1>3, ConcatProperties
<1>6. ASSUME NEW j \in 1..Len(s) - 1
      PROVE  (before \o after)[j] = IF j < i THEN s[j] ELSE s[j + 1]
  <2>1. CASE j < i
    BY <1>1, <1>2, <1>5, <2>1
  <2>2. CASE ~(j < i)
    <3>1. j - (i - 1) \in 1..Len(s) - i /\ i + (j - (i - 1)) = j + 1
      BY <1>1, <2>2
    <3> QED BY <1>3, <1>5, <2>2, <3>1
  <2> QED BY <2>1, <2>2
<1> QED BY <1>4, <1>5, <1>6

-----------------------------------------------------------------------------
(* The editor and its requests *)

(* Ended requests are removed, so that a request that is still under way    *)
(* when a later one has ended is marked as overtaken.                       *)
AskedTyped == asked \in Seq(Requests({asked[j].issues : j \in DOMAIN asked}))

(* The newest request is still under way. *)
NewestAsked == asked # <<>> /\ ~asked[Len(asked)].overtaken

(* While the timer does not run, the newest request is of the graph that    *)
(* the editor holds; once it has ended, nothing under way is newer and its  *)
(* answer is the one that is shown, unless it never came or another came    *)
(* after it.  After an import that broke off every request is of an older   *)
(* graph, as if a newer one had ended without an answer.                    *)
NewestOfGraph ==
    ~due => \/ NewestAsked /\ asked[Len(asked)].issues = Issues(graph)
            \/ /\ \A j \in DOMAIN asked : asked[j].overtaken
               /\ ~stale => shown = Issues(graph)

EditorInv ==
    /\ due \in BOOLEAN /\ stale \in BOOLEAN
    /\ AskedTyped /\ NewestOfGraph

LEMMA EditorInit == Init => EditorInv
<1> SUFFICES ASSUME Init PROVE EditorInv
  OBVIOUS
<1>1. asked = <<>> /\ asked \in Seq(Requests({asked[j].issues : j \in DOMAIN asked}))
  BY EmptySeq DEF Init
<1> QED BY <1>1 DEF Init, EditorInv, AskedTyped, NewestOfGraph

(* Requests of any answers are requests of the answers they carry.          *)
LEMMA AskedIsTyped ==
    ASSUME NEW A, NEW s \in Seq(Requests(A))
    PROVE  s \in Seq(Requests({s[j].issues : j \in DOMAIN s}))
<1> DEFINE R == Requests({s[j].issues : j \in DOMAIN s})
<1>1. Len(s) \in Nat /\ s \in [1..Len(s) -> Requests(A)] /\ DOMAIN s = 1..Len(s)
  BY LenProperties
<1>2. \A j \in 1..Len(s) : s[j] \in R
  BY <1>1 DEF Requests
<1> HIDE DEF R
<1>3. s \in [1..Len(s) -> R]
  BY <1>1, <1>2
<1> QED BY <1>1, <1>3, SeqDef DEF R

(* A request that is marked is a request.                                   *)
LEMMA RequestMarked ==
    ASSUME NEW A, NEW r \in Requests(A), NEW b \in BOOLEAN
    PROVE  /\ [r EXCEPT !.overtaken = b] \in Requests(A)
           /\ [r EXCEPT !.overtaken = b].overtaken = b
           /\ r.overtaken \in BOOLEAN
           /\ r.overtaken = b => [r EXCEPT !.overtaken = b] = r
BY DEF Requests

(* What is left of the requests when one ends: the older ones marked, the   *)
(* newer ones as they were.                                                 *)
LEMMA EndedProperties ==
    ASSUME AskedTyped, NEW i \in DOMAIN asked
    PROVE  /\ Len(asked) \in Nat /\ DOMAIN asked = 1..Len(asked)
           /\ Ended(i) \in Seq(Requests({Ended(i)[j].issues : j \in DOMAIN Ended(i)}))
           /\ Len(Ended(i)) = Len(asked) - 1
           /\ DOMAIN Ended(i) = 1..Len(asked) - 1
           /\ \A j \in 1..Len(asked) - 1 :
                 Ended(i)[j].overtaken <=> j < i \/ asked[j + 1].overtaken
           /\ \A j \in 1..Len(asked) - 1 : j >= i => Ended(i)[j] = asked[j + 1]
<1> DEFINE A      == {asked[j].issues : j \in DOMAIN asked}
           marked == [j \in DOMAIN asked |->
                         [asked[j] EXCEPT !.overtaken = @ \/ j < i]]
<1>1. /\ asked \in Seq(Requests(A))
      /\ Len(asked) \in Nat /\ DOMAIN asked = 1..Len(asked)
      /\ \A j \in 1..Len(asked) : asked[j] \in Requests(A)
  BY SeqOfItself DEF AskedTyped
<1> HIDE DEF A
<1>2. \A j \in 1..Len(asked) :
         /\ marked[j] \in Requests(A)
         /\ marked[j].overtaken <=> asked[j].overtaken \/ j < i
         /\ j >= i => marked[j] = asked[j]
  <2> SUFFICES ASSUME NEW j \in 1..Len(asked)
               PROVE  /\ marked[j] \in Requests(A)
                      /\ marked[j].overtaken <=> asked[j].overtaken \/ j < i
                      /\ j >= i => marked[j] = asked[j]
    OBVIOUS
  <2> DEFINE b == asked[j].overtaken \/ j < i
  <2>1. marked[j] = [asked[j] EXCEPT !.overtaken = b]
    BY <1>1
  <2>2. asked[j] \in Requests(A)
    BY <1>1
  <2>3. b \in BOOLEAN
    OBVIOUS
  <2>4. asked[j].overtaken \in BOOLEAN
    BY <2>2, <2>3, RequestMarked
  <2>5. j >= i => asked[j].overtaken = b
    BY <1>1, <2>4
  <2> HIDE DEF marked, b
  <2>6. /\ marked[j] \in Requests(A) /\ marked[j].overtaken = b
        /\ j >= i => marked[j] = asked[j]
    BY <2>1, <2>2, <2>3, <2>5, RequestMarked
  <2> QED BY <2>6, Zenon DEF b
<1>3. marked \in [1..Len(asked) -> Requests(A)]
  BY <1>1, <1>2
<1> HIDE DEF marked
<1>4. marked \in Seq(Requests(A)) /\ Len(marked) = Len(asked)
  <2>1. marked \in Seq(Requests(A))
    BY <1>1, <1>3, SeqDef
  <2> QED BY <1>1, <1>3, <2>1, LenProperties
<1>5. Ended(i) = RemoveAt(marked, i)
  BY DEF Ended, marked
<1>6. /\ Ended(i) \in Seq(Requests(A))
      /\ Len(Ended(i)) = Len(asked) - 1
      /\ \A j \in 1..Len(asked) - 1 :
            Ended(i)[j] = IF j < i THEN marked[j] ELSE marked[j + 1]
  BY <1>1, <1>4, <1>5, RemoveAtProperties
<1>7. DOMAIN Ended(i) = 1..Len(asked) - 1
  BY <1>6, LenProperties
<1>8. Ended(i) \in Seq(Requests({Ended(i)[j].issues : j \in DOMAIN Ended(i)}))
  BY <1>6, AskedIsTyped
<1> HIDE DEF Ended
<1>9. ASSUME NEW j \in 1..Len(asked) - 1
      PROVE  /\ Ended(i)[j].overtaken <=> j < i \/ asked[j + 1].overtaken
             /\ j >= i => Ended(i)[j] = asked[j + 1]
  <2>1. j \in 1..Len(asked) /\ j + 1 \in 1..Len(asked) /\ i \in 1..Len(asked)
    BY <1>1
  <2>2. CASE j < i
    <3>1. Ended(i)[j] = marked[j]
      BY <1>6, <2>2
    <3>2. marked[j].overtaken
      BY <1>2, <2>1, <2>2, Zenon
    <3> QED BY <1>1, <2>1, <2>2, <3>1, <3>2
  <2>3. CASE ~(j < i)
    <3>1. Ended(i)[j] = marked[j + 1] /\ j + 1 >= i
      BY <1>1, <1>6, <2>1, <2>3
    <3>2. Ended(i)[j] = asked[j + 1]
      BY <1>2, <2>1, <3>1
    <3> QED BY <2>3, <3>2, Zenon
  <2> QED BY <2>2, <2>3
<1> QED BY <1>1, <1>6, <1>7, <1>8, <1>9

(* Whatever edits the graph starts the timer.                               *)
LEMMA EditorEdited ==
    ASSUME EditorInv, NEW new, Edited(new)
    PROVE  EditorInv'
BY DEF EditorInv, Edited, AskedTyped, NewestOfGraph

(* Selecting a source, or ending an edge nowhere, edits nothing.            *)
LEMMA EditorIdle ==
    ASSUME EditorInv,
           UNCHANGED <<graph, due, asked, shown, stale>>
    PROVE  EditorInv'
BY DEF EditorInv, AskedTyped, NewestOfGraph, NewestAsked

(* An import that breaks off leaves no request that could count.            *)
LEMMA EditorBrokenOff ==
    ASSUME EditorInv, NEW mode, NEW nodes, ImportBreaksOff(mode, nodes)
    PROVE  EditorInv'
<1> DEFINE A == {asked[j].issues : j \in DOMAIN asked}
<1>1. /\ asked \in Seq(Requests(A))
      /\ Len(asked) \in Nat /\ DOMAIN asked = 1..Len(asked)
      /\ \A j \in 1..Len(asked) : asked[j] \in Requests(A)
  BY SeqOfItself DEF EditorInv, AskedTyped
<1> HIDE DEF A
<1>2. /\ asked' = [i \in 1..Len(asked) |-> [asked[i] EXCEPT !.overtaken = TRUE]]
      /\ stale' = TRUE /\ due' = due
  BY <1>1 DEF ImportBreaksOff
<1>3. \A j \in 1..Len(asked) :
         asked'[j] \in Requests(A) /\ asked'[j].overtaken
  BY <1>1, <1>2, RequestMarked
<1>4. asked' \in [1..Len(asked) -> Requests(A)] /\ DOMAIN asked' = 1..Len(asked)
  BY <1>2, <1>3
<1>5. asked' \in Seq(Requests(A))
  BY <1>1, <1>4, SeqDef
<1>6. AskedTyped'
  BY <1>5, AskedIsTyped DEF AskedTyped
<1>7. NewestOfGraph'
  BY <1>2, <1>3, <1>4 DEF NewestOfGraph
<1> QED BY <1>2, <1>6, <1>7 DEF EditorInv

LEMMA EditorEdit == EditorInv /\ Edit => EditorInv'
<1> SUFFICES ASSUME EditorInv, Edit PROVE EditorInv'
  OBVIOUS
<1>1. ASSUME NEW n \in Nodes, AddNode(n) \/ RemoveNode(n) PROVE EditorInv'
  BY <1>1, EditorEdited DEF AddNode, RemoveNode, Redrawn
<1>2. ASSUME NEW n \in Nodes, SelectSource(n) PROVE EditorInv'
  BY <1>2, EditorIdle DEF SelectSource
<1>3. ASSUME NEW n \in Nodes, Connect(n) \/ ConnectRefused(n) PROVE EditorInv'
  BY <1>3, EditorEdited, EditorIdle DEF Connect, ConnectRefused, Redrawn
<1>4. ASSUME NEW i \in DOMAIN graph.edges, RemoveEdge(i) PROVE EditorInv'
  BY <1>4, EditorEdited DEF RemoveEdge, Redrawn
<1>5. CASE Unselect
  BY <1>5, EditorIdle DEF Unselect
<1>6. CASE Rearrange \/ DeleteLoops \/ Clear
  BY <1>6, EditorEdited DEF Rearrange, DeleteLoops, Clear, Redrawn
<1>7. CASE Reload
  <2>1. /\ asked' = <<>>
        /\ asked' \in Seq(Requests({asked'[j].issues : j \in DOMAIN asked'}))
    BY <1>7, EmptySeq DEF Reload
  <2> QED BY <1>7, <2>1 DEF Reload, EditorInv, AskedTyped, NewestOfGraph
<1>8. ASSUME NEW mode \in Modes, SetMode(mode) PROVE EditorInv'
  BY <1>8, EditorEdited DEF SetMode
<1>9. ASSUME NEW file \in Files, Import(file) PROVE EditorInv'
  BY <1>9, EditorEdited DEF Import, Redrawn
<1>10. ASSUME NEW mode, NEW nodes, ImportBreaksOff(mode, nodes) PROVE EditorInv'
  BY <1>10, EditorBrokenOff
<1> QED BY <1>1, <1>2, <1>3, <1>4, <1>5, <1>6, <1>7, <1>8, <1>9, <1>10 DEF Edit

(* The request that is sent is of the graph that the editor holds.          *)
LEMMA EditorSend == EditorInv /\ SendValidation => EditorInv'
<1> SUFFICES ASSUME EditorInv, SendValidation PROVE EditorInv'
  OBVIOUS
<1> DEFINE request == [issues |-> Issues(graph), overtaken |-> FALSE]
           A == {asked[j].issues : j \in DOMAIN asked}
<1>1. asked' = Append(asked, request) /\ UNCHANGED <<graph, stale>>
  BY DEF SendValidation
<1>2. /\ asked \in Seq(Requests(A))
      /\ Requests(A) \subseteq Requests(A \cup {Issues(graph)})
  BY DEF EditorInv, AskedTyped, Requests
<1>3. asked \in Seq(Requests(A \cup {Issues(graph)}))
  <2> HIDE DEF A
  <2> QED BY <1>2, SeqMonotonic
<1>4. request \in Requests(A \cup {Issues(graph)})
  BY DEF Requests
<1>5. request.issues = Issues(graph) /\ ~request.overtaken
  OBVIOUS
<1> HIDE DEF A, request
<1>6. /\ asked' \in Seq(Requests(A \cup {Issues(graph)})) /\ asked' # <<>>
      /\ Len(asked') = Len(asked) + 1
      /\ asked'[Len(asked) + 1] = request
  BY <1>1, <1>3, <1>4, AppendProperties
<1>7. AskedTyped'
  BY <1>6, AskedIsTyped DEF AskedTyped
<1>8. NewestOfGraph'
  BY <1>1, <1>5, <1>6 DEF NewestOfGraph, NewestAsked
<1> QED BY <1>1, <1>7, <1>8 DEF EditorInv, SendValidation

(* A request ends, by an answer or without one.                             *)
LEMMA EditorEnded ==
    ASSUME EditorInv, NEW i \in DOMAIN asked, ReceiveAnswer(i) \/ RequestFails(i)
    PROVE  EditorInv'
<1>1. /\ asked' = Ended(i) /\ UNCHANGED <<graph, due>>
      /\ \/ shown' = asked[i].issues /\ stale' = asked[i].overtaken
         \/ shown' = shown /\ stale' = (stale \/ ~asked[i].overtaken)
  BY DEF ReceiveAnswer, RequestFails
<1>2. /\ Len(asked) \in Nat /\ DOMAIN asked = 1..Len(asked)
      /\ asked' \in Seq(Requests({asked'[j].issues : j \in DOMAIN asked'}))
      /\ Len(asked') = Len(asked) - 1
      /\ DOMAIN asked' = 1..Len(asked) - 1
      /\ \A j \in 1..Len(asked) - 1 :
            asked'[j].overtaken <=> j < i \/ asked[j + 1].overtaken
      /\ \A j \in 1..Len(asked) - 1 : j >= i => asked'[j] = asked[j + 1]
  BY <1>1, EndedProperties DEF EditorInv
<1>3. i \in 1..Len(asked) /\ asked[i].overtaken \in BOOLEAN
  <2> DEFINE A == {asked[j].issues : j \in DOMAIN asked}
  <2>1. asked \in Seq(Requests(A)) /\ i \in 1..Len(asked)
    BY <1>2 DEF EditorInv, AskedTyped
  <2> HIDE DEF A
  <2>2. asked[i] \in Requests(A)
    BY <2>1, SeqOfItself
  <2> QED BY <2>1, <2>2, RequestMarked
<1>4. stale' \in BOOLEAN
  BY <1>1, <1>3 DEF EditorInv
<1>5. NewestOfGraph'
  <2> SUFFICES ASSUME ~due PROVE NewestOfGraph'
    BY <1>1 DEF NewestOfGraph
  <2>1. CASE /\ i = Len(asked) /\ NewestAsked
             /\ asked[Len(asked)].issues = Issues(graph)
    (* the newest ends: all others are older than it *)
    <3>1. \A j \in 1..Len(asked) - 1 : asked'[j].overtaken
      BY <1>2, <2>1
    <3>2. ~stale' => shown' = Issues(graph)
      BY <1>1, <2>1 DEF NewestAsked
    <3> QED BY <1>1, <1>2, <3>1, <3>2 DEF NewestOfGraph
  <2>2. CASE /\ i < Len(asked) /\ NewestAsked
             /\ asked[Len(asked)].issues = Issues(graph)
    (* an older one ends: the newest is still under way *)
    <3>1. /\ Len(asked) - 1 \in 1..Len(asked) - 1 /\ Len(asked) - 1 >= i
          /\ Len(asked) - 1 + 1 = Len(asked)
      BY <1>2, <1>3, <2>2
    <3>2. asked'[Len(asked')] = asked[Len(asked)] /\ asked' # <<>>
      BY <1>2, <3>1
    <3> QED BY <1>1, <2>2, <3>2 DEF NewestOfGraph, NewestAsked
  <2>3. CASE /\ \A j \in DOMAIN asked : asked[j].overtaken
             /\ ~stale => shown = Issues(graph)
    (* what ends has been overtaken: nothing newer is shown for it *)
    <3>1. \A j \in 1..Len(asked) - 1 : asked'[j].overtaken
      <4> SUFFICES ASSUME NEW j \in 1..Len(asked) - 1 PROVE asked'[j].overtaken
        OBVIOUS
      <4>1. j + 1 \in DOMAIN asked
        BY <1>2
      <4> QED BY <1>2, <2>3, <4>1
    <3>2. ~stale' => shown' = Issues(graph)
      BY <1>1, <2>3
    <3> QED BY <1>1, <1>2, <3>1, <3>2 DEF NewestOfGraph
  <2> QED BY <1>2, <1>3, <2>1, <2>2, <2>3 DEF EditorInv, NewestOfGraph
<1> QED BY <1>1, <1>2, <1>4, <1>5 DEF EditorInv, AskedTyped

LEMMA EditorStep == EditorInv /\ [Next]_vars => EditorInv'
<1>1. EditorInv /\ UNCHANGED vars => EditorInv'
  BY EditorIdle DEF vars
<1> QED BY <1>1, EditorEdit, EditorSend, EditorEnded DEF Next

(* In every run the newest request is of the graph that the editor holds,   *)
(* or no request that is under way or answered counts.                      *)
THEOREM EditorInvariant == Spec => []EditorInv
<1> QED BY EditorInit, EditorStep, PTL DEF Spec

(* Whatever is edited or imported in part, and in whatever order the        *)
(* answers arrive or fail to: once no request is due or under way, the      *)
(* screen shows the issues of the graph that the editor holds, unless the   *)
(* last answer had been overtaken or never came, or an import that broke    *)
(* off has changed the graph since.                                         *)
THEOREM EditorIsInStep == Spec => []EditorInStep
<1>1. EditorInv => EditorInStep
  BY DEF EditorInv, EditorInStep, NewestOfGraph, NewestAsked
<1> QED BY <1>1, EditorInvariant, PTL
=============================================================================
