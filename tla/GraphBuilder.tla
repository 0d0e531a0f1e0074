---------------------------- MODULE GraphBuilder ----------------------------
(***************************************************************************)
(* The graph builder: the editor of the browser, which edits a graph, keeps *)
(* a copy in its local storage and asks the server to validate it some time *)
(* after each edit, and the server's validation, which decides what may be  *)
(* exported.  A graph is what the modes speak of: the nodes in their order, *)
(* the edges in theirs and the mode.  Edges are told apart by their places: *)
(* a file that gives two of them one id is left out.                        *)
(***************************************************************************)
EXTENDS Naturals, FiniteSets, Sequences, SequencesExt

CONSTANTS
    Nodes,         \* ids a node can get
    Nobody,        \* no source is selected for the next edge
    MaxEdits,      \* bound on the edits of a behaviour
    MaxRepeating,  \* bound on the nodes of an imported file that repeats an id
    MaxLoaded,     \* bound on the edges of an imported file
    MaxBroken,     \* bound on the nodes of a file that breaks off
    LastImport,    \* bound on the edits after which a file is imported
    LastBreakOff,  \* bound on the edits after which an import breaks off
    MaxAsked       \* bound on the validation requests under way

ASSUME NobodyAssumption == Nobody \notin Nodes

Modes    == {"chain", "tree", "graph"}
Edges    == [from : Nodes, to : Nodes]
(* Nothing checks that the nodes of a file have different ids.              *)
NodeSeqs ==
    {s \in SeqOf(Nodes, Cardinality(Nodes)) : IsInjective(s) \/ Len(s) <= MaxRepeating}
Empty    == [nodes |-> <<>>, edges |-> <<>>, mode |-> "graph"]

-----------------------------------------------------------------------------
(* Validation *)

NodeIds(g) == ToSet(g.nodes)
In(g, n)   == {i \in DOMAIN g.edges : g.edges[i].to = n}
Out(g, n)  == {i \in DOMAIN g.edges : g.edges[i].from = n}
Roots(g)   == {n \in NodeIds(g) : In(g, n) = {}}
Leaves(g)  == {n \in NodeIds(g) : Out(g, n) = {}}

(* An issue carries the nodes it marks and the edges it marks. *)
Issue(code, nodes, edges) == [code |-> code, nodes |-> nodes, edges |-> edges]
IssueIf(test, code, nodes, edges) ==
    IF test THEN {Issue(code, nodes, edges)} ELSE {}

(* dfs, node by node and edge by edge: the edges that lead back to a node   *)
(* the search is still below.                                               *)
Searches(g) ==
    [visited : SUBSET Nodes, open : SUBSET Nodes, back : SUBSET DOMAIN g.edges]

Visit(g, found, node) ==
    LET OutOf(n) == SelectSeq([i \in DOMAIN g.edges |-> i],
                              LAMBDA i : g.edges[i].from = n)
        dfs[f \in Searches(g), n \in Nodes] ==
          LET Follow(h, i) ==
                LET target == g.edges[i].to IN
                IF target \notin h.visited THEN dfs[h, target]
                ELSE IF target \in h.open THEN [h EXCEPT !.back = @ \cup {i}]
                ELSE h
              below == [f EXCEPT !.visited = @ \cup {n}, !.open = @ \cup {n}]
          IN  [FoldLeft(Follow, below, OutOf(n)) EXCEPT !.open = @ \ {n}]
    IN  dfs[found, node]

(* Mutant of CycleEdges: only cycles below the first node are looked for. *)
CycleEdgesBelowFirst(g) ==
    IF g.nodes = <<>> THEN {}
    ELSE Visit(g, [visited |-> {}, open |-> {}, back |-> {}], g.nodes[1]).back

CycleEdges(g) ==
    FoldLeft(LAMBDA f, n : IF n \in f.visited THEN f ELSE Visit(g, f, n),
             [visited |-> {}, open |-> {}, back |-> {}], g.nodes).back

(* All that is found from some nodes in as many steps as there are nodes.   *)
Closure(Step(_), start) ==
    LET within[k \in 0..Cardinality(Nodes)] ==
          IF k = 0 THEN start
          ELSE LET before == within[k - 1] IN before \cup Step(before)
    IN  within[Cardinality(Nodes)]

Successors(g, S)   == {e.to : e \in {x \in ToSet(g.edges) : x.from \in S}}
Predecessors(g, S) == {e.from : e \in {x \in ToSet(g.edges) : x.to \in S}}

(* _connected_node_ids: across known and unknown nodes, in both directions. *)
Connected(g, start) ==
    Closure(LAMBDA S : Successors(g, S) \cup Predecessors(g, S), {start})

UnknownEdges(g) ==
    {i \in DOMAIN g.edges : ~{g.edges[i].from, g.edges[i].to} \subseteq NodeIds(g)}

(* Mutant of DegreeIssues: the wrong end of the edges is counted. *)
DegreeIssuesOut(g) ==
    {Issue("degree", {n}, Out(g, n)) :
        n \in {m \in NodeIds(g) : Cardinality(Out(g, m)) > 1}}

DegreeIssues(g) ==
    IF g.mode = "chain"
    THEN {Issue("degree", {n}, In(g, n) \cup Out(g, n)) :
            n \in {m \in NodeIds(g) :
                     Cardinality(In(g, m)) > 1 \/ Cardinality(Out(g, m)) > 1}}
    ELSE {Issue("degree", {n}, In(g, n)) :
            n \in {m \in NodeIds(g) : Cardinality(In(g, m)) > 1}}

Errors(g) ==
    {Issue("reference", {}, {i}) : i \in UnknownEdges(g)}
    \cup IF g.mode = "graph" THEN {} ELSE
         IssueIf(Cardinality(Roots(g)) # 1, "root_count", Roots(g), {})
         \cup IssueIf(g.mode = "chain" /\ Cardinality(Leaves(g)) # 1,
                      "leaf_count", Leaves(g), {})
         \cup DegreeIssues(g)
         \cup IssueIf(CycleEdges(g) # {}, "cycle", {}, CycleEdges(g))

Warnings(g) ==
    IF g.mode # "graph" THEN {} ELSE
    LET apart == NodeIds(g) \ Connected(g, g.nodes[1]) IN
    IssueIf(apart # {}, "disconnected", apart, {})

(* validate_graph_spec: a graph without nodes has no errors at all. *)
Issues(g) ==
    IF g.nodes = <<>> THEN {Issue("empty", {}, {})}
    ELSE Errors(g) \cup Warnings(g)

(* export_json and export_python refuse errors in the two strict modes.  An *)
(* export sends the graph as it is and changes nothing in the editor.       *)
Exportable(g) ==
    g.nodes = <<>> \/ g.mode = "graph" \/ Errors(g) = {}

-----------------------------------------------------------------------------
(* The editor *)

VARIABLES
    graph,      \* state.nodes, state.edges, state.mode
    screen,     \* ids of the nodes as they were last drawn
    source,     \* connectSourceId or the source of an edge being drawn
    stored,     \* the copy in local storage
    due,        \* the validation timer runs
    asked,      \* requests under way, oldest first: the issues they will
                \* answer and whether a later one has ended before or the
                \* graph was changed with no validation to follow
    shown,      \* state.issues
    stale,      \* the last answer was overtaken, or the last change of
                \* the graph has none
    edits       \* counter for the bound

vars == <<graph, screen, source, stored, due, asked, shown, stale, edits>>

Init ==
    /\ graph = Empty /\ screen = {} /\ stored = Empty /\ source = Nobody
    /\ due = TRUE /\ asked = <<>> /\ shown = {} /\ stale = FALSE
    /\ edits = 0

(* persistGraph, which passes over a storage that refuses the copy.         *)
Persist(new) == stored' \in {new, stored}

(* Mutant of Edited: no validation follows. *)
EditedQuietly(new) ==
    /\ edits < MaxEdits /\ edits' = edits + 1
    /\ graph' = new /\ Persist(new)
    /\ UNCHANGED <<due, asked, stale>>

(* Every edit ends in scheduleValidation, which restarts the timer, and in  *)
(* persistGraph.                                                            *)
Edited(new) ==
    /\ edits < MaxEdits /\ edits' = edits + 1
    /\ graph' = new /\ Persist(new)
    /\ due' = TRUE
    /\ UNCHANGED <<asked, stale>>

Draw(g) == screen' = NodeIds(g)

(* An edit that is drawn at once. *)
Redrawn(new) == Edited(new) /\ Draw(new)

(* A new node gets an id that no node has; one that is gone may come again. *)
AddNode(n) ==
    /\ n \notin NodeIds(graph)
    /\ Redrawn([graph EXCEPT !.nodes = Append(@, n)])
    /\ UNCHANGED <<source, shown>>

(* A click on a node or a handle, or the start of a drawn edge. *)
SelectSource(n) ==
    /\ source = Nobody /\ n \in screen
    /\ source' = n
    /\ UNCHANGED <<graph, screen, stored, due, asked, shown, stale, edits>>

(* The edge tool is switched off, or a drawn edge ends on no node. *)
Unselect ==
    /\ source # Nobody /\ source' = Nobody
    /\ Draw(graph) \/ UNCHANGED screen
    /\ UNCHANGED <<graph, stored, due, asked, shown, stale, edits>>

(* tryAddEdge asks for neither of the nodes: the source may have been       *)
(* removed since it was selected.                                           *)
MayJoin(from, to) ==
    /\ from # to
    /\ ~\E e \in ToSet(graph.edges) : e.from = from /\ e.to = to

Connect(n) ==
    /\ source # Nobody /\ n \in screen /\ MayJoin(source, n)
    /\ Redrawn([graph EXCEPT !.edges = Append(@, [from |-> source, to |-> n])])
    /\ source' = Nobody
    /\ UNCHANGED shown

(* Only an edge that was drawn, not clicked, is validated all the same.     *)
ConnectRefused(n) ==
    /\ source # Nobody /\ n \in screen /\ ~MayJoin(source, n)
    /\ source' = Nobody
    /\ \/ Redrawn(graph)
       \/ UNCHANGED <<graph, screen, stored, due, asked, stale, edits>>
    /\ UNCHANGED shown

(* removeSelection: an id takes all of its nodes and edges with it. *)
RemoveNode(n) ==
    /\ n \in screen
    /\ Redrawn([graph EXCEPT !.nodes = SelectSeq(@, LAMBDA m : m # n),
                            !.edges = SelectSeq(@, LAMBDA e : n \notin {e.from, e.to})])
    /\ UNCHANGED <<source, shown>>

RemoveEdge(i) ==
    /\ {graph.edges[i].from, graph.edges[i].to} \subseteq screen
    /\ Redrawn([graph EXCEPT !.edges = RemoveAt(@, i)])
    /\ UNCHANGED <<source, shown>>

DeleteLoops ==
    /\ Redrawn([graph EXCEPT !.edges = SelectSeq(@, LAMBDA e : e.from # e.to)])
    /\ UNCHANGED <<source, shown>>

SetMode(mode) ==
    /\ mode # graph.mode
    /\ Edited([graph EXCEPT !.mode = mode])
    /\ UNCHANGED <<screen, source, shown>>

Clear ==
    /\ Redrawn([Empty EXCEPT !.mode = graph.mode])
    /\ shown' = {}
    /\ UNCHANGED source

(* Drags, the inspector and the fitted view change no graph but have it     *)
(* validated again.                                                         *)
Rearrange ==
    /\ Edited(graph)
    /\ Draw(graph) \/ UNCHANGED screen
    /\ UNCHANGED <<source, shown>>

(* loadPayload drops the edges that join unknown nodes. *)
Loaded(g) ==
    [g EXCEPT !.edges = SelectSeq(@, LAMBDA e : {e.from, e.to} \subseteq NodeIds(g))]

Import(g) ==
    /\ edits <= LastImport
    /\ Redrawn(Loaded(g))
    /\ UNCHANGED <<source, shown>>

(* loadPayload takes the mode and then the nodes of a file before it finds  *)
(* no nodes or no edges in it; the importer passes over that.               *)
ImportBreaksOff(mode, nodes) ==
    /\ edits <= LastBreakOff /\ edits < MaxEdits /\ edits' = edits + 1
    /\ graph' = [graph EXCEPT !.mode = mode, !.nodes = nodes]
    /\ asked' = [i \in DOMAIN asked |-> [asked[i] EXCEPT !.overtaken = TRUE]]
    /\ stale' = TRUE
    /\ UNCHANGED <<screen, source, stored, due, shown>>

(* The page is loaded again: whatever was under way is gone. *)
Reload ==
    /\ graph' = Loaded(stored) /\ Persist(Loaded(stored)) /\ Draw(Loaded(stored))
    /\ source' = Nobody /\ due' = TRUE /\ asked' = <<>> /\ shown' = {}
    /\ stale' = FALSE
    /\ UNCHANGED edits

-----------------------------------------------------------------------------
(* Requests *)

(* runValidation sends the graph as it is when the timer fires. *)
SendValidation ==
    /\ due /\ due' = FALSE
    /\ Len(asked) < MaxAsked
    /\ asked' = Append(asked, [issues |-> Issues(graph), overtaken |-> FALSE])
    /\ UNCHANGED <<graph, screen, source, stored, shown, stale, edits>>

Ended(i) ==
    RemoveAt([j \in DOMAIN asked |->
                 [asked[j] EXCEPT !.overtaken = @ \/ j < i]], i)

(* Answers are shown in the order in which they arrive. *)
ReceiveAnswer(i) ==
    /\ shown' = asked[i].issues
    /\ stale' = asked[i].overtaken
    /\ asked' = Ended(i) /\ Draw(graph)
    /\ UNCHANGED <<graph, source, stored, due, edits>>

RequestFails(i) ==
    /\ stale' = (stale \/ ~asked[i].overtaken)
    /\ asked' = Ended(i)
    /\ UNCHANGED <<graph, screen, source, stored, due, shown, edits>>

Files == [nodes : NodeSeqs, edges : SeqOf(Edges, MaxLoaded), mode : Modes]

Edit ==
    \/ \E n \in Nodes :
          \/ AddNode(n) \/ RemoveNode(n)
          \/ SelectSource(n) \/ Connect(n) \/ ConnectRefused(n)
    \/ \E i \in DOMAIN graph.edges : RemoveEdge(i)
    \/ Unselect \/ Rearrange \/ DeleteLoops \/ Clear \/ Reload
    \/ \E mode \in Modes : SetMode(mode)
    \/ \E file \in Files : Import(file)
    \/ \E mode \in Modes, nodes \in SeqOf(Nodes, MaxBroken) \cup {graph.nodes} :
          ImportBreaksOff(mode, nodes)

Next ==
    \/ Edit \/ SendValidation
    \/ \E i \in DOMAIN asked : ReceiveAnswer(i) \/ RequestFails(i)

Spec == Init /\ [][Next]_vars

-----------------------------------------------------------------------------
(* Properties *)

Reaches(g, n) == Closure(LAMBDA S : Successors(g, S), {n})

Joined(g, n, m) == \E e \in ToSet(g.edges) : e.from = n /\ e.to = m

(* No cycle can be reached from a node; among unknown nodes there may be.   *)
Acyclic(g) ==
    \A n \in UNION {Reaches(g, m) : m \in NodeIds(g)} :
        \A next \in Successors(g, {n}) : n \notin Reaches(g, next)

IsPath(g) ==
    /\ Len(g.edges) + 1 = Cardinality(NodeIds(g))
    /\ \E p \in SetToSeqs(NodeIds(g)) :
          \A k \in 1..Len(p) - 1 : Joined(g, p[k], p[k + 1])

IsTree(g) ==
    /\ Len(g.edges) + 1 = Cardinality(NodeIds(g))
    /\ \E root \in NodeIds(g) : Reaches(g, root) = NodeIds(g)

(* A graph without nodes may be exported whatever its edges say; any other  *)
(* may be exported in chain mode exactly when its edges are one path        *)
(* through all of its ids and in tree mode exactly when they are a tree     *)
(* below one root, so that counting degrees, roots and leaves and looking   *)
(* for cycles decides both.  Nodes with one id count as one, however often  *)
(* the file that was imported lists them.                                   *)
ExportedShape ==
    graph.nodes # <<>> =>
        /\ graph.mode = "chain" => (Exportable(graph) <=> IsPath(graph))
        /\ graph.mode = "tree"  => (Exportable(graph) <=> IsTree(graph))

(* The edges marked as a cycle are marked for good reason, each lies on     *)
(* one, and are enough: without them nothing reachable from a node of the   *)
(* graph is cyclic.                                                         *)
CyclesAreCut ==
    LET marked == CycleEdges(graph)
        kept   == SetToSeq({graph.edges[i] : i \in DOMAIN graph.edges \ marked})
    IN  /\ \A i \in marked :
              graph.edges[i].from \in Reaches(graph, graph.edges[i].to)
        /\ Acyclic([graph EXCEPT !.edges = kept])

(* When no request is due or under way, the issues on the screen are those  *)
(* of the graph that the editor holds, unless the last answer had been      *)
(* overtaken by a later one or never came, or an import that broke off has  *)
(* changed the graph since.                                                 *)
EditorInStep ==
    ~due /\ asked = <<>> /\ ~stale => shown = Issues(graph)

=============================================================================
