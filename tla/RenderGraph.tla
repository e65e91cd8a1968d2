----------------------------- MODULE RenderGraph -----------------------------
(***************************************************************************)
(* The compiler of render graphs and a frame's execution                   *)
(* (render/graph.rs). A graph is a sequence of nodes in the order they were *)
(* added. Its edges come from sets and maps that iterate in any order, so  *)
(* the compiler may put the nodes in any order the edges allow; a frame     *)
(* records them one by one.                                                *)
(***************************************************************************)
EXTENDS Integers, Sequences

CONSTANTS
    Shapes          \* the graphs to compile: sequences of nodes

\* A node is a record with the sets of resource ids it reads, writes, creates
\* and imports (an import is also a read), and whether it binds one resource
\* as ColorAttachment and StorageWrite at once.
IsGraph(g) ==
    /\ DOMAIN g \subseteq Nat \ {0}
    /\ \A n \in DOMAIN g : g[n].imports \subseteq g[n].reads

ASSUME ShapesAssumption == \A g \in Shapes : IsGraph(g)

VARIABLES
    graph,      \* CompiledGraph::nodes
    status,     \* "none", "ready" between frames, "running", or a GraphError
    done,       \* nodes recorded in this frame
    content,    \* which node of this frame wrote a resource last; 0: none
    seen        \* what each recorded node read: resource to writer

graphVars == <<graph, status, done, content, seen>>

FinalColor == 0     \* ResourceId::FINAL_COLOR
Screen == 1         \* ResourceId::SCREEN

Output(node) == node.writes \cup node.creates
Writers(g, r) == {n \in DOMAIN g : r \in Output(g[n])}
Used(g) == UNION {g[n].reads \cup Output(g[n]) : n \in DOMAIN g}

-----------------------------------------------------------------------------
(* compile *)

\* The reader depends on the writer before it, else on the first of all.
ReadAfterWrite(g, w, n) ==
    \E r \in g[n].reads :
        /\ w \in Writers(g, r) /\ w # n
        /\ IF \E x \in Writers(g, r) : x < n
           THEN w < n /\ \A x \in Writers(g, r) : x < n => x <= w
           ELSE \A x \in Writers(g, r) : w <= x

\* Writers of a resource depend on each other, one after the other.
WriteAfterWrite(g, v, w) ==
    \E r \in Output(g[v]) \cap Output(g[w]) :
        v < w /\ \A x \in Writers(g, r) : x <= v \/ w <= x

\* A writer depends on every reader before it. The mutant forgets that.
MutWriteAfterRead(g, n, w) == FALSE
WriteAfterRead(g, n, w) ==
    n < w /\ g[n].reads \cap Output(g[w]) # {}

Edge(g, u, v) ==
    ReadAfterWrite(g, u, v) \/ WriteAfterWrite(g, u, v) \/ WriteAfterRead(g, u, v)

\* Kahn's algorithm leaves nodes over: each of them waits for another of them.
Cyclic(g) ==
    LET edges == {e \in (DOMAIN g) \X (DOMAIN g) : Edge(g, e[1], e[2])}
    IN \E left \in SUBSET (DOMAIN g) :
        left # {} /\ \A v \in left : \E u \in left : <<u, v>> \in edges

Produced(g) == {FinalColor, Screen} \cup UNION {Output(g[n]) \cup g[n].imports : n \in DOMAIN g}
Imported(g) == UNION {g[n].imports : n \in DOMAIN g}
Created(g) == UNION {g[n].creates : n \in DOMAIN g}

Outcome(g) ==
    IF DOMAIN g = {} THEN "EmptyGraph"
    ELSE IF \E n \in DOMAIN g : g[n].clash THEN "IncompatibleAccess"
    ELSE IF \E n \in DOMAIN g : ~(g[n].reads \subseteq Produced(g)) THEN "MissingProducer"
    ELSE IF Cyclic(g) THEN "CyclicDependency"
    ELSE IF Imported(g) \cap Created(g) # {} THEN "IncompatibleAccess"
    ELSE "ready"

Compile(g) ==
    /\ graph' = g
    /\ status' = Outcome(g)
    /\ done' = {} /\ content' = <<>> /\ seen' = <<>>

-----------------------------------------------------------------------------
(* execute *)

BeginFrame ==
    /\ status = "ready"
    /\ status' = "running"
    /\ done' = {} /\ content' = [r \in Used(graph) |-> 0] /\ seen' = <<>>
    /\ UNCHANGED graph

Waiting(n) == {u \in DOMAIN graph : Edge(graph, u, n)} \ done
Ready(n) == n \in DOMAIN graph \ done /\ Waiting(n) = {}

Record(n) ==
    /\ status = "running" /\ Ready(n)
    /\ done' = done \cup {n}
    /\ content' = [r \in Used(graph) |-> IF r \in Output(graph[n]) THEN n ELSE content[r]]
    /\ seen' = [m \in done \cup {n} |->
                    IF m = n THEN [r \in graph[n].reads |-> content[r]] ELSE seen[m]]
    /\ UNCHANGED <<graph, status>>

EndFrame ==
    /\ status = "running" /\ done = DOMAIN graph
    /\ status' = "ready"
    /\ UNCHANGED <<graph, done, content, seen>>

GraphInit ==
    /\ graph = <<>> /\ status = "none"
    /\ done = {} /\ content = <<>> /\ seen = <<>>

GraphNext ==
    \/ status \in {"none", "ready"} /\ \E g \in Shapes : Compile(g)
    \/ BeginFrame
    \/ \E n \in DOMAIN graph : Record(n)
    \/ EndFrame

GraphSpec == GraphInit /\ [][GraphNext]_graphVars

-----------------------------------------------------------------------------
(* Properties *)

\* w is the last writer below n; 0 when there is none.
IsLatest(writers, n, w) ==
    IF \E x \in writers : x < n
    THEN w \in writers /\ w < n /\ \A x \in writers : x < n => x <= w
    ELSE w = 0

\* A graph that compiled runs to its end, and whatever order the compiler
\* picked every node reads what it would read if the nodes ran in the order
\* they were added: never what a later node wrote, and never what an earlier
\* frame left there, unless the node itself is the first to write it or it
\* comes from outside. In the end each resource holds what its last writer
\* wrote.
RunsAsAdded ==
    status = "running" =>
        /\ done = DOMAIN graph \/ \E n \in DOMAIN graph : Ready(n)
        /\ \A n \in done : \A r \in graph[n].reads :
             /\ IsLatest(Writers(graph, r), n, seen[n][r])
             /\ seen[n][r] = 0 => n \in Writers(graph, r) \/ Writers(graph, r) = {}
        /\ done = DOMAIN graph =>
             \A r \in Used(graph) : \A w \in Writers(graph, r) : w <= content[r]
=============================================================================
