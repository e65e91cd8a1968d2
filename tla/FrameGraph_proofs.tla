--------------------------- MODULE FrameGraph_proofs --------------------------
(***************************************************************************)
(* For every graph and every order the compiler may pick, a compiled graph *)
(* runs to its end and every node reads what it would read if the nodes ran *)
(* in the order they were added. From this, for every set of frames: the    *)
(* layers of a finished frame are its clips as the timeline has them now.   *)
(***************************************************************************)
EXTENDS FrameGraph, WellFoundedInduction, SequenceTheorems, TLAPS

-----------------------------------------------------------------------------
(* Sets of indices *)

\* A set of indices that is not empty has a first one.
LEMMA FirstExists ==
    ASSUME NEW S \in SUBSET Nat, S # {}
    PROVE  \E w \in S : \A x \in S : w <= x
<1> DEFINE below == OpToRel(<, Nat)
<1>1. IsWellFoundedOn(below, Nat)
    BY NatLessThanWellFounded, Zenon
<1>2. PICK w \in S : \A x \in S : <<x, w>> \notin below
    <2> HIDE DEF below
    <2> QED  BY <1>1, WFMin
<1>3. ASSUME NEW x \in S  PROVE w <= x
    <2>1. ~(x < w)
        BY <1>2 DEF OpToRel
    <2> QED  BY <2>1
<1> QED  BY <1>3

\* A set of indices that has a member below n has a last one below n.
LEMMA LatestExists ==
    ASSUME NEW S \in SUBSET Nat, NEW n \in Nat, NEW x0 \in S, x0 < n
    PROVE  \E w \in S : w < n /\ \A x \in S : x < n => x <= w
<1> DEFINE distances == {n - x : x \in {y \in S : y < n}}
<1>1. distances \in SUBSET Nat /\ n - x0 \in distances
    OBVIOUS
<1>2. PICK d \in distances : \A e \in distances : d <= e
    <2> HIDE DEF distances
    <2> QED  BY <1>1, FirstExists
<1>3. PICK w \in S : w < n /\ d = n - w
    OBVIOUS
<1>4. ASSUME NEW x \in S, x < n  PROVE x <= w
    <2>1. n - x \in distances
        BY <1>4
    <2>2. n - w <= n - x
        BY <1>2, <1>3, <2>1
    <2> QED  BY <2>2, <1>4
<1> QED  BY <1>3, <1>4

\* A set of indices of a sequence that is not empty has a last one.
LEMMA LastExists ==
    ASSUME NEW n \in Nat, NEW S \in SUBSET (1..n), S # {}
    PROVE  Max(S) \in S /\ \A x \in S : x <= Max(S)
<1> DEFINE fromEnd == {n - x : x \in S}
<1>1. fromEnd \in SUBSET Nat /\ fromEnd # {}
    <2>1. ASSUME NEW x \in S  PROVE n - x \in Nat
        <3>1. x \in 1..n
            OBVIOUS
        <3> QED  BY <3>1
    <2> QED  BY <2>1
<1>2. PICK d \in fromEnd : \A e \in fromEnd : d <= e
    <2> HIDE DEF fromEnd
    <2> QED  BY <1>1, FirstExists
<1>3. PICK w \in S : d = n - w
    OBVIOUS
<1>4. ASSUME NEW x \in S  PROVE x <= w
    <2>1. n - x \in fromEnd
        OBVIOUS
    <2>2. n - w <= n - x
        BY <1>2, <1>3, <2>1
    <2> QED  BY <2>2
<1>5. \E m \in S : \A x \in S : x <= m
    BY <1>4
<1>6. \E m \in S : \A x \in S : m >= x
    BY <1>5
<1> QED  BY <1>6 DEF Max

\* The function behind a fold of n elements: from a set of indices to what the
\* fold makes of them. It takes the last index last.
IsFold(F, base, n, g) ==
    \A S \in SUBSET (1..n) : F[S] = IF S = {} THEN base ELSE g[<<F[S \ {Max(S)}], Max(S)>>]

\* It exists, and stays in the set that the step stays in.
LEMMA FoldExists ==
    ASSUME NEW X, NEW base \in X, NEW n \in Nat, NEW g \in [X \X (1..n) -> X]
    PROVE  \E F \in [SUBSET (1..n) -> X] : IsFold(F, base, n, g)
<1> DEFINE Upto(F, k) == F \in [SUBSET (1..k) -> X] /\ IsFold(F, base, k, g)
           bad == {k \in 0..n : ~\E F : Upto(F, k)}
<1>1. SUFFICES ASSUME bad # {}  PROVE FALSE
    <2>1. n \notin bad => \E F : Upto(F, n)
        <3> HIDE DEF Upto
        <3> QED  OBVIOUS
    <2> QED  BY <1>1, <2>1
<1>2. PICK k \in bad : \A j \in bad : k <= j
    <2>1. bad \in SUBSET Nat
        OBVIOUS
    <2> HIDE DEF bad
    <2> QED  BY <1>1, <2>1, FirstExists
<1>3. CASE k = 0
    <2> DEFINE F == [S \in SUBSET (1..0) |-> base]
    <2>1. 1..0 = {}
        OBVIOUS
    <2>2. \A S \in SUBSET (1..0) : S = {}
        BY <2>1
    <2>3. Upto(F, 0)
        BY <2>2 DEF IsFold
    <2> QED  BY <1>3, <2>3, <1>2
<1>4. CASE k # 0
    <2>1. /\ k \in Nat /\ k - 1 \in Nat /\ k - 1 \in 0..n /\ k - 1 \notin bad
          /\ k \in 1..n /\ 1..k \subseteq 1..n
        <3>1. k \in 0..n
            OBVIOUS
        <3>2. k - 1 \in 0..n /\ ~(k <= k - 1)
            BY <3>1, <1>4
        <3>3. k - 1 \notin bad
            <4> HIDE DEF bad
            <4> QED  BY <1>2, <3>2
        <3> HIDE DEF bad
        <3> QED  BY <3>1, <3>2, <3>3
    <2>2. PICK F : Upto(F, k - 1)
        <3> HIDE DEF Upto
        <3> QED  BY <2>1
    <2> DEFINE H == [S \in SUBSET (1..k) |->
                        IF S \in SUBSET (1..(k - 1)) THEN F[S]
                        ELSE g[<<F[S \ {k}], k>>]]
    <2>3. ASSUME NEW S \in SUBSET (1..k), S \notin SUBSET (1..(k - 1))
          PROVE  S # {} /\ Max(S) = k /\ S \ {k} \in SUBSET (1..(k - 1))
        <3>1. k \in S
            <4>1. ASSUME k \notin S, NEW x \in S  PROVE x \in 1..(k - 1)
                <5>1. x \in 1..k /\ x # k
                    BY <4>1
                <5> QED  BY <5>1, <2>1
            <4> QED  BY <2>3, <4>1
        <3>2. Max(S) \in S /\ \A x \in S : x <= Max(S)
            BY <2>1, <3>1, LastExists
        <3>3. Max(S) \in 1..k /\ k <= Max(S)
            BY <3>1, <3>2
        <3>4. Max(S) = k
            BY <3>3, <2>1
        <3>5. ASSUME NEW x \in S \ {k}  PROVE x \in 1..(k - 1)
            <4>1. x \in 1..k /\ x # k
                BY <3>5
            <4> QED  BY <4>1, <2>1
        <3> QED  BY <3>1, <3>4, <3>5
    <2>4. H \in [SUBSET (1..k) -> X]
        <3>1. ASSUME NEW S \in SUBSET (1..k)  PROVE H[S] \in X
            <4>1. CASE S \in SUBSET (1..(k - 1))
                BY <2>2, <4>1
            <4>2. CASE S \notin SUBSET (1..(k - 1))
                <5>1. F[S \ {k}] \in X
                    BY <2>2, <2>3, <4>2
                <5>2. <<F[S \ {k}], k>> \in X \X (1..n)
                    BY <2>1, <5>1
                <5> QED  BY <5>2, <4>2
            <4> QED  BY <4>1, <4>2
        <3> QED  BY <3>1
    <2>5. ASSUME NEW S \in SUBSET (1..k)
          PROVE  H[S] = IF S = {} THEN base ELSE g[<<H[S \ {Max(S)}], Max(S)>>]
        <3>1. CASE S \in SUBSET (1..(k - 1))
            <4>1. S \ {Max(S)} \in SUBSET (1..(k - 1)) /\ S \ {Max(S)} \in SUBSET (1..k)
                BY <3>1
            <4>2. H[S] = F[S] /\ H[S \ {Max(S)}] = F[S \ {Max(S)}]
                BY <3>1, <4>1
            <4> HIDE DEF H
            <4> QED  BY <3>1, <4>2, <2>2 DEF IsFold
        <3>2. CASE S \notin SUBSET (1..(k - 1))
            <4>1. S # {} /\ Max(S) = k /\ S \ {k} \in SUBSET (1..(k - 1))
                BY <2>3, <3>2
            <4>2. H[S] = g[<<F[S \ {k}], k>>]
                BY <3>2
            <4>3. H[S \ {k}] = F[S \ {k}]
                BY <4>1
            <4> HIDE DEF H
            <4> QED  BY <4>1, <4>2, <4>3
        <3> QED  BY <3>1, <3>2
    <2>6. Upto(H, k)
        <3> HIDE DEF H
        <3> QED  BY <2>4, <2>5 DEF IsFold
    <2> HIDE DEF H
    <2> QED  BY <2>6, <1>2
<1> QED  BY <1>3, <1>4

\* A run of a step function, from a start, is a function of the step's number.
IsRun(h, base, n, g) ==
    h[0] = base /\ \A k \in 1..n : h[k] = g[<<h[k - 1], k>>]

LEMMA RunExists ==
    ASSUME NEW X, NEW base \in X, NEW n \in Nat, NEW g \in [X \X (1..n) -> X]
    PROVE  \E h \in [0..n -> X] : IsRun(h, base, n, g)
<1>1. PICK F \in [SUBSET (1..n) -> X] : IsFold(F, base, n, g)
    BY FoldExists
<1> DEFINE h == [k \in 0..n |-> F[1..k]]
<1>2. ASSUME NEW k \in 0..n  PROVE 1..k \in SUBSET (1..n)
    BY <1>2
<1>3. h \in [0..n -> X]
    BY <1>2
<1>4. h[0] = base
    <2>1. 1..0 = {} /\ 0 \in 0..n
        OBVIOUS
    <2> QED  BY <2>1, <1>1, <1>2 DEF IsFold
<1>5. ASSUME NEW k \in 1..n  PROVE h[k] = g[<<h[k - 1], k>>]
    <2>1. k - 1 \in 0..n /\ k \in 0..n /\ 1..k # {} /\ k \in Nat
        BY <1>5
    <2>2. Max(1..k) = k
        <3>1. Max(1..k) \in 1..k /\ \A x \in 1..k : x <= Max(1..k)
            BY <2>1, LastExists
        <3> QED  BY <3>1, <2>1
    <2>3. (1..k) \ {k} = 1..(k - 1)
        BY <2>1
    <2>4. F[1..k] = g[<<F[1..(k - 1)], k>>]
        BY <1>1, <1>2, <2>1, <2>2, <2>3 DEF IsFold
    <2> QED  BY <1>3, <2>1, <2>4
<1>6. IsRun(h, base, n, g)
    BY <1>4, <1>5 DEF IsRun
<1> HIDE DEF h
<1> QED  BY <1>3, <1>6

-----------------------------------------------------------------------------
(* What the edges mean *)

\* A graph without cycles has no node that reads only what later nodes write:
\* the first of them would have to run before it, and after it.
LEMMA NoBackwardReads ==
    ASSUME NEW g, IsGraph(g), ~Cyclic(g),
           NEW n \in DOMAIN g, NEW r \in g[n].reads,
           \A x \in Writers(g, r) : ~(x < n)
    PROVE  n \in Writers(g, r) \/ Writers(g, r) = {}
<1> SUFFICES ASSUME n \notin Writers(g, r), Writers(g, r) # {}
             PROVE FALSE
    OBVIOUS
<1>1. Writers(g, r) \in SUBSET Nat /\ n \in Nat
    BY DEF IsGraph, Writers
<1>2. PICK w \in Writers(g, r) : \A x \in Writers(g, r) : w <= x
    BY <1>1, FirstExists
<1>3. n < w /\ w \in DOMAIN g /\ r \in Output(g[w])
    BY <1>1, <1>2 DEF Writers
<1>4. Edge(g, w, n)
    BY <1>2, <1>3 DEF Edge, ReadAfterWrite
<1>5. Edge(g, n, w)
    BY <1>3 DEF Edge, WriteAfterRead
<1> DEFINE edges == {e \in (DOMAIN g) \X (DOMAIN g) : Edge(g, e[1], e[2])}
           left == {n, w}
<1>6. <<w, n>> \in edges /\ <<n, w>> \in edges
    BY <1>3, <1>4, <1>5
<1>7. left \in SUBSET (DOMAIN g) /\ left # {}
    BY <1>3
<1>8. \A v \in left : \E u \in left : <<u, v>> \in edges
    BY <1>6
<1>9. Cyclic(g)
    BY <1>7, <1>8 DEF Cyclic
<1> QED  BY <1>9

\* The last writer before a reader has an edge to it.
LEMMA LatestWriterFirst ==
    ASSUME NEW g, NEW n \in DOMAIN g, NEW r \in g[n].reads,
           NEW w \in Writers(g, r), w < n, w # n,
           \A x \in Writers(g, r) : x < n => x <= w
    PROVE  Edge(g, w, n)
BY DEF Edge, ReadAfterWrite

\* So has the last writer before another writer.
LEMMA WritersInTurn ==
    ASSUME NEW g, IsGraph(g), NEW r, NEW v \in Writers(g, r), NEW w \in Writers(g, r), v < w,
           \A x \in Writers(g, r) : x < w => x <= v
    PROVE  Edge(g, v, w)
<1>1. Writers(g, r) \in SUBSET Nat
    BY DEF IsGraph, Writers
<1>2. \A x \in Writers(g, r) : x <= v \/ w <= x
    BY <1>1
<1>3. r \in Output(g[v]) \cap Output(g[w])
    BY DEF Writers
<1> QED  BY <1>2, <1>3 DEF Edge, WriteAfterWrite

-----------------------------------------------------------------------------
(* The inductive invariant *)

Accepted ==
    status \in {"ready", "running"} => IsGraph(graph) /\ ~Cyclic(graph)

Shape ==
    /\ done \subseteq DOMAIN graph
    /\ DOMAIN content = Used(graph)
    /\ DOMAIN seen = done
    /\ \A n \in done : DOMAIN seen[n] = graph[n].reads

\* What a recorded node waited for was recorded.
Closed == \A v \in done : \A u \in DOMAIN graph : Edge(graph, u, v) => u \in done

\* The writers of a resource are recorded in turn.
InTurn ==
    \A r : \A w \in Writers(graph, r) \cap done : \A x \in Writers(graph, r) :
        x < w => x \in done

\* A resource holds what the last of its recorded writers wrote.
Holds(r) ==
    IF Writers(graph, r) \cap done = {} THEN content[r] = 0
    ELSE /\ content[r] \in Writers(graph, r) \cap done
         /\ \A x \in Writers(graph, r) \cap done : x <= content[r]

ReadAsAdded ==
    \A n \in done : \A r \in graph[n].reads : IsLatest(Writers(graph, r), n, seen[n][r])

IInv ==
    /\ Accepted
    /\ status = "running" =>
         /\ Shape /\ Closed /\ InTurn
         /\ \A r \in Used(graph) : Holds(r)
         /\ ReadAsAdded

\* The invariant gives what is promised.
LEMMA InvariantSuffices == IInv => RunsAsAdded
<1> SUFFICES ASSUME IInv, status = "running"  PROVE RunsAsAdded
    BY DEF RunsAsAdded
<1>1. IsGraph(graph) /\ ~Cyclic(graph)
    BY DEF IInv, Accepted
<1>2. done = DOMAIN graph \/ \E n \in DOMAIN graph : Ready(n)
    <2> SUFFICES ASSUME done # DOMAIN graph  PROVE \E n \in DOMAIN graph : Ready(n)
        OBVIOUS
    <2> DEFINE left == DOMAIN graph \ done
    <2>1. left # {} /\ left \in SUBSET (DOMAIN graph)
        BY DEF IInv, Shape
    <2>2. PICK v \in left : \A u \in left : ~Edge(graph, u, v)
        <3> DEFINE edges == {e \in (DOMAIN graph) \X (DOMAIN graph) : Edge(graph, e[1], e[2])}
        <3>1. \E v \in left : \A u \in left : <<u, v>> \notin edges
            BY <1>1, <2>1 DEF Cyclic
        <3> QED  BY <3>1
    <2>3. Waiting(v) = {}
        BY <2>2 DEF Waiting
    <2> QED  BY <2>3 DEF Ready
<1>3. ASSUME NEW n \in done, NEW r \in graph[n].reads
      PROVE  /\ IsLatest(Writers(graph, r), n, seen[n][r])
             /\ seen[n][r] = 0 => n \in Writers(graph, r) \/ Writers(graph, r) = {}
    <2>1. n \in DOMAIN graph
        BY DEF IInv, Shape
    <2>2. IsLatest(Writers(graph, r), n, seen[n][r])
        BY DEF IInv, ReadAsAdded
    <2>3. ASSUME seen[n][r] = 0
          PROVE  n \in Writers(graph, r) \/ Writers(graph, r) = {}
        <3>1. 0 \notin Writers(graph, r)
            BY <1>1 DEF IsGraph, Writers
        <3>2. \A x \in Writers(graph, r) : ~(x < n)
            BY <2>2, <2>3, <3>1 DEF IsLatest
        <3> QED  BY <1>1, <2>1, <3>2, NoBackwardReads
    <2> QED  BY <2>2, <2>3
<1>4. ASSUME done = DOMAIN graph, NEW r \in Used(graph), NEW w \in Writers(graph, r)
      PROVE  w <= content[r]
    <2>1. w \in Writers(graph, r) \cap done
        BY <1>4 DEF Writers
    <2> QED  BY <2>1 DEF IInv, Holds
<1> QED  BY <1>2, <1>3, <1>4 DEF RunsAsAdded

-----------------------------------------------------------------------------
(* Steps *)

LEMMA InitHolds == GraphInit => IInv
BY DEF GraphInit, IInv, Accepted

LEMMA CompileHolds ==
    ASSUME NEW g, IsGraph(g), Compile(g)  PROVE IInv'
<1>1. status' = Outcome(g) /\ graph' = g
    BY DEF Compile
<1>2. Outcome(g) # "running"
    BY DEF Outcome
<1>3. Outcome(g) = "ready" => ~Cyclic(g)
    BY DEF Outcome
<1> QED  BY <1>1, <1>2, <1>3 DEF IInv, Accepted

LEMMA BeginHolds ==
    ASSUME IInv, BeginFrame  PROVE IInv'
<1>1. /\ status = "ready" /\ status' = "running" /\ graph' = graph
      /\ done' = {} /\ content' = [r \in Used(graph) |-> 0] /\ seen' = <<>>
    BY DEF BeginFrame
<1>2. Accepted'
    BY <1>1 DEF IInv, Accepted
<1>3. Shape'
    BY <1>1 DEF Shape
<1>4. Closed' /\ InTurn' /\ ReadAsAdded'
    BY <1>1 DEF Closed, InTurn, ReadAsAdded
<1>5. \A r \in Used(graph') : Holds(r)'
    BY <1>1 DEF Holds
<1> QED  BY <1>2, <1>3, <1>4, <1>5 DEF IInv

\* When a node is ready, all writers before it of what it reads are recorded,
\* and none after it.
LEMMA ReadyToRead ==
    ASSUME IInv, status = "running", NEW n, Ready(n), NEW r \in graph[n].reads
    PROVE  Writers(graph, r) \cap done = {x \in Writers(graph, r) : x < n}
<1>1. IsGraph(graph) /\ n \in DOMAIN graph /\ n \notin done /\ Closed /\ InTurn
    BY DEF IInv, Accepted, Ready
<1>2. Writers(graph, r) \in SUBSET (Nat \cap DOMAIN graph) /\ n \in Nat
    BY <1>1 DEF IsGraph, Writers
<1>3. ASSUME NEW x \in Writers(graph, r), x < n  PROVE x \in done
    <2>1. PICK w \in Writers(graph, r) : w < n /\ \A y \in Writers(graph, r) : y < n => y <= w
        BY <1>2, <1>3, LatestExists
    <2>2. Edge(graph, w, n)
        BY <1>1, <1>2, <2>1, LatestWriterFirst
    <2>3. w \in done
        BY <1>2, <2>2 DEF Ready, Waiting
    <2>4. x = w \/ x < w
        BY <1>2, <1>3, <2>1
    <2> QED  BY <1>1, <2>3, <2>4 DEF InTurn
<1>4. ASSUME NEW x \in Writers(graph, r), x \in done  PROVE x < n
    <2> SUFFICES ASSUME n < x  PROVE FALSE
        BY <1>1, <1>2, <1>4
    <2>1. Edge(graph, n, x)
        BY <1>1 DEF Edge, WriteAfterRead, Writers
    <2> QED  BY <1>1, <1>4, <2>1 DEF Closed
<1> QED  BY <1>3, <1>4

\* When a node is ready, all writers before it of what it writes are recorded,
\* and none after it.
LEMMA ReadyToWrite ==
    ASSUME IInv, status = "running", NEW n, Ready(n), NEW r, n \in Writers(graph, r)
    PROVE  /\ \A x \in Writers(graph, r) : x < n => x \in done
           /\ \A x \in Writers(graph, r) \cap done : x < n
<1>1. IsGraph(graph) /\ n \in DOMAIN graph /\ n \notin done /\ InTurn
    BY DEF IInv, Accepted, Ready
<1>2. Writers(graph, r) \in SUBSET (Nat \cap DOMAIN graph) /\ n \in Nat
    BY <1>1 DEF IsGraph, Writers
<1>3. ASSUME NEW x \in Writers(graph, r), x < n  PROVE x \in done
    <2>1. PICK w \in Writers(graph, r) : w < n /\ \A y \in Writers(graph, r) : y < n => y <= w
        BY <1>2, <1>3, LatestExists
    <2>2. Edge(graph, w, n)
        BY <1>1, <2>1, WritersInTurn
    <2>3. w \in done
        BY <1>2, <2>2 DEF Ready, Waiting
    <2>4. x = w \/ x < w
        BY <1>2, <1>3, <2>1
    <2> QED  BY <1>1, <2>3, <2>4 DEF InTurn
<1>4. ASSUME NEW x \in Writers(graph, r) \cap done  PROVE x < n
    <2> SUFFICES ASSUME n < x  PROVE FALSE
        BY <1>1, <1>2
    <2> QED  BY <1>1 DEF InTurn
<1> QED  BY <1>3, <1>4

LEMMA RecordHolds ==
    ASSUME IInv, NEW n \in DOMAIN graph, Record(n)  PROVE IInv'
<1>1. /\ status = "running" /\ status' = "running" /\ graph' = graph /\ Ready(n)
      /\ done' = done \cup {n} /\ n \notin done
    BY DEF Record, Ready
<1>2. content' = [r \in Used(graph) |-> IF r \in Output(graph[n]) THEN n ELSE content[r]]
    BY DEF Record
<1>3. seen' = [m \in done \cup {n} |->
                  IF m = n THEN [r \in graph[n].reads |-> content[r]] ELSE seen[m]]
    BY DEF Record
<1>4. IsGraph(graph) /\ Shape /\ Closed /\ InTurn /\ ReadAsAdded
    BY <1>1 DEF IInv, Accepted
<1>5. Accepted'
    BY <1>1 DEF IInv, Accepted
<1>6. Shape'
    BY <1>1, <1>2, <1>3, <1>4 DEF Shape
<1>7. Closed'
    BY <1>1, <1>4 DEF Closed, Ready, Waiting
<1>8. InTurn'
    <2> SUFFICES ASSUME NEW r, NEW w \in Writers(graph, r) \cap (done \cup {n}),
                        NEW x \in Writers(graph, r), x < w
                 PROVE  x \in done \cup {n}
        BY <1>1 DEF InTurn
    <2>1. CASE w \in done
        BY <1>4, <2>1 DEF InTurn
    <2>2. CASE w = n
        BY <1>1, <2>2, ReadyToWrite
    <2> QED  BY <2>1, <2>2
<1>9. ASSUME NEW r \in Used(graph)  PROVE Holds(r)'
    <2>1. Holds(r)
        BY <1>1 DEF IInv
    <2>2. CASE r \in Output(graph[n])
        <3>1. n \in Writers(graph, r) /\ content'[r] = n
            BY <1>2, <2>2 DEF Writers
        <3>2. \A x \in Writers(graph, r) \cap done : x < n
            BY <1>1, <3>1, ReadyToWrite
        <3>3. \A x \in Writers(graph, r) \cap done' : x <= n
            BY <1>1, <1>4, <3>2 DEF IsGraph, Writers
        <3> QED  BY <1>1, <3>1, <3>3 DEF Holds
    <2>3. CASE r \notin Output(graph[n])
        <3>1. Writers(graph, r) \cap done' = Writers(graph, r) \cap done
            BY <1>1, <2>3 DEF Writers
        <3>2. content'[r] = content[r]
            BY <1>2, <2>3
        <3> QED  BY <1>1, <2>1, <3>1, <3>2 DEF Holds
    <2> QED  BY <2>2, <2>3
<1>10. ReadAsAdded'
    <2> SUFFICES ASSUME NEW m \in done \cup {n}, NEW r \in graph[m].reads
                 PROVE  IsLatest(Writers(graph, r), m, seen'[m][r])
        BY <1>1 DEF ReadAsAdded
    <2>1. CASE m \in done
        <3>1. seen'[m] = seen[m]
            BY <1>1, <1>3, <2>1
        <3> QED  BY <1>4, <2>1, <3>1 DEF ReadAsAdded
    <2>2. CASE m = n
        <3>1. seen'[m][r] = content[r]
            BY <1>3, <2>2
        <3>2. Writers(graph, r) \cap done = {x \in Writers(graph, r) : x < n}
            BY <1>1, <2>2, ReadyToRead
        <3>3. r \in Used(graph)
            BY <2>2 DEF Used
        <3>4. Holds(r)
            BY <1>1, <3>3 DEF IInv
        <3> QED  BY <2>2, <3>1, <3>2, <3>4 DEF Holds, IsLatest
    <2> QED  BY <2>1, <2>2
<1> QED  BY <1>1, <1>5, <1>6, <1>7, <1>8, <1>9, <1>10 DEF IInv

LEMMA EndHolds ==
    ASSUME IInv, EndFrame  PROVE IInv'
BY DEF EndFrame, IInv, Accepted

-----------------------------------------------------------------------------
(* The theorem *)

\* RunsAsAdded (render/graph.rs, compile and execute) in every state, for every
\* set of graphs: the order the compiler picks never shows.
THEOREM OrderNeverShows == GraphSpec => []RunsAsAdded
<1>1. GraphInit => IInv
    BY InitHolds
<1>2. IInv /\ [GraphNext]_graphVars => IInv'
    <2> SUFFICES ASSUME IInv, [GraphNext]_graphVars  PROVE IInv'
        OBVIOUS
    <2>1. CASE \E g \in Shapes : Compile(g)
        BY <2>1, ShapesAssumption, CompileHolds
    <2>2. CASE BeginFrame
        BY <2>2, BeginHolds
    <2>3. CASE \E n \in DOMAIN graph : Record(n)
        BY <2>3, RecordHolds
    <2>4. CASE EndFrame
        BY <2>4, EndHolds
    <2>5. CASE UNCHANGED graphVars
        BY <2>5 DEF graphVars, IInv, Accepted, Shape, Closed, InTurn, Holds, ReadAsAdded
    <2> QED  BY <2>1, <2>2, <2>3, <2>4, <2>5 DEF GraphNext
<1>3. IInv => RunsAsAdded
    BY InvariantSuffices
<1> QED  BY <1>1, <1>2, <1>3, PTL DEF GraphSpec

-----------------------------------------------------------------------------
(* Builders *)

Sources == UNION {{f[i].src : i \in DOMAIN f} : f \in Frames}

Doings ==
    {"upload", "still", "text", "sdrToRgb", "hdrToRgb", "tone", "composite",
     "color", "blurH", "blurV", "sharpen", "vignette", "chroma"}

NodeType ==
    [does : Doings, from : Seq(Nat), param : Nat \cup Sources, reads : SUBSET Nat,
     writes : SUBSET Nat, creates : SUBSET Nat, imports : SUBSET Nat, clash : {FALSE}]

Builder ==
    [nodes : Seq(NodeType), next : Nat, cur : Nat, inputs : Seq(Nat), uploads : Seq(Nat)]

\* One sequence continues another.
Grows(p, q) == Len(p) <= Len(q) /\ \A m \in 1..Len(p) : q[m] = p[m]

\* The textures NVDEC left a frame's clips in.
Textures(f) == UNION {ToSet(InteropPlanes(i)) : i \in {j \in DOMAIN f : f[j].interop}}

\* A node that passes a picture on reads what it names; what it imports are
\* textures of the frame, and it reads them.
Sensible(node, f) ==
    /\ node.imports \subseteq node.reads \cap Textures(f)
    /\ node.does \notin {"upload", "still", "text"} => Len(node.from) >= 1
    /\ \A k \in 1..Len(node.from) : node.from[k] \in node.reads
    /\ node.does \in {"sdrToRgb", "hdrToRgb"} => Len(node.from) = 2

\* Every node writes ids of its own, taken from the counter.
Sound(b, f) ==
    /\ b \in Builder
    /\ CounterStart(Len(f)) <= b.next
    /\ \A m \in DOMAIN b.nodes :
         /\ Sensible(b.nodes[m], f)
         /\ \A r \in Output(b.nodes[m]) : CounterStart(Len(f)) <= r /\ r < b.next
    /\ \A m, k \in DOMAIN b.nodes :
         m # k => Output(b.nodes[m]) \cap Output(b.nodes[k]) = {}

Written(b) == UNION {Output(b.nodes[m]) : m \in DOMAIN b.nodes}

\* The last node of a builder writes its current texture.
Standing(b) == Len(b.nodes) >= 1 /\ b.cur \in Output(b.nodes[Len(b.nodes)])

\* Clips are what FrameAssumption says.
IsClip(clip) ==
    /\ clip.kind \in {"video", "still", "text"} /\ clip.colour \in {"sdr", "hdr"}
    /\ clip.interop \in BOOLEAN /\ (clip.interop => clip.kind = "video")
    /\ clip.src \in Sources
    /\ \A k \in 1..6 : clip.effects[EffectOf(Passes[k])] \in Nat

LEMMA SixPasses ==
    /\ Len(Passes) = 6 /\ DOMAIN Passes = 1..6
    /\ \A k \in 1..6 : Passes[k] \in ToSet(Passes) /\ Passes[k] \in Doings
    /\ \A k \in 1..6 : Passes[k] \notin
         {"upload", "still", "text", "sdrToRgb", "hdrToRgb", "composite", "tone"}
<1>1. /\ Len(Passes) = 6 /\ DOMAIN Passes = 1..6
      /\ Passes[1] = "color" /\ Passes[2] = "blurH" /\ Passes[3] = "blurV"
      /\ Passes[4] = "sharpen" /\ Passes[5] = "vignette" /\ Passes[6] = "chroma"
    BY DEF Passes
<1>2. \A k \in 1..6 : k = 1 \/ k = 2 \/ k = 3 \/ k = 4 \/ k = 5 \/ k = 6
    OBVIOUS
<1>3. \A k \in 1..6 : Passes[k] \in {"color", "blurH", "blurV", "sharpen", "vignette", "chroma"}
    BY <1>1, <1>2
<1>4. ASSUME NEW k \in 1..6  PROVE Passes[k] \in ToSet(Passes)
    BY <1>1 DEF ToSet
<1>5. ASSUME NEW k \in 1..6
      PROVE  /\ Passes[k] \in Doings
             /\ Passes[k] \notin
                   {"upload", "still", "text", "sdrToRgb", "hdrToRgb", "composite", "tone"}
    <2> HIDE DEF Passes
    <2>1. Passes[k] \in Doings
        BY <1>3 DEF Doings
    <2>2. Passes[k] \notin
             {"upload", "still", "text", "sdrToRgb", "hdrToRgb", "composite", "tone"}
        BY <1>3, SMT
    <2> QED  BY <2>1, <2>2
<1> HIDE DEF Passes
<1> QED  BY <1>1, <1>4, <1>5

LEMMA ClipsOfFrames ==
    ASSUME NEW f \in Frames
    PROVE  /\ f \in Seq(ToSet(f)) /\ Len(f) \in Nat /\ DOMAIN f = 1..Len(f)
           /\ \A i \in 1..Len(f) : IsClip(f[i])
<1>1. f \in Seq(ToSet(f))
    BY FrameAssumption
<1>2. Len(f) \in Nat /\ DOMAIN f = 1..Len(f)
    BY <1>1, LenProperties
<1>3. ASSUME NEW i \in 1..Len(f)  PROVE IsClip(f[i])
    <2>1. f[i].src \in Sources
        BY <1>2 DEF Sources
    <2>2. \A k \in 1..6 : f[i].effects[EffectOf(Passes[k])] \in Nat
        BY <1>2, FrameAssumption, SixPasses
    <2> QED  BY <1>2, <2>1, <2>2, FrameAssumption DEF IsClip
<1> QED  BY <1>1, <1>2, <1>3

LEMMA GrowsOn ==
    ASSUME NEW S, NEW p \in Seq(S), NEW q \in Seq(S), NEW r \in Seq(S),
           Grows(p, q), Grows(q, r)
    PROVE  Grows(p, r)
<1>1. Len(p) \in Nat /\ Len(q) \in Nat /\ Len(r) \in Nat
    BY LenProperties
<1> QED  BY <1>1 DEF Grows

LEMMA GrowsByOne ==
    ASSUME NEW S, NEW p \in Seq(S), NEW e \in S
    PROVE  /\ Grows(p, p) /\ Grows(p, Append(p, e)) /\ Append(p, e) \in Seq(S)
           /\ Len(Append(p, e)) = Len(p) + 1 /\ Append(p, e)[Len(p) + 1] = e
           /\ Len(p) \in Nat /\ DOMAIN p = 1..Len(p)
           /\ DOMAIN Append(p, e) = 1..(Len(p) + 1)
           /\ \A m \in 1..Len(p) : Append(p, e)[m] = p[m]
BY LenProperties, AppendProperties DEF Grows

\* c is b with one more node, which writes what no other has written.
Added(b, node, c, f) ==
    /\ node \in NodeType /\ Sensible(node, f)
    /\ c \in Builder /\ c.nodes = Append(b.nodes, node) /\ b.next <= c.next
    /\ \A r \in Output(node) :
         CounterStart(Len(f)) <= r /\ r < c.next /\ r \notin Written(b)

\* A node that writes what no other has written keeps the builder sound.
LEMMA AddSound ==
    ASSUME NEW f, Len(f) \in Nat, NEW b, Sound(b, f), NEW c, NEW node, Added(b, node, c, f)
    PROVE  /\ Sound(c, f) /\ Grows(b.nodes, c.nodes)
           /\ Len(c.nodes) = Len(b.nodes) + 1 /\ Len(b.nodes) \in Nat
           /\ c.nodes[Len(c.nodes)] = node
           /\ Written(c) = Written(b) \cup Output(node)
<1>1. b \in Builder /\ b.nodes \in Seq(NodeType)
    BY DEF Sound, Builder
<1>2. /\ node \in NodeType /\ Sensible(node, f)
      /\ c \in Builder /\ c.nodes = Append(b.nodes, node) /\ b.next <= c.next
      /\ \A r \in Output(node) :
           CounterStart(Len(f)) <= r /\ r < c.next /\ r \notin Written(b)
    BY DEF Added
<1>3. /\ Grows(b.nodes, c.nodes) /\ Len(b.nodes) \in Nat
      /\ Len(c.nodes) = Len(b.nodes) + 1 /\ c.nodes[Len(b.nodes) + 1] = node
      /\ DOMAIN b.nodes = 1..Len(b.nodes) /\ DOMAIN c.nodes = 1..(Len(b.nodes) + 1)
      /\ \A m \in 1..Len(b.nodes) : c.nodes[m] = b.nodes[m]
    BY <1>1, <1>2, GrowsByOne
<1>4. ASSUME NEW m \in DOMAIN c.nodes
      PROVE  /\ Sensible(c.nodes[m], f)
             /\ \A r \in Output(c.nodes[m]) : CounterStart(Len(f)) <= r /\ r < c.next
    <2>1. CASE m \in DOMAIN b.nodes
        <3>1. c.nodes[m] = b.nodes[m] /\ Sensible(b.nodes[m], f)
            BY <1>3, <2>1 DEF Sound
        <3>2. /\ b.next \in Nat /\ c.next \in Nat /\ CounterStart(Len(f)) \in Nat
              /\ b.nodes[m] \in NodeType
            BY <1>1, <1>2, <2>1, ElementOfSeq, <1>3 DEF Builder, CounterStart
        <3>3. Output(b.nodes[m]) \subseteq Nat
            BY <3>2 DEF Output, NodeType
        <3>4. \A r \in Output(b.nodes[m]) : CounterStart(Len(f)) <= r /\ r < b.next
            BY <2>1 DEF Sound
        <3>5. ASSUME NEW r \in Output(b.nodes[m])
              PROVE  CounterStart(Len(f)) <= r /\ r < c.next
            BY <1>2, <3>2, <3>3, <3>4
        <3> QED  BY <3>1, <3>5
    <2>2. CASE m \notin DOMAIN b.nodes
        <3>1. m = Len(b.nodes) + 1
            BY <1>3, <2>2
        <3> QED  BY <1>2, <1>3, <3>1
    <2> QED  BY <2>1, <2>2
<1>5. ASSUME NEW m \in DOMAIN c.nodes, NEW k \in DOMAIN c.nodes, m # k
      PROVE  Output(c.nodes[m]) \cap Output(c.nodes[k]) = {}
    <2>1. \A j \in DOMAIN c.nodes : j \in DOMAIN b.nodes \/ j = Len(b.nodes) + 1
        BY <1>3
    <2>2. CASE m \in DOMAIN b.nodes /\ k \in DOMAIN b.nodes
        BY <1>3, <1>5, <2>2 DEF Sound
    <2>3. CASE m \in DOMAIN b.nodes /\ k = Len(b.nodes) + 1
        BY <1>2, <1>3, <2>3 DEF Written
    <2>4. CASE m = Len(b.nodes) + 1 /\ k \in DOMAIN b.nodes
        BY <1>2, <1>3, <2>4 DEF Written
    <2> QED  BY <1>5, <2>1, <2>2, <2>3, <2>4
<1>6. Sound(c, f)
    <2>1. CounterStart(Len(f)) <= c.next
        BY <1>1, <1>2 DEF Sound, CounterStart, Builder
    <2> QED  BY <1>2, <1>4, <1>5, <2>1 DEF Sound
<1>7. Written(c) = Written(b) \cup Output(node)
    <2>1. \A m \in DOMAIN b.nodes : Output(c.nodes[m]) = Output(b.nodes[m]) /\ m \in DOMAIN c.nodes
        BY <1>3
    <2>2. Output(c.nodes[Len(b.nodes) + 1]) = Output(node) /\ Len(b.nodes) + 1 \in DOMAIN c.nodes
        BY <1>3
    <2>3. \A j \in DOMAIN c.nodes : j \in DOMAIN b.nodes \/ j = Len(b.nodes) + 1
        BY <1>3
    <2> QED  BY <2>1, <2>2, <2>3 DEF Written
<1> QED  BY <1>3, <1>6, <1>7

LEMMA NodeIs ==
    ASSUME NEW does \in Doings, NEW from \in Seq(Nat), NEW to \in Seq(Nat),
           NEW imports \in SUBSET Nat, NEW param \in Nat \cup Sources
    PROVE  LET node == Node(does, from, to, imports, param)
           IN /\ node \in NodeType /\ node.does = does /\ node.from = from /\ node.param = param
              /\ node.reads = ToSet(from) /\ Output(node) = ToSet(to)
              /\ node.imports = imports
<1>1. ToSet(from) \in SUBSET Nat /\ ToSet(to) \in SUBSET Nat
    BY ElementOfSeq, LenProperties DEF ToSet
<1> QED  BY <1>1 DEF Node, NodeType, Output

LEMMA ShortSets ==
    /\ ToSet(<<>>) = {}
    /\ \A x \in Nat : ToSet(<<x>>) = {x} /\ <<x>> \in Seq(Nat)
    /\ \A x, y \in Nat : ToSet(<<x, y>>) = {x, y} /\ <<x, y>> \in Seq(Nat)
<1>1. \A x \in Nat : ToSet(<<x>>) = {x} /\ <<x>> \in Seq(Nat)
    BY DEF ToSet
<1>2. ASSUME NEW x \in Nat, NEW y \in Nat
      PROVE  ToSet(<<x, y>>) = {x, y} /\ <<x, y>> \in Seq(Nat)
    <2>1. DOMAIN <<x, y>> = {1, 2}
        OBVIOUS
    <2>2. <<x, y>>[1] = x /\ <<x, y>>[2] = y
        OBVIOUS
    <2> QED  BY <2>1, <2>2 DEF ToSet
<1> QED  BY <1>1, <1>2 DEF ToSet

\* Setting one field of a builder leaves the others.
LEMMA PutNodes ==
    ASSUME NEW b \in Builder, NEW nodes \in Seq(NodeType)
    PROVE  LET c == [b EXCEPT !.nodes = nodes]
           IN /\ c \in Builder /\ c.nodes = nodes /\ c.next = b.next /\ c.cur = b.cur
              /\ c.inputs = b.inputs /\ c.uploads = b.uploads
BY DEF Builder

LEMMA PutNext ==
    ASSUME NEW b \in Builder, NEW next \in Nat
    PROVE  LET c == [b EXCEPT !.next = next]
           IN /\ c \in Builder /\ c.nodes = b.nodes /\ c.next = next /\ c.cur = b.cur
              /\ c.inputs = b.inputs /\ c.uploads = b.uploads
BY DEF Builder

LEMMA PutCur ==
    ASSUME NEW b \in Builder, NEW cur \in Nat
    PROVE  LET c == [b EXCEPT !.cur = cur]
           IN /\ c \in Builder /\ c.nodes = b.nodes /\ c.next = b.next /\ c.cur = cur
              /\ c.inputs = b.inputs /\ c.uploads = b.uploads
BY DEF Builder

LEMMA PutUploads ==
    ASSUME NEW b \in Builder, NEW ups \in Seq(Nat)
    PROVE  LET c == [b EXCEPT !.uploads = ups]
           IN /\ c \in Builder /\ c.nodes = b.nodes /\ c.next = b.next /\ c.cur = b.cur
              /\ c.inputs = b.inputs /\ c.uploads = ups
BY DEF Builder

LEMMA PutInputs ==
    ASSUME NEW b \in Builder, NEW ins \in Seq(Nat)
    PROVE  LET c == [b EXCEPT !.inputs = ins]
           IN /\ c \in Builder /\ c.nodes = b.nodes /\ c.next = b.next /\ c.cur = b.cur
              /\ c.inputs = ins /\ c.uploads = b.uploads
BY DEF Builder

\* What a counter has not given out is written by no node.
LEMMA NextUnwritten ==
    ASSUME NEW f, Len(f) \in Nat, NEW b, Sound(b, f), NEW r \in Nat, b.next <= r
    PROVE  r \notin Written(b)
<1> SUFFICES ASSUME NEW m \in DOMAIN b.nodes, r \in Output(b.nodes[m])  PROVE FALSE
    BY DEF Written
<1>1. r < b.next /\ b.next \in Nat
    BY DEF Sound, Builder
<1> QED  BY <1>1

LEMMA ThenSound ==
    ASSUME NEW f, Len(f) \in Nat, NEW b, Sound(b, f),
           NEW does \in Doings \ {"sdrToRgb", "hdrToRgb"}, NEW param \in Nat
    PROVE  LET c == Then(b, does, param)
           IN /\ Sound(c, f) /\ Grows(b.nodes, c.nodes) /\ Standing(c)
              /\ Len(c.nodes) = Len(b.nodes) + 1 /\ Len(b.nodes) \in Nat
              /\ c.nodes[Len(c.nodes)].does = does
              /\ c.nodes[Len(c.nodes)].from = <<b.cur>>
              /\ c.nodes[Len(c.nodes)].param = param
              /\ c.inputs = b.inputs /\ c.uploads = b.uploads
              /\ b.next <= c.next
<1> DEFINE c == Then(b, does, param)
           node == Node(does, <<b.cur>>, <<b.next>>, {}, param)
<1>1. b \in Builder /\ b.cur \in Nat /\ b.next \in Nat
    BY DEF Sound, Builder
<1>2. /\ node \in NodeType /\ node.does = does /\ node.from = <<b.cur>> /\ node.param = param
      /\ node.reads = {b.cur} /\ Output(node) = {b.next} /\ node.imports = {}
    <2> DEFINE from == <<b.cur>>
               to == <<b.next>>
    <2>1. /\ from \in Seq(Nat) /\ to \in Seq(Nat)
          /\ ToSet(from) = {b.cur} /\ ToSet(to) = {b.next}
        BY <1>1, ShortSets
    <2>2. {} \in SUBSET Nat /\ param \in Nat \cup Sources /\ does \in Doings
        OBVIOUS
    <2> HIDE DEF from, to
    <2>3. LET made == Node(does, from, to, {}, param)
          IN /\ made \in NodeType /\ made.does = does /\ made.from = from /\ made.param = param
             /\ made.reads = ToSet(from) /\ Output(made) = ToSet(to)
             /\ made.imports = {}
        BY <2>1, <2>2, NodeIs
    <2> QED  BY <2>1, <2>3 DEF from, to
<1> HIDE DEF node
<1>3. /\ c.nodes = Append(b.nodes, node) /\ c.next = b.next + 1 /\ c.cur = b.next
      /\ c.inputs = b.inputs /\ c.uploads = b.uploads /\ c \in Builder
    <2>1. c = [[b EXCEPT !.nodes = Append(@, node)] EXCEPT !.cur = b.next, !.next = @ + 1]
        BY DEF Then, Add, node
    <2>2. b.nodes \in Seq(NodeType) /\ Append(b.nodes, node) \in Seq(NodeType)
        BY <1>1, <1>2, AppendProperties DEF Builder
    <2> DEFINE a == [b EXCEPT !.nodes = Append(@, node)]
               d == [a EXCEPT !.cur = b.next]
    <2>3. /\ a \in Builder /\ a.nodes = Append(b.nodes, node) /\ a.next = b.next
          /\ a.inputs = b.inputs /\ a.uploads = b.uploads
        BY <1>1, <2>2, PutNodes
    <2>4. c = [d EXCEPT !.next = a.next + 1]
        BY <2>1, <2>3
    <2> HIDE DEF c, a
    <2>5. /\ d \in Builder /\ d.nodes = a.nodes /\ d.next = a.next /\ d.cur = b.next
          /\ d.inputs = a.inputs /\ d.uploads = a.uploads
        BY <1>1, <2>3, PutCur
    <2> HIDE DEF d
    <2>6. a.next + 1 \in Nat
        BY <1>1, <2>3
    <2>7. /\ c \in Builder /\ c.nodes = d.nodes /\ c.next = a.next + 1 /\ c.cur = d.cur
          /\ c.inputs = d.inputs /\ c.uploads = d.uploads
        BY <2>4, <2>5, <2>6, PutNext
    <2> QED  BY <2>3, <2>5, <2>7
<1> HIDE DEF c
<1>4. Sensible(node, f)
    BY <1>1, <1>2 DEF Sensible
<1>5. b.next \notin Written(b)
    BY <1>1, NextUnwritten
<1>6. CounterStart(Len(f)) <= b.next
    BY DEF Sound
<1>7. /\ Sound(c, f) /\ Grows(b.nodes, c.nodes)
      /\ Len(c.nodes) = Len(b.nodes) + 1 /\ Len(b.nodes) \in Nat
      /\ c.nodes[Len(c.nodes)] = node
    <2>1. ASSUME NEW r \in Output(node)
          PROVE  CounterStart(Len(f)) <= r /\ r < c.next /\ r \notin Written(b)
        BY <1>1, <1>2, <1>3, <1>5, <1>6, <2>1
    <2>2. b.next <= c.next
        BY <1>1, <1>3
    <2>3. Added(b, node, c, f)
        BY <1>2, <1>3, <1>4, <2>1, <2>2 DEF Added
    <2> QED  BY <2>3, AddSound
<1>8. Standing(c)
    BY <1>2, <1>3, <1>7 DEF Standing
<1>9. b.next <= c.next
    BY <1>1, <1>3
<1> QED  BY <1>2, <1>3, <1>7, <1>8, <1>9 DEF c

-----------------------------------------------------------------------------
(* Effects *)

EffectAt(clip, k) == clip.effects[EffectOf(Passes[k])]

\* What holds at the start of a chain and is kept by each of its steps holds at
\* its end.
LEMMA SixSteps ==
    ASSUME NEW Q, 0 \in Q, \A k \in 1..6 : k - 1 \in Q => k \in Q
    PROVE  \A k \in 0..6 : k \in Q
<1>1. 1 \in Q
    OBVIOUS
<1>2. 2 \in Q
    BY <1>1
<1>3. 3 \in Q
    BY <1>2
<1>4. 4 \in Q
    BY <1>3
<1>5. 5 \in Q
    BY <1>4
<1>6. 6 \in Q
    BY <1>5
<1>7. \A k \in 0..6 : k = 0 \/ k = 1 \/ k = 2 \/ k = 3 \/ k = 4 \/ k = 5 \/ k = 6
    OBVIOUS
<1> QED  BY <1>1, <1>2, <1>3, <1>4, <1>5, <1>6, <1>7

\* The chain of effects is six steps, each a pass or nothing.
IsChain(h, b, clip, least, f) ==
    /\ h \in [0..6 -> {c \in Builder : Sound(c, f)}]
    /\ h[0] = b
    /\ \A k \in 1..6 : h[k] = IF EffectAt(clip, k) >= least
                              THEN Then(h[k - 1], Passes[k], EffectAt(clip, k))
                              ELSE h[k - 1]
    /\ EffectChain(b, clip, least) = h[6]

LEMMA EffectRun ==
    ASSUME NEW f, Len(f) \in Nat, NEW b, Sound(b, f), NEW clip, IsClip(clip), NEW least \in Nat
    PROVE  \E h : IsChain(h, b, clip, least, f)
<1> DEFINE X == {c \in Builder : Sound(c, f)}
           Step(c, p) == IF clip.effects[EffectOf(p)] >= least
                         THEN Then(c, p, clip.effects[EffectOf(p)]) ELSE c
           Body(F) == [S \in SUBSET (1..6) |->
                        IF S = {} THEN b ELSE Step(F[S \ {Max(S)}], Passes[Max(S)])]
           g == [x \in X \X (1..6) |-> Step(x[1], Passes[x[2]])]
           fold == CHOOSE F : F = Body(F)
<1>1. EffectChain(b, clip, least) = fold[1..6]
    BY SixPasses DEF EffectChain, FoldLeft, MapThenFoldSet
<1>2. b \in X
    BY DEF Sound
<1>3. ASSUME NEW c \in X, NEW k \in 1..6  PROVE Step(c, Passes[k]) \in X
    <2>1. CASE EffectAt(clip, k) >= least
        <3>1. Passes[k] \in Doings \ {"sdrToRgb", "hdrToRgb"} /\ EffectAt(clip, k) \in Nat
            BY SixPasses DEF IsClip, EffectAt
        <3>2. Sound(Then(c, Passes[k], EffectAt(clip, k)), f)
            BY <3>1, ThenSound
        <3> QED  BY <2>1, <3>2 DEF EffectAt, Sound
    <2>2. CASE ~(EffectAt(clip, k) >= least)
        BY <2>2 DEF EffectAt
    <2> QED  BY <2>1, <2>2
<1> HIDE DEF X, Step
<1>4. g \in [X \X (1..6) -> X]
    BY <1>3
<1>5. PICK G \in [SUBSET (1..6) -> X] : IsFold(G, b, 6, g)
    <2> HIDE DEF g
    <2> QED  BY <1>2, <1>4, FoldExists
<1>6. ASSUME NEW S \in SUBSET (1..6), S # {}
      PROVE  Max(S) \in 1..6 /\ S \ {Max(S)} \in SUBSET (1..6)
    BY <1>6, LastExists
<1>7. G = Body(G)
    <2>1. ASSUME NEW S \in SUBSET (1..6)  PROVE G[S] = Body(G)[S]
        <3>1. CASE S = {}
            BY <1>5, <3>1 DEF IsFold
        <3>2. CASE S # {}
            <4>1. /\ Max(S) \in 1..6 /\ G[S \ {Max(S)}] \in X
                  /\ G[S] = g[<<G[S \ {Max(S)}], Max(S)>>]
                BY <1>5, <1>6, <3>2 DEF IsFold
            <4> QED  BY <3>2, <4>1
        <3> QED  BY <3>1, <3>2
    <2> QED  BY <1>5, <2>1
<1>8. fold = Body(fold)
    <2> HIDE DEF Body
    <2> QED  BY <1>7, Zenon
<1> HIDE DEF fold
<1> DEFINE h == [k \in 0..6 |-> fold[1..k]]
<1>9. h[0] = b
    <2>1. 1..0 = {} /\ 0 \in 0..6
        OBVIOUS
    <2> QED  BY <1>8, <2>1
<1>10. ASSUME NEW k \in 1..6  PROVE h[k] = Step(h[k - 1], Passes[k])
    <2>1. k - 1 \in 0..6 /\ k \in 0..6 /\ 1..k # {} /\ k \in Nat
        <3>1. k \in Nat /\ k - 1 \in 0..6 /\ k \in 0..6
            OBVIOUS
        <3>2. 1 \in 1..k
            OBVIOUS
        <3>3. 1..k # {}
            BY <3>2
        <3> QED  BY <3>1, <3>3
    <2>2. Max(1..k) = k
        <3>1. Max(1..k) \in 1..k /\ \A x \in 1..k : x <= Max(1..k)
            BY <2>1, LastExists
        <3> QED  BY <3>1, <2>1
    <2>3. (1..k) \ {k} = 1..(k - 1) /\ 1..k \in SUBSET (1..6)
        BY <2>1
    <2>4. fold[1..k] = Step(fold[1..(k - 1)], Passes[k])
        BY <1>8, <2>1, <2>2, <2>3
    <2> QED  BY <2>1, <2>4
<1>11. h[6] = fold[1..6]
    OBVIOUS
<1> HIDE DEF h
<1> DEFINE Q == {k \in 0..6 : h[k] \in X}
<1>12. 0 \in Q
    BY <1>2, <1>9
<1>13. ASSUME NEW k \in 1..6, k - 1 \in Q  PROVE k \in Q
    BY <1>3, <1>10, <1>13
<1>14. \A k \in 0..6 : k \in Q
    <2> HIDE DEF Q
    <2> QED  BY <1>12, <1>13, SixSteps
<1>15. h \in [0..6 -> X]
    BY <1>14 DEF h
<1> QED  BY <1>1, <1>9, <1>10, <1>11, <1>15 DEF IsChain, X, Step, EffectAt

LEMMA EffectSound ==
    ASSUME NEW f, Len(f) \in Nat, NEW b, Sound(b, f), NEW clip, IsClip(clip), NEW least \in Nat
    PROVE  LET c == EffectChain(b, clip, least)
           IN /\ Sound(c, f) /\ Grows(b.nodes, c.nodes)
              /\ c.inputs = b.inputs /\ c.uploads = b.uploads
              /\ Standing(b) => Standing(c)
<1>1. PICK h : IsChain(h, b, clip, least, f)
    BY EffectRun
<1> DEFINE Q == {k \in 0..6 : /\ Sound(h[k], f) /\ Grows(b.nodes, h[k].nodes)
                              /\ h[k].inputs = b.inputs /\ h[k].uploads = b.uploads
                              /\ Standing(b) => Standing(h[k])}
<1>2. b.nodes \in Seq(NodeType)
    BY DEF Sound, Builder
<1>3. 0 \in Q
    <2>1. h[0] = b
        BY <1>1 DEF IsChain
    <2>2. Grows(b.nodes, b.nodes)
        BY <1>2, LenProperties DEF Grows
    <2> QED  BY <2>1, <2>2
<1>4. ASSUME NEW k \in 1..6, k - 1 \in Q  PROVE k \in Q
    <2> DEFINE c == h[k - 1]
    <2>1. /\ Sound(c, f) /\ Grows(b.nodes, c.nodes)
          /\ c.inputs = b.inputs /\ c.uploads = b.uploads
          /\ Standing(b) => Standing(c)
        BY <1>4
    <2>2. h[k] = IF EffectAt(clip, k) >= least THEN Then(c, Passes[k], EffectAt(clip, k)) ELSE c
        BY <1>1 DEF IsChain
    <2> HIDE DEF c
    <2>3. CASE EffectAt(clip, k) >= least
        <3> DEFINE d == Then(c, Passes[k], EffectAt(clip, k))
        <3>1. Passes[k] \in Doings \ {"sdrToRgb", "hdrToRgb"} /\ EffectAt(clip, k) \in Nat
            BY SixPasses DEF IsClip, EffectAt
        <3>2. /\ Sound(d, f) /\ Grows(c.nodes, d.nodes) /\ Standing(d)
              /\ d.inputs = c.inputs /\ d.uploads = c.uploads
            BY <2>1, <3>1, ThenSound
        <3> HIDE DEF d
        <3>3. c.nodes \in Seq(NodeType) /\ d.nodes \in Seq(NodeType)
            BY <2>1, <3>2 DEF Sound, Builder
        <3>4. Grows(b.nodes, d.nodes)
            BY <1>2, <2>1, <3>2, <3>3, GrowsOn
        <3>5. h[k] = d
            BY <2>2, <2>3 DEF d
        <3> QED  BY <2>1, <3>2, <3>4, <3>5
    <2>4. CASE ~(EffectAt(clip, k) >= least)
        BY <2>1, <2>2, <2>4
    <2> QED  BY <2>3, <2>4
<1>5. 6 \in Q
    <2> HIDE DEF Q
    <2> QED  BY <1>3, <1>4, SixSteps
<1> QED  BY <1>1, <1>5 DEF IsChain

-----------------------------------------------------------------------------
(* Clips *)

\* c is b with a node, a current texture and a counter set.
Laid(b, c, node, cr, nx) ==
    /\ c \in Builder /\ c.nodes = Append(b.nodes, node) /\ c.cur = cr /\ c.next = nx
    /\ c.inputs = b.inputs /\ c.uploads = b.uploads

LEMMA AddAs ==
    ASSUME NEW b \in Builder, NEW node \in NodeType, NEW cr \in Nat, NEW nx \in Nat
    PROVE  /\ Laid(b, Add(b, node), node, b.cur, b.next)
           /\ Laid(b, [Add(b, node) EXCEPT !.cur = cr], node, cr, b.next)
           /\ Laid(b, [Add(b, node) EXCEPT !.next = nx], node, b.cur, nx)
           /\ Laid(b, [Add(b, node) EXCEPT !.cur = cr, !.next = nx], node, cr, nx)
<1> DEFINE a == Add(b, node)
           d == [a EXCEPT !.cur = cr]
<1>1. b.nodes \in Seq(NodeType) /\ Append(b.nodes, node) \in Seq(NodeType)
    BY AppendProperties DEF Builder
<1>2. /\ a \in Builder /\ a.nodes = Append(b.nodes, node) /\ a.next = b.next /\ a.cur = b.cur
      /\ a.inputs = b.inputs /\ a.uploads = b.uploads
    BY <1>1, PutNodes DEF Add
<1> HIDE DEF a
<1>3. /\ d \in Builder /\ d.nodes = a.nodes /\ d.next = a.next /\ d.cur = cr
      /\ d.inputs = a.inputs /\ d.uploads = a.uploads
    BY <1>2, PutCur
<1>4. LET e == [a EXCEPT !.next = nx]
      IN /\ e \in Builder /\ e.nodes = a.nodes /\ e.next = nx /\ e.cur = a.cur
         /\ e.inputs = a.inputs /\ e.uploads = a.uploads
    BY <1>2, PutNext
<1>5. [a EXCEPT !.cur = cr, !.next = nx] = [d EXCEPT !.next = nx]
    OBVIOUS
<1> HIDE DEF d
<1>6. LET e == [d EXCEPT !.next = nx]
      IN /\ e \in Builder /\ e.nodes = d.nodes /\ e.next = nx /\ e.cur = d.cur
         /\ e.inputs = d.inputs /\ e.uploads = d.uploads
    BY <1>3, PutNext
<1>7. Laid(b, a, node, b.cur, b.next)
    BY <1>2 DEF Laid
<1>8. Laid(b, d, node, cr, b.next)
    BY <1>2, <1>3 DEF Laid
<1>9. Laid(b, [a EXCEPT !.next = nx], node, b.cur, nx)
    BY <1>2, <1>4 DEF Laid
<1>10. Laid(b, [d EXCEPT !.next = nx], node, cr, nx)
    BY <1>2, <1>3, <1>6 DEF Laid
<1> QED  BY <1>5, <1>7, <1>8, <1>9, <1>10 DEF a, d

LEMMA LaidSound ==
    ASSUME NEW f, Len(f) \in Nat, NEW b, Sound(b, f), NEW node \in NodeType, Sensible(node, f),
           NEW c, NEW cr, NEW nx, Laid(b, c, node, cr, nx), b.next <= nx,
           \A r \in Output(node) : CounterStart(Len(f)) <= r /\ r < nx /\ r \notin Written(b)
    PROVE  /\ Sound(c, f) /\ Grows(b.nodes, c.nodes)
           /\ Len(c.nodes) = Len(b.nodes) + 1 /\ Len(b.nodes) \in Nat
           /\ c.nodes[Len(c.nodes)] = node
           /\ Written(c) = Written(b) \cup Output(node)
           /\ cr \in Output(node) => Standing(c)
<1>1. Added(b, node, c, f)
    BY DEF Added, Laid
<1>2. /\ Sound(c, f) /\ Grows(b.nodes, c.nodes)
      /\ Len(c.nodes) = Len(b.nodes) + 1 /\ Len(b.nodes) \in Nat
      /\ c.nodes[Len(c.nodes)] = node
      /\ Written(c) = Written(b) \cup Output(node)
    BY <1>1, AddSound
<1>3. cr \in Output(node) => Standing(c)
    BY <1>2 DEF Standing, Laid
<1> QED  BY <1>2, <1>3

\* A counter may skip ids.
LEMMA SkipSound ==
    ASSUME NEW f, Len(f) \in Nat, NEW b, Sound(b, f), NEW c \in Builder,
           c.nodes = b.nodes, b.next <= c.next
    PROVE  Sound(c, f) /\ Written(c) = Written(b)
<1>1. b \in Builder /\ b.next \in Nat /\ c.next \in Nat /\ CounterStart(Len(f)) \in Nat
    BY DEF Sound, Builder, CounterStart
<1>2. ASSUME NEW m \in DOMAIN b.nodes, NEW r \in Output(b.nodes[m])
      PROVE  CounterStart(Len(f)) <= r /\ r < c.next
    <2>1. b.nodes[m] \in NodeType
        <3>1. b.nodes \in Seq(NodeType)
            BY <1>1 DEF Builder
        <3> QED  BY <3>1, ElementOfSeq, LenProperties
    <2>2. r \in Nat
        BY <2>1 DEF Output, NodeType
    <2>3. CounterStart(Len(f)) <= r /\ r < b.next
        BY DEF Sound
    <2> QED  BY <1>1, <2>2, <2>3
<1>3. CounterStart(Len(f)) <= c.next
    BY <1>1 DEF Sound
<1>4. Sound(c, f)
    BY <1>2, <1>3 DEF Sound
<1> QED  BY <1>4 DEF Written

\* The last node shows a clip as it was decoded or drawn: a still or a text, or
\* the conversion of two planes, of the upload node u or of the textures NVDEC
\* left the clip in.
Depicts(nodes, i, clip, asVideo, u) ==
    LET node == nodes[Len(nodes)]
    IN /\ Len(nodes) >= 1
       /\ IF asVideo
          THEN /\ node.does = Conversion(clip) /\ node.param = 0
               /\ IF clip.interop
                  THEN u = 0 /\ node.from = InteropPlanes(i)
                  ELSE /\ u \in 1..(Len(nodes) - 1) /\ nodes[u].does = "upload"
                       /\ node.from[1] \in Output(nodes[u]) /\ node.from[2] \in Output(nodes[u])
          ELSE u = 0 /\ node.does = clip.kind /\ node.param = clip.src

\* c continues b with such nodes, for clip i of f; u is none of b's nodes.
Opens(b, c, f, i, asVideo, u) ==
    /\ Sound(c, f) /\ Grows(b.nodes, c.nodes) /\ Standing(c)
    /\ c.inputs = b.inputs /\ c.uploads = b.uploads
    /\ u \in 0..Len(c.nodes) /\ (u = 0 \/ u > Len(b.nodes))
    /\ Depicts(c.nodes, i, f[i], asVideo, u)

\* A still or a text.
LEMMA DrawnOpens ==
    ASSUME NEW f \in Frames, NEW i \in 1..Len(f), NEW b, Sound(b, f), f[i].kind \in {"still", "text"},
           NEW to \in Nat, NEW nx \in Nat, NEW c,
           Laid(b, c, Node(f[i].kind, <<>>, <<to>>, {}, f[i].src), to, nx),
           CounterStart(Len(f)) <= to, to < nx, b.next <= nx, to \notin Written(b)
    PROVE  Opens(b, c, f, i, FALSE, 0)
<1> DEFINE node == Node(f[i].kind, <<>>, <<to>>, {}, f[i].src)
           from == <<>>
           tos == <<to>>
           kind == f[i].kind
           src == f[i].src
<1>1. Len(f) \in Nat /\ IsClip(f[i])
    BY ClipsOfFrames
<1>2. /\ node \in NodeType /\ node.does = f[i].kind /\ node.param = f[i].src
      /\ Output(node) = {to} /\ node.imports = {} /\ node.from = <<>>
    <2>1. from \in Seq(Nat) /\ tos \in Seq(Nat) /\ ToSet(tos) = {to}
        BY ShortSets
    <2>2. kind \in Doings /\ src \in Nat \cup Sources /\ {} \in SUBSET Nat
        BY <1>1 DEF Doings, IsClip
    <2> HIDE DEF from, tos, kind, src
    <2>3. LET made == Node(kind, from, tos, {}, src)
          IN /\ made \in NodeType /\ made.does = kind /\ made.from = from /\ made.param = src
             /\ made.reads = ToSet(from) /\ Output(made) = ToSet(tos)
             /\ made.imports = {}
        BY <2>1, <2>2, NodeIs
    <2> QED  BY <2>1, <2>3 DEF from, tos, kind, src
<1>3. Laid(b, c, node, to, nx)
    OBVIOUS
<1> HIDE DEF node
<1>4. Sensible(node, f)
    BY <1>2 DEF Sensible
<1>5. /\ Sound(c, f) /\ Grows(b.nodes, c.nodes)
      /\ Len(c.nodes) = Len(b.nodes) + 1 /\ Len(b.nodes) \in Nat
      /\ c.nodes[Len(c.nodes)] = node
      /\ Standing(c)
    BY <1>1, <1>2, <1>3, <1>4, LaidSound
<1>6. Depicts(c.nodes, i, f[i], FALSE, 0)
    BY <1>2, <1>5 DEF Depicts
<1>7. 0 \in 0..Len(c.nodes)
    BY <1>5
<1>8. c.inputs = b.inputs /\ c.uploads = b.uploads
    BY <1>3 DEF Laid
<1> QED  BY <1>5, <1>6, <1>7, <1>8 DEF Opens

\* The planes of a video: textures, or what an upload node fills.
IsPlanes(p, b, i, f) ==
    /\ Sound(p.up, f) /\ Grows(b.nodes, p.up.nodes) /\ b.next <= p.up.next
    /\ p.up.inputs = b.inputs /\ p.up.uploads = b.uploads
    /\ \E x, y \in Nat : p.planes = <<x, y>>
    /\ \A r \in Nat : r < b.next /\ r \notin Written(b) => r \notin Written(p.up)
    /\ IF f[i].interop
       THEN p.planes = InteropPlanes(i)
       ELSE LET up == p.up.nodes[Len(p.up.nodes)]
            IN /\ Len(p.up.nodes) > Len(b.nodes) /\ up.does = "upload"
               /\ p.planes[1] \in Output(up) /\ p.planes[2] \in Output(up)

LEMMA PlanesSound ==
    ASSUME NEW f \in Frames, NEW i \in 1..Len(f), NEW b, Sound(b, f)
    PROVE  IsPlanes(Planes(b, i, f[i]), b, i, f)
<1> DEFINE p == Planes(b, i, f[i])
           clip == f[i]
<1>1. Len(f) \in Nat /\ b \in Builder /\ b.next \in Nat /\ b.nodes \in Seq(NodeType)
    BY ClipsOfFrames DEF Sound, Builder
<1>2. CASE clip.interop
    <2>1. p.up = b /\ p.planes = InteropPlanes(i)
        BY <1>2 DEF Planes
    <2>2. Grows(b.nodes, b.nodes)
        BY <1>1, LenProperties DEF Grows
    <2>3. \E x, y \in Nat : p.planes = <<x, y>>
        <3>1. 2 * i \in Nat /\ 2 * i + 1 \in Nat
            BY <1>1
        <3> QED  BY <2>1, <3>1 DEF InteropPlanes
    <2> HIDE DEF p
    <2>4. b.next <= p.up.next
        BY <1>1, <2>1
    <2> QED  BY <1>2, <2>1, <2>2, <2>3, <2>4 DEF p, IsPlanes
<1>3. CASE ~clip.interop
    <2> DEFINE from == <<>>
               tos == <<b.next, b.next + 1>>
               node == Node("upload", from, tos, {}, 0)
               up == [Add(b, node) EXCEPT !.next = b.next + 2]
    <2>1. p.planes = tos /\ p.up = [Add(b, node) EXCEPT !.next = Add(b, node).next + 2]
        BY <1>3 DEF Planes
    <2>2. Add(b, node).next = b.next
        BY <1>1 DEF Add, Builder
    <2>3. p.up = up
        BY <2>1, <2>2
    <2>4. from \in Seq(Nat) /\ tos \in Seq(Nat) /\ ToSet(tos) = {b.next, b.next + 1}
        <3>1. b.next \in Nat /\ b.next + 1 \in Nat
            BY <1>1
        <3>2. from \in Seq(Nat)
            OBVIOUS
        <3> QED  BY <3>1, <3>2, ShortSets
    <2>5. /\ node \in NodeType /\ node.does = "upload" /\ node.from = <<>>
          /\ Output(node) = {b.next, b.next + 1} /\ node.imports = {}
        <3> HIDE DEF from, tos
        <3>1. "upload" \in Doings /\ 0 \in Nat \cup Sources /\ {} \in SUBSET Nat
            BY DEF Doings
        <3>2. LET made == Node("upload", from, tos, {}, 0)
              IN /\ made \in NodeType /\ made.does = "upload" /\ made.from = from
                 /\ made.param = 0
                 /\ made.reads = ToSet(from) /\ Output(made) = ToSet(tos)
                 /\ made.imports = {}
            BY <2>4, <3>1, NodeIs
        <3> QED  BY <2>4, <3>2 DEF from
    <2> HIDE DEF node
    <2>6. Laid(b, up, node, b.cur, b.next + 2)
        <3>1. b.cur \in Nat /\ b.next + 2 \in Nat
            BY <1>1 DEF Builder
        <3> QED  BY <1>1, <2>5, <3>1, AddAs
    <2> HIDE DEF up
    <2>7. Sensible(node, f)
        BY <2>5 DEF Sensible
    <2>8. ASSUME NEW r \in Output(node)
          PROVE  CounterStart(Len(f)) <= r /\ r < b.next + 2 /\ r \notin Written(b)
        <3>1. r \in Nat /\ b.next <= r /\ r < b.next + 2
            BY <1>1, <2>5, <2>8
        <3>2. r \notin Written(b)
            BY <1>1, <3>1, NextUnwritten
        <3>3. CounterStart(Len(f)) <= b.next /\ CounterStart(Len(f)) \in Nat
            BY <1>1 DEF Sound, CounterStart
        <3> QED  BY <1>1, <3>1, <3>2, <3>3
    <2>9. b.next <= b.next + 2
        BY <1>1
    <2>10. /\ Sound(up, f) /\ Grows(b.nodes, up.nodes)
           /\ Len(up.nodes) = Len(b.nodes) + 1 /\ Len(b.nodes) \in Nat
           /\ up.nodes[Len(up.nodes)] = node
           /\ Written(up) = Written(b) \cup Output(node)
        BY <1>1, <2>5, <2>6, <2>7, <2>8, <2>9, LaidSound
    <2>11. up.inputs = b.inputs /\ up.uploads = b.uploads /\ up.next = b.next + 2
        BY <2>6 DEF Laid
    <2>12. ASSUME NEW r \in Nat, r < b.next, r \notin Written(b)  PROVE r \notin Written(up)
        BY <1>1, <2>5, <2>10, <2>12
    <2>13. \E x, y \in Nat : tos = <<x, y>>
        <3>1. b.next \in Nat /\ b.next + 1 \in Nat
            BY <1>1
        <3> QED  BY <3>1
    <2>14. tos[1] \in Output(node) /\ tos[2] \in Output(node)
        BY <2>5
    <2> HIDE DEF p, tos
    <2>15. b.next <= up.next /\ Len(up.nodes) > Len(b.nodes)
        BY <2>9, <2>10, <2>11
    <2> QED  BY <1>3, <2>1, <2>3, <2>5, <2>10, <2>11, <2>12, <2>13, <2>14, <2>15 DEF p, IsPlanes
<1> QED  BY <1>2, <1>3

\* A video.
LEMMA VideoOpens ==
    ASSUME NEW f \in Frames, NEW i \in 1..Len(f), NEW b, Sound(b, f), NEW p,
           p = Planes(b, i, f[i]),
           NEW q \in Builder, q.nodes = p.up.nodes, p.up.next <= q.next,
           q.inputs = b.inputs, q.uploads = b.uploads,
           NEW to \in Nat, CounterStart(Len(f)) <= to, to < q.next, to \notin Written(p.up)
    PROVE  Opens(b, Convert(q, f[i], p.planes, to), f, i, TRUE, UploadNode(p.up, f[i]))
<1> DEFINE does == Conversion(f[i])
           tos == <<to>>
           imports == IF f[i].interop THEN ToSet(p.planes) ELSE {}
           node == Node(does, p.planes, tos, imports, 0)
           r == Convert(q, f[i], p.planes, to)
           u == UploadNode(p.up, f[i])
           L == Len(p.up.nodes)
<1>1. Len(f) \in Nat /\ DOMAIN f = 1..Len(f) /\ IsClip(f[i])
    BY ClipsOfFrames
<1>2. /\ Sound(p.up, f) /\ Grows(b.nodes, p.up.nodes)
      /\ \E x, y \in Nat : p.planes = <<x, y>>
      /\ IF f[i].interop
         THEN p.planes = InteropPlanes(i)
         ELSE LET up == p.up.nodes[L]
              IN /\ L > Len(b.nodes) /\ up.does = "upload"
                 /\ p.planes[1] \in Output(up) /\ p.planes[2] \in Output(up)
    <2>1. IsPlanes(p, b, i, f)
        BY PlanesSound
    <2> QED  BY <2>1 DEF IsPlanes
<1>3. PICK x, y \in Nat : p.planes = <<x, y>>
    BY <1>2
<1>4. ToSet(p.planes) = {x, y} /\ p.planes \in Seq(Nat) /\ Len(p.planes) = 2
      /\ p.planes[1] = x /\ p.planes[2] = y
    <2>1. ToSet(<<x, y>>) = {x, y} /\ <<x, y>> \in Seq(Nat)
        BY ShortSets
    <2>2. Len(<<x, y>>) = 2 /\ <<x, y>>[1] = x /\ <<x, y>>[2] = y
        OBVIOUS
    <2> QED  BY <1>3, <2>1, <2>2
<1>5. does \in {"sdrToRgb", "hdrToRgb"}
    BY DEF Conversion
<1>6. imports \in SUBSET Nat
    BY <1>4
<1>7. /\ node \in NodeType /\ node.does = does /\ node.from = p.planes /\ node.param = 0
      /\ node.reads = {x, y} /\ Output(node) = {to} /\ node.imports = imports
    <2>1. tos \in Seq(Nat) /\ ToSet(tos) = {to}
        BY ShortSets
    <2>2. does \in Doings /\ 0 \in Nat \cup Sources
        BY <1>5 DEF Doings
    <2> HIDE DEF tos, imports, does
    <2>3. LET made == Node(does, p.planes, tos, imports, 0)
          IN /\ made \in NodeType /\ made.does = does /\ made.from = p.planes /\ made.param = 0
             /\ made.reads = ToSet(p.planes) /\ Output(made) = ToSet(tos)
             /\ made.imports = imports
        BY <1>4, <1>6, <2>1, <2>2, NodeIs
    <2> QED  BY <1>4, <2>1, <2>3
<1>8. r = [Add(q, node) EXCEPT !.cur = to]
    BY DEF Convert
<1>9. imports \subseteq {x, y} \cap Textures(f)
    <2>1. CASE f[i].interop
        <3>1. ToSet(InteropPlanes(i)) \subseteq Textures(f)
            BY <1>1, <2>1 DEF Textures
        <3> QED  BY <1>2, <1>4, <2>1, <3>1
    <2>2. CASE ~f[i].interop
        BY <2>2
    <2> QED  BY <2>1, <2>2
<1> HIDE DEF node, does, imports, r
<1>10. Sensible(node, f)
    <2>1. \A k \in 1..2 : p.planes[k] \in {x, y}
        BY <1>4
    <2> QED  BY <1>4, <1>7, <1>9, <2>1 DEF Sensible
<1>11. Laid(q, r, node, to, q.next)
    <2>1. q.next \in Nat
        BY DEF Builder
    <2> QED  BY <1>7, <1>8, <2>1, AddAs
<1>12. Sound(q, f) /\ Written(q) = Written(p.up)
    BY <1>1, <1>2, SkipSound
<1>13. /\ Sound(r, f) /\ Grows(q.nodes, r.nodes)
       /\ Len(r.nodes) = Len(q.nodes) + 1 /\ Len(q.nodes) \in Nat
       /\ r.nodes[Len(r.nodes)] = node
       /\ Standing(r)
    <2>1. q.next <= q.next
        BY DEF Builder
    <2> QED  BY <1>1, <1>7, <1>10, <1>11, <1>12, <2>1, LaidSound
<1>14. b.nodes \in Seq(NodeType) /\ p.up.nodes \in Seq(NodeType) /\ r.nodes \in Seq(NodeType)
    BY <1>2, <1>13 DEF Sound, Builder
<1>15. Grows(b.nodes, r.nodes)
    BY <1>2, <1>13, <1>14, GrowsOn
<1>16. r.inputs = b.inputs /\ r.uploads = b.uploads
    BY <1>11 DEF Laid
<1>17. Len(r.nodes) = L + 1 /\ L \in Nat /\ Len(b.nodes) \in Nat
    BY <1>13, <1>14, LenProperties
<1>18. CASE f[i].interop
    <2>1. u = 0
        BY <1>18 DEF UploadNode
    <2>2. Depicts(r.nodes, i, f[i], TRUE, 0)
        BY <1>2, <1>7, <1>13, <1>17, <1>18 DEF Depicts, does
    <2>3. 0 \in 0..Len(r.nodes)
        BY <1>17
    <2> HIDE DEF u
    <2>4. Opens(b, r, f, i, TRUE, u)
        BY <1>13, <1>15, <1>16, <2>1, <2>2, <2>3 DEF Opens
    <2> QED  BY <2>4 DEF r, u
<1>19. CASE ~f[i].interop
    <2>1. u = L
        BY <1>19 DEF UploadNode
    <2>2. L > Len(b.nodes) /\ L \in 1..(Len(r.nodes) - 1) /\ L \in 0..Len(r.nodes)
        BY <1>2, <1>17, <1>19
    <2>3. r.nodes[L] = p.up.nodes[L]
        <3>1. Len(q.nodes) = L
            OBVIOUS
        <3>2. L \in 1..Len(q.nodes)
            BY <1>17, <2>2, <3>1
        <3> QED  BY <1>13, <3>2 DEF Grows
    <2>4. Depicts(r.nodes, i, f[i], TRUE, L)
        BY <1>2, <1>7, <1>13, <1>17, <1>19, <2>2, <2>3 DEF Depicts, does
    <2> HIDE DEF u, L
    <2>5. Opens(b, r, f, i, TRUE, u)
        BY <1>13, <1>15, <1>16, <2>1, <2>2, <2>4 DEF Opens
    <2> QED  BY <2>5 DEF r, u
<1> QED  BY <1>18, <1>19

\* Clips of which there is no picture; those a builder takes for video, those
\* it maps to its colours, and from which value on it takes an effect.
Lost(clip) == clip.kind = "still" /\ clip.src \in Missing
AsVideo(clip, who) == IF who = "export" THEN clip.kind # "still" ELSE clip.kind = "video"
Maps(clip, who) ==
    (who = "export" /\ MapsStills) \/ (AsVideo(clip, who) /\ clip.colour = "hdr")
Least(who) == IF who = "export" THEN 1 ELSE 2

Mapped(r, clip, who) == IF Maps(clip, who) THEN Then(r, "tone", 0) ELSE r
Finished(r, clip, who, u) == Pushed(EffectChain(Mapped(r, clip, who), clip, Least(who)), u)

\* What either builder does with clip i.
Clipped(b, c, f, i, who) ==
    IF Lost(f[i])
    THEN /\ Sound(c, f) /\ c.nodes = b.nodes
         /\ c.inputs = b.inputs /\ c.uploads = Append(b.uploads, 0)
    ELSE \E r, u : /\ Opens(b, r, f, i, AsVideo(f[i], who), u)
                   /\ c = Finished(r, f[i], who, u)

LEMMA PreviewClipped ==
    ASSUME NEW f \in Frames, NEW i \in 1..Len(f), NEW b, Sound(b, f)
    PROVE  Clipped(b, PreviewClip(b, i, f[i]), f, i, "preview")
<1> DEFINE clip == f[i]
           c == PreviewClip(b, i, clip)
<1>1. Len(f) \in Nat /\ IsClip(clip) /\ b \in Builder /\ b.next \in Nat
    BY ClipsOfFrames DEF Sound, Builder
<1>2. CounterStart(Len(f)) \in Nat /\ CounterStart(Len(f)) <= b.next
    BY <1>1 DEF Sound, CounterStart
<1>3. CASE Lost(clip)
    <2>1. c = [b EXCEPT !.uploads = Append(b.uploads, 0)]
        BY <1>3 DEF PreviewClip, Lost
    <2> HIDE DEF c
    <2>2. Append(b.uploads, 0) \in Seq(Nat)
        BY <1>1, AppendProperties DEF Builder
    <2>3. /\ c \in Builder /\ c.nodes = b.nodes /\ c.next = b.next
          /\ c.inputs = b.inputs /\ c.uploads = Append(b.uploads, 0)
        BY <1>1, <2>1, <2>2, PutUploads
    <2>4. b.next <= c.next
        BY <1>1, <2>3
    <2>5. Sound(c, f)
        BY <1>1, <2>3, <2>4, SkipSound
    <2> QED  BY <1>3, <2>3, <2>5 DEF Clipped, c
<1>4. CASE ~Lost(clip) /\ clip.kind # "video"
    <2> DEFINE node == Node(clip.kind, <<>>, <<b.next>>, {}, clip.src)
               r == [Add(b, node) EXCEPT !.cur = b.next, !.next = @ + 1]
    <2>1. c = Pushed(EffectChain(r, clip, 2), 0)
        BY <1>4 DEF PreviewClip, Lost
    <2>2. r = [Add(b, node) EXCEPT !.cur = b.next, !.next = b.next + 1]
        <3>1. Add(b, node).next = b.next
            BY <1>1 DEF Add, Builder
        <3> QED  BY <3>1
    <2>3. clip.kind \in {"still", "text"}
        BY <1>1, <1>4 DEF IsClip
    <2>4. node \in NodeType
        <3> DEFINE from == <<>>
                   tos == <<b.next>>
                   kind == clip.kind
                   src == clip.src
        <3>1. from \in Seq(Nat) /\ tos \in Seq(Nat)
            BY <1>1, ShortSets
        <3>2. kind \in Doings /\ src \in Nat \cup Sources /\ {} \in SUBSET Nat
            BY <1>1, <2>3 DEF Doings, IsClip
        <3> HIDE DEF from, tos, kind, src
        <3>3. Node(kind, from, tos, {}, src) \in NodeType
            BY <3>1, <3>2, NodeIs
        <3> QED  BY <3>3 DEF from, tos, kind, src
    <2>5. Laid(b, r, node, b.next, b.next + 1)
        <3> DEFINE nx == b.next + 1
                   cr == b.next
        <3>1. nx \in Nat /\ cr \in Nat
            BY <1>1
        <3> HIDE DEF node, nx, cr
        <3>2. Laid(b, [Add(b, node) EXCEPT !.cur = cr, !.next = nx], node, cr, nx)
            BY <1>1, <2>4, <3>1, AddAs
        <3> QED  BY <2>2, <3>2 DEF nx, cr
    <2>6. b.next < b.next + 1 /\ b.next <= b.next + 1 /\ b.next + 1 \in Nat
        BY <1>1
    <2>7. b.next \notin Written(b)
        BY <1>1, NextUnwritten
    <2> HIDE DEF r
    <2>8. Opens(b, r, f, i, FALSE, 0)
        BY <1>1, <1>2, <2>3, <2>5, <2>6, <2>7, DrawnOpens
    <2>9. ~AsVideo(clip, "preview") /\ ~Maps(clip, "preview") /\ Least("preview") = 2
        BY <1>4 DEF AsVideo, Maps, Least
    <2>10. AsVideo(clip, "preview") = FALSE
        BY <2>9 DEF AsVideo
    <2>11. c = Finished(r, clip, "preview", 0)
        BY <2>1, <2>9 DEF Finished, Mapped
    <2> HIDE DEF c
    <2>12. Opens(b, r, f, i, AsVideo(clip, "preview"), 0)
        BY <2>8, <2>10
    <2>13. Clipped(b, c, f, i, "preview")
        BY <1>4, <2>11, <2>12 DEF Clipped
    <2> QED  BY <2>13 DEF c
<1>5. CASE ~Lost(clip) /\ clip.kind = "video"
    <2> DEFINE p == Planes(b, i, clip)
               q == [p.up EXCEPT !.next = @ + 1]
               r == Convert(q, clip, p.planes, p.up.next)
               u == UploadNode(p.up, clip)
    <2>1. c = Pushed(EffectChain(IF clip.colour = "hdr" THEN Then(r, "tone", 0) ELSE r, clip, 2), u)
        BY <1>5 DEF PreviewClip, Lost
    <2>2. IsPlanes(p, b, i, f)
        BY PlanesSound
    <2> HIDE DEF p
    <2>3. p.up \in Builder /\ p.up.next \in Nat /\ Sound(p.up, f) /\ b.next <= p.up.next
          /\ p.up.inputs = b.inputs /\ p.up.uploads = b.uploads
        BY <2>2 DEF IsPlanes, Sound, Builder
    <2>4. /\ q \in Builder /\ q.nodes = p.up.nodes /\ q.next = p.up.next + 1
          /\ q.inputs = b.inputs /\ q.uploads = b.uploads
        <3> DEFINE nx == p.up.next + 1
        <3>1. nx \in Nat
            BY <2>3
        <3>2. q = [p.up EXCEPT !.next = nx]
            OBVIOUS
        <3> HIDE DEF nx
        <3>3. LET d == [p.up EXCEPT !.next = nx]
              IN /\ d \in Builder /\ d.nodes = p.up.nodes /\ d.next = nx /\ d.cur = p.up.cur
                 /\ d.inputs = p.up.inputs /\ d.uploads = p.up.uploads
            BY <2>3, <3>1, PutNext
        <3> QED  BY <2>3, <3>2, <3>3 DEF nx
    <2> HIDE DEF q
    <2>5. /\ p.up.next <= q.next /\ p.up.next < q.next
          /\ CounterStart(Len(f)) <= p.up.next /\ p.up.next \notin Written(p.up)
        <3>1. p.up.next \notin Written(p.up)
            BY <1>1, <2>3, NextUnwritten
        <3> QED  BY <1>1, <1>2, <2>3, <2>4, <3>1
    <2>6. Opens(b, r, f, i, TRUE, u)
        BY <2>3, <2>4, <2>5, VideoOpens DEF p
    <2> HIDE DEF r, u
    <2>7. /\ AsVideo(clip, "preview") = TRUE /\ Least("preview") = 2
          /\ Maps(clip, "preview") <=> clip.colour = "hdr"
        BY <1>5 DEF AsVideo, Maps, Least
    <2>8. c = Finished(r, clip, "preview", u)
        BY <2>1, <2>7 DEF Finished, Mapped
    <2> HIDE DEF c
    <2>9. Opens(b, r, f, i, AsVideo(clip, "preview"), u)
        BY <2>6, <2>7
    <2>10. Clipped(b, c, f, i, "preview")
        BY <1>5, <2>8, <2>9 DEF Clipped
    <2> QED  BY <2>10 DEF c
<1> QED  BY <1>3, <1>4, <1>5

LEMMA ExportClipped ==
    ASSUME NEW f \in Frames, NEW i \in 1..Len(f), NEW b, Sound(b, f)
    PROVE  Clipped(b, ExportClip(b, i, f[i]), f, i, "export")
<1> DEFINE clip == f[i]
           c == ExportClip(b, i, clip)
           d == [b EXCEPT !.next = @ + 1]
           rgba == b.next
<1>1. Len(f) \in Nat /\ IsClip(clip) /\ b \in Builder /\ b.next \in Nat
    BY ClipsOfFrames DEF Sound, Builder
<1>2. CounterStart(Len(f)) \in Nat /\ CounterStart(Len(f)) <= rgba
    BY <1>1 DEF Sound, CounterStart
<1>3. /\ d \in Builder /\ d.nodes = b.nodes /\ d.next = b.next + 1
      /\ d.inputs = b.inputs /\ d.uploads = b.uploads
    <2> DEFINE nx == b.next + 1
    <2>1. nx \in Nat
        BY <1>1
    <2>2. d = [b EXCEPT !.next = nx]
        OBVIOUS
    <2> HIDE DEF nx
    <2>3. LET e == [b EXCEPT !.next = nx]
          IN /\ e \in Builder /\ e.nodes = b.nodes /\ e.next = nx /\ e.cur = b.cur
             /\ e.inputs = b.inputs /\ e.uploads = b.uploads
        BY <1>1, <2>1, PutNext
    <2> QED  BY <2>2, <2>3 DEF nx
<1>4. b.next <= d.next /\ rgba < d.next /\ rgba \in Nat
    BY <1>1, <1>3
<1> HIDE DEF d
<1>5. Sound(d, f) /\ Written(d) = Written(b)
    BY <1>1, <1>3, <1>4, SkipSound
<1>6. rgba \notin Written(d)
    BY <1>1, <1>5, NextUnwritten
<1> HIDE DEF rgba
<1>7. /\ c = IF clip.kind # "still"
             THEN LET p == Planes(d, i, clip)
                      rgb == Convert(p.up, clip, p.planes, rgba)
                  IN Pushed(EffectChain(IF MapsStills \/ clip.colour = "hdr"
                                        THEN Then(rgb, "tone", 0) ELSE rgb, clip, 1),
                            UploadNode(p.up, clip))
             ELSE IF clip.src \in Missing THEN [d EXCEPT !.uploads = Append(@, 0)]
             ELSE LET still == [Add(d, Node("still", <<>>, <<rgba>>, {}, clip.src)) EXCEPT !.cur = rgba]
                  IN Pushed(EffectChain(IF MapsStills THEN Then(still, "tone", 0) ELSE still,
                                        clip, 1), 0)
    BY DEF ExportClip, d, rgba
<1> HIDE DEF c
<1>8. CASE Lost(clip)
    <2>1. c = [d EXCEPT !.uploads = Append(d.uploads, 0)]
        BY <1>7, <1>8 DEF Lost
    <2>2. Append(d.uploads, 0) \in Seq(Nat)
        BY <1>3, AppendProperties DEF Builder
    <2>3. /\ c \in Builder /\ c.nodes = d.nodes /\ c.next = d.next
          /\ c.inputs = d.inputs /\ c.uploads = Append(d.uploads, 0)
        BY <1>3, <2>1, <2>2, PutUploads
    <2>4. d.next <= c.next
        BY <1>3, <2>3 DEF Builder
    <2>5. Sound(c, f)
        BY <1>1, <1>5, <2>3, <2>4, SkipSound
    <2>6. Clipped(b, c, f, i, "export")
        BY <1>3, <1>8, <2>3, <2>5 DEF Clipped
    <2> QED  BY <2>6 DEF c
<1>9. CASE ~Lost(clip) /\ clip.kind = "still"
    <2> DEFINE node == Node(clip.kind, <<>>, <<rgba>>, {}, clip.src)
               r == [Add(d, node) EXCEPT !.cur = rgba]
    <2>1. c = Pushed(EffectChain(IF MapsStills THEN Then(r, "tone", 0) ELSE r, clip, 1), 0)
        BY <1>7, <1>9 DEF Lost
    <2>2. clip.kind \in {"still", "text"}
        BY <1>9
    <2>3. node \in NodeType
        <3> DEFINE from == <<>>
                   tos == <<rgba>>
                   kind == clip.kind
                   src == clip.src
        <3>1. from \in Seq(Nat) /\ tos \in Seq(Nat)
            BY <1>4, ShortSets
        <3>2. kind \in Doings /\ src \in Nat \cup Sources /\ {} \in SUBSET Nat
            BY <1>1, <2>2 DEF Doings, IsClip
        <3> HIDE DEF from, tos, kind, src
        <3>3. Node(kind, from, tos, {}, src) \in NodeType
            BY <3>1, <3>2, NodeIs
        <3> QED  BY <3>3 DEF from, tos, kind, src
    <2>4. Laid(d, r, node, rgba, d.next)
        <3>1. d.next \in Nat
            BY <1>3 DEF Builder
        <3> HIDE DEF node
        <3> QED  BY <1>3, <1>4, <2>3, <3>1, AddAs
    <2>5. d.next \in Nat /\ d.next <= d.next
        BY <1>1, <1>3
    <2> HIDE DEF r
    <2>6. Opens(d, r, f, i, FALSE, 0)
        BY <1>2, <1>4, <1>5, <1>6, <2>2, <2>4, <2>5, DrawnOpens
    <2>7. /\ AsVideo(clip, "export") = FALSE /\ Least("export") = 1
          /\ Maps(clip, "export") <=> MapsStills
        BY <1>9 DEF AsVideo, Maps, Least
    <2>8. c = Finished(r, clip, "export", 0)
        BY <2>1, <2>7 DEF Finished, Mapped
    <2>9. Opens(b, r, f, i, AsVideo(clip, "export"), 0)
        BY <1>3, <2>6, <2>7 DEF Opens
    <2>10. Clipped(b, c, f, i, "export")
        BY <1>9, <2>8, <2>9 DEF Clipped
    <2> QED  BY <2>10 DEF c
<1>10. CASE clip.kind # "still"
    <2> DEFINE p == Planes(d, i, clip)
               r == Convert(p.up, clip, p.planes, rgba)
               u == UploadNode(p.up, clip)
    <2>1. c = Pushed(EffectChain(IF MapsStills \/ clip.colour = "hdr"
                                 THEN Then(r, "tone", 0) ELSE r, clip, 1), u)
        BY <1>7, <1>10
    <2>2. IsPlanes(p, d, i, f)
        BY <1>5, PlanesSound
    <2> HIDE DEF p
    <2>3. p.up \in Builder /\ p.up.next \in Nat /\ Sound(p.up, f) /\ d.next <= p.up.next
          /\ p.up.inputs = d.inputs /\ p.up.uploads = d.uploads
        BY <2>2 DEF IsPlanes, Sound, Builder
    <2>4. /\ p.up.next <= p.up.next /\ rgba < p.up.next /\ rgba \notin Written(p.up)
        <3>1. rgba \notin Written(p.up)
            BY <1>4, <1>6, <2>2 DEF IsPlanes
        <3>2. d.next \in Nat
            BY <1>3 DEF Builder
        <3> QED  BY <1>4, <2>3, <3>1, <3>2
    <2>5. Opens(d, r, f, i, TRUE, u)
        BY <1>2, <1>4, <1>5, <2>3, <2>4, VideoOpens DEF p
    <2> HIDE DEF r, u
    <2>6. /\ AsVideo(clip, "export") = TRUE /\ Least("export") = 1 /\ ~Lost(clip)
          /\ Maps(clip, "export") <=> (MapsStills \/ clip.colour = "hdr")
        BY <1>10 DEF AsVideo, Maps, Least, Lost
    <2>7. c = Finished(r, clip, "export", u)
        BY <2>1, <2>6 DEF Finished, Mapped
    <2>8. Opens(b, r, f, i, AsVideo(clip, "export"), u)
        BY <1>3, <2>5, <2>6 DEF Opens
    <2>9. Clipped(b, c, f, i, "export")
        BY <2>6, <2>7, <2>8 DEF Clipped
    <2> QED  BY <2>9 DEF c
<1>11. clip.kind = "still" \/ clip.kind # "still"
    OBVIOUS
<1> QED  BY <1>8, <1>9, <1>10, <1>11 DEF Lost

LEMMA MappedSound ==
    ASSUME NEW f, Len(f) \in Nat, NEW r, Sound(r, f), Standing(r), NEW clip, NEW who
    PROVE  LET m == Mapped(r, clip, who)
           IN /\ Sound(m, f) /\ Grows(r.nodes, m.nodes) /\ Standing(m)
              /\ m.inputs = r.inputs /\ m.uploads = r.uploads
<1>1. CASE Maps(clip, who)
    <2>1. "tone" \in Doings \ {"sdrToRgb", "hdrToRgb"} /\ 0 \in Nat
        BY DEF Doings
    <2>2. LET c == Then(r, "tone", 0)
          IN /\ Sound(c, f) /\ Grows(r.nodes, c.nodes) /\ Standing(c)
             /\ c.inputs = r.inputs /\ c.uploads = r.uploads
        BY <2>1, ThenSound
    <2> QED  BY <1>1, <2>2 DEF Mapped
<1>2. CASE ~Maps(clip, who)
    <2>1. r.nodes \in Seq(NodeType)
        BY DEF Sound, Builder
    <2>2. Grows(r.nodes, r.nodes)
        BY <2>1, LenProperties DEF Grows
    <2> QED  BY <1>2, <2>2 DEF Mapped
<1> QED  BY <1>1, <1>2

\* A clip's nodes are finished with its effects (e), and its texture and its
\* upload node are noted.
IsFinished(r, e, c, f, u) ==
    /\ Sound(e, f) /\ Sound(c, f) /\ Grows(r.nodes, c.nodes)
    /\ c.nodes = e.nodes /\ c.cur = e.cur /\ Standing(c)
    /\ c.inputs = Append(r.inputs, c.cur) /\ c.uploads = Append(r.uploads, u)

LEMMA FinishedSound ==
    ASSUME NEW f \in Frames, NEW i \in 1..Len(f), NEW r, Sound(r, f), Standing(r),
           NEW who, NEW u \in Nat
    PROVE  IsFinished(r, EffectChain(Mapped(r, f[i], who), f[i], Least(who)),
                      Finished(r, f[i], who, u), f, u)
<1> DEFINE m == Mapped(r, f[i], who)
           e == EffectChain(m, f[i], Least(who))
           c == Finished(r, f[i], who, u)
           d == [e EXCEPT !.inputs = Append(e.inputs, e.cur)]
<1>1. Len(f) \in Nat /\ IsClip(f[i]) /\ Least(who) \in Nat
    BY ClipsOfFrames DEF Least
<1>2. /\ Sound(m, f) /\ Grows(r.nodes, m.nodes) /\ Standing(m)
      /\ m.inputs = r.inputs /\ m.uploads = r.uploads
    BY <1>1, MappedSound
<1> HIDE DEF m
<1>3. /\ Sound(e, f) /\ Grows(m.nodes, e.nodes) /\ Standing(e)
      /\ e.inputs = r.inputs /\ e.uploads = r.uploads
    BY <1>1, <1>2, EffectSound
<1>4. c = [d EXCEPT !.uploads = Append(e.uploads, u)]
    BY DEF Finished, Pushed, m
<1> HIDE DEF e
<1>5. /\ e \in Builder /\ Append(e.inputs, e.cur) \in Seq(Nat)
      /\ Append(e.uploads, u) \in Seq(Nat) /\ e.next \in Nat
    <2>1. e \in Builder
        BY <1>3 DEF Sound
    <2>2. e.inputs \in Seq(Nat) /\ e.uploads \in Seq(Nat) /\ e.cur \in Nat /\ e.next \in Nat
        BY <2>1 DEF Builder
    <2> QED  BY <2>1, <2>2, AppendProperties
<1>6. /\ d \in Builder /\ d.nodes = e.nodes /\ d.next = e.next /\ d.cur = e.cur
      /\ d.inputs = Append(e.inputs, e.cur) /\ d.uploads = e.uploads
    BY <1>5, PutInputs
<1> HIDE DEF d, c
<1>7. /\ c \in Builder /\ c.nodes = d.nodes /\ c.next = d.next /\ c.cur = d.cur
      /\ c.inputs = d.inputs /\ c.uploads = Append(e.uploads, u)
    BY <1>4, <1>5, <1>6, PutUploads
<1>8. Sound(c, f)
    <2>1. e.next <= c.next /\ c.nodes = e.nodes
        BY <1>5, <1>6, <1>7
    <2> QED  BY <1>1, <1>3, <1>7, <2>1, SkipSound
<1>9. Grows(r.nodes, c.nodes)
    <2>1. r.nodes \in Seq(NodeType) /\ m.nodes \in Seq(NodeType) /\ e.nodes \in Seq(NodeType)
        BY <1>2, <1>3 DEF Sound, Builder
    <2>2. Grows(r.nodes, e.nodes)
        BY <1>2, <1>3, <2>1, GrowsOn
    <2> QED  BY <2>2, <1>6, <1>7
<1>10. Standing(c)
    BY <1>3, <1>6, <1>7 DEF Standing
<1>11. IsFinished(r, e, c, f, u)
    BY <1>3, <1>6, <1>7, <1>8, <1>9, <1>10 DEF IsFinished
<1> QED  BY <1>11 DEF c, e, m

\* What either builder's clip adds: nodes, a texture unless the clip is lost,
\* and an upload node, one of its own or none.
Extends(b, c, f, i) ==
    /\ Sound(c, f) /\ Grows(b.nodes, c.nodes)
    /\ \E u \in 0..Len(c.nodes) :
         (u = 0 \/ u > Len(b.nodes)) /\ c.uploads = Append(b.uploads, u)
    /\ IF Lost(f[i]) THEN c.inputs = b.inputs
       ELSE c.inputs = Append(b.inputs, c.cur) /\ Standing(c)

LEMMA ClippedExtends ==
    ASSUME NEW f \in Frames, NEW i \in 1..Len(f), NEW b, Sound(b, f), NEW c, NEW who,
           Clipped(b, c, f, i, who)
    PROVE  Extends(b, c, f, i)
<1>1. b.nodes \in Seq(NodeType) /\ Len(b.nodes) \in Nat
    BY LenProperties DEF Sound, Builder
<1>2. CASE Lost(f[i])
    <2>1. Sound(c, f) /\ c.nodes = b.nodes /\ c.inputs = b.inputs /\ c.uploads = Append(b.uploads, 0)
        BY <1>2 DEF Clipped
    <2>2. Grows(b.nodes, b.nodes) /\ 0 \in 0..Len(b.nodes)
        BY <1>1 DEF Grows
    <2> QED  BY <1>2, <2>1, <2>2 DEF Extends
<1>3. CASE ~Lost(f[i])
    <2>1. PICK r, u : Opens(b, r, f, i, AsVideo(f[i], who), u) /\ c = Finished(r, f[i], who, u)
        BY <1>3 DEF Clipped
    <2>2. /\ Sound(r, f) /\ Grows(b.nodes, r.nodes) /\ Standing(r)
          /\ r.inputs = b.inputs /\ r.uploads = b.uploads
          /\ u \in 0..Len(r.nodes) /\ (u = 0 \/ u > Len(b.nodes))
        BY <2>1 DEF Opens
    <2>3. r.nodes \in Seq(NodeType) /\ Len(r.nodes) \in Nat
        BY <2>2, LenProperties DEF Sound, Builder
    <2>4. u \in Nat
        BY <2>2, <2>3
    <2>5. /\ Sound(c, f) /\ Grows(r.nodes, c.nodes) /\ Standing(c)
          /\ c.inputs = Append(r.inputs, c.cur) /\ c.uploads = Append(r.uploads, u)
        <3>1. IsFinished(r, EffectChain(Mapped(r, f[i], who), f[i], Least(who)),
                         Finished(r, f[i], who, u), f, u)
            BY <2>2, <2>4, FinishedSound
        <3> QED  BY <2>1, <3>1 DEF IsFinished
    <2>6. c.nodes \in Seq(NodeType) /\ Len(c.nodes) \in Nat
        BY <2>5, LenProperties DEF Sound, Builder
    <2>7. Grows(b.nodes, c.nodes)
        BY <1>1, <2>2, <2>3, <2>5, <2>6, GrowsOn
    <2>8. u \in 0..Len(c.nodes)
        BY <2>2, <2>3, <2>5, <2>6 DEF Grows
    <2> QED  BY <1>3, <2>2, <2>5, <2>7, <2>8 DEF Extends
<1> QED  BY <1>2, <1>3

-----------------------------------------------------------------------------
(* Runs *)

\* What holds at the start and is kept by each of n steps holds at the end.
LEMMA Steps ==
    ASSUME NEW n \in Nat, NEW Q, 0 \in Q, \A k \in 1..n : k - 1 \in Q => k \in Q
    PROVE  \A k \in 0..n : k \in Q
<1> DEFINE bad == {k \in 0..n : k \notin Q}
<1> SUFFICES ASSUME bad # {}  PROVE FALSE
    OBVIOUS
<1>1. PICK k \in bad : \A j \in bad : k <= j
    <2>1. bad \in SUBSET Nat
        OBVIOUS
    <2> HIDE DEF bad
    <2> QED  BY <2>1, FirstExists
<1>2. k \in 0..n /\ k \notin Q /\ k # 0
    OBVIOUS
<1>3. k \in 1..n /\ k - 1 \in 0..n /\ ~(k <= k - 1)
    BY <1>2
<1>4. k - 1 \notin bad
    <2> HIDE DEF bad
    <2> QED  BY <1>1, <1>3
<1>5. k - 1 \in Q
    BY <1>3, <1>4
<1> QED  BY <1>2, <1>3, <1>5

\* The values of a fold over the first k elements are a run, as long as the
\* fold takes the step g wherever it is in X.
Folds(fold, X, base, n, g) ==
    /\ fold[{}] = base
    /\ \A S \in SUBSET (1..n) :
         S # {} /\ fold[S \ {Max(S)}] \in X => fold[S] = g[<<fold[S \ {Max(S)}], Max(S)>>]

FoldRuns(fold, X, base, n, g) ==
    \E h \in [0..n -> X] : IsRun(h, base, n, g) /\ h[n] = fold[1..n]

LEMMA RunOfFold ==
    ASSUME NEW X, NEW base \in X, NEW n \in Nat, NEW g \in [X \X (1..n) -> X], NEW fold,
           Folds(fold, X, base, n, g)
    PROVE  FoldRuns(fold, X, base, n, g)
<1> DEFINE h == [k \in 0..n |-> fold[1..k]]
           Q == {k \in 0..n : h[k] \in X}
<1>1. h[0] = base
    <2>1. 1..0 = {} /\ 0 \in 0..n
        OBVIOUS
    <2> QED  BY <2>1 DEF Folds
<1>2. ASSUME NEW k \in 1..n, h[k - 1] \in X  PROVE h[k] = g[<<h[k - 1], k>>]
    <2>1. k - 1 \in 0..n /\ k \in 0..n /\ k \in Nat
        OBVIOUS
    <2>2. k \in 1..k
        OBVIOUS
    <2>3. Max(1..k) = k
        <3>1. 1..k \in SUBSET (1..k) /\ 1..k # {}
            BY <2>2
        <3>2. Max(1..k) \in 1..k /\ \A x \in 1..k : x <= Max(1..k)
            BY <2>1, <3>1, LastExists
        <3> QED  BY <2>1, <2>2, <3>2
    <2>4. (1..k) \ {k} = 1..(k - 1) /\ 1..k \in SUBSET (1..n) /\ 1..k # {}
        <3>1. (1..k) \ {k} = 1..(k - 1)
            BY <2>1
        <3>2. 1..k \in SUBSET (1..n)
            OBVIOUS
        <3>3. 1..k # {}
            BY <2>2
        <3> QED  BY <3>1, <3>2, <3>3
    <2>5. h[k - 1] = fold[1..(k - 1)] /\ h[k] = fold[1..k]
        BY <2>1
    <2> HIDE DEF h
    <2> QED  BY <1>2, <2>3, <2>4, <2>5 DEF Folds
<1>3. h[n] = fold[1..n]
    OBVIOUS
<1> HIDE DEF h
<1>4. 0 \in Q
    BY <1>1
<1>5. ASSUME NEW k \in 1..n, k - 1 \in Q  PROVE k \in Q
    <2>1. <<h[k - 1], k>> \in X \X (1..n)
        BY <1>5
    <2>2. h[k] = g[<<h[k - 1], k>>]
        BY <1>2, <1>5
    <2> QED  BY <2>1, <2>2
<1>6. \A k \in 0..n : k \in Q
    <2> HIDE DEF Q
    <2> QED  BY <1>4, <1>5, Steps
<1>7. h \in [0..n -> X]
    BY <1>6 DEF h
<1>8. \A k \in 1..n : h[k] = g[<<h[k - 1], k>>]
    <2>1. ASSUME NEW k \in 1..n  PROVE k - 1 \in 0..n
        OBVIOUS
    <2> QED  BY <1>2, <1>6, <2>1
<1>9. IsRun(h, base, n, g)
    BY <1>1, <1>8 DEF IsRun
<1> QED  BY <1>3, <1>7, <1>9 DEF FoldRuns

-----------------------------------------------------------------------------
(* The graph of a frame *)

ClipBy(b, i, clip, who) ==
    IF who = "export" THEN ExportClip(b, i, clip) ELSE PreviewClip(b, i, clip)

Empty(f) == [nodes |-> <<>>, next |-> CounterStart(Len(f)), cur |-> 0,
             inputs |-> <<>>, uploads |-> <<>>]

\* The clips of a frame are built one after the other.
IsBuild(h, f, who) ==
    /\ h \in [0..Len(f) -> {c \in Builder : Sound(c, f)}]
    /\ h[0] = Empty(f)
    /\ \A k \in 1..Len(f) : h[k] = ClipBy(h[k - 1], k, f[k], who)

Composite(ins) ==
    [Node("composite", Append(ins, FinalColor), <<FinalColor>>, {}, 0) EXCEPT !.from = ins]

BuiltBy(f, who) == IF who = "export" THEN Built(f, ExportClip) ELSE Built(f, PreviewClip)

LEMMA ClipBySound ==
    ASSUME NEW f \in Frames, NEW i \in 1..Len(f), NEW b, Sound(b, f),
           NEW who \in {"preview", "export"}
    PROVE  /\ Clipped(b, ClipBy(b, i, f[i], who), f, i, who)
           /\ Extends(b, ClipBy(b, i, f[i], who), f, i)
<1>1. Clipped(b, ClipBy(b, i, f[i], who), f, i, who)
    <2>1. CASE who = "preview"
        BY <2>1, PreviewClipped DEF ClipBy
    <2>2. CASE who = "export"
        BY <2>2, ExportClipped DEF ClipBy
    <2> QED  BY <2>1, <2>2
<1>2. Extends(b, ClipBy(b, i, f[i], who), f, i)
    BY <1>1, ClippedExtends
<1> QED  BY <1>1, <1>2

LEMMA EmptySound ==
    ASSUME NEW f \in Frames  PROVE Sound(Empty(f), f)
<1>1. Len(f) \in Nat /\ CounterStart(Len(f)) \in Nat
    BY ClipsOfFrames DEF CounterStart
<1> DEFINE next == CounterStart(Len(f))
           none == <<>>
<1>2. none \in Seq(NodeType) /\ none \in Seq(Nat) /\ DOMAIN none = {}
    OBVIOUS
<1>3. Empty(f) = [nodes |-> none, next |-> next, cur |-> 0, inputs |-> none, uploads |-> none]
    BY DEF Empty
<1>4. Empty(f) \in Builder
    <2> HIDE DEF none, next
    <2>1. next \in Nat
        BY <1>1 DEF next
    <2> QED  BY <1>2, <1>3, <2>1 DEF Builder
<1>5. Empty(f).nodes = none /\ Empty(f).next = next
    BY <1>3
<1>6. next <= next
    BY <1>1
<1> HIDE DEF none, next
<1> QED  BY <1>2, <1>4, <1>5, <1>6 DEF Sound, next

\* The step of the fold as a function.
IsStep(X, g, f, who) ==
    /\ X = {c \in Builder : Sound(c, f)} /\ Empty(f) \in X
    /\ g \in [X \X (1..Len(f)) -> X]
    /\ \A c \in X, k \in 1..Len(f) : g[<<c, k>>] = ClipBy(c, k, f[k], who)

LEMMA BuildSteps ==
    ASSUME NEW f \in Frames, NEW who \in {"preview", "export"}
    PROVE  \E X, g : IsStep(X, g, f, who)
<1> DEFINE X == {c \in Builder : Sound(c, f)}
           g == [x \in X \X (1..Len(f)) |-> ClipBy(x[1], x[2], f[x[2]], who)]
<1>1. Empty(f) \in X
    BY EmptySound DEF Sound
<1>2. ASSUME NEW c \in X, NEW k \in 1..Len(f)  PROVE ClipBy(c, k, f[k], who) \in X
    <2>1. Extends(c, ClipBy(c, k, f[k], who), f, k)
        BY ClipBySound
    <2>2. Sound(ClipBy(c, k, f[k], who), f)
        BY <2>1 DEF Extends
    <2> QED  BY <2>2 DEF Sound
<1>3. g \in [X \X (1..Len(f)) -> X]
    <2> HIDE DEF X
    <2> QED  BY <1>2
<1>4. \A c \in X, k \in 1..Len(f) : g[<<c, k>>] = ClipBy(c, k, f[k], who)
    <2> HIDE DEF X
    <2> QED  OBVIOUS
<1>5. X = {c \in Builder : Sound(c, f)}
    OBVIOUS
<1> HIDE DEF X, g
<1>6. IsStep(X, g, f, who)
    BY <1>1, <1>3, <1>4, <1>5 DEF IsStep
<1> QED  BY <1>6

\* Any function that the fold's recursion fits is a build.
IsBuildFold(fold, f, who) ==
    \A S \in SUBSET (1..Len(f)) :
        fold[S] = IF S = {} THEN Empty(f)
                  ELSE ClipBy(fold[S \ {Max(S)}], Max(S), f[Max(S)], who)

LEMMA BuildOfFold ==
    ASSUME NEW f \in Frames, NEW who \in {"preview", "export"}, NEW fold, IsBuildFold(fold, f, who)
    PROVE  \E h : IsBuild(h, f, who) /\ h[Len(f)] = fold[1..Len(f)]
<1>0. PICK X, g : IsStep(X, g, f, who)
    BY BuildSteps
<1>1. /\ X = {c \in Builder : Sound(c, f)} /\ Empty(f) \in X
      /\ g \in [X \X (1..Len(f)) -> X]
      /\ \A c \in X, k \in 1..Len(f) : g[<<c, k>>] = ClipBy(c, k, f[k], who)
    BY <1>0 DEF IsStep
<1>2. Len(f) \in Nat
    BY ClipsOfFrames
<1>3. fold[{}] = Empty(f)
    BY DEF IsBuildFold
<1>4. ASSUME NEW S \in SUBSET (1..Len(f)), S # {}, fold[S \ {Max(S)}] \in X
      PROVE  fold[S] = g[<<fold[S \ {Max(S)}], Max(S)>>]
    <2>1. Max(S) \in 1..Len(f)
        BY <1>2, <1>4, LastExists
    <2> QED  BY <1>1, <1>4, <2>1 DEF IsBuildFold
<1>5. PICK h \in [0..Len(f) -> X] : IsRun(h, Empty(f), Len(f), g) /\ h[Len(f)] = fold[1..Len(f)]
    <2> DEFINE n == Len(f)
               base == Empty(f)
    <2>1. n \in Nat /\ base \in X /\ g \in [X \X (1..n) -> X]
        BY <1>1, <1>2
    <2>2. Folds(fold, X, base, n, g)
        BY <1>3, <1>4 DEF Folds
    <2> HIDE DEF n, base
    <2>3. FoldRuns(fold, X, base, n, g)
        BY <2>1, <2>2, RunOfFold
    <2> QED  BY <2>3 DEF n, base, FoldRuns
<1>6. ASSUME NEW k \in 1..Len(f)  PROVE h[k] = ClipBy(h[k - 1], k, f[k], who)
    <2>1. k - 1 \in 0..Len(f)
        BY <1>2
    <2>2. h[k - 1] \in X
        BY <1>5, <2>1
    <2> QED  BY <1>1, <1>5, <2>2 DEF IsRun
<1>7. IsBuild(h, f, who)
    BY <1>1, <1>5, <1>6 DEF IsBuild, IsRun
<1> QED  BY <1>5, <1>7

LEMMA BuildFoldExists ==
    ASSUME NEW f \in Frames, NEW who \in {"preview", "export"}
    PROVE  \E G : IsBuildFold(G, f, who) /\ G = [S \in SUBSET (1..Len(f)) |-> G[S]]
<1>0. PICK X, g : IsStep(X, g, f, who)
    BY BuildSteps
<1>1. /\ X = {c \in Builder : Sound(c, f)} /\ Empty(f) \in X
      /\ g \in [X \X (1..Len(f)) -> X]
      /\ \A c \in X, k \in 1..Len(f) : g[<<c, k>>] = ClipBy(c, k, f[k], who)
    BY <1>0 DEF IsStep
<1>2. Len(f) \in Nat
    BY ClipsOfFrames
<1>3. PICK G \in [SUBSET (1..Len(f)) -> X] : IsFold(G, Empty(f), Len(f), g)
    BY <1>1, <1>2, FoldExists
<1>4. ASSUME NEW S \in SUBSET (1..Len(f))
      PROVE  G[S] = IF S = {} THEN Empty(f) ELSE ClipBy(G[S \ {Max(S)}], Max(S), f[Max(S)], who)
    <2>1. CASE S = {}
        BY <1>3, <2>1 DEF IsFold
    <2>2. CASE S # {}
        <3>1. Max(S) \in 1..Len(f)
            BY <1>2, <2>2, LastExists
        <3>2. G[S \ {Max(S)}] \in X
            BY <1>3
        <3>3. G[S] = g[<<G[S \ {Max(S)}], Max(S)>>]
            BY <1>3, <2>2 DEF IsFold
        <3> QED  BY <1>1, <2>2, <3>1, <3>2, <3>3
    <2> QED  BY <2>1, <2>2
<1>5. IsBuildFold(G, f, who)
    BY <1>4 DEF IsBuildFold
<1> QED  BY <1>3, <1>5

LEMMA BuiltRun ==
    ASSUME NEW f \in Frames, NEW who \in {"preview", "export"}
    PROVE  \E h : IsBuild(h, f, who) /\ BuiltBy(f, who) = Add(h[Len(f)], Composite(h[Len(f)].inputs))
<1> DEFINE n == Len(f)
           idx == [i \in DOMAIN f |-> i]
<1>1. n \in Nat /\ DOMAIN f = 1..n /\ DOMAIN idx = 1..n /\ \A i \in 1..n : idx[i] = i
    BY ClipsOfFrames
<1>2. PICK G : IsBuildFold(G, f, who) /\ G = [S \in SUBSET (1..n) |-> G[S]]
    BY BuildFoldExists
<1>3. ASSUME NEW S \in SUBSET (1..n), S # {}  PROVE idx[Max(S)] = Max(S)
    BY <1>1, <1>3, LastExists
<1>4. CASE who = "export"
    <2> DEFINE Body(F) == [S \in SUBSET (DOMAIN idx) |->
                             IF S = {} THEN Empty(f)
                             ELSE ExportClip(F[S \ {Max(S)}], idx[Max(S)], f[idx[Max(S)]])]
               fold == CHOOSE F : F = Body(F)
    <2>1. Built(f, ExportClip) = Add(fold[DOMAIN idx], Composite(fold[DOMAIN idx].inputs))
        BY DEF Built, FoldLeft, MapThenFoldSet, Empty, Composite
    <2> HIDE DEF idx
    <2>2. ASSUME NEW F, NEW S \in SUBSET (1..n)
          PROVE  Body(F)[S] = IF S = {} THEN Empty(f)
                              ELSE ClipBy(F[S \ {Max(S)}], Max(S), f[Max(S)], who)
        BY <1>1, <1>3, <1>4 DEF ClipBy
    <2>3. G = Body(G)
        <3>1. \A S \in SUBSET (1..n) : G[S] = Body(G)[S]
            BY <1>2, <2>2 DEF IsBuildFold
        <3>2. Body(G) = [S \in SUBSET (1..n) |-> Body(G)[S]]
            BY <1>1
        <3> HIDE DEF Body
        <3> QED  BY <1>2, <3>1, <3>2
    <2>4. fold = Body(fold)
        <3> HIDE DEF Body
        <3> QED  BY <2>3, Zenon
    <2> HIDE DEF fold
    <2>5. IsBuildFold(fold, f, who)
        <3>1. \A S \in SUBSET (1..n) :
                 fold[S] = IF S = {} THEN Empty(f)
                           ELSE ClipBy(fold[S \ {Max(S)}], Max(S), f[Max(S)], who)
            <4> HIDE DEF Body
            <4> QED  BY <2>2, <2>4
        <3> QED  BY <3>1 DEF IsBuildFold
    <2>6. PICK h : IsBuild(h, f, who) /\ h[n] = fold[1..n]
        BY <2>5, BuildOfFold
    <2>7. BuiltBy(f, who) = Add(h[n], Composite(h[n].inputs))
        BY <1>1, <1>4, <2>1, <2>6 DEF BuiltBy
    <2> QED  BY <2>6, <2>7
<1>5. CASE who = "preview"
    <2> DEFINE Body(F) == [S \in SUBSET (DOMAIN idx) |->
                             IF S = {} THEN Empty(f)
                             ELSE PreviewClip(F[S \ {Max(S)}], idx[Max(S)], f[idx[Max(S)]])]
               fold == CHOOSE F : F = Body(F)
    <2>1. Built(f, PreviewClip) = Add(fold[DOMAIN idx], Composite(fold[DOMAIN idx].inputs))
        BY DEF Built, FoldLeft, MapThenFoldSet, Empty, Composite
    <2> HIDE DEF idx
    <2>2. ASSUME NEW F, NEW S \in SUBSET (1..n)
          PROVE  Body(F)[S] = IF S = {} THEN Empty(f)
                              ELSE ClipBy(F[S \ {Max(S)}], Max(S), f[Max(S)], who)
        BY <1>1, <1>3, <1>5 DEF ClipBy
    <2>3. G = Body(G)
        <3>1. \A S \in SUBSET (1..n) : G[S] = Body(G)[S]
            BY <1>2, <2>2 DEF IsBuildFold
        <3>2. Body(G) = [S \in SUBSET (1..n) |-> Body(G)[S]]
            BY <1>1
        <3> HIDE DEF Body
        <3> QED  BY <1>2, <3>1, <3>2
    <2>4. fold = Body(fold)
        <3> HIDE DEF Body
        <3> QED  BY <2>3, Zenon
    <2> HIDE DEF fold
    <2>5. IsBuildFold(fold, f, who)
        <3>1. \A S \in SUBSET (1..n) :
                 fold[S] = IF S = {} THEN Empty(f)
                           ELSE ClipBy(fold[S \ {Max(S)}], Max(S), f[Max(S)], who)
            <4> HIDE DEF Body
            <4> QED  BY <2>2, <2>4
        <3> QED  BY <3>1 DEF IsBuildFold
    <2>6. PICK h : IsBuild(h, f, who) /\ h[n] = fold[1..n]
        BY <2>5, BuildOfFold
    <2>7. BuiltBy(f, who) = Add(h[n], Composite(h[n].inputs))
        BY <1>1, <1>5, <2>1, <2>6 DEF BuiltBy
    <2> QED  BY <2>6, <2>7
<1> QED  BY <1>4, <1>5

\* A builder that continues another keeps what it had.
Continues(b, c) ==
    Grows(b.nodes, c.nodes) /\ Grows(b.inputs, c.inputs) /\ Grows(b.uploads, c.uploads)

LEMMA BuilderSeqs ==
    ASSUME NEW f, NEW b, Sound(b, f)
    PROVE  /\ b.nodes \in Seq(NodeType) /\ Len(b.nodes) \in Nat /\ DOMAIN b.nodes = 1..Len(b.nodes)
           /\ b.inputs \in Seq(Nat) /\ Len(b.inputs) \in Nat /\ DOMAIN b.inputs = 1..Len(b.inputs)
           /\ b.uploads \in Seq(Nat) /\ Len(b.uploads) \in Nat
           /\ DOMAIN b.uploads = 1..Len(b.uploads)
           /\ b.cur \in Nat /\ b.next \in Nat
<1>1. /\ b.nodes \in Seq(NodeType) /\ b.inputs \in Seq(Nat) /\ b.uploads \in Seq(Nat)
      /\ b.cur \in Nat /\ b.next \in Nat
    BY DEF Sound, Builder
<1> QED  BY <1>1, LenProperties

LEMMA ExtendsContinues ==
    ASSUME NEW f \in Frames, NEW i \in 1..Len(f), NEW b, Sound(b, f), NEW c, Extends(b, c, f, i)
    PROVE  /\ Continues(b, c) /\ Len(c.uploads) = Len(b.uploads) + 1
           /\ \E u \in 0..Len(c.nodes) :
                (u = 0 \/ u > Len(b.nodes)) /\ c.uploads[Len(b.uploads) + 1] = u
           /\ Lost(f[i]) => Len(c.inputs) = Len(b.inputs)
           /\ ~Lost(f[i]) => /\ Len(c.inputs) = Len(b.inputs) + 1 /\ Standing(c)
                             /\ c.inputs[Len(b.inputs) + 1] = c.cur
<1>1. Sound(c, f) /\ Grows(b.nodes, c.nodes)
    BY DEF Extends
<1>2. /\ b.inputs \in Seq(Nat) /\ Len(b.inputs) \in Nat /\ b.uploads \in Seq(Nat)
      /\ c.cur \in Nat /\ Len(c.nodes) \in Nat
    BY <1>1, BuilderSeqs
<1>3. PICK u \in 0..Len(c.nodes) : (u = 0 \/ u > Len(b.nodes)) /\ c.uploads = Append(b.uploads, u)
    BY DEF Extends
<1>4. u \in Nat
    BY <1>2
<1>5. /\ Grows(b.uploads, c.uploads) /\ Len(c.uploads) = Len(b.uploads) + 1
      /\ c.uploads[Len(b.uploads) + 1] = u
    BY <1>2, <1>3, <1>4, GrowsByOne
<1>6. CASE Lost(f[i])
    <2>1. c.inputs = b.inputs
        BY <1>6 DEF Extends
    <2>2. Grows(b.inputs, c.inputs)
        BY <1>2, <2>1 DEF Grows
    <2>3. Continues(b, c)
        BY <1>1, <1>5, <2>2 DEF Continues
    <2> QED  BY <1>3, <1>5, <1>6, <2>1, <2>3
<1>7. CASE ~Lost(f[i])
    <2>1. c.inputs = Append(b.inputs, c.cur) /\ Standing(c)
        BY <1>7 DEF Extends
    <2>2. /\ Grows(b.inputs, c.inputs) /\ Len(c.inputs) = Len(b.inputs) + 1
          /\ c.inputs[Len(b.inputs) + 1] = c.cur
        BY <1>2, <2>1, GrowsByOne
    <2>3. Continues(b, c)
        BY <1>1, <1>5, <2>2 DEF Continues
    <2> QED  BY <1>3, <1>5, <1>7, <2>1, <2>2, <2>3
<1> QED  BY <1>6, <1>7

LEMMA ContinuesOn ==
    ASSUME NEW f, NEW a, Sound(a, f), NEW b, Sound(b, f), NEW c, Sound(c, f),
           Continues(a, b), Continues(b, c)
    PROVE  Continues(a, c)
<1>1. /\ a.nodes \in Seq(NodeType) /\ b.nodes \in Seq(NodeType) /\ c.nodes \in Seq(NodeType)
      /\ a.inputs \in Seq(Nat) /\ b.inputs \in Seq(Nat) /\ c.inputs \in Seq(Nat)
      /\ a.uploads \in Seq(Nat) /\ b.uploads \in Seq(Nat) /\ c.uploads \in Seq(Nat)
    BY BuilderSeqs
<1>2. Grows(a.nodes, c.nodes)
    BY <1>1, GrowsOn DEF Continues
<1>3. Grows(a.inputs, c.inputs)
    BY <1>1, GrowsOn DEF Continues
<1>4. Grows(a.uploads, c.uploads)
    BY <1>1, GrowsOn DEF Continues
<1> QED  BY <1>2, <1>3, <1>4 DEF Continues

LEMMA ContinuesItself ==
    ASSUME NEW f, NEW b, Sound(b, f)  PROVE Continues(b, b)
BY BuilderSeqs DEF Continues, Grows

\* A step of a build.
LEMMA BuildStep ==
    ASSUME NEW f \in Frames, NEW who \in {"preview", "export"}, NEW h, IsBuild(h, f, who),
           NEW k \in 1..Len(f)
    PROVE  /\ k - 1 \in 0..Len(f) /\ k \in 0..Len(f)
           /\ Sound(h[k - 1], f) /\ Sound(h[k], f)
           /\ Clipped(h[k - 1], h[k], f, k, who) /\ Extends(h[k - 1], h[k], f, k)
<1>1. Len(f) \in Nat
    BY ClipsOfFrames
<1>2. k - 1 \in 0..Len(f) /\ k \in 0..Len(f)
    BY <1>1
<1>3. Sound(h[k - 1], f) /\ Sound(h[k], f) /\ h[k] = ClipBy(h[k - 1], k, f[k], who)
    BY <1>2 DEF IsBuild
<1> QED  BY <1>2, <1>3, ClipBySound

LEMMA BuildContinues ==
    ASSUME NEW f \in Frames, NEW who \in {"preview", "export"}, NEW h, IsBuild(h, f, who),
           NEW j \in 0..Len(f), NEW k \in 0..Len(f), j <= k
    PROVE  Continues(h[j], h[k])
<1> DEFINE n == Len(f)
           Q == {m \in 0..n : j <= m => Continues(h[j], h[m])}
<1>1. n \in Nat
    BY ClipsOfFrames
<1>2. \A m \in 0..n : Sound(h[m], f)
    BY DEF IsBuild
<1>3. 0 \in Q
    <2>1. j <= 0 => j = 0
        BY <1>1
    <2>2. Continues(h[0], h[0]) /\ 0 \in 0..n
        BY <1>1, <1>2, ContinuesItself
    <2> QED  BY <2>1, <2>2
<1>4. ASSUME NEW m \in 1..n, m - 1 \in Q  PROVE m \in Q
    <2> SUFFICES ASSUME j <= m  PROVE Continues(h[j], h[m])
        BY <1>1
    <2>1. m - 1 \in 0..n /\ Sound(h[m - 1], f) /\ Sound(h[m], f) /\ Extends(h[m - 1], h[m], f, m)
        BY BuildStep
    <2>2. CASE j = m
        BY <2>1, <2>2, ContinuesItself
    <2>3. CASE j # m
        <3>1. j <= m - 1
            BY <1>1, <2>3
        <3>2. Continues(h[j], h[m - 1]) /\ Sound(h[j], f)
            BY <1>2, <1>4, <3>1
        <3>3. Continues(h[m - 1], h[m])
            BY <2>1, ExtendsContinues
        <3> QED  BY <2>1, <3>2, <3>3, ContinuesOn
    <2> QED  BY <2>2, <2>3
<1>5. \A m \in 0..n : m \in Q
    <2> HIDE DEF Q
    <2> QED  BY <1>1, <1>3, <1>4, Steps
<1> QED  BY <1>5

LEMMA BuildUploads ==
    ASSUME NEW f \in Frames, NEW who \in {"preview", "export"}, NEW h, IsBuild(h, f, who)
    PROVE  \A k \in 0..Len(f) : Len(h[k].uploads) = k
<1> DEFINE n == Len(f)
           Q == {m \in 0..n : Len(h[m].uploads) = m}
<1>1. n \in Nat
    BY ClipsOfFrames
<1>2. 0 \in Q
    BY <1>1 DEF IsBuild, Empty
<1>3. ASSUME NEW m \in 1..n, m - 1 \in Q  PROVE m \in Q
    <2>1. Sound(h[m - 1], f) /\ Extends(h[m - 1], h[m], f, m) /\ m \in 0..n
        BY BuildStep
    <2>2. Len(h[m].uploads) = Len(h[m - 1].uploads) + 1
        BY <2>1, ExtendsContinues
    <2>3. Len(h[m - 1].uploads) = m - 1
        BY <1>3
    <2> QED  BY <1>1, <2>1, <2>2, <2>3
<1>4. \A m \in 0..n : m \in Q
    <2> HIDE DEF Q
    <2> QED  BY <1>1, <1>2, <1>3, Steps
<1> QED  BY <1>4

\* The upload node of a clip is one of the nodes it added.
LEMMA UploadAmong ==
    ASSUME NEW f \in Frames, NEW who \in {"preview", "export"}, NEW h, IsBuild(h, f, who),
           NEW i \in 1..Len(f)
    PROVE  /\ h[Len(f)].uploads[i] = h[i].uploads[i]
           /\ h[i].uploads[i] \in 0..Len(h[i].nodes)
           /\ h[i].uploads[i] = 0 \/ h[i].uploads[i] > Len(h[i - 1].nodes)
<1> DEFINE n == Len(f)
<1>1. n \in Nat /\ i \in 0..n /\ n \in 0..n /\ i <= n
    BY ClipsOfFrames
<1>2. i - 1 \in 0..n /\ Sound(h[i - 1], f) /\ Sound(h[i], f) /\ Extends(h[i - 1], h[i], f, i)
    BY BuildStep
<1>3. Len(h[i - 1].uploads) = i - 1 /\ Len(h[i].uploads) = i
    BY <1>1, <1>2, BuildUploads
<1>4. PICK u \in 0..Len(h[i].nodes) :
        (u = 0 \/ u > Len(h[i - 1].nodes)) /\ h[i].uploads[Len(h[i - 1].uploads) + 1] = u
    BY <1>2, ExtendsContinues
<1>5. Len(h[i - 1].uploads) + 1 = i
    BY <1>1, <1>3
<1>6. Continues(h[i], h[n])
    BY <1>1, BuildContinues
<1>7. i \in 1..Len(h[i].uploads)
    BY <1>1, <1>3
<1>8. h[n].uploads[i] = h[i].uploads[i]
    BY <1>6, <1>7 DEF Continues, Grows
<1> QED  BY <1>4, <1>5, <1>8

\* No two clips have the same upload node.
LEMMA UploadsDiffer ==
    ASSUME NEW f \in Frames, NEW who \in {"preview", "export"}, NEW h, IsBuild(h, f, who),
           NEW i \in 1..Len(f), NEW j \in 1..Len(f), i < j,
           h[Len(f)].uploads[j] # 0
    PROVE  h[Len(f)].uploads[i] # h[Len(f)].uploads[j]
<1> DEFINE n == Len(f)
<1>1. n \in Nat /\ i \in 0..n /\ j - 1 \in 0..n /\ i <= j - 1
    BY ClipsOfFrames
<1>2. Continues(h[i], h[j - 1])
    BY <1>1, BuildContinues
<1>3. Sound(h[i], f) /\ Sound(h[j - 1], f) /\ Sound(h[j], f)
    BY <1>1, BuildStep
<1>4. Len(h[i].nodes) \in Nat /\ Len(h[j - 1].nodes) \in Nat /\ Len(h[j].nodes) \in Nat
    BY <1>3, BuilderSeqs
<1>5. Len(h[i].nodes) <= Len(h[j - 1].nodes)
    BY <1>2 DEF Continues, Grows
<1>6. h[n].uploads[i] \in 0..Len(h[i].nodes)
    BY UploadAmong
<1>7. h[n].uploads[j] \in 0..Len(h[j].nodes) /\ h[n].uploads[j] > Len(h[j - 1].nodes)
    <2>1. /\ h[n].uploads[j] = h[j].uploads[j] /\ h[j].uploads[j] \in 0..Len(h[j].nodes)
          /\ h[j].uploads[j] = 0 \/ h[j].uploads[j] > Len(h[j - 1].nodes)
        BY UploadAmong
    <2> QED  BY <2>1
<1> QED  BY <1>4, <1>5, <1>6, <1>7

\* As long as no clip is lost, texture k is that of clip k; and there is one if
\* not all are lost.
LEMMA BuildInputs ==
    ASSUME NEW f \in Frames, NEW who \in {"preview", "export"}, NEW h, IsBuild(h, f, who)
    PROVE  \A k \in 0..Len(f) :
              /\ (\A i \in 1..k : ~Lost(f[i])) => Len(h[k].inputs) = k
              /\ (\E i \in 1..k : ~Lost(f[i])) => Len(h[k].inputs) >= 1
<1> DEFINE n == Len(f)
           Q == {m \in 0..n : /\ (\A i \in 1..m : ~Lost(f[i])) => Len(h[m].inputs) = m
                              /\ (\E i \in 1..m : ~Lost(f[i])) => Len(h[m].inputs) >= 1}
<1>1. n \in Nat
    BY ClipsOfFrames
<1>2. 0 \in Q
    <2>1. Len(h[0].inputs) = 0
        BY DEF IsBuild, Empty
    <2>2. \A i \in 1..0 : FALSE
        OBVIOUS
    <2> QED  BY <1>1, <2>1, <2>2
<1>3. ASSUME NEW m \in 1..n, m - 1 \in Q  PROVE m \in Q
    <2>1. Sound(h[m - 1], f) /\ Extends(h[m - 1], h[m], f, m) /\ m \in 0..n /\ m \in Nat
        BY BuildStep, <1>1
    <2>2. /\ Lost(f[m]) => Len(h[m].inputs) = Len(h[m - 1].inputs)
          /\ ~Lost(f[m]) => Len(h[m].inputs) = Len(h[m - 1].inputs) + 1
        BY <2>1, ExtendsContinues
    <2>3. Len(h[m - 1].inputs) \in Nat
        BY <2>1, BuilderSeqs
    <2>4. \A i \in 1..m : i = m \/ i \in 1..(m - 1)
        BY <2>1
    <2>5. \A i \in 1..(m - 1) : i \in 1..m
        BY <2>1
    <2>6. m \in 1..m
        BY <2>1
    <2>7. ASSUME \A i \in 1..m : ~Lost(f[i])  PROVE Len(h[m].inputs) = m
        <3>1. Len(h[m - 1].inputs) = m - 1
            BY <1>3, <2>5, <2>7
        <3>2. ~Lost(f[m])
            BY <2>6, <2>7
        <3> QED  BY <2>1, <2>2, <3>1, <3>2
    <2>8. ASSUME NEW i \in 1..m, ~Lost(f[i])  PROVE Len(h[m].inputs) >= 1
        <3>1. CASE i = m
            BY <2>2, <2>3, <2>8, <3>1
        <3>2. CASE i # m
            <4>1. i \in 1..(m - 1)
                BY <2>4, <3>2
            <4>2. Len(h[m - 1].inputs) >= 1
                BY <1>3, <2>8, <4>1
            <4> QED  BY <2>2, <2>3, <4>2
        <3> QED  BY <3>1, <3>2
    <2> QED  BY <2>1, <2>7, <2>8
<1>4. \A m \in 0..n : m \in Q
    <2> HIDE DEF Q
    <2> QED  BY <1>1, <1>2, <1>3, Steps
<1> QED  BY <1>4

LEMMA TextureOf ==
    ASSUME NEW f \in Frames, NEW who \in {"preview", "export"}, NEW h, IsBuild(h, f, who),
           NEW i \in 1..Len(f), \A j \in 1..i : ~Lost(f[j])
    PROVE  /\ i \in 1..Len(h[Len(f)].inputs) /\ h[Len(f)].inputs[i] = h[i].cur
           /\ Standing(h[i])
<1> DEFINE n == Len(f)
<1>1. n \in Nat /\ i \in 0..n /\ n \in 0..n /\ i <= n /\ i \in 1..i
    BY ClipsOfFrames
<1>2. i - 1 \in 0..n /\ Sound(h[i - 1], f) /\ Sound(h[i], f) /\ Extends(h[i - 1], h[i], f, i)
    BY BuildStep
<1>3. \A j \in 1..(i - 1) : ~Lost(f[j])
    BY <1>1
<1>4. Len(h[i].inputs) = i /\ Len(h[i - 1].inputs) = i - 1
    BY <1>1, <1>2, <1>3, BuildInputs
<1>5. h[i].inputs[Len(h[i - 1].inputs) + 1] = h[i].cur /\ Standing(h[i])
    BY <1>1, <1>2, ExtendsContinues
<1>6. Len(h[i - 1].inputs) + 1 = i
    BY <1>1, <1>4
<1>7. Continues(h[i], h[n])
    BY <1>1, BuildContinues
<1>8. Sound(h[n], f)
    BY <1>1 DEF IsBuild
<1>9. Len(h[n].inputs) \in Nat
    BY <1>8, BuilderSeqs
<1>10. i \in 1..Len(h[i].inputs) /\ i <= Len(h[n].inputs)
    BY <1>1, <1>4, <1>7 DEF Continues, Grows
<1>11. h[n].inputs[i] = h[i].inputs[i]
    BY <1>7, <1>10 DEF Continues, Grows
<1>12. i \in 1..Len(h[n].inputs)
    BY <1>1, <1>9, <1>10
<1> QED  BY <1>5, <1>6, <1>11, <1>12

LEMMA CompositeIs ==
    ASSUME NEW ins \in Seq(Nat)
    PROVE  /\ Composite(ins) \in NodeType /\ Composite(ins).does = "composite"
           /\ Composite(ins).from = ins /\ Composite(ins).param = 0
           /\ Composite(ins).reads = ToSet(ins) \cup {0} /\ Output(Composite(ins)) = {0}
           /\ Composite(ins).imports = {}
<1> DEFINE from == Append(ins, FinalColor)
           to == <<FinalColor>>
           node == Node("composite", from, to, {}, 0)
<1>1. FinalColor = 0
    BY DEF FinalColor
<1>2. from \in Seq(Nat) /\ to \in Seq(Nat) /\ ToSet(to) = {0}
    <2>1. FinalColor \in Nat
        BY <1>1
    <2> QED  BY <1>1, <2>1, ShortSets, AppendProperties
<1>3. ToSet(from) = ToSet(ins) \cup {0}
    <2>1. /\ Len(ins) \in Nat /\ DOMAIN ins = 1..Len(ins) /\ DOMAIN from = 1..(Len(ins) + 1)
          /\ from[Len(ins) + 1] = 0 /\ \A m \in 1..Len(ins) : from[m] = ins[m]
        BY <1>1, LenProperties, AppendProperties
    <2>2. \A m \in DOMAIN from : m \in DOMAIN ins \/ m = Len(ins) + 1
        BY <2>1
    <2>3. Len(ins) + 1 \in DOMAIN from /\ \A m \in DOMAIN ins : m \in DOMAIN from
        BY <2>1
    <2> HIDE DEF from
    <2> QED  BY <2>1, <2>2, <2>3 DEF ToSet
<1>4. /\ node \in NodeType /\ node.does = "composite" /\ node.param = 0
      /\ node.reads = ToSet(from) /\ Output(node) = ToSet(to) /\ node.imports = {}
    <2> HIDE DEF from, to
    <2>1. "composite" \in Doings /\ 0 \in Nat \cup Sources /\ {} \in SUBSET Nat
        BY DEF Doings
    <2> QED  BY <1>2, <2>1, NodeIs
<1>5. Composite(ins) = [node EXCEPT !.from = ins]
    BY DEF Composite
<1> HIDE DEF node
<1>6. /\ Composite(ins) \in NodeType /\ Composite(ins).from = ins
      /\ Composite(ins).does = node.does /\ Composite(ins).param = node.param
      /\ Composite(ins).reads = node.reads /\ Output(Composite(ins)) = Output(node)
      /\ Composite(ins).imports = node.imports
    BY <1>4, <1>5 DEF NodeType, Output
<1> QED  BY <1>2, <1>3, <1>4, <1>6

\* What a graph of a frame looks like: each resource has one writer, which is
\* none for the textures the frame brings; only these are imported.
Neat(g, f) ==
    /\ IsGraph(g) /\ Len(g) \in Nat /\ DOMAIN g = 1..Len(g) /\ Len(g) >= 1
    /\ \A m, k \in DOMAIN g : m # k => Output(g[m]) \cap Output(g[k]) = {}
    /\ \A m \in DOMAIN g : Output(g[m]) \cap 1..(2 * Len(f) + 1) = {}
    /\ \A m \in DOMAIN g : g[m].imports \subseteq Textures(f)
    /\ \A m \in DOMAIN g : \A k \in 1..Len(g[m].from) : g[m].from[k] \in g[m].reads
    /\ \A m \in DOMAIN g :
         /\ g[m].does \in {"sdrToRgb", "hdrToRgb"} => Len(g[m].from) = 2
         /\ m # Len(g) /\ g[m].does \notin {"upload", "still", "text"} => Len(g[m].from) >= 1

\* The graph of a build, and what the composite in it reads.
IsPicture(h, f, who, g, ins, ups) ==
    /\ IsBuild(h, f, who) /\ Neat(g, f)
    /\ ins = h[Len(f)].inputs /\ ups = h[Len(f)].uploads
    /\ Grows(h[Len(f)].nodes, g) /\ Len(g) = Len(h[Len(f)].nodes) + 1
    /\ g[Len(g)] = Composite(ins)

LEMMA PictureExists ==
    ASSUME NEW f \in Frames, NEW who \in {"preview", "export"}
    PROVE  LET b == BuiltBy(f, who) IN \E h : IsPicture(h, f, who, b.nodes, b.inputs, b.uploads)
<1> DEFINE n == Len(f)
           b == BuiltBy(f, who)
           g == b.nodes
<1>1. PICK h : IsBuild(h, f, who) /\ b = Add(h[n], Composite(h[n].inputs))
    BY BuiltRun
<1>2. n \in Nat /\ n \in 0..n
    BY ClipsOfFrames
<1>3. Sound(h[n], f) /\ h[n] \in Builder
    BY <1>1, <1>2 DEF IsBuild
<1> DEFINE d == h[n]
           last == Composite(d.inputs)
<1>4. /\ d.nodes \in Seq(NodeType) /\ Len(d.nodes) \in Nat /\ DOMAIN d.nodes = 1..Len(d.nodes)
      /\ d.inputs \in Seq(Nat)
    BY <1>3, BuilderSeqs
<1>5. /\ last \in NodeType /\ last.does = "composite" /\ last.from = d.inputs
      /\ last.reads = ToSet(d.inputs) \cup {0} /\ Output(last) = {0} /\ last.imports = {}
    BY <1>4, CompositeIs
<1>6. g = Append(d.nodes, last) /\ b.inputs = d.inputs /\ b.uploads = d.uploads
    <2>1. Append(d.nodes, last) \in Seq(NodeType)
        BY <1>4, <1>5, AppendProperties
    <2> DEFINE nodes == Append(d.nodes, last)
    <2>2. b = [d EXCEPT !.nodes = nodes]
        BY <1>1 DEF Add
    <2>3. d \in Builder /\ nodes \in Seq(NodeType)
        BY <1>3, <2>1
    <2> HIDE DEF nodes, b, d
    <2>4. b.nodes = nodes /\ b.inputs = d.inputs /\ b.uploads = d.uploads
        BY <2>2, <2>3, PutNodes
    <2> QED  BY <2>4 DEF nodes
<1> HIDE DEF last, b, d, n
<1>7. /\ Grows(d.nodes, g) /\ g \in Seq(NodeType) /\ Len(g) = Len(d.nodes) + 1
      /\ g[Len(g)] = last /\ DOMAIN g = 1..Len(g) /\ Len(g) \in Nat
      /\ \A m \in 1..Len(d.nodes) : g[m] = d.nodes[m]
    BY <1>4, <1>5, <1>6, GrowsByOne
<1> HIDE DEF g
<1>8. \A m \in DOMAIN g : m \in DOMAIN d.nodes \/ m = Len(g)
    BY <1>4, <1>7
<1>9. ASSUME NEW m \in DOMAIN d.nodes
      PROVE  /\ g[m] = d.nodes[m] /\ m \in Nat /\ m # Len(g) /\ Sensible(g[m], f)
             /\ g[m] \in NodeType
             /\ \A r \in Output(g[m]) : r \in Nat /\ 2 + 2 * n <= r
    <2>1. g[m] = d.nodes[m] /\ m \in Nat /\ m # Len(g)
        BY <1>4, <1>7
    <2>2. g[m] \in NodeType /\ Output(g[m]) \subseteq Nat
        <3>1. d.nodes[m] \in NodeType
            BY <1>4, ElementOfSeq
        <3> QED  BY <2>1, <3>1 DEF NodeType, Output
    <2>3. /\ Sensible(d.nodes[m], f) /\ \A r \in Output(d.nodes[m]) : 2 + 2 * n <= r
        BY <1>3 DEF Sound, CounterStart, d, n
    <2> QED  BY <2>1, <2>2, <2>3
<1>10. IsGraph(g)
    <2>1. DOMAIN g \subseteq Nat \ {0}
        BY <1>7
    <2>2. ASSUME NEW m \in DOMAIN g  PROVE g[m].imports \subseteq g[m].reads
        <3>1. CASE m \in DOMAIN d.nodes
            BY <1>9, <3>1 DEF Sensible
        <3>2. CASE m = Len(g)
            BY <1>5, <1>7, <3>2
        <3> QED  BY <1>8, <3>1, <3>2
    <2> QED  BY <2>1, <2>2 DEF IsGraph
<1>11. ASSUME NEW m \in DOMAIN g, NEW k \in DOMAIN g, m # k
       PROVE  Output(g[m]) \cap Output(g[k]) = {}
    <2>1. CASE m \in DOMAIN d.nodes /\ k \in DOMAIN d.nodes
        BY <1>3, <1>9, <1>11, <2>1 DEF Sound, d
    <2>2. CASE m \in DOMAIN d.nodes /\ k = Len(g)
        <3>1. \A r \in Output(g[m]) : r # 0
            BY <1>2, <1>9, <2>2 DEF n
        <3> QED  BY <1>5, <1>7, <2>2, <3>1
    <2>3. CASE m = Len(g) /\ k \in DOMAIN d.nodes
        <3>1. \A r \in Output(g[k]) : r # 0
            BY <1>2, <1>9, <2>3 DEF n
        <3> QED  BY <1>5, <1>7, <2>3, <3>1
    <2> QED  BY <1>8, <1>11, <2>1, <2>2, <2>3
<1>12. ASSUME NEW m \in DOMAIN g
       PROVE  /\ Output(g[m]) \cap 1..(2 * Len(f) + 1) = {}
              /\ g[m].imports \subseteq Textures(f)
              /\ \A k \in 1..Len(g[m].from) : g[m].from[k] \in g[m].reads
              /\ g[m].does \in {"sdrToRgb", "hdrToRgb"} => Len(g[m].from) = 2
              /\ m # Len(g) /\ g[m].does \notin {"upload", "still", "text"}
                    => Len(g[m].from) >= 1
    <2>1. CASE m \in DOMAIN d.nodes
        <3>1. \A r \in Output(g[m]) : r \in Nat /\ 2 + 2 * n <= r
            BY <1>9, <2>1
        <3>2. Output(g[m]) \cap 1..(2 * Len(f) + 1) = {}
            BY <1>2, <3>1 DEF n
        <3>3. Sensible(g[m], f)
            BY <1>9, <2>1
        <3> QED  BY <3>2, <3>3 DEF Sensible
    <2>2. CASE m = Len(g)
        <3>1. \A k \in 1..Len(d.inputs) : d.inputs[k] \in ToSet(d.inputs)
            <4>1. DOMAIN d.inputs = 1..Len(d.inputs)
                BY <1>4, LenProperties
            <4> QED  BY <4>1 DEF ToSet
        <3>2. Output(g[m]) \cap 1..(2 * Len(f) + 1) = {}
            BY <1>5, <1>7, <2>2
        <3>3. g[m].imports = {} /\ g[m].does = "composite" /\ g[m].from = d.inputs
              /\ g[m].reads = ToSet(d.inputs) \cup {0}
            BY <1>5, <1>7, <2>2
        <3> QED  BY <2>2, <3>1, <3>2, <3>3
    <2> QED  BY <1>8, <2>1, <2>2
<1>13. Neat(g, f)
    <2>1. Len(g) >= 1
        BY <1>4, <1>7
    <2> QED  BY <1>7, <1>10, <1>11, <1>12, <2>1 DEF Neat
<1>14. IsPicture(h, f, who, g, b.inputs, b.uploads)
    BY <1>1, <1>6, <1>7, <1>13 DEF IsPicture, d, n, last
<1> QED  BY <1>14 DEF g, b

-----------------------------------------------------------------------------
(* The graph that is kept *)

\* What the export looks at in a clip.
Alike(clip, other) ==
    /\ clip.src = other.src /\ clip.colour = other.colour
    /\ (clip.kind = "still") = (other.kind = "still")
    /\ clip.interop = other.interop /\ clip.effects = other.effects

\* A chain of effects looks at nothing of a clip but its effects.
Chain(b, effects, least) ==
    FoldLeft(LAMBDA c, p : IF effects[EffectOf(p)] >= least
                           THEN Then(c, p, effects[EffectOf(p)]) ELSE c, b, Passes)

LEMMA ChainOfEffects ==
    ASSUME NEW b, NEW clip, NEW least
    PROVE  EffectChain(b, clip, least) = Chain(b, clip.effects, least)
BY DEF EffectChain, Chain

LEMMA AlikeBuilt ==
    ASSUME NEW b, NEW i, NEW clip, NEW other, Alike(clip, other)
    PROVE  ExportClip(b, i, clip) = ExportClip(b, i, other)
<1>1. /\ clip.src = other.src /\ clip.colour = other.colour
      /\ (clip.kind = "still") <=> (other.kind = "still")
      /\ clip.interop = other.interop /\ clip.effects = other.effects
    BY DEF Alike
<1>2. ASSUME NEW c  PROVE EffectChain(c, clip, 1) = EffectChain(c, other, 1)
    BY <1>1, ChainOfEffects
<1>3. Conversion(clip) = Conversion(other)
    BY <1>1 DEF Conversion
<1>4. ASSUME NEW c  PROVE Planes(c, i, clip) = Planes(c, i, other)
    BY <1>1 DEF Planes
<1>5. ASSUME NEW c, NEW planes, NEW to  PROVE Convert(c, clip, planes, to) = Convert(c, other, planes, to)
    BY <1>1, <1>3 DEF Convert
<1>6. ASSUME NEW c  PROVE UploadNode(c, clip) = UploadNode(c, other)
    BY <1>1 DEF UploadNode
<1>7. CASE clip.kind # "still"
    <2>1. other.kind # "still"
        BY <1>1, <1>7
    <2> DEFINE c == [b EXCEPT !.next = @ + 1]
               p == Planes(c, i, clip)
               rgb == Convert(p.up, clip, p.planes, b.next)
               mapped == IF MapsStills \/ clip.colour = "hdr" THEN Then(rgb, "tone", 0) ELSE rgb
    <2>2. ExportClip(b, i, clip) = Pushed(EffectChain(mapped, clip, 1), UploadNode(p.up, clip))
        BY <1>7 DEF ExportClip
    <2> DEFINE q == Planes(c, i, other)
               rgc == Convert(q.up, other, q.planes, b.next)
               mappee == IF MapsStills \/ other.colour = "hdr" THEN Then(rgc, "tone", 0) ELSE rgc
    <2>3. ExportClip(b, i, other) = Pushed(EffectChain(mappee, other, 1), UploadNode(q.up, other))
        BY <2>1 DEF ExportClip
    <2> HIDE DEF c
    <2>4. p = q
        BY <1>4
    <2> HIDE DEF p, q
    <2>5. rgb = rgc
        BY <1>5, <2>4
    <2> HIDE DEF rgb, rgc
    <2>6. mapped = mappee
        BY <1>1, <2>5
    <2> HIDE DEF mapped, mappee
    <2> QED  BY <1>2, <1>6, <2>2, <2>3, <2>4, <2>6
<1>8. CASE clip.kind = "still"
    <2>1. other.kind = "still"
        BY <1>1, <1>8
    <2> DEFINE c == [b EXCEPT !.next = @ + 1]
               lost == [c EXCEPT !.uploads = Append(@, 0)]
    <2>2. CASE clip.src \in Missing
        <3>1. ExportClip(b, i, clip) = lost
            BY <1>8, <2>2 DEF ExportClip
        <3>2. ExportClip(b, i, other) = lost
            BY <1>1, <2>1, <2>2 DEF ExportClip
        <3> QED  BY <3>1, <3>2
    <2>3. CASE clip.src \notin Missing
        <3> DEFINE still(src) == [Add(c, Node("still", <<>>, <<b.next>>, {}, src)) EXCEPT !.cur = b.next]
                   mapped(src) == IF MapsStills THEN Then(still(src), "tone", 0) ELSE still(src)
        <3>1. ExportClip(b, i, clip) = Pushed(EffectChain(mapped(clip.src), clip, 1), 0)
            BY <1>8, <2>3 DEF ExportClip
        <3>2. ExportClip(b, i, other) = Pushed(EffectChain(mapped(other.src), other, 1), 0)
            BY <1>1, <2>1, <2>3 DEF ExportClip
        <3> HIDE DEF mapped
        <3> QED  BY <1>1, <1>2, <3>1, <3>2
    <2> QED  BY <2>2, <2>3
<1> QED  BY <1>7, <1>8

LEMMA SameUpto ==
    ASSUME NEW a \in Nat, NEW b \in Nat, 1..a = 1..b  PROVE a = b
<1>1. a = 0 \/ a \in 1..b
    <2>1. a = 0 \/ a \in 1..a
        OBVIOUS
    <2> QED  BY <2>1
<1>2. b = 0 \/ b \in 1..a
    <2>1. b = 0 \/ b \in 1..b
        OBVIOUS
    <2> QED  BY <2>1
<1> QED  BY <1>1, <1>2

LEMMA SignatureAlike ==
    ASSUME NEW f \in Frames, NEW g \in Frames, Signature(f) = Signature(g)
    PROVE  /\ Len(f) = Len(g)
           /\ \A i \in 1..Len(f) : Alike(f[i], g[i])
<1>1. Len(f) \in Nat /\ DOMAIN f = 1..Len(f) /\ Len(g) \in Nat /\ DOMAIN g = 1..Len(g)
    BY ClipsOfFrames
<1>2. DOMAIN Signature(f) = DOMAIN f /\ DOMAIN Signature(g) = DOMAIN g
    BY DEF Signature
<1>3. 1..Len(f) = 1..Len(g)
    BY <1>1, <1>2
<1>4. Len(f) = Len(g)
    BY <1>1, <1>3, SameUpto
<1>5. ASSUME NEW i \in 1..Len(f)  PROVE Alike(f[i], g[i])
    <2> DEFINE Sig(clip) == [src |-> clip.src, meta |-> clip.colour, still |-> clip.kind = "still",
                             interop |-> clip.interop, effects |-> clip.effects]
    <2>1. Signature(f)[i] = Sig(f[i]) /\ Signature(g)[i] = Sig(g[i])
        BY <1>1, <1>3 DEF Signature
    <2>2. Sig(f[i]) = Sig(g[i])
        BY <2>1
    <2>3. /\ Sig(f[i]).src = f[i].src /\ Sig(f[i]).meta = f[i].colour
          /\ Sig(f[i]).still = (f[i].kind = "still")
          /\ Sig(f[i]).interop = f[i].interop /\ Sig(f[i]).effects = f[i].effects
        OBVIOUS
    <2>4. /\ Sig(g[i]).src = g[i].src /\ Sig(g[i]).meta = g[i].colour
          /\ Sig(g[i]).still = (g[i].kind = "still")
          /\ Sig(g[i]).interop = g[i].interop /\ Sig(g[i]).effects = g[i].effects
        OBVIOUS
    <2> HIDE DEF Sig
    <2> QED  BY <2>2, <2>3, <2>4 DEF Alike
<1> QED  BY <1>4, <1>5

\* Frames with the same signature have the same graph.
LEMMA SameGraph ==
    ASSUME NEW f \in Frames, NEW g \in Frames, Signature(f) = Signature(g)
    PROVE  BuiltBy(f, "export") = BuiltBy(g, "export")
<1> DEFINE n == Len(f)
<1>1. n \in Nat /\ Len(g) = n /\ \A i \in 1..n : Alike(f[i], g[i])
    BY SignatureAlike, ClipsOfFrames
<1>2. PICK h : /\ IsBuild(h, f, "export")
               /\ BuiltBy(f, "export") = Add(h[n], Composite(h[n].inputs))
    BY BuiltRun
<1>3. PICK e : /\ IsBuild(e, g, "export")
               /\ BuiltBy(g, "export") = Add(e[n], Composite(e[n].inputs))
    BY <1>1, BuiltRun
<1> DEFINE Q == {k \in 0..n : h[k] = e[k]}
<1>4. 0 \in Q
    BY <1>1, <1>2, <1>3 DEF IsBuild, Empty
<1>5. ASSUME NEW k \in 1..n, k - 1 \in Q  PROVE k \in Q
    <2>1. h[k] = ExportClip(h[k - 1], k, f[k])
        BY <1>2 DEF IsBuild, ClipBy
    <2>2. e[k] = ExportClip(e[k - 1], k, g[k])
        BY <1>1, <1>3 DEF IsBuild, ClipBy
    <2>3. h[k - 1] = e[k - 1] /\ k \in 0..n
        BY <1>1, <1>5
    <2>4. ExportClip(h[k - 1], k, f[k]) = ExportClip(h[k - 1], k, g[k])
        BY <1>1, AlikeBuilt
    <2> QED  BY <2>1, <2>2, <2>3, <2>4
<1>6. \A k \in 0..n : k \in Q
    <2> HIDE DEF Q, n
    <2> QED  BY <1>1, <1>4, <1>5, Steps
<1>7. h[n] = e[n]
    <2>1. n \in 0..n
        BY <1>1
    <2> QED  BY <1>6, <2>1
<1> QED  BY <1>2, <1>3, <1>7

-----------------------------------------------------------------------------
(* The invariant of the frames *)

\* What the staging buffers hold for the upload nodes ups of a frame.
Contents(f, ups, at) ==
    [n \in {ups[i] : i \in DOMAIN ups} \ {0} |->
        LET clip == f[CHOOSE i \in DOMAIN f : ups[i] = n]
        IN IF clip.kind = "video" THEN Decoded(clip, at) ELSE Garbage]

\* The graph is that of the frame, new or kept, and the staging buffers hold the
\* frame's pictures.
OfFrame ==
    /\ frame \in Frames
    /\ graph = BuiltBy(frame, builder).nodes
    /\ inputs = BuiltBy(frame, builder).inputs
    /\ uploads = BuiltBy(frame, builder).uploads
    /\ staged = Contents(frame, uploads, frames)
    /\ builder = "export" => signature = Signature(frame)
    /\ status = "running" => ~Panics

FrameInv ==
    /\ builder \in {"preview", "export", "custom"} /\ frames \in Nat
    /\ builder # "custom" /\ status # "none" => OfFrame
    /\ status = "panicked" => Panics

LEMMA OutcomeIs ==
    ASSUME NEW g  PROVE Outcome(g) \notin {"none", "running", "panicked"}
BY DEF Outcome

LEMMA PreviewFrameKeeps ==
    ASSUME IInv, FrameInv, NEW f \in Frames, PreviewFrame(f)  PROVE IInv' /\ FrameInv'
<1> DEFINE b == BuiltBy(f, "preview")
<1>1. b = Built(f, PreviewClip)
    BY DEF BuiltBy
<1>2. /\ builder = "preview" /\ builder' = "preview" /\ frame' = f /\ frames' = frames + 1
      /\ Compile(b.nodes) /\ inputs' = b.inputs /\ uploads' = b.uploads
      /\ staged' = Staged(f, b.uploads)
    BY <1>1 DEF PreviewFrame, Scheduled
<1>3. IsGraph(b.nodes)
    <2>1. PICK h : IsPicture(h, f, "preview", b.nodes, b.inputs, b.uploads)
        BY PictureExists
    <2> QED  BY <2>1 DEF IsPicture, Neat
<1> HIDE DEF b
<1>4. IInv'
    BY <1>2, <1>3, CompileHolds
<1>5. graph' = b.nodes /\ status' = Outcome(b.nodes)
    BY <1>2 DEF Compile
<1>6. status' \notin {"none", "running", "panicked"}
    BY <1>5, OutcomeIs
<1>7. staged' = Contents(f, b.uploads, frames')
    BY <1>2 DEF Staged, SlotOf, Contents
<1>8. OfFrame'
    BY <1>2, <1>5, <1>6, <1>7 DEF OfFrame, b
<1>9. frames' \in Nat
    BY <1>2 DEF FrameInv
<1> QED  BY <1>2, <1>4, <1>6, <1>8, <1>9 DEF FrameInv

LEMMA ExportFrameKeeps ==
    ASSUME IInv, FrameInv, NEW f \in Frames, ExportFrame(f)  PROVE IInv' /\ FrameInv'
<1> DEFINE b == BuiltBy(f, "export")
           kept == status # "none" /\ signature = Signature(f)
<1>1. b = Built(f, ExportClip)
    BY DEF BuiltBy
<1>2. /\ builder = "export" /\ builder' = "export" /\ frame' = f /\ frames' = frames + 1
      /\ status \in {"none", "ready"}
      /\ IF kept THEN UNCHANGED <<graphVars, inputs, uploads>>
         ELSE Compile(b.nodes) /\ inputs' = b.inputs /\ uploads' = b.uploads
      /\ signature' = Signature(f) /\ staged' = Staged(f, uploads')
    BY <1>1 DEF ExportFrame, Scheduled
<1>3. IsGraph(b.nodes)
    <2>1. PICK h : IsPicture(h, f, "export", b.nodes, b.inputs, b.uploads)
        BY PictureExists
    <2> QED  BY <2>1 DEF IsPicture, Neat
<1> HIDE DEF b
<1>4. /\ graph' = b.nodes /\ inputs' = b.inputs /\ uploads' = b.uploads
      /\ status' \notin {"none", "running", "panicked"} /\ IInv'
    <2>1. CASE kept
        <3>1. UNCHANGED <<graphVars, inputs, uploads>>
            BY <1>2, <2>1
        <3>2. OfFrame
            BY <1>2, <2>1 DEF FrameInv
        <3>3. BuiltBy(frame, "export") = b
            BY <1>2, <2>1, <3>2, SameGraph DEF OfFrame, b
        <3>4. IInv'
            BY <3>1 DEF graphVars, IInv, Accepted, Shape, Closed, InTurn, Holds, ReadAsAdded
        <3> QED  BY <1>2, <2>1, <3>1, <3>2, <3>3, <3>4 DEF OfFrame, graphVars
    <2>2. CASE ~kept
        <3>1. Compile(b.nodes) /\ inputs' = b.inputs /\ uploads' = b.uploads
            BY <1>2, <2>2
        <3>2. IInv'
            BY <1>3, <3>1, CompileHolds
        <3>3. graph' = b.nodes /\ status' = Outcome(b.nodes)
            BY <3>1 DEF Compile
        <3> QED  BY <3>1, <3>2, <3>3, OutcomeIs
    <2> QED  BY <2>1, <2>2
<1>5. staged' = Contents(f, uploads', frames')
    BY <1>2 DEF Staged, SlotOf, Contents
<1>6. OfFrame'
    BY <1>2, <1>4, <1>5 DEF OfFrame, b
<1>7. frames' \in Nat
    BY <1>2 DEF FrameInv
<1> QED  BY <1>2, <1>4, <1>6, <1>7 DEF FrameInv

\* Drawing leaves the frame and its graph alone.
LEMMA DrawingKeeps ==
    ASSUME FrameInv, UNCHANGED graph,
           UNCHANGED <<builder, frame, signature, inputs, uploads, staged, frames>>,
           status # "none", status' # "none",
           status' = "running" => status = "running" \/ ~Panics,
           status' = "panicked" => Panics
    PROVE  FrameInv'
<1>1. Panics' <=> Panics
    BY DEF Panics, Bound, Imported
<1>2. builder # "custom" => OfFrame
    BY DEF FrameInv
<1>3. builder # "custom" => OfFrame'
    BY <1>1, <1>2 DEF OfFrame
<1> QED  BY <1>1, <1>3 DEF FrameInv

LEMMA FramesKept ==
    ASSUME IInv, FrameInv, [Next]_vars  PROVE IInv' /\ FrameInv'
<1>1. CASE \E f \in Frames : PreviewFrame(f)
    BY <1>1, PreviewFrameKeeps
<1>2. CASE \E f \in Frames : ExportFrame(f)
    BY <1>2, ExportFrameKeeps
<1>3. CASE CustomGraph
    <2>1. PICK g \in Shapes : Compile(g)
        BY <1>3 DEF CustomGraph
    <2>2. IsGraph(g)
        BY ShapesAssumption
    <2>3. IInv'
        BY <2>1, <2>2, CompileHolds
    <2>4. status' = Outcome(g)
        BY <2>1 DEF Compile
    <2> QED  BY <1>3, <2>3, <2>4, OutcomeIs DEF CustomGraph, FrameInv
<1>4. CASE Begin
    <2>1. IInv'
        BY <1>4, BeginHolds DEF Begin
    <2>2. FrameInv'
        BY <1>4, DrawingKeeps DEF Begin, BeginFrame, frameVars
    <2> QED  BY <2>1, <2>2
<1>5. CASE \E n \in DOMAIN graph : RecordNode(n)
    <2>1. PICK n \in DOMAIN graph : RecordNode(n)
        BY <1>5
    <2>2. IInv'
        BY <2>1, RecordHolds DEF RecordNode
    <2>3. FrameInv'
        BY <2>1, DrawingKeeps DEF RecordNode, Record, frameVars
    <2> QED  BY <2>2, <2>3
<1>6. CASE End
    <2>1. IInv'
        BY <1>6, EndHolds DEF End
    <2>2. FrameInv'
        BY <1>6, DrawingKeeps DEF End, EndFrame
    <2> QED  BY <2>1, <2>2
<1>7. CASE Panic
    <2>1. IInv'
        BY <1>7 DEF Panic, IInv, Accepted
    <2>2. FrameInv'
        BY <1>7, DrawingKeeps DEF Panic, frameVars
    <2> QED  BY <2>1, <2>2
<1>8. CASE UNCHANGED vars
    <2>1. IInv'
        BY <1>8 DEF vars, graphVars, IInv, Accepted, Shape, Closed, InTurn, Holds, ReadAsAdded
    <2>2. UNCHANGED graph /\ UNCHANGED status
          /\ UNCHANGED <<builder, frame, signature, inputs, uploads, staged, frames>>
        BY <1>8 DEF vars, graphVars, frameVars
    <2>3. FrameInv'
        <3>1. CASE status = "none"
            BY <2>2, <3>1 DEF FrameInv
        <3>2. CASE status # "none"
            BY <2>2, <3>2, DrawingKeeps DEF FrameInv
        <3> QED  BY <3>1, <3>2
    <2> QED  BY <2>1, <2>3
<1> QED  BY <1>1, <1>2, <1>3, <1>4, <1>5, <1>6, <1>7, <1>8 DEF Next

\* RunsAsAdded (render/graph.rs, compile and execute) whoever built the graph:
\* the preview, the export, or neither.
THEOREM OrderNeverShowsInFrames == Spec => []RunsAsAdded
<1>1. Init => IInv /\ FrameInv
    BY InitHolds DEF Init, GraphInit, FrameInv
<1>2. (IInv /\ FrameInv) /\ [Next]_vars => (IInv /\ FrameInv)'
    BY FramesKept
<1>3. IInv => RunsAsAdded
    BY InvariantSuffices
<1> QED  BY <1>1, <1>2, <1>3, PTL DEF Spec

-----------------------------------------------------------------------------
(* What the nodes of a finished frame read and made *)

\* All nodes of a frame that has clips are recorded.
Finishing(h) ==
    /\ done = DOMAIN graph /\ ReadAsAdded /\ OfFrame /\ inputs # <<>>
    /\ builder \in {"preview", "export"}
    /\ IsPicture(h, frame, builder, graph, inputs, uploads)

LEMMA FinishingFacts ==
    ASSUME NEW h, Finishing(h)
    PROVE  /\ frame \in Frames /\ builder \in {"preview", "export"} /\ IsBuild(h, frame, builder)
           /\ Neat(graph, frame) /\ DOMAIN graph = 1..Len(graph) /\ Len(graph) \in Nat
           /\ Len(graph) = Len(h[Len(frame)].nodes) + 1
           /\ Grows(h[Len(frame)].nodes, graph)
           /\ inputs = h[Len(frame)].inputs /\ uploads = h[Len(frame)].uploads
           /\ graph[Len(graph)] = Composite(inputs)
           /\ Len(frame) \in Nat /\ Len(frame) \in 0..Len(frame) /\ DOMAIN frame = 1..Len(frame)
           /\ inputs \in Seq(Nat) /\ Len(inputs) \in Nat /\ Len(inputs) >= 1
<1>1. frame \in Frames /\ builder \in {"preview", "export"} /\ inputs # <<>>
      /\ IsPicture(h, frame, builder, graph, inputs, uploads)
    BY DEF Finishing, OfFrame
<1>2. /\ IsBuild(h, frame, builder)
      /\ Neat(graph, frame)
      /\ Len(graph) = Len(h[Len(frame)].nodes) + 1
      /\ Grows(h[Len(frame)].nodes, graph)
      /\ inputs = h[Len(frame)].inputs /\ uploads = h[Len(frame)].uploads
      /\ graph[Len(graph)] = Composite(inputs)
    BY <1>1 DEF IsPicture
<1>3. DOMAIN graph = 1..Len(graph) /\ Len(graph) \in Nat
    BY <1>2 DEF Neat
<1>4. Len(frame) \in Nat /\ Len(frame) \in 0..Len(frame) /\ DOMAIN frame = 1..Len(frame)
    BY <1>1, ClipsOfFrames
<1>5. inputs \in Seq(Nat) /\ Len(inputs) \in Nat
    <2>1. Sound(h[Len(frame)], frame)
        BY <1>2, <1>4 DEF IsBuild
    <2> QED  BY <1>2, <2>1, BuilderSeqs
<1>6. Len(inputs) >= 1
    BY <1>1, <1>5, EmptySeq
<1> QED  BY <1>1, <1>2, <1>3, <1>4, <1>5, <1>6

\* What a node reads was made by a node before it, or by none.
LEMMA ReadsBelow ==
    ASSUME NEW h, Finishing(h), NEW n \in DOMAIN graph, NEW r \in graph[n].reads
    PROVE  seen[n][r] = 0 \/ (seen[n][r] \in DOMAIN graph /\ seen[n][r] < n)
<1>1. IsLatest(Writers(graph, r), n, seen[n][r])
    BY DEF Finishing, ReadAsAdded
<1> QED  BY <1>1 DEF IsLatest, Writers

\* It was made by the one node that writes it.
LEMMA ReadsWriter ==
    ASSUME NEW h, Finishing(h), NEW n \in DOMAIN graph, NEW r \in graph[n].reads,
           NEW w \in DOMAIN graph, w < n, r \in Output(graph[w])
    PROVE  seen[n][r] = w /\ w # 0
<1>1. IsLatest(Writers(graph, r), n, seen[n][r])
    BY DEF Finishing, ReadAsAdded
<1>2. Writers(graph, r) = {w}
    <2>1. Neat(graph, frame)
        BY FinishingFacts
    <2>2. \A m \in DOMAIN graph : m # w => r \notin Output(graph[m])
        BY <2>1 DEF Neat
    <2> QED  BY <2>2 DEF Writers
<1>3. w # 0
    BY FinishingFacts
<1> QED  BY <1>1, <1>2, <1>3 DEF IsLatest

\* The textures of a frame are written by none.
LEMMA ReadsTexture ==
    ASSUME NEW h, Finishing(h), NEW n \in DOMAIN graph, NEW r \in graph[n].reads,
           r \in 1..(2 * Len(frame) + 1)
    PROVE  seen[n][r] = 0
<1>1. IsLatest(Writers(graph, r), n, seen[n][r])
    BY DEF Finishing, ReadAsAdded
<1>2. Writers(graph, r) = {}
    <2>1. Neat(graph, frame)
        BY FinishingFacts
    <2> QED  BY <2>1 DEF Neat, Writers
<1> QED  BY <1>1, <1>2 DEF IsLatest

\* The body of Made, for any function F in its place.
Source(F, n, r) ==
    IF seen[n][r] # 0 THEN F[seen[n][r]]
    ELSE IF r \in Bound
    THEN Decoded(frame[CHOOSE i \in DOMAIN frame : r \in ToSet(InteropPlanes(i))], frames)
    ELSE Garbage

Through(node, picture) ==
    IF node.param = 1 THEN picture
    ELSE [picture EXCEPT !.through = Append(@, <<node.does, node.param>>)]

Drawing(F, n) ==
    LET node == graph[n]
    IN CASE node.does = "upload" -> staged[n]
         [] node.does \in {"still", "text"} -> [of |-> node.param, at |-> 0, through |-> <<>>]
         [] node.does \in {"sdrToRgb", "hdrToRgb"} ->
              IF Source(F, n, node.from[1]) = Source(F, n, node.from[2])
              THEN Through(node, Source(F, n, node.from[1])) ELSE Garbage
         [] OTHER -> Through(node, Source(F, n, node.from[1]))

\* It looks at F below n only.
LEMMA DrawingLocal ==
    ASSUME NEW h, Finishing(h), NEW n \in DOMAIN graph, NEW F, NEW G,
           \A m \in 1..(n - 1) : F[m] = G[m]
    PROVE  Drawing(F, n) = Drawing(G, n)
<1> DEFINE node == graph[n]
<1>1. /\ DOMAIN graph = 1..Len(graph) /\ Len(graph) \in Nat /\ Neat(graph, frame)
      /\ graph[Len(graph)] = Composite(inputs)
      /\ inputs \in Seq(Nat) /\ Len(inputs) \in Nat /\ Len(inputs) >= 1
    BY FinishingFacts
<1>2. ASSUME NEW r \in node.reads  PROVE Source(F, n, r) = Source(G, n, r)
    <2>1. CASE seen[n][r] = 0
        BY <2>1 DEF Source
    <2>2. CASE seen[n][r] # 0
        <3>1. seen[n][r] \in DOMAIN graph /\ seen[n][r] < n
            BY <2>2, ReadsBelow
        <3>2. seen[n][r] \in 1..(n - 1)
            BY <1>1, <3>1
        <3> QED  BY <2>2, <3>2 DEF Source
    <2> QED  BY <2>1, <2>2
<1>3. \A k \in 1..Len(node.from) : node.from[k] \in node.reads
    BY <1>1 DEF Neat
<1>4. CASE node.does \in {"upload", "still", "text"}
    BY <1>4 DEF Drawing
<1>5. CASE node.does \in {"sdrToRgb", "hdrToRgb"}
    <2>1. Len(node.from) = 2
        BY <1>1, <1>5 DEF Neat
    <2>2. 1 \in 1..2 /\ 2 \in 1..2
        OBVIOUS
    <2>3. /\ Source(F, n, node.from[1]) = Source(G, n, node.from[1])
          /\ Source(F, n, node.from[2]) = Source(G, n, node.from[2])
        BY <1>2, <1>3, <2>1, <2>2
    <2> QED  BY <1>5, <2>3 DEF Drawing
<1>6. CASE node.does \notin {"upload", "still", "text", "sdrToRgb", "hdrToRgb"}
    <2>1. Len(node.from) \in Nat /\ Len(node.from) >= 1
        <3>1. CASE n = Len(graph)
            <4>1. node.from = inputs
                BY <1>1, <3>1, CompositeIs
            <4> QED  BY <1>1, <4>1
        <3>2. CASE n # Len(graph)
            <4>1. Len(node.from) >= 1
                BY <1>1, <1>6, <3>2 DEF Neat
            <4>2. node.from \in Seq(Nat)
                <5> DEFINE b == h[Len(frame)]
                <5>1. Len(graph) = Len(b.nodes) + 1 /\ Grows(b.nodes, graph) /\ Sound(b, frame)
                    BY FinishingFacts DEF IsBuild
                <5> HIDE DEF b
                <5>2. b.nodes \in Seq(NodeType) /\ Len(b.nodes) \in Nat
                    BY <5>1, BuilderSeqs
                <5>3. n \in 1..Len(b.nodes)
                    BY <1>1, <3>2, <5>1, <5>2
                <5>4. node = b.nodes[n] /\ b.nodes[n] \in NodeType
                    BY <5>1, <5>2, <5>3, ElementOfSeq DEF Grows
                <5> QED  BY <5>4 DEF NodeType
            <4> QED  BY <4>1, <4>2, LenProperties
        <3> QED  BY <3>1, <3>2
    <2>2. 1 \in 1..Len(node.from)
        BY <2>1
    <2>3. Source(F, n, node.from[1]) = Source(G, n, node.from[1])
        BY <1>2, <1>3, <2>2
    <2> QED  BY <1>6, <2>3 DEF Drawing
<1> QED  BY <1>4, <1>5, <1>6

\* The definition of Made is one.
LEMMA MadeIs ==
    ASSUME NEW h, Finishing(h)
    PROVE  Made = [n \in DOMAIN graph |-> Drawing(Made, n)]
<1> DEFINE N == Len(graph)
           Q == {k \in 0..N : \E F : F = [n \in 1..k |-> Drawing(F, n)]}
<1>1. N \in Nat /\ DOMAIN graph = 1..N
    BY FinishingFacts
<1>2. 0 \in Q
    <2> DEFINE F == [n \in 1..0 |-> 0]
    <2>1. F = [n \in 1..0 |-> Drawing(F, n)]
        <3>1. 1..0 = {}
            OBVIOUS
        <3> QED  BY <3>1
    <2> HIDE DEF F
    <2>2. \E G : G = [n \in 1..0 |-> Drawing(G, n)]
        BY <2>1, Zenon
    <2>3. 0 \in 0..N
        BY <1>1
    <2> QED  BY <2>2, <2>3
<1>3. ASSUME NEW k \in 1..N, k - 1 \in Q  PROVE k \in Q
    <2>1. PICK F : F = [n \in 1..(k - 1) |-> Drawing(F, n)]
        BY <1>3
    <2> DEFINE G == [n \in 1..k |-> IF n = k THEN Drawing(F, k) ELSE F[n]]
    <2>2. ASSUME NEW n \in 1..k  PROVE G[n] = Drawing(G, n)
        <3>1. n \in DOMAIN graph /\ n \in Nat
            BY <1>1
        <3>2. \A m \in 1..(n - 1) : F[m] = G[m]
            BY <3>1
        <3> HIDE DEF G
        <3>3. Drawing(F, n) = Drawing(G, n)
            BY <3>1, <3>2, DrawingLocal
        <3>4. CASE n = k
            BY <3>3, <3>4 DEF G
        <3>5. CASE n # k
            <4>1. n \in 1..(k - 1)
                BY <3>5
            <4>2. F[n] = Drawing(F, n)
                BY <2>1, <4>1
            <4>3. G[n] = F[n]
                BY <3>5 DEF G
            <4> QED  BY <3>3, <4>2, <4>3
        <3> QED  BY <3>4, <3>5
    <2>3. G = [n \in 1..k |-> Drawing(G, n)]
        <3>1. G = [n \in 1..k |-> G[n]]
            OBVIOUS
        <3> HIDE DEF G
        <3> QED  BY <2>2, <3>1
    <2> HIDE DEF G
    <2> QED  BY <1>1, <2>3
<1>4. \A k \in 0..N : k \in Q
    <2> HIDE DEF Q, N
    <2> QED  BY <1>1, <1>2, <1>3, Steps
<1>5. PICK F : F = [n \in DOMAIN graph |-> Drawing(F, n)]
    <2>1. N \in Q
        BY <1>1, <1>4
    <2> QED  BY <1>1, <2>1
<1> DEFINE made == CHOOSE G : G = [n \in DOMAIN graph |-> Drawing(G, n)]
<1>6. made = [n \in DOMAIN graph |-> Drawing(made, n)]
    BY <1>5, Zenon
<1>7. Made = made
    BY DEF Made, Drawing, Source, Through
<1> HIDE DEF made
<1> QED  BY <1>6, <1>7

\* A builder whose nodes are those the frame's graph begins with.
InGraph(c) == Sound(c, frame) /\ Grows(c.nodes, graph) /\ Len(c.nodes) < Len(graph)

LEMMA InGraphNodes ==
    ASSUME NEW h, Finishing(h), NEW c, InGraph(c)
    PROVE  \A m \in 1..Len(c.nodes) : m \in DOMAIN graph /\ m \in Nat /\ graph[m] = c.nodes[m]
<1>1. DOMAIN graph = 1..Len(graph) /\ Len(graph) \in Nat
    BY FinishingFacts
<1>2. Len(c.nodes) \in Nat
    BY BuilderSeqs DEF InGraph
<1> QED  BY <1>1, <1>2 DEF InGraph, Grows

LEMMA InGraphBefore ==
    ASSUME NEW h, Finishing(h), NEW b, Sound(b, frame), NEW c, InGraph(c), Grows(b.nodes, c.nodes)
    PROVE  InGraph(b)
<1>1. Len(b.nodes) \in Nat /\ Len(c.nodes) \in Nat /\ Len(graph) \in Nat
    BY BuilderSeqs, FinishingFacts DEF InGraph
<1>2. Len(b.nodes) <= Len(c.nodes) /\ \A m \in 1..Len(b.nodes) : c.nodes[m] = b.nodes[m]
    BY DEF Grows
<1>3. Len(c.nodes) < Len(graph) /\ \A m \in 1..Len(c.nodes) : graph[m] = c.nodes[m]
    BY DEF InGraph, Grows
<1>4. \A m \in 1..Len(b.nodes) : m \in 1..Len(c.nodes) /\ graph[m] = b.nodes[m]
    BY <1>1, <1>2, <1>3
<1>5. Len(b.nodes) < Len(graph) /\ Len(b.nodes) <= Len(graph)
    BY <1>1, <1>2, <1>3
<1> QED  BY <1>4, <1>5 DEF InGraph, Grows

\* What a node that reads the current texture of a builder reads.
LEMMA StandingMade ==
    ASSUME NEW h, Finishing(h), NEW c, InGraph(c), Standing(c),
           NEW n \in DOMAIN graph, c.cur \in graph[n].reads, Len(c.nodes) < n
    PROVE  /\ seen[n][c.cur] = Len(c.nodes)
           /\ Source(Made, n, c.cur) = Made[Len(c.nodes)]
<1> DEFINE w == Len(c.nodes)
           r == c.cur
<1>1. w \in Nat
    BY BuilderSeqs DEF InGraph
<1>2. w \in 1..w
    BY <1>1 DEF Standing
<1>3. w \in DOMAIN graph /\ r \in Output(graph[w])
    BY <1>2, InGraphNodes DEF Standing
<1>4. seen[n][r] = w /\ w # 0
    <2> HIDE DEF w, r
    <2>1. r \in graph[n].reads /\ w < n
        BY DEF w, r
    <2> QED  BY <1>3, <2>1, ReadsWriter
<1> QED  BY <1>4 DEF Source

\* A pass adds itself to the picture, if it changes it.
Passed(c, d, does, param) ==
    Made[Len(d.nodes)] =
        IF param = 1 THEN Made[Len(c.nodes)]
        ELSE [Made[Len(c.nodes)] EXCEPT !.through = Append(@, <<does, param>>)]

LEMMA ThenMade ==
    ASSUME NEW h, Finishing(h), NEW c, Sound(c, frame), Standing(c),
           NEW does \in Doings \ {"upload", "still", "text", "sdrToRgb", "hdrToRgb"},
           NEW param \in Nat, InGraph(Then(c, does, param))
    PROVE  Passed(c, Then(c, does, param), does, param)
<1> DEFINE d == Then(c, does, param)
           n == Len(d.nodes)
           picture == Made[Len(c.nodes)]
<1>1. /\ Sound(d, frame) /\ Grows(c.nodes, d.nodes)
      /\ n = Len(c.nodes) + 1 /\ Len(c.nodes) \in Nat
      /\ d.nodes[n].does = does /\ d.nodes[n].from = <<c.cur>> /\ d.nodes[n].param = param
    BY FinishingFacts, ThenSound
<1>2. InGraph(d)
    OBVIOUS
<1> HIDE DEF d
<1>3. InGraph(c)
    BY <1>1, <1>2, InGraphBefore
<1>4. n \in 1..Len(d.nodes) /\ Len(c.nodes) < n
    BY <1>1
<1>5. n \in DOMAIN graph /\ graph[n] = d.nodes[n]
    BY <1>2, <1>4, InGraphNodes
<1> HIDE DEF n
<1>6. c.cur \in graph[n].reads
    <2>1. \A k \in 1..Len(graph[n].from) : graph[n].from[k] \in graph[n].reads
        BY <1>5, FinishingFacts DEF Neat
    <2>2. graph[n].from = <<c.cur>>
        BY <1>1, <1>5
    <2>3. 1 \in 1..Len(<<c.cur>>) /\ <<c.cur>>[1] = c.cur
        OBVIOUS
    <2> QED  BY <2>1, <2>2, <2>3
<1>7. Source(Made, n, c.cur) = picture
    BY <1>3, <1>4, <1>5, <1>6, StandingMade
<1>8. Made[n] = Drawing(Made, n)
    BY <1>5, MadeIs
<1>9. Drawing(Made, n) = Through(graph[n], Source(Made, n, c.cur))
    <2>1. graph[n].does = does /\ graph[n].from[1] = c.cur
        BY <1>1, <1>5
    <2> QED  BY <2>1 DEF Drawing
<1> HIDE DEF picture
<1>10. Through(graph[n], picture) =
          IF param = 1 THEN picture ELSE [picture EXCEPT !.through = Append(@, <<does, param>>)]
    BY <1>1, <1>5 DEF Through
<1>11. Passed(c, d, does, param)
    BY <1>7, <1>8, <1>9, <1>10 DEF Passed, n, picture
<1> QED  BY <1>11 DEF d

\* The picture of a clip after some passes.
Pic(clip, passes) ==
    [of |-> clip.src, at |-> IF clip.kind = "video" THEN frames ELSE 0, through |-> passes]

\* Where the nodes of a clip begin, its picture is the decoded one, a video's
\* after its conversion; provided the export takes no text for video.
LEMMA OpensMade ==
    ASSUME NEW h, Finishing(h), NEW i \in 1..Len(frame), NEW b, NEW r, NEW asVideo, NEW u,
           Opens(b, r, frame, i, asVideo, u), InGraph(r), uploads[i] = u,
           asVideo <=> frame[i].kind = "video"
    PROVE  Made[Len(r.nodes)] =
              Pic(frame[i], IF asVideo THEN <<<<Conversion(frame[i]), 0>>>> ELSE <<>>)
<1> DEFINE clip == frame[i]
           n == Len(r.nodes)
           N == Len(frame)
<1>1. /\ frame \in Frames /\ N \in Nat /\ DOMAIN frame = 1..N /\ i \in DOMAIN frame
      /\ uploads = h[N].uploads /\ Neat(graph, frame) /\ IsBuild(h, frame, builder)
      /\ builder \in {"preview", "export"} /\ N \in 0..N
    BY FinishingFacts
<1>2. IsClip(clip)
    BY <1>1, ClipsOfFrames
<1>3. Depicts(r.nodes, i, clip, asVideo, u) /\ Standing(r)
    BY DEF Opens
<1>4. n \in Nat
    BY BuilderSeqs DEF InGraph
<1>5. n \in DOMAIN graph /\ graph[n] = r.nodes[n] /\ n \in Nat
    <2>1. n \in 1..n
        BY <1>3, <1>4 DEF Standing
    <2> QED  BY <2>1, InGraphNodes
<1>6. Made[n] = Drawing(Made, n)
    BY <1>5, MadeIs
<1>7. CASE ~asVideo
    <2>1. graph[n].does = clip.kind /\ graph[n].param = clip.src
        BY <1>3, <1>5, <1>7 DEF Depicts
    <2>2. clip.kind \in {"still", "text"}
        BY <1>2, <1>7 DEF IsClip
    <2>3. Made[n] = [of |-> clip.src, at |-> 0, through |-> <<>>]
        BY <1>6, <2>1, <2>2 DEF Drawing
    <2> QED  BY <1>7, <2>2, <2>3 DEF Pic
<1>8. CASE asVideo
    <2> DEFINE x == graph[n].from[1]
               y == graph[n].from[2]
               raw == Decoded(clip, frames)
    <2>1. graph[n].does = Conversion(clip) /\ graph[n].param = 0
        BY <1>3, <1>5, <1>8 DEF Depicts
    <2>2. Conversion(clip) \in {"sdrToRgb", "hdrToRgb"}
        BY DEF Conversion
    <2>3. x \in graph[n].reads /\ y \in graph[n].reads
        <3>1. Len(graph[n].from) = 2 /\ \A k \in 1..Len(graph[n].from) : graph[n].from[k] \in graph[n].reads
            BY <1>1, <1>5, <2>1, <2>2 DEF Neat
        <3>2. 1 \in 1..2 /\ 2 \in 1..2
            OBVIOUS
        <3> QED  BY <3>1, <3>2
    <2>4. Source(Made, n, x) = raw /\ Source(Made, n, y) = raw
        <3>1. CASE clip.interop
            <4>1. x = 2 * i /\ y = 2 * i + 1
                <5>1. graph[n].from = InteropPlanes(i)
                    BY <1>3, <1>5, <1>8, <3>1 DEF Depicts
                <5> QED  BY <5>1 DEF InteropPlanes
            <4>2. \A j \in 1..N : ToSet(InteropPlanes(j)) = {2 * j, 2 * j + 1}
                <5>1. ASSUME NEW j \in 1..N  PROVE 2 * j \in Nat /\ 2 * j + 1 \in Nat
                    BY <1>1
                <5> QED  BY <5>1, ShortSets DEF InteropPlanes
            <4>3. ASSUME NEW z \in {2 * i, 2 * i + 1}, z \in graph[n].reads
                  PROVE  Source(Made, n, z) = raw
                <5>1. z \in 1..(2 * N + 1)
                    BY <1>1, <4>3
                <5>2. seen[n][z] = 0
                    BY <1>5, <4>3, <5>1, ReadsTexture
                <5>3. z \in ToSet(InteropPlanes(i))
                    BY <4>2, <4>3
                <5>4. z \in Bound
                    BY <1>1, <3>1, <5>3 DEF Bound
                <5>5. \A j \in DOMAIN frame : z \in ToSet(InteropPlanes(j)) => j = i
                    <6>1. ASSUME NEW j \in 1..N, z \in {2 * j, 2 * j + 1}  PROVE j = i
                        BY <1>1, <4>3, <6>1
                    <6> QED  BY <1>1, <4>2, <6>1
                <5>6. (CHOOSE j \in DOMAIN frame : z \in ToSet(InteropPlanes(j))) = i
                    BY <1>1, <5>3, <5>5
                <5> QED  BY <5>2, <5>4, <5>6 DEF Source
            <4> HIDE DEF x, y, raw
            <4>4. x \in {2 * i, 2 * i + 1} /\ y \in {2 * i, 2 * i + 1}
                BY <4>1
            <4> QED  BY <2>3, <4>3, <4>4
        <3>2. CASE ~clip.interop
            <4>1. /\ u \in 1..(n - 1) /\ r.nodes[u].does = "upload"
                  /\ x \in Output(r.nodes[u]) /\ y \in Output(r.nodes[u])
                BY <1>3, <1>5, <1>8, <3>2 DEF Depicts
            <4>2. u \in DOMAIN graph /\ graph[u] = r.nodes[u] /\ u < n /\ u # 0
                <5>1. u \in 1..n /\ u < n /\ u # 0
                    BY <1>4, <4>1
                <5> QED  BY <5>1, InGraphNodes
            <4>3. ASSUME NEW z \in {x, y}  PROVE Source(Made, n, z) = Made[u]
                <5>1. z \in graph[n].reads /\ z \in Output(graph[u])
                    BY <2>3, <4>1, <4>2
                <5>2. seen[n][z] = u
                    BY <1>5, <4>2, <5>1, ReadsWriter
                <5> QED  BY <4>2, <5>2 DEF Source
            <4>4. Made[u] = staged[u]
                <5>1. Made[u] = Drawing(Made, u)
                    BY <4>2, MadeIs
                <5> QED  BY <4>1, <4>2, <5>1 DEF Drawing
            <4>5. \A j \in DOMAIN frame : uploads[j] = u => j = i
                <5>1. ASSUME NEW j \in 1..N, uploads[j] = u, j # i  PROVE FALSE
                    <6>1. j < i \/ i < j
                        BY <1>1, <5>1
                    <6>2. CASE j < i
                        BY <1>1, <4>2, <5>1, <6>2, UploadsDiffer
                    <6>3. CASE i < j
                        BY <1>1, <4>2, <5>1, <6>3, UploadsDiffer
                    <6> QED  BY <6>1, <6>2, <6>3
                <5> QED  BY <1>1, <5>1
            <4>6. (CHOOSE j \in DOMAIN frame : uploads[j] = u) = i
                BY <1>1, <4>5
            <4>7. u \in {uploads[j] : j \in DOMAIN uploads} \ {0}
                <5>1. Len(uploads) = N /\ DOMAIN uploads = 1..Len(uploads)
                    <6>1. Len(h[N].uploads) = N
                        BY <1>1, BuildUploads
                    <6>2. Sound(h[N], frame)
                        BY <1>1 DEF IsBuild
                    <6>3. DOMAIN h[N].uploads = 1..Len(h[N].uploads)
                        BY <6>2, BuilderSeqs
                    <6> QED  BY <1>1, <6>1, <6>3
                <5>2. i \in DOMAIN uploads
                    BY <5>1
                <5> QED  BY <4>2, <5>2
            <4>8. staged = Contents(frame, uploads, frames)
                BY DEF Finishing, OfFrame
            <4>9. staged[u] = raw
                BY <1>8, <4>6, <4>7, <4>8 DEF Contents
            <4> HIDE DEF x, y, raw
            <4> QED  BY <4>3, <4>4, <4>9
        <3> QED  BY <3>1, <3>2
    <2>5. Drawing(Made, n) = Through(graph[n], raw)
        <3> HIDE DEF raw
        <3> QED  BY <2>1, <2>2, <2>4 DEF Drawing
    <2>6. Through(graph[n], raw) = [raw EXCEPT !.through = Append(raw.through, <<Conversion(clip), 0>>)]
        <3> HIDE DEF raw
        <3> QED  BY <2>1 DEF Through
    <2>7. raw = [of |-> clip.src, at |-> frames, through |-> <<>>]
        BY <1>8 DEF Decoded
    <2> DEFINE conv == <<Conversion(clip), 0>>
    <2>8. Append(<<>>, conv) = <<conv>>
        OBVIOUS
    <2> HIDE DEF conv, raw
    <2>9. [raw EXCEPT !.through = Append(raw.through, conv)] = [of |-> clip.src, at |-> frames, through |-> <<conv>>]
        BY <2>7, <2>8
    <2> QED  BY <1>6, <1>8, <2>5, <2>6, <2>9 DEF Pic, conv
<1> QED  BY <1>7, <1>8

\* The passes of the effects that are on, one after the other.
IsEffective(e, clip, before) ==
    /\ e \in [0..6 -> Seq(Doings \X Nat)] /\ e[0] = before
    /\ \A k \in 1..6 : e[k] = IF EffectAt(clip, k) >= 2
                              THEN Append(e[k - 1], <<Passes[k], EffectAt(clip, k)>>)
                              ELSE e[k - 1]
    /\ Effective(clip, before) = e[6]

LEMMA EffectiveRun ==
    ASSUME NEW clip, IsClip(clip), NEW before \in Seq(Doings \X Nat)
    PROVE  \E e : IsEffective(e, clip, before)
<1> DEFINE X == Seq(Doings \X Nat)
           Step(acc, p) == IF clip.effects[EffectOf(p)] >= 2
                           THEN Append(acc, <<p, clip.effects[EffectOf(p)]>>) ELSE acc
           Body(F) == [S \in SUBSET (1..6) |->
                        IF S = {} THEN before ELSE Step(F[S \ {Max(S)}], Passes[Max(S)])]
           g == [x \in X \X (1..6) |-> Step(x[1], Passes[x[2]])]
           fold == CHOOSE F : F = Body(F)
<1>1. Effective(clip, before) = fold[1..6]
    BY SixPasses DEF Effective, FoldLeft, MapThenFoldSet
<1>2. ASSUME NEW acc \in X, NEW k \in 1..6  PROVE Step(acc, Passes[k]) \in X
    <2>1. CASE EffectAt(clip, k) >= 2
        <3>1. Passes[k] \in Doings /\ EffectAt(clip, k) \in Nat
            BY SixPasses DEF IsClip, EffectAt
        <3>2. Append(acc, <<Passes[k], EffectAt(clip, k)>>) \in X
            BY <3>1, AppendProperties
        <3> QED  BY <2>1, <3>2 DEF EffectAt
    <2>2. CASE ~(EffectAt(clip, k) >= 2)
        BY <2>2 DEF EffectAt
    <2> QED  BY <2>1, <2>2
<1>3. before \in X
    OBVIOUS
<1> HIDE DEF X, Step
<1>4. g \in [X \X (1..6) -> X]
    BY <1>2
<1>5. \A acc \in X, k \in 1..6 : g[<<acc, k>>] = Step(acc, Passes[k])
    OBVIOUS
<1> HIDE DEF g
<1>6. PICK G \in [SUBSET (1..6) -> X] : IsFold(G, before, 6, g)
    BY <1>3, <1>4, FoldExists
<1>7. ASSUME NEW S \in SUBSET (1..6), S # {}
      PROVE  Max(S) \in 1..6 /\ S \ {Max(S)} \in SUBSET (1..6)
    BY <1>7, LastExists
<1>8. G = Body(G)
    <2>1. ASSUME NEW S \in SUBSET (1..6)  PROVE G[S] = Body(G)[S]
        <3>1. CASE S = {}
            BY <1>6, <3>1 DEF IsFold
        <3>2. CASE S # {}
            <4>1. /\ Max(S) \in 1..6 /\ G[S \ {Max(S)}] \in X
                  /\ G[S] = g[<<G[S \ {Max(S)}], Max(S)>>]
                BY <1>6, <1>7, <3>2 DEF IsFold
            <4> QED  BY <1>5, <3>2, <4>1
        <3> QED  BY <3>1, <3>2
    <2> QED  BY <1>6, <2>1
<1>9. fold = Body(fold)
    <2> HIDE DEF Body
    <2> QED  BY <1>8, Zenon
<1> HIDE DEF fold
<1>10. Folds(fold, X, before, 6, g)
    <2>1. fold[{}] = before
        BY <1>9
    <2>2. ASSUME NEW S \in SUBSET (1..6), S # {}, fold[S \ {Max(S)}] \in X
          PROVE  fold[S] = g[<<fold[S \ {Max(S)}], Max(S)>>]
        <3>1. fold[S] = Step(fold[S \ {Max(S)}], Passes[Max(S)])
            BY <1>9, <2>2
        <3> QED  BY <1>5, <1>7, <2>2, <3>1
    <2> QED  BY <2>1, <2>2 DEF Folds
<1>11. PICK e \in [0..6 -> X] : IsRun(e, before, 6, g) /\ e[6] = fold[1..6]
    <2> DEFINE n == 6
    <2>1. n \in Nat /\ g \in [X \X (1..n) -> X] /\ Folds(fold, X, before, n, g)
        BY <1>4, <1>10
    <2> HIDE DEF n
    <2>2. FoldRuns(fold, X, before, n, g)
        BY <1>3, <2>1, RunOfFold
    <2> QED  BY <2>2 DEF n, FoldRuns
<1>12. ASSUME NEW k \in 1..6  PROVE e[k] = Step(e[k - 1], Passes[k])
    <2>1. k - 1 \in 0..6
        OBVIOUS
    <2>2. e[k - 1] \in X
        BY <1>11, <2>1
    <2> QED  BY <1>5, <1>11, <2>2 DEF IsRun
<1>13. IsEffective(e, clip, before)
    BY <1>1, <1>11, <1>12 DEF IsEffective, IsRun, X, Step, EffectAt
<1> QED  BY <1>13

LEMMA PicPass ==
    ASSUME NEW clip, NEW passes, NEW pass
    PROVE  [Pic(clip, passes) EXCEPT !.through = Append(@, pass)] = Pic(clip, Append(passes, pass))
<1> DEFINE at == IF clip.kind = "video" THEN frames ELSE 0
           more == Append(passes, pass)
<1>1. Pic(clip, passes) = [of |-> clip.src, at |-> at, through |-> passes]
    BY DEF Pic
<1>2. Pic(clip, more) = [of |-> clip.src, at |-> at, through |-> more]
    BY DEF Pic
<1>3. Append(Pic(clip, passes).through, pass) = more
    BY <1>1
<1> HIDE DEF at, more
<1>4. [Pic(clip, passes) EXCEPT !.through = more] = Pic(clip, more)
    BY <1>1, <1>2
<1> QED  BY <1>3, <1>4 DEF more

\* The chain of effects adds the passes that are on, and no other changes the
\* picture: the preview leaves them out, the export keeps those that are on but
\* change nothing.
LEMMA ChainMade ==
    ASSUME NEW h, Finishing(h), NEW b, Sound(b, frame), Standing(b), NEW clip, IsClip(clip),
           NEW least \in {1, 2}, InGraph(EffectChain(b, clip, least)),
           NEW before \in Seq(Doings \X Nat), Made[Len(b.nodes)] = Pic(clip, before)
    PROVE  Made[Len(EffectChain(b, clip, least).nodes)] = Pic(clip, Effective(clip, before))
<1>1. Len(frame) \in Nat /\ least \in Nat
    BY FinishingFacts
<1>2. PICK c : IsChain(c, b, clip, least, frame)
    BY <1>1, EffectRun
<1>3. PICK e : IsEffective(e, clip, before)
    BY EffectiveRun
<1>4. \A k \in 0..6 : Sound(c[k], frame) /\ e[k] \in Seq(Doings \X Nat)
    BY <1>2, <1>3 DEF IsChain, IsEffective
<1>5. ASSUME NEW k \in 1..6
      PROVE  /\ k - 1 \in 0..6 /\ k \in 0..6
             /\ EffectAt(clip, k) \in Nat
             /\ Passes[k] \in Doings \ {"upload", "still", "text", "sdrToRgb", "hdrToRgb"}
             /\ c[k] = IF EffectAt(clip, k) >= least
                       THEN Then(c[k - 1], Passes[k], EffectAt(clip, k)) ELSE c[k - 1]
             /\ e[k] = IF EffectAt(clip, k) >= 2
                       THEN Append(e[k - 1], <<Passes[k], EffectAt(clip, k)>>) ELSE e[k - 1]
    <2>1. k - 1 \in 0..6 /\ k \in 0..6
        OBVIOUS
    <2>2. EffectAt(clip, k) \in Nat
        BY DEF IsClip, EffectAt
    <2>3. Passes[k] \in Doings \ {"upload", "still", "text", "sdrToRgb", "hdrToRgb"}
        BY SixPasses
    <2>4. c[k] = IF EffectAt(clip, k) >= least
                 THEN Then(c[k - 1], Passes[k], EffectAt(clip, k)) ELSE c[k - 1]
        BY <1>2 DEF IsChain
    <2>5. e[k] = IF EffectAt(clip, k) >= 2
                 THEN Append(e[k - 1], <<Passes[k], EffectAt(clip, k)>>) ELSE e[k - 1]
        BY <1>3 DEF IsEffective
    <2> QED  BY <2>1, <2>2, <2>3, <2>4, <2>5
<1>6. ASSUME NEW k \in 1..6
      PROVE  Grows(c[k - 1].nodes, c[k].nodes) /\ (Standing(c[k - 1]) => Standing(c[k]))
    <2>1. Sound(c[k - 1], frame)
        BY <1>4, <1>5
    <2>2. CASE EffectAt(clip, k) >= least
        <3> DEFINE d == Then(c[k - 1], Passes[k], EffectAt(clip, k))
        <3>1. Grows(c[k - 1].nodes, d.nodes) /\ Standing(d)
            BY <1>1, <1>5, <2>1, ThenSound
        <3> HIDE DEF d
        <3>2. c[k] = d
            BY <1>5, <2>2 DEF d
        <3> QED  BY <3>1, <3>2
    <2>3. CASE ~(EffectAt(clip, k) >= least)
        <3>1. c[k] = c[k - 1]
            BY <1>5, <2>3
        <3>2. Grows(c[k - 1].nodes, c[k - 1].nodes)
            BY <2>1, BuilderSeqs DEF Grows
        <3> QED  BY <3>1, <3>2
    <2> QED  BY <2>2, <2>3
<1>7. \A k \in 0..6 : InGraph(c[k])
    <2> DEFINE Q == {j \in 0..6 : InGraph(c[6 - j])}
    <2>1. 0 \in Q
        BY <1>2 DEF IsChain
    <2>2. ASSUME NEW j \in 1..6, j - 1 \in Q  PROVE j \in Q
        <3> DEFINE k == 6 - (j - 1)
        <3>1. k \in 1..6 /\ k - 1 = 6 - j /\ k - 1 \in 0..6 /\ j \in 0..6
            OBVIOUS
        <3>2. InGraph(c[k])
            BY <2>2
        <3> HIDE DEF k
        <3>3. InGraph(c[k - 1])
            BY <1>4, <1>6, <3>1, <3>2, InGraphBefore
        <3> QED  BY <3>1, <3>3
    <2>3. \A j \in 0..6 : j \in Q
        <3> HIDE DEF Q
        <3> QED  BY <2>1, <2>2, SixSteps
    <2>4. ASSUME NEW k \in 0..6  PROVE InGraph(c[k])
        <3>1. 6 - k \in 0..6 /\ 6 - (6 - k) = k
            OBVIOUS
        <3> QED  BY <2>3, <3>1
    <2> QED  BY <2>4
<1> DEFINE Q == {k \in 0..6 : Standing(c[k]) /\ Made[Len(c[k].nodes)] = Pic(clip, e[k])}
<1>8. 0 \in Q
    <2>1. c[0] = b
        BY <1>2 DEF IsChain
    <2>2. e[0] = before
        BY <1>3 DEF IsEffective
    <2> QED  BY <2>1, <2>2
<1>9. ASSUME NEW k \in 1..6, k - 1 \in Q  PROVE k \in Q
    <2> DEFINE p == c[k - 1]
               v == EffectAt(clip, k)
               passes == e[k - 1]
               pass == <<Passes[k], v>>
               d == Then(p, Passes[k], v)
    <2>1. Standing(p) /\ Made[Len(p.nodes)] = Pic(clip, passes) /\ Sound(p, frame)
        BY <1>4, <1>5, <1>9
    <2>2. v \in Nat /\ Standing(c[k]) /\ k \in 0..6
        BY <1>5, <1>6, <2>1
    <2>3. CASE v >= least
        <3>1. c[k] = d
            BY <1>5, <2>3
        <3>2. InGraph(d)
            BY <1>5, <1>7, <3>1
        <3>3. Made[Len(d.nodes)] = IF v = 1 THEN Made[Len(p.nodes)]
                                   ELSE [Made[Len(p.nodes)] EXCEPT !.through = Append(@, pass)]
            <4> DEFINE does == Passes[k]
            <4>1. does \in Doings \ {"upload", "still", "text", "sdrToRgb", "hdrToRgb"}
                BY <1>5
            <4>2. d = Then(p, does, v) /\ pass = <<does, v>>
                OBVIOUS
            <4> HIDE DEF p, v, does, d, pass
            <4>3. Sound(p, frame) /\ Standing(p) /\ v \in Nat /\ InGraph(Then(p, does, v))
                BY <2>1, <2>2, <3>2, <4>2
            <4>4. Passed(p, Then(p, does, v), does, v)
                BY <4>1, <4>3, ThenMade
            <4> QED  BY <4>2, <4>4 DEF Passed
        <3>4. CASE v = 1
            <4>1. e[k] = passes
                BY <1>5, <3>4
            <4> QED  BY <2>1, <2>2, <3>1, <3>3, <3>4, <4>1
        <3>5. CASE v # 1
            <4>1. e[k] = Append(passes, pass)
                <5>1. v >= 2
                    BY <2>2, <2>3, <3>5
                <5> QED  BY <1>5, <5>1
            <4> HIDE DEF d, p, passes, pass, v
            <4>2. [Pic(clip, passes) EXCEPT !.through = Append(@, pass)] = Pic(clip, Append(passes, pass))
                BY PicPass
            <4>3. Made[Len(c[k].nodes)] = Pic(clip, e[k])
                BY <2>1, <3>1, <3>3, <3>5, <4>1, <4>2
            <4> QED  BY <2>2, <4>3
        <3> QED  BY <3>4, <3>5
    <2>4. CASE ~(v >= least)
        <3>1. c[k] = p /\ e[k] = passes
            <4>1. ~(v >= 2)
                BY <2>2, <2>4
            <4> QED  BY <1>5, <2>4, <4>1
        <3> QED  BY <2>1, <2>2, <3>1
    <2> QED  BY <2>3, <2>4
<1>10. 6 \in Q
    <2> HIDE DEF Q
    <2> QED  BY <1>8, <1>9, SixSteps
<1> QED  BY <1>2, <1>3, <1>10 DEF IsChain, IsEffective

\* The passes before the effects.
Before(clip, who) ==
    (IF clip.kind = "video" THEN <<<<Conversion(clip), 0>>>> ELSE <<>>)
      \o (IF Maps(clip, who) THEN <<<<"tone", 0>>>> ELSE <<>>)

LEMMA WantedIs ==
    ASSUME NEW clip, IsClip(clip), NEW who, who = builder, who \in {"preview", "export"},
           ~(who = "export" /\ clip.kind = "text")
    PROVE  /\ Wanted(clip) = Pic(clip, Effective(clip, Before(clip, who)))
           /\ AsVideo(clip, who) <=> clip.kind = "video"
<1>1. AsVideo(clip, who) <=> clip.kind = "video"
    BY DEF AsVideo, IsClip
<1>2. Maps(clip, who) <=> \/ who = "export" /\ MapsStills
                          \/ clip.kind = "video" /\ clip.colour = "hdr"
    BY <1>1 DEF Maps
<1> DEFINE mapped == CASE clip.kind = "video" ->
                            <<<<Conversion(clip), 0>>>>
                              \o (IF clip.colour = "hdr" \/ (builder = "export" /\ MapsStills)
                                  THEN <<<<"tone", 0>>>> ELSE <<>>)
                       [] clip.kind = "still" ->
                            (IF builder = "export" /\ MapsStills THEN <<<<"tone", 0>>>> ELSE <<>>)
                       [] OTHER -> <<>>
<1>3. mapped = Before(clip, who)
    <2> DEFINE tone == <<<<"tone", 0>>>>
               conv == <<<<Conversion(clip), 0>>>>
    <2>1. <<>> \o tone = tone /\ <<>> \o <<>> = <<>>
        OBVIOUS
    <2>2. CASE clip.kind = "video"
        BY <1>2, <2>2 DEF Before
    <2>3. CASE clip.kind = "still"
        <3>1. mapped = IF who = "export" /\ MapsStills THEN tone ELSE <<>>
            BY <2>3
        <3>2. Before(clip, who) = <<>> \o (IF Maps(clip, who) THEN tone ELSE <<>>)
            BY <2>3 DEF Before
        <3>3. Maps(clip, who) <=> who = "export" /\ MapsStills
            BY <1>2, <2>3
        <3> HIDE DEF mapped, tone
        <3> QED  BY <2>1, <3>1, <3>2, <3>3
    <2>4. CASE clip.kind = "text"
        <3>1. mapped = <<>>
            BY <2>4
        <3>2. ~Maps(clip, who)
            BY <1>2, <2>4
        <3>3. Before(clip, who) = <<>> \o <<>>
            BY <2>4, <3>2 DEF Before
        <3> HIDE DEF mapped, tone
        <3> QED  BY <2>1, <3>1, <3>3
    <2> QED  BY <2>2, <2>3, <2>4 DEF IsClip
<1>4. Wanted(clip) = [Decoded(clip, frames) EXCEPT !.through = Effective(clip, mapped)]
    BY DEF Wanted
<1> HIDE DEF mapped
<1> DEFINE at == IF clip.kind = "video" THEN frames ELSE 0
           passes == Effective(clip, mapped)
<1>5. Decoded(clip, frames) = [of |-> clip.src, at |-> at, through |-> <<>>]
    BY DEF Decoded
<1>6. Pic(clip, passes) = [of |-> clip.src, at |-> at, through |-> passes]
    BY DEF Pic
<1>7. Wanted(clip) = Pic(clip, passes)
    <2> HIDE DEF at, passes
    <2>1. [Decoded(clip, frames) EXCEPT !.through = passes] = Pic(clip, passes)
        BY <1>5, <1>6
    <2> QED  BY <1>4, <2>1 DEF passes
<1> QED  BY <1>1, <1>3, <1>7

\* The mapping to the builder's colours.
LEMMA MappedMade ==
    ASSUME NEW h, Finishing(h), NEW r, Sound(r, frame), Standing(r), NEW clip, IsClip(clip),
           NEW who, InGraph(Mapped(r, clip, who)),
           Made[Len(r.nodes)] =
              Pic(clip, IF clip.kind = "video" THEN <<<<Conversion(clip), 0>>>> ELSE <<>>)
    PROVE  /\ Made[Len(Mapped(r, clip, who).nodes)] = Pic(clip, Before(clip, who))
           /\ Before(clip, who) \in Seq(Doings \X Nat)
<1> DEFINE conv == <<Conversion(clip), 0>>
           tone == <<"tone", 0>>
           first == IF clip.kind = "video" THEN <<conv>> ELSE <<>>
           m == Mapped(r, clip, who)
<1>1. conv \in Doings \X Nat /\ tone \in Doings \X Nat
    BY DEF Conversion, Doings
<1>2. Before(clip, who) = first \o (IF Maps(clip, who) THEN <<tone>> ELSE <<>>)
    BY DEF Before
<1> HIDE DEF conv, tone
<1>3. first \in Seq(Doings \X Nat)
    <2>1. <<conv>> \in Seq(Doings \X Nat) /\ <<>> \in Seq(Doings \X Nat)
        BY <1>1
    <2> QED  BY <2>1
<1>4. Made[Len(r.nodes)] = Pic(clip, first)
    BY DEF conv
<1> HIDE DEF first
<1>5. CASE Maps(clip, who)
    <2>1. m = Then(r, "tone", 0)
        BY <1>5 DEF Mapped
    <2>2. Before(clip, who) = Append(first, tone)
        <3>1. first \o <<tone>> = Append(first, tone)
            BY <1>1, <1>3
        <3> QED  BY <1>2, <1>5, <3>1
    <2>3. "tone" \in Doings \ {"upload", "still", "text", "sdrToRgb", "hdrToRgb"} /\ 0 \in Nat
        BY DEF Doings
    <2>4. Passed(r, Then(r, "tone", 0), "tone", 0)
        BY <2>1, <2>3, ThenMade
    <2>5. Made[Len(m.nodes)] = [Pic(clip, first) EXCEPT !.through = Append(@, tone)]
        <3> HIDE DEF m
        <3> QED  BY <1>4, <2>1, <2>4 DEF Passed, tone
    <2>6. Made[Len(m.nodes)] = Pic(clip, Append(first, tone))
        <3> HIDE DEF m
        <3>1. [Pic(clip, first) EXCEPT !.through = Append(@, tone)] = Pic(clip, Append(first, tone))
            BY PicPass
        <3> QED  BY <2>5, <3>1
    <2>7. Append(first, tone) \in Seq(Doings \X Nat)
        BY <1>1, <1>3, AppendProperties
    <2> QED  BY <2>2, <2>6, <2>7
<1>6. CASE ~Maps(clip, who)
    <2>1. m = r
        BY <1>6 DEF Mapped
    <2>2. Before(clip, who) = first
        <3>1. first \o <<>> = first
            BY <1>3
        <3> QED  BY <1>2, <1>6, <3>1
    <2> QED  BY <1>3, <1>4, <2>1, <2>2
<1> QED  BY <1>5, <1>6

LEMMA ClipMade ==
    ASSUME NEW h, Finishing(h), NEW i \in 1..Len(frame), ~Lost(frame[i]),
           ~(builder = "export" /\ frame[i].kind = "text")
    PROVE  InGraph(h[i]) /\ Made[Len(h[i].nodes)] = Wanted(frame[i])
<1> DEFINE clip == frame[i]
           N == Len(frame)
<1>1. /\ frame \in Frames /\ N \in Nat /\ N \in 0..N /\ uploads = h[N].uploads
      /\ builder \in {"preview", "export"} /\ IsBuild(h, frame, builder)
      /\ Len(graph) = Len(h[N].nodes) + 1 /\ Len(graph) \in Nat /\ Grows(h[N].nodes, graph)
      /\ IsClip(clip)
    BY FinishingFacts, ClipsOfFrames
<1>2. /\ i - 1 \in 0..N /\ i \in 0..N /\ Sound(h[i - 1], frame) /\ Sound(h[i], frame)
      /\ Clipped(h[i - 1], h[i], frame, i, builder)
    BY <1>1, BuildStep
<1>3. Sound(h[N], frame) /\ Len(h[N].nodes) \in Nat
    BY <1>1, BuilderSeqs DEF IsBuild
<1>4. InGraph(h[N])
    BY <1>1, <1>3 DEF InGraph
<1>5. InGraph(h[i])
    <2>1. i <= N
        BY <1>1
    <2>2. Continues(h[i], h[N])
        BY <1>1, <1>2, <2>1, BuildContinues
    <2> QED  BY <1>2, <1>4, <2>2, InGraphBefore DEF Continues
<1>6. PICK r, u : /\ Opens(h[i - 1], r, frame, i, AsVideo(clip, builder), u)
                  /\ h[i] = Finished(r, clip, builder, u)
    BY <1>2 DEF Clipped
<1>7. /\ Sound(r, frame) /\ Standing(r) /\ u \in 0..Len(r.nodes)
      /\ r.inputs = h[i - 1].inputs /\ r.uploads = h[i - 1].uploads
    BY <1>6 DEF Opens
<1>8. u \in Nat
    BY <1>7, BuilderSeqs
<1> DEFINE m == Mapped(r, clip, builder)
           e == EffectChain(m, clip, Least(builder))
<1>9. IsFinished(r, e, h[i], frame, u)
    BY <1>1, <1>6, <1>7, <1>8, FinishedSound
<1>10. Sound(m, frame) /\ Grows(r.nodes, m.nodes) /\ Standing(m)
    BY <1>1, <1>7, MappedSound
<1>11. Least(builder) \in {1, 2} /\ Least(builder) \in Nat
    BY DEF Least
<1>12. Sound(e, frame) /\ Grows(m.nodes, e.nodes)
    <2> HIDE DEF m
    <2> QED  BY <1>1, <1>10, <1>11, EffectSound
<1>13. h[i].nodes = e.nodes /\ h[i].uploads = Append(r.uploads, u)
    BY <1>9 DEF IsFinished
<1>14. InGraph(e)
    <2> HIDE DEF e
    <2> QED  BY <1>5, <1>12, <1>13 DEF InGraph
<1>15. InGraph(m)
    <2> HIDE DEF e, m
    <2> QED  BY <1>10, <1>12, <1>14, InGraphBefore
<1>16. InGraph(r)
    <2> HIDE DEF e, m
    <2> QED  BY <1>7, <1>10, <1>15, InGraphBefore
<1>17. uploads[i] = u
    <2>1. Len(h[i - 1].uploads) = i - 1
        BY <1>1, <1>2, BuildUploads
    <2>2. r.uploads \in Seq(Nat) /\ Len(r.uploads) + 1 = i
        <3>1. r.uploads \in Seq(Nat)
            BY <1>7, BuilderSeqs
        <3> QED  BY <1>7, <2>1, <3>1
    <2>3. Append(r.uploads, u)[Len(r.uploads) + 1] = u
        BY <1>8, <2>2, GrowsByOne
    <2>4. h[N].uploads[i] = h[i].uploads[i]
        BY <1>1, UploadAmong
    <2> QED  BY <1>1, <1>13, <2>2, <2>3, <2>4
<1>18. /\ Wanted(clip) = Pic(clip, Effective(clip, Before(clip, builder)))
       /\ AsVideo(clip, builder) <=> clip.kind = "video"
    <2> DEFINE who == builder
    <2>1. who = builder /\ who \in {"preview", "export"} /\ ~(who = "export" /\ clip.kind = "text")
        BY <1>1
    <2> HIDE DEF who, clip
    <2>2. /\ Wanted(clip) = Pic(clip, Effective(clip, Before(clip, who)))
          /\ AsVideo(clip, who) <=> clip.kind = "video"
        BY <1>1, <2>1, WantedIs
    <2> QED  BY <2>1, <2>2
<1>19. Made[Len(r.nodes)] =
          Pic(clip, IF clip.kind = "video" THEN <<<<Conversion(clip), 0>>>> ELSE <<>>)
    <2> DEFINE asVideo == AsVideo(clip, builder)
               b == h[i - 1]
    <2>1. Opens(b, r, frame, i, asVideo, u) /\ (asVideo <=> frame[i].kind = "video")
        BY <1>6, <1>18
    <2> HIDE DEF asVideo, b
    <2>2. Made[Len(r.nodes)] =
             Pic(frame[i], IF asVideo THEN <<<<Conversion(frame[i]), 0>>>> ELSE <<>>)
        BY <1>16, <1>17, <2>1, OpensMade
    <2> QED  BY <2>1, <2>2
<1>20. /\ Made[Len(m.nodes)] = Pic(clip, Before(clip, builder))
       /\ Before(clip, builder) \in Seq(Doings \X Nat)
    <2> HIDE DEF clip
    <2> QED  BY <1>1, <1>7, <1>15, <1>19, MappedMade
<1> HIDE DEF m, clip
<1>21. Made[Len(e.nodes)] = Pic(clip, Effective(clip, Before(clip, builder)))
    <2> DEFINE least == Least(builder)
               before == Before(clip, builder)
    <2>1. least \in {1, 2} /\ InGraph(EffectChain(m, clip, least)) /\ before \in Seq(Doings \X Nat)
          /\ Made[Len(m.nodes)] = Pic(clip, before)
        BY <1>11, <1>14, <1>20
    <2> HIDE DEF least, before
    <2>2. Made[Len(EffectChain(m, clip, least).nodes)] = Pic(clip, Effective(clip, before))
        BY <1>1, <1>10, <2>1, ChainMade
    <2> QED  BY <2>2 DEF least, before
<1>22. Made[Len(h[i].nodes)] = Wanted(clip)
    <2> HIDE DEF e
    <2> QED  BY <1>13, <1>18, <1>21
<1> QED  BY <1>5, <1>22 DEF clip

-----------------------------------------------------------------------------
(* The theorem about frames *)

LEMMA LayerShows ==
    ASSUME NEW h, Finishing(h), NEW i \in 1..Len(frame), \A j \in 1..i : ~Lost(frame[j]),
           ~(builder = "export" /\ frame[i].kind = "text")
    PROVE  Layer(i) = Wanted(frame[i])
<1> DEFINE N == Len(frame)
           last == Len(graph)
           c == h[i]
<1>1. /\ frame \in Frames /\ N \in Nat /\ builder \in {"preview", "export"}
      /\ IsBuild(h, frame, builder) /\ inputs = h[N].inputs /\ inputs \in Seq(Nat)
      /\ Len(inputs) \in Nat /\ DOMAIN graph = 1..last /\ last \in Nat
      /\ graph[last] = Composite(inputs)
    BY FinishingFacts
<1>2. i \in 1..i
    BY <1>1
<1>3. i \in 1..Len(inputs) /\ inputs[i] = c.cur /\ Standing(c)
    <2>1. /\ i \in 1..Len(h[N].inputs) /\ h[N].inputs[i] = h[i].cur
          /\ Standing(h[i])
        BY <1>1, TextureOf
    <2> QED  BY <1>1, <2>1
<1>4. InGraph(c) /\ Made[Len(c.nodes)] = Wanted(frame[i])
    BY <1>2, ClipMade
<1>5. Len(c.nodes) < last /\ Len(c.nodes) \in Nat /\ last \in DOMAIN graph
    <2>1. Len(c.nodes) < last /\ Len(c.nodes) \in Nat
        BY <1>4, BuilderSeqs DEF InGraph
    <2> QED  BY <1>1, <2>1
<1>6. c.cur \in graph[last].reads
    <2>1. graph[last].reads = ToSet(inputs) \cup {0}
        BY <1>1, CompositeIs
    <2>2. i \in DOMAIN inputs
        BY <1>1, <1>3, LenProperties
    <2>3. inputs[i] \in ToSet(inputs)
        BY <2>2 DEF ToSet
    <2> QED  BY <1>3, <2>1, <2>3
<1>7. Layer(i) = Made[seen[last][c.cur]]
    <2>1. i <= Len(inputs)
        BY <1>1, <1>3
    <2> QED  BY <1>3, <2>1 DEF Layer
<1>8. seen[last][c.cur] = Len(c.nodes)
    <2> HIDE DEF c, last
    <2> QED  BY <1>3, <1>4, <1>5, <1>6, StandingMade
<1> QED  BY <1>4, <1>7, <1>8

LEMMA TexturesBound ==
    ASSUME OfFrame, builder \in {"preview", "export"}
    PROVE  /\ Imported(graph) \subseteq Bound
           /\ inputs = <<>> => \A i \in DOMAIN frame : Lost(frame[i])
<1>1. PICK h : IsPicture(h, frame, builder, graph, inputs, uploads)
    BY PictureExists DEF OfFrame
<1>2. Neat(graph, frame) /\ IsBuild(h, frame, builder) /\ inputs = h[Len(frame)].inputs
    BY <1>1 DEF IsPicture
<1>3. Bound = Textures(frame)
    BY DEF Bound, Textures
<1>4. Imported(graph) \subseteq Bound
    BY <1>2, <1>3 DEF Neat, Imported
<1>5. ASSUME inputs = <<>>, NEW i \in DOMAIN frame, ~Lost(frame[i])  PROVE FALSE
    <2>1. frame \in Frames /\ Len(frame) \in Nat /\ DOMAIN frame = 1..Len(frame)
          /\ Len(frame) \in 0..Len(frame)
        BY ClipsOfFrames DEF OfFrame
    <2>2. \E j \in 1..Len(frame) : ~Lost(frame[j])
        BY <1>5, <2>1
    <2>3. Len(h[Len(frame)].inputs) >= 1
        BY <1>2, <2>1, <2>2, BuildInputs
    <2>4. Len(inputs) = 0
        BY <1>5
    <2> QED  BY <1>2, <2>3, <2>4
<1> QED  BY <1>4, <1>5

LEMMA FrameInvSuffices == IInv /\ FrameInv => FrameShowsTimeline
<1> SUFFICES ASSUME IInv, FrameInv  PROVE FrameShowsTimeline
    OBVIOUS
<1>1. ASSUME status = "panicked", NEW i \in DOMAIN frame
      PROVE  frame[i].kind = "still" /\ frame[i].src \in Missing
    <2>1. Panics /\ builder # "custom"
        BY <1>1 DEF FrameInv, Panics
    <2>2. OfFrame /\ builder \in {"preview", "export"}
        BY <1>1, <2>1 DEF FrameInv
    <2>3. inputs = <<>>
        BY <2>1, <2>2, TexturesBound DEF Panics
    <2>4. Lost(frame[i])
        BY <2>2, <2>3, TexturesBound
    <2> QED  BY <2>4 DEF Lost
<1>2. ASSUME status = "running", builder # "custom", done = DOMAIN graph, NEW i \in DOMAIN frame,
             ~\E j \in 1..i : frame[j].kind = "still" /\ frame[j].src \in Missing,
             ~(builder = "export" /\ frame[i].kind = "text")
      PROVE  Layer(i) = Wanted(frame[i])
    <2>1. OfFrame /\ ~Panics /\ builder \in {"preview", "export"} /\ ReadAsAdded
        BY <1>2 DEF FrameInv, IInv, OfFrame
    <2>2. DOMAIN frame = 1..Len(frame)
        BY <2>1, ClipsOfFrames DEF OfFrame
    <2>3. frame # <<>>
        <3>1. DOMAIN <<>> = {}
            OBVIOUS
        <3> QED  BY <1>2, <3>1
    <2>4. inputs # <<>>
        BY <1>2, <2>1, <2>3 DEF Panics
    <2>5. PICK h : IsPicture(h, frame, builder, graph, inputs, uploads)
        BY <2>1, PictureExists DEF OfFrame
    <2>6. Finishing(h)
        BY <1>2, <2>1, <2>4, <2>5 DEF Finishing
    <2>7. \A j \in 1..i : ~Lost(frame[j])
        BY <1>2 DEF Lost
    <2> QED  BY <1>2, <2>2, <2>6, <2>7, LayerShows
<1> QED  BY <1>1, <1>2 DEF FrameShowsTimeline

\* FrameShowsTimeline (ui/app.rs, compile_export_graph; export/renderer.rs,
\* ensure_graph and upload_frame_data) in every state, for every set of frames of
\* any length, all effects and all orders of the nodes: each layer of a finished
\* frame is its clip as it is in this frame, decoded for this frame, with the
\* effects it has now, whether the graph is new or kept.
THEOREM FramesShowTimeline == Spec => []FrameShowsTimeline
<1>1. Init => IInv /\ FrameInv
    BY InitHolds DEF Init, GraphInit, FrameInv
<1>2. (IInv /\ FrameInv) /\ [Next]_vars => (IInv /\ FrameInv)'
    BY FramesKept
<1>3. IInv /\ FrameInv => FrameShowsTimeline
    BY FrameInvSuffices
<1> QED  BY <1>1, <1>2, <1>3, PTL DEF Spec
=============================================================================
