---------------------------- MODULE Editor_proofs -----------------------------
(***************************************************************************)
(* Proofs about Editor and the clip store of Timeline, for every set of    *)
(* media, tracks, speeds and loaded projects and every length of session.  *)
(***************************************************************************)
EXTENDS Editor, SequenceTheorems, FiniteSetTheorems, WellFoundedInduction, TLAPS

-----------------------------------------------------------------------------
(* Sets of indices, and folds over sequences *)

\* A set of indices that is not empty has a first one.
LEMMA FirstExists ==
    ASSUME NEW S \in SUBSET Nat, S # {}
    PROVE  \E w \in S : \A x \in S : w <= x
<1> DEFINE below == OpToRel(<, Nat)
<1>1. IsWellFoundedOn(below, Nat)
    BY NatLessThanWellFounded, Zenon
<1>2. PICK w \in S : \A x \in S : <<x, w>> \notin below
    <2> HIDE DEF below
    <2> QED  BY <1>1, WFMin
<1>3. ASSUME NEW x \in S  PROVE w <= x
    <2>1. ~(x < w)
        BY <1>2 DEF OpToRel
    <2> QED  BY <2>1
<1> QED  BY <1>3

\* A set of indices of a sequence that is not empty has a last one.
LEMMA LastExists ==
    ASSUME NEW n \in Nat, NEW S \in SUBSET (1..n), S # {}
    PROVE  Max(S) \in S /\ \A x \in S : x <= Max(S)
<1> DEFINE fromEnd == {n - x : x \in S}
<1>1. fromEnd \in SUBSET Nat /\ fromEnd # {}
    <2>1. ASSUME NEW x \in S  PROVE n - x \in Nat
        <3>1. x \in 1..n
            OBVIOUS
        <3> QED  BY <3>1
    <2> QED  BY <2>1
<1>2. PICK d \in fromEnd : \A e \in fromEnd : d <= e
    <2> HIDE DEF fromEnd
    <2> QED  BY <1>1, FirstExists
<1>3. PICK w \in S : d = n - w
    OBVIOUS
<1>4. ASSUME NEW x \in S  PROVE x <= w
    <2>1. n - x \in fromEnd
        OBVIOUS
    <2>2. n - w <= n - x
        BY <1>2, <1>3, <2>1
    <2> QED  BY <2>2
<1>5. \E m \in S : \A x \in S : x <= m
    BY <1>4
<1>6. \E m \in S : \A x \in S : m >= x
    BY <1>5
<1> QED  BY <1>6 DEF Max

\* How many of the first n there are in a set.
LEMMA CountIn ==
    ASSUME NEW n \in Nat, NEW S \in SUBSET (1..n)
    PROVE  IsFiniteSet(S) /\ Cardinality(S) \in 0..n
<1>1. IsFiniteSet(1..n) /\ Cardinality(1..n) = n
    <2>1. 1 \in Int /\ n \in Int
        OBVIOUS
    <2>2. IsFiniteSet(1..n) /\ Cardinality(1..n) = IF 1 > n THEN 0 ELSE n - 1 + 1
        BY <2>1, FS_Interval
    <2>3. (IF 1 > n THEN 0 ELSE n - 1 + 1) = n
        OBVIOUS
    <2> QED  BY <2>2, <2>3
<1>2. IsFiniteSet(S) /\ Cardinality(S) <= Cardinality(1..n)
    BY <1>1, FS_Subset
<1>3. Cardinality(S) \in Nat
    BY <1>2, FS_CardinalityType
<1> QED  BY <1>1, <1>2, <1>3

\* The function behind a fold of n elements: from a set of indices to what the
\* fold makes of them. It takes the last index last.
IsFold(F, base, n, g) ==
    \A S \in SUBSET (1..n) : F[S] = IF S = {} THEN base ELSE g[<<F[S \ {Max(S)}], Max(S)>>]

\* It exists, and stays in the set that the step stays in.
LEMMA FoldExists ==
    ASSUME NEW X, NEW base \in X, NEW n \in Nat, NEW g \in [X \X (1..n) -> X]
    PROVE  \E F \in [SUBSET (1..n) -> X] : IsFold(F, base, n, g)
<1> DEFINE Upto(F, k) == F \in [SUBSET (1..k) -> X] /\ IsFold(F, base, k, g)
           bad == {k \in 0..n : ~\E F : Upto(F, k)}
<1>1. SUFFICES ASSUME bad # {}  PROVE FALSE
    <2>1. n \notin bad => \E F : Upto(F, n)
        <3> HIDE DEF Upto
        <3> QED  OBVIOUS
    <2> QED  BY <1>1, <2>1
<1>2. PICK k \in bad : \A j \in bad : k <= j
    <2>1. bad \in SUBSET Nat
        OBVIOUS
    <2> HIDE DEF bad
    <2> QED  BY <1>1, <2>1, FirstExists
<1>3. CASE k = 0
    <2> DEFINE F == [S \in SUBSET (1..0) |-> base]
    <2>1. 1..0 = {}
        OBVIOUS
    <2>2. \A S \in SUBSET (1..0) : S = {}
        BY <2>1
    <2>3. Upto(F, 0)
        BY <2>2 DEF IsFold
    <2> QED  BY <1>3, <2>3, <1>2
<1>4. CASE k # 0
    <2>1. /\ k \in Nat /\ k - 1 \in Nat /\ k - 1 \in 0..n /\ k - 1 \notin bad
          /\ k \in 1..n /\ 1..k \subseteq 1..n
        <3>1. k \in 0..n
            OBVIOUS
        <3>2. k - 1 \in 0..n /\ ~(k <= k - 1)
            BY <3>1, <1>4
        <3>3. k - 1 \notin bad
            <4> HIDE DEF bad
            <4> QED  BY <1>2, <3>2
        <3> HIDE DEF bad
        <3> QED  BY <3>1, <3>2, <3>3
    <2>2. PICK F : Upto(F, k - 1)
        <3> HIDE DEF Upto
        <3> QED  BY <2>1
    <2> DEFINE H == [S \in SUBSET (1..k) |->
                        IF S \in SUBSET (1..(k - 1)) THEN F[S]
                        ELSE g[<<F[S \ {k}], k>>]]
    <2>3. ASSUME NEW S \in SUBSET (1..k), S \notin SUBSET (1..(k - 1))
          PROVE  S # {} /\ Max(S) = k /\ S \ {k} \in SUBSET (1..(k - 1))
        <3>1. k \in S
            <4>1. ASSUME k \notin S, NEW x \in S  PROVE x \in 1..(k - 1)
                <5>1. x \in 1..k /\ x # k
                    BY <4>1
                <5> QED  BY <5>1, <2>1
            <4> QED  BY <2>3, <4>1
        <3>2. Max(S) \in S /\ \A x \in S : x <= Max(S)
            BY <2>1, <3>1, LastExists
        <3>3. Max(S) \in 1..k /\ k <= Max(S)
            BY <3>1, <3>2
        <3>4. Max(S) = k
            BY <3>3, <2>1
        <3>5. ASSUME NEW x \in S \ {k}  PROVE x \in 1..(k - 1)
            <4>1. x \in 1..k /\ x # k
                BY <3>5
            <4> QED  BY <4>1, <2>1
        <3> QED  BY <3>1, <3>4, <3>5
    <2>4. H \in [SUBSET (1..k) -> X]
        <3>1. ASSUME NEW S \in SUBSET (1..k)  PROVE H[S] \in X
            <4>1. CASE S \in SUBSET (1..(k - 1))
                BY <2>2, <4>1
            <4>2. CASE S \notin SUBSET (1..(k - 1))
                <5>1. F[S \ {k}] \in X
                    BY <2>2, <2>3, <4>2
                <5>2. <<F[S \ {k}], k>> \in X \X (1..n)
                    BY <2>1, <5>1
                <5> QED  BY <5>2, <4>2
            <4> QED  BY <4>1, <4>2
        <3> QED  BY <3>1
    <2>5. ASSUME NEW S \in SUBSET (1..k)
          PROVE  H[S] = IF S = {} THEN base ELSE g[<<H[S \ {Max(S)}], Max(S)>>]
        <3>1. CASE S \in SUBSET (1..(k - 1))
            <4>1. S \ {Max(S)} \in SUBSET (1..(k - 1)) /\ S \ {Max(S)} \in SUBSET (1..k)
                BY <3>1
            <4>2. H[S] = F[S] /\ H[S \ {Max(S)}] = F[S \ {Max(S)}]
                BY <3>1, <4>1
            <4> HIDE DEF H
            <4> QED  BY <3>1, <4>2, <2>2 DEF IsFold
        <3>2. CASE S \notin SUBSET (1..(k - 1))
            <4>1. S # {} /\ Max(S) = k /\ S \ {k} \in SUBSET (1..(k - 1))
                BY <2>3, <3>2
            <4>2. H[S] = g[<<F[S \ {k}], k>>]
                BY <3>2
            <4>3. H[S \ {k}] = F[S \ {k}]
                BY <4>1
            <4> HIDE DEF H
            <4> QED  BY <4>1, <4>2, <4>3
        <3> QED  BY <3>1, <3>2
    <2>6. Upto(H, k)
        <3> HIDE DEF H
        <3> QED  BY <2>4, <2>5 DEF IsFold
    <2> HIDE DEF H
    <2> QED  BY <2>6, <1>2
<1> QED  BY <1>3, <1>4

\* What every step keeps, the whole fold keeps.
LEMMA FoldKeeps ==
    ASSUME NEW X, NEW n \in Nat, NEW F, F[{}] \in X,
           \A S \in SUBSET (1..n) : S # {} /\ F[S \ {Max(S)}] \in X => F[S] \in X
    PROVE  F[1..n] \in X
<1> DEFINE bad == {k \in 0..n : \E S \in SUBSET (1..k) : F[S] \notin X}
<1>1. SUFFICES ASSUME bad # {}  PROVE FALSE
    <2>1. n \notin bad => F[1..n] \in X
        OBVIOUS
    <2> QED  BY <2>1
<1>2. PICK k \in bad : \A j \in bad : k <= j
    <2>1. bad \in SUBSET Nat
        OBVIOUS
    <2> HIDE DEF bad
    <2> QED  BY <1>1, <2>1, FirstExists
<1>3. PICK S \in SUBSET (1..k) : F[S] \notin X
    BY <1>2
<1>4. k \in Nat /\ 1..k \subseteq 1..n
    BY <1>2
<1>5. S \in SUBSET (1..n) /\ S # {}
    BY <1>3, <1>4
<1>6. Max(S) \in S /\ \A x \in S : x <= Max(S)
    BY <1>4, <1>5, <1>3, LastExists
<1>7. Max(S) \in 1..k
    BY <1>3, <1>6
<1>8. ASSUME NEW x \in S \ {Max(S)}  PROVE x \in 1..(Max(S) - 1)
    <2>1. x \in 1..k /\ x <= Max(S) /\ x # Max(S)
        BY <1>6
    <2> QED  BY <2>1, <1>7, <1>4
<1>9. Max(S) - 1 \in 0..n /\ Max(S) - 1 < k /\ ~(k <= Max(S) - 1)
    BY <1>2, <1>7
<1>10. Max(S) - 1 \notin bad
    <2> HIDE DEF bad
    <2> QED  BY <1>2, <1>9
<1>11. F[S \ {Max(S)}] \in X
    BY <1>8, <1>9, <1>10
<1> QED  BY <1>3, <1>5, <1>11

\* A run of a step function, from a start, is a function of the step's number.
IsRun(h, base, n, g) ==
    h[0] = base /\ \A k \in 1..n : h[k] = g[<<h[k - 1], k>>]

LEMMA RunExists ==
    ASSUME NEW X, NEW base \in X, NEW n \in Nat, NEW g \in [X \X (1..n) -> X]
    PROVE  \E h \in [0..n -> X] : IsRun(h, base, n, g)
<1>1. PICK F \in [SUBSET (1..n) -> X] : IsFold(F, base, n, g)
    BY FoldExists
<1> DEFINE h == [k \in 0..n |-> F[1..k]]
<1>2. ASSUME NEW k \in 0..n  PROVE 1..k \in SUBSET (1..n)
    BY <1>2
<1>3. h \in [0..n -> X]
    BY <1>2
<1>4. h[0] = base
    <2>1. 1..0 = {} /\ 0 \in 0..n
        OBVIOUS
    <2> QED  BY <2>1, <1>1, <1>2 DEF IsFold
<1>5. ASSUME NEW k \in 1..n  PROVE h[k] = g[<<h[k - 1], k>>]
    <2>1. k - 1 \in 0..n /\ k \in 0..n /\ 1..k # {} /\ k \in Nat
        BY <1>5
    <2>2. Max(1..k) = k
        <3>1. Max(1..k) \in 1..k /\ \A x \in 1..k : x <= Max(1..k)
            BY <2>1, LastExists
        <3> QED  BY <3>1, <2>1
    <2>3. (1..k) \ {k} = 1..(k - 1)
        BY <2>1
    <2>4. F[1..k] = g[<<F[1..(k - 1)], k>>]
        BY <1>1, <1>2, <2>1, <2>2, <2>3 DEF IsFold
    <2> QED  BY <1>3, <2>1, <2>4
<1>6. IsRun(h, base, n, g)
    BY <1>4, <1>5 DEF IsRun
<1> HIDE DEF h
<1> QED  BY <1>3, <1>6

\* What holds of 0 and of each number after another up to n holds up to n.
LEMMA Upto ==
    ASSUME NEW n \in Nat, NEW Q, 0 \in Q, \A k \in 1..n : k - 1 \in Q => k \in Q
    PROVE  \A k \in 0..n : k \in Q
<1> DEFINE bad == {k \in 0..n : k \notin Q}
<1> SUFFICES ASSUME bad # {}  PROVE FALSE
    OBVIOUS
<1>1. PICK k \in bad : \A j \in bad : k <= j
    <2>1. bad \in SUBSET Nat
        OBVIOUS
    <2> HIDE DEF bad
    <2> QED  BY <2>1, FirstExists
<1>2. k \in 0..n /\ k \notin Q /\ k # 0
    OBVIOUS
<1>3. k \in 1..n /\ k - 1 \in 0..n /\ ~(k <= k - 1)
    BY <1>2
<1>4. k - 1 \notin bad
    <2> HIDE DEF bad
    <2> QED  BY <1>1, <1>3
<1>5. k - 1 \in Q
    BY <1>3, <1>4
<1> QED  BY <1>2, <1>3, <1>5

\* The values of a fold over the first k elements are a run, as long as the
\* fold takes the step g wherever it is in X.
Folds(fold, X, base, n, g) ==
    /\ fold[{}] = base
    /\ \A S \in SUBSET (1..n) :
         S # {} /\ fold[S \ {Max(S)}] \in X => fold[S] = g[<<fold[S \ {Max(S)}], Max(S)>>]

FoldRuns(fold, X, base, n, g) ==
    \E h \in [0..n -> X] : IsRun(h, base, n, g) /\ h[n] = fold[1..n]

LEMMA RunOfFold ==
    ASSUME NEW X, NEW base \in X, NEW n \in Nat, NEW g \in [X \X (1..n) -> X], NEW fold,
           Folds(fold, X, base, n, g)
    PROVE  FoldRuns(fold, X, base, n, g)
<1> DEFINE h == [k \in 0..n |-> fold[1..k]]
           Q == {k \in 0..n : h[k] \in X}
<1>1. h[0] = base
    <2>1. 1..0 = {} /\ 0 \in 0..n
        OBVIOUS
    <2> QED  BY <2>1 DEF Folds
<1>2. ASSUME NEW k \in 1..n, h[k - 1] \in X  PROVE h[k] = g[<<h[k - 1], k>>]
    <2>1. k - 1 \in 0..n /\ k \in 0..n /\ k \in Nat
        OBVIOUS
    <2>2. k \in 1..k
        OBVIOUS
    <2>3. Max(1..k) = k
        <3>1. 1..k \in SUBSET (1..k) /\ 1..k # {}
            BY <2>2
        <3>2. Max(1..k) \in 1..k /\ \A x \in 1..k : x <= Max(1..k)
            BY <2>1, <3>1, LastExists
        <3> QED  BY <2>1, <2>2, <3>2
    <2>4. (1..k) \ {k} = 1..(k - 1) /\ 1..k \in SUBSET (1..n) /\ 1..k # {}
        <3>1. (1..k) \ {k} = 1..(k - 1)
            BY <2>1
        <3>2. 1..k \in SUBSET (1..n)
            OBVIOUS
        <3>3. 1..k # {}
            BY <2>2
        <3> QED  BY <3>1, <3>2, <3>3
    <2>5. h[k - 1] = fold[1..(k - 1)] /\ h[k] = fold[1..k]
        BY <2>1
    <2> HIDE DEF h
    <2> QED  BY <1>2, <2>3, <2>4, <2>5 DEF Folds
<1>3. h[n] = fold[1..n]
    OBVIOUS
<1> HIDE DEF h
<1>4. 0 \in Q
    BY <1>1
<1>5. ASSUME NEW k \in 1..n, k - 1 \in Q  PROVE k \in Q
    <2>1. <<h[k - 1], k>> \in X \X (1..n)
        BY <1>5
    <2>2. h[k] = g[<<h[k - 1], k>>]
        BY <1>2, <1>5
    <2> QED  BY <2>1, <2>2
<1>6. \A k \in 0..n : k \in Q
    <2> HIDE DEF Q
    <2> QED  BY <1>4, <1>5, Upto
<1>7. h \in [0..n -> X]
    BY <1>6 DEF h
<1>8. \A k \in 1..n : h[k] = g[<<h[k - 1], k>>]
    <2>1. ASSUME NEW k \in 1..n  PROVE k - 1 \in 0..n
        OBVIOUS
    <2> QED  BY <1>2, <1>6, <2>1
<1>9. IsRun(h, base, n, g)
    BY <1>1, <1>8 DEF IsRun
<1> QED  BY <1>3, <1>7, <1>9 DEF FoldRuns

-----------------------------------------------------------------------------
(* The clip store *)

\* Clips as a command passes them, for a project with tracks T.
Passed(T) == {c \in ClipType : c.track \in T}

StoreType(T) ==
    {st \in [clips : Seq(Passed(T)), keys : SUBSET KeyType, nextId : Nat] :
        \A i \in DOMAIN st.clips : st.clips[i].id \in Nat}

\* Stores that are as they should be, and what a mutation returns.
Stores(T) == {st \in StoreType(T) : Ordered(st) /\ Owned(st)}
Results(T) == [ok : BOOLEAN, s : Stores(T), id : Int]

\* What a store is made of.
LEMMA StoreParts ==
    ASSUME NEW T, NEW st \in Stores(T)
    PROVE  /\ st = [clips |-> st.clips, keys |-> st.keys, nextId |-> st.nextId]
           /\ st.clips \in Seq(Passed(T)) /\ Len(st.clips) \in Nat
           /\ DOMAIN st.clips = 1..Len(st.clips)
           /\ st.keys \in SUBSET KeyType /\ st.nextId \in Nat
           /\ \A i \in 1..Len(st.clips) :
                /\ st.clips[i] \in Passed(T)
                /\ st.clips[i].id \in Nat /\ st.clips[i].id < st.nextId
           /\ \A i, j \in 1..Len(st.clips) : i < j => st.clips[i].ptsIn <= st.clips[j].ptsIn
           /\ \A i, j \in 1..Len(st.clips) : i # j => st.clips[i].id # st.clips[j].id
           /\ \A k \in st.keys : k.clip \in Ids(st)
BY DEF Stores, StoreType, Ordered, Owned

\* The clips of a store.
Shelf(st) == {st.clips[i] : i \in DOMAIN st.clips}

LEMMA ShelfPassed ==
    ASSUME NEW T, NEW st \in Stores(T)  PROVE Shelf(st) \subseteq Passed(T)
BY StoreParts DEF Shelf

\* The parts of a clip.
LEMMA ClipParts ==
    ASSUME NEW T, NEW c \in Passed(T)
    PROVE  /\ c.id \in Int /\ c.track \in T /\ c.track \in Nat /\ c.src \in Sources
           /\ c.ptsIn \in Int /\ c.ptsOut \in Int /\ c.sourceIn \in Nat
           /\ c.speed \in Speeds \cup {SpeedUnit} /\ c.speed \in Nat \ {0}
           /\ Duration(c) \in Int
           /\ c.layer \in Nat \X Nat /\ c.look \in Looks \X Looks
<1>1. /\ c.id \in Int /\ c.track \in T /\ c.track \in Nat /\ c.src \in Sources
      /\ c.ptsIn \in Int /\ c.ptsOut \in Int /\ c.sourceIn \in Nat
      /\ c.speed \in Speeds \cup {SpeedUnit}
      /\ c.layer \in Nat \X Nat /\ c.look \in Looks \X Looks
    BY DEF Passed, ClipType
<1>2. c.speed \in Nat \ {0}
    BY <1>1, EditorAssumption, SpeedUnitAssumption
<1>3. Duration(c) \in Int
    BY <1>1 DEF Duration
<1> QED  BY <1>1, <1>2, <1>3

\* A clip handed on with some of its fields changed.
LEMMA PassedOn ==
    ASSUME NEW T, NEW c \in Passed(T)
    PROVE  /\ \A x \in Int : /\ [c EXCEPT !.id = x] \in Passed(T)
                            /\ [c EXCEPT !.id = x].id = x
                            /\ [c EXCEPT !.id = x].ptsIn = c.ptsIn
           /\ \A a, b \in Int : [c EXCEPT !.ptsIn = a, !.ptsOut = b] \in Passed(T)
           /\ \A x \in Int : [c EXCEPT !.ptsOut = x, !.fadeOut = 0] \in Passed(T)
           /\ \A x \in Int, n \in Nat : [c EXCEPT !.ptsIn = x, !.sourceIn = n] \in Passed(T)
           /\ \A x \in Int, n \in Nat :
                [c EXCEPT !.ptsIn = x, !.sourceIn = n, !.fadeIn = 0] \in Passed(T)
BY DEF Passed, ClipType

\* An id finds its clip.
LEMMA FoundById ==
    ASSUME NEW T, NEW st \in Stores(T), NEW id \in Ids(st)
    PROVE  /\ IndexOf(st, id) \in 1..Len(st.clips)
           /\ ClipOf(st, id) = st.clips[IndexOf(st, id)]
           /\ ClipOf(st, id).id = id /\ ClipOf(st, id) \in Passed(T) /\ id \in Nat
<1>1. PICK i \in DOMAIN st.clips : st.clips[i].id = id
    BY DEF Ids
<1>2. IndexOf(st, id) \in DOMAIN st.clips /\ st.clips[IndexOf(st, id)].id = id
    BY <1>1 DEF IndexOf
<1> QED  BY <1>2, StoreParts DEF ClipOf

\* A clip put in between.
LEMMA PutIn ==
    ASSUME NEW A, NEW q \in Seq(A), NEW k \in 0..Len(q), NEW e \in A
    PROVE  /\ InsertAt(q, k + 1, e) \in Seq(A) /\ Len(InsertAt(q, k + 1, e)) = Len(q) + 1
           /\ \A i \in 1..(Len(q) + 1) :
                InsertAt(q, k + 1, e)[i] = IF i <= k THEN q[i] ELSE IF i = k + 1 THEN e
                                           ELSE q[i - 1]
<1>1. Len(q) \in Nat /\ k \in Nat /\ k <= Len(q) /\ (k + 1) - 1 = k
    BY LenProperties
<1>2. \A i \in 1..k : q[i] \in A
    BY <1>1, ElementOfSeq
<1>3. \A i \in (k + 1)..Len(q) : q[i] \in A
    BY <1>1, ElementOfSeq
<1>4. /\ SubSeq(q, 1, k) \in Seq(A) /\ Len(SubSeq(q, 1, k)) = k
      /\ \A i \in 1..k : SubSeq(q, 1, k)[i] = q[i]
    BY <1>1, <1>2, SubSeqProperties
<1>5. /\ SubSeq(q, k + 1, Len(q)) \in Seq(A) /\ Len(SubSeq(q, k + 1, Len(q))) = Len(q) - k
      /\ \A i \in 1..(Len(q) - k) : SubSeq(q, k + 1, Len(q))[i] = q[k + i]
    BY <1>1, <1>3, SubSeqProperties
<1>6. /\ SubSeq(q, 1, k) \o <<e>> \in Seq(A) /\ Len(SubSeq(q, 1, k) \o <<e>>) = k + 1
      /\ \A i \in 1..(k + 1) :
           (SubSeq(q, 1, k) \o <<e>>)[i] = IF i <= k THEN q[i] ELSE e
    BY <1>1, <1>4, ConcatProperties
<1> DEFINE front == SubSeq(q, 1, k) \o <<e>>
           back == SubSeq(q, k + 1, Len(q))
<1>7. InsertAt(q, k + 1, e) = front \o back
    BY <1>1 DEF InsertAt
<1> HIDE DEF front, back
<1>8. /\ front \in Seq(A) /\ Len(front) = k + 1
      /\ back \in Seq(A) /\ Len(back) = Len(q) - k
      /\ \A i \in 1..(k + 1) : front[i] = IF i <= k THEN q[i] ELSE e
      /\ \A i \in 1..(Len(q) - k) : back[i] = q[k + i]
    BY <1>5, <1>6 DEF front, back
<1>9. /\ front \o back \in Seq(A) /\ Len(front \o back) = Len(q) + 1
      /\ \A i \in 1..(Len(q) + 1) :
           (front \o back)[i] = IF i <= k + 1 THEN front[i] ELSE back[i - (k + 1)]
    BY <1>1, <1>8, ConcatProperties
<1>10. ASSUME NEW i \in 1..(Len(q) + 1), i > k + 1
       PROVE  back[i - (k + 1)] = q[i - 1]
    <2>1. i - (k + 1) \in 1..(Len(q) - k) /\ k + (i - (k + 1)) = i - 1
        BY <1>1, <1>10
    <2> QED  BY <2>1, <1>8
<1>11. ASSUME NEW i \in 1..(Len(q) + 1)
       PROVE  (front \o back)[i] = IF i <= k THEN q[i] ELSE IF i = k + 1 THEN e ELSE q[i - 1]
    <2>1. CASE i <= k + 1
        <3>1. i \in 1..(k + 1)
            BY <1>1, <2>1
        <3> QED  BY <1>1, <1>8, <1>9, <2>1, <3>1
    <2>2. CASE i > k + 1
        <3>1. (front \o back)[i] = back[i - (k + 1)]
            BY <1>1, <1>9, <2>2
        <3>2. back[i - (k + 1)] = q[i - 1]
            BY <1>10, <2>2
        <3> QED  BY <1>1, <2>2, <3>1, <3>2
    <2>3. i <= k + 1 \/ i > k + 1
        BY <1>1
    <2> QED  BY <2>1, <2>2, <2>3
<1>12. /\ InsertAt(q, k + 1, e) \in Seq(A) /\ Len(InsertAt(q, k + 1, e)) = Len(q) + 1
    BY <1>7, <1>9, Zenon
<1>13. ASSUME NEW i \in 1..(Len(q) + 1)
       PROVE  InsertAt(q, k + 1, e)[i] = IF i <= k THEN q[i] ELSE IF i = k + 1 THEN e
                                         ELSE q[i - 1]
    <2>1. InsertAt(q, k + 1, e)[i] = (front \o back)[i]
        BY <1>7, Zenon
    <2> QED  BY <2>1, <1>11, Zenon
<1> QED  BY <1>12, <1>13, Zenon

\* A clip taken out.
LEMMA TakeOut ==
    ASSUME NEW A, NEW q \in Seq(A), NEW k \in 1..Len(q)
    PROVE  /\ RemoveAt(q, k) \in Seq(A) /\ Len(RemoveAt(q, k)) = Len(q) - 1
           /\ \A i \in 1..(Len(q) - 1) :
                RemoveAt(q, k)[i] = IF i < k THEN q[i] ELSE q[i + 1]
<1>1. Len(q) \in Nat /\ k \in Nat /\ 1 <= k /\ k <= Len(q)
    BY LenProperties
<1> DEFINE front == SubSeq(q, 1, k - 1)
           back == SubSeq(q, k + 1, Len(q))
<1>2. \A i \in 1..(k - 1) : q[i] \in A
    BY <1>1, ElementOfSeq
<1>3. \A i \in (k + 1)..Len(q) : q[i] \in A
    BY <1>1, ElementOfSeq
<1>4. /\ front \in Seq(A) /\ Len(front) = k - 1
      /\ \A i \in 1..(k - 1) : front[i] = q[i]
    BY <1>1, <1>2, SubSeqProperties
<1>5. /\ back \in Seq(A) /\ Len(back) = Len(q) - k
      /\ \A i \in 1..(Len(q) - k) : back[i] = q[k + i]
    BY <1>1, <1>3, SubSeqProperties
<1>6. RemoveAt(q, k) = front \o back
    BY DEF RemoveAt
<1> HIDE DEF front, back
<1>7. /\ front \o back \in Seq(A) /\ Len(front \o back) = Len(q) - 1
      /\ \A i \in 1..(Len(q) - 1) :
           (front \o back)[i] = IF i <= k - 1 THEN front[i] ELSE back[i - (k - 1)]
    <2>1. Len(front) + Len(back) = Len(q) - 1
        BY <1>1, <1>4, <1>5
    <2>2. /\ front \o back \in Seq(A) /\ Len(front \o back) = Len(front) + Len(back)
          /\ \A i \in 1..(Len(front) + Len(back)) :
               (front \o back)[i] = IF i <= Len(front) THEN front[i] ELSE back[i - Len(front)]
        BY <1>4, <1>5, ConcatProperties
    <2> QED  BY <2>1, <2>2, <1>4
<1>8. ASSUME NEW i \in 1..(Len(q) - 1), i > k - 1
      PROVE  back[i - (k - 1)] = q[i + 1]
    <2>1. i - (k - 1) \in 1..(Len(q) - k) /\ k + (i - (k - 1)) = i + 1
        BY <1>1, <1>8
    <2> QED  BY <2>1, <1>5
<1>9. ASSUME NEW i \in 1..(Len(q) - 1)
      PROVE  (front \o back)[i] = IF i < k THEN q[i] ELSE q[i + 1]
    <2>1. CASE i <= k - 1
        <3>1. i \in 1..(k - 1)
            BY <1>1, <2>1
        <3> QED  BY <1>1, <1>4, <1>7, <2>1, <3>1
    <2>2. CASE i > k - 1
        <3>1. (front \o back)[i] = back[i - (k - 1)]
            BY <1>1, <1>7, <2>2
        <3>2. back[i - (k - 1)] = q[i + 1]
            BY <1>8, <2>2
        <3> QED  BY <1>1, <2>2, <3>1, <3>2
    <2>3. i <= k - 1 \/ i > k - 1
        BY <1>1
    <2> QED  BY <2>1, <2>2, <2>3
<1> QED  BY <1>6, <1>7, <1>9, Zenon

\* What makes a store.
LEMMA StoreMade ==
    ASSUME NEW T, NEW q \in Seq(Passed(T)), NEW ks \in SUBSET KeyType, NEW n \in Nat,
           \A i \in 1..Len(q) : q[i].id \in Nat /\ q[i].id < n,
           \A i, j \in 1..Len(q) : i < j => q[i].ptsIn <= q[j].ptsIn,
           \A i, j \in 1..Len(q) : i # j => q[i].id # q[j].id,
           \A k \in ks : \E i \in 1..Len(q) : q[i].id = k.clip
    PROVE  [clips |-> q, keys |-> ks, nextId |-> n] \in Stores(T)
<1> DEFINE st == [clips |-> q, keys |-> ks, nextId |-> n]
<1>1. st.clips = q /\ st.keys = ks /\ st.nextId = n /\ DOMAIN q = 1..Len(q)
    BY LenProperties
<1>2. st \in [clips : Seq(Passed(T)), keys : SUBSET KeyType, nextId : Nat]
    OBVIOUS
<1> HIDE DEF st
<1>3. st \in StoreType(T)
    BY <1>1, <1>2 DEF StoreType
<1>4. Ordered(st)
    BY <1>1, Zenon DEF Ordered
<1>5. Owned(st)
    BY <1>1 DEF Owned, Ids
<1> QED  BY <1>3, <1>4, <1>5 DEF Stores, st

\* Removing a clip takes its id and its keyframes away and nothing else.
LEMMA RemoveKeeps ==
    ASSUME NEW T, NEW st \in Stores(T), NEW id
    PROVE  /\ RemoveClip(st, id) \in Results(T)
           /\ RemoveClip(st, id).ok <=> id \in Ids(st)
           /\ RemoveClip(st, id).s.nextId = st.nextId
           /\ Ids(RemoveClip(st, id).s) = Ids(st) \ {id}
           /\ RemoveClip(st, id).s.keys \in SUBSET KeyType
<1>1. CASE id \notin Ids(st)
    <2>1. RemoveClip(st, id) = Fail(st)
        BY <1>1 DEF RemoveClip
    <2> QED  BY <1>1, <2>1, StoreParts DEF Fail, Results
<1>2. CASE id \in Ids(st)
    <2> DEFINE k == IndexOf(st, id)
               q == RemoveAt(st.clips, k)
               ks == RemoveKeys(st.keys, id)
    <2>1. k \in 1..Len(st.clips) /\ st.clips[k].id = id /\ id \in Nat
        BY <1>2, FoundById
    <2>2. /\ q \in Seq(Passed(T)) /\ Len(q) = Len(st.clips) - 1
          /\ \A i \in 1..(Len(st.clips) - 1) :
               q[i] = IF i < k THEN st.clips[i] ELSE st.clips[i + 1]
        <3> HIDE DEF k
        <3> QED  BY <2>1, StoreParts, TakeOut
    <2>3. RemoveClip(st, id) = Done([clips |-> q, keys |-> ks, nextId |-> st.nextId], id)
        <3>1. [st EXCEPT !.clips = q, !.keys = ks]
                = [clips |-> q, keys |-> ks, nextId |-> st.nextId]
            <4> DEFINE t == [clips |-> q, keys |-> st.keys, nextId |-> st.nextId]
            <4> HIDE DEF q, ks
            <4>1. [st EXCEPT !.clips = q] = t
                BY DEF Stores, StoreType
            <4>2. [st EXCEPT !.clips = q, !.keys = ks] = [[st EXCEPT !.clips = q] EXCEPT !.keys = ks]
                BY DEF Stores, StoreType
            <4>3. [t EXCEPT !.keys = ks] = [clips |-> q, keys |-> ks, nextId |-> st.nextId]
                OBVIOUS
            <4> QED  BY <4>1, <4>2, <4>3
        <3> QED  BY <1>2, <3>1 DEF RemoveClip
    <2> DEFINE At(i) == IF i < k THEN i ELSE i + 1
    <2> HIDE DEF k, q
    <2>4. ASSUME NEW i \in 1..Len(q)
          PROVE  q[i] = st.clips[At(i)] /\ At(i) \in 1..Len(st.clips) /\ At(i) # k
        <3>1. i \in 1..(Len(st.clips) - 1) /\ Len(st.clips) \in Nat
            BY <2>2, StoreParts
        <3> QED  BY <3>1, <2>1, <2>2
    <2>5. \A i, j \in 1..Len(q) : (i < j => At(i) < At(j)) /\ (i # j => At(i) # At(j))
        BY <2>1, StoreParts
    <2>6. ASSUME NEW j \in 1..Len(st.clips), j # k
          PROVE  \E i \in 1..Len(q) : j = At(i)
        <3>1. Len(st.clips) \in Nat
            BY StoreParts
        <3>2. CASE j < k
            <4>1. j \in 1..Len(q) /\ At(j) = j
                BY <3>1, <3>2, <2>1, <2>2
            <4> QED  BY <4>1
        <3>3. CASE j > k
            <4>1. j - 1 \in 1..Len(q) /\ At(j - 1) = j
                BY <3>1, <3>3, <2>1, <2>2
            <4> QED  BY <4>1
        <3> QED  BY <2>1, <2>6, <3>1, <3>2, <3>3
    <2> HIDE DEF At
    <2>7. Ids([clips |-> q, keys |-> ks, nextId |-> st.nextId]) = Ids(st) \ {id}
        <3>1. DOMAIN q = 1..Len(q) /\ DOMAIN st.clips = 1..Len(st.clips)
            BY <2>2, StoreParts, LenProperties
        <3>2. ASSUME NEW i \in 1..Len(q)  PROVE q[i].id \in Ids(st) \ {id}
            BY <2>1, <2>4, <3>1, StoreParts DEF Ids
        <3>3. ASSUME NEW x \in Ids(st) \ {id}  PROVE \E i \in 1..Len(q) : x = q[i].id
            <4>1. PICK j \in 1..Len(st.clips) : st.clips[j].id = x
                BY <3>1 DEF Ids
            <4>2. j # k
                BY <4>1, <2>1
            <4>3. PICK i \in 1..Len(q) : j = At(i)
                BY <2>6, <4>2
            <4> QED  BY <2>4, <4>1, <4>3
        <3>4. Ids([clips |-> q, keys |-> ks, nextId |-> st.nextId]) = {q[i].id : i \in 1..Len(q)}
            <4> DEFINE t == [clips |-> q, keys |-> ks, nextId |-> st.nextId]
            <4>1. t.clips = q
                OBVIOUS
            <4> HIDE DEF t
            <4>2. Ids(t) = {q[i].id : i \in 1..Len(q)}
                BY <3>1, <4>1 DEF Ids
            <4> QED  BY <4>2 DEF t
        <3> QED  BY <3>2, <3>3, <3>4
    <2>8. ks \in SUBSET KeyType
        BY StoreParts DEF RemoveKeys
    <2>9. [clips |-> q, keys |-> ks, nextId |-> st.nextId] \in Stores(T)
        <3>1. \A i \in 1..Len(q) : q[i].id \in Nat /\ q[i].id < st.nextId
            BY <2>4, StoreParts
        <3>2. \A i, j \in 1..Len(q) : i < j => q[i].ptsIn <= q[j].ptsIn
            BY <2>4, <2>5, StoreParts
        <3>3. \A i, j \in 1..Len(q) : i # j => q[i].id # q[j].id
            BY <2>4, <2>5, StoreParts, SMTT(30)
        <3>4. ASSUME NEW key \in ks  PROVE \E i \in 1..Len(q) : q[i].id = key.clip
            <4>1. key.clip \in Ids(st) \ {id}
                BY StoreParts DEF RemoveKeys
            <4>2. DOMAIN q = 1..Len(q)
                BY <2>2, LenProperties
            <4> QED  BY <4>1, <4>2, <2>7 DEF Ids
        <3> HIDE DEF ks
        <3> QED  BY <2>2, <2>8, <3>1, <3>2, <3>3, <3>4, StoreParts, StoreMade
    <2> HIDE DEF ks
    <2> QED  BY <1>2, <2>1, <2>3, <2>7, <2>8, <2>9 DEF Done, Results
<1> QED  BY <1>1, <1>2

\* The clips that start no later than a time are the first ones.
LEMMA Before ==
    ASSUME NEW A, NEW q \in Seq(A), \A i \in 1..Len(q) : q[i].ptsIn \in Int,
           \A i, j \in 1..Len(q) : i < j => q[i].ptsIn <= q[j].ptsIn,
           NEW at \in Int, NEW k, k = Cardinality({i \in DOMAIN q : q[i].ptsIn <= at})
    PROVE  k \in 0..Len(q) /\ \A i \in 1..Len(q) : q[i].ptsIn <= at <=> i <= k
<1> DEFINE early == {i \in DOMAIN q : q[i].ptsIn <= at}
<1>1. DOMAIN q = 1..Len(q) /\ Len(q) \in Nat
    BY LenProperties
<1>2. CASE early = {}
    <2>1. k = 0
        BY <1>2, FS_EmptySet
    <2>2. ASSUME NEW i \in 1..Len(q)  PROVE q[i].ptsIn <= at <=> i <= k
        <3>1. i \notin early
            BY <1>2
        <3>2. ~(q[i].ptsIn <= at)
            BY <1>1, <3>1
        <3> QED  BY <2>1, <3>2
    <2>3. k \in 0..Len(q)
        BY <1>1, <2>1
    <2> QED  BY <2>2, <2>3
<1>3. CASE early # {}
    <2> DEFINE m == Max(early)
    <2>1. early \in SUBSET (1..Len(q))
        BY <1>1
    <2>2. m \in early /\ \A x \in early : x <= m
        <3> HIDE DEF early
        <3> QED  BY <1>1, <1>3, <2>1, LastExists
    <2> HIDE DEF m
    <2>3. early = 1..m
        <3>1. m \in 1..Len(q) /\ q[m].ptsIn <= at
            BY <2>1, <2>2
        <3>2. ASSUME NEW i \in 1..m  PROVE i \in early
            <4>1. i \in 1..Len(q) /\ (i = m \/ i < m)
                BY <3>1, <1>1
            <4>2. q[i].ptsIn <= q[m].ptsIn
                BY <3>1, <4>1
            <4> QED  BY <1>1, <3>1, <4>1, <4>2
        <3>3. ASSUME NEW i \in early  PROVE i \in 1..m
            <4>1. i \in 1..Len(q) /\ i <= m
                BY <2>1, <2>2
            <4> QED  BY <4>1, <3>1
        <3> QED  BY <3>2, <3>3
    <2>4. Cardinality(early) = m /\ m \in 1..Len(q)
        <3>1. m \in 1..Len(q)
            BY <2>1, <2>2
        <3>2. Cardinality(1..m) = m
            BY <3>1, <1>1, FS_Interval
        <3> QED  BY <3>1, <3>2, <2>3
    <2>5. ASSUME NEW i \in 1..Len(q)  PROVE q[i].ptsIn <= at <=> i <= m
        <3>1. q[i].ptsIn <= at <=> i \in early
            BY <1>1
        <3>2. i \in 1..m <=> i <= m
            BY <2>4
        <3> QED  BY <3>1, <3>2, <2>3
    <2>6. k = m
        BY <2>4
    <2>7. k \in 0..Len(q)
        BY <1>1, <2>4, <2>6
    <2> QED  BY <2>5, <2>6, <2>7
<1> QED  BY <1>2, <1>3

\* Inserting a clip keeps the columns sorted, hands out the next id and
\* forgets no clip and no keyframe.
LEMMA InsertKeeps ==
    ASSUME NEW T, NEW st \in Stores(T), NEW p \in Passed(T)
    PROVE  /\ InsertClip(st, p) \in Results(T)
           /\ InsertClip(st, p).ok <=> p.ptsIn < p.ptsOut
           /\ InsertClip(st, p).s.keys = st.keys
           /\ p.ptsIn < p.ptsOut =>
                /\ InsertClip(st, p).id = st.nextId
                /\ Ids(InsertClip(st, p).s) = Ids(st) \cup {st.nextId}
           /\ Ids(st) \subseteq Ids(InsertClip(st, p).s)
<1>1. p.ptsIn \in Int /\ p.ptsOut \in Int
    BY ClipParts
<1>2. CASE p.ptsIn >= p.ptsOut
    <2>1. InsertClip(st, p) = Fail(st)
        BY <1>2 DEF InsertClip
    <2> QED  BY <1>1, <1>2, <2>1 DEF Fail, Results
<1>3. CASE p.ptsIn < p.ptsOut
    <2> DEFINE k == Cardinality({i \in DOMAIN st.clips : st.clips[i].ptsIn <= p.ptsIn})
               e == [p EXCEPT !.id = st.nextId]
               q == InsertAt(st.clips, k + 1, e)
               t == [clips |-> q, keys |-> st.keys, nextId |-> st.nextId + 1]
    <2>1. k \in 0..Len(st.clips)
          /\ \A i \in 1..Len(st.clips) : st.clips[i].ptsIn <= p.ptsIn <=> i <= k
        <3>1. \A i \in 1..Len(st.clips) : st.clips[i].ptsIn \in Int
            BY StoreParts, ClipParts
        <3> QED  BY <1>1, <3>1, StoreParts, Before, SMTT(30)
    <2>2. e \in Passed(T) /\ e.id = st.nextId /\ e.ptsIn = p.ptsIn
        <3>1. st.nextId \in Int
            BY StoreParts
        <3> QED  BY <3>1, PassedOn, Zenon
    <2>3. InsertClip(st, p) = Done(t, st.nextId)
        <3>1. [st EXCEPT !.clips = q, !.nextId = st.nextId + 1] = t
            <4> DEFINE u == [clips |-> q, keys |-> st.keys, nextId |-> st.nextId]
            <4> HIDE DEF q
            <4>1. [st EXCEPT !.clips = q] = u
                BY DEF Stores, StoreType
            <4>2. [st EXCEPT !.clips = q, !.nextId = st.nextId + 1]
                    = [[st EXCEPT !.clips = q] EXCEPT !.nextId = st.nextId + 1]
                BY DEF Stores, StoreType
            <4>3. [u EXCEPT !.nextId = st.nextId + 1] = t
                OBVIOUS
            <4> QED  BY <4>1, <4>2, <4>3
        <3>2. ~(p.ptsIn >= p.ptsOut)
            BY <1>1, <1>3
        <3> QED  BY <3>1, <3>2 DEF InsertClip
    <2>4. /\ q \in Seq(Passed(T)) /\ Len(q) = Len(st.clips) + 1
          /\ \A i \in 1..(Len(st.clips) + 1) :
               q[i] = IF i <= k THEN st.clips[i] ELSE IF i = k + 1 THEN e ELSE st.clips[i - 1]
        <3> HIDE DEF k, e
        <3> QED  BY <2>1, <2>2, StoreParts, PutIn
    <2> HIDE DEF k, e, q
    <2> DEFINE At(i) == IF i <= k THEN i ELSE i - 1
    <2>5. k \in Nat /\ Len(st.clips) \in Nat /\ Len(q) \in Nat
        BY <2>1, <2>4, StoreParts
    <2>6. ASSUME NEW i \in 1..Len(q), i # k + 1
          PROVE  q[i] = st.clips[At(i)] /\ At(i) \in 1..Len(st.clips)
        <3>1. i \in 1..(Len(st.clips) + 1)
            BY <2>4
        <3> QED  BY <3>1, <2>1, <2>4, <2>5, <2>6
    <2>7. k + 1 \in 1..Len(q) /\ q[k + 1] = e
        BY <2>1, <2>4, <2>5
    <2>8. ASSUME NEW j \in 1..Len(st.clips)
          PROVE  \E i \in 1..Len(q) : i # k + 1 /\ q[i] = st.clips[j]
        <3>1. CASE j <= k
            <4>1. j \in 1..Len(q) /\ j # k + 1 /\ At(j) = j
                BY <3>1, <2>4, <2>5
            <4> QED  BY <4>1, <2>6
        <3>2. CASE j > k
            <4>1. j + 1 \in 1..Len(q) /\ j + 1 # k + 1 /\ At(j + 1) = j
                BY <3>2, <2>4, <2>5
            <4> QED  BY <4>1, <2>6
        <3>3. j <= k \/ j > k
            BY <2>5
        <3> QED  BY <3>1, <3>2, <3>3
    <2>9. \A i, j \in 1..Len(q) :
             /\ i < j /\ i # k + 1 /\ j # k + 1 => At(i) < At(j)
             /\ i # j /\ i # k + 1 /\ j # k + 1 => At(i) # At(j)
             /\ i < k + 1 => At(i) <= k
             /\ i > k + 1 => At(i) > k
        BY <2>5
    <2>10. ASSUME NEW i \in 1..Len(q)
           PROVE  q[i].id \in Nat /\ q[i].id < st.nextId + 1
        <3>1. st.nextId \in Nat
            BY StoreParts
        <3>2. CASE i = k + 1
            BY <2>2, <2>7, <3>1, <3>2
        <3>3. CASE i # k + 1
            <4>1. q[i].id \in Nat /\ q[i].id < st.nextId
                BY <2>6, <3>3, StoreParts
            <4> QED  BY <3>1, <4>1
        <3> QED  BY <3>2, <3>3
    <2>11. ASSUME NEW i \in 1..Len(q), NEW j \in 1..Len(q), i < j
           PROVE  q[i].ptsIn <= q[j].ptsIn
        <3>1. CASE i = k + 1
            <4>1. j # k + 1 /\ j > k + 1
                BY <2>11, <3>1, <2>5
            <4>2. q[j] = st.clips[At(j)] /\ At(j) \in 1..Len(st.clips) /\ At(j) > k
                BY <2>6, <2>9, <4>1
            <4>3. ~(st.clips[At(j)].ptsIn <= p.ptsIn) /\ st.clips[At(j)].ptsIn \in Int
                BY <2>1, <4>2, <2>5, StoreParts, ClipParts
            <4> QED  BY <1>1, <2>2, <2>7, <3>1, <4>2, <4>3
        <3>2. CASE j = k + 1
            <4>1. i # k + 1 /\ i < k + 1
                BY <2>11, <3>2, <2>5
            <4>2. q[i] = st.clips[At(i)] /\ At(i) \in 1..Len(st.clips) /\ At(i) <= k
                BY <2>6, <2>9, <4>1
            <4> QED  BY <2>1, <2>2, <2>7, <3>2, <4>2
        <3>3. CASE i # k + 1 /\ j # k + 1
            <4>1. At(i) < At(j)
                BY <2>9, <2>11, <3>3
            <4>2. /\ q[i] = st.clips[At(i)] /\ At(i) \in 1..Len(st.clips)
                  /\ q[j] = st.clips[At(j)] /\ At(j) \in 1..Len(st.clips)
                BY <2>6, <3>3
            <4> HIDE DEF At
            <4> QED  BY <4>1, <4>2, StoreParts
        <3> QED  BY <3>1, <3>2, <3>3
    <2>12. ASSUME NEW i \in 1..Len(q), NEW j \in 1..Len(q), i # j
           PROVE  q[i].id # q[j].id
        <3>1. ASSUME NEW n \in 1..Len(q), n # k + 1  PROVE q[n].id # q[k + 1].id
            <4>1. q[n].id \in Nat /\ q[n].id < st.nextId
                BY <2>6, <3>1, StoreParts
            <4>2. q[k + 1].id = st.nextId /\ st.nextId \in Nat
                BY <2>2, <2>7, StoreParts
            <4> QED  BY <4>1, <4>2
        <3>2. CASE i = k + 1
            BY <2>12, <3>1, <3>2
        <3>3. CASE j = k + 1
            BY <2>12, <3>1, <3>3
        <3>4. CASE i # k + 1 /\ j # k + 1
            <4>1. At(i) # At(j)
                BY <2>9, <2>12, <3>4
            <4>2. /\ q[i] = st.clips[At(i)] /\ At(i) \in 1..Len(st.clips)
                  /\ q[j] = st.clips[At(j)] /\ At(j) \in 1..Len(st.clips)
                BY <2>6, <3>4
            <4> HIDE DEF At
            <4> QED  BY <4>1, <4>2, StoreParts
        <3> QED  BY <3>2, <3>3, <3>4
    <2>13. Ids(t) = Ids(st) \cup {st.nextId}
        <3>1. t.clips = q /\ DOMAIN q = 1..Len(q) /\ DOMAIN st.clips = 1..Len(st.clips)
            BY <2>4, StoreParts, LenProperties
        <3> HIDE DEF t
        <3>2. Ids(t) = {q[i].id : i \in 1..Len(q)}
            BY <3>1 DEF Ids
        <3>3. Ids(st) = {st.clips[i].id : i \in 1..Len(st.clips)}
            BY <3>1 DEF Ids
        <3>4. ASSUME NEW i \in 1..Len(q)  PROVE q[i].id \in Ids(st) \cup {st.nextId}
            <4>1. CASE i = k + 1
                BY <2>2, <2>7, <4>1
            <4>2. CASE i # k + 1
                BY <2>6, <4>2, <3>3
            <4> QED  BY <4>1, <4>2
        <3>5. ASSUME NEW x \in Ids(st)  PROVE \E i \in 1..Len(q) : x = q[i].id
            BY <2>8, <3>3
        <3>6. \E i \in 1..Len(q) : st.nextId = q[i].id
            BY <2>2, <2>7
        <3> QED  BY <3>2, <3>4, <3>5, <3>6
    <2>14. t \in Stores(T)
        <3>1. ASSUME NEW key \in st.keys  PROVE \E i \in 1..Len(q) : q[i].id = key.clip
            <4>1. key.clip \in Ids(st)
                BY StoreParts
            <4>2. PICK j \in 1..Len(st.clips) : st.clips[j].id = key.clip
                BY <4>1, StoreParts DEF Ids
            <4> QED  BY <4>2, <2>8
        <3>2. st.nextId + 1 \in Nat /\ st.keys \in SUBSET KeyType
            BY StoreParts
        <3>3. \A i, j \in 1..Len(q) : i < j => q[i].ptsIn <= q[j].ptsIn
            BY <2>11
        <3>4. \A i, j \in 1..Len(q) : i # j => q[i].id # q[j].id
            BY <2>12
        <3> HIDE DEF At
        <3> QED  BY <2>4, <2>10, <3>1, <3>2, <3>3, <3>4, StoreMade
    <2>15. t.keys = st.keys
        OBVIOUS
    <2> HIDE DEF t
    <2> QED  BY <1>1, <1>3, <2>3, <2>13, <2>14, <2>15, StoreParts DEF Done, Results
<1>4. p.ptsIn >= p.ptsOut \/ p.ptsIn < p.ptsOut
    BY <1>1
<1> QED  BY <1>2, <1>3, <1>4

\* The results of a run of insertions, one after the other.
InsertRun(h, r, ps) ==
    /\ h[0] = r
    /\ \A k \in 1..Len(ps) :
         h[k] = IF h[k - 1].ok THEN InsertClip(h[k - 1].s, ps[k]) ELSE h[k - 1]

LEMMA InsertAllRuns ==
    ASSUME NEW T, NEW r \in Results(T), NEW ps \in Seq(Passed(T))
    PROVE  \E h \in [0..Len(ps) -> Results(T)] : InsertRun(h, r, ps) /\ h[Len(ps)] = InsertAll(r, ps)
<1> DEFINE X == Results(T)
           len == Len(ps)
           Step(acc, p) ==
               IF acc.ok THEN InsertClip(acc.s, p) ELSE acc
           Body(F) == [S \in SUBSET (1..len) |->
                        IF S = {} THEN r ELSE Step(F[S \ {Max(S)}], ps[Max(S)])]
           g == [x \in X \X (1..len) |-> Step(x[1], ps[x[2]])]
           fold == CHOOSE F : F = Body(F)
<1>1. len \in Nat /\ DOMAIN ps = 1..len /\ \A i \in 1..len : ps[i] \in Passed(T)
    BY LenProperties, ElementOfSeq
<1>2. InsertAll(r, ps) = fold[1..len]
    BY <1>1 DEF InsertAll, FoldLeft, MapThenFoldSet
<1>3. r \in X
    OBVIOUS
<1>4. ASSUME NEW acc \in X, NEW p \in Passed(T)
      PROVE  Step(acc, p) \in X
    BY <1>4, InsertKeeps DEF Results
<1> HIDE DEF X, Step
<1>5. g \in [X \X (1..len) -> X]
    BY <1>1, <1>4
<1>6. PICK G \in [SUBSET (1..len) -> X] : IsFold(G, r, len, g)
    <2> HIDE DEF g, len
    <2> QED  BY <1>1, <1>3, <1>5, FoldExists
<1>7. ASSUME NEW S \in SUBSET (1..len), S # {}
      PROVE  Max(S) \in 1..len /\ S \ {Max(S)} \in SUBSET (1..len)
    BY <1>1, <1>7, LastExists
<1>8. G = Body(G)
    <2>1. ASSUME NEW S \in SUBSET (1..len)  PROVE G[S] = Body(G)[S]
        <3>1. CASE S = {}
            BY <1>6, <3>1 DEF IsFold
        <3>2. CASE S # {}
            <4>1. /\ Max(S) \in 1..len /\ G[S \ {Max(S)}] \in X
                  /\ G[S] = g[<<G[S \ {Max(S)}], Max(S)>>]
                BY <1>6, <1>7, <3>2 DEF IsFold
            <4> QED  BY <3>2, <4>1
        <3> QED  BY <3>1, <3>2
    <2> HIDE DEF len
    <2> QED  BY <1>6, <2>1
<1>9. fold = Body(fold)
    <2> HIDE DEF Body
    <2> QED  BY <1>8, Zenon
<1> HIDE DEF fold
<1>10. Folds(fold, X, r, len, g)
    <2>1. ASSUME NEW S \in SUBSET (1..len), S # {}, fold[S \ {Max(S)}] \in X
          PROVE  fold[S] = g[<<fold[S \ {Max(S)}], Max(S)>>]
        <3>1. fold[S] = Step(fold[S \ {Max(S)}], ps[Max(S)])
            BY <1>9, <2>1
        <3> QED  BY <2>1, <3>1, <1>7
    <2>2. fold[{}] = r
        BY <1>9
    <2> HIDE DEF g
    <2> QED  BY <2>1, <2>2 DEF Folds
<1>11. FoldRuns(fold, X, r, len, g)
    <2> HIDE DEF len, g
    <2> QED  BY <1>1, <1>3, <1>5, <1>10, RunOfFold
<1>12. PICK h \in [0..len -> X] : IsRun(h, r, len, g) /\ h[len] = fold[1..len]
    BY <1>11 DEF FoldRuns
<1>13. ASSUME NEW k \in 1..len  PROVE h[k] = Step(h[k - 1], ps[k])
    <2>1. k - 1 \in 0..len
        BY <1>1
    <2>2. h[k] = g[<<h[k - 1], k>>] /\ h[k - 1] \in X
        BY <1>12, <2>1 DEF IsRun
    <2> HIDE DEF len
    <2> QED  BY <2>2
<1>14. InsertRun(h, r, ps)
    BY <1>12, <1>13 DEF InsertRun, IsRun, Step
<1> QED  BY <1>2, <1>12, <1>14 DEF X

LEMMA InsertAllKeeps ==
    ASSUME NEW T, NEW r \in Results(T), NEW ps \in Seq(Passed(T))
    PROVE  InsertAll(r, ps) \in Results(T)
<1>1. Len(ps) \in 0..Len(ps)
    BY LenProperties
<1> QED  BY <1>1, InsertAllRuns

\* So are those of a run of removals.
RemoveRun(h, r, ids) ==
    /\ h[0] = r
    /\ \A k \in 1..Len(ids) :
         h[k] = IF h[k - 1].ok THEN RemoveClip(h[k - 1].s, ids[k]) ELSE h[k - 1]

LEMMA RemoveAllRuns ==
    ASSUME NEW T, NEW r \in Results(T), NEW A, NEW ids \in Seq(A)
    PROVE  \E h \in [0..Len(ids) -> Results(T)] : RemoveRun(h, r, ids) /\ h[Len(ids)] = RemoveAll(r, ids)
<1> DEFINE X == Results(T)
           len == Len(ids)
           Step(acc, id) ==
               IF acc.ok THEN RemoveClip(acc.s, id) ELSE acc
           Body(F) == [S \in SUBSET (1..len) |->
                        IF S = {} THEN r ELSE Step(F[S \ {Max(S)}], ids[Max(S)])]
           g == [x \in X \X (1..len) |-> Step(x[1], ids[x[2]])]
           fold == CHOOSE F : F = Body(F)
<1>1. len \in Nat /\ DOMAIN ids = 1..len /\ \A i \in 1..len : ids[i] \in A
    BY LenProperties, ElementOfSeq
<1>2. RemoveAll(r, ids) = fold[1..len]
    BY <1>1 DEF RemoveAll, FoldLeft, MapThenFoldSet
<1>3. r \in X
    OBVIOUS
<1>4. ASSUME NEW acc \in X, NEW id \in A
      PROVE  Step(acc, id) \in X
    BY <1>4, RemoveKeeps DEF Results
<1> HIDE DEF X, Step
<1>5. g \in [X \X (1..len) -> X]
    BY <1>1, <1>4
<1>6. PICK G \in [SUBSET (1..len) -> X] : IsFold(G, r, len, g)
    <2> HIDE DEF g, len
    <2> QED  BY <1>1, <1>3, <1>5, FoldExists
<1>7. ASSUME NEW S \in SUBSET (1..len), S # {}
      PROVE  Max(S) \in 1..len /\ S \ {Max(S)} \in SUBSET (1..len)
    BY <1>1, <1>7, LastExists
<1>8. G = Body(G)
    <2>1. ASSUME NEW S \in SUBSET (1..len)  PROVE G[S] = Body(G)[S]
        <3>1. CASE S = {}
            BY <1>6, <3>1 DEF IsFold
        <3>2. CASE S # {}
            <4>1. /\ Max(S) \in 1..len /\ G[S \ {Max(S)}] \in X
                  /\ G[S] = g[<<G[S \ {Max(S)}], Max(S)>>]
                BY <1>6, <1>7, <3>2 DEF IsFold
            <4> QED  BY <3>2, <4>1
        <3> QED  BY <3>1, <3>2
    <2> HIDE DEF len
    <2> QED  BY <1>6, <2>1
<1>9. fold = Body(fold)
    <2> HIDE DEF Body
    <2> QED  BY <1>8, Zenon
<1> HIDE DEF fold
<1>10. Folds(fold, X, r, len, g)
    <2>1. ASSUME NEW S \in SUBSET (1..len), S # {}, fold[S \ {Max(S)}] \in X
          PROVE  fold[S] = g[<<fold[S \ {Max(S)}], Max(S)>>]
        <3>1. fold[S] = Step(fold[S \ {Max(S)}], ids[Max(S)])
            BY <1>9, <2>1
        <3> QED  BY <2>1, <3>1, <1>7
    <2>2. fold[{}] = r
        BY <1>9
    <2> HIDE DEF g
    <2> QED  BY <2>1, <2>2 DEF Folds
<1>11. FoldRuns(fold, X, r, len, g)
    <2> HIDE DEF len, g
    <2> QED  BY <1>1, <1>3, <1>5, <1>10, RunOfFold
<1>12. PICK h \in [0..len -> X] : IsRun(h, r, len, g) /\ h[len] = fold[1..len]
    BY <1>11 DEF FoldRuns
<1>13. ASSUME NEW k \in 1..len  PROVE h[k] = Step(h[k - 1], ids[k])
    <2>1. k - 1 \in 0..len
        BY <1>1
    <2>2. h[k] = g[<<h[k - 1], k>>] /\ h[k - 1] \in X
        BY <1>12, <2>1 DEF IsRun
    <2> HIDE DEF len
    <2> QED  BY <2>2
<1>14. RemoveRun(h, r, ids)
    BY <1>12, <1>13 DEF RemoveRun, IsRun, Step
<1> QED  BY <1>2, <1>12, <1>14 DEF X

LEMMA RemoveAllKeeps ==
    ASSUME NEW T, NEW r \in Results(T), NEW A, NEW ids \in Seq(A)
    PROVE  RemoveAll(r, ids) \in Results(T)
<1>1. Len(ids) \in 0..Len(ids)
    BY LenProperties
<1> QED  BY <1>1, RemoveAllRuns

\* What is picked are the members at the indices given.
LEMMA PickedFrom ==
    ASSUME NEW A, NEW ps \in Seq(A), NEW at, NEW B,
           \A i \in DOMAIN ps : i \in at => ps[i] \in B
    PROVE  Picked(ps, at) \in Seq(B)
<1> DEFINE X == Seq(B)
           len == Len(ps)
           Step(acc, n) == IF n \in at THEN Append(acc, ps[n]) ELSE acc
           Body(f) == [n \in 0..len |-> IF n = 0 THEN <<>>
                                        ELSE IF n \in at THEN Append(f[n - 1], ps[n])
                                        ELSE f[n - 1]]
           g == [x \in X \X (1..len) |-> Step(x[1], x[2])]
           pick == CHOOSE f : f = Body(f)
<1>1. len \in Nat /\ DOMAIN ps = 1..len
    BY LenProperties
<1>2. Picked(ps, at) = pick[len]
    BY DEF Picked
<1>3. <<>> \in X
    OBVIOUS
<1>4. ASSUME NEW acc \in X, NEW n \in 1..len
      PROVE  Step(acc, n) \in X
    BY <1>1, <1>4, AppendProperties
<1> HIDE DEF X
<1>5. g \in [X \X (1..len) -> X]
    <2> HIDE DEF Step, len
    <2> QED  BY <1>4
<1>6. PICK h \in [0..len -> X] : IsRun(h, <<>>, len, g)
    <2> HIDE DEF g, len
    <2> QED  BY <1>1, <1>3, <1>5, RunExists
<1>7. h = Body(h)
    <2> HIDE DEF len
    <2>1. ASSUME NEW n \in 0..len  PROVE h[n] = Body(h)[n]
        <3>1. CASE n = 0
            BY <1>6, <3>1 DEF IsRun
        <3>2. CASE n # 0
            <4>1. n \in 1..len /\ n - 1 \in 0..len
                BY <1>1, <3>2
            <4>2. h[n] = Step(h[n - 1], n)
                BY <4>1, <1>6 DEF IsRun
            <4> QED  BY <4>2, <3>2
        <3> QED  BY <3>1, <3>2
    <2> QED  BY <1>6, <2>1
<1>8. pick = Body(pick)
    <2> HIDE DEF Body
    <2> QED  BY <1>7, Zenon
<1> HIDE DEF pick
<1> DEFINE bad == {n \in 0..len : pick[n] \notin X}
<1>9. SUFFICES ASSUME bad # {}  PROVE FALSE
    <2> HIDE DEF len, pick
    <2>1. len \in 0..len
        BY <1>1
    <2>2. pick[len] \in X
        BY <2>1
    <2> QED  BY <1>2, <2>2 DEF X
<1> HIDE DEF len
<1>10. PICK k \in bad : \A j \in bad : k <= j
    <2>1. bad \in SUBSET Nat
        BY <1>1
    <2> QED  BY <1>9, <2>1, FirstExists
<1>11. CASE k = 0
    BY <1>3, <1>8, <1>10, <1>11
<1>12. CASE k # 0
    <2>1. k \in 1..len /\ k - 1 \in 0..len /\ k - 1 \notin bad
        BY <1>1, <1>10, <1>12
    <2>2. pick[k - 1] \in X
        BY <2>1
    <2>3. pick[k] = Step(pick[k - 1], k)
        BY <1>8, <1>12, <2>1
    <2> HIDE DEF Step
    <2>4. pick[k] \in X
        BY <1>4, <2>1, <2>2, <2>3
    <2> QED  BY <1>10, <2>4
<1> QED  BY <1>11, <1>12

\* Sorted clips are clips.
Placed(acc, p) ==
    InsertAt(acc, Cardinality({i \in DOMAIN acc : acc[i].ptsIn <= p.ptsIn}) + 1, p)
SortRun(h, ps) ==
    h[0] = <<>> /\ \A k \in 1..Len(ps) : h[k] = Placed(h[k - 1], ps[k])

LEMMA ByStartRuns ==
    ASSUME NEW A, NEW ps \in Seq(A)
    PROVE  \E h \in [0..Len(ps) -> Seq(A)] : SortRun(h, ps) /\ h[Len(ps)] = ByStart(ps)
<1> DEFINE X == Seq(A)
           len == Len(ps)
           Step(acc, p) ==
               InsertAt(acc, Cardinality({i \in DOMAIN acc : acc[i].ptsIn <= p.ptsIn}) + 1, p)
           Body(F) == [S \in SUBSET (1..len) |->
                        IF S = {} THEN <<>> ELSE Step(F[S \ {Max(S)}], ps[Max(S)])]
           g == [x \in X \X (1..len) |-> Step(x[1], ps[x[2]])]
           fold == CHOOSE F : F = Body(F)
<1>1. len \in Nat /\ DOMAIN ps = 1..len /\ \A i \in 1..len : ps[i] \in A
    BY LenProperties, ElementOfSeq
<1>2. ByStart(ps) = fold[1..len]
    BY <1>1 DEF ByStart, FoldLeft, MapThenFoldSet
<1>3. <<>> \in X
    OBVIOUS
<1>4. ASSUME NEW acc \in X, NEW p \in A
      PROVE  Step(acc, p) \in X
    <2> DEFINE early == {i \in DOMAIN acc : acc[i].ptsIn <= p.ptsIn}
    <2>1. Len(acc) \in Nat /\ DOMAIN acc = 1..Len(acc) /\ early \subseteq 1..Len(acc)
        BY <1>4, LenProperties
    <2>2. Cardinality(early) \in 0..Len(acc)
        <3> HIDE DEF early
        <3> QED  BY <2>1, CountIn
    <2> HIDE DEF early
    <2>4. InsertAt(acc, Cardinality(early) + 1, p) \in Seq(A)
        BY <1>4, <2>2, PutIn
    <2> QED  BY <2>4 DEF early
<1> HIDE DEF X, Step
<1>5. g \in [X \X (1..len) -> X]
    BY <1>1, <1>4
<1>6. PICK G \in [SUBSET (1..len) -> X] : IsFold(G, <<>>, len, g)
    <2> HIDE DEF g, len
    <2> QED  BY <1>1, <1>3, <1>5, FoldExists
<1>7. ASSUME NEW S \in SUBSET (1..len), S # {}
      PROVE  Max(S) \in 1..len /\ S \ {Max(S)} \in SUBSET (1..len)
    BY <1>1, <1>7, LastExists
<1>8. G = Body(G)
    <2>1. ASSUME NEW S \in SUBSET (1..len)  PROVE G[S] = Body(G)[S]
        <3>1. CASE S = {}
            BY <1>6, <3>1 DEF IsFold
        <3>2. CASE S # {}
            <4>1. /\ Max(S) \in 1..len /\ G[S \ {Max(S)}] \in X
                  /\ G[S] = g[<<G[S \ {Max(S)}], Max(S)>>]
                BY <1>6, <1>7, <3>2 DEF IsFold
            <4> QED  BY <3>2, <4>1
        <3> QED  BY <3>1, <3>2
    <2> HIDE DEF len
    <2> QED  BY <1>6, <2>1
<1>9. fold = Body(fold)
    <2> HIDE DEF Body
    <2> QED  BY <1>8, Zenon
<1> HIDE DEF fold
<1>10. Folds(fold, X, <<>>, len, g)
    <2>1. ASSUME NEW S \in SUBSET (1..len), S # {}, fold[S \ {Max(S)}] \in X
          PROVE  fold[S] = g[<<fold[S \ {Max(S)}], Max(S)>>]
        <3>1. fold[S] = Step(fold[S \ {Max(S)}], ps[Max(S)])
            BY <1>9, <2>1
        <3> QED  BY <2>1, <3>1, <1>7
    <2>2. fold[{}] = <<>>
        BY <1>9
    <2> HIDE DEF g
    <2> QED  BY <2>1, <2>2 DEF Folds
<1>11. FoldRuns(fold, X, <<>>, len, g)
    <2> HIDE DEF len, g
    <2> QED  BY <1>1, <1>3, <1>5, <1>10, RunOfFold
<1>12. PICK h \in [0..len -> X] : IsRun(h, <<>>, len, g) /\ h[len] = fold[1..len]
    BY <1>11 DEF FoldRuns
<1>13. ASSUME NEW k \in 1..len  PROVE h[k] = Step(h[k - 1], ps[k])
    <2>1. k - 1 \in 0..len
        BY <1>1
    <2>2. h[k] = g[<<h[k - 1], k>>] /\ h[k - 1] \in X
        BY <1>12, <2>1 DEF IsRun
    <2> HIDE DEF len
    <2> QED  BY <2>2
<1>14. SortRun(h, ps)
    BY <1>12, <1>13 DEF SortRun, IsRun, Step, Placed
<1> QED  BY <1>2, <1>12, <1>14 DEF X

LEMMA ByStartKeeps ==
    ASSUME NEW A, NEW ps \in Seq(A)
    PROVE  ByStart(ps) \in Seq(A)
<1>1. Len(ps) \in 0..Len(ps)
    BY LenProperties
<1> QED  BY <1>1, ByStartRuns

\* What stays of a clip when its middle is taken out.
LEMMA RemainsPassed ==
    ASSUME NEW T, NEW c \in Passed(T), NEW a \in Int, NEW b \in Int, c.ptsIn < b
    PROVE  Remains(c, a, b) \in Seq(Passed(T))
<1>1. c.ptsIn \in Int /\ c.ptsOut \in Int /\ c.sourceIn \in Nat
    BY ClipParts
<1>2. [c EXCEPT !.ptsOut = a, !.fadeOut = 0] \in Passed(T)
    BY PassedOn
<1>3. c.sourceIn + (b - c.ptsIn) \in Nat
    BY <1>1
<1>4. [c EXCEPT !.ptsIn = b, !.sourceIn = c.sourceIn + (b - c.ptsIn), !.fadeIn = 0] \in Passed(T)
    BY <1>3, PassedOn
<1> DEFINE head == IF c.ptsIn < a THEN <<[c EXCEPT !.ptsOut = a, !.fadeOut = 0]>> ELSE <<>>
           rest == IF c.ptsOut > b
                   THEN <<[c EXCEPT !.ptsIn = b, !.sourceIn = @ + (b - c.ptsIn), !.fadeIn = 0]>>
                   ELSE <<>>
<1>5. head \in Seq(Passed(T)) /\ rest \in Seq(Passed(T))
    BY <1>2, <1>4
<1> HIDE DEF head, rest
<1>6. head \o rest \in Seq(Passed(T))
    BY <1>5, ConcatProperties
<1> QED  BY <1>6 DEF Remains, head, rest

\* Making room for an insertion leaves the store as it should be.
LEMMA RoomMade ==
    ASSUME NEW T, NEW st \in Stores(T), NEW p \in Passed(T),
           NEW under \in Seq({c \in Passed(T) : c.ptsIn < p.ptsOut})
    PROVE  FoldLeft(LAMBDA r, c : InsertAll(RemoveClip(r.s, c.id), Remains(c, p.ptsIn, p.ptsOut)),
                    Done(st, -1), under) \in Results(T)
<1> DEFINE X == Results(T)
           len == Len(under)
           Step(r, c) ==
               InsertAll(RemoveClip(r.s, c.id), Remains(c, p.ptsIn, p.ptsOut))
           Body(F) == [S \in SUBSET (1..len) |->
                        IF S = {} THEN Done(st, -1) ELSE Step(F[S \ {Max(S)}], under[Max(S)])]
           g == [x \in X \X (1..len) |-> Step(x[1], under[x[2]])]
           fold == CHOOSE F : F = Body(F)
<1>1. len \in Nat /\ DOMAIN under = 1..len /\ \A i \in 1..len : under[i] \in {c \in Passed(T) : c.ptsIn < p.ptsOut}
    BY LenProperties, ElementOfSeq
<1>2. FoldLeft(LAMBDA r, c : InsertAll(RemoveClip(r.s, c.id), Remains(c, p.ptsIn, p.ptsOut)),
                    Done(st, -1), under) = fold[1..len]
    BY <1>1 DEF FoldLeft, MapThenFoldSet
<1>3. Done(st, -1) \in X
    BY DEF Done, Results
<1>4. ASSUME NEW r \in X, NEW c \in {c \in Passed(T) : c.ptsIn < p.ptsOut}
      PROVE  Step(r, c) \in X
    <2>1. r.s \in Stores(T)
        BY <1>4 DEF Results
    <2>2. RemoveClip(r.s, c.id) \in Results(T)
        BY <2>1, RemoveKeeps
    <2>3. p.ptsIn \in Int /\ p.ptsOut \in Int
        BY ClipParts
    <2>4. Remains(c, p.ptsIn, p.ptsOut) \in Seq(Passed(T))
        BY <1>4, <2>3, RemainsPassed
    <2> QED  BY <2>2, <2>4, InsertAllKeeps
<1> HIDE DEF X, Step
<1>5. g \in [X \X (1..len) -> X]
    BY <1>1, <1>4
<1>6. PICK G \in [SUBSET (1..len) -> X] : IsFold(G, Done(st, -1), len, g)
    <2> HIDE DEF g, len
    <2> QED  BY <1>1, <1>3, <1>5, FoldExists
<1>7. ASSUME NEW S \in SUBSET (1..len), S # {}
      PROVE  Max(S) \in 1..len /\ S \ {Max(S)} \in SUBSET (1..len)
    BY <1>1, <1>7, LastExists
<1>8. G = Body(G)
    <2>1. ASSUME NEW S \in SUBSET (1..len)  PROVE G[S] = Body(G)[S]
        <3>1. CASE S = {}
            BY <1>6, <3>1 DEF IsFold
        <3>2. CASE S # {}
            <4>1. /\ Max(S) \in 1..len /\ G[S \ {Max(S)}] \in X
                  /\ G[S] = g[<<G[S \ {Max(S)}], Max(S)>>]
                BY <1>6, <1>7, <3>2 DEF IsFold
            <4> QED  BY <3>2, <4>1
        <3> QED  BY <3>1, <3>2
    <2> HIDE DEF len
    <2> QED  BY <1>6, <2>1
<1>9. fold = Body(fold)
    <2> HIDE DEF Body
    <2> QED  BY <1>8, Zenon
<1> HIDE DEF fold
<1>10. fold[{}] \in X
    BY <1>3, <1>9
<1>11. ASSUME NEW S \in SUBSET (1..len), S # {}, fold[S \ {Max(S)}] \in X
       PROVE  fold[S] \in X
    <2>1. fold[S] = Step(fold[S \ {Max(S)}], under[Max(S)])
        BY <1>9, <1>11
    <2> QED  BY <2>1, <1>1, <1>4, <1>7, <1>11
<1>12. fold[1..len] \in X
    <2> HIDE DEF len
    <2> QED  BY <1>1, <1>10, <1>11, FoldKeeps
<1> QED  BY <1>2, <1>12 DEF X

\* Cuts of clips in C that start before a time, and shifts of such clips.
Early(C, at) == {c \in C : c.ptsIn < at}
Cuts(C, at) == [clip : Early(C, at), to : Int]
Pushes(C) == [clip : C, by : Int]
Plans(C, at) == [cut : Seq(Cuts(C, at)), push : Seq(Pushes(C)), boundary : Int]

\* A clip moved, and the two halves of a cut clip.
LEMMA Moved ==
    ASSUME NEW T, NEW c \in Passed(T), NEW delta \in Int
    PROVE  MoveBy(c, delta) \in Passed(T)
<1>1. c.ptsIn + delta \in Int /\ c.ptsOut + delta \in Int
    BY ClipParts
<1>2. [c EXCEPT !.ptsIn = c.ptsIn + delta, !.ptsOut = c.ptsOut + delta] \in Passed(T)
    BY <1>1, PassedOn
<1> QED  BY <1>2 DEF MoveBy

LEMMA HalvesPassed ==
    ASSUME NEW T, NEW C \in SUBSET Passed(T), NEW at \in Int, NEW m \in Cuts(C, at)
    PROVE  Halves(m, at) \in Seq(Passed(T))
<1>1. m.clip \in Passed(T) /\ m.clip.ptsIn < at /\ m.to \in Int
    BY DEF Cuts, Early
<1>2. m.clip.ptsIn \in Int /\ m.clip.ptsOut \in Int /\ m.clip.sourceIn \in Nat
    BY <1>1, ClipParts
<1>3. m.to + (m.clip.ptsOut - at) \in Int /\ m.clip.sourceIn + (at - m.clip.ptsIn) \in Nat
    BY <1>1, <1>2
<1>4. [m.clip EXCEPT !.ptsOut = at, !.fadeOut = 0] \in Passed(T)
    BY <1>1, PassedOn
<1>5. [m.clip EXCEPT !.ptsIn = m.to, !.ptsOut = m.to + (m.clip.ptsOut - at),
                     !.sourceIn = @ + (at - m.clip.ptsIn), !.fadeIn = 0] \in Passed(T)
    BY <1>1, <1>3, Zenon DEF Passed, ClipType
<1> QED  BY <1>4, <1>5 DEF Halves

\* The clips of a track, and those linked to a clip.
LEMMA TrackPicked ==
    ASSUME NEW T, NEW st \in Stores(T), NEW t
    PROVE  OnTrack(st, t) \in Seq(Shelf(st))
<1>1. st.clips \in Seq(Passed(T)) /\ \A i \in DOMAIN st.clips : st.clips[i] \in Shelf(st)
    BY StoreParts DEF Shelf
<1> QED  BY <1>1, PickedFrom DEF OnTrack

LEMMA LinkedPicked ==
    ASSUME NEW T, NEW st \in Stores(T), NEW c
    PROVE  LinkedTo(st, c) \in Seq({d \in Shelf(st) : d.ptsIn = c.ptsIn})
<1> DEFINE at == {i \in DOMAIN st.clips :
                    /\ st.clips[i].src = c.src /\ st.clips[i].ptsIn = c.ptsIn
                    /\ st.clips[i].track # c.track}
           B == {d \in Shelf(st) : d.ptsIn = c.ptsIn}
<1>1. st.clips \in Seq(Passed(T)) /\ \A i \in DOMAIN st.clips : st.clips[i] \in Shelf(st)
    BY StoreParts DEF Shelf
<1>2. \A i \in DOMAIN st.clips : i \in at => st.clips[i] \in B
    BY <1>1
<1>3. LinkedTo(st, c) = Picked(st.clips, at)
    BY DEF LinkedTo
<1> HIDE DEF at, B
<1>4. Picked(st.clips, at) \in Seq(B)
    BY <1>1, <1>2, PickedFrom
<1> QED  BY <1>3, <1>4 DEF B

\* The plan of a ripple cuts clips that start before it and shifts others.
LEMMA PlanMade ==
    ASSUME NEW T, NEW st \in Stores(T), NEW t, NEW at \in Int, NEW length \in Int
    PROVE  RipplePlan(st, t, at, length) \in Plans(Shelf(st), at)
<1> DEFINE X == Plans(Shelf(st), at)
           base == [cut |-> <<>>, push |-> <<>>, boundary |-> at + length]
           ps == OnTrack(st, t)
           len == Len(ps)
           Step(acc, c) ==
               IF c.ptsOut <= at THEN acc
               ELSE IF c.ptsIn < at
               THEN [acc EXCEPT !.cut = Append(@, [clip |-> c, to |-> acc.boundary]),
                                !.boundary = @ + (c.ptsOut - at)]
               ELSE IF c.ptsIn < acc.boundary
               THEN [acc EXCEPT !.push = Append(@, [clip |-> c, by |-> acc.boundary - c.ptsIn]),
                                !.boundary = c.ptsOut + (acc.boundary - c.ptsIn)]
               ELSE [acc EXCEPT !.boundary = c.ptsOut]
           Body(F) == [S \in SUBSET (1..len) |->
                        IF S = {} THEN base ELSE Step(F[S \ {Max(S)}], ps[Max(S)])]
           g == [x \in X \X (1..len) |-> Step(x[1], ps[x[2]])]
           fold == CHOOSE F : F = Body(F)
<1>1. len \in Nat /\ DOMAIN ps = 1..len /\ \A i \in 1..len : ps[i] \in Shelf(st)
    BY TrackPicked, LenProperties, ElementOfSeq
<1>2. RipplePlan(st, t, at, length) = fold[1..len]
    BY <1>1 DEF RipplePlan, FoldLeft, MapThenFoldSet
<1>3. base \in X
    BY DEF Plans
<1>4. ASSUME NEW acc \in X, NEW c \in Shelf(st)
      PROVE  Step(acc, c) \in X
    <2>1. /\ acc.cut \in Seq(Cuts(Shelf(st), at)) /\ acc.push \in Seq(Pushes(Shelf(st))) /\ acc.boundary \in Int
          /\ c.ptsIn \in Int /\ c.ptsOut \in Int
        BY <1>4, ShelfPassed, ClipParts DEF Plans
    <2>2. \A cut \in Seq(Cuts(Shelf(st), at)), b \in Int :
             [acc EXCEPT !.cut = cut, !.boundary = b] \in Plans(Shelf(st), at)
        BY <1>4, Zenon DEF Plans
    <2>3. \A push \in Seq(Pushes(Shelf(st))), b \in Int :
             [acc EXCEPT !.push = push, !.boundary = b] \in Plans(Shelf(st), at)
        BY <1>4, Zenon DEF Plans
    <2>4. \A b \in Int : [acc EXCEPT !.boundary = b] \in Plans(Shelf(st), at)
        BY <1>4, Zenon DEF Plans
    <2>5. c.ptsIn < at => Append(acc.cut, [clip |-> c, to |-> acc.boundary]) \in Seq(Cuts(Shelf(st), at))
        BY <1>4, <2>1, AppendProperties DEF Cuts, Early
    <2>6. Append(acc.push, [clip |-> c, by |-> acc.boundary - c.ptsIn]) \in Seq(Pushes(Shelf(st)))
        BY <1>4, <2>1, AppendProperties DEF Pushes
    <2>7. /\ acc.boundary + (c.ptsOut - at) \in Int
          /\ c.ptsOut + (acc.boundary - c.ptsIn) \in Int
        BY <2>1
    <2>8. c.ptsIn < at => [acc EXCEPT !.cut = Append(acc.cut, [clip |-> c, to |-> acc.boundary]),
                        !.boundary = acc.boundary + (c.ptsOut - at)] \in Plans(Shelf(st), at)
        BY <2>2, <2>5, <2>7, Zenon
    <2>9. [acc EXCEPT !.push = Append(acc.push, [clip |-> c, by |-> acc.boundary - c.ptsIn]),
                      !.boundary = c.ptsOut + (acc.boundary - c.ptsIn)] \in Plans(Shelf(st), at)
        BY <2>3, <2>6, <2>7, Zenon
    <2>10. [acc EXCEPT !.boundary = c.ptsOut] \in Plans(Shelf(st), at)
        BY <2>1, <2>4, Zenon
    <2> QED  BY <1>4, <2>8, <2>9, <2>10, Zenon
<1> HIDE DEF X, Step
<1>5. g \in [X \X (1..len) -> X]
    BY <1>1, <1>4
<1>6. PICK G \in [SUBSET (1..len) -> X] : IsFold(G, base, len, g)
    <2> HIDE DEF g, len
    <2> QED  BY <1>1, <1>3, <1>5, FoldExists
<1>7. ASSUME NEW S \in SUBSET (1..len), S # {}
      PROVE  Max(S) \in 1..len /\ S \ {Max(S)} \in SUBSET (1..len)
    BY <1>1, <1>7, LastExists
<1>8. G = Body(G)
    <2>1. ASSUME NEW S \in SUBSET (1..len)  PROVE G[S] = Body(G)[S]
        <3>1. CASE S = {}
            BY <1>6, <3>1 DEF IsFold
        <3>2. CASE S # {}
            <4>1. /\ Max(S) \in 1..len /\ G[S \ {Max(S)}] \in X
                  /\ G[S] = g[<<G[S \ {Max(S)}], Max(S)>>]
                BY <1>6, <1>7, <3>2 DEF IsFold
            <4> QED  BY <3>2, <4>1
        <3> QED  BY <3>1, <3>2
    <2> HIDE DEF len
    <2> QED  BY <1>6, <2>1
<1>9. fold = Body(fold)
    <2> HIDE DEF Body
    <2> QED  BY <1>8, Zenon
<1> HIDE DEF fold
<1>10. fold[{}] \in X
    BY <1>3, <1>9
<1>11. ASSUME NEW S \in SUBSET (1..len), S # {}, fold[S \ {Max(S)}] \in X
       PROVE  fold[S] \in X
    <2>1. fold[S] = Step(fold[S \ {Max(S)}], ps[Max(S)])
        BY <1>9, <1>11
    <2> QED  BY <2>1, <1>1, <1>4, <1>7, <1>11
<1>12. fold[1..len] \in X
    <2> HIDE DEF len
    <2> QED  BY <1>1, <1>10, <1>11, FoldKeeps
<1> QED  BY <1>2, <1>12 DEF X

\* The clips linked to moved clips are moved as they are.
LEMMA WithLinkedKeeps ==
    ASSUME NEW T, NEW st \in Stores(T), NEW M, NEW moves \in Seq(M),
           \A m \in M, d \in Shelf(st) : d.ptsIn = m.clip.ptsIn => [m EXCEPT !.clip = d] \in M
    PROVE  WithLinked(st, moves) \in Seq(M)
<1> DEFINE X == Seq(M)
           len == Len(moves)
           Step(acc, m) ==
               LET linked == LinkedTo(st, m.clip)
               IN acc \o [k \in DOMAIN linked |-> [m EXCEPT !.clip = linked[k]]]
           Body(F) == [S \in SUBSET (1..len) |->
                        IF S = {} THEN moves ELSE Step(F[S \ {Max(S)}], moves[Max(S)])]
           g == [x \in X \X (1..len) |-> Step(x[1], moves[x[2]])]
           fold == CHOOSE F : F = Body(F)
<1>1. len \in Nat /\ DOMAIN moves = 1..len /\ \A i \in 1..len : moves[i] \in M
    BY LenProperties, ElementOfSeq
<1>2. WithLinked(st, moves) = fold[1..len]
    BY <1>1 DEF WithLinked, FoldLeft, MapThenFoldSet
<1>3. moves \in X
    OBVIOUS
<1>4. ASSUME NEW acc \in X, NEW m \in M
      PROVE  Step(acc, m) \in X
    <2> DEFINE linked == LinkedTo(st, m.clip)
               moved == [k \in DOMAIN linked |-> [m EXCEPT !.clip = linked[k]]]
    <2>1. linked \in Seq({d \in Shelf(st) : d.ptsIn = m.clip.ptsIn})
        BY LinkedPicked
    <2> HIDE DEF linked
    <2>2. /\ DOMAIN linked = 1..Len(linked) /\ Len(linked) \in Nat
          /\ \A k \in 1..Len(linked) : linked[k] \in {d \in Shelf(st) : d.ptsIn = m.clip.ptsIn}
        BY <2>1, LenProperties, ElementOfSeq
    <2>3. \A k \in 1..Len(linked) : [m EXCEPT !.clip = linked[k]] \in M
        BY <1>4, <2>2
    <2>4. moved \in Seq(M)
        BY <2>2, <2>3
    <2> HIDE DEF moved
    <2>5. acc \o moved \in Seq(M)
        BY <1>4, <2>4, ConcatProperties
    <2> QED  BY <2>5 DEF moved, linked
<1> HIDE DEF X, Step
<1>5. g \in [X \X (1..len) -> X]
    BY <1>1, <1>4
<1>6. PICK G \in [SUBSET (1..len) -> X] : IsFold(G, moves, len, g)
    <2> HIDE DEF g, len
    <2> QED  BY <1>1, <1>3, <1>5, FoldExists
<1>7. ASSUME NEW S \in SUBSET (1..len), S # {}
      PROVE  Max(S) \in 1..len /\ S \ {Max(S)} \in SUBSET (1..len)
    BY <1>1, <1>7, LastExists
<1>8. G = Body(G)
    <2>1. ASSUME NEW S \in SUBSET (1..len)  PROVE G[S] = Body(G)[S]
        <3>1. CASE S = {}
            BY <1>6, <3>1 DEF IsFold
        <3>2. CASE S # {}
            <4>1. /\ Max(S) \in 1..len /\ G[S \ {Max(S)}] \in X
                  /\ G[S] = g[<<G[S \ {Max(S)}], Max(S)>>]
                BY <1>6, <1>7, <3>2 DEF IsFold
            <4> QED  BY <3>2, <4>1
        <3> QED  BY <3>1, <3>2
    <2> HIDE DEF len
    <2> QED  BY <1>6, <2>1
<1>9. fold = Body(fold)
    <2> HIDE DEF Body
    <2> QED  BY <1>8, Zenon
<1> HIDE DEF fold
<1>10. fold[{}] \in X
    BY <1>3, <1>9
<1>11. ASSUME NEW S \in SUBSET (1..len), S # {}, fold[S \ {Max(S)}] \in X
       PROVE  fold[S] \in X
    <2>1. fold[S] = Step(fold[S \ {Max(S)}], moves[Max(S)])
        BY <1>9, <1>11
    <2> QED  BY <2>1, <1>1, <1>4, <1>7, <1>11
<1>12. fold[1..len] \in X
    <2> HIDE DEF len
    <2> QED  BY <1>1, <1>10, <1>11, FoldKeeps
<1> QED  BY <1>2, <1>12 DEF X

\* All the halves of cut clips are clips.
AllHalves(cut, at) == FoldLeft(LAMBDA acc, m : acc \o Halves(m, at), <<>>, cut)
HalvesRun(h, at, cut) ==
    h[0] = <<>> /\ \A k \in 1..Len(cut) : h[k] = h[k - 1] \o Halves(cut[k], at)

LEMMA HalvesRuns ==
    ASSUME NEW T, NEW C \in SUBSET Passed(T), NEW at \in Int, NEW cut \in Seq(Cuts(C, at))
    PROVE  \E h \in [0..Len(cut) -> Seq(Passed(T))] :
              HalvesRun(h, at, cut) /\ h[Len(cut)] = AllHalves(cut, at)
<1> DEFINE X == Seq(Passed(T))
           len == Len(cut)
           Step(acc, m) ==
               acc \o Halves(m, at)
           Body(F) == [S \in SUBSET (1..len) |->
                        IF S = {} THEN <<>> ELSE Step(F[S \ {Max(S)}], cut[Max(S)])]
           g == [x \in X \X (1..len) |-> Step(x[1], cut[x[2]])]
           fold == CHOOSE F : F = Body(F)
<1>1. len \in Nat /\ DOMAIN cut = 1..len /\ \A i \in 1..len : cut[i] \in Cuts(C, at)
    BY LenProperties, ElementOfSeq
<1>2. AllHalves(cut, at) = fold[1..len]
    BY <1>1 DEF AllHalves, FoldLeft, MapThenFoldSet
<1>3. <<>> \in X
    OBVIOUS
<1>4. ASSUME NEW acc \in X, NEW m \in Cuts(C, at)
      PROVE  Step(acc, m) \in X
    <2>1. Halves(m, at) \in Seq(Passed(T))
        BY <1>4, HalvesPassed
    <2> QED  BY <1>4, <2>1, ConcatProperties
<1> HIDE DEF X, Step
<1>5. g \in [X \X (1..len) -> X]
    BY <1>1, <1>4
<1>6. PICK G \in [SUBSET (1..len) -> X] : IsFold(G, <<>>, len, g)
    <2> HIDE DEF g, len
    <2> QED  BY <1>1, <1>3, <1>5, FoldExists
<1>7. ASSUME NEW S \in SUBSET (1..len), S # {}
      PROVE  Max(S) \in 1..len /\ S \ {Max(S)} \in SUBSET (1..len)
    BY <1>1, <1>7, LastExists
<1>8. G = Body(G)
    <2>1. ASSUME NEW S \in SUBSET (1..len)  PROVE G[S] = Body(G)[S]
        <3>1. CASE S = {}
            BY <1>6, <3>1 DEF IsFold
        <3>2. CASE S # {}
            <4>1. /\ Max(S) \in 1..len /\ G[S \ {Max(S)}] \in X
                  /\ G[S] = g[<<G[S \ {Max(S)}], Max(S)>>]
                BY <1>6, <1>7, <3>2 DEF IsFold
            <4> QED  BY <3>2, <4>1
        <3> QED  BY <3>1, <3>2
    <2> HIDE DEF len
    <2> QED  BY <1>6, <2>1
<1>9. fold = Body(fold)
    <2> HIDE DEF Body
    <2> QED  BY <1>8, Zenon
<1> HIDE DEF fold
<1>10. Folds(fold, X, <<>>, len, g)
    <2>1. ASSUME NEW S \in SUBSET (1..len), S # {}, fold[S \ {Max(S)}] \in X
          PROVE  fold[S] = g[<<fold[S \ {Max(S)}], Max(S)>>]
        <3>1. fold[S] = Step(fold[S \ {Max(S)}], cut[Max(S)])
            BY <1>9, <2>1
        <3> QED  BY <2>1, <3>1, <1>7
    <2>2. fold[{}] = <<>>
        BY <1>9
    <2> HIDE DEF g
    <2> QED  BY <2>1, <2>2 DEF Folds
<1>11. FoldRuns(fold, X, <<>>, len, g)
    <2> HIDE DEF len, g
    <2> QED  BY <1>1, <1>3, <1>5, <1>10, RunOfFold
<1>12. PICK h \in [0..len -> X] : IsRun(h, <<>>, len, g) /\ h[len] = fold[1..len]
    BY <1>11 DEF FoldRuns
<1>13. ASSUME NEW k \in 1..len  PROVE h[k] = Step(h[k - 1], cut[k])
    <2>1. k - 1 \in 0..len
        BY <1>1
    <2>2. h[k] = g[<<h[k - 1], k>>] /\ h[k - 1] \in X
        BY <1>12, <2>1 DEF IsRun
    <2> HIDE DEF len
    <2> QED  BY <2>2
<1>14. HalvesRun(h, at, cut)
    BY <1>12, <1>13 DEF HalvesRun, IsRun, Step
<1> QED  BY <1>2, <1>12, <1>14 DEF X

LEMMA HalvesKeeps ==
    ASSUME NEW T, NEW C \in SUBSET Passed(T), NEW at \in Int, NEW cut \in Seq(Cuts(C, at))
    PROVE  AllHalves(cut, at) \in Seq(Passed(T))
<1>1. Len(cut) \in 0..Len(cut)
    BY LenProperties
<1> QED  BY <1>1, HalvesRuns

\* Rewriting clips in place, their ids and starts left alone, keeps the store as
\* it should be, with any keyframes of its clips.
LEMMA Rewritten ==
    ASSUME NEW T, NEW st \in Stores(T), NEW q \in Seq(Passed(T)), Len(q) = Len(st.clips),
           \A i \in 1..Len(q) : q[i].id = st.clips[i].id /\ q[i].ptsIn = st.clips[i].ptsIn,
           NEW ks \in SUBSET KeyType, \A k \in ks : k.clip \in Ids(st)
    PROVE  /\ [clips |-> q, keys |-> ks, nextId |-> st.nextId] \in Stores(T)
           /\ Ids([clips |-> q, keys |-> ks, nextId |-> st.nextId]) = Ids(st)
<1> DEFINE t == [clips |-> q, keys |-> ks, nextId |-> st.nextId]
<1>1. DOMAIN q = 1..Len(q) /\ DOMAIN st.clips = 1..Len(q) /\ t.clips = q
    BY StoreParts, LenProperties
<1>2. \A i \in 1..Len(q) : q[i].id \in Nat /\ q[i].id < st.nextId
    BY StoreParts
<1>3. \A i, j \in 1..Len(q) : i < j => q[i].ptsIn <= q[j].ptsIn
    BY StoreParts
<1>4. \A i, j \in 1..Len(q) : i # j => q[i].id # q[j].id
    BY StoreParts
<1>5. \A k \in ks : \E i \in 1..Len(q) : q[i].id = k.clip
    BY <1>1 DEF Ids
<1>6. t \in Stores(T)
    BY <1>2, <1>3, <1>4, <1>5, StoreParts, StoreMade
<1> HIDE DEF t
<1>7. Ids(t) = Ids(st)
    BY <1>1 DEF Ids
<1> QED  BY <1>6, <1>7 DEF t

LEMMA ClipSet ==
    ASSUME NEW T, NEW st \in Stores(T), NEW i \in 1..Len(st.clips), NEW d \in Passed(T),
           d.id = st.clips[i].id, d.ptsIn = st.clips[i].ptsIn,
           NEW ks \in SUBSET KeyType, \A k \in ks : k.clip \in Ids(st)
    PROVE  /\ [clips |-> [st.clips EXCEPT ![i] = d], keys |-> ks, nextId |-> st.nextId] \in Stores(T)
           /\ Ids([clips |-> [st.clips EXCEPT ![i] = d], keys |-> ks, nextId |-> st.nextId]) = Ids(st)
<1> DEFINE q == [st.clips EXCEPT ![i] = d]
<1>1. DOMAIN st.clips = 1..Len(st.clips) /\ Len(st.clips) \in Nat
    BY StoreParts
<1>2. /\ DOMAIN q = 1..Len(st.clips)
      /\ \A j \in 1..Len(st.clips) : q[j] = IF j = i THEN d ELSE st.clips[j]
    BY <1>1
<1>3. q \in Seq(Passed(T)) /\ Len(q) = Len(st.clips)
    <2>1. \A j \in 1..Len(st.clips) : q[j] \in Passed(T)
        BY <1>2, StoreParts
    <2>2. q = [j \in 1..Len(st.clips) |-> q[j]]
        BY <1>1
    <2>3. q \in [1..Len(st.clips) -> Passed(T)]
        BY <2>1, <2>2
    <2> HIDE DEF q
    <2> QED  BY <2>3, <1>1
<1>4. \A j \in 1..Len(q) : q[j].id = st.clips[j].id /\ q[j].ptsIn = st.clips[j].ptsIn
    BY <1>2, <1>3
<1> HIDE DEF q
<1>5. /\ [clips |-> q, keys |-> ks, nextId |-> st.nextId] \in Stores(T)
      /\ Ids([clips |-> q, keys |-> ks, nextId |-> st.nextId]) = Ids(st)
    BY <1>3, <1>4, Rewritten
<1> QED  BY <1>5 DEF q

\* Keyframes of clips that are there.
LEMMA KeysSet ==
    ASSUME NEW T, NEW st \in Stores(T),
           NEW ks \in SUBSET KeyType, \A k \in ks : k.clip \in Ids(st)
    PROVE  [st EXCEPT !.keys = ks] \in Stores(T) /\ Ids([st EXCEPT !.keys = ks]) = Ids(st)
<1>1. [st EXCEPT !.keys = ks] = [clips |-> st.clips, keys |-> ks, nextId |-> st.nextId]
    BY DEF Stores, StoreType
<1>2. /\ [clips |-> st.clips, keys |-> ks, nextId |-> st.nextId] \in Stores(T)
      /\ Ids([clips |-> st.clips, keys |-> ks, nextId |-> st.nextId]) = Ids(st)
    BY StoreParts, Rewritten
<1> QED  BY <1>1, <1>2, Zenon

\* Copied and trimmed keyframes.
LEMMA KeysCopied ==
    ASSUME NEW keys \in SUBSET KeyType, NEW from, NEW to \in Nat, NEW a, NEW b
    PROVE  /\ CopyKeys(keys, from, to, a, b) \in SUBSET KeyType
           /\ \A k \in CopyKeys(keys, from, to, a, b) :
                k.clip = to \/ \E key \in keys : k.clip = key.clip
BY DEF CopyKeys, KeyType

LEMMA KeysTrimmed ==
    ASSUME NEW keys \in SUBSET KeyType, NEW id, NEW a, NEW b
    PROVE  TrimKeys(keys, id, a, b) \in SUBSET keys
BY DEF TrimKeys

LEMMA OverwriteKeeps ==
    ASSUME NEW T, NEW st \in Stores(T), NEW p \in Passed(T)
    PROVE  InsertClipOverwrite(st, p) \in Results(T)
<1> DEFINE Under(c) == c.track = p.track /\ c.ptsIn < p.ptsOut /\ c.ptsOut > p.ptsIn
           under == Picked(st.clips, {i \in DOMAIN st.clips : Under(st.clips[i])})
           B == {c \in Passed(T) : c.ptsIn < p.ptsOut}
           room == FoldLeft(LAMBDA r, c : InsertAll(RemoveClip(r.s, c.id),
                                                    Remains(c, p.ptsIn, p.ptsOut)),
                            Done(st, -1), under)
<1>1. under \in Seq(B)
    <2> DEFINE at == {i \in DOMAIN st.clips : Under(st.clips[i])}
    <2>1. st.clips \in Seq(Passed(T)) /\ \A i \in DOMAIN st.clips : st.clips[i] \in Passed(T)
        BY StoreParts
    <2>2. \A i \in DOMAIN st.clips : i \in at => st.clips[i] \in B
        BY <2>1
    <2> HIDE DEF at, B
    <2>3. Picked(st.clips, at) \in Seq(B)
        BY <2>1, <2>2, PickedFrom
    <2> QED  BY <2>3 DEF at
<1>2. room \in Results(T)
    <2> HIDE DEF under
    <2> QED  BY <1>1, RoomMade
<1>3. InsertClipOverwrite(st, p) = IF p.ptsIn >= p.ptsOut THEN Fail(st) ELSE InsertClip(room.s, p)
    BY DEF InsertClipOverwrite
<1> HIDE DEF room
<1>4. InsertClip(room.s, p) \in Results(T)
    BY <1>2, InsertKeeps DEF Results
<1>5. Fail(st) \in Results(T)
    BY DEF Fail, Results
<1> QED  BY <1>3, <1>4, <1>5

LEMMA DuplicateKeeps ==
    ASSUME NEW T, NEW st \in Stores(T), NEW id
    PROVE  DuplicateClip(st, id) \in Results(T)
<1>1. CASE id \notin Ids(st)
    BY <1>1 DEF DuplicateClip, Fail, Results
<1>2. CASE id \in Ids(st)
    <2> DEFINE c == ClipOf(st, id)
               p == [c EXCEPT !.ptsIn = c.ptsOut, !.ptsOut = c.ptsOut + Duration(c)]
    <2>1. c \in Passed(T)
        BY <1>2, FoundById
    <2>2. c.ptsOut \in Int /\ c.ptsOut + Duration(c) \in Int
        BY <2>1, ClipParts
    <2>3. DuplicateClip(st, id) = InsertClipOverwrite(st, p)
        BY <1>2 DEF DuplicateClip
    <2> HIDE DEF c
    <2>4. p \in Passed(T)
        BY <2>1, <2>2, PassedOn
    <2> QED  BY <2>3, <2>4, OverwriteKeeps
<1> QED  BY <1>1, <1>2

LEMMA TrimInKeeps ==
    ASSUME NEW T, NEW st \in Stores(T), NEW id, NEW newIn \in Int
    PROVE  TrimClipIn(st, id, newIn) \in Results(T)
<1>1. Fail(st) \in Results(T)
    BY DEF Fail, Results
<1> DEFINE c == ClipOf(st, id)
           src == c.sourceIn + (newIn - c.ptsIn)
           p == [c EXCEPT !.ptsIn = newIn, !.sourceIn = src]
           r == InsertClip(st, p)
           ks == CopyKeys(r.s.keys, id, r.id, newIn, c.ptsOut)
           t == [r.s EXCEPT !.keys = ks]
<1>2. CASE id \in Ids(st) /\ newIn < c.ptsOut /\ src >= 0
    <2>1. c \in Passed(T)
        BY <1>2, FoundById
    <2>2. src \in Nat /\ c.ptsOut \in Int /\ p.ptsOut = c.ptsOut /\ p.ptsIn = newIn
        BY <1>2, <2>1, ClipParts DEF Passed, ClipType
    <2>3. p \in Passed(T)
        <3> HIDE DEF c, src
        <3> QED  BY <2>1, <2>2, PassedOn
    <2>4. TrimClipIn(st, id, newIn) = Done(RemoveClip(t, id).s, r.id)
        BY <1>2, <2>2 DEF TrimClipIn
    <2> HIDE DEF c, src, p
    <2>5. /\ r \in Results(T) /\ r.s \in Stores(T) /\ r.id \in Nat /\ r.id \in Ids(r.s)
        <3>1. p.ptsIn < p.ptsOut
            BY <1>2, <2>2
        <3>2. r \in Results(T) /\ r.id = st.nextId /\ Ids(r.s) = Ids(st) \cup {st.nextId}
            BY <2>3, <3>1, InsertKeeps
        <3>3. st.nextId \in Nat
            BY StoreParts
        <3> HIDE DEF r
        <3>4. r.s \in Stores(T)
            BY <3>2 DEF Results
        <3> QED  BY <3>2, <3>3, <3>4
    <2> HIDE DEF r
    <2>6. r.s.keys \in SUBSET KeyType /\ \A k \in r.s.keys : k.clip \in Ids(r.s)
        BY <2>5, StoreParts
    <2>7. ks \in SUBSET KeyType /\ \A k \in ks : k.clip \in Ids(r.s)
        BY <2>5, <2>6, KeysCopied
    <2> HIDE DEF ks
    <2>8. t \in Stores(T)
        BY <2>5, <2>7, KeysSet
    <2> HIDE DEF t
    <2>9. RemoveClip(t, id).s \in Stores(T)
        BY <2>8, RemoveKeeps DEF Results
    <2> QED  BY <2>4, <2>5, <2>9 DEF Done, Results
<1>3. CASE ~(id \in Ids(st) /\ newIn < c.ptsOut /\ src >= 0)
    <2>1. id \in Ids(st) => c.ptsOut \in Int /\ src \in Int
        BY FoundById, ClipParts
    <2>2. TrimClipIn(st, id, newIn) = Fail(st)
        BY <1>3, <2>1 DEF TrimClipIn
    <2> QED  BY <1>1, <2>2
<1> QED  BY <1>2, <1>3

LEMMA TrimOutKeeps ==
    ASSUME NEW T, NEW st \in Stores(T), NEW id, NEW newOut \in Int
    PROVE  TrimClipOut(st, id, newOut) \in Results(T)
<1>1. Fail(st) \in Results(T)
    BY DEF Fail, Results
<1> DEFINE c == ClipOf(st, id)
           i == IndexOf(st, id)
           d == [st.clips[i] EXCEPT !.ptsOut = newOut]
           ks == TrimKeys(st.keys, id, c.ptsIn, newOut)
           t == [clips |-> [st.clips EXCEPT ![i] = d], keys |-> ks, nextId |-> st.nextId]
<1>2. CASE id \in Ids(st) /\ ~(newOut <= c.ptsIn)
    <2>1. i \in 1..Len(st.clips) /\ st.clips[i] \in Passed(T) /\ id \in Int
        BY <1>2, FoundById
    <2>2. d \in Passed(T) /\ d.id = st.clips[i].id /\ d.ptsIn = st.clips[i].ptsIn
        <3> HIDE DEF i
        <3> QED  BY <2>1, Zenon DEF Passed, ClipType
    <2>3. TrimClipOut(st, id, newOut)
            = Done([st EXCEPT !.clips[i].ptsOut = newOut, !.keys = ks], id)
        BY <1>2 DEF TrimClipOut
    <2> HIDE DEF i
    <2>4. [st EXCEPT !.clips[i].ptsOut = newOut, !.keys = ks] = t
        <3> HIDE DEF ks
        <3> DEFINE q == [st.clips EXCEPT ![i] = d]
                   u == [st EXCEPT !.clips[i].ptsOut = newOut]
        <3>1. u = [clips |-> q, keys |-> st.keys, nextId |-> st.nextId]
            BY <2>1 DEF Stores, StoreType
        <3>2. [st EXCEPT !.clips[i].ptsOut = newOut, !.keys = ks] = [u EXCEPT !.keys = ks]
            BY <2>1 DEF Stores, StoreType
        <3> HIDE DEF q, u
        <3>3. [u EXCEPT !.keys = ks] = [clips |-> q, keys |-> ks, nextId |-> st.nextId]
            BY <3>1
        <3> QED  BY <3>2, <3>3 DEF q
    <2>5. ks \in SUBSET KeyType /\ \A k \in ks : k.clip \in Ids(st)
        BY KeysTrimmed, StoreParts
    <2> HIDE DEF ks, d
    <2>6. t \in Stores(T)
        BY <2>1, <2>2, <2>5, ClipSet
    <2> QED  BY <2>1, <2>3, <2>4, <2>6 DEF Done, Results
<1>3. CASE ~(id \in Ids(st) /\ ~(newOut <= c.ptsIn))
    <2>1. TrimClipOut(st, id, newOut) = Fail(st)
        BY <1>3 DEF TrimClipOut
    <2> QED  BY <1>1, <2>1
<1> QED  BY <1>2, <1>3

\* Rounded division by a positive number, and source times.
LEMMA Rounded ==
    ASSUME NEW a \in Int, NEW d \in Nat \ {0}
    PROVE  RoundDiv(a, d) \in Int /\ (a >= 0 => RoundDiv(a, d) \in Nat)
<1>1. d \div 2 \in Nat
    OBVIOUS
<1>2. (a + d \div 2) \div d \in Int /\ (d \div 2 - a) \div d \in Int
    <2> DEFINE x == a + d \div 2
               y == d \div 2 - a
    <2>1. x \in Int /\ y \in Int
        BY <1>1
    <2> HIDE DEF x, y
    <2>2. x \div d \in Int /\ y \div d \in Int
        BY <2>1
    <2> QED  BY <2>2 DEF x, y
<1>3. a >= 0 => (a + d \div 2) \div d \in Nat
    <2> DEFINE x == a + d \div 2
    <2>1. a >= 0 => x \in Nat
        BY <1>1
    <2> HIDE DEF x
    <2>2. x \in Nat => x \div d \in Nat
        OBVIOUS
    <2> QED  BY <2>1, <2>2 DEF x
<1> QED  BY <1>2, <1>3 DEF RoundDiv

LEMMA TailPassed ==
    ASSUME NEW T, NEW c \in Passed(T), NEW pts \in Int, c.ptsIn < pts
    PROVE  TailOf(c, pts) \in Passed(T) /\ TailOf(c, pts).ptsIn = pts
           /\ TailOf(c, pts).ptsOut = c.ptsOut
<1>1. c.ptsIn \in Int /\ c.sourceIn \in Nat /\ c.speed \in Nat \ {0}
    BY ClipParts
<1> DEFINE offset == pts - c.ptsIn
<1>2. offset \in Nat
    BY <1>1
<1> HIDE DEF offset
<1>3. offset * c.speed \in Nat
    BY <1>1, <1>2
<1>4. SpeedScale(offset, c.speed) \in Nat
    BY <1>3, SpeedUnitAssumption, Rounded DEF SpeedScale
<1> DEFINE src == c.sourceIn + SpeedScale(offset, c.speed)
<1>5. src \in Nat
    BY <1>1, <1>4
<1>6. TailOf(c, pts) = [c EXCEPT !.ptsIn = pts, !.fadeIn = 0, !.sourceIn = src]
    BY DEF TailOf, offset
<1> HIDE DEF src
<1>7. /\ [c EXCEPT !.ptsIn = pts, !.fadeIn = 0, !.sourceIn = src] \in Passed(T)
      /\ [c EXCEPT !.ptsIn = pts, !.fadeIn = 0, !.sourceIn = src].ptsIn = pts
      /\ [c EXCEPT !.ptsIn = pts, !.fadeIn = 0, !.sourceIn = src].ptsOut = c.ptsOut
    BY <1>5, Zenon DEF Passed, ClipType
<1> QED  BY <1>6, <1>7, Zenon

\* What is left of a clip up to a cut.
HeadOf(c, pts) == [c EXCEPT !.ptsOut = pts, !.fadeOut = 0]

LEMMA HeadCut ==
    ASSUME NEW T, NEW st \in Stores(T), NEW i \in 1..Len(st.clips), NEW pts \in Int
    PROVE  [st EXCEPT !.clips[i].ptsOut = pts, !.clips[i].fadeOut = 0]
             = [clips |-> [st.clips EXCEPT ![i] = HeadOf(st.clips[i], pts)],
                keys |-> st.keys, nextId |-> st.nextId]
<1> DEFINE d == [st.clips[i] EXCEPT !.ptsOut = pts, !.fadeOut = 0]
           t == [st EXCEPT !.clips[i].ptsOut = pts, !.clips[i].fadeOut = 0]
           q == [st.clips EXCEPT ![i] = d]
<1>1. st.clips[i] \in Passed(T)
    BY StoreParts
<1>2. t = [clips |-> q, keys |-> st.keys, nextId |-> st.nextId]
    <2> DEFINE e == [st.clips[i] EXCEPT !.ptsOut = pts]
               m == [st.clips EXCEPT ![i] = e]
               u == [st EXCEPT !.clips[i].ptsOut = pts]
    <2>1. DOMAIN st.clips = 1..Len(st.clips)
        BY StoreParts
    <2>2. u = [clips |-> m, keys |-> st.keys, nextId |-> st.nextId]
        BY <1>1, SMTT(30) DEF Stores, StoreType
    <2>3. t = [u EXCEPT !.clips[i].fadeOut = 0]
        BY <2>1 DEF Stores, StoreType
    <2>4. [m EXCEPT ![i] = [m[i] EXCEPT !.fadeOut = 0]] = q
        <3>1. m[i] = e
            BY <2>1
        <3>2. [e EXCEPT !.fadeOut = 0] = d
            BY <1>1 DEF Passed, ClipType
        <3> HIDE DEF e, d
        <3>3. [m EXCEPT ![i] = d] = q
            BY <2>1
        <3> QED  BY <3>1, <3>2, <3>3
    <2>5. [u EXCEPT !.clips[i].fadeOut = 0]
            = [clips |-> [m EXCEPT ![i] = [m[i] EXCEPT !.fadeOut = 0]],
               keys |-> st.keys, nextId |-> st.nextId]
        <3> HIDE DEF m, u
        <3> QED  BY <2>2
    <2> HIDE DEF t, u, m, q
    <2> QED  BY <2>3, <2>4, <2>5
<1> QED  BY <1>2 DEF HeadOf

\* The clip that a cut shortens.
LEMMA HeadPassed ==
    ASSUME NEW T, NEW st \in Stores(T), NEW i \in 1..Len(st.clips), NEW pts \in Int
    PROVE  /\ [st EXCEPT !.clips[i].ptsOut = pts, !.clips[i].fadeOut = 0] \in Stores(T)
           /\ Ids([st EXCEPT !.clips[i].ptsOut = pts, !.clips[i].fadeOut = 0]) = Ids(st)
<1> DEFINE d == [st.clips[i] EXCEPT !.ptsOut = pts, !.fadeOut = 0]
           t == [st EXCEPT !.clips[i].ptsOut = pts, !.clips[i].fadeOut = 0]
           q == [st.clips EXCEPT ![i] = d]
<1>1. st.clips[i] \in Passed(T)
    BY StoreParts
<1>2. d \in Passed(T) /\ d.id = st.clips[i].id /\ d.ptsIn = st.clips[i].ptsIn
    BY <1>1, Zenon DEF Passed, ClipType
<1>3. t = [clips |-> q, keys |-> st.keys, nextId |-> st.nextId]
    BY HeadCut DEF HeadOf
<1> HIDE DEF d
<1>4. /\ [clips |-> q, keys |-> st.keys, nextId |-> st.nextId] \in Stores(T)
      /\ Ids([clips |-> q, keys |-> st.keys, nextId |-> st.nextId]) = Ids(st)
    BY <1>2, ClipSet, StoreParts
<1> HIDE DEF t, q
<1>5. t \in Stores(T) /\ Ids(t) = Ids(st)
    BY <1>3, <1>4
<1> QED  BY <1>5 DEF t

LEMMA SplitKeeps ==
    ASSUME NEW T, NEW st \in Stores(T), NEW id, NEW pts \in Int
    PROVE  SplitClip(st, id, pts) \in Results(T)
<1>1. Fail(st) \in Results(T)
    BY DEF Fail, Results
<1> DEFINE c == ClipOf(st, id)
           i == IndexOf(st, id)
           u == [st EXCEPT !.clips[i].ptsOut = pts, !.clips[i].fadeOut = 0]
           tail == TailOf(c, pts)
           r == InsertClip(u, tail)
           ks == TrimKeys(CopyKeys(r.s.keys, id, r.id, pts, c.ptsOut), id, c.ptsIn, pts)
           t == [r.s EXCEPT !.keys = ks]
<1>2. CASE id \in Ids(st) /\ ~(pts <= c.ptsIn \/ pts >= c.ptsOut)
    <2>1. c \in Passed(T) /\ i \in 1..Len(st.clips)
        BY <1>2, FoundById
    <2>2. SplitClip(st, id, pts) = Done(t, r.id)
        BY <1>2 DEF SplitClip
    <2> HIDE DEF c, i
    <2>3. c.ptsIn < pts /\ pts < c.ptsOut
        BY <1>2, <2>1, ClipParts
    <2>4. u \in Stores(T)
        BY <2>1, HeadPassed
    <2>5. tail \in Passed(T) /\ tail.ptsIn < tail.ptsOut
        BY <2>1, <2>3, TailPassed
    <2> HIDE DEF u, tail
    <2>6. r \in Results(T) /\ r.id = u.nextId /\ Ids(r.s) = Ids(u) \cup {u.nextId}
        BY <2>4, <2>5, InsertKeeps
    <2> HIDE DEF r
    <2>7. r.s \in Stores(T) /\ r.id \in Nat /\ r.id \in Ids(r.s)
        BY <2>4, <2>6, StoreParts DEF Results
    <2>8. r.s.keys \in SUBSET KeyType /\ \A k \in r.s.keys : k.clip \in Ids(r.s)
        BY <2>7, StoreParts
    <2>9. ks \in SUBSET KeyType /\ \A k \in ks : k.clip \in Ids(r.s)
        <3> DEFINE copied == CopyKeys(r.s.keys, id, r.id, pts, c.ptsOut)
        <3>1. copied \in SUBSET KeyType /\ \A k \in copied : k.clip \in Ids(r.s)
            BY <2>7, <2>8, KeysCopied
        <3> HIDE DEF copied
        <3>2. TrimKeys(copied, id, c.ptsIn, pts) \in SUBSET copied
            BY <3>1, KeysTrimmed
        <3> QED  BY <3>1, <3>2 DEF copied
    <2> HIDE DEF ks
    <2>10. t \in Stores(T)
        BY <2>7, <2>9, KeysSet
    <2> QED  BY <2>2, <2>7, <2>10 DEF Done, Results
<1>3. CASE ~(id \in Ids(st) /\ ~(pts <= c.ptsIn \/ pts >= c.ptsOut))
    <2>1. SplitClip(st, id, pts) = Fail(st)
        BY <1>3 DEF SplitClip
    <2> QED  BY <1>1, <2>1
<1> QED  BY <1>2, <1>3

LEMMA SpeedKeeps ==
    ASSUME NEW T, NEW st \in Stores(T), NEW i \in 1..Len(st.clips), NEW speed \in Speeds
    PROVE  SetSpeedAt(st, i, speed) \in Stores(T) /\ Ids(SetSpeedAt(st, i, speed)) = Ids(st)
           /\ Len(SetSpeedAt(st, i, speed).clips) = Len(st.clips)
<1> DEFINE c == st.clips[i]
           out == c.ptsIn + RoundDiv(Duration(c) * c.speed, speed)
           d == [c EXCEPT !.ptsOut = out, !.speed = speed]
           q == [st.clips EXCEPT ![i] = d]
           t == [st EXCEPT !.clips[i].ptsOut = out, !.clips[i].speed = speed]
<1>1. c \in Passed(T) /\ DOMAIN st.clips = 1..Len(st.clips) /\ Len(st.clips) \in Nat
    BY StoreParts
<1>2. SetSpeedAt(st, i, speed) = IF speed = c.speed THEN st ELSE t
    BY DEF SetSpeedAt
<1>3. out \in Int
    <2> HIDE DEF c
    <2> DEFINE n == Duration(c) * c.speed
    <2>1. n \in Int
        BY <1>1, ClipParts
    <2>2. speed \in Nat \ {0}
        BY EditorAssumption
    <2> HIDE DEF n
    <2>3. RoundDiv(n, speed) \in Int
        BY <2>1, <2>2, Rounded
    <2> QED  BY <1>1, <2>3, ClipParts DEF n
<1> HIDE DEF out
<1>4. d \in Passed(T) /\ d.id = c.id /\ d.ptsIn = c.ptsIn
    <2> HIDE DEF c
    <2> QED  BY <1>1, <1>3, Zenon DEF Passed, ClipType
<1>5. t = [clips |-> q, keys |-> st.keys, nextId |-> st.nextId]
    <2> DEFINE e == [st.clips[i] EXCEPT !.ptsOut = out]
               m == [st.clips EXCEPT ![i] = e]
               u == [st EXCEPT !.clips[i].ptsOut = out]
    <2>2. u = [clips |-> m, keys |-> st.keys, nextId |-> st.nextId]
        BY <1>1 DEF Stores, StoreType
    <2>3. t = [u EXCEPT !.clips[i].speed = speed]
        BY <1>1 DEF Stores, StoreType
    <2>4. [m EXCEPT ![i] = [m[i] EXCEPT !.speed = speed]] = q
        <3>1. m[i] = e
            BY <1>1
        <3>2. [e EXCEPT !.speed = speed] = d
            BY <1>1 DEF Passed, ClipType
        <3> HIDE DEF e, d, c
        <3>3. [m EXCEPT ![i] = d] = q
            BY <1>1
        <3> QED  BY <3>1, <3>2, <3>3
    <2>5. [u EXCEPT !.clips[i].speed = speed]
            = [clips |-> [m EXCEPT ![i] = [m[i] EXCEPT !.speed = speed]],
               keys |-> st.keys, nextId |-> st.nextId]
        <3> HIDE DEF m, u
        <3> QED  BY <2>2
    <2> HIDE DEF t, u, m, q
    <2> QED  BY <2>3, <2>4, <2>5
<1> HIDE DEF d
<1>6. /\ [clips |-> q, keys |-> st.keys, nextId |-> st.nextId] \in Stores(T)
      /\ Ids([clips |-> q, keys |-> st.keys, nextId |-> st.nextId]) = Ids(st)
    BY <1>4, ClipSet, StoreParts, SMTT(30)
<1>7. Len(q) = Len(st.clips)
    <2>1. DOMAIN q = 1..Len(st.clips)
        BY <1>1
    <2>2. q \in Seq(Passed(T))
        BY <1>6, StoreParts
    <2> HIDE DEF q
    <2> QED  BY <1>1, <2>1, <2>2, LenProperties
<1> HIDE DEF t, q, c
<1> QED  BY <1>2, <1>5, <1>6, <1>7

\* Ripple edits leave the store as it should be.
LEMMA RippleRemoveKeeps ==
    ASSUME NEW T, NEW st \in Stores(T), NEW id
    PROVE  RippleRemoveClip(st, id) \in Results(T)
<1>1. CASE id \notin Ids(st)
    BY <1>1 DEF RippleRemoveClip, Fail, Results
<1>2. CASE id \in Ids(st)
    <2> DEFINE c == ClipOf(st, id)
               at == {i \in DOMAIN st.clips :
                         /\ st.clips[i].track = c.track /\ st.clips[i].ptsIn >= c.ptsOut}
               later == Picked(st.clips, at)
               back == [n \in DOMAIN later |-> MoveBy(later[n], -Duration(c))]
    <2>1. RippleRemoveClip(st, id)
            = InsertAll(RemoveAll(RemoveClip(st, id), IdSeq(later)), ByStart(back))
        BY <1>2 DEF RippleRemoveClip
    <2>2. c \in Passed(T)
        BY <1>2, FoundById
    <2>3. -Duration(c) \in Int
        BY <2>2, ClipParts
    <2> HIDE DEF at, c
    <2>4. later \in Seq(Passed(T))
        <3>1. st.clips \in Seq(Passed(T)) /\ \A i \in DOMAIN st.clips : st.clips[i] \in Passed(T)
            BY StoreParts
        <3> QED  BY <3>1, PickedFrom
    <2> HIDE DEF later
    <2>5. /\ DOMAIN later = 1..Len(later) /\ Len(later) \in Nat
          /\ \A n \in 1..Len(later) : later[n] \in Passed(T)
        BY <2>4, LenProperties, ElementOfSeq
    <2>6. back \in Seq(Passed(T))
        BY <2>3, <2>5, Moved
    <2>7. IdSeq(later) \in Seq(Int)
        <3>1. \A n \in 1..Len(later) : later[n].id \in Int
            BY <2>5, ClipParts
        <3> QED  BY <2>5, <3>1 DEF IdSeq
    <2> HIDE DEF back
    <2>8. RemoveAll(RemoveClip(st, id), IdSeq(later)) \in Results(T)
        BY <2>7, RemoveKeeps, RemoveAllKeeps
    <2>9. ByStart(back) \in Seq(Passed(T))
        BY <2>6, ByStartKeeps
    <2> QED  BY <2>1, <2>8, <2>9, InsertAllKeeps
<1> QED  BY <1>1, <1>2

\* The clips of a ripple's cuts and pushes, their ids, and the pushed clips.
Clips(moves) == [n \in DOMAIN moves |-> moves[n].clip]
TakenIds(moves) == [n \in DOMAIN moves |-> moves[n].clip.id]
Shifted(push) == [n \in DOMAIN push |-> MoveBy(push[n].clip, push[n].by)]
Arranged(p, cut, push) == AllHalves(cut, p.ptsIn) \o ByStart(Shifted(push)) \o <<p>>

\* An insertion takes clips out and puts back their halves or shifts.
IsRipple(st, p, cut, push) ==
    /\ cut \in Seq(Cuts(Shelf(st), p.ptsIn)) /\ push \in Seq(Pushes(Shelf(st)))
    /\ InsertClipRipple(st, p) =
         InsertAll(RemoveAll(Done(st, -1), TakenIds(cut) \o TakenIds(push)),
                   Arranged(p, cut, push))

LEMMA RippleIs ==
    ASSUME NEW T, NEW st \in Stores(T), NEW p \in Passed(T), p.ptsIn < p.ptsOut
    PROVE  \E cut, push : IsRipple(st, p, cut, push)
<1> DEFINE at == p.ptsIn
           plan == RipplePlan(st, p.track, at, Duration(p))
           cut == WithLinked(st, plan.cut)
           push == WithLinked(st, plan.push)
<1>1. InsertClipRipple(st, p) =
        IF p.ptsIn >= p.ptsOut THEN Fail(st)
        ELSE InsertAll(RemoveAll(Done(st, -1), TakenIds(cut) \o TakenIds(push)),
                       Arranged(p, cut, push))
    <2> DEFINE cutIds == [n \in DOMAIN cut |-> cut[n].clip.id]
               pushIds == [n \in DOMAIN push |-> push[n].clip.id]
               pushed == [n \in DOMAIN push |-> MoveBy(push[n].clip, push[n].by)]
               new == AllHalves(cut, at) \o ByStart(pushed) \o <<p>>
    <2>1. InsertClipRipple(st, p) =
            IF p.ptsIn >= p.ptsOut THEN Fail(st)
            ELSE InsertAll(RemoveAll(Done(st, -1), cutIds \o pushIds), new)
        BY DEF InsertClipRipple, AllHalves
    <2> HIDE DEF at, plan, cut, push
    <2>2. cutIds = TakenIds(cut) /\ pushIds = TakenIds(push) /\ pushed = Shifted(push)
        BY DEF TakenIds, Shifted
    <2>3. new = Arranged(p, cut, push)
        BY <2>2 DEF Arranged, at
    <2> HIDE DEF cutIds, pushIds, new
    <2> QED  BY <2>1, <2>2, <2>3
<1>2. at \in Int /\ Duration(p) \in Int /\ ~(p.ptsIn >= p.ptsOut)
    BY ClipParts
<1>3. plan \in Plans(Shelf(st), at)
    BY <1>2, PlanMade
<1> HIDE DEF at, plan
<1>4. plan.cut \in Seq(Cuts(Shelf(st), at)) /\ plan.push \in Seq(Pushes(Shelf(st)))
    BY <1>3 DEF Plans
<1>5. cut \in Seq(Cuts(Shelf(st), at))
    <2> DEFINE M == Cuts(Shelf(st), at)
    <2>1. ASSUME NEW m \in M, NEW d \in Shelf(st), d.ptsIn = m.clip.ptsIn
          PROVE  [m EXCEPT !.clip = d] \in M
        <3>1. d \in Early(Shelf(st), at)
            BY <2>1 DEF Cuts, Early
        <3> QED  BY <2>1, <3>1, Zenon DEF Cuts
    <2> HIDE DEF M
    <2>2. plan.cut \in Seq(M)
        BY <1>4 DEF M
    <2>3. WithLinked(st, plan.cut) \in Seq(M)
        BY <2>1, <2>2, WithLinkedKeeps
    <2> QED  BY <2>3 DEF M
<1>6. push \in Seq(Pushes(Shelf(st)))
    <2> DEFINE M == Pushes(Shelf(st))
    <2>1. ASSUME NEW m \in M, NEW d \in Shelf(st), d.ptsIn = m.clip.ptsIn
          PROVE  [m EXCEPT !.clip = d] \in M
        BY <2>1, Zenon DEF Pushes
    <2> HIDE DEF M
    <2>2. plan.push \in Seq(M)
        BY <1>4 DEF M
    <2>3. WithLinked(st, plan.push) \in Seq(M)
        BY <2>1, <2>2, WithLinkedKeeps
    <2> QED  BY <2>3 DEF M
<1> HIDE DEF cut, push
<1>7. IsRipple(st, p, cut, push)
    BY <1>1, <1>2, <1>5, <1>6 DEF IsRipple, at
<1> QED  BY <1>7

LEMMA RippleTypes ==
    ASSUME NEW T, NEW st \in Stores(T), NEW p \in Passed(T),
           NEW cut, NEW push, IsRipple(st, p, cut, push)
    PROVE  /\ Clips(cut) \in Seq(Shelf(st)) /\ Clips(push) \in Seq(Shelf(st))
           /\ Len(Clips(cut)) = Len(cut) /\ Len(Clips(push)) = Len(push)
           /\ TakenIds(cut) \in Seq(Int) /\ TakenIds(push) \in Seq(Int)
           /\ Len(TakenIds(cut)) = Len(cut) /\ Len(TakenIds(push)) = Len(push)
           /\ \A n \in 1..Len(cut) : TakenIds(cut)[n] = Clips(cut)[n].id
           /\ \A n \in 1..Len(push) : TakenIds(push)[n] = Clips(push)[n].id
           /\ AllHalves(cut, p.ptsIn) \in Seq(Passed(T))
           /\ Shifted(push) \in Seq(Passed(T)) /\ Len(Shifted(push)) = Len(push)
           /\ ByStart(Shifted(push)) \in Seq(Passed(T))
           /\ Arranged(p, cut, push) \in Seq(Passed(T))
<1>1. p.ptsIn \in Int /\ Shelf(st) \in SUBSET Passed(T)
    BY ClipParts, ShelfPassed
<1>2. /\ DOMAIN cut = 1..Len(cut) /\ Len(cut) \in Nat
      /\ \A n \in 1..Len(cut) : cut[n].clip \in Shelf(st)
    <2>1. cut \in Seq(Cuts(Shelf(st), p.ptsIn))
        BY DEF IsRipple
    <2>2. \A n \in 1..Len(cut) : cut[n] \in Cuts(Shelf(st), p.ptsIn)
        BY <2>1, ElementOfSeq
    <2> QED  BY <2>1, <2>2, LenProperties DEF Cuts, Early
<1>3. /\ DOMAIN push = 1..Len(push) /\ Len(push) \in Nat
      /\ \A n \in 1..Len(push) : push[n].clip \in Shelf(st) /\ push[n].by \in Int
    <2>1. push \in Seq(Pushes(Shelf(st)))
        BY DEF IsRipple
    <2>2. \A n \in 1..Len(push) : push[n] \in Pushes(Shelf(st))
        BY <2>1, ElementOfSeq
    <2> QED  BY <2>1, <2>2, LenProperties DEF Pushes
<1>4. ASSUME NEW ms, DOMAIN ms = 1..Len(ms), Len(ms) \in Nat,
             \A n \in 1..Len(ms) : ms[n].clip \in Shelf(st)
      PROVE  /\ Clips(ms) \in Seq(Shelf(st)) /\ Len(Clips(ms)) = Len(ms)
             /\ TakenIds(ms) \in Seq(Int) /\ Len(TakenIds(ms)) = Len(ms)
             /\ \A n \in 1..Len(ms) : TakenIds(ms)[n] = Clips(ms)[n].id
    <2>1. Clips(ms) \in [1..Len(ms) -> Shelf(st)]
        BY <1>4 DEF Clips
    <2>2. \A n \in 1..Len(ms) : ms[n].clip.id \in Int
        BY <1>1, <1>4, ClipParts
    <2>3. TakenIds(ms) \in [1..Len(ms) -> Int]
        BY <1>4, <2>2 DEF TakenIds
    <2>4. \A n \in 1..Len(ms) : TakenIds(ms)[n] = Clips(ms)[n].id
        BY <1>4 DEF TakenIds, Clips
    <2>5. Clips(ms) \in Seq(Shelf(st)) /\ Len(Clips(ms)) = Len(ms)
        BY <1>4, <2>1
    <2>6. TakenIds(ms) \in Seq(Int) /\ Len(TakenIds(ms)) = Len(ms)
        BY <1>4, <2>3
    <2> QED  BY <2>4, <2>5, <2>6
<1>5. AllHalves(cut, p.ptsIn) \in Seq(Passed(T))
    BY <1>1, HalvesKeeps DEF IsRipple
<1>6. Shifted(push) \in Seq(Passed(T)) /\ Len(Shifted(push)) = Len(push)
    <2>1. \A n \in 1..Len(push) : MoveBy(push[n].clip, push[n].by) \in Passed(T)
        BY <1>1, <1>3, Moved
    <2>2. Shifted(push) \in [1..Len(push) -> Passed(T)]
        BY <1>3, <2>1 DEF Shifted
    <2> QED  BY <1>3, <2>2
<1>7. ByStart(Shifted(push)) \in Seq(Passed(T))
    BY <1>6, ByStartKeeps
<1>8. Arranged(p, cut, push) \in Seq(Passed(T))
    <2>1. AllHalves(cut, p.ptsIn) \o ByStart(Shifted(push)) \in Seq(Passed(T))
        BY <1>5, <1>7, ConcatProperties
    <2>2. <<p>> \in Seq(Passed(T))
        OBVIOUS
    <2> QED  BY <2>1, <2>2, ConcatProperties DEF Arranged
<1> QED  BY <1>2, <1>3, <1>4, <1>5, <1>6, <1>7, <1>8

LEMMA InsertRippleKeeps ==
    ASSUME NEW T, NEW st \in Stores(T), NEW p \in Passed(T)
    PROVE  InsertClipRipple(st, p) \in Results(T)
<1>1. CASE p.ptsIn >= p.ptsOut
    <2>1. InsertClipRipple(st, p) = Fail(st)
        BY <1>1 DEF InsertClipRipple
    <2> QED  BY <2>1 DEF Fail, Results
<1>2. CASE ~(p.ptsIn >= p.ptsOut)
    <2>1. p.ptsIn < p.ptsOut
        BY <1>2, ClipParts
    <2>2. PICK cut, push : IsRipple(st, p, cut, push)
        BY <2>1, RippleIs
    <2>3. Done(st, -1) \in Results(T)
        BY DEF Done, Results
    <2>4. TakenIds(cut) \o TakenIds(push) \in Seq(Int) /\ Arranged(p, cut, push) \in Seq(Passed(T))
        BY <2>2, RippleTypes, ConcatProperties
    <2>5. RemoveAll(Done(st, -1), TakenIds(cut) \o TakenIds(push)) \in Results(T)
        BY <2>3, <2>4, RemoveAllKeeps
    <2>6. InsertAll(RemoveAll(Done(st, -1), TakenIds(cut) \o TakenIds(push)),
                    Arranged(p, cut, push)) \in Results(T)
        BY <2>4, <2>5, InsertAllKeeps
    <2> QED  BY <2>2, <2>6 DEF IsRipple
<1> QED  BY <1>1, <1>2

LEMMA MoveRippleKeeps ==
    ASSUME NEW T, NEW st \in Stores(T), NEW id, NEW newIn \in Int
    PROVE  MoveClipRipple(st, id, newIn) \in Results(T)
<1>1. CASE id \notin Ids(st)
    BY <1>1 DEF MoveClipRipple, Fail, Results
<1>2. CASE id \in Ids(st)
    <2> DEFINE c == ClipOf(st, id)
               gone == RippleRemoveClip(st, id)
               placed == MoveBy(c, newIn - c.ptsIn)
    <2>1. c \in Passed(T)
        BY <1>2, FoundById
    <2>2. gone \in Results(T) /\ gone.s \in Stores(T)
        BY RippleRemoveKeeps DEF Results
    <2>3. MoveClipRipple(st, id, newIn) =
            IF gone.ok THEN InsertClipRipple(gone.s, placed) ELSE gone
        BY <1>2 DEF MoveClipRipple
    <2> HIDE DEF c, gone
    <2>4. newIn - c.ptsIn \in Int
        BY <2>1, ClipParts
    <2>5. placed \in Passed(T)
        BY <2>1, <2>4, Moved
    <2> QED  BY <2>2, <2>3, <2>5, InsertRippleKeeps
<1> QED  BY <1>1, <1>2

-----------------------------------------------------------------------------
(* The commands of the project *)

\* New layers change neither ids nor starts.
LEMMA ReindexedKeeps ==
    ASSUME NEW T, NEW r \in Results(T), NEW t \in Nat
    PROVE  Reindexed(r, t) \in Results(T)
<1> DEFINE st == r.s
           Layer(i) == <<t, Cardinality({j \in 1..(i - 1) : st.clips[j].track = t})>>
           q == [i \in DOMAIN st.clips |->
                    IF st.clips[i].track # t THEN st.clips[i]
                    ELSE [st.clips[i] EXCEPT !.layer = Layer(i)]]
           new == [clips |-> q, keys |-> st.keys, nextId |-> st.nextId]
<1>1. st \in Stores(T)
    BY DEF Results
<1>2. ReindexTrackLayerOrder(st, t) = new
    <2>1. ReindexTrackLayerOrder(st, t) = [st EXCEPT !.clips = q]
        BY DEF ReindexTrackLayerOrder
    <2> HIDE DEF q, st
    <2>2. [st EXCEPT !.clips = q] = new
        BY <1>1 DEF Stores, StoreType
    <2> QED  BY <2>1, <2>2
<1> HIDE DEF st
<1>3. DOMAIN st.clips = 1..Len(st.clips) /\ Len(st.clips) \in Nat
    BY <1>1, StoreParts
<1>4. ASSUME NEW i \in 1..Len(st.clips)
      PROVE  q[i] \in Passed(T) /\ q[i].id = st.clips[i].id /\ q[i].ptsIn = st.clips[i].ptsIn
    <2>1. st.clips[i] \in Passed(T)
        BY <1>1, StoreParts
    <2>2. Layer(i) \in Nat \X Nat
        <3> DEFINE S == {j \in 1..(i - 1) : st.clips[j].track = t}
        <3>1. S \in SUBSET (1..(i - 1)) /\ i - 1 \in Nat
            BY <1>3
        <3> HIDE DEF S
        <3>2. Cardinality(S) \in Nat
            BY <3>1, CountIn
        <3> QED  BY <3>2 DEF S
    <2> DEFINE c == st.clips[i]
    <2> HIDE DEF Layer
    <2>3. q[i] = IF c.track # t THEN c ELSE [c EXCEPT !.layer = Layer(i)]
        BY <1>3
    <2> HIDE DEF q, c
    <2>4. c \in Passed(T)
        BY <2>1 DEF c
    <2>5. /\ [c EXCEPT !.layer = Layer(i)] \in Passed(T)
          /\ [c EXCEPT !.layer = Layer(i)].id = c.id
          /\ [c EXCEPT !.layer = Layer(i)].ptsIn = c.ptsIn
        BY <2>2, <2>4, Zenon DEF Passed, ClipType
    <2> QED  BY <2>3, <2>4, <2>5, Zenon DEF c
<1>5. q \in Seq(Passed(T)) /\ Len(q) = Len(st.clips)
    <2>1. DOMAIN q = 1..Len(st.clips)
        BY <1>3
    <2>2. q = [i \in 1..Len(st.clips) |-> q[i]]
        BY <1>3
    <2>3. q \in [1..Len(st.clips) -> Passed(T)]
        <3> HIDE DEF q
        <3> QED  BY <1>4, <2>2
    <2> HIDE DEF q
    <2> QED  BY <1>3, <2>3
<1> HIDE DEF q
<1>6. new \in Stores(T)
    <2>1. \A i \in 1..Len(q) : q[i].id = st.clips[i].id /\ q[i].ptsIn = st.clips[i].ptsIn
        BY <1>4, <1>5
    <2>2. st.keys \in SUBSET KeyType /\ \A k \in st.keys : k.clip \in Ids(st)
        BY <1>1, StoreParts
    <2> QED  BY <1>1, <1>5, <2>1, <2>2, Rewritten
<1> HIDE DEF new
<1>7. [r EXCEPT !.s = new] \in Results(T)
    BY <1>6 DEF Results
<1>8. Reindexed(r, t) = IF r.ok THEN [r EXCEPT !.s = ReindexTrackLayerOrder(r.s, t)] ELSE r
    BY DEF Reindexed
<1>9. Reindexed(r, t) = IF r.ok THEN [r EXCEPT !.s = new] ELSE r
    BY <1>2, <1>8 DEF st
<1> QED  BY <1>7, <1>9

\* There is a free layer.
LEMMA LayerFree ==
    ASSUME NEW T, NEW st \in Stores(T), NEW t \in Nat
    PROVE  NextLayerOrder(st, t) \in Nat \X Nat
<1> DEFINE q == OnTrack(st, t)
           used == {c.layer[2] : c \in ToSet(q)}
           top == Cardinality(used)
           free == {n \in Nat : n \notin used}
<1>1. q \in Seq(Shelf(st))
    BY TrackPicked
<1> HIDE DEF q
<1>2. /\ DOMAIN q = 1..Len(q) /\ Len(q) \in Nat
      /\ \A i \in 1..Len(q) : q[i].layer[2] \in Nat
    <2>1. \A i \in 1..Len(q) : q[i] \in Passed(T)
        BY <1>1, ElementOfSeq, ShelfPassed
    <2>2. \A i \in 1..Len(q) : q[i].layer \in Nat \X Nat
        BY <2>1, ClipParts
    <2> QED  BY <1>1, <2>2, LenProperties
<1>3. IsFiniteSet(used) /\ top \in Nat
    <2> DEFINE f == [i \in 1..Len(q) |-> q[i].layer[2]]
    <2>1. f \in Surjection(1..Len(q), used)
        <3>1. \A i \in 1..Len(q) : f[i] \in used
            BY <1>2 DEF ToSet
        <3>2. \A u \in used : \E i \in 1..Len(q) : f[i] = u
            BY <1>2 DEF ToSet
        <3> HIDE DEF used
        <3> QED  BY <3>1, <3>2 DEF Surjection
    <2>2. IsFiniteSet(1..Len(q))
        BY <1>2, CountIn
    <2> HIDE DEF used, f
    <2>3. IsFiniteSet(used)
        BY <2>1, <2>2, FS_Surjection
    <2> QED  BY <2>3, FS_CardinalityType
<1> HIDE DEF used
<1>4. PICK n \in 0..top : n \notin used
    <2>1. SUFFICES ASSUME 0..top \subseteq used  PROVE FALSE
        OBVIOUS
    <2> HIDE DEF top
    <2>2. IsFiniteSet(0..top) /\ Cardinality(0..top) = IF 0 > top THEN 0 ELSE top - 0 + 1
        <3>1. 0 \in Int /\ top \in Int
            BY <1>3
        <3> QED  BY <3>1, FS_Interval
    <2>3. Cardinality(0..top) <= top
        BY <1>3, <2>1, FS_Subset DEF top
    <2> QED  BY <1>3, <2>2, <2>3
<1> HIDE DEF top
<1>5. PICK w \in free : \A x \in free : w <= x
    <2>1. free \in SUBSET Nat /\ n \in free
        BY <1>3, <1>4
    <2> HIDE DEF free
    <2> QED  BY <2>1, FirstExists
<1>6. w \in 0..top /\ w \notin used /\ \A m \in 0..(w - 1) : m \in used
    <2>1. w <= n /\ w \in Nat
        BY <1>3, <1>4, <1>5
    <2>2. ASSUME NEW m \in 0..(w - 1)  PROVE m \in used
        <3>1. m \in Nat /\ ~(w <= m)
            BY <2>1
        <3> QED  BY <3>1, <1>5
    <2> QED  BY <1>3, <1>4, <1>5, <2>1, <2>2
<1> DEFINE layer == CHOOSE m \in 0..top : m \notin used /\ \A x \in 0..(m - 1) : x \in used
<1>7. layer \in 0..top
    BY <1>6
<1>8. NextLayerOrder(st, t) = <<t, layer>>
    BY DEF NextLayerOrder, q, used, top
<1> HIDE DEF layer
<1> QED  BY <1>3, <1>7, <1>8

LEMMA ProjectInsertKeeps ==
    ASSUME NEW T, NEW st \in Stores(T), NEW p \in Passed(T)
    PROVE  ProjectInsertRipple(st, p) \in Results(T)
<1>1. p.track \in Nat
    BY ClipParts
<1> QED  BY <1>1, InsertRippleKeeps, ReindexedKeeps DEF ProjectInsertRipple

LEMMA ProjectMoveKeeps ==
    ASSUME NEW T, NEW st \in Stores(T), NEW id, NEW newIn \in Int
    PROVE  ProjectMoveClip(st, id, newIn) \in Results(T)
<1>1. CASE id \notin Ids(st)
    BY <1>1 DEF ProjectMoveClip, Fail, Results
<1>2. CASE id \in Ids(st)
    <2>1. ClipOf(st, id).track \in Nat
        BY <1>2, FoundById, ClipParts
    <2> QED  BY <1>2, <2>1, MoveRippleKeeps, ReindexedKeeps DEF ProjectMoveClip
<1> QED  BY <1>1, <1>2

LEMMA MoveToTrackKeeps ==
    ASSUME NEW T, NEW st \in Stores(T), NEW id, NEW t \in T, t \in Nat, NEW newIn \in Int
    PROVE  MoveClipToTrack(st, id, t, newIn) \in Results(T)
<1>1. CASE id \notin Ids(st)
    BY <1>1 DEF MoveClipToTrack, Fail, Results
<1>2. CASE id \in Ids(st)
    <2> DEFINE c == ClipOf(st, id)
               gone == Reindexed(RippleRemoveClip(st, id), c.track)
               moved == MoveBy(c, newIn - c.ptsIn)
               layer == NextLayerOrder(st, t)
               placed == [moved EXCEPT !.track = t, !.layer = layer]
    <2>1. c \in Passed(T)
        BY <1>2, FoundById
    <2>2. MoveClipToTrack(st, id, t, newIn) =
            IF gone.ok THEN Reindexed(InsertClipRipple(gone.s, placed), t) ELSE gone
        BY <1>2 DEF MoveClipToTrack
    <2> HIDE DEF c
    <2>3. newIn - c.ptsIn \in Int /\ c.track \in Nat
        BY <2>1, ClipParts
    <2>4. moved \in Passed(T)
        BY <2>1, <2>3, Moved
    <2>5. layer \in Nat \X Nat
        BY LayerFree
    <2>6. gone \in Results(T)
        BY <2>3, RippleRemoveKeeps, ReindexedKeeps
    <2> HIDE DEF moved, layer, gone
    <2>7. placed \in Passed(T)
        BY <2>4, <2>5, Zenon DEF Passed, ClipType
    <2> HIDE DEF placed
    <2>8. gone.s \in Stores(T)
        BY <2>6 DEF Results
    <2>9. Reindexed(InsertClipRipple(gone.s, placed), t) \in Results(T)
        BY <2>7, <2>8, InsertRippleKeeps, ReindexedKeeps
    <2> QED  BY <2>2, <2>6, <2>9
<1> QED  BY <1>1, <1>2

\* The linked clip is a clip of the store.
LEMMA LinkedFound ==
    ASSUME NEW T, NEW st \in Stores(T), NEW ts, NEW id
    PROVE  FindLinkedClip(st, ts, id) \in Ids(st) \cup {-1}
<1> DEFINE c == ClipOf(st, id)
           IsVideo(t) == ts[t].kind = "video"
           other == {i \in DOMAIN st.clips :
                       LET d == st.clips[i]
                       IN /\ d.id # id /\ d.src = c.src /\ d.ptsIn = c.ptsIn
                          /\ IsVideo(d.track) # IsVideo(c.track)}
           first == CHOOSE i \in other : \A j \in other : i <= j
<1>1. FindLinkedClip(st, ts, id) =
        IF id \notin Ids(st) \/ other = {} THEN -1 ELSE st.clips[first].id
    BY DEF FindLinkedClip
<1>2. DOMAIN st.clips = 1..Len(st.clips) /\ other \subseteq 1..Len(st.clips)
    BY StoreParts
<1> HIDE DEF other
<1>3. ASSUME other # {}  PROVE first \in other
    <2>1. other \in SUBSET Nat
        BY <1>2
    <2>2. \E w \in other : \A x \in other : w <= x
        BY <1>3, <2>1, FirstExists
    <2> QED  BY <2>2
<1>4. other # {} => st.clips[first].id \in Ids(st)
    BY <1>2, <1>3 DEF Ids
<1> QED  BY <1>1, <1>4

-----------------------------------------------------------------------------
(* The session *)

Projects ==
    {p \in [frame : FrameTicks, tracks : Seq(TrackType),
            store : [clips : Seq(ClipType), keys : SUBSET KeyType, nextId : Nat]] :
        IsProject(p) /\ Ordered(p.store) /\ Owned(p.store)}

\* The state as a drag began is among the last snapshots: on top, or under the
\* one of a command given with the key, which leaves nothing selected.
HeldUndoable ==
    gesture.kind \in {"transform", "gain"} /\ gesture.start # <<>> =>
        /\ undo # <<>>
        /\ \/ undo[Len(undo)] = gesture.start[1]
           \/ selected = 0 /\ Len(undo) >= 2 /\ undo[Len(undo) - 1] = gesture.start[1]

\* What every step keeps: the project and all the snapshots are as a project
\* should be, and the two stacks together hold no more than one may.
EInv ==
    /\ project \in Projects
    /\ undo \in Seq(Projects) /\ redo \in Seq(Projects)
    /\ Len(undo) + Len(redo) <= MaxHistory
    /\ selected \in Nat
    /\ gesture \in [kind : Gestures \cup {"none"}, clip : Int, idx : Nat,
                    start : {<<>>} \cup {<<p>> : p \in Projects}]
    /\ shown \in [idx : Nat, look : Looks \X Looks]
    /\ edits \in 0..MaxEdits
    /\ HeldUndoable

\* The parts of a project.
LEMMA ProjectParts ==
    ASSUME NEW p \in Projects
    PROVE  /\ p.tracks \in Seq(TrackType) /\ DOMAIN p.tracks = 1..Len(p.tracks)
           /\ Len(p.tracks) \in Nat /\ DOMAIN p.tracks \subseteq Nat
           /\ p.store \in Stores(DOMAIN p.tracks)
           /\ p.frame \in FrameTicks /\ p.frame \in Nat \ {0}
           /\ IsProject(p) /\ Ordered(p.store) /\ Owned(p.store)
<1>1. IsProject(p) /\ Ordered(p.store) /\ Owned(p.store)
    BY DEF Projects
<1>2. /\ p.tracks \in Seq(TrackType) /\ p.frame \in FrameTicks
      /\ p.store \in [clips : Seq(ClipType), keys : SUBSET KeyType, nextId : Nat]
      /\ \A i \in DOMAIN p.store.clips :
           p.store.clips[i].id \in Nat /\ p.store.clips[i].track \in DOMAIN p.tracks
    BY <1>1 DEF IsProject
<1>3. DOMAIN p.tracks = 1..Len(p.tracks) /\ Len(p.tracks) \in Nat /\ DOMAIN p.tracks \subseteq Nat
    BY <1>2, LenProperties
<1>4. p.frame \in Nat \ {0}
    BY <1>2, EditorAssumption
<1> DEFINE T == DOMAIN p.tracks
           st == p.store
<1>5. st.clips \in Seq(Passed(T))
    <2>1. st.clips \in Seq(ClipType) /\ DOMAIN st.clips = 1..Len(st.clips) /\ Len(st.clips) \in Nat
        BY <1>2, LenProperties
    <2>2. \A i \in 1..Len(st.clips) : st.clips[i] \in Passed(T)
        <3>1. \A i \in 1..Len(st.clips) : st.clips[i] \in ClipType
            BY <2>1, ElementOfSeq
        <3> QED  BY <1>2, <2>1, <3>1 DEF Passed
    <2>3. st.clips = [i \in 1..Len(st.clips) |-> st.clips[i]]
        BY <2>1
    <2> HIDE DEF T, st
    <2>4. st.clips \in [1..Len(st.clips) -> Passed(T)]
        BY <2>2, <2>3
    <2> QED  BY <2>1, <2>4
<1>6. st \in StoreType(T)
    <2> HIDE DEF T
    <2>1. st = [clips |-> st.clips, keys |-> st.keys, nextId |-> st.nextId]
          /\ st.keys \in SUBSET KeyType /\ st.nextId \in Nat
        BY <1>2
    <2> HIDE DEF st
    <2>2. [clips |-> st.clips, keys |-> st.keys, nextId |-> st.nextId]
            \in [clips : Seq(Passed(T)), keys : SUBSET KeyType, nextId : Nat]
        BY <1>5, <2>1
    <2>3. st \in [clips : Seq(Passed(T)), keys : SUBSET KeyType, nextId : Nat]
        BY <2>1, <2>2, Zenon
    <2> QED  BY <1>2, <2>3 DEF StoreType, st
<1> HIDE DEF T, st
<1>7. st \in Stores(T)
    BY <1>1, <1>6 DEF Stores, st
<1> QED  BY <1>1, <1>2, <1>3, <1>4, <1>7 DEF T, st

\* What makes a project.
LEMMA ProjectMade ==
    ASSUME NEW frame \in FrameTicks, NEW ts \in Seq(TrackType), NEW st \in Stores(DOMAIN ts)
    PROVE  [frame |-> frame, tracks |-> ts, store |-> st] \in Projects
<1> DEFINE T == DOMAIN ts
           p == [frame |-> frame, tracks |-> ts, store |-> st]
           PT == [frame : FrameTicks, tracks : Seq(TrackType),
                  store : [clips : Seq(ClipType), keys : SUBSET KeyType, nextId : Nat]]
<1>1. p.tracks = ts /\ p.store = st
    OBVIOUS
<1>2. /\ st.clips \in Seq(Passed(T)) /\ DOMAIN st.clips = 1..Len(st.clips) /\ Len(st.clips) \in Nat
      /\ \A i \in 1..Len(st.clips) : st.clips[i] \in Passed(T) /\ st.clips[i].id \in Nat
    BY StoreParts
<1>3. st.clips \in Seq(ClipType)
    <2>1. \A i \in 1..Len(st.clips) : st.clips[i] \in ClipType
        BY <1>2 DEF Passed
    <2>2. st.clips = [i \in 1..Len(st.clips) |-> st.clips[i]]
        BY <1>2
    <2>3. st.clips \in [1..Len(st.clips) -> ClipType]
        BY <2>1, <2>2
    <2> QED  BY <1>2, <2>3
<1>4. st \in [clips : Seq(ClipType), keys : SUBSET KeyType, nextId : Nat]
    <2>1. /\ st = [clips |-> st.clips, keys |-> st.keys, nextId |-> st.nextId]
          /\ st.keys \in SUBSET KeyType /\ st.nextId \in Nat
        BY StoreParts
    <2>2. [clips |-> st.clips, keys |-> st.keys, nextId |-> st.nextId]
            \in [clips : Seq(ClipType), keys : SUBSET KeyType, nextId : Nat]
        BY <1>3, <2>1
    <2> QED  BY <2>1, <2>2, Zenon
<1>5. \A i \in DOMAIN st.clips : st.clips[i].id \in Nat /\ st.clips[i].track \in DOMAIN ts
    BY <1>2, ClipParts
<1>6. p \in PT
    BY <1>4
<1> HIDE DEF p, PT
<1>7. IsProject(p)
    BY <1>1, <1>5, <1>6 DEF IsProject, PT
<1>8. Ordered(p.store) /\ Owned(p.store)
    BY <1>1 DEF Stores
<1> QED  BY <1>6, <1>7, <1>8 DEF Projects, p, PT

LEMMA WithStore ==
    ASSUME NEW p \in Projects, NEW st \in Stores(DOMAIN p.tracks)
    PROVE  /\ [p EXCEPT !.store = st] \in Projects
           /\ [p EXCEPT !.store = st].store = st /\ [p EXCEPT !.store = st].tracks = p.tracks
<1>1. [p EXCEPT !.store = st] = [frame |-> p.frame, tracks |-> p.tracks, store |-> st]
    BY DEF Projects
<1>2. [frame |-> p.frame, tracks |-> p.tracks, store |-> st] \in Projects
    BY ProjectParts, ProjectMade
<1> QED  BY <1>1, <1>2

LEMMA WithTracks ==
    ASSUME NEW p \in Projects, NEW ts \in Seq(TrackType), DOMAIN p.tracks \subseteq DOMAIN ts
    PROVE  [p EXCEPT !.tracks = ts] \in Projects /\ [p EXCEPT !.tracks = ts].store = p.store
<1>1. [p EXCEPT !.tracks = ts] = [frame |-> p.frame, tracks |-> ts, store |-> p.store]
    BY DEF Projects
<1> DEFINE T == DOMAIN p.tracks
           st == p.store
<1>2. st \in Stores(T)
    BY ProjectParts
<1> HIDE DEF T, st
<1>3. \A i \in 1..Len(st.clips) : st.clips[i] \in Passed(DOMAIN ts)
    BY <1>2, StoreParts DEF Passed, T
<1>4. st.clips \in Seq(Passed(DOMAIN ts))
    <2>1. st.clips = [i \in 1..Len(st.clips) |-> st.clips[i]] /\ Len(st.clips) \in Nat
        BY <1>2, StoreParts
    <2>2. st.clips \in [1..Len(st.clips) -> Passed(DOMAIN ts)]
        BY <1>3, <2>1
    <2> QED  BY <2>1, <2>2
<1>5. st \in Stores(DOMAIN ts)
    <2>1. /\ st = [clips |-> st.clips, keys |-> st.keys, nextId |-> st.nextId]
          /\ st.keys \in SUBSET KeyType /\ st.nextId \in Nat
          /\ \A i \in DOMAIN st.clips : st.clips[i].id \in Nat
        BY <1>2, StoreParts
    <2>2. [clips |-> st.clips, keys |-> st.keys, nextId |-> st.nextId]
            \in [clips : Seq(Passed(DOMAIN ts)), keys : SUBSET KeyType, nextId : Nat]
        BY <1>4, <2>1
    <2>3. st \in [clips : Seq(Passed(DOMAIN ts)), keys : SUBSET KeyType, nextId : Nat]
        BY <2>1, <2>2, Zenon
    <2> QED  BY <1>2, <2>1, <2>3 DEF Stores, StoreType
<1>6. [frame |-> p.frame, tracks |-> ts, store |-> st] \in Projects
    BY <1>5, ProjectParts, ProjectMade
<1> QED  BY <1>1, <1>6 DEF st

LEMMA WithFrame ==
    ASSUME NEW p \in Projects, NEW f \in FrameTicks
    PROVE  [p EXCEPT !.frame = f] \in Projects /\ [p EXCEPT !.frame = f].store = p.store
<1>1. [p EXCEPT !.frame = f] = [frame |-> f, tracks |-> p.tracks, store |-> p.store]
    BY DEF Projects
<1>2. [frame |-> f, tracks |-> p.tracks, store |-> p.store] \in Projects
    BY ProjectParts, ProjectMade
<1> QED  BY <1>1, <1>2

\* Dropping the oldest entries leaves the last two.
LEMMA CappedKeeps ==
    ASSUME NEW X, NEW stack \in Seq(X)
    PROVE  /\ Capped(stack) \in Seq(X) /\ Len(Capped(stack)) <= MaxHistory
           /\ \A n \in {0, 1} : n < Len(stack) =>
                /\ n < Len(Capped(stack))
                /\ Capped(stack)[Len(Capped(stack)) - n] = stack[Len(stack) - n]
<1>1. Len(stack) \in Nat /\ MaxHistory \in Nat /\ MaxHistory >= 2
    BY EditorAssumption, LenProperties
<1>2. CASE Len(stack) <= MaxHistory
    <2>1. Capped(stack) = stack
        BY <1>1, <1>2 DEF Capped
    <2> QED  BY <1>1, <1>2, <2>1
<1>3. CASE Len(stack) > MaxHistory
    <2> DEFINE q == SubSeq(stack, Len(stack) - MaxHistory + 1, Len(stack))
    <2>1. Capped(stack) = q
        BY <1>3 DEF Capped
    <2>2. \A i \in (Len(stack) - MaxHistory + 1)..Len(stack) : stack[i] \in X
        BY <1>1, <1>3, ElementOfSeq
    <2>3. /\ q \in Seq(X) /\ Len(q) = MaxHistory
          /\ \A i \in 1..MaxHistory : q[i] = stack[Len(stack) - MaxHistory + i]
        <3>1. Len(stack) - MaxHistory + 1 \in 1..(Len(stack) + 1) /\ Len(stack) \in Nat
            BY <1>1, <1>3
        <3> DEFINE m == Len(stack) - MaxHistory + 1
                   n == Len(stack)
        <3>2. m \in 1..(n + 1) /\ n \in (m - 1)..n
            BY <1>1, <1>3
        <3>3. n - m + 1 = MaxHistory /\ \A i \in Int : m + i - 1 = Len(stack) - MaxHistory + i
            BY <1>1, <1>3
        <3> HIDE DEF m, n
        <3>4. /\ SubSeq(stack, m, n) \in Seq(X) /\ Len(SubSeq(stack, m, n)) = n - m + 1
              /\ \A i \in 1..(n - m + 1) : SubSeq(stack, m, n)[i] = stack[m + i - 1]
            BY <3>2, <2>2, SubSeqProperties DEF m, n
        <3>5. q = SubSeq(stack, m, n)
            BY DEF m, n
        <3> HIDE DEF q
        <3>6. ASSUME NEW i \in 1..MaxHistory
              PROVE  q[i] = stack[Len(stack) - MaxHistory + i]
            <4>1. i \in 1..(n - m + 1) /\ m + i - 1 = Len(stack) - MaxHistory + i
                BY <3>3
            <4>2. SubSeq(stack, m, n)[i] = stack[m + i - 1]
                BY <3>4, <4>1
            <4> QED  BY <3>5, <4>1, <4>2
        <3> QED  BY <3>3, <3>4, <3>5, <3>6
    <2> HIDE DEF q
    <2>4. \A n \in {0, 1} : q[MaxHistory - n] = stack[Len(stack) - n]
        <3>1. \A n \in {0, 1} : /\ MaxHistory - n \in 1..MaxHistory
                                /\ Len(stack) - MaxHistory + (MaxHistory - n) = Len(stack) - n
            BY <1>1
        <3> QED  BY <2>3, <3>1
    <2> QED  BY <1>1, <2>1, <2>3, <2>4
<1>4. Len(stack) <= MaxHistory \/ Len(stack) > MaxHistory
    BY <1>1
<1> QED  BY <1>2, <1>3, <1>4

\* A recorded snapshot is on the stack, over what was there.
LEMMA Recorded ==
    ASSUME NEW X, NEW stack \in Seq(X), NEW x \in X, NEW new, new = Capped(stack \o <<x>>)
    PROVE  /\ new \in Seq(X) /\ Len(new) \in 1..MaxHistory /\ new # <<>>
           /\ new[Len(new)] = x
           /\ stack # <<>> => Len(new) >= 2 /\ new[Len(new) - 1] = stack[Len(stack)]
<1> DEFINE long == stack \o <<x>>
<1>1. /\ long \in Seq(X) /\ Len(long) = Len(stack) + 1 /\ Len(stack) \in Nat
      /\ \A i \in 1..(Len(stack) + 1) : long[i] = IF i <= Len(stack) THEN stack[i] ELSE x
    BY ConcatProperties, LenProperties
<1>2. long[Len(long)] = x /\ (stack # <<>> => Len(stack) >= 1 /\ long[Len(long) - 1] = stack[Len(stack)])
    BY <1>1, EmptySeq
<1>3. new = Capped(long)
    OBVIOUS
<1> HIDE DEF long
<1>4. /\ new \in Seq(X) /\ Len(new) <= MaxHistory
      /\ \A n \in {0, 1} : n < Len(long) => n < Len(new) /\ new[Len(new) - n] = long[Len(long) - n]
    BY <1>1, <1>3, CappedKeeps
<1>5. Len(new) \in Nat /\ MaxHistory \in Nat
    BY <1>4, LenProperties, EditorAssumption
<1>6. 0 < Len(new) /\ new[Len(new)] = x /\ new # <<>>
    BY <1>1, <1>2, <1>4, <1>5
<1>7. stack # <<>> => Len(new) >= 2 /\ new[Len(new) - 1] = stack[Len(stack)]
    BY <1>1, <1>2, <1>4, <1>5
<1> QED  BY <1>4, <1>5, <1>6, <1>7

\* Two snapshots recorded at once are the last two.
LEMMA RecordedTwo ==
    ASSUME NEW X, NEW stack \in Seq(X), NEW x \in X, NEW y \in X,
           NEW new, new = Capped(stack \o <<x, y>>)
    PROVE  /\ new \in Seq(X) /\ Len(new) \in 2..MaxHistory
           /\ new[Len(new) - 1] = x
<1> DEFINE long == stack \o <<x, y>>
<1>1. /\ long \in Seq(X) /\ Len(long) = Len(stack) + 2 /\ Len(stack) \in Nat
      /\ \A i \in 1..(Len(stack) + 2) : i > Len(stack) => long[i] = <<x, y>>[i - Len(stack)]
    <2>1. <<x, y>> \in Seq(X) /\ Len(<<x, y>>) = 2
        OBVIOUS
    <2> DEFINE two == <<x, y>>
    <2> HIDE DEF two
    <2>2. /\ stack \o two \in Seq(X) /\ Len(stack \o two) = Len(stack) + Len(two)
          /\ \A i \in 1..(Len(stack) + Len(two)) :
               (stack \o two)[i] = IF i <= Len(stack) THEN stack[i] ELSE two[i - Len(stack)]
        BY <2>1, ConcatProperties DEF two
    <2>3. Len(stack) \in Nat
        BY LenProperties
    <2> QED  BY <2>1, <2>2, <2>3 DEF two
<1>2. long[Len(long) - 1] = x
    <2>1. Len(long) - 1 = Len(stack) + 1 /\ Len(stack) + 1 \in 1..(Len(stack) + 2)
          /\ Len(stack) + 1 > Len(stack) /\ (Len(stack) + 1) - Len(stack) = 1
        BY <1>1
    <2>2. long[Len(stack) + 1] = <<x, y>>[1]
        BY <1>1, <2>1
    <2> QED  BY <2>1, <2>2
<1>3. new = Capped(long)
    OBVIOUS
<1> HIDE DEF long
<1>4. /\ new \in Seq(X) /\ Len(new) <= MaxHistory
      /\ \A n \in {0, 1} : n < Len(long) => n < Len(new) /\ new[Len(new) - n] = long[Len(long) - n]
    BY <1>1, <1>3, CappedKeeps
<1>5. Len(new) \in Nat /\ MaxHistory \in Nat
    BY <1>4, LenProperties, EditorAssumption
<1>6. 1 < Len(new) /\ new[Len(new) - 1] = x
    BY <1>1, <1>2, <1>4
<1> QED  BY <1>4, <1>5, <1>6

\* The entry taken off a stack, and the rest.
LEMMA TakenOff ==
    ASSUME NEW X, NEW stack \in Seq(X), stack # <<>>
    PROVE  /\ Last(stack) \in X /\ Front(stack) \in Seq(X) /\ Len(Front(stack)) = Len(stack) - 1
           /\ Len(stack) \in Nat \ {0}
<1>1. Len(stack) \in Nat \ {0}
    BY EmptySeq
<1>2. \A i \in 1..Len(stack) : stack[i] \in X
    BY ElementOfSeq
<1>3. Last(stack) \in X
    BY <1>1, <1>2 DEF Last
<1>4. /\ SubSeq(stack, 1, Len(stack) - 1) \in Seq(X)
      /\ Len(SubSeq(stack, 1, Len(stack) - 1)) = Len(stack) - 1
    <2> DEFINE n == Len(stack) - 1
    <2>1. n \in Nat /\ \A i \in 1..n : stack[i] \in X
        BY <1>1, <1>2
    <2> HIDE DEF n
    <2>2. /\ SubSeq(stack, 1, n) \in Seq(X)
          /\ Len(SubSeq(stack, 1, n)) = IF 1 <= n THEN n - 1 + 1 ELSE 0
        BY <2>1, SubSeqProperties
    <2>3. (IF 1 <= n THEN n - 1 + 1 ELSE 0) = n
        BY <2>1
    <2> QED  BY <2>2, <2>3 DEF n
<1> QED  BY <1>1, <1>3, <1>4 DEF Front

ShownType == [idx : Nat, look : Looks \X Looks]
GestureType == [kind : Gestures \cup {"none"}, clip : Int, idx : Nat,
                start : {<<>>} \cup {<<p>> : p \in Projects}]

\* What a step may do to the project.
Undoable ==
    project' # project =>
        \/ last' = "undo" /\ Last(redo') = project
        \/ last' = "redo" /\ Last(undo') = project
        \/ last' = "drag" /\ (gesture.start = <<>> \/ gesture.start[1] \in ToSet(undo))
        \/ last' = "click" /\ \E t \in TrackIds : project' = WithGain(t, project'.tracks[t].gain)
        \/ \E n \in {Len(undo'), Len(undo') - 1} \cap DOMAIN undo' : undo'[n] = project

\* A command that records the project and keeps its parts as they should be
\* keeps the invariant, and can be undone.
LEMMA Commanded ==
    ASSUME EInv, edits < MaxEdits, edits' = edits + 1, Record(<<project>>),
           project' \in Projects, selected' \in Nat, shown' \in ShownType,
           \/ gesture' = NoGesture
           \/ gesture' = gesture /\ (Idle \/ (selected # 0 /\ selected' = 0))
    PROVE  EInv' /\ Undoable
<1>1. /\ undo' \in Seq(Projects) /\ Len(undo') \in 1..MaxHistory /\ undo' # <<>>
      /\ undo'[Len(undo')] = project
      /\ undo # <<>> => Len(undo') >= 2 /\ undo'[Len(undo') - 1] = undo[Len(undo)]
    <2>1. undo \in Seq(Projects) /\ project \in Projects
        BY DEF EInv
    <2>2. undo' = Capped(undo \o <<project>>)
        BY DEF Record
    <2>3. ASSUME NEW new, new = Capped(undo \o <<project>>)
          PROVE  /\ new \in Seq(Projects) /\ Len(new) \in 1..MaxHistory /\ new # <<>>
                 /\ new[Len(new)] = project
                 /\ undo # <<>> => Len(new) >= 2 /\ new[Len(new) - 1] = undo[Len(undo)]
        <3>1. Len(new) \in 1..MaxHistory
            BY <2>1, <2>3, Recorded
        <3>2. new \in Seq(Projects) /\ new # <<>>
            BY <2>1, <2>3, Recorded
        <3>3. new[Len(new)] = project
            BY <2>1, <2>3, Recorded
        <3>4. undo # <<>> => Len(new) >= 2 /\ new[Len(new) - 1] = undo[Len(undo)]
            BY <2>1, <2>3, Recorded
        <3> QED  BY <3>1, <3>2, <3>3, <3>4
    <2> QED  BY <2>2, <2>3
<1>2. redo' = <<>> /\ Len(<<>>) = 0 /\ redo' \in Seq(Projects)
    BY DEF Record
<1>3. Len(undo') + Len(redo') <= MaxHistory
    BY <1>1, <1>2, EditorAssumption
<1>4. edits' \in 0..MaxEdits
    BY EditorAssumption DEF EInv
<1>5. gesture' \in GestureType
    BY DEF EInv, GestureType, NoGesture
<1>6. HeldUndoable'
    BY <1>1 DEF EInv, HeldUndoable, NoGesture, Idle
<1>7. Undoable
    <2>1. DOMAIN undo' = 1..Len(undo')
        BY <1>1, LenProperties
    <2>2. Len(undo') \in {Len(undo'), Len(undo') - 1} \cap DOMAIN undo'
        BY <1>1, <2>1
    <2> QED  BY <1>1, <2>2 DEF Undoable
<1> QED  BY <1>1, <1>2, <1>3, <1>4, <1>5, <1>6, <1>7 DEF EInv, GestureType, ShownType

\* The same with two snapshots, for a command given while nothing is dragged.
LEMMA CommandedTwo ==
    ASSUME EInv, edits < MaxEdits, edits' = edits + 1, NEW p \in Projects,
           Record(<<project, p>>),
           project' \in Projects, selected' \in Nat, shown' \in ShownType,
           gesture' = gesture, Idle
    PROVE  EInv' /\ Undoable
<1>1. /\ undo' \in Seq(Projects) /\ Len(undo') \in 2..MaxHistory
      /\ undo'[Len(undo') - 1] = project
    BY RecordedTwo, SMTT(30) DEF EInv, Record
<1>2. redo' = <<>> /\ Len(<<>>) = 0 /\ redo' \in Seq(Projects)
    BY DEF Record
<1>3. Len(undo') + Len(redo') <= MaxHistory
    BY <1>1, <1>2, EditorAssumption
<1>4. edits' \in 0..MaxEdits
    BY EditorAssumption DEF EInv
<1>5. HeldUndoable'
    BY DEF HeldUndoable, Idle
<1>6. Undoable
    <2>1. DOMAIN undo' = 1..Len(undo')
        BY <1>1, LenProperties
    <2>2. Len(undo') - 1 \in {Len(undo'), Len(undo') - 1} \cap DOMAIN undo'
        BY <1>1, <2>1, EditorAssumption
    <2> QED  BY <1>1, <2>2 DEF Undoable
<1> QED  BY <1>1, <1>2, <1>3, <1>4, <1>5, <1>6 DEF EInv, ShownType

\* A new store, and what the inspector loads from it.
LEMMA Stored ==
    ASSUME EInv, NEW st \in Stores(DOMAIN tracks), Store(st)
    PROVE  /\ project' \in Projects /\ project'.store = st /\ project'.tracks = tracks
BY WithStore DEF EInv, Store, tracks

LEMMA Synced ==
    ASSUME EInv, project' \in Projects, selected' \in Nat, InspectorSync
    PROVE  shown' \in ShownType
<1> DEFINE st == project'.store
<1>1. shown \in ShownType
    BY DEF EInv, ShownType
<1>2. st \in Stores(DOMAIN project'.tracks)
    BY ProjectParts
<1>3. <<0, 0>> \in Looks \X Looks
    BY EditorAssumption
<1>4. shown' = IF selected' = shown.idx \/ selected' > Len(st.clips) THEN shown
               ELSE [idx |-> selected',
                     look |-> IF selected' = 0 THEN <<0, 0>> ELSE st.clips[selected'].look]
    BY DEF InspectorSync
<1> HIDE DEF st
<1>5. ASSUME selected' # 0, ~(selected' > Len(st.clips))
      PROVE  st.clips[selected'].look \in Looks \X Looks
    <2>1. Len(st.clips) \in Nat
        BY <1>2, StoreParts
    <2>2. selected' \in 1..Len(st.clips)
        BY <1>5, <2>1
    <2>3. st.clips[selected'] \in Passed(DOMAIN project'.tracks)
        BY <1>2, <2>2, StoreParts
    <2> QED  BY <2>3, ClipParts
<1> QED  BY <1>1, <1>3, <1>4, <1>5 DEF ShownType

\* The values of a look, one of its groups changed.
LEMMA LookSet ==
    ASSUME NEW look \in Looks \X Looks, NEW field \in 1..2, NEW v \in Looks
    PROVE  [look EXCEPT ![field] = v] \in Looks \X Looks
<1>1. field = 1 \/ field = 2
    OBVIOUS
<1>2. look = <<look[1], look[2]>> /\ look[1] \in Looks /\ look[2] \in Looks
    OBVIOUS
<1>3. CASE field = 1
    <2>1. [look EXCEPT ![1] = v] = <<v, look[2]>>
        BY <1>2
    <2> QED  BY <1>2, <1>3, <2>1
<1>4. CASE field = 2
    <2>1. [look EXCEPT ![2] = v] = <<look[1], v>>
        BY <1>2
    <2> QED  BY <1>2, <1>4, <2>1
<1> QED  BY <1>1, <1>3, <1>4

\* A group of the look of a clip changed in its store.
LEMMA LookKeeps ==
    ASSUME NEW T, NEW st \in Stores(T), NEW i \in 1..Len(st.clips), NEW field \in 1..2,
           NEW v \in Looks
    PROVE  [st EXCEPT !.clips[i].look[field] = v] \in Stores(T)
           /\ Len([st EXCEPT !.clips[i].look[field] = v].clips) = Len(st.clips)
<1> DEFINE c == st.clips[i]
           look == [c.look EXCEPT ![field] = v]
           d == [c EXCEPT !.look = look]
           q == [st.clips EXCEPT ![i] = d]
           t == [st EXCEPT !.clips[i].look[field] = v]
<1>1. c \in Passed(T) /\ DOMAIN st.clips = 1..Len(st.clips) /\ Len(st.clips) \in Nat
    BY StoreParts
<1>2. look \in Looks \X Looks
    <2>1. c.look \in Looks \X Looks
        BY <1>1, ClipParts
    <2> HIDE DEF c
    <2> QED  BY <2>1, LookSet
<1>3. t = [clips |-> q, keys |-> st.keys, nextId |-> st.nextId]
    <2> DEFINE u == [st EXCEPT !.clips[i].look = look]
    <2>1. t = u
        OBVIOUS
    <2> HIDE DEF look, t
    <2>2. u = [st EXCEPT !.clips = q]
        OBVIOUS
    <2> HIDE DEF q, u
    <2>3. [st EXCEPT !.clips = q] = [clips |-> q, keys |-> st.keys, nextId |-> st.nextId]
        BY DEF Stores, StoreType
    <2> QED  BY <2>1, <2>2, <2>3
<1> HIDE DEF look, t
<1>4. d \in Passed(T) /\ d.id = c.id /\ d.ptsIn = c.ptsIn
    <2> HIDE DEF c
    <2> QED  BY <1>1, <1>2, Zenon DEF Passed, ClipType
<1> HIDE DEF d
<1>5. [clips |-> q, keys |-> st.keys, nextId |-> st.nextId] \in Stores(T)
    BY <1>4, ClipSet, StoreParts
<1>6. Len(q) = Len(st.clips)
    <2>1. DOMAIN q = 1..Len(st.clips)
        BY <1>1
    <2>2. q \in Seq(Passed(T))
        BY <1>5, StoreParts
    <2> HIDE DEF q
    <2> QED  BY <1>1, <2>1, <2>2, LenProperties
<1> HIDE DEF q
<1>7. t \in Stores(T) /\ Len(t.clips) = Len(st.clips)
    BY <1>3, <1>5, <1>6
<1> QED  BY <1>7 DEF t

\* What the commands on a clip and its partner make of the store.
LEMMA SessionStore ==
    ASSUME EInv
    PROVE  /\ s \in Stores(DOMAIN tracks) /\ project \in Projects
           /\ DOMAIN tracks = 1..Len(tracks) /\ Len(tracks) \in Nat /\ DOMAIN tracks \subseteq Nat
           /\ tracks \in Seq(TrackType)
           /\ \A f \in Frames : Pts(f) \in Nat
           /\ project.frame \in Nat \ {0}
           /\ selected \in Nat
           /\ DOMAIN s.clips = 1..Len(s.clips) /\ Len(s.clips) \in Nat
           /\ ~Panicked => selected <= Len(s.clips)
<1>1. project \in Projects /\ selected \in Nat
    BY DEF EInv
<1>2. s \in Stores(DOMAIN tracks) /\ project.frame \in Nat \ {0}
    BY <1>1, ProjectParts DEF s, tracks
<1>3. DOMAIN tracks = 1..Len(tracks) /\ Len(tracks) \in Nat /\ DOMAIN tracks \subseteq Nat
      /\ tracks \in Seq(TrackType)
    BY <1>1, ProjectParts DEF tracks
<1>4. \A f \in Frames : Pts(f) \in Nat
    <2>1. \A f \in Frames : f \in Nat
        BY EditorAssumption
    <2> QED  BY <1>2, <2>1 DEF Pts
<1>5. DOMAIN s.clips = 1..Len(s.clips) /\ Len(s.clips) \in Nat
    BY <1>2, StoreParts
<1>6. ~Panicked => selected <= Len(s.clips)
    BY <1>1, <1>5 DEF Panicked
<1> QED  BY <1>1, <1>2, <1>3, <1>4, <1>5, <1>6

LEMMA DeletedKeeps ==
    ASSUME EInv, NEW id, NEW ripple \in BOOLEAN
    PROVE  Deleted(id, ripple) \in Stores(DOMAIN tracks)
<1> DEFINE T == DOMAIN tracks
           Op(st, c) == IF ripple THEN RippleRemoveClip(st, c) ELSE RemoveClip(st, c)
           partner == PartnerToDelete(id)
<1>1. s \in Stores(T)
    BY SessionStore
<1>2. Deleted(id, ripple) = IF partner = -1 THEN Op(s, id).s ELSE Op(Op(s, id).s, partner).s
    BY DEF Deleted, WithPartner
<1> HIDE DEF T, partner
<1>3. ASSUME NEW st \in Stores(T), NEW c  PROVE Op(st, c).s \in Stores(T)
    BY <1>3, RemoveKeeps, RippleRemoveKeeps DEF Results
<1> HIDE DEF Op
<1>4. Op(s, id).s \in Stores(T) /\ Op(Op(s, id).s, partner).s \in Stores(T)
    BY <1>1, <1>3
<1> QED  BY <1>2, <1>4 DEF T

LEMMA DuplicatedKeeps ==
    ASSUME EInv, NEW id, NEW partner
    PROVE  WithPartner(s, id, partner, DuplicateClip) \in Stores(DOMAIN tracks)
<1> DEFINE T == DOMAIN tracks
<1>1. s \in Stores(T)
    BY SessionStore
<1> HIDE DEF T
<1>2. \A st \in Stores(T) : \A c : DuplicateClip(st, c).s \in Stores(T)
    BY DuplicateKeeps DEF Results
<1> QED  BY <1>1, <1>2 DEF WithPartner, T

LEMMA SplitPairKeeps ==
    ASSUME EInv, NEW id, NEW partner, NEW pts \in Int
    PROVE  LET Op(st, c) == SplitClip(st, c, pts)
           IN WithPartner(s, id, partner, Op) \in Stores(DOMAIN tracks)
<1> DEFINE T == DOMAIN tracks
<1>1. s \in Stores(T)
    BY SessionStore
<1> HIDE DEF T
<1>2. \A st \in Stores(T) : \A c : SplitClip(st, c, pts).s \in Stores(T)
    BY SplitKeeps DEF Results
<1> QED  BY <1>1, <1>2 DEF WithPartner, T

LEMMA TrimPairKeeps ==
    ASSUME EInv, NEW id, NEW partner, NEW pts \in Int
    PROVE  LET In(st, x) == TrimClipIn(st, x, pts)
               Out(st, x) == TrimClipOut(st, x, pts)
           IN /\ WithPartner(s, id, partner, In) \in Stores(DOMAIN tracks)
              /\ WithPartner(s, id, partner, Out) \in Stores(DOMAIN tracks)
<1> DEFINE T == DOMAIN tracks
<1>1. s \in Stores(T)
    BY SessionStore
<1> HIDE DEF T
<1>2. \A st \in Stores(T) : \A c : /\ TrimClipIn(st, c, pts).s \in Stores(T)
                                  /\ TrimClipOut(st, c, pts).s \in Stores(T)
    BY TrimInKeeps, TrimOutKeeps DEF Results
<1> QED  BY <1>1, <1>2 DEF WithPartner, T

LEMMA SpeedPairKeeps ==
    ASSUME EInv, ~Panicked, selected # 0, NEW v \in Speeds
    PROVE  LET id == Clip(selected).id
               one == SetSpeedAt(s, selected, v)
               partner == FindLinkedClip(one, tracks, id)
           IN (IF partner = -1 THEN one ELSE SetSpeedAt(one, IndexOf(one, partner), v))
                 \in Stores(DOMAIN tracks)
<1> DEFINE T == DOMAIN tracks
           one == SetSpeedAt(s, selected, v)
           partner == FindLinkedClip(one, tracks, Clip(selected).id)
<1>1. s \in Stores(T) /\ selected \in 1..Len(s.clips)
    BY SessionStore
<1> HIDE DEF T
<1>2. one \in Stores(T)
    BY <1>1, SpeedKeeps
<1> HIDE DEF one
<1>3. partner = -1 \/ partner \in Ids(one)
    BY <1>2, LinkedFound
<1> HIDE DEF partner
<1>4. ASSUME partner # -1  PROVE SetSpeedAt(one, IndexOf(one, partner), v) \in Stores(T)
    <2>1. IndexOf(one, partner) \in 1..Len(one.clips)
        BY <1>2, <1>3, <1>4, FoundById
    <2> QED  BY <1>2, <2>1, SpeedKeeps
<1> QED  BY <1>2, <1>4 DEF T, one, partner

\* A medium dropped on a track.
LEMMA NewClipPassed ==
    ASSUME EInv, NEW t \in TrackIds, NEW src \in Sources, NEW f \in Frames
    PROVE  NewClip(t, src, Pts(f)) \in Passed(DOMAIN tracks)
<1>1. Pts(f) \in Nat /\ t \in DOMAIN tracks /\ t \in Nat
    BY SessionStore DEF TrackIds
<1>2. MediaTicks[src] \in Nat
    BY EditorAssumption
<1>3. Pts(f) + MediaTicks[src] \in Int
    BY <1>1, <1>2
<1>4. 0 \in Looks /\ SpeedUnit \in Speeds \cup {SpeedUnit} /\ -1 \in Int /\ 0 \in Nat
    BY EditorAssumption
<1> DEFINE in == Pts(f)
           out == Pts(f) + MediaTicks[src]
<1>5. NewClip(t, src, Pts(f)) =
        [id |-> -1, track |-> t, src |-> src, ptsIn |-> in, ptsOut |-> out,
         sourceIn |-> 0, speed |-> SpeedUnit, fadeIn |-> 0, fadeOut |-> 0, layer |-> <<0, 0>>,
         look |-> <<0, 0>>]
    BY DEF NewClip
<1>6. in \in Int /\ out \in Int
    BY <1>1, <1>3
<1> HIDE DEF in, out
<1>7. NewClip(t, src, Pts(f)) \in ClipType /\ NewClip(t, src, Pts(f)).track = t
    BY <1>1, <1>4, <1>5, <1>6 DEF ClipType
<1> QED  BY <1>1, <1>7 DEF Passed

\* A clip dropped on a track, and its partner with it.
LEMMA DroppedKeeps ==
    ASSUME EInv, NEW id, NEW t \in TrackIds, NEW pts \in Nat
    PROVE  LET here == id \in Ids(s)
               r == IF here /\ ClipOf(s, id).track = t
                    THEN ProjectMoveClip(s, id, pts) ELSE MoveClipToTrack(s, id, t, pts)
               partner == FindLinkedClip(s, tracks, id)
               moved == IF r.ok /\ partner \in Ids(r.s)
                        THEN ProjectMoveClip(r.s, partner,
                               ClipOf(r.s, partner).ptsIn + pts - ClipOf(s, id).ptsIn).s
                        ELSE r.s
           IN /\ moved \in Stores(DOMAIN tracks)
              /\ r.id \in Ids(moved) => IndexOf(moved, r.id) \in 1..Len(moved.clips)
<1> DEFINE T == DOMAIN tracks
           r == IF id \in Ids(s) /\ ClipOf(s, id).track = t
                THEN ProjectMoveClip(s, id, pts) ELSE MoveClipToTrack(s, id, t, pts)
           partner == FindLinkedClip(s, tracks, id)
           to == ClipOf(r.s, partner).ptsIn + pts - ClipOf(s, id).ptsIn
           moved == IF r.ok /\ partner \in Ids(r.s) THEN ProjectMoveClip(r.s, partner, to).s
                    ELSE r.s
<1>1. s \in Stores(T) /\ t \in T /\ t \in Nat /\ pts \in Int
    BY SessionStore DEF TrackIds
<1> HIDE DEF T
<1>2. r \in Results(T) /\ r.s \in Stores(T)
    BY <1>1, ProjectMoveKeeps, MoveToTrackKeeps DEF Results
<1>3. r.ok => id \in Ids(s)
    BY DEF ProjectMoveClip, MoveClipToTrack, Fail
<1> HIDE DEF r, partner
<1>4. ASSUME r.ok, partner \in Ids(r.s)  PROVE to \in Int
    <2>1. ClipOf(r.s, partner) \in Passed(T) /\ ClipOf(s, id) \in Passed(T)
        BY <1>1, <1>2, <1>3, <1>4, FoundById
    <2>2. ClipOf(r.s, partner).ptsIn \in Int /\ ClipOf(s, id).ptsIn \in Int
        BY <2>1, ClipParts
    <2> QED  BY <1>1, <2>2
<1> HIDE DEF to
<1>5. moved \in Stores(T)
    BY <1>2, <1>4, ProjectMoveKeeps DEF Results
<1> HIDE DEF moved
<1>6. r.id \in Ids(moved) => IndexOf(moved, r.id) \in 1..Len(moved.clips)
    BY <1>5, FoundById
<1> QED  BY <1>5, <1>6 DEF T, r, partner, to, moved

-----------------------------------------------------------------------------
(* The commands, one by one: each keeps the invariant and can be undone *)

\* What the parts of the invariant say of the state.
LEMMA Now ==
    ASSUME EInv
    PROVE  /\ gesture \in GestureType /\ shown \in ShownType /\ NoGesture \in GestureType
           /\ edits \in 0..MaxEdits /\ MaxEdits \in Nat
           /\ undo \in Seq(Projects) /\ redo \in Seq(Projects)
           /\ Len(undo) \in Nat /\ Len(redo) \in Nat /\ Len(undo) + Len(redo) <= MaxHistory
<1>1. undo \in Seq(Projects) /\ redo \in Seq(Projects) /\ MaxEdits \in Nat
    BY EditorAssumption DEF EInv
<1> QED  BY <1>1, LenProperties DEF EInv, GestureType, ShownType, NoGesture, Gestures

LEMMA UndoKeeps ==
    ASSUME EInv, Undo  PROVE EInv' /\ Undoable
<1>1. undo \in Seq(Projects) /\ redo \in Seq(Projects) /\ project \in Projects /\ undo # <<>>
    BY Now DEF Undo, EInv
<1>2. /\ project' \in Projects /\ undo' \in Seq(Projects) /\ Len(undo') = Len(undo) - 1
      /\ Len(undo) \in Nat \ {0}
    BY <1>1, TakenOff DEF Undo
<1>3. /\ redo' \in Seq(Projects) /\ redo' # <<>> /\ Len(redo') = Len(redo) + 1
      /\ redo'[Len(redo) + 1] = project
    BY <1>1, AppendProperties DEF Undo
<1>4. Last(redo') = project
    BY <1>3 DEF Last
<1>5. selected' = 0 /\ selected' \in Nat
    BY DEF Undo
<1>6. shown' \in ShownType
    BY <1>2, <1>5, Synced DEF Undo
<1>7. gesture' \in GestureType /\ (gesture' = NoGesture \/ gesture'.start = <<>>)
    <2>1. gesture \in GestureType /\ NoGesture \in GestureType
        BY Now
    <2>2. [gesture EXCEPT !.start = <<>>] \in GestureType
          /\ [gesture EXCEPT !.start = <<>>].start = <<>>
        BY <2>1 DEF GestureType
    <2> QED  BY <2>1, <2>2 DEF Undo, ClearInteraction
<1>8. edits' \in 0..MaxEdits
    BY Now DEF Undo, Command
<1>9. HeldUndoable'
    BY <1>7 DEF HeldUndoable, NoGesture
<1>10. Len(undo') + Len(redo') <= MaxHistory
    BY <1>2, <1>3, Now
<1>11. Undoable
    BY <1>4 DEF Undoable, Undo, Command
<1> QED  BY <1>2, <1>3, <1>5, <1>6, <1>7, <1>8, <1>9, <1>10, <1>11
         DEF EInv, GestureType, ShownType

LEMMA RedoKeeps ==
    ASSUME EInv, Redo  PROVE EInv' /\ Undoable
<1>1. undo \in Seq(Projects) /\ redo \in Seq(Projects) /\ project \in Projects /\ redo # <<>>
    BY Now DEF Redo, EInv
<1>2. /\ project' \in Projects /\ redo' \in Seq(Projects) /\ Len(redo') = Len(redo) - 1
      /\ Len(redo) \in Nat \ {0}
    BY <1>1, TakenOff DEF Redo
<1>3. /\ undo' \in Seq(Projects) /\ undo' # <<>> /\ Len(undo') = Len(undo) + 1
      /\ undo'[Len(undo) + 1] = project
    BY <1>1, AppendProperties DEF Redo
<1>4. Last(undo') = project
    BY <1>3 DEF Last
<1>5. selected' = 0 /\ selected' \in Nat
    BY DEF Redo
<1>6. shown' \in ShownType
    BY <1>2, <1>5, Synced DEF Redo
<1>7. gesture' \in GestureType /\ (gesture' = NoGesture \/ gesture'.start = <<>>)
    <2>1. gesture \in GestureType /\ NoGesture \in GestureType
        BY Now
    <2>2. [gesture EXCEPT !.start = <<>>] \in GestureType
          /\ [gesture EXCEPT !.start = <<>>].start = <<>>
        BY <2>1 DEF GestureType
    <2> QED  BY <2>1, <2>2 DEF Redo, ClearInteraction
<1>8. edits' \in 0..MaxEdits
    BY Now DEF Redo
<1>9. HeldUndoable'
    BY <1>7 DEF HeldUndoable, NoGesture
<1>10. Len(undo') + Len(redo') <= MaxHistory
    BY <1>2, <1>3, Now
<1>11. Undoable
    BY <1>4 DEF Undoable, Redo
<1> QED  BY <1>2, <1>3, <1>5, <1>6, <1>7, <1>8, <1>9, <1>10, <1>11
         DEF EInv, GestureType, ShownType

\* A command that leaves the selection and the drag alone while nothing is
\* dragged, and one that ends with nothing selected.
LEMMA PlainCommand ==
    ASSUME EInv, edits < MaxEdits, edits' = edits + 1, Record(<<project>>), Idle,
           project' \in Projects, UNCHANGED <<selected, gesture, shown>>
    PROVE  EInv' /\ Undoable
<1>1. selected' \in Nat /\ shown' \in ShownType
    BY Now, SessionStore
<1> QED  BY <1>1, Commanded

LEMMA StoreCommand ==
    ASSUME EInv, edits < MaxEdits, edits' = edits + 1, Record(<<project>>),
           NEW st \in Stores(DOMAIN tracks), Store(st), selected' \in Nat, InspectorSync,
           \/ gesture' = NoGesture
           \/ gesture' = gesture /\ (Idle \/ (selected # 0 /\ selected' = 0))
    PROVE  EInv' /\ Undoable
<1>1. project' \in Projects
    BY Stored
<1>2. shown' \in ShownType
    BY <1>1, Synced
<1> QED  BY <1>1, <1>2, Commanded

LEMMA SettingsKeeps ==
    ASSUME EInv, NEW f \in FrameTicks, ChangeSettings(f)  PROVE EInv' /\ Undoable
<1>1. project \in Projects /\ project' = [project EXCEPT !.frame = f]
    BY SessionStore DEF ChangeSettings
<1>2. project' \in Projects
    BY <1>1, WithFrame
<1> QED  BY <1>2, PlainCommand DEF ChangeSettings, Command

LEMMA TracksKeeps ==
    ASSUME EInv, NEW ts \in Seq(TrackType), DOMAIN tracks \subseteq DOMAIN ts, TrackMutation(ts)
    PROVE  EInv' /\ Undoable
<1>1. project \in Projects /\ project' = [project EXCEPT !.tracks = ts]
    BY SessionStore DEF TrackMutation
<1>2. project' \in Projects
    BY <1>1, WithTracks DEF tracks
<1> QED  BY <1>2, PlainCommand DEF TrackMutation, Command

LEMMA ToggleKeeps ==
    ASSUME EInv, NEW t \in TrackIds, ToggleMute(t) \/ ToggleSolo(t)  PROVE EInv' /\ Undoable
<1>1. tracks \in Seq(TrackType) /\ DOMAIN tracks = 1..Len(tracks) /\ Len(tracks) \in Nat
      /\ t \in DOMAIN tracks
    BY SessionStore DEF TrackIds
<1>2. tracks[t] \in TrackType
    BY <1>1, ElementOfSeq
<1>3. ASSUME NEW x \in TrackType
      PROVE  [tracks EXCEPT ![t] = x] \in Seq(TrackType)
             /\ DOMAIN [tracks EXCEPT ![t] = x] = DOMAIN tracks
    <2>1. [tracks EXCEPT ![t] = x] \in [1..Len(tracks) -> TrackType]
        <3>1. tracks \in [1..Len(tracks) -> TrackType]
            BY <1>1
        <3> QED  BY <3>1
    <2>2. [tracks EXCEPT ![t] = x] \in Seq(TrackType)
        BY <1>1, <2>1
    <2> QED  BY <2>2
<1>4. CASE ToggleMute(t)
    <2> DEFINE x == [tracks[t] EXCEPT !.mute = ~@]
    <2>1. x \in TrackType
        BY <1>2, Zenon DEF TrackType
    <2>2. TrackMutation([tracks EXCEPT ![t] = x])
        BY <1>4 DEF ToggleMute
    <2> HIDE DEF x
    <2> QED  BY <1>3, <2>1, <2>2, TracksKeeps
<1>5. CASE ToggleSolo(t)
    <2> DEFINE x == [tracks[t] EXCEPT !.solo = ~@]
    <2>1. x \in TrackType
        BY <1>2, Zenon DEF TrackType
    <2>2. TrackMutation([tracks EXCEPT ![t] = x])
        BY <1>5 DEF ToggleSolo
    <2> HIDE DEF x
    <2> QED  BY <1>3, <2>1, <2>2, TracksKeeps
<1> QED  BY <1>4, <1>5

\* A gain set, whoever sets it.
LEMMA GainSet ==
    ASSUME EInv, NEW i, NEW v \in Looks
    PROVE  WithGain(i, v) \in Projects /\ (i \in TrackIds => WithGain(i, v).tracks[i].gain = v)
<1> DEFINE x == [tracks[i] EXCEPT !.gain = v]
           ts == [tracks EXCEPT ![i] = x]
<1>1. tracks \in Seq(TrackType) /\ DOMAIN tracks = 1..Len(tracks) /\ Len(tracks) \in Nat
      /\ project \in Projects
    BY SessionStore
<1>2. WithGain(i, v) = [project EXCEPT !.tracks = ts]
    BY DEF WithGain, tracks
<1>3. ts \in Seq(TrackType) /\ DOMAIN ts = DOMAIN tracks
    <2>1. CASE i \in DOMAIN tracks
        <3>1. tracks[i] \in TrackType
            BY <1>1, <2>1, ElementOfSeq
        <3>2. x \in TrackType
            <4> DEFINE y == tracks[i]
            <4>1. y \in TrackType
                BY <3>1
            <4> HIDE DEF y
            <4>2. [y EXCEPT !.gain = v] \in TrackType
                BY <4>1, Zenon DEF TrackType
            <4> QED  BY <4>2 DEF y
        <3> HIDE DEF x
        <3>3. ts \in [1..Len(tracks) -> TrackType]
            <4>1. tracks \in [1..Len(tracks) -> TrackType]
                BY <1>1
            <4> QED  BY <3>2, <4>1
        <3> QED  BY <1>1, <3>3
    <2>2. CASE i \notin DOMAIN tracks
        <3> HIDE DEF x
        <3>1. ts = tracks
            <4>1. tracks = [j \in 1..Len(tracks) |-> tracks[j]]
                BY <1>1
            <4> QED  BY <1>1, <2>2, <4>1
        <3> QED  BY <1>1, <3>1
    <2> QED  BY <2>1, <2>2
<1> HIDE DEF ts
<1>4. WithGain(i, v) \in Projects /\ WithGain(i, v).tracks = ts
    BY <1>1, <1>2, <1>3, WithTracks DEF tracks
<1>5. ASSUME i \in TrackIds  PROVE ts[i].gain = v
    <2>1. ts[i] = x /\ tracks[i] \in TrackType
        BY <1>1, <1>5, ElementOfSeq DEF ts, TrackIds
    <2>2. x.gain = v
        BY <2>1 DEF TrackType
    <2> QED  BY <2>1, <2>2
<1> QED  BY <1>4, <1>5

\* A click on a fader changes that gain and nothing else.
LEMMA ClickGainKeeps ==
    ASSUME EInv, NEW t \in TrackIds, NEW v \in Looks, ClickGain(t, v)
    PROVE  EInv' /\ Undoable
<1>1. project' \in Projects /\ project' = WithGain(t, project'.tracks[t].gain)
    BY GainSet DEF ClickGain
<1>2. edits' \in 0..MaxEdits
    BY Now DEF ClickGain, Command
<1>3. HeldUndoable'
    BY DEF ClickGain, EInv, HeldUndoable
<1> QED  BY <1>1, <1>2, <1>3 DEF ClickGain, Command, EInv, Undoable

LEMMA DoubleClickGainKeeps ==
    ASSUME EInv, NEW t \in TrackIds, NEW v \in Looks, DoubleClickGain(t, v)
    PROVE  EInv' /\ Undoable
<1> DEFINE p == WithGain(t, v)
<1>1. project' \in Projects /\ project' = WithGain(t, project'.tracks[t].gain)
    BY GainSet, EditorAssumption DEF DoubleClickGain
<1>2. undo \in Seq(Projects) /\ p \in Projects /\ undo' = Capped(undo \o <<p>>)
    BY GainSet DEF EInv, DoubleClickGain, Record
<1> HIDE DEF p
<1>3. undo' \in Seq(Projects) /\ Len(undo') \in 1..MaxHistory
    BY <1>2, Recorded
<1>4. redo' = <<>> /\ Len(<<>>) = 0 /\ redo' \in Seq(Projects)
    BY DEF DoubleClickGain, Record
<1>5. Len(undo') + Len(redo') <= MaxHistory
    BY <1>3, <1>4, EditorAssumption
<1>6. edits' \in 0..MaxEdits
    BY Now DEF DoubleClickGain, Command
<1>7. HeldUndoable'
    BY DEF DoubleClickGain, HeldUndoable, Idle
<1>8. Undoable
    BY <1>1 DEF DoubleClickGain, Command, Undoable
<1> QED  BY <1>1, <1>3, <1>4, <1>5, <1>6, <1>7, <1>8 DEF DoubleClickGain, EInv

LEMMA AddTrackKeeps ==
    ASSUME EInv, NEW kind \in {"video", "audio"}, AddTrack(kind)  PROVE EInv' /\ Undoable
<1>1. tracks \in Seq(TrackType) /\ DOMAIN tracks = 1..Len(tracks) /\ Len(tracks) \in Nat
    BY SessionStore
<1>2. Track(kind) \in TrackType
    BY EditorAssumption DEF Track, TrackType
<1> DEFINE ts == Append(tracks, Track(kind))
<1>3. ts \in Seq(TrackType) /\ Len(ts) = Len(tracks) + 1
    BY <1>1, <1>2, AppendProperties
<1>4. TrackMutation(ts)
    BY DEF AddTrack
<1> HIDE DEF ts
<1>5. DOMAIN ts = 1..(Len(tracks) + 1)
    BY <1>3, LenProperties
<1>6. DOMAIN tracks \subseteq DOMAIN ts
    BY <1>1, <1>5
<1> QED  BY <1>3, <1>4, <1>6, TracksKeeps

LEMMA SelectKeeps ==
    ASSUME EInv, NEW i \in 0..Len(s.clips), Select(i)  PROVE EInv' /\ Undoable
<1>1. selected' \in Nat /\ project' = project /\ project \in Projects
    BY SessionStore DEF Select
<1>2. shown' \in ShownType
    BY <1>1, Synced DEF Select
<1>3. HeldUndoable'
    BY DEF Select, HeldUndoable, Idle
<1> QED  BY <1>1, <1>2, <1>3 DEF Select, EInv, Undoable, ShownType

LEMMA DropMediaKeeps ==
    ASSUME EInv, NEW t \in TrackIds, NEW src \in Sources, NEW f \in Frames, DropMedia(t, src, f)
    PROVE  EInv' /\ Undoable
<1> DEFINE st == ProjectInsertRipple(s, NewClip(t, src, Pts(f))).s
<1>1. st \in Stores(DOMAIN tracks)
    BY SessionStore, NewClipPassed, ProjectInsertKeeps DEF Results
<1>2. /\ edits < MaxEdits /\ edits' = edits + 1 /\ Idle /\ Record(<<project>>)
      /\ Store(st) /\ selected' = selected /\ gesture' = gesture /\ InspectorSync
    BY DEF DropMedia, Command
<1> HIDE DEF st
<1>3. selected' \in Nat
    BY <1>2, SessionStore
<1> QED  BY <1>1, <1>2, <1>3, StoreCommand

LEMMA DeleteKeeps ==
    ASSUME EInv, NEW id, NEW ripple \in BOOLEAN,
           DeleteClip(id, ripple) \/ DeleteKey(ripple)
    PROVE  EInv' /\ Undoable
<1>1. CASE DeleteClip(id, ripple)
    <2> DEFINE st == Deleted(id, ripple)
    <2>1. st \in Stores(DOMAIN tracks)
        BY DeletedKeeps
    <2>2. /\ edits < MaxEdits /\ edits' = edits + 1 /\ Idle /\ Record(<<project>>)
          /\ Store(st) /\ selected' = 0 /\ gesture' = gesture /\ InspectorSync
        BY <1>1 DEF DeleteClip, Command
    <2> HIDE DEF st
    <2>3. selected' \in Nat
        BY <2>2
    <2> QED  BY <2>1, <2>2, <2>3, StoreCommand
<1>2. CASE DeleteKey(ripple)
    <2> DEFINE st == Deleted(Clip(selected).id, ripple)
    <2>1. st \in Stores(DOMAIN tracks)
        BY DeletedKeeps
    <2>2. /\ edits < MaxEdits /\ edits' = edits + 1 /\ selected # 0 /\ Record(<<project>>)
          /\ Store(st) /\ selected' = 0 /\ gesture' = gesture /\ InspectorSync
        BY <1>2 DEF DeleteKey, Command
    <2> HIDE DEF st
    <2>3. selected' \in Nat
        BY <2>2
    <2> QED  BY <2>1, <2>2, <2>3, StoreCommand
<1> QED  BY <1>1, <1>2

LEMMA ViewportDeleteKeeps ==
    ASSUME EInv, ViewportDelete  PROVE EInv' /\ Undoable
<1> DEFINE st == RemoveClip(s, Clip(selected).id).s
<1>1. st \in Stores(DOMAIN tracks)
    BY SessionStore, RemoveKeeps DEF Results
<1>2. /\ edits < MaxEdits /\ edits' = edits + 1 /\ Idle /\ Record(<<project>>)
      /\ Store(st) /\ selected' = 0 /\ gesture' = gesture /\ InspectorSync
    BY DEF ViewportDelete, Command
<1> HIDE DEF st
<1>3. selected' \in Nat
    BY <1>2
<1> QED  BY <1>1, <1>2, <1>3, StoreCommand

LEMMA DuplicateCommandKeeps ==
    ASSUME EInv, NEW id, Duplicate(id)  PROVE EInv' /\ Undoable
<1> DEFINE st == WithPartner(s, id, FindLinkedClip(s, tracks, id), DuplicateClip)
<1>1. st \in Stores(DOMAIN tracks)
    BY DuplicatedKeeps
<1>2. /\ edits < MaxEdits /\ edits' = edits + 1 /\ Idle /\ Record(<<project>>)
      /\ Store(st) /\ selected' = 0 /\ gesture' = gesture /\ InspectorSync
    BY DEF Duplicate, Command
<1> HIDE DEF st
<1>3. selected' \in Nat
    BY <1>2
<1> QED  BY <1>1, <1>2, <1>3, StoreCommand

LEMMA SplitCommandKeeps ==
    ASSUME EInv, NEW id, NEW f \in Frames, Split(id, f)  PROVE EInv' /\ Undoable
<1> DEFINE Op(st, c) == SplitClip(st, c, Pts(f))
           new == WithPartner(s, id, FindLinkedClip(s, tracks, id), Op)
<1>1. new \in Stores(DOMAIN tracks)
    <2>1. Pts(f) \in Int
        BY SessionStore
    <2> QED  BY <2>1, SplitPairKeeps
<1>2. /\ edits < MaxEdits /\ edits' = edits + 1 /\ (Idle \/ selected # 0) /\ Record(<<project>>)
      /\ Store(new) /\ selected' = 0 /\ gesture' = gesture /\ InspectorSync
    BY DEF Split, Command
<1> HIDE DEF new
<1>3. selected' \in Nat
    BY <1>2
<1> QED  BY <1>1, <1>2, <1>3, StoreCommand

\* The drags.
LEMMA GestureMade ==
    ASSUME EInv, NEW kind \in Gestures, NEW i, StartGesture(kind, i),
           i \in DOMAIN s.clips
    PROVE  gesture' \in GestureType /\ gesture'.kind = kind /\ gesture'.start = <<project>>
<1>1. s.clips[i].id \in Int /\ i \in Nat /\ project \in Projects
    BY SessionStore, StoreParts
<1>2. gesture' = [kind |-> kind, clip |-> s.clips[i].id, idx |-> i, start |-> <<project>>]
    BY DEF StartGesture, Clip
<1> QED  BY <1>1, <1>2 DEF GestureType

LEMMA GrabClipKeeps ==
    ASSUME EInv, NEW kind \in {"move", "left", "right"}, NEW i \in DOMAIN s.clips, GrabClip(kind, i)
    PROVE  EInv' /\ Undoable
<1>1. gesture' \in GestureType /\ gesture'.kind = kind
    BY GestureMade DEF GrabClip, Gestures
<1>2. selected' \in Nat /\ project' = project /\ project \in Projects
    BY SessionStore DEF GrabClip
<1>3. shown' \in ShownType
    BY <1>2, Synced DEF GrabClip
<1>4. HeldUndoable'
    BY <1>1 DEF HeldUndoable
<1> QED  BY <1>1, <1>2, <1>3, <1>4 DEF GrabClip, EInv, Undoable, ShownType, GestureType

\* Drags that are recorded as they start: the snapshot is on top.
LEMMA RecordedGrab ==
    ASSUME EInv, Record(<<project>>), gesture' \in GestureType, gesture'.start = <<project>>,
           UNCHANGED <<project, selected, shown, edits>>
    PROVE  EInv' /\ Undoable
<1>1. undo \in Seq(Projects) /\ project \in Projects /\ undo' = Capped(undo \o <<project>>)
    BY DEF EInv, Record
<1>2. undo' \in Seq(Projects) /\ Len(undo') \in 1..MaxHistory /\ undo' # <<>>
    BY <1>1, Recorded
<1>3. undo'[Len(undo')] = project
    BY <1>1, Recorded
<1>4. redo' = <<>> /\ Len(redo') = 0 /\ redo' \in Seq(Projects)
    BY DEF Record
<1>5. Len(undo') + Len(redo') <= MaxHistory
    BY <1>2, <1>4, EditorAssumption
<1>6. HeldUndoable'
    BY <1>2, <1>3 DEF HeldUndoable
<1> QED  BY <1>2, <1>4, <1>5, <1>6 DEF EInv, Undoable, GestureType

LEMMA GrabTransformKeeps ==
    ASSUME EInv, GrabTransform  PROVE EInv' /\ Undoable
<1>1. selected \in DOMAIN s.clips
    BY SessionStore DEF GrabTransform, StartGesture
<1>2. gesture' \in GestureType /\ gesture'.start = <<project>>
    BY <1>1, GestureMade DEF GrabTransform, Gestures
<1> QED  BY <1>2, RecordedGrab DEF GrabTransform

LEMMA GrabGainKeeps ==
    ASSUME EInv, NEW t \in TrackIds, GrabGain(t)  PROVE EInv' /\ Undoable
<1>1. t \in Nat /\ project \in Projects
    BY SessionStore DEF TrackIds
<1>2. gesture' \in GestureType /\ gesture'.start = <<project>>
    BY <1>1 DEF GrabGain, GestureType, Gestures
<1> QED  BY <1>2, RecordedGrab DEF GrabGain

LEMMA DropClipKeeps ==
    ASSUME EInv, NEW t \in TrackIds, NEW f \in Frames, DropClip(t, f)
    PROVE  EInv' /\ Undoable
<1> DEFINE id == gesture.clip
           here == id \in Ids(s)
           r == IF here /\ ClipOf(s, id).track = t
                THEN ProjectMoveClip(s, id, Pts(f)) ELSE MoveClipToTrack(s, id, t, Pts(f))
           partner == FindLinkedClip(s, tracks, id)
           moved == IF r.ok /\ partner \in Ids(r.s)
                    THEN ProjectMoveClip(r.s, partner,
                           ClipOf(r.s, partner).ptsIn + Pts(f) - ClipOf(s, id).ptsIn).s
                    ELSE r.s
<1>1. /\ moved \in Stores(DOMAIN tracks)
      /\ r.id \in Ids(moved) => IndexOf(moved, r.id) \in 1..Len(moved.clips)
    <2>1. Pts(f) \in Nat
        BY SessionStore
    <2> QED  BY <2>1, DroppedKeeps
<1>2. /\ edits < MaxEdits /\ edits' = edits + 1 /\ Record(<<project>>) /\ Store(moved)
      /\ selected' = IF ~r.ok THEN selected
                     ELSE IF r.id \in Ids(moved) THEN IndexOf(moved, r.id) ELSE 0
      /\ gesture' = NoGesture /\ InspectorSync
    BY DEF DropClip, Command
<1> HIDE DEF r, moved
<1>3. selected' \in Nat
    <2>1. selected \in Nat
        BY SessionStore
    <2> QED  BY <1>1, <1>2, <2>1
<1> QED  BY <1>1, <1>2, <1>3, StoreCommand

LEMMA DropEdgeKeeps ==
    ASSUME EInv, NEW f \in Frames, DropEdge(f)  PROVE EInv' /\ Undoable
<1> DEFINE id == gesture.clip
           c == ClipOf(s, id)
           left == IF Pts(f) < c.ptsOut - project.frame THEN Pts(f) ELSE c.ptsOut - project.frame
           right == IF Pts(f) > c.ptsIn + project.frame THEN Pts(f) ELSE c.ptsIn + project.frame
           partner == FindLinkedClip(s, tracks, id)
           In(st, x) == TrimClipIn(st, x, left)
           Out(st, x) == TrimClipOut(st, x, right)
<1>1. gesture' = NoGesture /\ selected' = selected /\ selected \in Nat /\ InspectorSync
      /\ edits < MaxEdits /\ edits' = edits + 1 /\ selected' \in Nat
    BY SessionStore DEF DropEdge, Command
<1>2. CASE id \notin Ids(s)
    <2>1. UNCHANGED <<project, undo, redo>>
        BY <1>2 DEF DropEdge
    <2>2. shown' \in ShownType
        BY <1>1, <2>1, SessionStore, Synced
    <2>3. HeldUndoable' /\ gesture' \in GestureType
        BY <1>1, Now DEF HeldUndoable, NoGesture
    <2>4. edits' \in 0..MaxEdits
        BY <1>1, Now
    <2> QED  BY <1>1, <2>1, <2>2, <2>3, <2>4 DEF EInv, Undoable, ShownType, GestureType
<1>3. CASE id \in Ids(s)
    <2>1. left \in Int /\ right \in Int
        <3>1. c \in Passed(DOMAIN tracks)
            BY <1>3, SessionStore, FoundById
        <3>2. c.ptsIn \in Int /\ c.ptsOut \in Int
            BY <3>1, ClipParts
        <3>3. Pts(f) \in Nat /\ project.frame \in Nat
            BY SessionStore
        <3> HIDE DEF c
        <3> QED  BY <3>2, <3>3
    <2>2. Record(<<project>>) /\ (Store(WithPartner(s, id, partner, In))
                                  \/ Store(WithPartner(s, id, partner, Out)))
        BY <1>3 DEF DropEdge
    <2> HIDE DEF left, right
    <2>3. /\ WithPartner(s, id, partner, In) \in Stores(DOMAIN tracks)
          /\ WithPartner(s, id, partner, Out) \in Stores(DOMAIN tracks)
        BY <2>1, TrimPairKeeps
    <2> DEFINE one == WithPartner(s, id, partner, In)
               two == WithPartner(s, id, partner, Out)
    <2>4. (Store(one) \/ Store(two)) /\ one \in Stores(DOMAIN tracks) /\ two \in Stores(DOMAIN tracks)
        BY <2>2, <2>3
    <2> HIDE DEF one, two
    <2> QED  BY <1>1, <2>2, <2>4, StoreCommand
<1> QED  BY <1>2, <1>3

\* A frame of a drag writes what the snapshot of its start still has.
LEMMA Dragged ==
    ASSUME EInv, gesture.kind \in {"transform", "gain"}, edits < MaxEdits, edits' = edits + 1,
           last' = "drag", project' \in Projects, UNCHANGED <<undo, redo, selected, gesture, shown>>
    PROVE  EInv' /\ Undoable
<1>1. edits' \in 0..MaxEdits
    BY Now
<1>2. HeldUndoable'
    BY DEF EInv, HeldUndoable
<1>3. gesture.start = <<>> \/ gesture.start[1] \in ToSet(undo)
    <2>1. DOMAIN undo = 1..Len(undo) /\ Len(undo) \in Nat /\ (undo # <<>> => Len(undo) # 0)
        BY Now, LenProperties, EmptySeq
    <2>2. ASSUME gesture.start # <<>>
          PROVE  gesture.start[1] \in ToSet(undo)
        <3>1. HeldUndoable
            BY DEF EInv
        <3>2. \/ Len(undo) \in DOMAIN undo /\ undo[Len(undo)] = gesture.start[1]
              \/ Len(undo) - 1 \in DOMAIN undo /\ undo[Len(undo) - 1] = gesture.start[1]
            BY <2>1, <2>2, <3>1 DEF HeldUndoable
        <3> QED  BY <3>2 DEF ToSet
    <2> QED  BY <2>2
<1> QED  BY <1>1, <1>2, <1>3 DEF EInv, Undoable

LEMMA DragTransformKeeps ==
    ASSUME EInv, NEW v \in Looks, DragTransform(v)  PROVE EInv' /\ Undoable
<1> DEFINE st == [s EXCEPT !.clips[selected].look[1] = v]
<1>1. s \in Stores(DOMAIN tracks) /\ selected \in 1..Len(s.clips) /\ 1 \in 1..2
    BY SessionStore DEF DragTransform, Command
<1>2. st \in Stores(DOMAIN tracks)
    BY <1>1, LookKeeps
<1>3. Store(st)
    BY DEF DragTransform
<1> HIDE DEF st
<1>4. project' \in Projects
    BY <1>2, <1>3, Stored
<1> QED  BY <1>4, Dragged DEF DragTransform, Command

LEMMA DragGainKeeps ==
    ASSUME EInv, NEW v \in Looks, DragGain(v)  PROVE EInv' /\ Undoable
<1>1. project' \in Projects
    BY GainSet DEF DragGain
<1> QED  BY <1>1, Dragged DEF DragGain, Command

LEMMA ReleaseKeeps ==
    ASSUME EInv, Release  PROVE EInv' /\ Undoable
<1>1. gesture' \in GestureType /\ HeldUndoable'
    BY Now DEF Release, HeldUndoable, NoGesture
<1> QED  BY <1>1 DEF Release, EInv, Undoable, GestureType

LEMMA DropEffectKeeps ==
    ASSUME EInv, NEW i \in DOMAIN s.clips, NEW v \in Looks, DropEffect(i, v)
    PROVE  EInv' /\ Undoable
<1> DEFINE st == [s EXCEPT !.clips[i].look[2] = v]
<1>1. s \in Stores(DOMAIN tracks) /\ i \in 1..Len(s.clips) /\ 2 \in 1..2 /\ i \in Nat
    BY SessionStore
<1>2. st \in Stores(DOMAIN tracks) /\ Len(st.clips) = Len(s.clips)
    BY <1>1, LookKeeps
<1>3. Store(st)
    BY DEF DropEffect
<1> HIDE DEF st
<1>4. project' \in Projects /\ project'.store = st
    BY <1>2, <1>3, Stored
<1>5. st.clips[i].look \in Looks \X Looks
    BY <1>1, <1>2, StoreParts, ClipParts
<1>6. shown' \in ShownType
    <2>1. shown \in ShownType
        BY Now
    <2>2. [shown.look EXCEPT ![2] = v] \in Looks \X Looks
        BY <2>1, LookSet DEF ShownType
    <2> DEFINE look == [shown.look EXCEPT ![2] = v]
    <2>3. shown' = IF i = shown.idx THEN [shown EXCEPT !.look = look]
                   ELSE [idx |-> i, look |-> st.clips[i].look]
        BY <1>4 DEF DropEffect
    <2> HIDE DEF look
    <2>4. [shown EXCEPT !.look = look] \in ShownType
        BY <2>1, <2>2, Zenon DEF ShownType, look
    <2> QED  BY <1>1, <1>5, <2>3, <2>4 DEF ShownType
<1>7. selected' \in Nat
    BY <1>1 DEF DropEffect
<1> QED  BY <1>4, <1>6, <1>7, Commanded DEF DropEffect, Command

\* Keyframes of the clip that is selected.
LEMMA KeyOfSelected ==
    ASSUME EInv, ~Panicked, selected # 0, NEW f \in Frames
    PROVE  /\ [clip |-> Clip(selected).id, pts |-> Pts(f)] \in KeyType
           /\ Clip(selected).id \in Ids(s) /\ selected \in 1..Len(s.clips)
<1>1. selected \in 1..Len(s.clips) /\ s \in Stores(DOMAIN tracks) /\ Pts(f) \in Int
    BY SessionStore
<1>2. Clip(selected).id \in Nat
    BY <1>1, StoreParts DEF Clip
<1>3. Clip(selected).id \in Ids(s)
    BY <1>1, StoreParts DEF Ids, Clip
<1> QED  BY <1>1, <1>2, <1>3 DEF KeyType

LEMMA EditLookKeeps ==
    ASSUME EInv, NEW field \in 1..2, NEW v \in Looks, NEW f \in Frames, EditLook(field, v, f)
    PROVE  EInv' /\ Undoable
<1> DEFINE id == Clip(selected).id
           ks == s.keys \cup {[clip |-> id, pts |-> Pts(f)]}
           keyed == IF HasKeys(s, id) THEN [s EXCEPT !.keys = ks] ELSE s
           st == [keyed EXCEPT !.clips[selected].look[field] = v]
           p == [project EXCEPT !.store = keyed]
<1>1. /\ ~Panicked /\ selected # 0 /\ Idle /\ edits < MaxEdits /\ edits' = edits + 1
      /\ selected' = selected /\ gesture' = gesture
      /\ Record(IF HasKeys(s, id) THEN <<project, p>> ELSE <<project>>)
      /\ Store(st)
      /\ shown' = [shown EXCEPT !.look[field] = v]
    BY DEF EditLook, Command
<1>2. s \in Stores(DOMAIN tracks) /\ project \in Projects /\ selected \in Nat
    BY SessionStore
<1>3. keyed \in Stores(DOMAIN tracks) /\ Len(keyed.clips) = Len(s.clips)
    <2>1. [clip |-> id, pts |-> Pts(f)] \in KeyType /\ id \in Ids(s)
        BY <1>1, KeyOfSelected
    <2>2. s.keys \in SUBSET KeyType /\ \A k \in s.keys : k.clip \in Ids(s)
        BY <1>2, StoreParts
    <2>3. ks \in SUBSET KeyType /\ \A k \in ks : k.clip \in Ids(s)
        BY <2>1, <2>2
    <2> HIDE DEF ks
    <2>4. [s EXCEPT !.keys = ks] \in Stores(DOMAIN tracks)
        BY <1>2, <2>3, KeysSet
    <2>5. [s EXCEPT !.keys = ks].clips = s.clips
        BY <1>2 DEF Stores, StoreType
    <2> QED  BY <1>2, <2>4, <2>5
<1> HIDE DEF keyed
<1>4. st \in Stores(DOMAIN tracks)
    <2>1. selected \in 1..Len(keyed.clips)
        BY <1>1, <1>3, SessionStore
    <2> QED  BY <1>3, <2>1, LookKeeps
<1> HIDE DEF st
<1>5. p \in Projects
    BY <1>2, <1>3, WithStore DEF tracks
<1>6. project' \in Projects
    BY <1>1, <1>4, Stored
<1>7. shown' \in ShownType
    <2>1. shown \in ShownType
        BY Now
    <2> DEFINE look == [shown.look EXCEPT ![field] = v]
    <2>2. look \in Looks \X Looks
        BY <2>1, LookSet DEF ShownType
    <2>3. shown' = [shown EXCEPT !.look = look]
        BY <1>1
    <2> HIDE DEF look
    <2> QED  BY <2>1, <2>2, <2>3, Zenon DEF ShownType
<1> HIDE DEF p
<1>8. selected' \in Nat
    BY <1>1, <1>2
<1>9. CASE HasKeys(s, id)
    <2>1. Record(<<project, p>>)
        BY <1>1, <1>9
    <2> QED  BY <1>1, <1>5, <1>6, <1>7, <1>8, <2>1, CommandedTwo
<1>10. CASE ~HasKeys(s, id)
    <2>1. Record(<<project>>)
        BY <1>1, <1>10
    <2> QED  BY <1>1, <1>6, <1>7, <1>8, <2>1, Commanded
<1> QED  BY <1>9, <1>10

LEMMA ToggleKeyframeKeeps ==
    ASSUME EInv, NEW field \in 1..2, NEW f \in Frames, ToggleKeyframe(field, f)
    PROVE  EInv' /\ Undoable
<1> DEFINE k == [clip |-> Clip(selected).id, pts |-> Pts(f)]
           ks == IF k \in s.keys THEN s.keys \ {k} ELSE s.keys \cup {k}
           keyed == [s EXCEPT !.keys = ks]
           st == [keyed EXCEPT !.clips[selected].look[field] = shown.look[field]]
           p == [project EXCEPT !.store = keyed]
<1>1. /\ ~Panicked /\ selected # 0 /\ Idle /\ edits < MaxEdits /\ edits' = edits + 1
      /\ selected' = selected /\ gesture' = gesture /\ shown' = shown
      /\ Record(<<project, p>>) /\ Store(st)
    BY DEF ToggleKeyframe, Command
<1>2. s \in Stores(DOMAIN tracks) /\ project \in Projects /\ selected \in Nat
      /\ shown \in ShownType
    BY SessionStore, Now
<1>3. keyed \in Stores(DOMAIN tracks) /\ Len(keyed.clips) = Len(s.clips)
    <2>1. k \in KeyType /\ k.clip \in Ids(s)
        BY <1>1, KeyOfSelected
    <2>2. s.keys \in SUBSET KeyType /\ \A key \in s.keys : key.clip \in Ids(s)
        BY <1>2, StoreParts
    <2> HIDE DEF k
    <2>3. ks \in SUBSET KeyType /\ \A key \in ks : key.clip \in Ids(s)
        BY <2>1, <2>2
    <2> HIDE DEF ks
    <2>4. [s EXCEPT !.keys = ks] \in Stores(DOMAIN tracks)
        BY <1>2, <2>3, KeysSet
    <2>5. [s EXCEPT !.keys = ks].clips = s.clips
        BY <1>2 DEF Stores, StoreType
    <2> QED  BY <2>4, <2>5
<1> HIDE DEF keyed
<1>4. st \in Stores(DOMAIN tracks)
    <2>1. selected \in 1..Len(keyed.clips)
        BY <1>1, <1>3, SessionStore
    <2>2. shown.look[field] \in Looks
        <3>1. shown.look \in Looks \X Looks
            BY <1>2 DEF ShownType
        <3>2. field = 1 \/ field = 2
            OBVIOUS
        <3> QED  BY <3>1, <3>2
    <2> DEFINE v == shown.look[field]
    <2>3. v \in Looks
        BY <2>2
    <2> HIDE DEF v
    <2>4. [keyed EXCEPT !.clips[selected].look[field] = v] \in Stores(DOMAIN tracks)
        BY <1>3, <2>1, <2>3, LookKeeps
    <2> QED  BY <2>4 DEF v
<1> HIDE DEF st
<1>5. p \in Projects
    BY <1>2, <1>3, WithStore DEF tracks
<1> HIDE DEF p
<1>6. project' \in Projects
    BY <1>1, <1>4, Stored
<1>7. selected' \in Nat /\ shown' \in ShownType
    BY <1>1, <1>2
<1> QED  BY <1>1, <1>5, <1>6, <1>7, CommandedTwo

LEMMA RemoveKeyframeKeeps ==
    ASSUME EInv, NEW k \in s.keys, RemoveKeyframe(k)  PROVE EInv' /\ Undoable
<1> DEFINE ks == s.keys \ {k}
           st == [s EXCEPT !.keys = ks]
<1>1. s \in Stores(DOMAIN tracks)
    BY SessionStore
<1>2. ks \in SUBSET KeyType /\ \A key \in ks : key.clip \in Ids(s)
    BY <1>1, StoreParts
<1>3. Store(st)
    BY DEF RemoveKeyframe
<1> HIDE DEF ks
<1>4. st \in Stores(DOMAIN tracks)
    BY <1>1, <1>2, KeysSet
<1> HIDE DEF st
<1>5. project' \in Projects
    BY <1>3, <1>4, Stored
<1> QED  BY <1>5, PlainCommand DEF RemoveKeyframe, Command

LEMMA SetSpeedKeeps ==
    ASSUME EInv, NEW v \in Speeds, SetSpeed(v)  PROVE EInv' /\ Undoable
<1> DEFINE id == Clip(selected).id
           one == SetSpeedAt(s, selected, v)
           partner == FindLinkedClip(one, tracks, id)
           st == IF partner = -1 THEN one ELSE SetSpeedAt(one, IndexOf(one, partner), v)
<1>1. st \in Stores(DOMAIN tracks)
    BY SpeedPairKeeps DEF SetSpeed, Command
<1>2. Store(st)
    BY DEF SetSpeed
<1> HIDE DEF st
<1>3. project' \in Projects
    BY <1>1, <1>2, Stored
<1> QED  BY <1>3, PlainCommand DEF SetSpeed, Command

-----------------------------------------------------------------------------
(* The session as a whole *)

\* A session starts as it should be.
LEMMA Starts ==
    ASSUME Init  PROVE EInv
<1>1. project \in Projects
    BY LoadedAssumption DEF Init, Projects, IsProject
<1>2. <<>> \in Seq(Projects) /\ Len(<<>>) = 0 /\ MaxHistory \in Nat /\ MaxEdits \in Nat /\ 0 \in Looks
    BY EditorAssumption
<1>3. NoGesture \in GestureType
    BY DEF GestureType, NoGesture
<1>4. HeldUndoable
    BY DEF Init, HeldUndoable, NoGesture
<1> QED  BY <1>1, <1>2, <1>3, <1>4 DEF Init, EInv, GestureType

\* Every step keeps it so.
LEMMA Steps ==
    ASSUME EInv, [Next]_vars  PROVE EInv' /\ Undoable
<1>1. CASE UNCHANGED vars
    BY <1>1 DEF vars, EInv, HeldUndoable, Undoable
<1>2. CASE Undo \/ Redo
    BY <1>2, UndoKeeps, RedoKeeps
<1>3. CASE \E f \in FrameTicks : ChangeSettings(f)
    BY <1>3, SettingsKeeps
<1>4. CASE \E i \in 0..Len(s.clips) : Select(i)
    BY <1>4, SelectKeeps
<1>5. CASE \E t \in TrackIds : ToggleMute(t) \/ ToggleSolo(t)
    BY <1>5, ToggleKeeps
<1>6. CASE \E kind \in {"video", "audio"} : AddTrack(kind)
    BY <1>6, AddTrackKeeps
<1>14. CASE \E t \in TrackIds, v \in Looks : ClickGain(t, v) \/ DoubleClickGain(t, v)
    BY <1>14, ClickGainKeeps, DoubleClickGainKeeps
<1>7. CASE \E t \in TrackIds, src \in Sources, f \in Frames : DropMedia(t, src, f)
    BY <1>7, DropMediaKeeps
<1>8. CASE \E i \in DOMAIN s.clips, v \in Looks : DropEffect(i, v)
    BY <1>8, DropEffectKeeps
<1>9. CASE ClipCommand
    BY <1>9, DeleteKeeps, DuplicateCommandKeeps, SplitCommandKeeps DEF ClipCommand
<1>10. CASE \E ripple \in BOOLEAN : DeleteKey(ripple)
    BY <1>10, DeleteKeeps
<1>11. CASE ViewportDelete
    BY <1>11, ViewportDeleteKeeps
<1>12. CASE InspectorCommand
    BY <1>12, EditLookKeeps, ToggleKeyframeKeeps, RemoveKeyframeKeeps, SetSpeedKeeps
       DEF InspectorCommand
<1>13. CASE Drag
    <2>1. CASE \E kind \in {"move", "left", "right"}, i \in DOMAIN s.clips : GrabClip(kind, i)
        BY <2>1, GrabClipKeeps
    <2>2. CASE \E t \in TrackIds, f \in Frames : DropClip(t, f)
        BY <2>2, DropClipKeeps
    <2>3. CASE \E f \in Frames : DropEdge(f)
        BY <2>3, DropEdgeKeeps
    <2>4. CASE GrabTransform
        BY <2>4, GrabTransformKeeps
    <2>5. CASE \E t \in TrackIds : GrabGain(t)
        BY <2>5, GrabGainKeeps
    <2>6. CASE \E v \in Looks : DragTransform(v) \/ DragGain(v)
        BY <2>6, DragTransformKeeps, DragGainKeeps
    <2>7. CASE Release
        BY <2>7, ReleaseKeeps
    <2> QED  BY <1>13, <2>1, <2>2, <2>3, <2>4, <2>5, <2>6, <2>7 DEF Drag
<1> QED  BY <1>1, <1>2, <1>3, <1>4, <1>5, <1>6, <1>7, <1>8, <1>9, <1>10, <1>11, <1>12, <1>13,
            <1>14
         DEF Next

LEMMA Invariant == Spec => []EInv
<1>1. Init => EInv
    BY Starts
<1>2. EInv /\ [Next]_vars => EInv'
    BY Steps
<1> QED  BY <1>1, <1>2, PTL DEF Spec

\* The variables keep their types, whatever the commands and their order.
THEOREM EditorTypes == Spec => []TypeOK
<1>1. EInv => TypeOK
    <2> SUFFICES ASSUME EInv  PROVE TypeOK
        OBVIOUS
    <2>1. Len(undo) <= MaxHistory /\ Len(redo) <= MaxHistory
        BY Now, EditorAssumption
    <2>2. IsProject(project) /\ selected \in Nat
        BY SessionStore, ProjectParts
    <2> QED  BY <2>1, <2>2, Now DEF TypeOK, GestureType, ShownType
<1> QED  BY <1>1, Invariant, PTL

\* The clips stay sorted by start and an id names one clip, after every
\* command, undo and redo.
THEOREM OrderKept == Spec => []StoreOrdered
<1>1. EInv => StoreOrdered
    BY SessionStore, ProjectParts DEF StoreOrdered, s
<1> QED  BY <1>1, Invariant, PTL

\* No command leaves a keyframe behind whose clip is gone.
THEOREM KeyframesKept == Spec => []KeyframesOwned
<1>1. EInv => KeyframesOwned
    BY SessionStore, ProjectParts DEF KeyframesOwned, s
<1> QED  BY <1>1, Invariant, PTL

\* Every change of the project can be taken back: by an undo that finds the
\* project as it was, by a redo, or as part of the drag that recorded it; but
\* for a fader held over an undo, and for a click on a fader, which changes
\* nothing but that gain.
THEOREM ChangesUndoable == Spec => EditsAreUndoable
<1>1. EInv /\ [Next]_vars => [Undoable]_vars
    BY Steps
<1>2. EInv /\ [Next]_vars =>
        [project' # project =>
         \/ last' = "undo" /\ Last(redo') = project
         \/ last' = "redo" /\ Last(undo') = project
         \/ last' = "drag" /\ (gesture.start = <<>> \/ gesture.start[1] \in ToSet(undo))
         \/ last' = "click" /\ \E t \in TrackIds : project' = WithGain(t, project'.tracks[t].gain)
         \/ \E n \in {Len(undo'), Len(undo') - 1} \cap DOMAIN undo' : undo'[n] = project]_vars
    BY <1>1 DEF Undoable
<1> QED  BY <1>2, Invariant, PTL DEF Spec, EditsAreUndoable

-----------------------------------------------------------------------------
(* After a cut the same media play at the same times *)

\* Rounding two parts apart or together differs by one at the most.
LEMMA RoundedParts ==
    ASSUME NEW x \in Nat, NEW y \in Nat, NEW d \in Nat \ {0}
    PROVE  RoundDiv(x, d) + RoundDiv(y, d) - RoundDiv(x + y, d) \in -1..1
<1> DEFINE h == d \div 2
           a == (x + h) \div d
           b == (y + h) \div d
           c == (x + y + h) \div d
<1>1. h \in Nat /\ 2 * h <= d
    OBVIOUS
<1> HIDE DEF h
<1>2. a \in Int /\ d * a <= x + h /\ x + h < d * a + d
    BY <1>1
<1>3. b \in Int /\ d * b <= y + h /\ y + h < d * b + d
    BY <1>1
<1>4. c \in Int /\ d * c <= x + y + h /\ x + y + h < d * c + d
    BY <1>1
<1>5. RoundDiv(x, d) = a /\ RoundDiv(y, d) = b /\ RoundDiv(x + y, d) = c
    BY DEF RoundDiv, h
<1> HIDE DEF a, b, c
<1> DEFINE k == a + b - c
<1>6. k \in Int /\ d * k = d * a + d * b - d * c
    BY <1>2, <1>3, <1>4
<1> HIDE DEF k
<1>7. d * a \in Int /\ d * b \in Int /\ d * c \in Int /\ d * k \in Int
    BY <1>2, <1>3, <1>4, <1>6
<1>8. d * k < 2 * d /\ -(2 * d) < d * k + 1
    BY <1>1, <1>2, <1>3, <1>4, <1>6, <1>7
<1>9. k <= 1
    <2>1. SUFFICES ASSUME k >= 2  PROVE FALSE
        BY <1>6
    <2>2. d * k >= d * 2
        BY <1>6, <2>1
    <2> QED  BY <1>7, <1>8, <2>2
<1>10. k >= -1
    <2>1. SUFFICES ASSUME k <= -2  PROVE FALSE
        BY <1>6
    <2>2. d * k <= d * (-2)
        BY <1>6, <2>1
    <2>3. -(2 * d) = d * k
        BY <1>7, <1>8, <2>2
    <2>4. x + h < d * a + d /\ y + h < d * b + d /\ d * c <= x + y + h
        BY <1>2, <1>3, <1>4
    <2> QED  BY <1>1, <1>6, <1>7, <2>3, <2>4
<1> QED  BY <1>5, <1>6, <1>9, <1>10 DEF k

\* A clip at a time and what is seen of it.
Under(c, at) == c.ptsIn <= at /\ c.ptsOut > at
View(c, at) == [track |-> c.track, src |-> c.src, look |-> c.look,
                sourcePts |-> SpeedScale(at - c.ptsIn, c.speed) + c.sourceIn]

\* Two clips that look and sound the same at a time, up to a tick.
Alike(c, d, at) ==
    /\ Under(c, at) /\ Under(d, at)
    /\ c.track = d.track /\ c.src = d.src /\ c.look = d.look
    /\ View(c, at).sourcePts - View(d, at).sourcePts \in -1..1

\* What follows a cut at pts, with the id n.
NewTail(c, pts, n) == [TailOf(c, pts) EXCEPT !.id = n]

LEMMA HeadFields ==
    ASSUME NEW T, NEW c \in Passed(T), NEW pts \in Int
    PROVE  /\ HeadOf(c, pts) \in Passed(T) /\ HeadOf(c, pts).id = c.id
           /\ HeadOf(c, pts).ptsIn = c.ptsIn /\ HeadOf(c, pts).ptsOut = pts
           /\ HeadOf(c, pts).track = c.track /\ HeadOf(c, pts).src = c.src
           /\ HeadOf(c, pts).look = c.look /\ HeadOf(c, pts).speed = c.speed
           /\ HeadOf(c, pts).sourceIn = c.sourceIn
BY Zenon DEF HeadOf, Passed, ClipType

LEMMA TailFields ==
    ASSUME NEW T, NEW c \in Passed(T), NEW pts \in Int, c.ptsIn < pts, NEW n \in Nat
    PROVE  LET t == NewTail(c, pts, n)
           IN /\ t \in Passed(T) /\ t.id = n /\ t.ptsIn = pts /\ t.ptsOut = c.ptsOut
              /\ t.track = c.track /\ t.src = c.src /\ t.look = c.look /\ t.speed = c.speed
              /\ t.sourceIn = c.sourceIn + SpeedScale(pts - c.ptsIn, c.speed)
<1> DEFINE src == c.sourceIn + SpeedScale(pts - c.ptsIn, c.speed)
           u == TailOf(c, pts)
           t == [u EXCEPT !.id = n]
<1>1. u \in Passed(T)
    BY TailPassed
<1>2. /\ u.ptsIn = pts /\ u.ptsOut = c.ptsOut /\ u.track = c.track /\ u.src = c.src
      /\ u.look = c.look /\ u.speed = c.speed /\ u.sourceIn = src
    BY Zenon DEF TailOf, Passed, ClipType
<1> HIDE DEF u, src
<1>3. /\ t \in Passed(T) /\ t.id = n /\ t.ptsIn = u.ptsIn /\ t.ptsOut = u.ptsOut
      /\ t.track = u.track /\ t.src = u.src /\ t.look = u.look /\ t.speed = u.speed
      /\ t.sourceIn = u.sourceIn
    <2>1. n \in Int
        OBVIOUS
    <2> QED  BY <1>1, <2>1, Zenon DEF Passed, ClipType
<1>4. NewTail(c, pts, n) = t
    BY DEF NewTail, u
<1> HIDE DEF t
<1> QED  BY <1>2, <1>3, <1>4 DEF src

\* At any time one side of a cut clip is as the clip was, and no more.
LEMMA SidesAlike ==
    ASSUME NEW T, NEW c \in Passed(T), NEW pts \in Int, c.ptsIn < pts, pts < c.ptsOut,
           NEW n \in Nat, NEW at \in Int,
           NEW h, h = HeadOf(c, pts), NEW t, t = NewTail(c, pts, n)
    PROVE  /\ Under(c, at) => Alike(c, h, at) \/ Alike(c, t, at)
           /\ Under(h, at) => Alike(h, c, at)
           /\ Under(t, at) => Alike(t, c, at)
<1>1. /\ h.ptsIn = c.ptsIn /\ h.ptsOut = pts /\ h.track = c.track /\ h.src = c.src
      /\ h.look = c.look /\ h.speed = c.speed /\ h.sourceIn = c.sourceIn
    BY HeadFields
<1>2. /\ t.ptsIn = pts /\ t.ptsOut = c.ptsOut /\ t.track = c.track /\ t.src = c.src
      /\ t.look = c.look /\ t.speed = c.speed
      /\ t.sourceIn = c.sourceIn + SpeedScale(pts - c.ptsIn, c.speed)
    BY TailFields
<1>3. /\ c.ptsIn \in Int /\ c.ptsOut \in Int /\ c.sourceIn \in Nat /\ c.speed \in Nat \ {0}
    BY ClipParts
<1> DEFINE whole == SpeedScale(at - c.ptsIn, c.speed)
           first == SpeedScale(pts - c.ptsIn, c.speed)
           rest == SpeedScale(at - pts, c.speed)
<1>4. ASSUME Under(c, at)  PROVE whole \in Int
    <2> DEFINE o == at - c.ptsIn
    <2>1. o \in Nat
        BY <1>3, <1>4 DEF Under
    <2> HIDE DEF o
    <2>2. o * c.speed \in Int
        BY <1>3, <2>1
    <2> QED  BY <2>2, SpeedUnitAssumption, Rounded DEF SpeedScale, o
<1>5. ASSUME Under(c, at), at >= pts
      PROVE  first + rest - whole \in -1..1 /\ first \in Int /\ rest \in Int
    <2> DEFINE o == pts - c.ptsIn
               p == at - pts
    <2>1. o \in Nat /\ p \in Nat /\ at - c.ptsIn = o + p
        BY <1>3, <1>5
    <2> HIDE DEF o, p
    <2> DEFINE x == o * c.speed
               y == p * c.speed
    <2>2. x \in Nat /\ y \in Nat /\ (o + p) * c.speed = x + y
        BY <1>3, <2>1
    <2> HIDE DEF x, y
    <2>3. RoundDiv(x, SpeedUnit) + RoundDiv(y, SpeedUnit) - RoundDiv(x + y, SpeedUnit) \in -1..1
        BY <2>2, SpeedUnitAssumption, RoundedParts
    <2>4. RoundDiv(x, SpeedUnit) \in Int /\ RoundDiv(y, SpeedUnit) \in Int
        BY <2>2, SpeedUnitAssumption, Rounded
    <2>5. /\ first = RoundDiv(x, SpeedUnit) /\ rest = RoundDiv(y, SpeedUnit)
          /\ whole = RoundDiv(x + y, SpeedUnit)
        BY <2>1, <2>2 DEF SpeedScale, x, y, o, p
    <2> HIDE DEF first, rest, whole
    <2> QED  BY <2>3, <2>4, <2>5
<1>6. /\ View(c, at).sourcePts = whole + c.sourceIn
      /\ View(h, at).sourcePts = whole + c.sourceIn
      /\ View(t, at).sourcePts = rest + (c.sourceIn + first)
    BY <1>1, <1>2 DEF View
<1> HIDE DEF whole, first, rest
<1>7. ASSUME Under(c, at), at < pts  PROVE Alike(c, h, at) /\ Alike(h, c, at)
    BY <1>1, <1>3, <1>4, <1>6, <1>7 DEF Alike, Under
<1>8. ASSUME Under(c, at), at >= pts  PROVE Alike(c, t, at) /\ Alike(t, c, at)
    <2>1. Under(t, at)
        BY <1>2, <1>8 DEF Under
    <2>2. View(c, at).sourcePts - View(t, at).sourcePts \in -1..1
          /\ View(t, at).sourcePts - View(c, at).sourcePts \in -1..1
        BY <1>3, <1>4, <1>5, <1>6, <1>8
    <2> QED  BY <1>2, <1>8, <2>1, <2>2 DEF Alike
<1>9. Under(h, at) => Under(c, at) /\ at < pts
    BY <1>1, <1>3 DEF Under
<1>10. Under(t, at) => Under(c, at) /\ at >= pts
    BY <1>2, <1>3 DEF Under
<1>11. at < pts \/ at >= pts
    OBVIOUS
<1> QED  BY <1>7, <1>8, <1>9, <1>10, <1>11

\* The clips after an insertion: those before it and the new one.
LEMMA InsertShelf ==
    ASSUME NEW T, NEW st \in Stores(T), NEW p \in Passed(T), p.ptsIn < p.ptsOut
    PROVE  Shelf(InsertClip(st, p).s) = Shelf(st) \cup {[p EXCEPT !.id = st.nextId]}
<1> DEFINE k == Cardinality({i \in DOMAIN st.clips : st.clips[i].ptsIn <= p.ptsIn})
           e == [p EXCEPT !.id = st.nextId]
           q == InsertAt(st.clips, k + 1, e)
<1>1. p.ptsIn \in Int /\ p.ptsOut \in Int
    BY ClipParts
<1>2. k \in 0..Len(st.clips)
    <2>1. \A i \in 1..Len(st.clips) : st.clips[i].ptsIn \in Int
        BY StoreParts, ClipParts
    <2> QED  BY <1>1, <2>1, StoreParts, Before
<1>3. e \in Passed(T)
    <2>1. st.nextId \in Int
        BY StoreParts
    <2> QED  BY <2>1, PassedOn, Zenon
<1>4. InsertClip(st, p).s.clips = q
    <2>1. ~(p.ptsIn >= p.ptsOut)
        BY <1>1
    <2>2. InsertClip(st, p).s = [st EXCEPT !.clips = q, !.nextId = st.nextId + 1]
        BY <2>1 DEF InsertClip, Done
    <2> HIDE DEF q
    <2>3. [st EXCEPT !.clips = q, !.nextId = st.nextId + 1].clips = q
        BY DEF Stores, StoreType
    <2> QED  BY <2>2, <2>3
<1>5. /\ q \in Seq(Passed(T)) /\ Len(q) = Len(st.clips) + 1
      /\ \A i \in 1..(Len(st.clips) + 1) :
           q[i] = IF i <= k THEN st.clips[i] ELSE IF i = k + 1 THEN e ELSE st.clips[i - 1]
    <2> HIDE DEF k, e
    <2> QED  BY <1>2, <1>3, StoreParts, PutIn
<1> HIDE DEF k, e, q
<1>6. /\ k \in Nat /\ Len(st.clips) \in Nat /\ DOMAIN q = 1..Len(q)
      /\ DOMAIN st.clips = 1..Len(st.clips)
    BY <1>2, <1>5, StoreParts
<1>7. ASSUME NEW j \in 1..Len(st.clips)  PROVE \E i \in 1..Len(q) : q[i] = st.clips[j]
    <2>1. CASE j <= k
        BY <2>1, <1>5, <1>6
    <2>2. CASE j > k
        <3>1. j + 1 \in 1..Len(q) /\ ~(j + 1 <= k) /\ j + 1 # k + 1 /\ (j + 1) - 1 = j
            BY <2>2, <1>5, <1>6
        <3>2. q[j + 1] = st.clips[j]
            BY <3>1, <1>5
        <3> QED  BY <3>1, <3>2
    <2> QED  BY <2>1, <2>2, <1>6
<1>8. k + 1 \in 1..Len(q) /\ q[k + 1] = e
    BY <1>2, <1>5, <1>6
<1>9. ASSUME NEW i \in 1..Len(q), i # k + 1
      PROVE  \E j \in 1..Len(st.clips) : q[i] = st.clips[j]
    <2>1. i \in 1..(Len(st.clips) + 1)
        BY <1>5
    <2>2. CASE i <= k
        <3>1. i \in 1..Len(st.clips) /\ q[i] = st.clips[i]
            BY <1>2, <1>5, <1>6, <2>1, <2>2
        <3> QED  BY <3>1
    <2>3. CASE i > k
        <3>1. i - 1 \in 1..Len(st.clips) /\ q[i] = st.clips[i - 1]
            BY <1>2, <1>5, <1>6, <1>9, <2>1, <2>3
        <3> QED  BY <3>1
    <2> QED  BY <2>1, <2>2, <2>3, <1>6
<1>10. Shelf(InsertClip(st, p).s) = {q[i] : i \in 1..Len(q)}
    BY <1>4, <1>6 DEF Shelf
<1>11. Shelf(st) = {st.clips[j] : j \in 1..Len(st.clips)}
    BY <1>6 DEF Shelf
<1>12. {q[i] : i \in 1..Len(q)} = {st.clips[j] : j \in 1..Len(st.clips)} \cup {e}
    <2> DEFINE new == {q[i] : i \in 1..Len(q)}
               old == {st.clips[j] : j \in 1..Len(st.clips)}
    <2>1. old \subseteq new
        BY <1>7
    <2>2. e \in new
        BY <1>8
    <2>3. \A x \in new : x \in old \/ x = e
        BY <1>8, <1>9
    <2> HIDE DEF new, old
    <2>4. new = old \cup {e}
        BY <2>1, <2>2, <2>3
    <2> QED  BY <2>4 DEF new, old
<1> QED  BY <1>10, <1>11, <1>12 DEF e

\* A store in which one clip is cut in two at pts, and the rest as it was.
CutIn(st, new, pts) ==
    \E c \in Shelf(st), n \in Nat :
        /\ c.ptsIn < pts /\ pts < c.ptsOut
        /\ HeadOf(c, pts) \in Shelf(new) /\ NewTail(c, pts, n) \in Shelf(new)
        /\ Shelf(st) \ {c} \subseteq Shelf(new)
        /\ Shelf(new) \subseteq Shelf(st) \cup {HeadOf(c, pts), NewTail(c, pts, n)}

\* A split cuts its clip, or does nothing.
LEMMA SplitCuts ==
    ASSUME NEW T, NEW st \in Stores(T), NEW id, NEW pts \in Int
    PROVE  LET new == SplitClip(st, id, pts).s IN new = st \/ CutIn(st, new, pts)
<1> DEFINE c == ClipOf(st, id)
           i == IndexOf(st, id)
           u == [st EXCEPT !.clips[i].ptsOut = pts, !.clips[i].fadeOut = 0]
           tail == TailOf(c, pts)
           r == InsertClip(u, tail)
           ks == TrimKeys(CopyKeys(r.s.keys, id, r.id, pts, c.ptsOut), id, c.ptsIn, pts)
           t == [r.s EXCEPT !.keys = ks]
           new == SplitClip(st, id, pts).s
<1>1. CASE id \in Ids(st) /\ ~(pts <= c.ptsIn \/ pts >= c.ptsOut)
    <2>1. c \in Passed(T) /\ i \in 1..Len(st.clips) /\ c = st.clips[i]
        BY <1>1, FoundById
    <2>2. SplitClip(st, id, pts) = Done(t, r.id)
        BY <1>1 DEF SplitClip
    <2> HIDE DEF i
    <2>3. c.ptsIn < pts /\ pts < c.ptsOut
        BY <1>1, <2>1, ClipParts
    <2> DEFINE q == [st.clips EXCEPT ![i] = HeadOf(c, pts)]
    <2>4. u \in Stores(T)
        BY <2>1, HeadPassed
    <2>5. u = [clips |-> q, keys |-> st.keys, nextId |-> st.nextId]
        BY <2>1, HeadCut
    <2> HIDE DEF c
    <2>6. tail \in Passed(T) /\ tail.ptsIn < tail.ptsOut
        BY <2>1, <2>3, TailPassed
    <2>7. [tail EXCEPT !.id = st.nextId] = NewTail(c, pts, st.nextId)
        BY DEF NewTail
    <2> HIDE DEF u, tail, q
    <2>8. Shelf(r.s) = Shelf(u) \cup {NewTail(c, pts, st.nextId)}
        BY <2>4, <2>5, <2>6, <2>7, InsertShelf
    <2>9. Shelf(u) = {q[j] : j \in DOMAIN q}
        BY <2>5 DEF Shelf
    <2>10. DOMAIN q = DOMAIN st.clips /\ i \in DOMAIN q /\ q[i] = HeadOf(c, pts)
           /\ \A j \in DOMAIN q : j # i => q[j] = st.clips[j]
        BY <2>1, StoreParts DEF q
    <2>11. r.s \in Stores(T)
        BY <2>4, <2>6, InsertKeeps DEF Results
    <2> HIDE DEF r, ks
    <2>12. Shelf(new) = Shelf(r.s)
        <3>1. t.clips = r.s.clips
            BY <2>11 DEF Stores, StoreType
        <3>2. new = t
            BY <2>2 DEF Done
        <3> HIDE DEF t, new
        <3> QED  BY <3>1, <3>2 DEF Shelf
    <2> HIDE DEF new, t
    <2>13. Shelf(st) = {st.clips[j] : j \in DOMAIN st.clips}
        BY DEF Shelf
    <2>14. HeadOf(c, pts) \in Shelf(u)
        BY <2>9, <2>10
    <2>15. Shelf(st) \ {c} \subseteq Shelf(u)
        BY <2>1, <2>9, <2>10, <2>13
    <2>16. Shelf(u) \subseteq Shelf(st) \cup {HeadOf(c, pts)}
        BY <2>9, <2>10, <2>13
    <2>17. c \in Shelf(st) /\ st.nextId \in Nat
        BY <2>1, <2>10, <2>13, StoreParts
    <2> DEFINE h == HeadOf(c, pts)
               n == st.nextId
               tl == NewTail(c, pts, n)
    <2>18. /\ h \in Shelf(new) /\ tl \in Shelf(new) /\ Shelf(st) \ {c} \subseteq Shelf(new)
           /\ Shelf(new) \subseteq Shelf(st) \cup {h, tl}
        <3> HIDE DEF h, tl
        <3>1. /\ Shelf(new) = Shelf(u) \cup {tl} /\ h \in Shelf(u)
              /\ Shelf(u) \subseteq Shelf(st) \cup {h}
            BY <2>8, <2>12, <2>14, <2>16 DEF h, tl
        <3> QED  BY <3>1, <2>15
    <2>19. CutIn(st, new, pts)
        BY <2>3, <2>17, <2>18 DEF CutIn
    <2> QED  BY <2>19 DEF new
<1>2. CASE ~(id \in Ids(st) /\ ~(pts <= c.ptsIn \/ pts >= c.ptsOut))
    <2>1. SplitClip(st, id, pts) = Fail(st)
        BY <1>2 DEF SplitClip
    <2> QED  BY <2>1 DEF Fail
<1> QED  BY <1>1, <1>2

\* What is seen of one store at a time is seen of the other, up to a tick.
SeenIn(st, new, at) ==
    \A c \in Shelf(st) : Under(c, at) => \E d \in Shelf(new) : Alike(c, d, at)

LEMMA SameAlike ==
    ASSUME NEW T, NEW c \in Passed(T), NEW at \in Int, Under(c, at)  PROVE Alike(c, c, at)
<1> DEFINE o == at - c.ptsIn
           v == o * c.speed
<1>1. o \in Int /\ c.speed \in Nat \ {0} /\ c.sourceIn \in Nat
    BY ClipParts
<1> HIDE DEF o
<1>2. v \in Int
    BY <1>1
<1> HIDE DEF v
<1>3. RoundDiv(v, SpeedUnit) \in Int
    BY <1>2, SpeedUnitAssumption, Rounded
<1>4. View(c, at).sourcePts = RoundDiv(v, SpeedUnit) + c.sourceIn
    BY DEF View, SpeedScale, v, o
<1>5. View(c, at).sourcePts - View(c, at).sourcePts \in -1..1
    BY <1>1, <1>3, <1>4
<1> QED  BY <1>5 DEF Alike

\* Two cuts at the same time, of a clip and of another, are not seen: the
\* second never cuts what the first made.
LEMMA TwoCuts ==
    ASSUME NEW T, NEW st \in Stores(T), NEW one, NEW two, NEW pts \in Int,
           one = st \/ CutIn(st, one, pts), two = one \/ CutIn(one, two, pts),
           NEW at \in Int
    PROVE  SeenIn(st, two, at) /\ SeenIn(two, st, at)
<1>1. Shelf(st) \subseteq Passed(T)
    BY ShelfPassed
<1>2. CASE one = st /\ two = one
    BY <1>1, <1>2, SameAlike DEF SeenIn
<1>3. ASSUME NEW new, CutIn(st, new, pts)  PROVE SeenIn(st, new, at) /\ SeenIn(new, st, at)
    <2>1. PICK c \in Shelf(st), n \in Nat :
             /\ c.ptsIn < pts /\ pts < c.ptsOut
             /\ HeadOf(c, pts) \in Shelf(new) /\ NewTail(c, pts, n) \in Shelf(new)
             /\ Shelf(st) \ {c} \subseteq Shelf(new)
             /\ Shelf(new) \subseteq Shelf(st) \cup {HeadOf(c, pts), NewTail(c, pts, n)}
        BY <1>3 DEF CutIn
    <2> DEFINE h == HeadOf(c, pts)
               t == NewTail(c, pts, n)
    <2>2. /\ Under(c, at) => Alike(c, h, at) \/ Alike(c, t, at)
          /\ Under(h, at) => Alike(h, c, at)
          /\ Under(t, at) => Alike(t, c, at)
        BY <1>1, <2>1, SidesAlike
    <2> HIDE DEF h, t
    <2>3. SeenIn(st, new, at)
        BY <1>1, <2>1, <2>2, SameAlike DEF SeenIn, h, t
    <2>4. SeenIn(new, st, at)
        BY <1>1, <2>1, <2>2, SameAlike DEF SeenIn, h, t
    <2> QED  BY <2>3, <2>4
<1>4. CASE CutIn(st, one, pts) /\ CutIn(one, two, pts)
    <2>1. PICK c \in Shelf(st), n \in Nat :
             /\ c.ptsIn < pts /\ pts < c.ptsOut
             /\ HeadOf(c, pts) \in Shelf(one) /\ NewTail(c, pts, n) \in Shelf(one)
             /\ Shelf(st) \ {c} \subseteq Shelf(one)
             /\ Shelf(one) \subseteq Shelf(st) \cup {HeadOf(c, pts), NewTail(c, pts, n)}
        BY <1>4 DEF CutIn
    <2>2. PICK d \in Shelf(one), m \in Nat :
             /\ d.ptsIn < pts /\ pts < d.ptsOut
             /\ HeadOf(d, pts) \in Shelf(two) /\ NewTail(d, pts, m) \in Shelf(two)
             /\ Shelf(one) \ {d} \subseteq Shelf(two)
             /\ Shelf(two) \subseteq Shelf(one) \cup {HeadOf(d, pts), NewTail(d, pts, m)}
        BY <1>4 DEF CutIn
    <2> DEFINE h == HeadOf(c, pts)
               t == NewTail(c, pts, n)
               h2 == HeadOf(d, pts)
               t2 == NewTail(d, pts, m)
    <2>3. h.ptsOut = pts /\ t.ptsIn = pts
        BY <1>1, <2>1, HeadFields, TailFields
    <2>4. /\ Under(c, at) => Alike(c, h, at) \/ Alike(c, t, at)
          /\ Under(h, at) => Alike(h, c, at)
          /\ Under(t, at) => Alike(t, c, at)
        BY <1>1, <2>1, SidesAlike
    <2>5. d # h /\ d # t
        BY <2>2, <2>3
    <2>6. d \in Shelf(st)
        BY <2>1, <2>2, <2>5
    <2>7. /\ Under(d, at) => Alike(d, h2, at) \/ Alike(d, t2, at)
          /\ Under(h2, at) => Alike(h2, d, at)
          /\ Under(t2, at) => Alike(t2, d, at)
        BY <1>1, <2>2, <2>6, SidesAlike
    <2>8. /\ h \in Shelf(two) /\ t \in Shelf(two) /\ h2 \in Shelf(two) /\ t2 \in Shelf(two)
          /\ Shelf(st) \ {c, d} \subseteq Shelf(two)
          /\ Shelf(two) \subseteq Shelf(st) \cup {h, t, h2, t2}
        BY <2>1, <2>2, <2>5
    <2> HIDE DEF h, t, h2, t2
    <2>9. SeenIn(st, two, at)
        BY <1>1, <2>4, <2>7, <2>8, SameAlike DEF SeenIn
    <2>10. SeenIn(two, st, at)
        BY <1>1, <2>1, <2>4, <2>6, <2>7, <2>8, SameAlike DEF SeenIn
    <2> QED  BY <2>9, <2>10
<1> QED  BY <1>2, <1>3, <1>4

\* What a query returns is what is seen of the clips under its time.
LEMMA Queried ==
    ASSUME NEW st, NEW at
    PROVE  QueryActive(st, at) = {View(c, at) : c \in {x \in Shelf(st) : Under(x, at)}}
BY DEF QueryActive, View, Shelf, Under

LEMMA SeenSame ==
    ASSUME NEW st1, NEW st2, NEW at, SeenIn(st1, st2, at), SeenIn(st2, st1, at)
    PROVE  SamePlaying(st1, st2, at)
<1> DEFINE Covers(x, y) ==
              \A c \in QueryActive(x, at) : \E d \in QueryActive(y, at) :
                /\ c.track = d.track /\ c.src = d.src /\ c.look = d.look
                /\ c.sourcePts - d.sourcePts \in -1..1
<1>1. ASSUME NEW x, NEW y, SeenIn(x, y, at)  PROVE Covers(x, y)
    <2>1. TAKE v \in QueryActive(x, at)
    <2>2. PICK c \in Shelf(x) : Under(c, at) /\ v = View(c, at)
        BY Queried
    <2>3. PICK d \in Shelf(y) : Alike(c, d, at)
        BY <1>1, <2>2 DEF SeenIn
    <2>4. View(d, at) \in QueryActive(y, at)
        BY <2>3, Queried DEF Alike
    <2>5. /\ v.track = c.track /\ v.src = c.src /\ v.look = c.look
          /\ View(d, at).track = d.track /\ View(d, at).src = d.src /\ View(d, at).look = d.look
        BY <2>2 DEF View
    <2> QED  BY <2>2, <2>3, <2>4, <2>5 DEF Alike
<1>2. Covers(st1, st2) /\ Covers(st2, st1)
    BY <1>1
<1> QED  BY <1>2 DEF SamePlaying

\* A split, with its partner's: at no time is anything else seen.
LEMMA SplitSame ==
    ASSUME EInv, NEW id, NEW f \in Frames, Split(id, f), NEW at \in Int
    PROVE  SamePlaying(s, project'.store, at)
<1> DEFINE pts == Pts(f)
           partner == FindLinkedClip(s, tracks, id)
           Op(st, c) == SplitClip(st, c, pts)
           one == SplitClip(s, id, pts).s
           two == IF partner = -1 THEN one ELSE SplitClip(one, partner, pts).s
<1>1. s \in Stores(DOMAIN tracks) /\ pts \in Int
    BY SessionStore
<1>2. project'.store = two
    <2>1. Store(WithPartner(s, id, partner, Op))
        BY DEF Split
    <2>2. WithPartner(s, id, partner, Op) = two
        BY DEF WithPartner
    <2> HIDE DEF two
    <2>3. project' = [project EXCEPT !.store = two]
        BY <2>1, <2>2 DEF Store
    <2>4. project \in Projects
        BY SessionStore
    <2> QED  BY <2>3, <2>4 DEF Projects
<1> HIDE DEF pts, partner
<1>3. one \in Stores(DOMAIN tracks)
    BY <1>1, SplitKeeps DEF Results
<1>4. one = s \/ CutIn(s, one, pts)
    BY <1>1, SplitCuts
<1> HIDE DEF one
<1>5. two = one \/ CutIn(one, two, pts)
    BY <1>1, <1>3, SplitCuts
<1> HIDE DEF two
<1>6. SeenIn(s, two, at) /\ SeenIn(two, s, at)
    BY <1>1, <1>4, <1>5, TwoCuts
<1> QED  BY <1>2, <1>6, SeenSame

\* Only a split says that it is one.
LEMMA OnlySplits ==
    ASSUME Next, last' = "split"
    PROVE  \E id \in Ids(s), f \in Frames : Split(id, f)
<1>1. CASE Undo \/ Redo
    BY <1>1 DEF Undo, Redo, Command
<1>2. CASE \E f \in FrameTicks : ChangeSettings(f)
    BY <1>2 DEF ChangeSettings, Command
<1>3. CASE \E i \in 0..Len(s.clips) : Select(i)
    BY <1>3 DEF Select
<1>4. CASE \E t \in TrackIds : ToggleMute(t) \/ ToggleSolo(t)
    BY <1>4 DEF ToggleMute, ToggleSolo, TrackMutation, Command
<1>12. CASE \E t \in TrackIds, v \in Looks : ClickGain(t, v) \/ DoubleClickGain(t, v)
    BY <1>12 DEF ClickGain, DoubleClickGain, Command
<1>5. CASE \E kind \in {"video", "audio"} : AddTrack(kind)
    BY <1>5 DEF AddTrack, TrackMutation, Command
<1>6. CASE \E t \in TrackIds, src \in Sources, f \in Frames : DropMedia(t, src, f)
    BY <1>6 DEF DropMedia, Command
<1>7. CASE \E i \in DOMAIN s.clips, v \in Looks : DropEffect(i, v)
    BY <1>7 DEF DropEffect, Command
<1>8. CASE ClipCommand
    <2>1. PICK id \in Ids(s) : \/ \E ripple \in BOOLEAN : DeleteClip(id, ripple)
                              \/ Duplicate(id)
                              \/ \E f \in Frames : Split(id, f)
        BY <1>8 DEF ClipCommand
    <2>2. \A ripple \in BOOLEAN : ~DeleteClip(id, ripple)
        BY DEF DeleteClip, Command
    <2>3. ~Duplicate(id)
        BY DEF Duplicate, Command
    <2> QED  BY <2>1, <2>2, <2>3
<1>9. CASE (\E ripple \in BOOLEAN : DeleteKey(ripple)) \/ ViewportDelete
    BY <1>9 DEF DeleteKey, ViewportDelete, Command
<1>10. CASE InspectorCommand
    BY <1>10 DEF InspectorCommand, EditLook, ToggleKeyframe, RemoveKeyframe, SetSpeed, Command
<1>11. CASE Drag
    BY <1>11 DEF Drag, GrabClip, GrabTransform, GrabGain, StartGesture, DropClip, DropEdge,
                 DragTransform, DragGain, Release, Command
<1> QED  BY <1>1, <1>2, <1>3, <1>4, <1>5, <1>6, <1>7, <1>8, <1>9, <1>10, <1>11, <1>12
         DEF Next

\* At any time, after a cut, the same media play from the same place of their
\* source and with the same base look, whatever the clips, their speeds and the
\* time of the cut. Keyframes and fades are not part of the claim.
THEOREM SplitsPlayOn == Spec => SplitPlaysOn
<1>1. ASSUME EInv, Next, last' = "split", NEW at \in 0..EndOf(s)
      PROVE  SamePlaying(s, project'.store, at)
    <2>1. PICK id \in Ids(s), f \in Frames : Split(id, f)
        BY <1>1, OnlySplits
    <2>2. at \in Int
        BY <1>1
    <2> QED  BY <1>1, <2>1, <2>2, SplitSame
<1>2. EInv /\ [Next]_vars =>
        [last' = "split" => \A pts \in 0..EndOf(s) : SamePlaying(s, project'.store, pts)]_vars
    BY <1>1
<1> QED  BY <1>2, Invariant, PTL DEF Spec, SplitPlaysOn

-----------------------------------------------------------------------------
(* An insertion loses nothing *)

\* How many of the first n members of a sequence are in a set.
Tally(q, n, H) == Cardinality({i \in 1..n : q[i] \in H})
One(c, H) == IF c \in H THEN 1 ELSE 0
All(q, H) == Tally(q, Len(q), H)

\* A tally grows by one member at a time.
LEMMA TallyOne ==
    ASSUME NEW q, NEW n \in Nat, NEW H
    PROVE  /\ Tally(q, n, H) \in Nat /\ Tally(q, 0, H) = 0
           /\ Tally(q, n + 1, H) = Tally(q, n, H) + One(q[n + 1], H)
<1> DEFINE S(k) == {i \in 1..k : q[i] \in H}
<1>1. \A k \in Nat : IsFiniteSet(S(k)) /\ Cardinality(S(k)) \in Nat
    <2>1. ASSUME NEW k \in Nat  PROVE IsFiniteSet(S(k)) /\ Cardinality(S(k)) \in 0..k
        <3>1. S(k) \in SUBSET (1..k)
            OBVIOUS
        <3> HIDE DEF S
        <3> QED  BY <3>1, CountIn
    <2> HIDE DEF S
    <2> QED  BY <2>1
<1>2. Tally(q, 0, H) = 0
    <2>1. S(0) = {}
        OBVIOUS
    <2> QED  BY <2>1, FS_EmptySet DEF Tally
<1>3. Cardinality(S(n + 1)) = Cardinality(S(n)) + One(q[n + 1], H)
    <2>1. n + 1 \notin S(n)
        OBVIOUS
    <2>2. CASE q[n + 1] \in H
        <3>1. S(n + 1) = S(n) \cup {n + 1}
            BY <2>2
        <3> HIDE DEF S
        <3>2. Cardinality(S(n) \cup {n + 1}) = Cardinality(S(n)) + 1
            BY <1>1, <2>1, FS_AddElement
        <3> QED  BY <3>1, <3>2, <2>2 DEF One
    <2>3. CASE q[n + 1] \notin H
        <3>1. S(n + 1) = S(n)
            BY <2>3
        <3> HIDE DEF S
        <3> QED  BY <1>1, <3>1, <2>3 DEF One
    <2> QED  BY <2>2, <2>3
<1> QED  BY <1>1, <1>2, <1>3 DEF Tally

\* Sequences with the same members in the set, index by index.
LEMMA TallySame ==
    ASSUME NEW q, NEW r, NEW n \in Nat, NEW H, \A i \in 1..n : q[i] \in H <=> r[i] \in H
    PROVE  Tally(q, n, H) = Tally(r, n, H)
<1>1. {i \in 1..n : q[i] \in H} = {i \in 1..n : r[i] \in H}
    OBVIOUS
<1> QED  BY <1>1 DEF Tally

Likewise(q, a, r, b, n) == \A j \in 1..n : q[a + j] = r[b + j]
Ahead(q, a, r, b, d, H) == Tally(q, a, H) = Tally(r, b, H) + d

\* Past a point where they differ by d, two sequences that go on alike, each
\* from its own index, differ by d.
LEMMA TallyShifted ==
    ASSUME NEW q, NEW r, NEW a \in Nat, NEW b \in Nat, NEW d \in Int, NEW n \in Nat, NEW H,
           Ahead(q, a, r, b, d, H), Likewise(q, a, r, b, n)
    PROVE  Ahead(q, a + n, r, b + n, d, H)
<1> DEFINE Q == {k \in 0..n : Tally(q, a + k, H) = Tally(r, b + k, H) + d}
<1>1. 0 \in Q
    <2>1. a + 0 = a /\ b + 0 = b
        OBVIOUS
    <2> QED  BY <2>1 DEF Ahead
<1>2. ASSUME NEW k \in 1..n, k - 1 \in Q  PROVE k \in Q
    <2>1. /\ a + (k - 1) \in Nat /\ b + (k - 1) \in Nat
          /\ (a + (k - 1)) + 1 = a + k /\ (b + (k - 1)) + 1 = b + k
        OBVIOUS
    <2>2. /\ Tally(q, a + k, H) = Tally(q, a + (k - 1), H) + One(q[a + k], H)
          /\ Tally(q, a + (k - 1), H) \in Nat
        BY <2>1, TallyOne
    <2>3. /\ Tally(r, b + k, H) = Tally(r, b + (k - 1), H) + One(r[b + k], H)
          /\ Tally(r, b + (k - 1), H) \in Nat
        BY <2>1, TallyOne
    <2>4. Tally(q, a + (k - 1), H) = Tally(r, b + (k - 1), H) + d
        BY <1>2
    <2>5. One(q[a + k], H) = One(r[b + k], H) /\ One(r[b + k], H) \in Nat
        BY DEF One, Likewise
    <2>6. Tally(q, a + k, H) = Tally(r, b + k, H) + d
        BY <2>2, <2>3, <2>4, <2>5
    <2> QED  BY <2>6
<1>3. n \in Q
    <2> HIDE DEF Q
    <2>1. \A k \in 0..n : k \in Q
        BY <1>1, <1>2, Upto
    <2> QED  BY <2>1
<1> QED  BY <1>3 DEF Ahead

\* A concatenation, an insertion and a removal count what they should.
LEMMA AllConcat ==
    ASSUME NEW A, NEW q \in Seq(A), NEW r \in Seq(A), NEW H
    PROVE  All(q \o r, H) = All(q, H) + All(r, H) /\ All(q, H) \in Nat /\ All(r, H) \in Nat
<1> DEFINE c == q \o r
           m == Len(q)
           n == Len(r)
<1>1. /\ m \in Nat /\ n \in Nat /\ Len(c) = m + n
      /\ \A i \in 1..(m + n) : c[i] = IF i <= m THEN q[i] ELSE r[i - m]
    BY LenProperties, ConcatProperties
<1> HIDE DEF c, m, n
<1>2. Tally(c, m, H) = Tally(q, m, H)
    <2>1. \A i \in 1..m : c[i] = q[i]
        BY <1>1
    <2> QED  BY <1>1, <2>1, TallySame
<1>3. Tally(q, m, H) \in Nat /\ Tally(r, n, H) \in Nat /\ Tally(r, 0, H) = 0
    BY <1>1, TallyOne
<1>4. Likewise(c, m, r, 0, n)
    BY <1>1 DEF Likewise
<1>5. Ahead(c, m, r, 0, Tally(q, m, H), H)
    BY <1>2, <1>3 DEF Ahead
<1>6. Tally(q, m, H) \in Int /\ 0 \in Nat
    BY <1>3
<1>7. Ahead(c, m + n, r, 0 + n, Tally(q, m, H), H)
    BY <1>1, <1>4, <1>5, <1>6, TallyShifted
<1>8. 0 + n = n
    BY <1>1
<1> QED  BY <1>1, <1>3, <1>7, <1>8 DEF All, Ahead, c, m, n

LEMMA AllPut ==
    ASSUME NEW A, NEW q \in Seq(A), NEW k \in 0..Len(q), NEW e \in A, NEW H
    PROVE  All(InsertAt(q, k + 1, e), H) = All(q, H) + One(e, H)
<1> DEFINE r == InsertAt(q, k + 1, e)
<1>1. /\ Len(q) \in Nat /\ k \in Nat /\ Len(r) = Len(q) + 1
      /\ \A i \in 1..(Len(q) + 1) :
           r[i] = IF i <= k THEN q[i] ELSE IF i = k + 1 THEN e ELSE q[i - 1]
    <2>1. Len(q) \in Nat /\ k \in Nat
        BY LenProperties
    <2>2. Len(InsertAt(q, k + 1, e)) = Len(q) + 1
        BY PutIn, SMTT(30)
    <2>3. ASSUME NEW i \in 1..(Len(q) + 1)
          PROVE  InsertAt(q, k + 1, e)[i] = IF i <= k THEN q[i] ELSE IF i = k + 1 THEN e
                                            ELSE q[i - 1]
        BY PutIn, SMTT(30)
    <2> QED  BY <2>1, <2>2, <2>3
<1> HIDE DEF r
<1>2. Tally(r, k, H) = Tally(q, k, H)
    BY <1>1, TallySame
<1>3. r[k + 1] = e
    BY <1>1
<1>4. Ahead(r, k + 1, q, k, One(e, H), H)
    BY <1>1, <1>2, <1>3, TallyOne DEF Ahead
<1>5. ASSUME NEW j \in 1..(Len(q) - k)  PROVE r[(k + 1) + j] = q[k + j]
    <2>1. (k + 1) + j \in 1..(Len(q) + 1) /\ ((k + 1) + j) - 1 = k + j
          /\ ~((k + 1) + j <= k) /\ (k + 1) + j # k + 1
        BY <1>1
    <2> QED  BY <1>1, <2>1
<1>6. One(e, H) \in Int /\ k + 1 \in Nat /\ Len(q) - k \in Nat
      /\ (k + 1) + (Len(q) - k) = Len(q) + 1 /\ k + (Len(q) - k) = Len(q)
    BY <1>1 DEF One
<1>7. Ahead(r, (k + 1) + (Len(q) - k), q, k + (Len(q) - k), One(e, H), H)
    <2>1. Likewise(r, k + 1, q, k, Len(q) - k)
        BY <1>5 DEF Likewise
    <2> QED  BY <1>1, <1>4, <1>6, <2>1, TallyShifted
<1> QED  BY <1>1, <1>6, <1>7 DEF All, Ahead, r

LEMMA AllTake ==
    ASSUME NEW A, NEW q \in Seq(A), NEW k \in 1..Len(q), NEW H
    PROVE  All(RemoveAt(q, k), H) + One(q[k], H) = All(q, H)
<1> DEFINE r == RemoveAt(q, k)
<1>1. /\ Len(q) \in Nat /\ k \in Nat /\ Len(r) = Len(q) - 1
      /\ \A i \in 1..(Len(q) - 1) : r[i] = IF i < k THEN q[i] ELSE q[i + 1]
    BY LenProperties, TakeOut
<1> HIDE DEF r
<1>2. k - 1 \in Nat /\ (k - 1) + 1 = k /\ One(q[k], H) \in Int /\ Len(q) - k \in Nat
      /\ k + (Len(q) - k) = Len(q) /\ (k - 1) + (Len(q) - k) = Len(q) - 1
    BY <1>1 DEF One
<1>3. Tally(r, k - 1, H) = Tally(q, k - 1, H)
    <2>1. \A i \in 1..(k - 1) : r[i] = q[i]
        BY <1>1
    <2> QED  BY <1>2, <2>1, TallySame
<1>4. Ahead(q, k, r, k - 1, One(q[k], H), H)
    BY <1>2, <1>3, TallyOne DEF Ahead
<1>5. ASSUME NEW j \in 1..(Len(q) - k)  PROVE q[k + j] = r[(k - 1) + j]
    <2>1. (k - 1) + j \in 1..(Len(q) - 1) /\ ((k - 1) + j) + 1 = k + j /\ ~((k - 1) + j < k)
        BY <1>1
    <2> QED  BY <1>1, <2>1
<1>6. Ahead(q, k + (Len(q) - k), r, (k - 1) + (Len(q) - k), One(q[k], H), H)
    <2>1. Likewise(q, k, r, k - 1, Len(q) - k)
        BY <1>5 DEF Likewise
    <2> QED  BY <1>1, <1>2, <1>4, <2>1, TallyShifted
<1>7. All(q, H) = All(r, H) + One(q[k], H)
    BY <1>1, <1>2, <1>6 DEF All, Ahead
<1> QED  BY <1>7 DEF r

\* A set of clips that does not look at the id.
IdBlind(H, T) == \A c \in Passed(T), n \in Int : [c EXCEPT !.id = n] \in H <=> c \in H
IsValid(c) == c.ptsIn < c.ptsOut
AllValid(q) == \A i \in 1..Len(q) : IsValid(q[i])

\* An insertion into the store adds the clip, a removal takes it out.
LEMMA InsertHeld ==
    ASSUME NEW T, NEW st \in Stores(T), NEW p \in Passed(T), IsValid(p), NEW H, IdBlind(H, T)
    PROVE  All(InsertClip(st, p).s.clips, H) = All(st.clips, H) + One(p, H)
<1> DEFINE k == Cardinality({i \in DOMAIN st.clips : st.clips[i].ptsIn <= p.ptsIn})
           e == [p EXCEPT !.id = st.nextId]
           q == InsertAt(st.clips, k + 1, e)
<1>1. p.ptsIn \in Int /\ p.ptsOut \in Int /\ st.nextId \in Int
    BY StoreParts, ClipParts
<1>2. k \in 0..Len(st.clips)
    <2>1. \A i \in 1..Len(st.clips) : st.clips[i].ptsIn \in Int
        BY StoreParts, ClipParts
    <2> QED  BY <1>1, <2>1, StoreParts, Before
<1>3. e \in Passed(T)
    BY <1>1, PassedOn, Zenon
<1>4. InsertClip(st, p).s.clips = q
    <2>1. ~(p.ptsIn >= p.ptsOut)
        BY <1>1 DEF IsValid
    <2>2. InsertClip(st, p).s = [st EXCEPT !.clips = q, !.nextId = st.nextId + 1]
        BY <2>1 DEF InsertClip, Done
    <2> HIDE DEF q
    <2>3. [st EXCEPT !.clips = q, !.nextId = st.nextId + 1].clips = q
        BY DEF Stores, StoreType
    <2> QED  BY <2>2, <2>3
<1>5. One(e, H) = One(p, H)
    BY <1>1 DEF IdBlind, One
<1>6. All(q, H) = All(st.clips, H) + One(e, H)
    <2> HIDE DEF k, e
    <2> QED  BY <1>2, <1>3, StoreParts, AllPut
<1> QED  BY <1>4, <1>5, <1>6

LEMMA RemoveHeld ==
    ASSUME NEW T, NEW st \in Stores(T), NEW id \in Ids(st), NEW H
    PROVE  /\ All(RemoveClip(st, id).s.clips, H) + One(ClipOf(st, id), H) = All(st.clips, H)
           /\ Shelf(RemoveClip(st, id).s) \subseteq Shelf(st)
           /\ ClipOf(st, id) \in Shelf(st)
<1> DEFINE k == IndexOf(st, id)
           q == RemoveAt(st.clips, k)
<1>1. k \in 1..Len(st.clips) /\ ClipOf(st, id) = st.clips[k]
    BY FoundById
<1>2. RemoveClip(st, id).s.clips = q
    <2>1. RemoveClip(st, id).s = [st EXCEPT !.clips = q, !.keys = RemoveKeys(st.keys, id)]
        BY DEF RemoveClip, Done
    <2> HIDE DEF q
    <2>2. [st EXCEPT !.clips = q, !.keys = RemoveKeys(st.keys, id)].clips = q
        BY DEF Stores, StoreType
    <2> QED  BY <2>1, <2>2
<1> HIDE DEF k
<1>3. All(q, H) + One(st.clips[k], H) = All(st.clips, H)
    BY <1>1, StoreParts, AllTake
<1>4. /\ q \in Seq(Passed(T)) /\ Len(q) = Len(st.clips) - 1
      /\ \A i \in 1..(Len(st.clips) - 1) :
           q[i] = IF i < k THEN st.clips[i] ELSE st.clips[i + 1]
    BY <1>1, StoreParts, TakeOut
<1> HIDE DEF q
<1>5. Len(st.clips) \in Nat /\ DOMAIN st.clips = 1..Len(st.clips) /\ DOMAIN q = 1..Len(q)
    BY <1>4, StoreParts, LenProperties
<1>6. \A i \in DOMAIN q : \E j \in DOMAIN st.clips : q[i] = st.clips[j]
    <2>1. ASSUME NEW i \in DOMAIN q  PROVE \E j \in DOMAIN st.clips : q[i] = st.clips[j]
        <3>1. i \in 1..(Len(st.clips) - 1) /\ i \in 1..Len(st.clips) /\ i + 1 \in 1..Len(st.clips)
            BY <1>4, <1>5
        <3> QED  BY <1>4, <1>5, <3>1
    <2> QED  BY <2>1
<1>7. Shelf(RemoveClip(st, id).s) \subseteq Shelf(st)
    BY <1>2, <1>6 DEF Shelf
<1>8. ClipOf(st, id) \in Shelf(st)
    BY <1>1, <1>5 DEF Shelf
<1> QED  BY <1>1, <1>2, <1>3, <1>7, <1>8

\* A run of insertions that succeeds puts in each clip once.
LEMMA InsertAllHeld ==
    ASSUME NEW T, NEW r \in Results(T), NEW ps \in Seq(Passed(T)), NEW H, IdBlind(H, T),
           InsertAll(r, ps).ok
    PROVE  /\ r.ok /\ AllValid(ps)
           /\ All(InsertAll(r, ps).s.clips, H) = All(r.s.clips, H) + All(ps, H)
<1> DEFINE n == Len(ps)
           Held(x) == All(x.s.clips, H)
<1>1. n \in Nat /\ \A i \in 1..n : ps[i] \in Passed(T)
    BY LenProperties, ElementOfSeq
<1>2. PICK h \in [0..n -> Results(T)] : InsertRun(h, r, ps) /\ h[n] = InsertAll(r, ps)
    BY InsertAllRuns
<1> DEFINE Q == {k \in 0..n : h[k].ok =>
                    /\ r.ok /\ \A i \in 1..k : IsValid(ps[i])
                    /\ Held(h[k]) = Held(r) + Tally(ps, k, H)}
<1>3. \A x \in Results(T) : Held(x) \in Nat
    <2>1. ASSUME NEW x \in Results(T)  PROVE Held(x) \in Nat
        <3>1. x.s \in Stores(T)
            BY DEF Results
        <3>2. Len(x.s.clips) \in Nat
            BY <3>1, StoreParts
        <3> QED  BY <3>2, TallyOne DEF All
    <2> QED  BY <2>1
<1> HIDE DEF Held, n
<1>4. 0 \in Q
    <2>1. h[0] = r /\ Held(r) \in Nat
        BY <1>2, <1>3 DEF InsertRun
    <2>2. Tally(ps, 0, H) = 0
        BY TallyOne
    <2> QED  BY <1>1, <2>1, <2>2
<1>5. ASSUME NEW k \in 1..n, k - 1 \in Q  PROVE k \in Q
    <2> SUFFICES ASSUME h[k].ok
                 PROVE  /\ r.ok /\ \A i \in 1..k : IsValid(ps[i])
                        /\ Held(h[k]) = Held(r) + Tally(ps, k, H)
        BY <1>1
    <2>1. k - 1 \in Nat /\ (k - 1) + 1 = k /\ k - 1 \in 0..n
        BY <1>1
    <2>2. h[k] = IF h[k - 1].ok THEN InsertClip(h[k - 1].s, ps[k]) ELSE h[k - 1]
        BY <1>2 DEF InsertRun, n
    <2>3. h[k - 1] \in Results(T) /\ h[k - 1].s \in Stores(T) /\ ps[k] \in Passed(T)
        BY <1>1, <1>2, <2>1 DEF Results
    <2>4. h[k - 1].ok /\ h[k] = InsertClip(h[k - 1].s, ps[k])
        BY <2>2
    <2>5. IsValid(ps[k])
        BY <2>3, <2>4, InsertKeeps DEF IsValid
    <2>6. Held(h[k]) = Held(h[k - 1]) + One(ps[k], H)
        BY <2>3, <2>4, <2>5, InsertHeld DEF Held
    <2>7. /\ r.ok /\ \A i \in 1..(k - 1) : IsValid(ps[i])
          /\ Held(h[k - 1]) = Held(r) + Tally(ps, k - 1, H)
        BY <1>5, <2>4
    <2>8. Tally(ps, k, H) = Tally(ps, k - 1, H) + One(ps[k], H) /\ Tally(ps, k - 1, H) \in Nat
        BY <2>1, TallyOne
    <2>9. One(ps[k], H) \in Nat /\ Held(r) \in Nat
        BY <1>3 DEF One
    <2>10. Held(h[k]) = Held(r) + Tally(ps, k, H)
        BY <2>6, <2>7, <2>8, <2>9
    <2>11. \A i \in 1..k : i = k \/ i \in 1..(k - 1)
        BY <2>1
    <2> QED  BY <2>5, <2>7, <2>10, <2>11
<1>6. n \in Q
    <2> HIDE DEF Q
    <2>1. \A k \in 0..n : k \in Q
        BY <1>1, <1>4, <1>5, Upto
    <2> QED  BY <1>1, <2>1
<1> QED  BY <1>2, <1>6 DEF AllValid, Held, All, n

\* A run of removals by id that succeeds takes out each clip once.
LEMMA RemoveAllHeld ==
    ASSUME NEW T, NEW st \in Stores(T), NEW us \in Seq(Shelf(st)), NEW ids \in Seq(Int),
           Len(ids) = Len(us), \A i \in 1..Len(us) : ids[i] = us[i].id, NEW H,
           RemoveAll(Done(st, -1), ids).ok
    PROVE  All(RemoveAll(Done(st, -1), ids).s.clips, H) + All(us, H) = All(st.clips, H)
<1> DEFINE n == Len(ids)
           Held(x) == All(x.s.clips, H)
<1>1. n \in Nat /\ n = Len(us) /\ \A i \in 1..n : us[i] \in Shelf(st) /\ ids[i] = us[i].id
    BY LenProperties, ElementOfSeq
<1>2. Done(st, -1) \in Results(T) /\ Done(st, -1).s = st
    BY DEF Done, Results
<1>3. PICK h \in [0..n -> Results(T)] : /\ RemoveRun(h, Done(st, -1), ids)
                                        /\ h[n] = RemoveAll(Done(st, -1), ids)
    BY <1>2, RemoveAllRuns
<1> DEFINE Q == {k \in 0..n : h[k].ok =>
                    /\ Shelf(h[k].s) \subseteq Shelf(st)
                    /\ Held(h[k]) + Tally(us, k, H) = All(st.clips, H)}
<1>4. All(st.clips, H) \in Nat /\ \A x \in Results(T) : Held(x) \in Nat
    <2>1. ASSUME NEW y \in Stores(T)  PROVE All(y.clips, H) \in Nat
        <3>1. Len(y.clips) \in Nat
            BY StoreParts
        <3> QED  BY <3>1, TallyOne DEF All
    <2>2. \A x \in Results(T) : x.s \in Stores(T)
        BY DEF Results
    <2> QED  BY <2>1, <2>2
<1> HIDE DEF Held, n
<1>5. 0 \in Q
    <2>1. h[0].s = st /\ Held(h[0]) = All(st.clips, H)
        BY <1>2, <1>3 DEF RemoveRun, Held
    <2>2. Tally(us, 0, H) = 0
        BY TallyOne
    <2> QED  BY <1>1, <1>4, <2>1, <2>2
<1>6. ASSUME NEW k \in 1..n, k - 1 \in Q  PROVE k \in Q
    <2> SUFFICES ASSUME h[k].ok
                 PROVE  /\ Shelf(h[k].s) \subseteq Shelf(st)
                        /\ Held(h[k]) + Tally(us, k, H) = All(st.clips, H)
        BY <1>1
    <2>1. k - 1 \in Nat /\ (k - 1) + 1 = k /\ k - 1 \in 0..n
        BY <1>1
    <2> DEFINE old == h[k - 1].s
    <2>2. h[k] = IF h[k - 1].ok THEN RemoveClip(old, ids[k]) ELSE h[k - 1]
        BY <1>3 DEF RemoveRun, n
    <2>3. h[k - 1] \in Results(T) /\ old \in Stores(T)
        BY <1>3, <2>1 DEF Results
    <2>4. h[k - 1].ok /\ h[k] = RemoveClip(old, ids[k])
        BY <2>2
    <2>5. Shelf(old) \subseteq Shelf(st) /\ Held(h[k - 1]) + Tally(us, k - 1, H) = All(st.clips, H)
        BY <1>6, <2>4
    <2>6. Held(h[k - 1]) = All(old.clips, H) /\ Held(h[k]) = All(h[k].s.clips, H)
        BY DEF Held
    <2> HIDE DEF old
    <2>7. ids[k] \in Ids(old)
        BY <2>3, <2>4, RemoveKeeps
    <2>8. /\ All(h[k].s.clips, H) + One(ClipOf(old, ids[k]), H) = All(old.clips, H)
          /\ Shelf(h[k].s) \subseteq Shelf(old) /\ ClipOf(old, ids[k]) \in Shelf(old)
        BY <2>3, <2>4, <2>7, RemoveHeld
    <2>9. ClipOf(old, ids[k]).id = ids[k]
        BY <2>3, <2>7, FoundById
    <2>10. ClipOf(old, ids[k]) = us[k]
        <3>1. PICK i \in DOMAIN st.clips : st.clips[i] = ClipOf(old, ids[k])
            BY <2>5, <2>8 DEF Shelf
        <3>2. PICK j \in DOMAIN st.clips : st.clips[j] = us[k]
            BY <1>1 DEF Shelf
        <3>3. st.clips[i].id = st.clips[j].id
            BY <1>1, <2>9, <3>1, <3>2
        <3>4. i = j
            BY <3>3, StoreParts
        <3> QED  BY <3>1, <3>2, <3>4
    <2>11. Tally(us, k, H) = Tally(us, k - 1, H) + One(us[k], H) /\ Tally(us, k - 1, H) \in Nat
        BY <2>1, TallyOne
    <2>12. Held(h[k]) \in Nat /\ One(us[k], H) \in Nat /\ Held(h[k - 1]) \in Nat
        <3>1. h[k] \in Results(T)
            BY <1>3
        <3> QED  BY <1>4, <2>3, <3>1 DEF One
    <2>13. Held(h[k]) + One(us[k], H) = Held(h[k - 1])
        BY <2>6, <2>8, <2>10
    <2>14. Held(h[k]) + Tally(us, k, H) = All(st.clips, H)
        BY <2>5, <2>11, <2>12, <2>13, <1>4
    <2> QED  BY <2>5, <2>8, <2>14
<1>7. n \in Q
    <2> HIDE DEF Q
    <2>1. \A k \in 0..n : k \in Q
        BY <1>1, <1>5, <1>6, Upto
    <2> QED  BY <1>1, <2>1
<1>8. Held(h[n]) + Tally(us, n, H) = All(st.clips, H)
    BY <1>3, <1>7
<1> QED  BY <1>1, <1>3, <1>8 DEF Held, All

\* Sorting keeps each clip.
LEMMA SortedHeld ==
    ASSUME NEW A, NEW ps \in Seq(A), NEW H
    PROVE  All(ByStart(ps), H) = All(ps, H)
<1> DEFINE n == Len(ps)
<1>1. n \in Nat /\ \A i \in 1..n : ps[i] \in A
    BY LenProperties, ElementOfSeq
<1>2. PICK h \in [0..n -> Seq(A)] : SortRun(h, ps) /\ h[n] = ByStart(ps)
    BY ByStartRuns
<1> HIDE DEF n
<1> DEFINE Q == {k \in 0..n : All(h[k], H) = Tally(ps, k, H)}
<1>3. 0 \in Q
    <2>1. h[0] = <<>> /\ Len(<<>>) = 0
        BY <1>2 DEF SortRun
    <2>2. Tally(<<>>, 0, H) = 0 /\ Tally(ps, 0, H) = 0
        BY TallyOne
    <2> QED  BY <1>1, <2>1, <2>2 DEF All
<1>4. ASSUME NEW k \in 1..n, k - 1 \in Q  PROVE k \in Q
    <2>1. k - 1 \in Nat /\ (k - 1) + 1 = k /\ k - 1 \in 0..n
        BY <1>1
    <2> DEFINE acc == h[k - 1]
               early == {i \in DOMAIN acc : acc[i].ptsIn <= ps[k].ptsIn}
    <2>2. h[k] = Placed(acc, ps[k]) /\ acc \in Seq(A) /\ ps[k] \in A
        BY <1>1, <1>2, <2>1 DEF SortRun, n
    <2>3. Placed(acc, ps[k]) = InsertAt(acc, Cardinality(early) + 1, ps[k])
        BY DEF Placed
    <2>4. Cardinality(early) \in 0..Len(acc)
        <3>1. Len(acc) \in Nat /\ early \in SUBSET (1..Len(acc))
            BY <2>2, LenProperties
        <3> HIDE DEF early
        <3> QED  BY <3>1, CountIn
    <2>5. All(acc, H) = Tally(ps, k - 1, H)
        BY <1>4
    <2> HIDE DEF early, acc
    <2>6. All(h[k], H) = All(acc, H) + One(ps[k], H)
        BY <2>2, <2>3, <2>4, AllPut
    <2>7. Tally(ps, k, H) = Tally(ps, k - 1, H) + One(ps[k], H)
        BY <2>1, TallyOne
    <2> QED  BY <1>1, <2>5, <2>6, <2>7
<1>5. n \in Q
    <2> HIDE DEF Q
    <2>1. \A k \in 0..n : k \in Q
        BY <1>1, <1>3, <1>4, Upto
    <2> QED  BY <1>1, <2>1
<1> QED  BY <1>2, <1>5 DEF All, n

\* The clips of a track that show a tick of a source.
Hits(T, u, src, tick) ==
    {c \in Passed(T) : /\ c.track = u /\ c.src = src
                       /\ c.sourceIn <= tick /\ tick < c.sourceIn + Duration(c)}

\* The two halves of a cut share out what the clip shows.
LEMMA HalvesHit ==
    ASSUME NEW T, NEW C \in SUBSET Passed(T), NEW at \in Int, NEW m \in Cuts(C, at),
           AllValid(Halves(m, at)), NEW u, NEW src, NEW tick \in Int
    PROVE  All(Halves(m, at), Hits(T, u, src, tick)) = One(m.clip, Hits(T, u, src, tick))
<1> DEFINE c == m.clip
           H == Hits(T, u, src, tick)
           head == [c EXCEPT !.ptsOut = at, !.fadeOut = 0]
           rest == [c EXCEPT !.ptsIn = m.to, !.ptsOut = m.to + (c.ptsOut - at),
                             !.sourceIn = @ + (at - c.ptsIn), !.fadeIn = 0]
<1>1. c \in Passed(T) /\ m.to \in Int /\ Halves(m, at) = <<head, rest>>
    BY DEF Cuts, Early, Halves
<1> HIDE DEF c
<1>2. c.ptsIn \in Int /\ c.ptsOut \in Int /\ c.sourceIn \in Nat
    BY <1>1, ClipParts
<1>3. /\ head.track = c.track /\ head.src = c.src /\ head.sourceIn = c.sourceIn
      /\ head.ptsIn = c.ptsIn /\ head.ptsOut = at
      /\ rest.track = c.track /\ rest.src = c.src
      /\ rest.sourceIn = c.sourceIn + (at - c.ptsIn)
      /\ rest.ptsIn = m.to /\ rest.ptsOut = m.to + (c.ptsOut - at)
    BY <1>1 DEF Passed, ClipType
<1>4. head \in Passed(T) /\ rest \in Passed(T)
    <2>1. Halves(m, at) \in Seq(Passed(T))
        BY HalvesPassed
    <2> HIDE DEF head, rest
    <2> QED  BY <1>1, <2>1
<1> HIDE DEF head, rest
<1>5. IsValid(head) /\ IsValid(rest)
    BY <1>1 DEF AllValid
<1>6. c.ptsIn < at /\ at < c.ptsOut
    BY <1>1, <1>2, <1>3, <1>5 DEF IsValid
<1>7. /\ Duration(head) = at - c.ptsIn /\ Duration(rest) = c.ptsOut - at
      /\ Duration(c) = c.ptsOut - c.ptsIn
    BY <1>1, <1>2, <1>3 DEF Duration
<1> DEFINE Seen(x) == x.sourceIn <= tick /\ tick < x.sourceIn + Duration(x)
<1>8. /\ Seen(c) <=> Seen(head) \/ Seen(rest)
      /\ ~(Seen(head) /\ Seen(rest))
    BY <1>2, <1>3, <1>6, <1>7
<1>9. /\ c \in H <=> c.track = u /\ c.src = src /\ Seen(c)
      /\ head \in H <=> c.track = u /\ c.src = src /\ Seen(head)
      /\ rest \in H <=> c.track = u /\ c.src = src /\ Seen(rest)
    BY <1>1, <1>3, <1>4 DEF Hits
<1> HIDE DEF H, Seen
<1>10. One(c, H) = One(head, H) + One(rest, H)
    BY <1>8, <1>9 DEF One
<1>11. All(<<head, rest>>, H) = One(head, H) + One(rest, H)
    <2> DEFINE q == <<head, rest>>
    <2>1. Len(q) = 2 /\ q[0 + 1] = head /\ q[1 + 1] = rest
        OBVIOUS
    <2> HIDE DEF q
    <2>2. Tally(q, 0, H) = 0 /\ Tally(q, 0 + 1, H) = Tally(q, 0, H) + One(q[0 + 1], H)
        BY TallyOne
    <2>3. Tally(q, 1 + 1, H) = Tally(q, 1, H) + One(q[1 + 1], H)
        BY TallyOne
    <2>4. One(head, H) \in Nat /\ One(rest, H) \in Nat
        BY DEF One
    <2>5. Tally(q, 2, H) = One(head, H) + One(rest, H)
        BY <2>1, <2>2, <2>3, <2>4
    <2> QED  BY <2>1, <2>5 DEF All, q
<1> QED  BY <1>1, <1>10, <1>11 DEF c, H

\* So do the halves of all that are cut.
LEMMA AllHalvesHit ==
    ASSUME NEW T, NEW C \in SUBSET Passed(T), NEW at \in Int, NEW cut \in Seq(Cuts(C, at)),
           AllValid(AllHalves(cut, at)), NEW u, NEW src, NEW tick \in Int
    PROVE  All(AllHalves(cut, at), Hits(T, u, src, tick))
             = Tally(Clips(cut), Len(cut), Hits(T, u, src, tick))
<1> DEFINE n == Len(cut)
           H == Hits(T, u, src, tick)
<1>1. n \in Nat /\ DOMAIN cut = 1..n /\ \A i \in 1..n : cut[i] \in Cuts(C, at)
    BY LenProperties, ElementOfSeq
<1>2. PICK h \in [0..n -> Seq(Passed(T))] : /\ HalvesRun(h, at, cut)
                                            /\ h[n] = AllHalves(cut, at)
    BY HalvesRuns
<1> HIDE DEF n
<1> DEFINE Q == {k \in 0..n : AllValid(h[k]) => All(h[k], H) = Tally(Clips(cut), k, H)}
<1>3. 0 \in Q
    <2>1. h[0] = <<>> /\ Len(<<>>) = 0
        BY <1>2 DEF HalvesRun
    <2>2. Tally(<<>>, 0, H) = 0 /\ Tally(Clips(cut), 0, H) = 0
        BY TallyOne
    <2> HIDE DEF H
    <2> QED  BY <1>1, <2>1, <2>2 DEF All
<1>4. ASSUME NEW k \in 1..n, k - 1 \in Q  PROVE k \in Q
    <2> SUFFICES ASSUME AllValid(h[k])  PROVE All(h[k], H) = Tally(Clips(cut), k, H)
        BY <1>1
    <2>1. k - 1 \in Nat /\ (k - 1) + 1 = k /\ k - 1 \in 0..n
        BY <1>1
    <2> DEFINE acc == h[k - 1]
               two == Halves(cut[k], at)
    <2>2. h[k] = acc \o two /\ acc \in Seq(Passed(T)) /\ cut[k] \in Cuts(C, at)
        BY <1>1, <1>2, <2>1 DEF HalvesRun, n
    <2>3. AllValid(acc) => All(acc, H) = Tally(Clips(cut), k - 1, H)
        BY <1>4
    <2>4. two \in Seq(Passed(T))
        BY <2>2, HalvesPassed
    <2>5. AllValid(two) => All(two, H) = One(cut[k].clip, H)
        BY <2>2, HalvesHit
    <2> HIDE DEF acc, two, H
    <2>6. AllValid(acc) /\ AllValid(two)
        <3>1. /\ Len(acc) \in Nat /\ Len(two) \in Nat /\ Len(h[k]) = Len(acc) + Len(two)
              /\ \A i \in 1..(Len(acc) + Len(two)) :
                   h[k][i] = IF i <= Len(acc) THEN acc[i] ELSE two[i - Len(acc)]
            BY <2>2, <2>4, LenProperties, ConcatProperties
        <3>2. ASSUME NEW i \in 1..Len(acc)  PROVE IsValid(acc[i])
            <4>1. i \in 1..Len(h[k]) /\ h[k][i] = acc[i]
                BY <3>1
            <4> QED  BY <4>1 DEF AllValid
        <3>3. ASSUME NEW i \in 1..Len(two)  PROVE IsValid(two[i])
            <4>1. Len(acc) + i \in 1..Len(h[k]) /\ h[k][Len(acc) + i] = two[i]
                BY <3>1
            <4> QED  BY <4>1 DEF AllValid
        <3> QED  BY <3>2, <3>3 DEF AllValid
    <2>7. All(h[k], H) = All(acc, H) + All(two, H)
        BY <2>2, <2>4, AllConcat
    <2>8. Tally(Clips(cut), k, H) = Tally(Clips(cut), k - 1, H) + One(Clips(cut)[k], H)
        BY <2>1, TallyOne
    <2>9. Clips(cut)[k] = cut[k].clip
        BY <1>1 DEF Clips
    <2> QED  BY <2>3, <2>5, <2>6, <2>7, <2>8, <2>9
<1>5. n \in Q
    <2> HIDE DEF Q
    <2>1. \A k \in 0..n : k \in Q
        BY <1>1, <1>3, <1>4, Upto
    <2> QED  BY <1>1, <2>1
<1> QED  BY <1>2, <1>5 DEF n

\* An id does not change which ticks a clip shows.
LEMMA HitsBlind ==
    ASSUME NEW T, NEW u, NEW src, NEW tick
    PROVE  IdBlind(Hits(T, u, src, tick), T)
<1> SUFFICES ASSUME NEW c \in Passed(T), NEW n \in Int
             PROVE  [c EXCEPT !.id = n] \in Hits(T, u, src, tick) <=> c \in Hits(T, u, src, tick)
    BY DEF IdBlind
<1> DEFINE d == [c EXCEPT !.id = n]
<1>1. d \in Passed(T)
    BY PassedOn, Zenon
<1>2. /\ d.track = c.track /\ d.src = c.src /\ d.sourceIn = c.sourceIn
      /\ d.ptsIn = c.ptsIn /\ d.ptsOut = c.ptsOut
    BY DEF Passed, ClipType
<1> HIDE DEF d
<1>3. Duration(d) = Duration(c)
    BY <1>2 DEF Duration
<1>4. d \in Hits(T, u, src, tick) <=> c \in Hits(T, u, src, tick)
    BY <1>1, <1>2, <1>3 DEF Hits
<1> QED  BY <1>4 DEF d

\* A clip that moves shows the same ticks.
LEMMA ShiftedHit ==
    ASSUME NEW T, NEW c \in Passed(T), NEW by \in Int, NEW u, NEW src, NEW tick
    PROVE  MoveBy(c, by) \in Hits(T, u, src, tick) <=> c \in Hits(T, u, src, tick)
<1> DEFINE d == MoveBy(c, by)
<1>1. d \in Passed(T)
    BY Moved
<1>2. /\ d.track = c.track /\ d.src = c.src /\ d.sourceIn = c.sourceIn
      /\ d.ptsIn = c.ptsIn + by /\ d.ptsOut = c.ptsOut + by
    BY DEF MoveBy, Passed, ClipType
<1> HIDE DEF d
<1>3. Duration(d) = Duration(c)
    <2>1. c.ptsIn \in Int /\ c.ptsOut \in Int
        BY ClipParts
    <2> QED  BY <1>2, <2>1 DEF Duration
<1>4. d \in Hits(T, u, src, tick) <=> c \in Hits(T, u, src, tick)
    BY <1>1, <1>2, <1>3 DEF Hits
<1> QED  BY <1>4 DEF d


\* A sequence of one.
LEMMA AllOne ==
    ASSUME NEW c, NEW H
    PROVE  All(<<c>>, H) = One(c, H)
<1> DEFINE q == <<c>>
<1>1. Len(q) = 1 /\ q[0 + 1] = c
    OBVIOUS
<1> HIDE DEF q
<1>2. Tally(q, 0, H) = 0 /\ Tally(q, 0 + 1, H) = Tally(q, 0, H) + One(q[0 + 1], H)
    BY TallyOne
<1>3. One(c, H) \in Nat
    BY DEF One
<1>4. Tally(q, 1, H) = One(c, H)
    BY <1>1, <1>2, <1>3
<1> QED  BY <1>1, <1>4 DEF All, q

\* An insertion that succeeds took out the clips it cuts and pushes, and put back
\* as much of what they show, and the new clip.
LEMMA RippleHeld ==
    ASSUME NEW T, NEW st \in Stores(T), NEW p \in Passed(T), NEW cut, NEW push,
           IsRipple(st, p, cut, push), InsertClipRipple(st, p).ok,
           NEW u, NEW src, NEW tick \in Int
    PROVE  All(InsertClipRipple(st, p).s.clips, Hits(T, u, src, tick))
             = All(st.clips, Hits(T, u, src, tick)) + One(p, Hits(T, u, src, tick))
<1> DEFINE H == Hits(T, u, src, tick)
           ids == TakenIds(cut) \o TakenIds(push)
           us == Clips(cut) \o Clips(push)
           r == RemoveAll(Done(st, -1), ids)
           new == Arranged(p, cut, push)
           halves == AllHalves(cut, p.ptsIn)
           moved == Shifted(push)
<1>1. /\ Clips(cut) \in Seq(Shelf(st)) /\ Clips(push) \in Seq(Shelf(st))
      /\ Len(Clips(cut)) = Len(cut) /\ Len(Clips(push)) = Len(push)
      /\ TakenIds(cut) \in Seq(Int) /\ TakenIds(push) \in Seq(Int)
      /\ Len(TakenIds(cut)) = Len(cut) /\ Len(TakenIds(push)) = Len(push)
      /\ \A n \in 1..Len(cut) : TakenIds(cut)[n] = Clips(cut)[n].id
      /\ \A n \in 1..Len(push) : TakenIds(push)[n] = Clips(push)[n].id
    BY RippleTypes
<1>2. /\ halves \in Seq(Passed(T)) /\ new \in Seq(Passed(T))
      /\ moved \in Seq(Passed(T)) /\ Len(moved) = Len(push) /\ ByStart(moved) \in Seq(Passed(T))
    BY RippleTypes
<1>3. /\ InsertClipRipple(st, p) = InsertAll(r, new)
      /\ cut \in Seq(Cuts(Shelf(st), p.ptsIn)) /\ push \in Seq(Pushes(Shelf(st)))
    BY DEF IsRipple
<1>4. new = (halves \o ByStart(moved)) \o <<p>>
    BY DEF Arranged
<1>5. /\ Len(cut) \in Nat /\ Len(push) \in Nat
      /\ ids \in Seq(Int) /\ Len(ids) = Len(cut) + Len(push)
      /\ \A n \in 1..(Len(cut) + Len(push)) :
           ids[n] = IF n <= Len(cut) THEN TakenIds(cut)[n] ELSE TakenIds(push)[n - Len(cut)]
    <2>1. Len(cut) \in Nat /\ Len(push) \in Nat
        BY <1>3, LenProperties
    <2> DEFINE a == TakenIds(cut)
               b == TakenIds(push)
    <2>2. /\ a \in Seq(Int) /\ b \in Seq(Int) /\ Len(a) = Len(cut) /\ Len(b) = Len(push)
          /\ ids = a \o b
        BY <1>1
    <2> HIDE DEF a, b, ids
    <2>3. /\ ids \in Seq(Int) /\ Len(ids) = Len(a) + Len(b)
          /\ \A n \in 1..(Len(a) + Len(b)) : ids[n] = IF n <= Len(a) THEN a[n] ELSE b[n - Len(a)]
        BY <2>2, ConcatProperties, ZenonT(30)
    <2>4. ids \in Seq(Int) /\ Len(ids) = Len(cut) + Len(push)
        BY <2>2, <2>3
    <2>5. \A n \in 1..(Len(cut) + Len(push)) :
             ids[n] = IF n <= Len(cut) THEN a[n] ELSE b[n - Len(cut)]
        BY <2>2, <2>3
    <2> QED  BY <2>1, <2>4, <2>5 DEF a, b
<1>6. /\ us \in Seq(Shelf(st)) /\ Len(us) = Len(cut) + Len(push)
      /\ \A n \in 1..(Len(cut) + Len(push)) :
           us[n] = IF n <= Len(cut) THEN Clips(cut)[n] ELSE Clips(push)[n - Len(cut)]
    <2> DEFINE a == Clips(cut)
               b == Clips(push)
    <2>1. /\ a \in Seq(Shelf(st)) /\ b \in Seq(Shelf(st))
          /\ Len(a) = Len(cut) /\ Len(b) = Len(push) /\ us = a \o b
        BY <1>1
    <2> HIDE DEF a, b, us
    <2>2. /\ us \in Seq(Shelf(st)) /\ Len(us) = Len(a) + Len(b)
          /\ \A n \in 1..(Len(a) + Len(b)) : us[n] = IF n <= Len(a) THEN a[n] ELSE b[n - Len(a)]
        BY <2>1, ConcatProperties, ZenonT(30)
    <2>3. us \in Seq(Shelf(st)) /\ Len(us) = Len(cut) + Len(push)
        BY <2>1, <2>2
    <2>4. \A n \in 1..(Len(cut) + Len(push)) :
             us[n] = IF n <= Len(cut) THEN a[n] ELSE b[n - Len(cut)]
        BY <2>1, <2>2
    <2> QED  BY <2>3, <2>4 DEF a, b
<1> HIDE DEF ids, us
<1>7. Len(ids) = Len(us) /\ \A n \in 1..Len(us) : ids[n] = us[n].id
    <2>1. ASSUME NEW n \in 1..(Len(cut) + Len(push))  PROVE ids[n] = us[n].id
        <3>1. CASE n <= Len(cut)
            <4>1. n \in 1..Len(cut)
                BY <1>5, <3>1
            <4> QED  BY <1>1, <1>5, <1>6, <3>1, <4>1
        <3>2. CASE ~(n <= Len(cut))
            <4>1. n - Len(cut) \in 1..Len(push)
                BY <1>5, <3>2
            <4> QED  BY <1>1, <1>5, <1>6, <3>2, <4>1
        <3> QED  BY <3>1, <3>2
    <2> QED  BY <1>5, <1>6, <2>1
<1>8. r \in Results(T) /\ r.s \in Stores(T)
    <2>1. Done(st, -1) \in Results(T)
        BY DEF Done, Results
    <2>2. r \in Results(T)
        BY <1>5, <2>1, RemoveAllKeeps
    <2> QED  BY <2>2 DEF Results
<1> HIDE DEF new, halves, moved
<1>9. IdBlind(H, T)
    BY HitsBlind
<1>10. r.ok /\ AllValid(new) /\ All(InsertAll(r, new).s.clips, H) = All(r.s.clips, H) + All(new, H)
    <2> HIDE DEF r, H
    <2> QED  BY <1>2, <1>3, <1>8, <1>9, InsertAllHeld
<1>11. All(r.s.clips, H) + All(us, H) = All(st.clips, H)
    <2> HIDE DEF H
    <2> QED  BY <1>5, <1>6, <1>7, <1>10, RemoveAllHeld
<1> HIDE DEF r
<1>12. All(us, H) = All(Clips(cut), H) + All(Clips(push), H)
       /\ All(Clips(cut), H) \in Nat /\ All(Clips(push), H) \in Nat
    <2> HIDE DEF H
    <2> QED  BY <1>1, AllConcat DEF us
<1>13. /\ All(new, H) = All(halves \o ByStart(moved), H) + All(<<p>>, H)
       /\ All(halves \o ByStart(moved), H) = All(halves, H) + All(ByStart(moved), H)
       /\ All(halves, H) \in Nat /\ All(ByStart(moved), H) \in Nat /\ All(<<p>>, H) \in Nat
    <2> HIDE DEF H
    <2>1. halves \o ByStart(moved) \in Seq(Passed(T)) /\ <<p>> \in Seq(Passed(T))
        BY <1>2, ConcatProperties
    <2>2. All((halves \o ByStart(moved)) \o <<p>>, H)
            = All(halves \o ByStart(moved), H) + All(<<p>>, H) /\ All(<<p>>, H) \in Nat
        BY <2>1, AllConcat
    <2>3. /\ All(halves \o ByStart(moved), H) = All(halves, H) + All(ByStart(moved), H)
          /\ All(halves, H) \in Nat /\ All(ByStart(moved), H) \in Nat
        BY <1>2, AllConcat
    <2> QED  BY <1>4, <2>2, <2>3
<1>14. AllValid(halves)
    <2> DEFINE rest == ByStart(moved) \o <<p>>
    <2>1. <<p>> \in Seq(Passed(T))
        OBVIOUS
    <2>2. new = halves \o rest /\ rest \in Seq(Passed(T))
        BY <1>2, <1>4, <2>1, ConcatAssociative, ConcatProperties
    <2> HIDE DEF rest
    <2>3. /\ Len(halves) \in Nat /\ Len(rest) \in Nat /\ Len(new) = Len(halves) + Len(rest)
          /\ \A i \in 1..(Len(halves) + Len(rest)) :
               new[i] = IF i <= Len(halves) THEN halves[i] ELSE rest[i - Len(halves)]
        BY <1>2, <2>2, LenProperties, ConcatProperties
    <2>4. ASSUME NEW i \in 1..Len(halves)  PROVE IsValid(halves[i])
        <3>1. i \in 1..Len(new) /\ new[i] = halves[i]
            BY <2>3
        <3> QED  BY <1>10, <3>1 DEF AllValid
    <2> QED  BY <2>4 DEF AllValid
<1>15. All(halves, H) = All(Clips(cut), H)
    <2>1. Shelf(st) \in SUBSET Passed(T) /\ p.ptsIn \in Int
        BY ShelfPassed, ClipParts
    <2>2. All(halves, H) = Tally(Clips(cut), Len(cut), H)
        BY <1>3, <1>14, <2>1, AllHalvesHit DEF halves
    <2> QED  BY <1>1, <2>2 DEF All
<1>16. All(ByStart(moved), H) = All(Clips(push), H)
    <2>1. All(ByStart(moved), H) = All(moved, H)
        <3> HIDE DEF H
        <3> QED  BY <1>2, SortedHeld
    <2>2. ASSUME NEW n \in 1..Len(push)  PROVE moved[n] \in H <=> Clips(push)[n] \in H
        <3>1. push[n].clip \in Passed(T) /\ push[n].by \in Int
            <4>1. push[n] \in Pushes(Shelf(st))
                BY <1>3, ElementOfSeq
            <4> QED  BY <4>1, ShelfPassed DEF Pushes
        <3>2. n \in DOMAIN push
            BY <1>3, LenProperties
        <3>3. moved[n] = MoveBy(push[n].clip, push[n].by) /\ Clips(push)[n] = push[n].clip
            BY <3>2 DEF moved, Shifted, Clips
        <3>4. MoveBy(push[n].clip, push[n].by) \in H <=> push[n].clip \in H
            BY <3>1, ShiftedHit
        <3> QED  BY <3>3, <3>4
    <2> HIDE DEF H
    <2>3. Tally(moved, Len(push), H) = Tally(Clips(push), Len(push), H)
        BY <1>5, <2>2, TallySame
    <2> QED  BY <1>1, <1>2, <2>1, <2>3 DEF All
<1>17. All(<<p>>, H) = One(p, H)
    BY AllOne
<1> HIDE DEF H
<1>18. All(r.s.clips, H) \in Nat /\ All(st.clips, H) \in Nat
    <2>1. Len(st.clips) \in Nat /\ Len(r.s.clips) \in Nat
        BY <1>8, StoreParts
    <2> QED  BY <2>1, TallyOne DEF All
<1>19. All(InsertAll(r, new).s.clips, H) = All(st.clips, H) + One(p, H)
    BY <1>10, <1>11, <1>12, <1>13, <1>15, <1>16, <1>17, <1>18
<1> QED  BY <1>3, <1>19 DEF H, r


\* New layers change nothing of what the clips show.
LEMMA ReindexedHeld ==
    ASSUME NEW T, NEW r \in Results(T), NEW t \in Nat, NEW u, NEW src, NEW tick
    PROVE  All(Reindexed(r, t).s.clips, Hits(T, u, src, tick))
             = All(r.s.clips, Hits(T, u, src, tick))
<1> DEFINE st == r.s
           H == Hits(T, u, src, tick)
           Layer(i) == <<t, Cardinality({j \in 1..(i - 1) : st.clips[j].track = t})>>
           q == [i \in DOMAIN st.clips |->
                    IF st.clips[i].track # t THEN st.clips[i]
                    ELSE [st.clips[i] EXCEPT !.layer = Layer(i)]]
           new == [st EXCEPT !.clips = q]
<1>1. st \in Stores(T)
    BY DEF Results
<1>2. ReindexTrackLayerOrder(st, t) = new
    BY DEF ReindexTrackLayerOrder
<1>3. Reindexed(r, t) = IF r.ok THEN [r EXCEPT !.s = new] ELSE r
    <2>1. Reindexed(r, t) = IF r.ok THEN [r EXCEPT !.s = ReindexTrackLayerOrder(r.s, t)] ELSE r
        BY DEF Reindexed
    <2> HIDE DEF new
    <2> QED  BY <1>2, <2>1 DEF st
<1>4. DOMAIN st.clips = 1..Len(st.clips) /\ Len(st.clips) \in Nat
    BY <1>1, StoreParts
<1> HIDE DEF st
<1>5. new.clips = q
    <2> HIDE DEF q
    <2> QED  BY <1>1 DEF Stores, StoreType
<1>6. ASSUME NEW i \in 1..Len(st.clips)  PROVE q[i] \in H <=> st.clips[i] \in H
    <2> DEFINE c == st.clips[i]
               d == [c EXCEPT !.layer = Layer(i)]
    <2>1. c \in Passed(T)
        BY <1>1, StoreParts
    <2>2. Layer(i) \in Nat \X Nat
        <3> DEFINE S == {j \in 1..(i - 1) : st.clips[j].track = t}
        <3>1. S \in SUBSET (1..(i - 1)) /\ i - 1 \in Nat
            BY <1>4
        <3> HIDE DEF S
        <3>2. Cardinality(S) \in Nat
            BY <3>1, CountIn
        <3> QED  BY <3>2 DEF S
    <2> HIDE DEF Layer
    <2>3. q[i] = IF c.track # t THEN c ELSE d
        BY <1>4
    <2> HIDE DEF q, c
    <2>4. d \in Passed(T)
        BY <2>1, <2>2, Zenon DEF Passed, ClipType
    <2>5. /\ d.track = c.track /\ d.src = c.src /\ d.sourceIn = c.sourceIn
          /\ d.ptsIn = c.ptsIn /\ d.ptsOut = c.ptsOut
        BY <2>1 DEF Passed, ClipType
    <2> HIDE DEF d
    <2>6. Duration(d) = Duration(c)
        BY <2>5 DEF Duration
    <2>7. d \in H <=> c \in H
        BY <2>1, <2>4, <2>5, <2>6 DEF Hits
    <2> QED  BY <2>3, <2>7 DEF c
<1>7. Len(q) = Len(st.clips)
    <2>1. DOMAIN q = 1..Len(st.clips)
        BY <1>4
    <2>2. q = [i \in 1..Len(st.clips) |-> q[i]]
        BY <1>4
    <2> HIDE DEF q
    <2>3. q \in [1..Len(st.clips) -> {q[i] : i \in 1..Len(st.clips)}]
        BY <2>2
    <2> QED  BY <1>4, <2>3
<1> HIDE DEF q, H, new
<1>8. Tally(q, Len(st.clips), H) = Tally(st.clips, Len(st.clips), H)
    BY <1>4, <1>6, TallySame
<1>9. All(new.clips, H) = All(st.clips, H)
    BY <1>5, <1>7, <1>8 DEF All
<1>10. CASE r.ok
    <2>1. Reindexed(r, t).s = new
        BY <1>3, <1>10 DEF Results
    <2> QED  BY <1>9, <2>1 DEF H, st
<1>11. CASE ~r.ok
    <2>1. Reindexed(r, t) = r
        BY <1>3, <1>11
    <2> QED  BY <2>1
<1> QED  BY <1>10, <1>11

\* The property counts what All counts.
LEMMA ShowingCounts ==
    ASSUME NEW T, NEW st \in Stores(T), NEW u, NEW src, NEW tick
    PROVE  Showing(st, u, src, tick) = All(st.clips, Hits(T, u, src, tick))
<1> DEFINE Seen(i) == /\ st.clips[i].track = u /\ st.clips[i].src = src
                      /\ st.clips[i].sourceIn <= tick
                      /\ tick < st.clips[i].sourceIn + Duration(st.clips[i])
<1>1. DOMAIN st.clips = 1..Len(st.clips) /\ \A i \in 1..Len(st.clips) : st.clips[i] \in Passed(T)
    BY StoreParts
<1>2. \A i \in 1..Len(st.clips) : st.clips[i] \in Hits(T, u, src, tick) <=> Seen(i)
    BY <1>1 DEF Hits
<1>3. Showing(st, u, src, tick) = Cardinality({i \in DOMAIN st.clips : Seen(i)})
    BY DEF Showing
<1> HIDE DEF Seen
<1>4. {i \in DOMAIN st.clips : Seen(i)}
        = {i \in 1..Len(st.clips) : st.clips[i] \in Hits(T, u, src, tick)}
    BY <1>1, <1>2
<1> QED  BY <1>3, <1>4 DEF All, Tally

\* A medium dropped on a track: what each track shows of each medium.
LEMMA DropShows ==
    ASSUME EInv, NEW t \in TrackIds, NEW src \in Sources, NEW f \in Frames,
           DropMedia(t, src, f), last' = "drop",
           NEW u, NEW m \in Sources, NEW tick \in Nat
    PROVE  Showing(project'.store, u, m, tick) =
              Showing(s, u, m, tick) + (IF u = t /\ m = src /\ tick < MediaTicks[m] THEN 1 ELSE 0)
<1> DEFINE T == DOMAIN tracks
           p == NewClip(t, src, Pts(f))
           r == InsertClipRipple(s, p)
           H == Hits(T, u, m, tick)
<1>1. /\ s \in Stores(T) /\ p \in Passed(T) /\ r \in Results(T)
      /\ MediaTicks[src] \in Nat \ {0} /\ Pts(f) \in Nat /\ t \in Nat /\ tick \in Int
    <2>1. s \in Stores(T) /\ p \in Passed(T) /\ Pts(f) \in Nat /\ t \in Nat
        BY SessionStore, NewClipPassed DEF TrackIds
    <2> HIDE DEF p, T
    <2> QED  BY <2>1, InsertRippleKeeps, EditorAssumption
<1>2. /\ p.track = t /\ p.src = src /\ p.sourceIn = 0
      /\ p.ptsIn = Pts(f) /\ p.ptsOut = Pts(f) + MediaTicks[src]
    BY DEF NewClip
<1>3. ProjectInsertRipple(s, p) = Reindexed(r, t)
    BY <1>2 DEF ProjectInsertRipple
<1>4. project'.store = Reindexed(r, t).s /\ Reindexed(r, t).ok
    <2>1. /\ last' = IF ProjectInsertRipple(s, p).ok THEN "drop" ELSE "failed drop"
          /\ Store(ProjectInsertRipple(s, p).s)
        BY DEF DropMedia, Command
    <2> HIDE DEF p, r
    <2>2. Reindexed(r, t).ok
        BY <1>3, <2>1
    <2>3. project' = [project EXCEPT !.store = Reindexed(r, t).s]
        BY <1>3, <2>1 DEF Store
    <2>4. project \in Projects
        BY SessionStore
    <2> QED  BY <2>2, <2>3, <2>4 DEF Projects
<1> HIDE DEF p, r, T
<1>5. r.ok
    BY <1>1, <1>4 DEF Reindexed
<1>6. IsValid(p) /\ Duration(p) = MediaTicks[src]
    BY <1>1, <1>2 DEF IsValid, Duration
<1>7. PICK cut, push : IsRipple(s, p, cut, push)
    BY <1>1, <1>6, RippleIs DEF IsValid
<1>8. All(r.s.clips, H) = All(s.clips, H) + One(p, H)
    BY <1>1, <1>5, <1>7, RippleHeld DEF r
<1>9. All(Reindexed(r, t).s.clips, H) = All(r.s.clips, H)
    BY <1>1, ReindexedHeld
<1>10. Reindexed(r, t).s \in Stores(T)
    <2>1. Reindexed(r, t) \in Results(T)
        BY <1>1, ReindexedKeeps
    <2> QED  BY <2>1 DEF Results
<1>11. /\ Showing(project'.store, u, m, tick) = All(Reindexed(r, t).s.clips, H)
       /\ Showing(s, u, m, tick) = All(s.clips, H)
    BY <1>1, <1>4, <1>10, ShowingCounts
<1>12. One(p, H) = IF u = t /\ m = src /\ tick < MediaTicks[m] THEN 1 ELSE 0
    <2>1. p \in H <=> u = t /\ m = src /\ tick < MediaTicks[m]
        BY <1>1, <1>2, <1>6 DEF Hits
    <2> HIDE DEF H
    <2> QED  BY <2>1 DEF One
<1> HIDE DEF H
<1> QED  BY <1>8, <1>9, <1>11, <1>12

\* Only a drop that succeeds says that it is one.
LEMMA OnlyDrops ==
    ASSUME Next, last' = "drop"
    PROVE  \E t \in TrackIds, src \in Sources, f \in Frames : DropMedia(t, src, f)
<1>1. CASE Undo \/ Redo
    BY <1>1 DEF Undo, Redo, Command
<1>2. CASE \E f \in FrameTicks : ChangeSettings(f)
    BY <1>2 DEF ChangeSettings, Command
<1>3. CASE \E i \in 0..Len(s.clips) : Select(i)
    BY <1>3 DEF Select
<1>4. CASE \E t \in TrackIds : ToggleMute(t) \/ ToggleSolo(t)
    BY <1>4 DEF ToggleMute, ToggleSolo, TrackMutation, Command
<1>12. CASE \E t \in TrackIds, v \in Looks : ClickGain(t, v) \/ DoubleClickGain(t, v)
    BY <1>12 DEF ClickGain, DoubleClickGain, Command
<1>5. CASE \E kind \in {"video", "audio"} : AddTrack(kind)
    BY <1>5 DEF AddTrack, TrackMutation, Command
<1>6. CASE \E t \in TrackIds, src \in Sources, f \in Frames : DropMedia(t, src, f)
    BY <1>6
<1>7. CASE \E i \in DOMAIN s.clips, v \in Looks : DropEffect(i, v)
    BY <1>7 DEF DropEffect, Command
<1>8. CASE ClipCommand
    <2>1. PICK id \in Ids(s) : \/ \E ripple \in BOOLEAN : DeleteClip(id, ripple)
                              \/ Duplicate(id)
                              \/ \E f \in Frames : Split(id, f)
        BY <1>8 DEF ClipCommand
    <2>2. \A ripple \in BOOLEAN : ~DeleteClip(id, ripple)
        BY DEF DeleteClip, Command
    <2>3. ~Duplicate(id)
        BY DEF Duplicate, Command
    <2>4. \A f \in Frames : ~Split(id, f)
        BY DEF Split, Command
    <2> QED  BY <2>1, <2>2, <2>3, <2>4
<1>9. CASE (\E ripple \in BOOLEAN : DeleteKey(ripple)) \/ ViewportDelete
    BY <1>9 DEF DeleteKey, ViewportDelete, Command
<1>10. CASE InspectorCommand
    BY <1>10 DEF InspectorCommand, EditLook, ToggleKeyframe, RemoveKeyframe, SetSpeed, Command
<1>11. CASE Drag
    BY <1>11 DEF Drag, GrabClip, GrabTransform, GrabGain, StartGesture, DropClip, DropEdge,
                 DragTransform, DragGain, Release, Command
<1> QED  BY <1>1, <1>2, <1>3, <1>4, <1>5, <1>6, <1>7, <1>8, <1>9, <1>10, <1>11, <1>12
         DEF Next

\* InsertionLosesNothing: an insertion that succeeds, whatever it cuts and pushes
\* on whatever tracks, shows each tick of each source as often as before on each
\* track, and once more for the new clip.
THEOREM InsertionsLoseNothing == Spec => InsertionLosesNothing
<1> DEFINE Same ==
        \E t \in TrackIds, src \in Sources :
           \A u \in TrackIds, m \in Sources, tick \in 0..(EndOf(s) + EndOf(project'.store)) :
              Showing(project'.store, u, m, tick) =
                 Showing(s, u, m, tick)
                 + (IF u = t /\ m = src /\ tick < MediaTicks[m] THEN 1 ELSE 0)
<1>1. ASSUME EInv, Next, last' = "drop"  PROVE Same
    <2>1. PICK t \in TrackIds, src \in Sources, f \in Frames : DropMedia(t, src, f)
        BY <1>1, OnlyDrops
    <2>2. ASSUME NEW u \in TrackIds, NEW m \in Sources,
                 NEW tick \in 0..(EndOf(s) + EndOf(project'.store))
          PROVE  Showing(project'.store, u, m, tick) =
                    Showing(s, u, m, tick)
                    + (IF u = t /\ m = src /\ tick < MediaTicks[m] THEN 1 ELSE 0)
        <3>1. tick \in Nat
            OBVIOUS
        <3> QED  BY <1>1, <2>1, <3>1, DropShows
    <2> QED  BY <2>2
<1>2. EInv /\ [Next]_vars =>
        [last' = "drop" /\ (\A i \in DOMAIN s.clips : Clip(i).speed = SpeedUnit) => Same]_vars
    BY <1>1
<1> QED  BY <1>2, Invariant, PTL DEF Spec, InsertionLosesNothing
=============================================================================
