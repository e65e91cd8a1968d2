--------------------------- MODULE Preview_proofs ---------------------------
(***************************************************************************)
(* The preview for every set of sources, slots and layouts: no slot is     *)
(* lost or shared, a picture is the one its label says, what a clip was    *)
(* served outlives the clips after it, and no texture is written while a   *)
(* submission reads it.                                                    *)
(***************************************************************************)
EXTENDS Preview, SequenceTheorems, FiniteSetTheorems, WellFoundedInduction, TLAPS

-----------------------------------------------------------------------------
(* The inductive invariant *)

Frames == Nat \cup {NoFrame}
Readers == [in : Nat, out : Nat, end : Frames, last : Frames, from : Frames, upTo : Frames]
Pictures == [src : Sources \cup {"none"}, frame : Frames, project : Nat, sure : BOOLEAN]
Textures == [held : Frames, picture : Pictures, lastRead : Nat]
Reads == UNION {[shown -> Pictures] : shown \in SUBSET Interop}
Keys == [src : Sources, pts : Nat]

Domains ==
    /\ project \in Nat /\ frames \in Nat
    /\ reader \in [Sources -> Readers]
    /\ texture \in [Interop -> Textures]
    /\ pixels \in [Slots -> Pictures]
    /\ queue \in Seq([id : Nat, reads : Reads])
    /\ \A q \in todo : q.src \in Sources /\ q.pts \in Nat
    /\ \A e \in entries : e.kind = "texture" => e.src \in Interop

\* The reader is inside the file, and its decoder holds back no more than its
\* delay while it takes packets.
Placed(s, r) ==
    /\ r \in Readers /\ r.from = r.last
    /\ r.in <= Length[s] /\ r.out <= Length[s] /\ r.end <= Length[s]
    /\ r.end = NoFrame => r.in <= r.out + Delay[s]

\* Every frame that came out is one it knows to have gone by.
Tracked(s, r) ==
    /\ Placed(s, r)
    /\ \A f \in AllFrames(s) : f < r.out => Pts[s][f] <= r.upTo

\* Pool fr, index ix and list ks share out the slots.
Owned(fr, ix, ks) ==
    /\ fr \subseteq Slots
    /\ ks \in Seq(Keys) /\ Len(ks) <= Capacity
    /\ \A i, j \in 1 .. Len(ks) : ks[i] = ks[j] => i = j
    /\ ix \in [ToSet(ks) -> Slots]
    /\ fr \cup {ix[k] : k \in ToSet(ks)} = Slots
    /\ \A k \in ToSet(ks) : ix[k] \notin fr
    /\ \A k, j \in ToSet(ks) : k # j => ix[k] # ix[j]

\* What a submission reads is in the texture, and the texture is stamped with
\* it or with one after it.
Sampling ==
    \A i \in 1 .. Len(queue) : \A s \in DOMAIN queue[i].reads :
        /\ s \in Interop
        /\ texture[s].picture = queue[i].reads[s]
        /\ \E j \in i .. Len(queue) : queue[j].id = texture[s].lastRead

IInv ==
    /\ Domains
    /\ \A s \in Sources : Tracked(s, reader[s])
    /\ Owned(free, index, lru)
    /\ PicturesAreTrue
    /\ Sampling

-----------------------------------------------------------------------------
(* First and last *)

LEMMA MinOf ==
    ASSUME NEW S \in SUBSET Nat, S # {}
    PROVE  Min(S) \in S /\ \A x \in S : Min(S) <= x
<1> DEFINE below == OpToRel(<, Nat)
<1>1. IsWellFoundedOn(below, Nat)
    BY NatLessThanWellFounded, Zenon
<1>2. PICK w \in S : \A x \in S : <<x, w>> \notin below
    <2> HIDE DEF below
    <2> QED  BY <1>1, WFMin
<1>3. \A x \in S : w <= x
    <2> SUFFICES ASSUME NEW x \in S  PROVE w <= x
        OBVIOUS
    <2>1. ~(x < w)
        BY <1>2 DEF OpToRel
    <2> QED  BY <2>1
<1> QED  BY <1>3 DEF Min

LEMMA MaxOf ==
    ASSUME NEW n \in Nat, NEW S \in SUBSET (0 .. n), S # {}
    PROVE  Max(S) \in S /\ \A x \in S : x <= Max(S)
<1> DEFINE D == {n - x : x \in S}
<1>1. D \in SUBSET Nat /\ D # {}
    <2>1. \A x \in S : n - x \in Nat
        <3> SUFFICES ASSUME NEW x \in S  PROVE n - x \in Nat
            OBVIOUS
        <3>1. x \in 0 .. n
            OBVIOUS
        <3> QED  BY <3>1
    <2> QED  BY <2>1
<1>2. PICK d \in D : \A e \in D : d <= e
    <2> HIDE DEF D
    <2> QED  BY <1>1, MinOf
<1>3. PICK w \in S : d = n - w
    OBVIOUS
<1>4. \A x \in S : x <= w
    <2> SUFFICES ASSUME NEW x \in S  PROVE x <= w
        OBVIOUS
    <2>1. n - w <= n - x
        BY <1>2, <1>3
    <2> QED  BY <2>1
<1> QED  BY <1>4 DEF Max

LEMMA MaxOfTwo ==
    ASSUME NEW a \in Int, NEW b \in Int
    PROVE  /\ Max({a, b}) \in {a, b} /\ a <= Max({a, b}) /\ b <= Max({a, b})
<1>1. \E x \in {a, b} : \A y \in {a, b} : x >= y
    <2>1. CASE a >= b
        BY <2>1
    <2>2. CASE b >= a
        BY <2>2
    <2> QED  BY <2>1, <2>2
<1>2. Max({a, b}) \in {a, b} /\ \A y \in {a, b} : Max({a, b}) >= y
    BY <1>1 DEF Max
<1> QED  BY <1>2

-----------------------------------------------------------------------------
(* The reader *)

LEMMA MinOfTwo ==
    ASSUME NEW a \in Nat, NEW b \in Nat
    PROVE  /\ Min({a, b}) \in {a, b} /\ Min({a, b}) <= a /\ Min({a, b}) <= b
<1> DEFINE S == {a, b}
<1>1. S \in SUBSET Nat /\ S # {} /\ a \in S /\ b \in S
    OBVIOUS
<1> HIDE DEF S
<1>2. Min(S) \in S /\ \A x \in S : Min(S) <= x
    BY <1>1, MinOf
<1> QED  BY <1>1, <1>2 DEF S

LEMMA Media ==
    ASSUME NEW s \in Sources
    PROVE  /\ Length[s] \in Nat /\ Length[s] > 0 /\ Delay[s] \in Nat /\ FarAhead \in Nat
           /\ MaxPackets \in Nat /\ MaxPackets > 0
           /\ AllFrames(s) = 0 .. (Length[s] - 1)
           /\ Pts[s] \in [AllFrames(s) -> Nat] /\ Pts[s][0] = 0
           /\ \A f, g \in AllFrames(s) : f < g => Pts[s][f] < Pts[s][g]
           /\ Intact[s] \subseteq AllFrames(s)
           /\ 0 \in Keyframes[s] /\ Keyframes[s] \subseteq AllFrames(s)
           /\ Unreadable[s] \subseteq Nat
<1>1. Length[s] \in Nat \ {0} /\ Delay[s] \in Nat /\ Unreadable[s] \in SUBSET Nat
    BY MediaAssumption
<1> QED  BY <1>1, MediaAssumption DEF AllFrames

\* What came out before frame o is earlier than n.
Below(s, o, n) == \A f \in Intact[s] : f < o => Pts[s][f] < n

\* Unless the reader is past frame n, it is not.
Clear(s, r, n) == Behind(r, n) \/ Below(s, r.out, n)

LEMMA Positioning ==
    ASSUME NEW s \in Sources, NEW n \in Nat, NEW r, Tracked(s, r), NEW p, p = Positioned(s, r, n)
    PROVE  Placed(s, p) /\ p.last = r.last /\ Clear(s, p, n)
<1>0. /\ r \in Readers /\ r.in \in Nat /\ r.out \in Nat /\ r.from = r.last /\ r.last \in Frames
      /\ r.upTo \in Frames
    BY DEF Tracked, Placed, Readers
<1>1. CASE NeedSeek(r, n)
    <2> DEFINE ks == {k \in Keyframes[s] : Pts[s][k] <= n}
               k == Landing(s, n)
    <2>1. ks \in SUBSET (0 .. Length[s]) /\ 0 \in ks /\ Length[s] \in Nat
        BY Media
    <2>2. k \in ks
        <3>1. k = Max(ks)
            BY DEF Landing
        <3> HIDE DEF ks, k
        <3> QED  BY <2>1, <3>1, MaxOf
    <2>3. k \in AllFrames(s) /\ Pts[s][k] <= n
        BY <2>2, Media
    <2>4. p = [r EXCEPT !.in = k, !.out = k, !.end = NoFrame, !.upTo = NoFrame]
        BY <1>1 DEF Positioned, Seek
    <2> HIDE DEF k, ks
    <2>5. k \in Nat /\ k <= Length[s] /\ Delay[s] \in Nat
        BY <2>3, Media
    <2>6. /\ p \in Readers /\ p.in = k /\ p.out = k /\ p.end = NoFrame /\ p.last = r.last
          /\ p.from = r.from
        BY <1>0, <2>4, <2>5 DEF Readers, Frames
    <2>7. Below(s, k, n)
        <3> SUFFICES ASSUME NEW f \in Intact[s], f < k  PROVE Pts[s][f] < n
            BY DEF Below
        <3>1. f \in AllFrames(s) /\ Pts[s][f] \in Nat /\ Pts[s][k] \in Nat
            BY <2>3, Media
        <3>2. Pts[s][f] < Pts[s][k]
            BY <2>3, <3>1, Media
        <3> DEFINE a == Pts[s][f]
                   b == Pts[s][k]
        <3>3. a \in Nat /\ b \in Nat /\ a < b /\ b <= n
            BY <2>3, <3>1, <3>2
        <3> HIDE DEF a, b
        <3>4. a < n
            BY <3>3
        <3> QED  BY <3>4 DEF a
    <2>8. p.end <= Length[s]
        <3> DEFINE a == Length[s]
        <3>1. a \in Nat
            BY <2>1
        <3> HIDE DEF a
        <3>2. -1 <= a
            BY <3>1
        <3> QED  BY <2>6, <3>2 DEF NoFrame, a
    <2>9. p.in <= p.out + Delay[s]
        BY <2>5, <2>6
    <2> QED  BY <1>0, <2>5, <2>6, <2>7, <2>8, <2>9 DEF Placed, Clear
<1>2. CASE ~NeedSeek(r, n)
    <2>1. p = r
        BY <1>2 DEF Positioned
    <2>2. r.last \in Nat /\ r.from <= n
        BY <1>0, <1>2 DEF NeedSeek, Frames
    <2>3. ASSUME ~(n <= r.upTo)  PROVE Below(s, r.out, n)
        <3> SUFFICES ASSUME NEW f \in Intact[s], f < r.out  PROVE Pts[s][f] < n
            BY DEF Below
        <3>1. f \in AllFrames(s) /\ Pts[s][f] \in Nat
            BY Media
        <3>2. Pts[s][f] <= r.upTo
            BY <3>1 DEF Tracked
        <3> QED  BY <1>0, <2>3, <3>1, <3>2 DEF Frames, NoFrame
    <2> QED  BY <2>1, <2>2, <2>3 DEF Tracked, Clear, Behind
<1> QED  BY <1>1, <1>2

\* The reader moved, and nothing is recorded.
LEMMA Forgotten ==
    ASSUME NEW s \in Sources, NEW r, Placed(s, r), NEW t, t = Unserved(s, r)
    PROVE  Tracked(s, t)
<1> DEFINE u == IF r.out = 0 THEN r.upTo ELSE Max({r.upTo, Pts[s][r.out - 1]})
<1>0. /\ r \in Readers /\ r.out \in Nat /\ r.out <= Length[s] /\ r.upTo \in Frames
      /\ Length[s] \in Nat
    BY Media DEF Placed, Readers
<1>1. r.out # 0 => r.out - 1 \in AllFrames(s) /\ Pts[s][r.out - 1] \in Nat
    BY <1>0, Media
<1>2. u \in Frames /\ (r.out # 0 => Pts[s][r.out - 1] <= u)
    <2>1. CASE r.out = 0
        BY <1>0, <2>1
    <2>2. CASE r.out # 0
        <3> DEFINE a == r.upTo
                   b == Pts[s][r.out - 1]
        <3>1. a \in Int /\ b \in Int /\ a \in Frames /\ b \in Frames
            BY <1>0, <1>1, <2>2 DEF Frames, NoFrame
        <3>2. u = Max({a, b})
            BY <2>2
        <3> HIDE DEF a, u
        <3>3. u \in {a, b} /\ b <= u
            <4> HIDE DEF b
            <4> QED  BY <3>1, <3>2, MaxOfTwo
        <3> QED  BY <3>1, <3>3
    <2> QED  BY <2>1, <2>2
<1>3. t = [r EXCEPT !.upTo = u]
    BY DEF Unserved
<1> HIDE DEF u
<1>4. /\ t \in Readers /\ t.in = r.in /\ t.out = r.out /\ t.end = r.end /\ t.last = r.last
      /\ t.from = r.from /\ t.upTo = u
    BY <1>0, <1>2, <1>3 DEF Readers
<1>5. ASSUME NEW f \in AllFrames(s), f < r.out  PROVE Pts[s][f] <= u
    <2>1. f \in Nat /\ r.out # 0 /\ Pts[s][f] \in Nat
        BY <1>0, <1>5, Media
    <2>2. f <= r.out - 1
        BY <1>0, <1>5, <2>1
    <2>3. f = r.out - 1 \/ f < r.out - 1
        BY <1>0, <2>1, <2>2
    <2>4. Pts[s][f] <= Pts[s][r.out - 1]
        BY <1>1, <2>1, <2>3, Media, SMTT(30)
    <2>5. u \in Int
        BY <1>2 DEF Frames, NoFrame
    <2> QED  BY <1>1, <1>2, <2>1, <2>4, <2>5
<1> QED  BY <1>4, <1>5 DEF Tracked, Placed

\* The request is recorded as served with frame f.
LEMMA Recorded ==
    ASSUME NEW s \in Sources, NEW n \in Nat, NEW r, Placed(s, r), NEW f \in AllFrames(s),
           r.out = f + 1, NEW t, t = Served(s, r, n, f)
    PROVE  Tracked(s, t)
<1>1. r \in Readers /\ n \in Frames /\ Pts[s][f] \in Nat /\ Pts[s][f] \in Frames
    BY Media DEF Placed, Frames
<1>2. /\ t \in Readers /\ t.in = r.in /\ t.out = r.out /\ t.end = r.end /\ t.last = n
      /\ t.from = n /\ t.upTo = Pts[s][f]
    BY <1>1 DEF Readers, Served
<1>3. ASSUME NEW g \in AllFrames(s), g < r.out  PROVE Pts[s][g] <= Pts[s][f]
    <2>1. f \in Nat /\ g \in Nat /\ Pts[s][g] \in Nat
        BY Media
    <2>2. g = f \/ g < f
        BY <1>3, <2>1
    <2> QED  BY <1>1, <2>1, <2>2, Media
<1> QED  BY <1>2, <1>3 DEF Tracked, Placed

LEMMA Halting ==
    ASSUME NEW s \in Sources, NEW r, Placed(s, r), NEW halt \in Halts(s, r)
    PROVE  halt \in Nat /\ halt <= Length[s]
<1> DEFINE b == Min({Length[s], r.in + MaxPackets})
<1>1. /\ r.in \in Nat /\ Length[s] \in Nat /\ r.in + MaxPackets \in Nat
      /\ Unreadable[s] \subseteq Nat
    BY Media DEF Placed, Readers
<1>2. b \in Nat /\ b <= Length[s]
    BY <1>1, MinOfTwo
<1>3. halt = b \/ (halt \in Nat /\ halt < b)
    <2>1. halt \in {b} \cup {p \in Unreadable[s] : r.in <= p /\ p < b}
        BY DEF Halts
    <2> HIDE DEF b
    <2> QED  BY <1>1, <2>1
<1> HIDE DEF b
<1> QED  BY <1>1, <1>2, <1>3

\* The reader after it passed every frame before the packet it stopped at.
LEMMA Passing ==
    ASSUME NEW s \in Sources, NEW r, Placed(s, r), NEW halt \in Nat, halt <= Length[s],
           NEW t, t = Passed(s, r, halt)
    PROVE  /\ Placed(s, t) /\ t.in = halt /\ t.last = r.last
           /\ t.end = r.end /\ (r.end # NoFrame => t.out = r.out)
           /\ t.out = r.out \/ t.out <= halt - Delay[s]
<1> DEFINE a == r.out
           b == halt - Delay[s]
           o == IF r.end # NoFrame THEN a ELSE Max({a, b})
<1>0. /\ r \in Readers /\ a \in Nat /\ a <= Length[s] /\ Length[s] \in Nat /\ Delay[s] \in Nat
      /\ b \in Int /\ b <= Length[s] /\ r.from = r.last /\ r.end <= Length[s]
    BY Media DEF Placed, Readers
<1>1. t = [r EXCEPT !.in = halt, !.out = o]
    BY DEF Passed
<1>2. o \in Nat /\ o <= Length[s] /\ (o = a \/ o <= b) /\ (r.end = NoFrame => b <= o)
      /\ (r.end # NoFrame => o = a)
    <2>1. CASE r.end # NoFrame
        BY <1>0, <2>1
    <2>2. CASE r.end = NoFrame
        <3>1. o = Max({a, b})
            BY <2>2
        <3> HIDE DEF o, a, b
        <3>2. o \in {a, b} /\ a <= o /\ b <= o
            BY <1>0, <3>1, MaxOfTwo, SMTT(30)
        <3> QED  BY <1>0, <2>2, <3>2
    <2> QED  BY <2>1, <2>2
<1> HIDE DEF o
<1>3. /\ t \in Readers /\ t.in = halt /\ t.out = o /\ t.end = r.end /\ t.last = r.last
      /\ t.from = r.from
    BY <1>0, <1>1, <1>2 DEF Readers
<1>4. r.end = NoFrame => halt <= o + Delay[s]
    BY <1>0, <1>2
<1> QED  BY <1>0, <1>2, <1>3, <1>4 DEF Placed

\* A frame that may be shown for frame n.
Right(s, f, n, sure) ==
    /\ f \in AllFrames(s)
    /\ \/ f = 0 /\ Delay[s] < Length[s] /\ n <= Pts[s][Delay[s]]
       \/ /\ f \in Intact[s] /\ Pts[s][f] >= n
          /\ sure => \A g \in Intact[s] : g < f => Pts[s][g] < n

\* What a frame that comes out is stamped with.
LEMMA Stamping ==
    ASSUME NEW s \in Sources, NEW r, Placed(s, r), NEW halt \in Nat, halt <= Length[s],
           NEW f \in Ready(s, r, halt)
    PROVE  /\ f \in Intact[s] /\ f \in AllFrames(s) /\ f \in Nat /\ f + Delay[s] < halt
           /\ r.end = NoFrame /\ r.out <= f
           /\ Stamp(s, f) \in Nat /\ Pts[s][f] \in Nat /\ Pts[s][f] <= Stamp(s, f)
           /\ f # 0 => Stamp(s, f) = Pts[s][f]
           /\ f = 0 => Stamp(s, f) = Pts[s][Delay[s]] /\ Delay[s] < Length[s]
<1>1. /\ r.end = NoFrame /\ f \in Intact[s] /\ r.out <= f /\ f + Delay[s] < halt
    BY DEF Ready
<1>2. f \in AllFrames(s) /\ f \in Nat /\ Pts[s][f] \in Nat /\ Delay[s] \in Nat /\ Length[s] \in Nat
    BY <1>1, Media
<1>3. CASE f = 0
    <2>1. Delay[s] < Length[s] /\ Delay[s] \in AllFrames(s)
        BY <1>1, <1>2, <1>3, Media
    <2>2. Pts[s][Delay[s]] \in Nat /\ Pts[s][0] = 0
        BY <2>1, Media
    <2> QED  BY <1>1, <1>2, <1>3, <2>1, <2>2 DEF Stamp
<1>4. CASE f # 0
    BY <1>1, <1>2, <1>4 DEF Stamp
<1> QED  BY <1>3, <1>4

LEMMA ReadingForward ==
    ASSUME NEW s \in Sources, NEW n \in Nat, NEW p, Placed(s, p), NEW sure \in BOOLEAN,
           sure => Below(s, p.out, n), NEW halt \in Nat, halt <= Length[s],
           NEW res, res = ReadForward(s, p, n, halt)
    PROVE  /\ Placed(s, res.r) /\ res.r.last = p.last
           /\ res.found # NoFrame =>
                /\ res.r.out = res.found + 1 /\ p.in < res.r.in /\ Right(s, res.found, n, sure)
           /\ res.found = NoFrame => res.r = Passed(s, p, halt) /\ (sure => Below(s, res.r.out, n))
<1> DEFINE good == {f \in Ready(s, p, halt) : Stamp(s, f) >= n}
<1>0. /\ p \in Readers /\ p.in \in Nat /\ p.out \in Nat /\ p.from = p.last /\ p.last \in Frames
      /\ Delay[s] \in Nat /\ Length[s] \in Nat /\ p.end <= Length[s]
    BY Media DEF Placed, Readers
<1>1. good \in SUBSET Nat
    BY Stamping
<1>2. ASSUME NEW g \in Ready(s, p, halt), g \notin good  PROVE Pts[s][g] < n
    <2>1. ~(Stamp(s, g) >= n) /\ Stamp(s, g) \in Nat /\ Pts[s][g] \in Nat /\ Pts[s][g] <= Stamp(s, g)
        BY <1>2, Stamping
    <2> QED  BY <2>1
<1>3. CASE good # {}
    <2> DEFINE f == Min(good)
    <2>1. f \in good /\ \A x \in good : f <= x
        <3> HIDE DEF good
        <3> QED  BY <1>1, <1>3, MinOf
    <2>2. res.found = f /\ res.r = [p EXCEPT !.in = f + Delay[s] + 1, !.out = f + 1]
        BY <1>3 DEF ReadForward, After
    <2>3. f \in Ready(s, p, halt) /\ Stamp(s, f) >= n
        BY <2>1
    <2> HIDE DEF f
    <2>4. /\ f \in Intact[s] /\ f \in AllFrames(s) /\ f \in Nat /\ f + Delay[s] < halt
          /\ p.end = NoFrame /\ p.out <= f
          /\ f # 0 => Stamp(s, f) = Pts[s][f]
          /\ f = 0 => Stamp(s, f) = Pts[s][Delay[s]] /\ Delay[s] < Length[s]
        BY <2>3, Stamping
    <2>5. ASSUME sure, NEW g \in Intact[s], g < f  PROVE Pts[s][g] < n
        <3>1. CASE g < p.out
            BY <2>5, <3>1 DEF Below
        <3>2. CASE ~(g < p.out)
            <4>1. g \in Nat
                BY Media
            <4>2. g \in Ready(s, p, halt)
                BY <1>0, <2>4, <2>5, <3>2, <4>1 DEF Ready
            <4>3. g \notin good
                <5> SUFFICES ASSUME g \in good  PROVE FALSE
                    OBVIOUS
                <5>1. f <= g
                    BY <2>1
                <5> QED  BY <2>4, <2>5, <4>1, <5>1
            <4> HIDE DEF good
            <4> QED  BY <1>2, <4>2, <4>3
        <3> QED  BY <3>1, <3>2
    <2>6. Right(s, f, n, sure)
        <3>1. CASE f = 0
            <4>1. Pts[s][Delay[s]] >= n /\ Delay[s] < Length[s]
                BY <2>3, <2>4, <3>1
            <4>2. Pts[s][Delay[s]] \in Nat
                BY <1>0, <4>1, Media
            <4> QED  BY <2>4, <3>1, <4>1, <4>2 DEF Right
        <3>2. CASE f # 0
            <4>1. Pts[s][f] >= n
                BY <2>3, <2>4, <3>2
            <4> HIDE DEF good
            <4> QED  BY <2>4, <2>5, <4>1 DEF Right
        <3> QED  BY <3>1, <3>2
    <2> HIDE DEF good
    <2>7. /\ f + Delay[s] + 1 \in Nat /\ f + 1 \in Nat /\ f + Delay[s] + 1 <= Length[s]
          /\ f + 1 <= Length[s] /\ f # NoFrame
          /\ f + Delay[s] + 1 <= (f + 1) + Delay[s]
        BY <1>0, <2>4 DEF NoFrame
    <2>8. /\ res.r \in Readers /\ res.r.in = f + Delay[s] + 1 /\ res.r.out = f + 1
          /\ res.r.last = p.last /\ res.r.from = p.from /\ res.r.end = p.end
        BY <1>0, <2>2, <2>7 DEF Readers
    <2>9. p.in < f + Delay[s] + 1
        <3>1. p.in <= p.out + Delay[s]
            BY <2>4 DEF Placed
        <3> QED  BY <1>0, <2>4, <3>1
    <2> QED  BY <1>0, <2>2, <2>6, <2>7, <2>8, <2>9 DEF Placed
<1>4. CASE good = {}
    <2>1. res.found = NoFrame /\ res.r = Passed(s, p, halt)
        BY <1>4 DEF ReadForward
    <2>2. /\ Placed(s, res.r) /\ res.r.last = p.last
          /\ p.end # NoFrame => res.r.out = p.out
          /\ res.r.out = p.out \/ res.r.out <= halt - Delay[s]
        BY <2>1, Passing
    <2>3. ASSUME sure, NEW g \in Intact[s], g < res.r.out  PROVE Pts[s][g] < n
        <3>1. CASE g < p.out
            BY <2>3, <3>1 DEF Below
        <3>2. CASE ~(g < p.out)
            <4>1. g \in Nat /\ res.r.out \in Nat
                BY <2>2, Media DEF Placed, Readers
            <4>2. p.end = NoFrame /\ g < halt - Delay[s]
                BY <1>0, <2>2, <2>3, <3>2, <4>1
            <4>3. g \in Ready(s, p, halt)
                BY <1>0, <3>2, <4>1, <4>2 DEF Ready
            <4>4. g \notin good
                BY <1>4
            <4> HIDE DEF good
            <4> QED  BY <1>2, <4>3, <4>4
        <3> QED  BY <3>1, <3>2
    <2> HIDE DEF good
    <2> QED  BY <2>1, <2>2, <2>3 DEF Below
<1> QED  BY <1>3, <1>4

LEMMA Draining ==
    ASSUME NEW s \in Sources, NEW n \in Nat, NEW p, Placed(s, p), NEW sure \in BOOLEAN,
           sure => Below(s, p.out, n), NEW stop \in Stops(s, p), NEW res, res = Drain(s, p, n, stop)
    PROVE  /\ Placed(s, res.r) /\ res.r.last = p.last
           /\ res.found # NoFrame => res.r.out = res.found + 1 /\ Right(s, res.found, n, sure)
<1> DEFINE good == {f \in Intact[s] : p.out <= f /\ f < stop /\ Pts[s][f] >= n}
           e == Fed(p)
<1>0. /\ p \in Readers /\ p.in \in Nat /\ p.out \in Nat /\ p.from = p.last
      /\ p.end \in Nat \cup {NoFrame} /\ Length[s] \in Nat /\ p.in <= Length[s]
      /\ p.end <= Length[s]
    BY Media DEF Placed, Readers, Frames
<1>1. e \in Nat /\ e <= Length[s]
    BY <1>0 DEF Fed
<1>2. stop \in Nat /\ stop <= e
    <2>1. stop = e \/ stop \in p.out .. (e - 1)
        BY DEF Stops
    <2> HIDE DEF e
    <2> QED  BY <1>0, <1>1, <2>1
<1>3. good \in SUBSET Nat
    BY Media
<1> HIDE DEF e
<1>4. CASE good # {}
    <2> DEFINE f == Min(good)
    <2>1. f \in good /\ \A x \in good : f <= x
        <3> HIDE DEF good
        <3> QED  BY <1>3, <1>4, MinOf
    <2>2. res.found = f /\ res.r = [p EXCEPT !.end = e, !.out = f + 1]
        BY <1>4 DEF Drain, e
    <2> HIDE DEF f
    <2>3. f \in Intact[s] /\ f \in AllFrames(s) /\ f \in Nat /\ p.out <= f /\ f < stop /\ Pts[s][f] >= n
        BY <2>1, Media
    <2>4. ASSUME sure, NEW g \in Intact[s], g < f  PROVE Pts[s][g] < n
        <3>1. CASE g < p.out
            BY <2>4, <3>1 DEF Below
        <3>2. CASE ~(g < p.out)
            <4>1. g \in Nat /\ Pts[s][g] \in Nat
                BY Media
            <4>2. g \notin good
                <5> SUFFICES ASSUME g \in good  PROVE FALSE
                    OBVIOUS
                <5>1. f <= g
                    BY <2>1
                <5> QED  BY <2>3, <2>4, <4>1, <5>1
            <4>3. p.out <= g /\ g < stop
                BY <1>0, <1>2, <2>3, <2>4, <3>2, <4>1
            <4> QED  BY <4>1, <4>2, <4>3
        <3> QED  BY <3>1, <3>2
    <2> HIDE DEF good
    <2>5. Right(s, f, n, sure)
        BY <2>3, <2>4 DEF Right
    <2>6. f + 1 \in Nat /\ f + 1 <= Length[s] /\ f # NoFrame /\ e # NoFrame
        BY <1>1, <1>2, <2>3, <1>0 DEF NoFrame
    <2>7. /\ res.r \in Readers /\ res.r.in = p.in /\ res.r.out = f + 1 /\ res.r.end = e
          /\ res.r.last = p.last /\ res.r.from = p.from
        BY <1>0, <1>1, <2>2, <2>6 DEF Readers, Frames
    <2> QED  BY <1>0, <1>1, <2>2, <2>5, <2>6, <2>7 DEF Placed
<1>5. CASE good = {}
    <2> DEFINE o == Min({stop + 1, e})
    <2>1. res.found = NoFrame /\ res.r = [p EXCEPT !.end = e, !.out = o]
        BY <1>5 DEF Drain, e
    <2>2. o \in Nat /\ o <= Length[s] /\ e # NoFrame
        <3>1. stop + 1 \in Nat
            BY <1>2
        <3>2. o \in {stop + 1, e} /\ o <= e
            BY <1>1, <3>1, MinOfTwo
        <3> HIDE DEF o
        <3> QED  BY <1>0, <1>1, <3>1, <3>2 DEF NoFrame
    <2> HIDE DEF o
    <2>3. /\ res.r \in Readers /\ res.r.in = p.in /\ res.r.out = o /\ res.r.end = e
          /\ res.r.last = p.last /\ res.r.from = p.from
        BY <1>0, <1>1, <2>1, <2>2 DEF Readers, Frames
    <2> QED  BY <1>0, <1>1, <2>1, <2>2, <2>3 DEF Placed
<1> QED  BY <1>4, <1>5

LEMMA Reading ==
    ASSUME NEW s \in Sources, NEW n \in Nat, NEW p, Placed(s, p), Clear(s, p, n),
           NEW res \in Outcomes(s, p, n)
    PROVE  /\ Placed(s, res.r) /\ res.r.last = p.last
           /\ res.found # NoFrame =>
                res.r.out = res.found + 1 /\ Right(s, res.found, n, ~Behind(p, n))
<1> DEFINE sure == ~Behind(p, n)
           forward(halt) == ReadForward(s, p, n, halt)
           ahead == {forward(halt) : halt \in Halts(s, p)}
           dry == {a \in ahead : a.found = NoFrame /\ a.dry}
           drained(a) == {Drain(s, a.r, n, stop) : stop \in Stops(s, a.r)}
<1>1. sure \in BOOLEAN /\ (sure => Below(s, p.out, n))
    BY DEF Clear
<1>2. \/ \E halt \in Halts(s, p) : res = forward(halt)
      \/ \E halt \in Halts(s, p) : /\ forward(halt).found = NoFrame
                                   /\ \E stop \in Stops(s, forward(halt).r) :
                                        res = Drain(s, forward(halt).r, n, stop)
    <2>1. res \in (ahead \ dry) \cup UNION {drained(a) : a \in dry}
        BY Zenon DEF Outcomes
    <2> HIDE DEF forward
    <2> QED  BY <2>1
<1> HIDE DEF sure
<1>3. ASSUME NEW halt \in Halts(s, p)
      PROVE  /\ Placed(s, forward(halt).r) /\ forward(halt).r.last = p.last
             /\ forward(halt).found # NoFrame =>
                  /\ forward(halt).r.out = forward(halt).found + 1
                  /\ Right(s, forward(halt).found, n, sure)
             /\ forward(halt).found = NoFrame => (sure => Below(s, forward(halt).r.out, n))
    <2>1. halt \in Nat /\ halt <= Length[s]
        BY Halting
    <2>2. forward(halt) = ReadForward(s, p, n, halt)
        OBVIOUS
    <2> HIDE DEF forward
    <2> QED  BY <1>1, <2>1, <2>2, ReadingForward
<1> HIDE DEF forward
<1>4. ASSUME NEW halt \in Halts(s, p), forward(halt).found = NoFrame,
             NEW stop \in Stops(s, forward(halt).r), res = Drain(s, forward(halt).r, n, stop)
      PROVE  /\ Placed(s, res.r) /\ res.r.last = p.last
             /\ res.found # NoFrame => res.r.out = res.found + 1 /\ Right(s, res.found, n, sure)
    <2> DEFINE a == forward(halt).r
    <2>1. Placed(s, a) /\ a.last = p.last /\ (sure => Below(s, a.out, n))
        BY <1>3, <1>4
    <2>2. stop \in Stops(s, a) /\ res = Drain(s, a, n, stop)
        BY <1>4
    <2> HIDE DEF a
    <2> QED  BY <1>1, <2>1, <2>2, Draining
<1> QED  BY <1>2, <1>3, <1>4 DEF sure

-----------------------------------------------------------------------------
(* The textures *)

\* What decode_interop may leave of the textures without a frame: one it wrote
\* was read by nobody, and is not held.
Declinable(t) ==
    /\ t \in [Interop -> Textures]
    /\ \A s \in Interop :
         /\ t[s].held # NoFrame =>
              t[s].held = texture[s].held /\ t[s].picture = texture[s].picture
         /\ \/ t[s].picture = texture[s].picture /\ t[s].lastRead = texture[s].lastRead
            \/ Finished(texture[s].lastRead)

LEMMA Spoiling ==
    ASSUME Domains, NEW q, q.src \in Interop, NEW picture \in Pictures,
           Finished(texture[q.src].lastRead)
    PROVE  Declinable([texture EXCEPT ![q.src] = Spoilt(picture)])
<1> DEFINE new == Spoilt(picture)
           t == [texture EXCEPT ![q.src] = new]
<1>1. new \in Textures /\ new.held = NoFrame
    BY DEF Spoilt, Textures, Frames
<1> HIDE DEF new
<1>2. t \in [Interop -> Textures] /\ t[q.src] = new
      /\ \A s \in Interop : s # q.src => t[s] = texture[s]
    BY <1>1 DEF Domains
<1> HIDE DEF t
<1>3. Declinable(t)
    BY <1>1, <1>2 DEF Declinable
<1> QED  BY <1>3 DEF t, new

LEMMA BlankPicture == Blank \in Pictures
BY DEF Blank, Pictures, Frames

LEMMA Decoded ==
    ASSUME Domains, NEW s \in Sources, NEW f \in Nat, NEW r, NEW n
    PROVE  /\ Picture(s, f, r, n) \in Pictures
           /\ Picture(s, f, r, n).src = s /\ Picture(s, f, r, n).frame = f
           /\ Picture(s, f, r, n).project = project /\ Picture(s, f, r, n).sure = ~Behind(r, n)
BY DEF Picture, Pictures, Frames, Domains, Behind

LEMMA PassingBy ==
    ASSUME Domains, NEW q, q.src \in Interop, q.src \in Sources, NEW r
    PROVE  PassedBy(q, r) \in Pictures
<1> DEFINE S == {f \in Intact[q.src] : Start(q).out <= f /\ f < r.out}
<1>1. CASE S = {}
    BY <1>1 DEF PassedBy, Domains, Textures
<1>2. CASE S # {}
    <2>1. S \in SUBSET (0 .. Length[q.src]) /\ Length[q.src] \in Nat
        BY Media
    <2>2. Max(S) \in Nat
        <3>0. \A x \in S : x \in Nat
            BY Media
        <3> HIDE DEF S
        <3>1. Max(S) \in S
            BY <1>2, <2>1, MaxOf
        <3> QED  BY <3>0, <3>1
    <2>3. PassedBy(q, r) = [Blank EXCEPT !.src = q.src, !.frame = Max(S), !.project = project]
        BY <1>2 DEF PassedBy
    <2> HIDE DEF S
    <2> QED  BY <2>2, <2>3 DEF Blank, Pictures, Frames, Domains
<1> QED  BY <1>1, <1>2

\* The textures with those of one source left behind are as they may be.
LEMMA LeavingBehind ==
    ASSUME Domains, NEW q, q.src \in Sources, q.src \in Interop, NEW r,
           r.in > Start(q).in => MayWrite(q)
    PROVE  Declinable(LeftBehind(q, r))
<1>1. CASE r.in > Start(q).in
    <2>1. PassedBy(q, r) \in Pictures
        BY PassingBy
    <2> QED  BY <1>1, <2>1, Spoiling DEF LeftBehind, MayWrite
<1>2. CASE ~(r.in > Start(q).in) /\ NeedSeek(reader[q.src], q.pts)
    <2> DEFINE new == [texture[q.src] EXCEPT !.held = NoFrame]
               t == [texture EXCEPT ![q.src] = new]
    <2>1. LeftBehind(q, r) = t
        BY <1>2 DEF LeftBehind
    <2>2. new \in Textures /\ new.held = NoFrame /\ new.picture = texture[q.src].picture
          /\ new.lastRead = texture[q.src].lastRead
        BY DEF Domains, Textures, Frames
    <2> HIDE DEF new
    <2>3. t \in [Interop -> Textures] /\ t[q.src] = new
          /\ \A s \in Interop : s # q.src => t[s] = texture[s]
        BY <2>2 DEF Domains
    <2> HIDE DEF t
    <2> QED  BY <2>1, <2>2, <2>3 DEF Declinable
<1>3. CASE ~(r.in > Start(q).in) /\ ~NeedSeek(reader[q.src], q.pts)
    <2>1. LeftBehind(q, r) = texture
        BY <1>3 DEF LeftBehind
    <2> QED  BY <2>1 DEF Domains, Declinable
<1> QED  BY <1>1, <1>2, <1>3

\* What decode_interop leaves when it is no help.
DeclinedAs(q, d) ==
    \/ q.src \notin Interop /\ d.reader = reader[q.src] /\ d.texture = texture
    \/ /\ q.src \in Interop
       /\ \E v \in InVain(q) : /\ v.in > Start(q).in => MayWrite(q)
                               /\ d.reader = Unserved(q.src, v) /\ d.texture = LeftBehind(q, v)
    \/ /\ q.src \in Interop /\ MayWrite(q)
       /\ \E f \in GivenUpAt(q) :
            /\ d.reader = Unserved(q.src, After(q.src, Start(q), f))
            /\ d.texture = [texture EXCEPT ![q.src] = Spoilt(Blank)]

LEMMA EitherWay ==
    ASSUME NEW q, NEW d \in Declined(q)
    PROVE  DeclinedAs(q, d)
<1>1. CASE q.src \notin Interop
    BY <1>1 DEF Declined, DeclinedAs
<1>2. CASE q.src \in Interop
    <2> DEFINE vain(v) == [reader |-> Unserved(q.src, v), texture |-> LeftBehind(q, v)]
               lost(f) == [reader |-> Unserved(q.src, After(q.src, Start(q), f)),
                           texture |-> [texture EXCEPT ![q.src] = Spoilt(Blank)]]
               vs == {v \in InVain(q) : v.in > Start(q).in => MayWrite(q)}
               fs == {g \in GivenUpAt(q) : MayWrite(q)}
    <2>1. d \in {vain(v) : v \in vs} \cup {lost(f) : f \in fs}
        BY <1>2, Zenon DEF Declined
    <2>2. CASE d \in {vain(v) : v \in vs}
        <3>1. PICK v \in InVain(q) : (v.in > Start(q).in => MayWrite(q)) /\ d = vain(v)
            <4> HIDE DEF vain
            <4> QED  BY <2>2
        <3>2. d.reader = Unserved(q.src, v) /\ d.texture = LeftBehind(q, v)
            BY <3>1
        <3> QED  BY <1>2, <3>1, <3>2, Zenon DEF DeclinedAs
    <2>3. CASE d \in {lost(f) : f \in fs}
        <3>1. PICK f \in GivenUpAt(q) : MayWrite(q) /\ d = lost(f)
            <4> HIDE DEF lost
            <4> QED  BY <2>3
        <3>2. /\ d.reader = Unserved(q.src, After(q.src, Start(q), f))
              /\ d.texture = [texture EXCEPT ![q.src] = Spoilt(Blank)]
            BY <3>1
        <3> QED  BY <1>2, <3>1, <3>2, Zenon DEF DeclinedAs
    <2> QED  BY <2>1, <2>2, <2>3
<1> QED  BY <1>1, <1>2

LEMMA VainlyPlaced ==
    ASSUME NEW q, q.src \in Sources, NEW p, p = Start(q), Placed(q.src, p), NEW v \in InVain(q)
    PROVE  Placed(q.src, v)
<1> DEFINE s == q.src
<1>0. /\ p \in Readers /\ p.in \in Nat /\ p.out \in Nat /\ Length[s] \in Nat /\ p.in + 1 \in Nat
    BY Media DEF Placed, Readers
<1>1. CASE p.end # NoFrame
    <2>1. PICK halt \in Halts(s, p) : v = [p EXCEPT !.in = Min({p.in + 1, halt})]
        BY <1>1 DEF InVain
    <2> DEFINE i == Min({p.in + 1, halt})
    <2>2. halt \in Nat /\ halt <= Length[s]
        BY Halting
    <2>3. i \in Nat /\ i <= halt
        BY <1>0, <2>2, MinOfTwo
    <2>4. v = [p EXCEPT !.in = i]
        BY <2>1
    <2> HIDE DEF i
    <2> QED  BY <1>0, <1>1, <2>2, <2>3, <2>4 DEF Placed, Readers
<1>2. CASE p.end = NoFrame
    <2>1. PICK halt \in Halts(s, p) : v = Passed(s, p, halt)
        BY <1>2 DEF InVain
    <2>2. halt \in Nat /\ halt <= Length[s]
        BY Halting
    <2> QED  BY <2>1, <2>2, Passing
<1> QED  BY <1>1, <1>2

LEMMA GivenUpPlaced ==
    ASSUME NEW q, q.src \in Sources, NEW p, p = Start(q), Placed(q.src, p), NEW f \in GivenUpAt(q)
    PROVE  Placed(q.src, After(q.src, p, f))
<1> DEFINE s == q.src
           hs == Halts(s, p)
           t == After(s, p, f)
<1>0. /\ p \in Readers /\ p.from = p.last /\ Length[s] \in Nat /\ Delay[s] \in Nat
      /\ p.end <= Length[s]
    BY Media DEF Placed, Readers
<1>1. f \in AllFrames(s) /\ f + Delay[s] < Max(hs)
    BY DEF GivenUpAt
<1>2. Max(hs) \in hs
    <2>1. hs \in SUBSET (0 .. Length[s])
        <3> SUFFICES ASSUME NEW h \in hs  PROVE h \in 0 .. Length[s]
            OBVIOUS
        <3>1. h \in Nat /\ h <= Length[s]
            BY Halting
        <3> QED  BY <1>0, <3>1
    <2>2. hs # {}
        BY DEF Halts
    <2> HIDE DEF hs
    <2> QED  BY <1>0, <2>1, <2>2, MaxOf
<1>3. Max(hs) \in Nat /\ Max(hs) <= Length[s]
    <2> DEFINE m == Max(hs)
    <2>1. m \in Halts(s, p)
        BY <1>2
    <2> HIDE DEF m
    <2>2. m \in Nat /\ m <= Length[s]
        BY <2>1, Halting
    <2> QED  BY <2>2 DEF m
<1> HIDE DEF hs
<1>4. f \in Nat
    BY <1>1, Media
<1>5. /\ f + Delay[s] + 1 \in Nat /\ f + 1 \in Nat /\ f + Delay[s] + 1 <= Length[s]
      /\ f + 1 <= Length[s] /\ f + Delay[s] + 1 <= (f + 1) + Delay[s]
    BY <1>0, <1>1, <1>3, <1>4
<1>6. /\ t \in Readers /\ t.in = f + Delay[s] + 1 /\ t.out = f + 1 /\ t.end = p.end
      /\ t.last = p.last /\ t.from = p.from
    BY <1>0, <1>5 DEF After, Readers
<1> QED  BY <1>0, <1>5, <1>6 DEF Placed

LEMMA Declining ==
    ASSUME Domains, NEW q, q.src \in Sources, q.pts \in Nat, Tracked(q.src, reader[q.src]),
           NEW d \in Declined(q)
    PROVE  Tracked(q.src, d.reader) /\ Declinable(d.texture)
<1> DEFINE p == Start(q)
<1>1. Placed(q.src, p)
    BY Positioning DEF Start
<1>2. DeclinedAs(q, d)
    BY EitherWay
<1>3. CASE q.src \notin Interop
    BY <1>2, <1>3 DEF DeclinedAs, Domains, Declinable
<1> HIDE DEF p
<1>4. ASSUME q.src \in Interop, NEW v \in InVain(q), v.in > Start(q).in => MayWrite(q),
             d.reader = Unserved(q.src, v), d.texture = LeftBehind(q, v)
      PROVE  Tracked(q.src, d.reader) /\ Declinable(d.texture)
    <2>1. Placed(q.src, v)
        BY <1>1, VainlyPlaced DEF p
    <2>2. Tracked(q.src, d.reader)
        BY <1>4, <2>1, Forgotten
    <2>3. Declinable(LeftBehind(q, v))
        BY <1>4, LeavingBehind
    <2> QED  BY <1>4, <2>2, <2>3
<1>5. ASSUME q.src \in Interop, MayWrite(q), NEW f \in GivenUpAt(q),
             d.reader = Unserved(q.src, After(q.src, Start(q), f)),
             d.texture = [texture EXCEPT ![q.src] = Spoilt(Blank)]
      PROVE  Tracked(q.src, d.reader) /\ Declinable(d.texture)
    <2>1. Placed(q.src, After(q.src, Start(q), f))
        BY <1>1, GivenUpPlaced DEF p
    <2>2. Tracked(q.src, d.reader)
        BY <1>5, <2>1, Forgotten
    <2> QED  BY <1>5, <2>2, BlankPicture, Spoiling DEF MayWrite
<1> QED  BY <1>2, <1>3, <1>4, <1>5, Zenon DEF DeclinedAs

-----------------------------------------------------------------------------
(* The cache *)

LEMMA Members ==
    ASSUME NEW S, NEW ks \in Seq(S)
    PROVE  /\ Len(ks) \in Nat /\ DOMAIN ks = 1 .. Len(ks)
           /\ \A i \in 1 .. Len(ks) : ks[i] \in S /\ ks[i] \in ToSet(ks)
           /\ \A k \in ToSet(ks) : k \in S /\ \E i \in 1 .. Len(ks) : ks[i] = k
<1>1. Len(ks) \in Nat /\ DOMAIN ks = 1 .. Len(ks) /\ \A i \in 1 .. Len(ks) : ks[i] \in S
    BY LenProperties, ElementOfSeq
<1> QED  BY <1>1 DEF ToSet

LEMMA NoMembers ==
    ASSUME NEW S, NEW ks \in Seq(S), Len(ks) = 0
    PROVE  ToSet(ks) = {}
<1>1. \A i \in 1 .. Len(ks) : FALSE
    OBVIOUS
<1> QED  BY <1>1, Members

\* The index of some of the keys, the slots of the first e of them, and the
\* index with one more.
Part(ix, keys) == [k \in keys |-> ix[k]]
Given(ix, ks, e) == {ix[ks[i]] : i \in 1 .. e}
Grown(ix, keys, key, x) == [k \in keys \cup {key} |-> IF k = key THEN x ELSE ix[k]]

\* Without its first e keys.
LEMMA Dropping ==
    ASSUME NEW fr, NEW ix, NEW ks, Owned(fr, ix, ks), NEW e \in 0 .. Len(ks),
           NEW rest \in Seq(Keys), Len(rest) = Len(ks) - e,
           \A i \in 1 .. Len(rest) : rest[i] = ks[e + i]
    PROVE  /\ Owned(fr \cup Given(ix, ks, e), Part(ix, ToSet(rest)), rest)
           /\ ToSet(rest) \subseteq ToSet(ks)
<1> DEFINE gone == Given(ix, ks, e)
           left == Part(ix, ToSet(rest))
<1> USE DEF Given, Part
<1>0. /\ fr \subseteq Slots /\ ks \in Seq(Keys) /\ Len(ks) <= Capacity
      /\ \A i, j \in 1 .. Len(ks) : ks[i] = ks[j] => i = j
      /\ ix \in [ToSet(ks) -> Slots]
      /\ fr \cup {ix[k] : k \in ToSet(ks)} = Slots
      /\ \A k \in ToSet(ks) : ix[k] \notin fr
      /\ \A k, j \in ToSet(ks) : k # j => ix[k] # ix[j]
    BY DEF Owned
<1>1. Len(ks) \in Nat /\ Len(rest) \in Nat /\ e \in Nat /\ Capacity \in Nat
    BY <1>0, Members, PreviewAssumption
<1>2. \A i \in 1 .. Len(rest) : e + i \in 1 .. Len(ks) /\ ~(e + i <= e)
    BY <1>1
<1>3. \A i \in 1 .. e : i \in 1 .. Len(ks)
    BY <1>1
<1>4. ToSet(rest) \subseteq ToSet(ks)
    <2> SUFFICES ASSUME NEW k \in ToSet(rest)  PROVE k \in ToSet(ks)
        OBVIOUS
    <2>1. PICK i \in 1 .. Len(rest) : rest[i] = k
        BY Members
    <2>2. k = ks[e + i] /\ e + i \in 1 .. Len(ks)
        BY <1>2, <2>1
    <2> QED  BY <1>0, <2>2, Members
<1>5. \A k \in ToSet(ks) : k \in ToSet(rest) \/ \E i \in 1 .. e : ks[i] = k
    <2> SUFFICES ASSUME NEW k \in ToSet(ks), NEW i \in 1 .. Len(ks), ks[i] = k, ~(i \in 1 .. e)
                 PROVE  k \in ToSet(rest)
        BY <1>0, Members
    <2>1. i - e \in 1 .. Len(rest) /\ e + (i - e) = i
        BY <1>1
    <2>2. rest[i - e] = k
        BY <2>1
    <2> QED  BY <2>1, <2>2, Members
<1>6. \A k \in ToSet(rest), i \in 1 .. e : k # ks[i]
    <2> SUFFICES ASSUME NEW j \in 1 .. Len(rest), NEW i \in 1 .. e, rest[j] = ks[i]  PROVE FALSE
        BY Members, SMTT(30)
    <2>1. ks[e + j] = ks[i]
        OBVIOUS
    <2> QED  BY <1>0, <1>2, <1>3, <2>1
<1>7. gone \subseteq Slots
    BY <1>0, <1>3, Members
<1>8. \A i, j \in 1 .. Len(rest) : rest[i] = rest[j] => i = j
    <2> SUFFICES ASSUME NEW i \in 1 .. Len(rest), NEW j \in 1 .. Len(rest), rest[i] = rest[j]
                 PROVE  i = j
        OBVIOUS
    <2>1. e + i = e + j
        BY <1>0, <1>2
    <2> QED  BY <1>1, <2>1
<1>9. left \in [ToSet(rest) -> Slots] /\ \A k \in ToSet(rest) : left[k] = ix[k]
    BY <1>0, <1>4
<1>10. \A k \in ToSet(rest) : ix[k] \notin gone
    <2> SUFFICES ASSUME NEW k \in ToSet(rest), NEW i \in 1 .. e, ix[k] = ix[ks[i]]  PROVE FALSE
        OBVIOUS
    <2>1. ks[i] \in ToSet(ks) /\ k \in ToSet(ks) /\ k # ks[i]
        BY <1>0, <1>3, <1>4, <1>6, Members
    <2> QED  BY <1>0, <2>1
<1>11. \A k \in ToSet(rest) : left[k] \notin fr \cup gone
    BY <1>0, <1>4, <1>9, <1>10
<1>12. \A k, j \in ToSet(rest) : k # j => left[k] # left[j]
    BY <1>0, <1>4, <1>9
<1>13. (fr \cup gone) \cup {left[k] : k \in ToSet(rest)} = Slots
    <2>1. \A x \in Slots : x \in fr \/ x \in gone \/ \E k \in ToSet(rest) : x = left[k]
        BY <1>0, <1>5, <1>9
    <2>2. \A k \in ToSet(rest) : left[k] \in Slots
        BY <1>9
    <2> HIDE DEF left, gone
    <2> QED  BY <1>0, <1>7, <2>1, <2>2
<1>14. Len(rest) <= Capacity
    BY <1>0, <1>1
<1> HIDE DEF gone, left, Given, Part
<1>15. Owned(fr \cup gone, left, rest)
    BY <1>0, <1>7, <1>8, <1>9, <1>11, <1>12, <1>13, <1>14 DEF Owned
<1> QED  BY <1>4, <1>15 DEF gone, left

\* With one more key, for which slot x is taken from the pool.
LEMMA Adding ==
    ASSUME NEW fr, NEW ix, NEW ks, Owned(fr, ix, ks), NEW x \in fr, NEW key \in Keys,
           key \notin ToSet(ks), Len(ks) < Capacity
    PROVE  /\ Owned(fr \ {x}, Grown(ix, ToSet(ks), key, x), Append(ks, key))
           /\ ToSet(Append(ks, key)) = ToSet(ks) \cup {key}
<1> DEFINE more == Append(ks, key)
           new == Grown(ix, ToSet(ks), key, x)
<1>0. /\ fr \subseteq Slots /\ ks \in Seq(Keys) /\ Len(ks) <= Capacity
      /\ \A i, j \in 1 .. Len(ks) : ks[i] = ks[j] => i = j
      /\ ix \in [ToSet(ks) -> Slots]
      /\ fr \cup {ix[k] : k \in ToSet(ks)} = Slots
      /\ \A k \in ToSet(ks) : ix[k] \notin fr
      /\ \A k, j \in ToSet(ks) : k # j => ix[k] # ix[j]
    BY DEF Owned
<1>1. Len(ks) \in Nat /\ Capacity \in Nat
    BY <1>0, Members, PreviewAssumption
<1>2. /\ more \in Seq(Keys) /\ Len(more) = Len(ks) + 1
      /\ \A i \in 1 .. Len(ks) : more[i] = ks[i]
      /\ more[Len(ks) + 1] = key
    BY <1>0, AppendProperties
<1> HIDE DEF more
<1>3. \A i \in 1 .. Len(ks) + 1 : i \in 1 .. Len(ks) \/ i = Len(ks) + 1
    BY <1>1
<1>4. ToSet(more) = ToSet(ks) \cup {key}
    <2>1. \A i \in 1 .. Len(ks) : i \in 1 .. Len(more)
        BY <1>1, <1>2
    <2>2. Len(ks) + 1 \in 1 .. Len(more)
        BY <1>1, <1>2
    <2>3. \A k \in ToSet(ks) \cup {key} : k \in ToSet(more)
        BY <1>0, <1>2, <2>1, <2>2, Members
    <2>4. \A k \in ToSet(more) : k \in ToSet(ks) \cup {key}
        BY <1>0, <1>2, <1>3, Members
    <2> QED  BY <2>3, <2>4
<1>6. new \in [ToSet(more) -> Slots] /\ new[key] = x /\ \A k \in ToSet(ks) : new[k] = ix[k]
    BY <1>0, <1>4 DEF Grown
<1> HIDE DEF new
<1>7. \A i, j \in 1 .. Len(more) : more[i] = more[j] => i = j
    <2> SUFFICES ASSUME NEW i \in 1 .. Len(more), NEW j \in 1 .. Len(more), more[i] = more[j]
                 PROVE  i = j
        OBVIOUS
    <2>1. \A h \in 1 .. Len(ks) : more[h] # key
        BY <1>0, <1>2, Members
    <2> QED  BY <1>0, <1>2, <1>3, <2>1
<1>8. (fr \ {x}) \cup {new[k] : k \in ToSet(more)} = Slots
    <2>1. \A y \in Slots : y \in fr \ {x} \/ y = new[key] \/ \E k \in ToSet(ks) : y = new[k]
        BY <1>0, <1>6
    <2>2. \A k \in ToSet(more) : new[k] \in Slots
        BY <1>6
    <2> QED  BY <1>0, <1>4, <2>1, <2>2
<1>9. \A k \in ToSet(more) : new[k] \notin fr \ {x}
    BY <1>0, <1>4, <1>6
<1>10. \A k, j \in ToSet(more) : k # j => new[k] # new[j]
    BY <1>0, <1>4, <1>6
<1>11. Len(more) <= Capacity /\ fr \ {x} \subseteq Slots
    BY <1>0, <1>1, <1>2
<1>12. Owned(fr \ {x}, new, more)
    BY <1>2, <1>6, <1>7, <1>8, <1>9, <1>10, <1>11 DEF Owned
<1> QED  BY <1>4, <1>12 DEF more, new

\* A key moved to the end stays a member, and so do the others, in the order
\* they had.
Reordered(ws, ks, key) ==
    /\ Len(ws) = Len(ks)
    /\ \A a, b \in 1 .. Len(ks) :
         a < b => /\ ws[a] # key
                  /\ \/ ws[b] = key
                     \/ \E c, d \in 1 .. Len(ks) : c < d /\ ws[a] = ks[c] /\ ws[b] = ks[d]

LEMMA Promoting ==
    ASSUME NEW fr, NEW ix, NEW ks, Owned(fr, ix, ks), NEW key \in ToSet(ks)
    PROVE  /\ Owned(fr, ix, Promoted(ks, key)) /\ ToSet(Promoted(ks, key)) = ToSet(ks)
           /\ Reordered(Promoted(ks, key), ks, key)
<1> DEFINE n == Len(ks)
           i == CHOOSE j \in DOMAIN ks : ks[j] = key
           front == SubSeq(ks, 1, i - 1)
           back == SubSeq(ks, i + 1, n)
           less == front \o back
           more == Append(less, key)
           from(j) == IF j < i THEN j ELSE IF j < n THEN j + 1 ELSE i
<1>0. /\ ks \in Seq(Keys) /\ n <= Capacity
      /\ \A a, b \in 1 .. n : ks[a] = ks[b] => a = b
    BY DEF Owned
<1>1. /\ n \in Nat /\ DOMAIN ks = 1 .. n /\ (\A j \in 1 .. n : ks[j] \in Keys)
      /\ key \in Keys /\ \E j \in 1 .. n : ks[j] = key
    BY <1>0, Members
<1>2. i \in 1 .. n /\ ks[i] = key
    BY <1>1
<1>3. more = Promoted(ks, key)
    BY DEF Promoted, RemoveAt
<1> HIDE DEF n, i
<1>4. /\ front \in Seq(Keys) /\ Len(front) = i - 1
      /\ \A j \in 1 .. i - 1 : front[j] = ks[j]
    <2>1. 1 \in Int /\ i - 1 \in Int /\ \A j \in 1 .. i - 1 : ks[j] \in Keys
        BY <1>1, <1>2
    <2>2. /\ front \in Seq(Keys) /\ Len(front) = (IF 1 <= i - 1 THEN i - 1 - 1 + 1 ELSE 0)
          /\ \A j \in 1 .. i - 1 - 1 + 1 : front[j] = ks[1 + j - 1]
        BY <2>1, SubSeqProperties
    <2> HIDE DEF front
    <2>3. \A j \in 1 .. i - 1 : 1 + j - 1 = j /\ j \in 1 .. i - 1 - 1 + 1
        BY <1>1, <1>2
    <2> QED  BY <1>1, <1>2, <2>2, <2>3
<1>5. /\ back \in Seq(Keys) /\ Len(back) = n - i
      /\ \A j \in 1 .. n - i : back[j] = ks[i + j]
    <2>1. i + 1 \in Int /\ n \in Int /\ \A j \in i + 1 .. n : ks[j] \in Keys
        BY <1>1, <1>2
    <2>2. /\ back \in Seq(Keys) /\ Len(back) = (IF i + 1 <= n THEN n - (i + 1) + 1 ELSE 0)
          /\ \A j \in 1 .. n - (i + 1) + 1 : back[j] = ks[i + 1 + j - 1]
        BY <2>1, SubSeqProperties
    <2> HIDE DEF back
    <2>3. \A j \in 1 .. n - i : i + 1 + j - 1 = i + j /\ j \in 1 .. n - (i + 1) + 1
        BY <1>1, <1>2
    <2> QED  BY <1>1, <1>2, <2>2, <2>3
<1> HIDE DEF front, back
<1>6. /\ less \in Seq(Keys) /\ Len(less) = n - 1
      /\ \A j \in 1 .. n - 1 : less[j] = IF j <= i - 1 THEN front[j] ELSE back[j - (i - 1)]
    <2>1. /\ less \in Seq(Keys) /\ Len(less) = Len(front) + Len(back)
          /\ \A j \in 1 .. Len(front) + Len(back) :
               less[j] = IF j <= Len(front) THEN front[j] ELSE back[j - Len(front)]
        BY <1>4, <1>5, ConcatProperties
    <2> HIDE DEF less
    <2>2. Len(front) + Len(back) = n - 1
        BY <1>1, <1>2, <1>4, <1>5
    <2> QED  BY <1>4, <2>1, <2>2
<1> HIDE DEF less
<1>7. /\ more \in Seq(Keys) /\ Len(more) = n
      /\ \A j \in 1 .. n - 1 : more[j] = less[j]
      /\ more[n] = key
    <2>1. /\ more \in Seq(Keys) /\ Len(more) = Len(less) + 1
          /\ \A j \in 1 .. Len(less) : more[j] = less[j]
          /\ more[Len(less) + 1] = key
        BY <1>1, <1>6, AppendProperties
    <2> HIDE DEF more
    <2>2. n - 1 + 1 = n
        BY <1>1
    <2> QED  BY <1>6, <2>1, <2>2
<1> HIDE DEF more
<1>8. \A j \in 1 .. n : from(j) \in 1 .. n /\ more[j] = ks[from(j)]
    <2> SUFFICES ASSUME NEW j \in 1 .. n  PROVE from(j) \in 1 .. n /\ more[j] = ks[from(j)]
        OBVIOUS
    <2>1. CASE j < i
        <3>1. j \in 1 .. n - 1 /\ j <= i - 1 /\ j \in 1 .. i - 1
            BY <1>1, <1>2, <2>1
        <3> QED  BY <1>4, <1>6, <1>7, <2>1, <3>1
    <2>2. CASE ~(j < i) /\ j < n
        <3>1. j \in 1 .. n - 1 /\ ~(j <= i - 1) /\ j - (i - 1) \in 1 .. n - i
              /\ i + (j - (i - 1)) = j + 1 /\ j + 1 \in 1 .. n
            BY <1>1, <1>2, <2>2
        <3>2. more[j] = back[j - (i - 1)]
            BY <1>6, <1>7, <3>1
        <3>3. back[j - (i - 1)] = ks[j + 1]
            BY <1>5, <3>1
        <3> QED  BY <2>2, <3>1, <3>2, <3>3
    <2>3. CASE ~(j < i) /\ ~(j < n)
        <3>1. j = n
            BY <1>1, <2>3
        <3> QED  BY <1>2, <1>7, <2>3, <3>1
    <2> QED  BY <2>1, <2>2, <2>3
<1>9. \A a, b \in 1 .. n : from(a) = from(b) => a = b
    BY <1>1, <1>2
<1>10. Reordered(more, ks, key)
    <2>1. ASSUME NEW a \in 1 .. n, NEW b \in 1 .. n, a < b, b < n
          PROVE  from(a) < from(b)
        BY <1>1, <1>2, <2>1
    <2>2. \A b \in 1 .. n : b < n \/ b = n
        BY <1>1
    <2> HIDE DEF from
    <2>3. ASSUME NEW a \in 1 .. n, NEW b \in 1 .. n, a < b
          PROVE  /\ more[a] # key
                 /\ \/ more[b] = key
                    \/ \E c, d \in 1 .. n : c < d /\ more[a] = ks[c] /\ more[b] = ks[d]
        <3>1. more[a] # key
            <4> SUFFICES ASSUME more[a] = key  PROVE FALSE
                OBVIOUS
            <4>1. ks[from(a)] = ks[from(n)] /\ n \in 1 .. n
                BY <1>1, <1>7, <1>8, SMTT(30)
            <4>2. a = n
                BY <1>0, <1>8, <1>9, <4>1
            <4> QED  BY <1>1, <2>3, <4>2
        <3>2. CASE b = n
            BY <1>7, <3>1, <3>2
        <3>3. CASE b < n
            BY <1>8, <2>1, <2>3, <3>1, <3>3
        <3> QED  BY <2>2, <3>1, <3>2, <3>3
    <2> QED  BY <1>7, <2>3 DEF Reordered, n
<1>11. \A h \in 1 .. n : \E j \in 1 .. n : from(j) = h
    <2> SUFFICES ASSUME NEW h \in 1 .. n  PROVE \E j \in 1 .. n : from(j) = h
        OBVIOUS
    <2>1. CASE h < i
        <3>1. from(h) = h
            BY <2>1
        <3> QED  BY <3>1
    <2>2. CASE h = i
        <3>1. from(n) = i /\ n \in 1 .. n
            BY <1>1, <1>2
        <3> QED  BY <2>2, <3>1
    <2>3. CASE h > i
        <3>1. from(h - 1) = h /\ h - 1 \in 1 .. n
            BY <1>1, <1>2, <2>3
        <3> QED  BY <3>1
    <2> QED  BY <1>1, <1>2, <2>1, <2>2, <2>3
<1> HIDE DEF from
<1>12. \A a, b \in 1 .. n : more[a] = more[b] => a = b
    BY <1>0, <1>8, <1>9
<1>13. ToSet(more) = ToSet(ks)
    <2>1. \A k \in ToSet(more) : k \in ToSet(ks)
        <3> SUFFICES ASSUME NEW j \in 1 .. n  PROVE more[j] \in ToSet(ks)
            BY <1>7, Members
        <3> QED  BY <1>0, <1>8, Members DEF n
    <2>2. \A k \in ToSet(ks) : k \in ToSet(more)
        <3> SUFFICES ASSUME NEW h \in 1 .. n  PROVE ks[h] \in ToSet(more)
            BY <1>0, Members DEF n
        <3>1. PICK j \in 1 .. n : from(j) = h
            BY <1>11
        <3> QED  BY <1>7, <1>8, <3>1, Members
    <2> QED  BY <2>1, <2>2
<1> QED  BY <1>0, <1>3, <1>7, <1>10, <1>12, <1>13 DEF Owned

\* What insert does to a cache that does not know the key.
LEMMA Inserting ==
    ASSUME NEW fr, NEW ks, Owned(fr, Part(index, ToSet(ks)), ks), NEW x \in fr,
           NEW key \in Keys, key \notin ToSet(ks)
    PROVE  /\ Owned((fr \ {x}) \cup Released(ks), With(ToSet(WithRoom(ks)), key, x),
                    Append(WithRoom(ks), key))
           /\ ToSet(Append(WithRoom(ks), key)) = ToSet(WithRoom(ks)) \cup {key}
           /\ ToSet(WithRoom(ks)) \subseteq ToSet(ks)
<1> DEFINE ix == Part(index, ToSet(ks))
           ws == WithRoom(ks)
           rel == Released(ks)
           left == Part(ix, ToSet(ws))
<1>0. ks \in Seq(Keys) /\ Len(ks) \in Nat /\ Len(ks) <= Capacity /\ Capacity \in Nat /\ Capacity > 0
    BY Members, PreviewAssumption DEF Owned
<1>1. Owned(fr \cup rel, left, ws) /\ ToSet(ws) \subseteq ToSet(ks) /\ Len(ws) < Capacity
      /\ x \notin rel
    <2>1. CASE Len(ks) >= Capacity
        <3>1. ks # <<>>
            BY <1>0, <2>1, EmptySeq
        <3>2. ws = Tail(ks) /\ rel = {index[Head(ks)]}
            BY <2>1 DEF WithRoom, Released
        <3>3. /\ Tail(ks) \in Seq(Keys) /\ Len(Tail(ks)) = Len(ks) - 1
              /\ \A i \in 1 .. Len(Tail(ks)) : Tail(ks)[i] = ks[i + 1]
            BY <1>0, <3>1, HeadTailProperties
        <3>4. Head(ks) = ks[1] /\ 1 \in 1 .. Len(ks) /\ ks[1] \in ToSet(ks)
            <4>1. Head(ks) = ks[1]
                BY <1>0, <3>1
            <4>2. 1 \in 1 .. Len(ks)
                BY <1>0, <2>1
            <4> QED  BY <1>0, <4>1, <4>2, Members
        <3>5. ix[ks[1]] = index[ks[1]] /\ ix[ks[1]] \notin fr
            BY <3>4 DEF Owned, Part
        <3>6. rel = Given(ix, ks, 1)
            BY <3>2, <3>4, <3>5 DEF Given
        <3>7. x \notin rel
            BY <3>2, <3>4, <3>5
        <3> HIDE DEF ix, ws, rel
        <3>8. ws \in Seq(Keys) /\ Len(ws) = Len(ks) - 1 /\ 1 \in 0 .. Len(ks)
              /\ \A i \in 1 .. Len(ws) : ws[i] = ks[1 + i]
            <4>1. \A i \in 1 .. Len(ws) : ws[i] = ks[i + 1] /\ i + 1 = 1 + i
                BY <3>2, <3>3
            <4> QED  BY <1>0, <2>1, <3>2, <3>3, <4>1
        <3>9. Owned(fr, ix, ks)
            BY DEF ix
        <3>10. Owned(fr \cup rel, left, ws) /\ ToSet(ws) \subseteq ToSet(ks)
            BY <3>6, <3>8, <3>9, Dropping
        <3>11. Len(ws) < Capacity
            BY <1>0, <3>8
        <3> QED  BY <3>7, <3>10, <3>11
    <2>2. CASE ~(Len(ks) >= Capacity)
        <3>1. ws = ks /\ rel = {}
            BY <2>2 DEF WithRoom, Released
        <3>2. left = ix
            BY <3>1 DEF Part
        <3>3. fr \cup rel = fr
            BY <3>1
        <3> HIDE DEF left, ix, ws, rel
        <3>4. Owned(fr, ix, ks)
            BY DEF ix
        <3> QED  BY <1>0, <2>2, <3>1, <3>2, <3>3, <3>4
    <2> QED  BY <2>1, <2>2
<1>2. With(ToSet(ws), key, x) = Grown(left, ToSet(ws), key, x)
    <2>1. \A k \in ToSet(ws) : left[k] = index[k]
        BY <1>1 DEF Part
    <2> HIDE DEF left, ws
    <2> QED  BY <2>1 DEF With, Grown
<1>3. (fr \ {x}) \cup rel = (fr \cup rel) \ {x}
    BY <1>1
<1>4. key \notin ToSet(ws) /\ x \in fr \cup rel
    BY <1>1
<1> HIDE DEF ws, rel, left
<1>5. /\ Owned((fr \cup rel) \ {x}, Grown(left, ToSet(ws), key, x), Append(ws, key))
      /\ ToSet(Append(ws, key)) = ToSet(ws) \cup {key}
    BY <1>1, <1>4, Adding
<1> QED  BY <1>1, <1>2, <1>3, <1>5 DEF ws, rel

\* The keys left when there is room for a picture of source s.
Rest(s) == SubSeq(lru, Evictions(s) + 1, Len(lru))

\* List ws is ks without its first m keys.
Later(ws, ks, m) ==
    /\ m \in 0 .. Len(ks) /\ ws \in Seq(Keys) /\ Len(ws) = Len(ks) - m
    /\ \A i \in 1 .. Len(ws) : ws[i] = ks[m + i]

\* No fewer evictions would do.
LEMMA Remaining ==
    ASSUME lru \in Seq(Keys), NEW s
    PROVE  /\ Later(Rest(s), lru, Evictions(s))
           /\ \A i \in 0 .. Evictions(s) - 1 : FreeAfter(i) \cap Fitting(s) = {}
<1> DEFINE n == Len(lru)
           rest == Rest(s)
           enough == {e \in 0 .. n : FreeAfter(e) \cap Fitting(s) # {}}
           e == Evictions(s)
<1>0. n \in Nat /\ \A i \in 1 .. n : lru[i] \in Keys
    BY Members
<1>1. e \in 0 .. n /\ \A i \in enough : e <= i
    <2>1. CASE enough = {}
        BY <1>0, <2>1 DEF Evictions
    <2>2. CASE enough # {}
        <3>1. enough \in SUBSET Nat
            BY <1>0
        <3>2. e = Min(enough)
            BY <2>2 DEF Evictions
        <3>3. Min(enough) \in enough /\ \A i \in enough : Min(enough) <= i
            <4> HIDE DEF enough
            <4> QED  BY <2>2, <3>1, MinOf
        <3> QED  BY <3>2, <3>3
    <2> QED  BY <2>1, <2>2
<1>2. \A i \in 0 .. e - 1 : FreeAfter(i) \cap Fitting(s) = {}
    <2> HIDE DEF e
    <2> QED  BY <1>0, <1>1
<1> HIDE DEF n, e, enough
<1>3. e + 1 \in Int /\ n \in Int /\ \A i \in e + 1 .. n : lru[i] \in Keys
    BY <1>0, <1>1
<1>4. /\ rest \in Seq(Keys) /\ Len(rest) = IF e + 1 <= n THEN n - (e + 1) + 1 ELSE 0
      /\ \A i \in 1 .. n - (e + 1) + 1 : rest[i] = lru[e + 1 + i - 1]
    <2> DEFINE part == SubSeq(lru, e + 1, n)
    <2>1. /\ part \in Seq(Keys) /\ Len(part) = IF e + 1 <= n THEN n - (e + 1) + 1 ELSE 0
          /\ \A i \in 1 .. n - (e + 1) + 1 : part[i] = lru[e + 1 + i - 1]
        BY <1>3, SubSeqProperties
    <2>2. part = rest
        BY DEF n, e, Rest
    <2> HIDE DEF part, rest
    <2> QED  BY <2>1, <2>2
<1> HIDE DEF rest
<1>5. Len(rest) = n - e
    BY <1>0, <1>1, <1>4
<1>6. \A i \in 1 .. Len(rest) : rest[i] = lru[e + i]
    <2>1. \A i \in 1 .. n - e : e + 1 + i - 1 = e + i /\ i \in 1 .. n - (e + 1) + 1
        BY <1>0, <1>1
    <2> QED  BY <1>4, <1>5, <2>1
<1>7. Later(rest, lru, e)
    BY <1>1, <1>4, <1>5, <1>6 DEF Later, n
<1> QED  BY <1>2, <1>7 DEF rest, e

LEMMA Evicting ==
    ASSUME Owned(free, index, lru), NEW s
    PROVE  /\ Owned(FreeAfter(Evictions(s)), Part(index, ToSet(Rest(s))), Rest(s))
           /\ ToSet(Rest(s)) \subseteq ToSet(lru)
<1>1. Later(Rest(s), lru, Evictions(s))
    BY Remaining DEF Owned
<1>2. FreeAfter(Evictions(s)) = free \cup Given(index, lru, Evictions(s))
    BY DEF FreeAfter, Given
<1>3. /\ Owned(free \cup Given(index, lru, Evictions(s)), Part(index, ToSet(Rest(s))), Rest(s))
      /\ ToSet(Rest(s)) \subseteq ToSet(lru)
    BY <1>1, Dropping DEF Later
<1> QED  BY <1>2, <1>3

LEMMA KeptIsPart == ASSUME NEW keys PROVE Kept(keys) = Part(index, keys)
BY DEF Kept, Part

\* The list names each key once.
LEMMA Counting ==
    ASSUME NEW fr, NEW ix, NEW ks, Owned(fr, ix, ks)
    PROVE  Len(ks) = Cardinality(ToSet(ks))
<1>1. /\ ks \in Seq(Keys) /\ Len(ks) \in Nat
      /\ \A i, j \in 1 .. Len(ks) : ks[i] = ks[j] => i = j
    BY Members DEF Owned
<1>2. ks \in [1 .. Len(ks) -> ToSet(ks)] /\ \A k \in ToSet(ks) : \E i \in 1 .. Len(ks) : ks[i] = k
    <2>1. ks = [i \in 1 .. Len(ks) |-> ks[i]]
        BY <1>1, LenProperties
    <2> QED  BY <1>1, <2>1, Members
<1>3. ks \in Bijection(1 .. Len(ks), ToSet(ks))
    <2>1. DOMAIN ks = 1 .. Len(ks)
        BY <1>2
    <2>2. IsInjective(ks)
        BY <1>1, <2>1 DEF IsInjective
    <2> QED  BY <1>2, <2>2 DEF Bijection, Injection, Surjection
<1>4. ExistsBijection(1 .. Len(ks), ToSet(ks))
    BY <1>3 DEF ExistsBijection
<1> QED  BY <1>1, <1>4, FS_CountingElements

\* The cache of a new project.
LEMMA Empty == Owned(Slots, <<>>, <<>>)
<1>1. <<>> \in Seq(Keys) /\ Len(<<>>) = 0
    OBVIOUS
<1>2. ToSet(<<>>) = {}
    BY <1>1, NoMembers
<1>3. \A i \in 1 .. Len(<<>>) : FALSE
    BY <1>1
<1>4. <<>> \in [{} -> Slots]
    OBVIOUS
<1>5. Len(<<>>) <= Capacity
    BY <1>1, PreviewAssumption
<1> DEFINE none == <<>>
<1>6. /\ none \in Seq(Keys) /\ Len(none) <= Capacity /\ ToSet(none) = {}
      /\ \A i \in 1 .. Len(none) : FALSE
      /\ none \in [{} -> Slots]
    BY <1>1, <1>2, <1>3, <1>4, <1>5
<1> HIDE DEF none
<1>7. Slots \cup {none[k] : k \in ToSet(none)} = Slots
    BY <1>6
<1>8. Owned(Slots, none, none)
    BY <1>6, <1>7 DEF Owned
<1> QED  BY <1>8 DEF none

-----------------------------------------------------------------------------
(* The steps *)

CacheTrue(ix, px) == \A k \in DOMAIN ix : TrueTo(px[ix[k]], k.src, k.pts)
HeldTrue(t) == \A s \in Interop : t[s].held # NoFrame => TrueTo(t[s].picture, s, t[s].held)

\* A texture is written only after what read it last is finished.
WrittenLate(t) ==
    \A s \in Interop :
        \/ t[s].picture = texture[s].picture /\ t[s].lastRead = texture[s].lastRead
        \/ Finished(texture[s].lastRead)

TypedEntries(es) == \A e \in es : e.kind = "texture" => e.src \in Interop

LEMMA OpenedTracked ==
    ASSUME NEW s \in Sources
    PROVE  Tracked(s, Opened)
<1>1. /\ Opened \in Readers /\ Opened.in = 0 /\ Opened.out = 0 /\ Opened.end = -1
      /\ Opened.from = Opened.last
    BY DEF Opened, Readers, Frames, NoFrame
<1>2. Length[s] \in Nat /\ Delay[s] \in Nat /\ \A f \in AllFrames(s) : ~(f < 0)
    BY Media
<1> QED  BY <1>1, <1>2 DEF Tracked, Placed

LEMMA Initially == Init => IInv
<1> SUFFICES ASSUME Init  PROVE IInv
    OBVIOUS
<1> USE DEF Init
<1>1. NoTexture \in Textures /\ NoTexture.held = NoFrame
    BY BlankPicture DEF NoTexture, Textures, Frames
<1>2. \A s \in Sources : Tracked(s, Opened)
    <2> SUFFICES ASSUME NEW s \in Sources  PROVE Tracked(s, Opened)
        OBVIOUS
    <2> QED  BY OpenedTracked
<1>3. reader \in [Sources -> Readers]
    BY DEF Opened, Readers, Frames, NoFrame
<1>4. texture \in [Interop -> Textures] /\ pixels \in [Slots -> Pictures]
    BY <1>1, BlankPicture
<1>5. queue \in Seq([id : Nat, reads : Reads]) /\ Len(queue) = 0
    OBVIOUS
<1>6. Domains
    BY <1>3, <1>4, <1>5 DEF Domains
<1>7. Owned(free, index, lru)
    BY Empty
<1>8. DOMAIN index = {}
    OBVIOUS
<1>9. PicturesAreTrue
    BY <1>1, <1>8 DEF PicturesAreTrue
<1>10. Sampling
    <2>1. \A i \in 1 .. Len(queue) : FALSE
        BY <1>5
    <2> QED  BY <2>1 DEF Sampling
<1>11. \A s \in Sources : Tracked(s, reader[s])
    BY <1>2
<1> QED  BY <1>6, <1>7, <1>9, <1>10, <1>11 DEF IInv

LEMMA KeepingSampling ==
    ASSUME Domains, Sampling, queue' = queue, WrittenLate(texture')
    PROVE  Sampling'
<1> SUFFICES ASSUME NEW i \in 1 .. Len(queue), NEW s \in DOMAIN queue[i].reads
             PROVE  /\ s \in Interop
                    /\ texture'[s].picture = queue[i].reads[s]
                    /\ \E j \in i .. Len(queue) : queue[j].id = texture'[s].lastRead
    BY DEF Sampling
<1>1. /\ s \in Interop /\ texture[s].picture = queue[i].reads[s]
      /\ \E j \in i .. Len(queue) : queue[j].id = texture[s].lastRead
    BY DEF Sampling
<1>2. ~Finished(texture[s].lastRead)
    <2>1. PICK j \in i .. Len(queue) : queue[j].id = texture[s].lastRead
        BY <1>1
    <2>2. DOMAIN queue = 1 .. Len(queue) /\ Len(queue) \in Nat
        BY Members DEF Domains
    <2>3. j \in DOMAIN queue
        BY <2>2
    <2> QED  BY <2>1, <2>3 DEF Finished
<1> QED  BY <1>1, <1>2 DEF WrittenLate

\* What serving a clip has to keep.
LEMMA Serving ==
    ASSUME IInv, NEW q \in todo, todo' = todo \ {q}, UNCHANGED <<project, queue, frames>>,
           \A s \in Sources : Tracked(s, reader'[s]), reader' \in [Sources -> Readers],
           texture' \in [Interop -> Textures], WrittenLate(texture'), HeldTrue(texture'),
           Owned(free', index', lru'), pixels' \in [Slots -> Pictures],
           CacheTrue(index', pixels'), TypedEntries(entries')
    PROVE  IInv'
<1>1. Domains'
    BY DEF IInv, Domains, TypedEntries
<1>2. Sampling'
    BY KeepingSampling DEF IInv
<1>3. PicturesAreTrue'
    BY DEF PicturesAreTrue, CacheTrue, HeldTrue, TrueTo
<1>4. Owned(free, index, lru)'
    BY DEF Owned
<1>5. (\A s \in Sources : Tracked(s, reader[s]))'
    BY DEF Tracked, Placed
<1> QED  BY <1>1, <1>2, <1>3, <1>4, <1>5 DEF IInv

LEMMA Moving ==
    ASSUME Domains, \A s \in Sources : Tracked(s, reader[s]), NEW s \in Sources,
           NEW r, Tracked(s, r), reader' = [reader EXCEPT ![s] = r]
    PROVE  reader' \in [Sources -> Readers] /\ \A t \in Sources : Tracked(t, reader'[t])
<1>1. r \in Readers
    BY DEF Tracked, Placed
<1>2. reader' \in [Sources -> Readers] /\ reader'[s] = r
      /\ \A t \in Sources : t # s => reader'[t] = reader[t]
    BY <1>1 DEF Domains
<1> QED  BY <1>2

LEMMA Declinables ==
    ASSUME IInv, NEW t, Declinable(t)
    PROVE  t \in [Interop -> Textures] /\ WrittenLate(t) /\ HeldTrue(t)
BY DEF IInv, Declinable, WrittenLate, HeldTrue, PicturesAreTrue

LEMMA Cached == ASSUME IInv PROVE DOMAIN index = ToSet(lru) /\ CacheTrue(index, pixels)
BY DEF IInv, PicturesAreTrue, CacheTrue, Owned

LEMMA OfAClip ==
    ASSUME IInv, NEW q \in todo
    PROVE  /\ q.src \in Sources /\ q.pts \in Nat /\ Tracked(q.src, reader[q.src])
           /\ Key(q.src, q.pts) \in Keys
BY DEF IInv, Domains, Key, Keys

LEMMA ServingResident ==
    ASSUME IInv, NEW q \in todo, todo' = todo \ {q}, UNCHANGED <<project, queue, frames>>,
           ServeResident(q)
    PROVE  IInv'
<1>1. UNCHANGED <<reader, texture, free, index, lru, pixels>> /\ q.src \in Interop
      /\ entries' = entries \cup {TextureEntry(q)}
    BY DEF ServeResident, ioVars, Enter
<1>2. TypedEntries(entries')
    BY <1>1 DEF TextureEntry, TypedEntries, IInv, Domains
<1>3. Domains /\ Owned(free, index, lru) /\ \A s \in Sources : Tracked(s, reader[s])
    BY DEF IInv
<1>4. Declinable(texture)
    BY <1>3 DEF Declinable, Domains
<1>5. reader \in [Sources -> Readers] /\ pixels \in [Slots -> Pictures]
    BY <1>3 DEF Domains
<1>6. texture \in [Interop -> Textures] /\ WrittenLate(texture) /\ HeldTrue(texture)
    BY <1>4, Declinables
<1> QED  BY <1>1, <1>2, <1>3, <1>5, <1>6, Cached, Serving

LEMMA ServingInterop ==
    ASSUME IInv, NEW q \in todo, todo' = todo \ {q}, UNCHANGED <<project, queue, frames>>,
           ServeInterop(q)
    PROVE  IInv'
<1> DEFINE s == q.src
           n == q.pts
           p == Start(q)
           res(halt) == ReadForward(s, p, n, halt)
           r(halt) == Served(s, res(halt).r, n, res(halt).found)
           made(halt) == [held |-> n, picture |-> Picture(s, res(halt).found, p, n), lastRead |-> 0]
<1>0. /\ s \in Sources /\ n \in Nat /\ Tracked(s, reader[s]) /\ s \in Interop
      /\ Domains /\ Owned(free, index, lru)
      /\ \A t \in Sources : Tracked(t, reader[t])
    BY OfAClip DEF IInv, ServeInterop
<1>1. /\ MayWrite(q)
      /\ UNCHANGED <<free, index, lru, pixels>>
      /\ entries' = entries \cup {TextureEntry(q)}
    BY DEF ServeInterop, Enter
<1>a. PICK halt \in Halts(s, p) :
        /\ res(halt).found # NoFrame
        /\ reader' = [reader EXCEPT ![s] = r(halt)]
        /\ texture' = [texture EXCEPT ![s] = made(halt)]
    BY DEF ServeInterop
<1> DEFINE new == made(halt)
           f == res(halt).found
<1>2. Placed(s, p) /\ Clear(s, p, n)
    BY <1>0, Positioning DEF Start
<1> HIDE DEF p, r
<1>3. Placed(s, res(halt).r) /\ res(halt).r.out = f + 1 /\ Right(s, f, n, ~Behind(p, n))
    <2> DEFINE sure == ~Behind(p, n)
               x == res(halt)
    <2>1. halt \in Nat /\ halt <= Length[s] /\ sure \in BOOLEAN /\ (sure => Below(s, p.out, n))
        BY <1>0, <1>2, Halting DEF Clear
    <2>2. x = ReadForward(s, p, n, halt) /\ x.found # NoFrame
        BY <1>a
    <2> HIDE DEF x, sure
    <2>3. Placed(s, x.r) /\ x.r.out = x.found + 1 /\ Right(s, x.found, n, sure)
        BY <1>0, <1>2, <2>1, <2>2, ReadingForward, SMTT(30)
    <2> QED  BY <2>3 DEF x, sure
<1> HIDE DEF res
<1>4. f \in AllFrames(s) /\ f \in Nat
    BY <1>0, <1>3, Media DEF Right
<1>5. Tracked(s, r(halt))
    <2>1. r(halt) = Served(s, res(halt).r, n, f)
        BY DEF r
    <2> QED  BY <1>0, <1>3, <1>4, <2>1, Recorded
<1>6. Finished(texture[s].lastRead)
    BY <1>1 DEF MayWrite
<1>7. /\ new \in Textures /\ new.held = n /\ TrueTo(new.picture, s, n)
    <2> DEFINE picture == Picture(s, f, p, n)
    <2>1. /\ picture \in Pictures /\ picture.src = s /\ picture.frame = f
          /\ picture.project = project /\ picture.sure = ~Behind(p, n)
        BY <1>0, <1>4, Decoded
    <2> HIDE DEF picture
    <2>2. TrueTo(picture, s, n)
        BY <1>3, <2>1 DEF TrueTo, Right
    <2>3. n \in Frames
        BY <1>0 DEF Frames
    <2>4. new = [held |-> n, picture |-> picture, lastRead |-> 0]
        BY DEF picture
    <2> HIDE DEF new
    <2> QED  BY <2>1, <2>2, <2>3, <2>4 DEF Textures
<1> HIDE DEF new, made
<1>8. texture' \in [Interop -> Textures] /\ texture'[s] = new
      /\ \A t \in Interop : t # s => texture'[t] = texture[t]
    BY <1>0, <1>a, <1>7 DEF Domains, new
<1>9. WrittenLate(texture')
    BY <1>6, <1>8 DEF WrittenLate
<1>10. HeldTrue(texture')
    BY <1>7, <1>8 DEF HeldTrue, IInv, PicturesAreTrue
<1>11. TypedEntries(entries')
    BY <1>0, <1>1 DEF TextureEntry, TypedEntries, Domains
<1>12. reader' \in [Sources -> Readers] /\ \A t \in Sources : Tracked(t, reader'[t])
    <2> HIDE DEF s
    <2> QED  BY <1>0, <1>a, <1>5, Moving
<1>13. pixels \in [Slots -> Pictures]
    BY <1>0 DEF Domains
<1> QED  BY <1>0, <1>1, <1>8, <1>9, <1>10, <1>11, <1>12, <1>13, Cached, Serving

LEMMA ServingCached ==
    ASSUME IInv, NEW q \in todo, todo' = todo \ {q}, UNCHANGED <<project, queue, frames>>,
           ServeCached(q)
    PROVE  IInv'
<1> DEFINE s == q.src
           n == q.pts
           key == Key(s, n)
           entry == SlotEntry(q, index[key])
<1>0. /\ s \in Sources /\ n \in Nat /\ Tracked(s, reader[s]) /\ Domains
      /\ Owned(free, index, lru) /\ \A t \in Sources : Tracked(t, reader[t])
    BY OfAClip DEF IInv
<1>1. PICK d \in Declined(q) :
         reader' = [reader EXCEPT ![s] = d.reader] /\ texture' = d.texture
    BY DEF ServeCached
<1>2. /\ Falls(q) /\ key \in DOMAIN index /\ lru' = Promoted(lru, key)
      /\ UNCHANGED <<free, index, pixels>> /\ entries' = entries \cup {entry}
    BY DEF ServeCached, Enter
<1>3. TypedEntries(entries')
    <2>1. entry.kind = "slot"
        BY DEF SlotEntry
    <2> HIDE DEF entry
    <2> QED  BY <1>0, <1>2, <2>1 DEF TypedEntries, Domains
<1> HIDE DEF key, entry
<1>4. Tracked(s, d.reader) /\ Declinable(d.texture)
    BY <1>0, Declining
<1>6. reader' \in [Sources -> Readers] /\ \A t \in Sources : Tracked(t, reader'[t])
    <2> HIDE DEF s
    <2> QED  BY <1>0, <1>1, <1>4, Moving
<1>7. Owned(free', index', lru')
    <2>1. key \in ToSet(lru)
        BY <1>2, Cached
    <2>2. Owned(free, index, Promoted(lru, key))
        BY <1>0, <2>1, Promoting
    <2> QED  BY <1>2, <2>2
<1>8. texture' \in [Interop -> Textures] /\ WrittenLate(texture') /\ HeldTrue(texture')
    BY <1>1, <1>4, Declinables
<1>9. CacheTrue(index', pixels') /\ pixels' \in [Slots -> Pictures]
    BY <1>0, <1>2, Cached DEF Domains
<1> QED  BY <1>3, <1>6, <1>7, <1>8, <1>9, Serving

\* Where the slots are while the picture is decoded.
LEMMA MadeRoom ==
    ASSUME IInv, NEW s
    PROVE  /\ Owned(FreeAfter(Evictions(s)), Kept(ToSet(Rest(s))), Rest(s))
           /\ ToSet(Rest(s)) \subseteq ToSet(lru) /\ ToSet(Rest(s)) \subseteq DOMAIN index
           /\ FreeAfter(Evictions(s)) \subseteq Slots
           /\ \A k \in ToSet(Rest(s)) :
                /\ Kept(ToSet(Rest(s)))[k] = index[k] /\ index[k] \notin FreeAfter(Evictions(s))
                /\ k \in Keys /\ TrueTo(pixels[index[k]], k.src, k.pts)
<1> DEFINE rest == Rest(s)
           pool == FreeAfter(Evictions(s))
           ix == Part(index, ToSet(rest))
<1>1. Owned(pool, ix, rest) /\ ToSet(rest) \subseteq ToSet(lru)
    BY Evicting DEF IInv
<1>2. Kept(ToSet(rest)) = ix
    BY KeptIsPart
<1>3. \A k \in ToSet(rest) : ix[k] = index[k]
    BY DEF Part
<1>4. DOMAIN index = ToSet(lru) /\ CacheTrue(index, pixels)
    BY Cached
<1> HIDE DEF ix, pool, rest
<1>5. pool \subseteq Slots /\ \A k \in ToSet(rest) : ix[k] \notin pool /\ k \in Keys
    BY <1>1, Members DEF Owned
<1>6. \A k \in ToSet(rest) : index[k] \notin pool /\ TrueTo(pixels[index[k]], k.src, k.pts)
    BY <1>1, <1>3, <1>4, <1>5 DEF CacheTrue
<1>7. /\ Owned(pool, Kept(ToSet(rest)), rest)
      /\ ToSet(rest) \subseteq ToSet(lru) /\ ToSet(rest) \subseteq DOMAIN index
      /\ pool \subseteq Slots
      /\ \A k \in ToSet(rest) :
           /\ Kept(ToSet(rest))[k] = index[k] /\ index[k] \notin pool
           /\ k \in Keys /\ TrueTo(pixels[index[k]], k.src, k.pts)
    BY <1>1, <1>2, <1>3, <1>4, <1>5, <1>6
<1> QED  BY <1>7 DEF rest, pool

LEMMA ServingBlocking ==
    ASSUME IInv, NEW q \in todo, todo' = todo \ {q}, UNCHANGED <<project, queue, frames>>,
           ServeBlocking(q)
    PROVE  IInv'
<1> DEFINE s == q.src
           n == q.pts
           key == Key(s, n)
           rest == Rest(s)
           pool == FreeAfter(Evictions(s))
           x == CHOOSE y \in pool \cap Fitting(s) : TRUE
           keys == WithRoom(rest)
           r(d) == Positioned(s, d.reader, n)
           old(d) == Key(s, r(d).last)
           entry == SlotEntry(q, x)
           other(d) == SlotEntry(q, index[old(d)])
<1>0. /\ s \in Sources /\ n \in Nat /\ Tracked(s, reader[s]) /\ Domains /\ key \in Keys
      /\ \A t \in Sources : Tracked(t, reader[t])
    BY OfAClip DEF IInv
<1>1. Falls(q) /\ key \notin DOMAIN index
    BY DEF ServeBlocking
<1>2. PICK d, res :
        /\ d \in Declined(q) /\ res \in Outcomes(s, r(d), n)
        /\ texture' = d.texture
        /\ \/ /\ pool \cap Fitting(s) = {}
              /\ reader' = [reader EXCEPT ![s] = Unserved(s, r(d))]
              /\ free' = pool /\ index' = Kept(ToSet(rest)) /\ lru' = rest
              /\ UNCHANGED <<pixels, entries>>
           \/ /\ pool \cap Fitting(s) # {} /\ res.found # NoFrame
              /\ reader' = [reader EXCEPT ![s] = Served(s, res.r, n, res.found)]
              /\ pixels' = [pixels EXCEPT ![x] = Picture(s, res.found, r(d), n)]
              /\ free' = (pool \ {x}) \cup Released(rest)
              /\ index' = With(ToSet(keys), key, x)
              /\ lru' = Append(keys, key)
              /\ entries' = entries \cup {entry}
           \/ /\ pool \cap Fitting(s) # {} /\ res.found = NoFrame
              /\ reader' = [reader EXCEPT ![s] = Unserved(s, res.r)]
              /\ pixels' = [pixels EXCEPT ![x] = Blank]
              /\ free' = pool /\ index' = Kept(ToSet(rest))
              /\ \/ /\ old(d) \in ToSet(rest)
                    /\ lru' = Promoted(rest, old(d)) /\ entries' = entries \cup {other(d)}
                 \/ lru' = rest /\ entries' = entries
    BY Zenon DEF ServeBlocking, Rest, Enter
<1>3. x \in pool \cap Fitting(s) \/ pool \cap Fitting(s) = {}
    OBVIOUS
<1>4. Tracked(s, d.reader) /\ Declinable(d.texture)
    BY <1>0, <1>2, Declining
<1>5. Placed(s, r(d)) /\ Clear(s, r(d), n)
    BY <1>0, <1>4, Positioning
<1>6. /\ Placed(s, res.r)
      /\ res.found # NoFrame => /\ res.r.out = res.found + 1
                                /\ Right(s, res.found, n, ~Behind(r(d), n))
    <2>1. res \in Outcomes(s, r(d), n)
        BY <1>2
    <2> HIDE DEF r
    <2> QED  BY <1>0, <1>5, <2>1, Reading
<1>7. entry.kind = "slot" /\ other(d).kind = "slot"
    BY DEF SlotEntry
<1>8. TypedEntries(entries')
    <2> HIDE DEF entry, other
    <2> QED  BY <1>0, <1>2, <1>7 DEF TypedEntries, Domains
<1>9. texture' \in [Interop -> Textures] /\ WrittenLate(texture') /\ HeldTrue(texture')
    BY <1>2, <1>4, Declinables
<1>10. key.src = s /\ key.pts = n
    BY DEF Key
<1> HIDE DEF r, old, entry, other, x, keys, rest, pool, key
<1>11. /\ Owned(pool, Kept(ToSet(rest)), rest)
       /\ ToSet(rest) \subseteq ToSet(lru) /\ ToSet(rest) \subseteq DOMAIN index
       /\ pool \subseteq Slots
       /\ \A k \in ToSet(rest) :
            /\ Kept(ToSet(rest))[k] = index[k] /\ index[k] \notin pool
            /\ k \in Keys /\ TrueTo(pixels[index[k]], k.src, k.pts)
    BY MadeRoom DEF rest, pool
<1>12. DOMAIN Kept(ToSet(rest)) = ToSet(rest)
    BY DEF Kept
<1>13. pixels \in [Slots -> Pictures]
    BY <1>0 DEF Domains
\* a reader, a pool and pixels that go together
<1>14. ASSUME NEW t, Tracked(s, t), reader' = [reader EXCEPT ![s] = t],
              Owned(free', index', lru'), pixels' \in [Slots -> Pictures],
              CacheTrue(index', pixels')
       PROVE  IInv'
    <2>1. reader' \in [Sources -> Readers] /\ \A u \in Sources : Tracked(u, reader'[u])
        <3> HIDE DEF s
        <3> QED  BY <1>0, <1>14, Moving
    <2> QED  BY <1>8, <1>9, <1>14, <2>1, Serving
<1>15. CASE /\ pool \cap Fitting(s) = {}
            /\ reader' = [reader EXCEPT ![s] = Unserved(s, r(d))]
            /\ free' = pool /\ index' = Kept(ToSet(rest)) /\ lru' = rest
            /\ UNCHANGED <<pixels, entries>>
    <2>1. Tracked(s, Unserved(s, r(d)))
        BY <1>0, <1>5, Forgotten
    <2>2. Owned(free', index', lru')
        BY <1>11, <1>15
    <2>3. CacheTrue(index', pixels')
        BY <1>11, <1>12, <1>15 DEF CacheTrue
    <2> QED  BY <1>13, <1>14, <1>15, <2>1, <2>2, <2>3
<1>16. CASE /\ pool \cap Fitting(s) # {} /\ res.found # NoFrame
            /\ reader' = [reader EXCEPT ![s] = Served(s, res.r, n, res.found)]
            /\ pixels' = [pixels EXCEPT ![x] = Picture(s, res.found, r(d), n)]
            /\ free' = (pool \ {x}) \cup Released(rest)
            /\ index' = With(ToSet(keys), key, x)
            /\ lru' = Append(keys, key)
            /\ entries' = entries \cup {entry}
    <2> DEFINE t == Served(s, res.r, n, res.found)
               picture == Picture(s, res.found, r(d), n)
               f == res.found
    <2>0. f \in AllFrames(s) /\ f \in Nat /\ res.r.out = f + 1 /\ Right(s, f, n, ~Behind(r(d), n))
        BY <1>0, <1>6, <1>16, Media DEF Right
    <2>1. Tracked(s, t)
        <3> HIDE DEF f
        <3>1. t = Served(s, res.r, n, f)
            BY DEF f
        <3> HIDE DEF t
        <3> QED  BY <1>0, <1>6, <2>0, <3>1, Recorded
    <2>2. /\ picture \in Pictures /\ picture.src = s /\ picture.frame = f
          /\ picture.project = project /\ picture.sure = ~Behind(r(d), n)
        BY <1>0, <2>0, Decoded
    <2>3. TrueTo(picture, s, n)
        <3> HIDE DEF picture, f
        <3> QED  BY <2>0, <2>2 DEF TrueTo, Right
    <2>4. x \in pool /\ x \in Slots /\ key \notin ToSet(rest)
        BY <1>1, <1>3, <1>11, <1>16
    <2>5. Owned(pool, Part(index, ToSet(rest)), rest)
        BY <1>11, KeptIsPart
    <2>6. /\ Owned((pool \ {x}) \cup Released(rest), With(ToSet(keys), key, x), Append(keys, key))
          /\ ToSet(keys) \subseteq ToSet(rest)
        BY <1>0, <2>4, <2>5, Inserting DEF keys
    <2> HIDE DEF t, picture, f
    <2>7. pixels' \in [Slots -> Pictures] /\ pixels'[x] = picture
          /\ \A y \in Slots : y # x => pixels'[y] = pixels[y]
        BY <1>13, <1>16, <2>2, <2>4 DEF picture
    <2>8. CacheTrue(index', pixels')
        <3> SUFFICES ASSUME NEW k \in DOMAIN index'
                     PROVE  TrueTo(pixels'[index'[k]], k.src, k.pts)
            BY DEF CacheTrue
        <3>1. index' = With(ToSet(keys), key, x)
            BY <1>16
        <3>2. k \in ToSet(keys) \cup {key} /\ index'[k] = IF k = key THEN x ELSE index[k]
            BY <3>1 DEF With
        <3>3. CASE k = key
            BY <1>10, <2>3, <2>7, <3>2, <3>3
        <3>4. CASE k # key
            <4>1. k \in ToSet(rest) /\ index'[k] = index[k]
                BY <2>6, <3>2, <3>4
            <4>2. index[k] # x /\ TrueTo(pixels[index[k]], k.src, k.pts)
                BY <1>11, <2>4, <4>1
            <4>3. index[k] \in Slots
                BY <1>11, <4>1 DEF Owned
            <4> QED  BY <2>7, <4>1, <4>2, <4>3
        <3> QED  BY <3>3, <3>4
    <2>9. reader' = [reader EXCEPT ![s] = t]
        BY <1>16 DEF t
    <2>10. Owned(free', index', lru')
        BY <1>16, <2>6
    <2> QED  BY <1>14, <2>1, <2>7, <2>8, <2>9, <2>10
<1>17. CASE /\ pool \cap Fitting(s) # {} /\ res.found = NoFrame
            /\ reader' = [reader EXCEPT ![s] = Unserved(s, res.r)]
            /\ pixels' = [pixels EXCEPT ![x] = Blank]
            /\ free' = pool /\ index' = Kept(ToSet(rest))
            /\ \/ /\ old(d) \in ToSet(rest)
                  /\ lru' = Promoted(rest, old(d)) /\ entries' = entries \cup {other(d)}
               \/ lru' = rest /\ entries' = entries
    <2>1. Tracked(s, Unserved(s, res.r))
        BY <1>0, <1>6, Forgotten
    <2>2. Owned(free', index', lru')
        <3>1. CASE lru' = rest
            BY <1>11, <1>17, <3>1
        <3>2. CASE old(d) \in ToSet(rest) /\ lru' = Promoted(rest, old(d))
            BY <1>11, <1>17, <3>2, Promoting
        <3> QED  BY <1>17, <3>1, <3>2
    <2>3. x \in pool /\ x \in Slots
        BY <1>3, <1>11, <1>17
    <2>4. pixels' \in [Slots -> Pictures] /\ \A y \in Slots : y # x => pixels'[y] = pixels[y]
        BY <1>13, <1>17, <2>3, BlankPicture
    <2>5. CacheTrue(index', pixels')
        <3> SUFFICES ASSUME NEW k \in ToSet(rest)
                     PROVE  TrueTo(pixels'[index[k]], k.src, k.pts)
            BY <1>11, <1>12, <1>17 DEF CacheTrue
        <3>1. index[k] # x /\ TrueTo(pixels[index[k]], k.src, k.pts)
            BY <1>11, <2>3
        <3>2. index[k] \in Slots
            BY <1>11 DEF Owned
        <3> QED  BY <2>4, <3>1, <3>2
    <2> QED  BY <1>14, <1>17, <2>1, <2>2, <2>4, <2>5
<1> QED  BY <1>2, <1>15, <1>16, <1>17

LEMMA Scheduling ==
    ASSUME IInv, NEW layout \in Layouts, ScheduleFrame(layout)
    PROVE  IInv'
<1>1. /\ todo' = layout /\ entries' = {}
      /\ UNCHANGED <<project, reader, texture, free, index, lru, pixels, queue, frames>>
    BY DEF ScheduleFrame, ioVars
<1>2. \A q \in layout : q.src \in Sources /\ q.pts \in Nat
    BY PreviewAssumption
<1>3. Domains'
    BY <1>1, <1>2 DEF IInv, Domains
<1>4. (\A s \in Sources : Tracked(s, reader[s]))' /\ Owned(free, index, lru)'
    BY <1>1 DEF IInv, Tracked, Placed, Owned
<1>5. PicturesAreTrue' /\ Sampling'
    BY <1>1 DEF IInv, PicturesAreTrue, TrueTo, Sampling
<1> QED  BY <1>3, <1>4, <1>5 DEF IInv

LEMMA Submitting ==
    ASSUME IInv, Submit
    PROVE  IInv'
<1> DEFINE shown == {e.src : e \in {x \in entries : x.kind = "texture"}}
           sub == [id |-> frames + 1, reads |-> [s \in shown |-> texture[s].picture]]
           t == Stamped(shown, frames + 1)
<1>0. Domains /\ Sampling /\ PicturesAreTrue
    BY DEF IInv
<1>1. /\ frames' = frames + 1 /\ queue' = Append(queue, sub) /\ texture' = t /\ entries' = {}
      /\ UNCHANGED <<project, reader, free, index, lru, pixels, todo>>
    BY DEF Submit
<1>2. shown \subseteq Interop
    BY <1>0 DEF Domains
<1> HIDE DEF shown
<1>3. frames + 1 \in Nat
    BY <1>0 DEF Domains
<1>4. \A s \in Interop :
        /\ t[s].held = texture[s].held /\ t[s].picture = texture[s].picture
        /\ t[s] \in Textures
        /\ t[s].lastRead = IF s \in shown THEN frames + 1 ELSE texture[s].lastRead
    BY <1>0, <1>3 DEF Stamped, Domains, Textures
<1>5. t \in [Interop -> Textures]
    BY <1>4 DEF Stamped
<1>6. /\ sub.id = frames + 1 /\ DOMAIN sub.reads = shown
      /\ \A s \in shown : sub.reads[s] = texture[s].picture
    OBVIOUS
<1>7. sub \in [id : Nat, reads : Reads]
    <2>1. \A s \in shown : texture[s].picture \in Pictures
        BY <1>0, <1>2 DEF Domains, Textures
    <2>2. [s \in shown |-> texture[s].picture] \in [shown -> Pictures]
        BY <2>1
    <2>3. [s \in shown |-> texture[s].picture] \in Reads
        BY <1>2, <2>2 DEF Reads
    <2> QED  BY <1>3, <2>3
<1> HIDE DEF sub, t
<1> DEFINE n == Len(queue)
<1>8. /\ queue' \in Seq([id : Nat, reads : Reads]) /\ n \in Nat /\ Len(queue') = n + 1
      /\ \A i \in 1 .. n : queue'[i] = queue[i]
      /\ queue'[n + 1] = sub
    <2>1. queue \in Seq([id : Nat, reads : Reads])
        BY <1>0 DEF Domains
    <2> QED  BY <1>1, <1>7, <2>1, AppendProperties, LenProperties
<1>9. Domains'
    BY <1>0, <1>1, <1>3, <1>5, <1>8 DEF Domains
<1>10. (\A s \in Sources : Tracked(s, reader[s]))' /\ Owned(free, index, lru)'
    BY <1>1 DEF IInv, Tracked, Placed, Owned
<1>11. PicturesAreTrue'
    <2>1. \A k \in DOMAIN index : TrueTo(pixels[index[k]], k.src, k.pts)
        BY <1>0 DEF PicturesAreTrue
    <2>2. \A s \in Interop : texture[s].held # NoFrame
                            => TrueTo(texture[s].picture, s, texture[s].held)
        BY <1>0 DEF PicturesAreTrue
    <2>3. (\A k \in DOMAIN index : TrueTo(pixels[index[k]], k.src, k.pts))'
        BY <1>1, <2>1 DEF TrueTo
    <2>4. \A s \in Interop : t[s].held # NoFrame => TrueTo(t[s].picture, s, t[s].held)
        BY <1>4, <2>2
    <2>5. (\A s \in Interop : texture[s].held # NoFrame
                              => TrueTo(texture[s].picture, s, texture[s].held))'
        BY <1>1, <2>4 DEF TrueTo
    <2> QED  BY <2>3, <2>5 DEF PicturesAreTrue
<1>12. Sampling'
    <2> SUFFICES ASSUME NEW i \in 1 .. n + 1, NEW s \in DOMAIN queue'[i].reads
                 PROVE  /\ s \in Interop /\ t[s].picture = queue'[i].reads[s]
                        /\ \E j \in i .. n + 1 : queue'[j].id = t[s].lastRead
        <3>1. texture' = t /\ Len(queue') = n + 1
            BY <1>1, <1>8
        <3> HIDE DEF n
        <3> QED  BY <3>1, Zenon DEF Sampling
    <2>1. CASE i = n + 1
        <3>1. n + 1 \in i .. n + 1
            BY <1>8, <2>1
        <3>2. s \in shown /\ queue'[i].reads[s] = texture[s].picture
            BY <1>6, <1>8, <2>1
        <3>3. queue'[n + 1].id = t[s].lastRead
            BY <1>2, <1>4, <1>6, <1>8, <3>2
        <3> QED  BY <1>2, <1>4, <3>1, <3>2, <3>3
    <2>2. CASE i # n + 1
        <3>1. i \in 1 .. n /\ queue'[i] = queue[i]
            BY <1>8, <2>2
        <3>2. /\ s \in Interop /\ texture[s].picture = queue[i].reads[s]
              /\ \E j \in i .. n : queue[j].id = texture[s].lastRead
            BY <1>0, <3>1 DEF Sampling
        <3>3. PICK j \in i .. n : queue[j].id = texture[s].lastRead
            BY <3>2
        <3>4. j \in i .. n + 1 /\ queue'[j] = queue[j] /\ n + 1 \in i .. n + 1
            BY <1>8, <3>1
        <3>5. t[s].lastRead = texture[s].lastRead \/ t[s].lastRead = frames + 1
            BY <1>4, <3>2
        <3>6. queue'[j].id = t[s].lastRead \/ queue'[n + 1].id = t[s].lastRead
            BY <1>6, <1>8, <3>3, <3>4, <3>5
        <3> QED  BY <1>4, <3>1, <3>2, <3>4, <3>6
    <2> QED  BY <2>1, <2>2
<1> QED  BY <1>9, <1>10, <1>11, <1>12 DEF IInv

LEMMA Finishing ==
    ASSUME IInv, GpuFinishes
    PROVE  IInv'
<1> DEFINE n == Len(queue)
<1>0. Domains /\ Sampling
    BY DEF IInv
<1>1. queue # <<>> /\ queue' = Tail(queue)
      /\ UNCHANGED <<project, reader, texture, free, index, lru, pixels, todo, entries, frames>>
    BY DEF GpuFinishes, ioVars
<1>2. /\ queue' \in Seq([id : Nat, reads : Reads]) /\ n \in Nat /\ Len(queue') = n - 1
      /\ \A i \in 1 .. n - 1 : queue'[i] = queue[i + 1]
    <2>1. queue \in Seq([id : Nat, reads : Reads])
        BY <1>0 DEF Domains
    <2>2. /\ Tail(queue) \in Seq([id : Nat, reads : Reads]) /\ Len(Tail(queue)) = n - 1
          /\ \A i \in 1 .. Len(Tail(queue)) : Tail(queue)[i] = queue[i + 1]
        BY <1>1, <2>1, HeadTailProperties
    <2> QED  BY <1>1, <2>1, <2>2, LenProperties
<1>3. Domains'
    BY <1>0, <1>1, <1>2 DEF Domains
<1>4. (\A s \in Sources : Tracked(s, reader[s]))' /\ Owned(free, index, lru)'
    BY <1>1 DEF IInv, Tracked, Placed, Owned
<1>5. PicturesAreTrue'
    BY <1>1 DEF IInv, PicturesAreTrue, TrueTo
<1>6. Sampling'
    <2> SUFFICES ASSUME NEW i \in 1 .. n - 1, NEW s \in DOMAIN queue'[i].reads
                 PROVE  /\ s \in Interop /\ texture[s].picture = queue'[i].reads[s]
                        /\ \E j \in i .. n - 1 : queue'[j].id = texture[s].lastRead
        BY <1>1, <1>2 DEF Sampling
    <2>1. i + 1 \in 1 .. n /\ queue'[i] = queue[i + 1]
        BY <1>2
    <2>2. /\ s \in Interop /\ texture[s].picture = queue[i + 1].reads[s]
          /\ \E j \in i + 1 .. n : queue[j].id = texture[s].lastRead
        BY <1>0, <2>1 DEF Sampling
    <2>3. PICK j \in i + 1 .. n : queue[j].id = texture[s].lastRead
        BY <2>2
    <2>4. j - 1 \in i .. n - 1 /\ j - 1 \in 1 .. n - 1 /\ (j - 1) + 1 = j
        BY <1>2
    <2>5. queue'[j - 1] = queue[j]
        BY <1>2, <2>4
    <2> QED  BY <2>1, <2>2, <2>3, <2>4, <2>5
<1> QED  BY <1>3, <1>4, <1>5, <1>6 DEF IInv

LEMMA Resetting ==
    ASSUME IInv, Reset
    PROVE  IInv'
<1> DEFINE n == Len(queue)
<1>0. Domains
    BY DEF IInv
<1>1. /\ project' = project + 1
      /\ reader' = [s \in Sources |-> Opened] /\ texture' = [s \in Interop |-> NoTexture]
      /\ index' = <<>> /\ lru' = <<>> /\ free' = Slots
      /\ queue' = [i \in DOMAIN queue |-> [queue[i] EXCEPT !.reads = <<>>]]
      /\ UNCHANGED <<pixels, todo, entries, frames>>
    BY DEF Reset
<1>2. n \in Nat /\ DOMAIN queue = 1 .. n
      /\ \A i \in 1 .. n : queue[i] \in [id : Nat, reads : Reads]
    <2>1. queue \in Seq([id : Nat, reads : Reads])
        BY <1>0 DEF Domains
    <2> QED  BY <2>1, LenProperties, ElementOfSeq
<1>3. <<>> \in Reads
    <2>1. <<>> \in [{} -> Pictures]
        OBVIOUS
    <2> QED  BY <2>1 DEF Reads
<1>4. \A i \in 1 .. n : /\ [queue[i] EXCEPT !.reads = <<>>] \in [id : Nat, reads : Reads]
                        /\ [queue[i] EXCEPT !.reads = <<>>].reads = <<>>
    BY <1>2, <1>3
<1>5. /\ queue' \in Seq([id : Nat, reads : Reads]) /\ Len(queue') = n
      /\ \A i \in 1 .. n : queue'[i].reads = <<>>
    <2>1. queue' \in [1 .. n -> [id : Nat, reads : Reads]]
        BY <1>1, <1>2, <1>4
    <2>2. queue' \in Seq([id : Nat, reads : Reads])
        <3> DEFINE T == [id : Nat, reads : Reads]
                   sequences == {[1 .. m -> T] : m \in Nat}
        <3>1. [1 .. n -> T] \in sequences
            BY <1>2
        <3>2. queue' \in UNION sequences
            BY <2>1, <3>1
        <3>3. Seq(T) = UNION sequences
            BY SeqDef, Zenon
        <3> QED  BY <3>2, <3>3
    <2>3. Len(queue') = n
        BY <1>2, <2>1, <2>2, LenProperties
    <2>4. \A i \in 1 .. n : queue'[i].reads = <<>>
        BY <1>1, <1>2, <1>4
    <2> QED  BY <2>2, <2>3, <2>4
<1>6. NoTexture \in Textures /\ NoTexture.held = NoFrame
    BY BlankPicture DEF NoTexture, Textures, Frames
<1>7. Domains'
    <2>1. reader' \in [Sources -> Readers]
        BY <1>1 DEF Opened, Readers, Frames, NoFrame
    <2> QED  BY <1>0, <1>1, <1>5, <1>6, <2>1 DEF Domains
<1>8. (\A s \in Sources : Tracked(s, reader[s]))'
    <2> SUFFICES ASSUME NEW s \in Sources  PROVE Tracked(s, Opened)
        BY <1>1 DEF Tracked, Placed
    <2> QED  BY OpenedTracked
<1>9. Owned(free', index', lru')
    BY <1>1, Empty
<1>10. PicturesAreTrue'
    BY <1>1, <1>6 DEF PicturesAreTrue
<1>11. Sampling'
    <2>1. \A i \in 1 .. n : DOMAIN queue'[i].reads = {}
        BY <1>5
    <2> QED  BY <1>5, <2>1 DEF Sampling
<1> QED  BY <1>7, <1>8, <1>9, <1>10, <1>11 DEF IInv, Owned

LEMMA Stuttering == ASSUME IInv, UNCHANGED vars PROVE IInv'
<1>1. UNCHANGED <<project, reader, texture, free, index, lru, pixels, todo, entries, queue, frames>>
    BY DEF vars, ioVars
<1>2. Domains'
    BY <1>1 DEF IInv, Domains
<1>3. (\A s \in Sources : Tracked(s, reader[s]))' /\ Owned(free, index, lru)'
    BY <1>1 DEF IInv, Tracked, Placed, Owned
<1>4. PicturesAreTrue' /\ Sampling'
    BY <1>1 DEF IInv, PicturesAreTrue, TrueTo, Sampling
<1> QED  BY <1>2, <1>3, <1>4 DEF IInv

-----------------------------------------------------------------------------
(* The frame that is being composed *)

\* A clip is a request, and an entry names the clip it was made for.
Asked(e) == Key(e.src, e.pts)

Shown(es, x) == \E e \in es : e.kind = "slot" /\ e.slot = x

\* Entries es are of clips that are not in td any more, each of one of its own.
Listed(es, td) ==
    /\ td \subseteq clips
    /\ \A e \in es : /\ Asked(e) \in clips \ td
                     /\ \/ e.kind = "slot" /\ e.slot \in Fitting(e.src)
                        \/ e.kind = "texture"
    /\ \A e, d \in es : Asked(e) = Asked(d) => e = d

Tiered(ix, ks) == \A k \in ToSet(ks) : ix[k] \in Fitting(k.src)

\* What the frame shows was used after everything else in the cache.
Recent(es, ix, ks) ==
    \A i, j \in 1 .. Len(ks) : i < j /\ Shown(es, ix[ks[i]]) => Shown(es, ix[ks[j]])

\* What the frame shows is in the cache, and the slot holds it.
Standing(es, ix, ks, px) ==
    \A e \in es : e.kind = "slot" =>
        px[e.slot] = e.picture /\ \E k \in ToSet(ks) : ix[k] = e.slot

Sampled(es, t) ==
    \A e \in es : e.kind = "texture" =>
        \/ t[e.src].picture = e.picture
        \/ \E d \in clips : d.src = e.src /\ d.pts # e.pts

FrameInv ==
    /\ clips \subseteq Keys /\ IsFiniteSet(clips)
    /\ ~composing => entries = {}
    /\ Listed(entries, todo)
    /\ Tiered(index, lru)
    /\ Recent(entries, index, lru)
    /\ Crowded \/ Standing(entries, index, lru, pixels)
    /\ Sampled(entries, texture)

\* As many slots are shown as clips are served, or fewer.
LEMMA Numbered ==
    ASSUME Listed(entries, todo), NEW C, IsFiniteSet(C), NEW D, NEW g,
           \A x, y \in D : g[x] = g[y] => x = y,
           \A x \in D : \E e \in entries : e.kind = "slot" /\ e.slot = g[x] /\ Asked(e) \in C
    PROVE  IsFiniteSet(D) /\ Cardinality(D) \in Nat /\ Cardinality(C) \in Nat
           /\ Cardinality(D) <= Cardinality(C)
<1> DEFINE Of(x, c) == \E e \in entries : e.slot = g[x] /\ Asked(e) = c
           f == [x \in D |-> CHOOSE c \in C : Of(x, c)]
<1>1. \A x \in D : f[x] \in C /\ Of(x, f[x])
    <2> SUFFICES ASSUME NEW x \in D  PROVE f[x] \in C /\ Of(x, f[x])
        OBVIOUS
    <2>1. \E c \in C : Of(x, c)
        OBVIOUS
    <2> HIDE DEF Of
    <2> QED  BY <2>1
<1>2. \A x, y \in D : f[x] = f[y] => x = y
    <2> SUFFICES ASSUME NEW x \in D, NEW y \in D, f[x] = f[y]  PROVE x = y
        OBVIOUS
    <2>1. PICK e \in entries : e.slot = g[x] /\ Asked(e) = f[x]
        BY <1>1
    <2>2. PICK d \in entries : d.slot = g[y] /\ Asked(d) = f[y]
        BY <1>1
    <2> HIDE DEF f
    <2>3. e = d
        BY <2>1, <2>2 DEF Listed
    <2> QED  BY <2>1, <2>2, <2>3
<1>3. f \in [D -> C] /\ DOMAIN f = D
    BY <1>1
<1> HIDE DEF f
<1>4. f \in Injection(D, C)
    BY <1>2, <1>3 DEF Injection, IsInjective
<1> QED  BY <1>4, FS_Injection, FS_CardinalityType

\* A clip is the request the key of which it is.
LEMMA Requested ==
    ASSUME FrameInv, NEW q \in todo
    PROVE  q \in clips /\ Asked(q) = q /\ Key(q.src, q.pts) = q /\ q.src \in Sources /\ q.pts \in Nat
<1>1. q \in clips /\ q \in Keys
    BY DEF FrameInv, Listed
<1> QED  BY <1>1 DEF Asked, Key, Keys

Unseen(m) == \A i \in 1 .. m : ~Shown(entries, index[lru[i]])

\* Room is made for a clip without what the frame shows already: every slot of
\* its tier would have to be shown, and the clips served are too few for that.
LEMMA SparedByEviction ==
    ASSUME IInv, FrameInv, ~Crowded, NEW q \in todo
    PROVE  Unseen(Evictions(q.src))
<1> DEFINE s == q.src
           e == Evictions(s)
           tier == {p \in clips : TierOf[p.src] = TierOf[s]}
           served == tier \ {q}
<1> SUFFICES ASSUME NEW i \in 1 .. e, Shown(entries, index[lru[i]])  PROVE FALSE
    BY DEF Unseen
<1>0. /\ lru \in Seq(Keys) /\ index \in [ToSet(lru) -> Slots]
      /\ free \cup {index[k] : k \in ToSet(lru)} = Slots
      /\ Listed(entries, todo) /\ Recent(entries, index, lru) /\ IsFiniteSet(clips)
      /\ Tiered(index, lru)
    BY DEF IInv, Owned, FrameInv
<1>1. q \in clips /\ Asked(q) = q
    BY Requested
<1>2. e \in 0 .. Len(lru) /\ Len(lru) \in Nat /\ FreeAfter(i - 1) \cap Fitting(s) = {}
    <2>1. Later(Rest(s), lru, e) /\ \A j \in 0 .. e - 1 : FreeAfter(j) \cap Fitting(s) = {}
        BY <1>0, Remaining
    <2>2. Len(lru) \in Nat
        BY <1>0, Members
    <2> HIDE DEF e
    <2> QED  BY <2>1, <2>2 DEF Later
<1> HIDE DEF e
<1>3. \A x \in Fitting(s) : Shown(entries, x)
    <2> SUFFICES ASSUME NEW x \in Fitting(s)  PROVE Shown(entries, x)
        OBVIOUS
    <2>1. x \in Slots /\ x \notin FreeAfter(i - 1)
        BY <1>2 DEF Fitting
    <2>2. PICK k \in ToSet(lru) : index[k] = x
        BY <1>0, <2>1 DEF FreeAfter
    <2>3. PICK j \in 1 .. Len(lru) : lru[j] = k
        BY <1>0, Members
    <2>4. ~(j \in 1 .. i - 1)
        BY <2>1, <2>2, <2>3 DEF FreeAfter
    <2>5. i \in 1 .. Len(lru) /\ (i = j \/ i < j)
        BY <1>2, <2>4
    <2> QED  BY <1>0, <2>2, <2>3, <2>5 DEF Recent
<1>4. \A x \in Fitting(s) : \E d \in entries : d.kind = "slot" /\ d.slot = x /\ Asked(d) \in served
    <2> SUFFICES ASSUME NEW x \in Fitting(s)
                 PROVE  \E d \in entries : d.kind = "slot" /\ d.slot = x /\ Asked(d) \in served
        OBVIOUS
    <2>1. PICK d \in entries : d.kind = "slot" /\ d.slot = x
        BY <1>3 DEF Shown
    <2>2. Asked(d) \in clips \ todo /\ d.slot \in Fitting(d.src)
        BY <1>0, <2>1 DEF Listed
    <2>3. TierOf[d.src] = TierOf[s]
        BY <2>1, <2>2 DEF Fitting
    <2>4. Asked(d).src = d.src
        BY DEF Asked, Key
    <2> QED  BY <2>1, <2>2, <2>3, <2>4
<1>5. IsFiniteSet(tier) /\ q \in tier /\ IsFiniteSet(served)
      /\ Cardinality(served) = Cardinality(tier) - 1
    <2>1. tier \in SUBSET clips /\ q \in tier
        BY <1>1
    <2> HIDE DEF tier
    <2> QED  BY <1>0, <2>1, FS_Subset, FS_RemoveElement
<1> DEFINE g == [x \in Fitting(s) |-> x]
<1>6. Cardinality(Fitting(s)) \in Nat /\ Cardinality(Fitting(s)) <= Cardinality(served)
      /\ Cardinality(served) \in Nat
    <2>1. /\ \A x, y \in Fitting(s) : g[x] = g[y] => x = y
          /\ \A x \in Fitting(s) : \E d \in entries :
                d.kind = "slot" /\ d.slot = g[x] /\ Asked(d) \in served
        BY <1>4
    <2> HIDE DEF served, g
    <2> QED  BY <1>0, <1>5, <2>1, Numbered
<1>7. ~(Cardinality(tier) > Cardinality(Fitting(s)))
    BY <1>1 DEF Crowded
<1>8. Cardinality(tier) \in Nat
    BY <1>5, FS_CardinalityType
<1> HIDE DEF tier, served
<1> QED  BY <1>5, <1>6, <1>7, <1>8

\* Nor does the entry that insert pushes out belong to the frame.
LEMMA SparedByRoom ==
    ASSUME IInv, FrameInv, NEW q \in todo
    PROVE  \E m \in Nat : /\ Later(WithRoom(Rest(q.src)), lru, m)
                          /\ Crowded \/ Unseen(m)
<1> DEFINE s == q.src
           e == Evictions(s)
           rest == Rest(s)
           n == Len(rest)
           served == clips \ {q}
<1>0. /\ Listed(entries, todo) /\ Recent(entries, index, lru) /\ IsFiniteSet(clips)
      /\ q \in clips /\ Asked(q) = q /\ lru \in Seq(Keys) /\ index \in [ToSet(lru) -> Slots]
      /\ \A k, j \in ToSet(lru) : k # j => index[k] # index[j]
    BY Requested DEF FrameInv, IInv, Owned
<1>1. /\ e \in 0 .. Len(lru) /\ rest \in Seq(Keys) /\ n = Len(lru) - e /\ Len(lru) \in Nat
      /\ \A i \in 1 .. n : rest[i] = lru[e + i]
    BY <1>0, Remaining, Members DEF Later
<1>2. /\ Owned(FreeAfter(e), Part(index, ToSet(rest)), rest) /\ ToSet(rest) \subseteq ToSet(lru)
    BY Evicting DEF IInv
<1>3. Crowded \/ Unseen(e)
    BY SparedByEviction
<1> HIDE DEF e, rest
<1>4. CASE ~(n >= Capacity)
    <2>1. WithRoom(rest) = rest
        BY <1>4 DEF WithRoom
    <2>2. Later(rest, lru, e) /\ e \in Nat
        BY <1>1 DEF Later
    <2> QED  BY <1>3, <2>1, <2>2 DEF e, rest
<1>5. CASE n >= Capacity
    <2>1. Capacity \in Nat /\ Capacity > 0 /\ n \in Nat
        BY <1>1, PreviewAssumption
    <2>2. WithRoom(rest) = Tail(rest) /\ rest # <<>>
        BY <1>1, <1>5, <2>1 DEF WithRoom
    <2>3. Later(Tail(rest), lru, e + 1) /\ e + 1 \in Nat
        <3>1. /\ Tail(rest) \in Seq(Keys) /\ Len(Tail(rest)) = n - 1
              /\ \A i \in 1 .. Len(Tail(rest)) : Tail(rest)[i] = rest[i + 1]
            BY <1>1, <2>2, HeadTailProperties
        <3>2. e + 1 \in 0 .. Len(lru) /\ e + 1 \in Nat /\ Len(lru) - (e + 1) = n - 1
            BY <1>1, <1>5, <2>1
        <3>3. \A i \in 1 .. n - 1 : i + 1 \in 1 .. n /\ e + (i + 1) = (e + 1) + i
            BY <1>1
        <3> QED  BY <1>1, <3>1, <3>2, <3>3 DEF Later
    <2>4. ASSUME ~Crowded  PROVE Unseen(e + 1)
        <3>1. \A i \in 1 .. e + 1 : i \in 1 .. e \/ i = e + 1
            BY <1>1
        <3> SUFFICES ASSUME Shown(entries, index[lru[e + 1]])  PROVE FALSE
            BY <1>3, <2>4, <3>1 DEF Unseen
        <3>2. \A k \in ToSet(rest) : Shown(entries, index[k])
            <4> SUFFICES ASSUME NEW i \in 1 .. n  PROVE Shown(entries, index[rest[i]])
                BY <1>1, Members
            <4>1. e + i \in 1 .. Len(lru) /\ e + 1 \in 1 .. Len(lru)
                  /\ (e + i = e + 1 \/ e + 1 < e + i)
                BY <1>1
            <4> QED  BY <1>0, <1>1, <4>1 DEF Recent
        <3>3. \A k \in ToSet(rest) : \E d \in entries :
                 d.kind = "slot" /\ d.slot = index[k] /\ Asked(d) \in served
            BY <1>0, <3>2 DEF Shown, Listed
        <3>4. IsFiniteSet(served) /\ Cardinality(served) = Cardinality(clips) - 1
            BY <1>0, FS_RemoveElement
        <3>5. Cardinality(ToSet(rest)) \in Nat /\ Cardinality(ToSet(rest)) <= Cardinality(served)
            <4>1. \A k, j \in ToSet(rest) : index[k] = index[j] => k = j
                BY <1>0, <1>2
            <4> HIDE DEF served
            <4> QED  BY <1>0, <3>3, <3>4, <4>1, Numbered
        <3>6. Cardinality(ToSet(rest)) = n
            BY <1>2, Counting
        <3>7. ~(Cardinality(clips) > Capacity) /\ Cardinality(clips) \in Nat
            BY <1>0, <2>4, FS_CardinalityType DEF Crowded
        <3> HIDE DEF served, n
        <3> QED  BY <1>5, <2>1, <3>4, <3>5, <3>6, <3>7
    <2> QED  BY <2>2, <2>3, <2>4 DEF e, rest
<1> QED  BY <1>4, <1>5

LEMMA LaterRecent ==
    ASSUME NEW es, NEW ix, NEW ks \in Seq(Keys), Recent(es, ix, ks),
           NEW ws, NEW m, Later(ws, ks, m), NEW iy, \A k \in ToSet(ws) : iy[k] = ix[k]
    PROVE  Recent(es, iy, ws)
<1>1. /\ m \in 0 .. Len(ks) /\ Len(ks) \in Nat /\ Len(ws) = Len(ks) - m
      /\ \A i \in 1 .. Len(ws) : ws[i] = ks[m + i] /\ iy[ws[i]] = ix[ks[m + i]]
    BY Members DEF Later
<1> SUFFICES ASSUME NEW i \in 1 .. Len(ws), NEW j \in 1 .. Len(ws), i < j, Shown(es, iy[ws[i]])
             PROVE  Shown(es, iy[ws[j]])
    BY DEF Recent
<1>2. m + i \in 1 .. Len(ks) /\ m + j \in 1 .. Len(ks) /\ m + i < m + j
    BY <1>1
<1> QED  BY <1>1, <1>2 DEF Recent

LEMMA LaterStanding ==
    ASSUME IInv, NEW ws, NEW m, Later(ws, lru, m), Unseen(m),
           Standing(entries, index, lru, pixels)
    PROVE  \A e \in entries : e.kind = "slot" => \E k \in ToSet(ws) : index[k] = e.slot
<1> SUFFICES ASSUME NEW e \in entries, e.kind = "slot"
             PROVE  \E k \in ToSet(ws) : index[k] = e.slot
    OBVIOUS
<1>1. /\ lru \in Seq(Keys) /\ m \in 0 .. Len(lru) /\ Len(lru) \in Nat
      /\ ws \in Seq(Keys) /\ Len(ws) = Len(lru) - m
      /\ \A i \in 1 .. Len(ws) : ws[i] = lru[m + i]
    BY Members DEF IInv, Owned, Later
<1>2. PICK k \in ToSet(lru) : index[k] = e.slot
    BY DEF Standing
<1>3. PICK i \in 1 .. Len(lru) : lru[i] = k
    BY <1>1, Members
<1>4. ~(i \in 1 .. m)
    BY <1>2, <1>3 DEF Unseen, Shown
<1>5. i - m \in 1 .. Len(ws) /\ m + (i - m) = i
    BY <1>1, <1>4
<1>6. ws[i - m] = k
    BY <1>1, <1>3, <1>5
<1> QED  BY <1>1, <1>2, <1>5, <1>6, Members

\* The key promoted is the one an entry now shows.
LEMMA PromotedRecent ==
    ASSUME NEW fr, NEW ix, NEW ks, Owned(fr, ix, ks), NEW key \in ToSet(ks), NEW es,
           Recent(es, ix, ks), NEW e, e.kind = "slot", e.slot = ix[key]
    PROVE  Recent(es \cup {e}, ix, Promoted(ks, key))
<1> DEFINE ws == Promoted(ks, key)
           more == es \cup {e}
<1>1. Reordered(ws, ks, key)
    BY Promoting
<1>2. /\ ks \in Seq(Keys) /\ \A k, j \in ToSet(ks) : k # j => ix[k] # ix[j]
    BY DEF Owned
<1> HIDE DEF ws
<1> SUFFICES ASSUME NEW a \in 1 .. Len(ws), NEW b \in 1 .. Len(ws), a < b,
                    Shown(more, ix[ws[a]])
             PROVE  Shown(more, ix[ws[b]])
    BY DEF Recent, ws
<1>5. Len(ws) = Len(ks)
    BY <1>1 DEF Reordered
<1>3. CASE ws[b] = key
    BY <1>3 DEF Shown
<1>4. CASE ws[b] # key
    <2>1. PICK c \in 1 .. Len(ks), d \in 1 .. Len(ks) : c < d /\ ws[a] = ks[c] /\ ws[b] = ks[d]
        BY <1>1, <1>4, <1>5 DEF Reordered
    <2>2. ks[c] # key /\ ks[c] \in ToSet(ks)
        BY <1>1, <1>2, <1>5, <2>1, Members DEF Reordered
    <2>3. Shown(es, ix[ks[c]])
        BY <1>2, <2>1, <2>2 DEF Shown
    <2>4. Shown(es, ix[ks[d]])
        BY <2>1, <2>3 DEF Recent
    <2> QED  BY <2>1, <2>4 DEF Shown
<1> QED  BY <1>3, <1>4

\* What serving a clip has to keep; es holds the new entry, if there is one.
LEMMA EntryMade ==
    ASSUME IInv, FrameInv, composing, NEW q \in todo, todo' = todo \ {q},
           UNCHANGED <<composing, clips>>,
           \A s \in Interop : s # q.src => texture'[s] = texture[s],
           NEW es, entries' = entries \cup es, \A e, d \in es : e = d,
           \A e \in es : /\ Asked(e) = q /\ e.src = q.src
                         /\ \/ e.kind = "slot" /\ e.slot \in Fitting(q.src)
                            \/ e.kind = "texture" /\ e.picture = texture'[q.src].picture,
           Tiered(index', lru'), Recent(entries', index', lru'),
           Crowded \/ Standing(entries', index', lru', pixels')
    PROVE  FrameInv'
<1>1. /\ clips \subseteq Keys /\ IsFiniteSet(clips) /\ Listed(entries, todo)
      /\ Sampled(entries, texture)
      /\ \A e \in entries : e.kind = "texture" => e.src \in Interop
    BY DEF FrameInv, IInv, Domains
<1>2. q \in clips /\ Asked(q) = q
    BY Requested
<1>3. Listed(entries, todo)'
    <2>1. todo' \subseteq clips
        BY <1>1 DEF Listed
    <2>2. \A e \in entries' : /\ Asked(e) \in clips \ todo'
                              /\ \/ e.kind = "slot" /\ e.slot \in Fitting(e.src)
                                 \/ e.kind = "texture"
        BY <1>1, <1>2 DEF Listed
    <2>3. \A e, d \in entries' : Asked(e) = Asked(d) => e = d
        <3>1. \A e \in entries : Asked(e) # q
            BY <1>1 DEF Listed
        <3> QED  BY <1>1, <3>1 DEF Listed
    <2> QED  BY <2>1, <2>2, <2>3 DEF Listed, Asked, Key
<1>4. Sampled(entries, texture)'
    <2> SUFFICES ASSUME NEW e \in entries', e.kind = "texture",
                        ~(texture'[e.src].picture = e.picture)
                 PROVE  \E d \in clips : d.src = e.src /\ d.pts # e.pts
        BY DEF Sampled
    <2>1. e \in entries /\ e.src \in Interop
        BY <1>1
    <2>2. CASE e.src # q.src
        BY <1>1, <2>1, <2>2 DEF Sampled
    <2>3. CASE e.src = q.src
        <3>1. Asked(e) # q /\ Asked(e) = Key(e.src, e.pts) /\ q = Key(q.src, q.pts)
            BY <1>1, <2>1, Requested DEF Listed, Asked
        <3>2. q.pts # e.pts
            BY <2>3, <3>1
        <3> QED  BY <1>2, <2>3, <3>2
    <2> QED  BY <2>2, <2>3
<1>5. (Crowded \/ Standing(entries, index, lru, pixels))'
    BY DEF Crowded, Standing
<1>6. Tiered(index, lru)' /\ Recent(entries, index, lru)'
    BY DEF Tiered, Recent, Shown
<1> QED  BY <1>1, <1>3, <1>4, <1>5, <1>6 DEF FrameInv

\* Where a picture is served from a texture, the cache stays as it is.
LEMMA TextureMade ==
    ASSUME IInv, FrameInv, composing, NEW q \in todo, todo' = todo \ {q},
           UNCHANGED <<composing, clips, index, lru, pixels>>,
           \A s \in Interop : s # q.src => texture'[s] = texture[s],
           entries' = entries \cup {TextureEntry(q)}
    PROVE  FrameInv'
<1> DEFINE e == TextureEntry(q)
           es == {e}
<1>1. /\ e.kind = "texture" /\ e.src = q.src /\ e.pts = q.pts
      /\ e.picture = texture'[q.src].picture
    BY DEF TextureEntry
<1>2. Asked(e) = q
    BY <1>1, Requested DEF Asked
<1> HIDE DEF e
<1>3. \A x : Shown(entries', x) <=> Shown(entries, x)
    BY <1>1 DEF Shown, e
<1>4. Recent(entries', index', lru') /\ Tiered(index', lru')
    <2>1. Recent(entries, index, lru) /\ Tiered(index, lru)
        BY DEF FrameInv
    <2> QED  BY <1>3, <2>1 DEF Recent
<1>5. Crowded \/ Standing(entries', index', lru', pixels')
    BY <1>1 DEF FrameInv, Standing, e
<1>6. entries' = entries \cup es
    BY DEF e
<1>7. \A d \in es : /\ Asked(d) = q /\ d.src = q.src
                    /\ \/ d.kind = "slot" /\ d.slot \in Fitting(q.src)
                       \/ d.kind = "texture" /\ d.picture = texture'[q.src].picture
    BY <1>1, <1>2
<1>8. \A d, c \in es : d = c
    OBVIOUS
<1> HIDE DEF es
<1> QED  BY <1>4, <1>5, <1>6, <1>7, <1>8, EntryMade

LEMMA ElsewhereKept ==
    ASSUME IInv, NEW q, NEW d \in Declined(q), NEW s \in Interop, s # q.src
    PROVE  d.texture[s] = texture[s]
<1>1. texture \in [Interop -> Textures]
    BY DEF IInv, Domains
<1>2. DeclinedAs(q, d)
    BY EitherWay
<1>3. \A t : [texture EXCEPT ![q.src] = t][s] = texture[s]
    BY <1>1
<1>4. [texture EXCEPT ![q.src].held = NoFrame][s] = texture[s]
    BY <1>1
<1>5. \A v : LeftBehind(q, v)[s] = texture[s]
    BY <1>3, <1>4 DEF LeftBehind
<1> QED  BY <1>2, <1>3, <1>5 DEF DeclinedAs

LEMMA SlotEntryOf ==
    ASSUME FrameInv, NEW q \in todo, NEW x
    PROVE  LET e == SlotEntry(q, x)
           IN  /\ e.kind = "slot" /\ e.src = q.src /\ e.slot = x /\ e.picture = pixels'[x]
               /\ Asked(e) = q
BY Requested DEF SlotEntry, Asked

LEMMA CachedEntry ==
    ASSUME IInv, FrameInv, composing, NEW q \in todo, todo' = todo \ {q},
           UNCHANGED <<composing, clips>>, ServeCached(q)
    PROVE  FrameInv'
<1> DEFINE key == Key(q.src, q.pts)
           e == SlotEntry(q, index[key])
           es == {e}
<1>0. /\ Owned(free, index, lru) /\ Tiered(index, lru) /\ Recent(entries, index, lru)
      /\ DOMAIN index = ToSet(lru)
    BY Cached DEF IInv, FrameInv
<1>1. /\ key \in ToSet(lru) /\ lru' = Promoted(lru, key)
      /\ UNCHANGED <<free, index, pixels>> /\ entries' = entries \cup {e}
    BY <1>0 DEF ServeCached, Enter
<1>2. \A s \in Interop : s # q.src => texture'[s] = texture[s]
    <2>1. \E d \in Declined(q) : texture' = d.texture
        BY DEF ServeCached
    <2> QED  BY <2>1, ElsewhereKept
<1>3. /\ e.kind = "slot" /\ e.src = q.src /\ e.slot = index[key] /\ e.picture = pixels'[e.slot]
      /\ Asked(e) = q /\ key.src = q.src
    BY SlotEntryOf DEF Key
<1> HIDE DEF e, key
<1>4. ToSet(lru') = ToSet(lru)
    BY <1>0, <1>1, Promoting
<1>5. Tiered(index', lru')
    BY <1>0, <1>1, <1>4 DEF Tiered
<1>6. Recent(entries', index', lru')
    BY <1>0, <1>1, <1>3, PromotedRecent
<1>7. Crowded \/ Standing(entries', index', lru', pixels')
    <2>1. Crowded \/ Standing(entries, index, lru, pixels)
        BY DEF FrameInv
    <2>2. ASSUME Standing(entries, index, lru, pixels), NEW d \in entries', d.kind = "slot"
          PROVE  pixels'[d.slot] = d.picture /\ \E k \in ToSet(lru') : index'[k] = d.slot
        <3>1. CASE d \in entries
            BY <1>1, <1>4, <2>2, <3>1 DEF Standing
        <3>2. CASE d = e
            BY <1>1, <1>3, <1>4, <3>2
        <3> QED  BY <1>1, <2>2, <3>1, <3>2
    <2> QED  BY <2>1, <2>2 DEF Standing
<1>8. index[key] \in Fitting(q.src)
    BY <1>0, <1>1, <1>3 DEF Tiered
<1>9. /\ \A d \in es : /\ Asked(d) = q /\ d.src = q.src
                       /\ \/ d.kind = "slot" /\ d.slot \in Fitting(q.src)
                          \/ d.kind = "texture" /\ d.picture = texture'[q.src].picture
      /\ \A d, c \in es : d = c
      /\ entries' = entries \cup es
    BY <1>1, <1>3, <1>8
<1> HIDE DEF es
<1> QED  BY <1>2, <1>5, <1>6, <1>7, <1>9, EntryMade

LEMMA KeysLeft ==
    ASSUME NEW ks \in Seq(Keys)
    PROVE  ToSet(WithRoom(ks)) \subseteq ToSet(ks)
<1> DEFINE ws == WithRoom(ks)
<1>1. CASE ~(Len(ks) >= Capacity)
    BY <1>1 DEF WithRoom
<1>2. CASE Len(ks) >= Capacity
    <2>1. ws = Tail(ks) /\ ks # <<>> /\ Len(ks) \in Nat
        <3>1. Len(ks) > 0 /\ Len(ks) \in Nat
            BY <1>2, Members, PreviewAssumption
        <3> QED  BY <1>2, <3>1 DEF WithRoom
    <2> HIDE DEF ws
    <2>2. /\ ws \in Seq(Keys) /\ Len(ws) = Len(ks) - 1
          /\ \A i \in 1 .. Len(ws) : ws[i] = ks[i + 1]
        BY <2>1, HeadTailProperties
    <2>3. \A i \in 1 .. Len(ws) : i + 1 \in 1 .. Len(ks) /\ ws[i] \in ToSet(ks)
        <3>1. \A i \in 1 .. Len(ws) : i + 1 \in 1 .. Len(ks)
            BY <2>1, <2>2
        <3> QED  BY <2>2, <3>1, Members
    <2>4. \A k \in ToSet(ws) : k \in ToSet(ks)
        BY <2>2, <2>3, Members
    <2> QED  BY <2>4 DEF ws
<1> QED  BY <1>1, <1>2

LEMMA BlockingEntry ==
    ASSUME IInv, FrameInv, composing, NEW q \in todo, todo' = todo \ {q},
           UNCHANGED <<composing, clips>>, ServeBlocking(q)
    PROVE  FrameInv'
<1> DEFINE s == q.src
           key == Key(s, q.pts)
           rest == Rest(s)
           pool == FreeAfter(Evictions(s))
           x == CHOOSE y \in pool \cap Fitting(s) : TRUE
           keys == WithRoom(rest)
           entry == SlotEntry(q, x)
           other(k) == SlotEntry(q, index[k])
           Entered(es) ==
             /\ entries' = entries \cup es /\ \A e, d \in es : e = d
             /\ \A e \in es : /\ Asked(e) = q /\ e.src = q.src
                              /\ \/ e.kind = "slot" /\ e.slot \in Fitting(q.src)
                                 \/ e.kind = "texture" /\ e.picture = texture'[q.src].picture
\* what is asked of the cache in each case
<1>0. /\ Owned(free, index, lru) /\ Tiered(index, lru) /\ Recent(entries, index, lru)
      /\ lru \in Seq(Keys) /\ Listed(entries, todo)
      /\ Crowded \/ Standing(entries, index, lru, pixels)
      /\ pixels \in [Slots -> Pictures]
      /\ index \in [ToSet(lru) -> Slots]
    BY DEF IInv, FrameInv, Owned, Domains
<1>1. key \notin ToSet(lru) /\ key = q /\ key.src = s
    <2>1. key \notin DOMAIN index
        BY DEF ServeBlocking
    <2> QED  BY <2>1, Cached, Requested
<1>2. /\ \E d \in Declined(q) : texture' = d.texture
      /\ \/ /\ index' = Kept(ToSet(rest)) /\ lru' = rest
            /\ UNCHANGED <<pixels, entries>>
         \/ /\ pool \cap Fitting(s) # {}
            /\ \E picture : pixels' = [pixels EXCEPT ![x] = picture]
            /\ index' = With(ToSet(keys), key, x)
            /\ lru' = Append(keys, key)
            /\ entries' = entries \cup {entry}
         \/ /\ pool \cap Fitting(s) # {}
            /\ pixels' = [pixels EXCEPT ![x] = Blank]
            /\ index' = Kept(ToSet(rest))
            /\ \/ \E k : /\ k \in ToSet(rest) /\ k.src = s
                         /\ lru' = Promoted(rest, k) /\ entries' = entries \cup {other(k)}
               \/ lru' = rest /\ entries' = entries
    <2> DEFINE r(d) == Positioned(s, d.reader, q.pts)
               old(d) == Key(s, r(d).last)
    <2>1. PICK d, res :
        /\ d \in Declined(q) /\ res \in Outcomes(s, r(d), q.pts)
        /\ texture' = d.texture
        /\ \/ /\ index' = Kept(ToSet(rest)) /\ lru' = rest
              /\ UNCHANGED <<pixels, entries>>
           \/ /\ pool \cap Fitting(s) # {}
              /\ pixels' = [pixels EXCEPT ![x] = Picture(s, res.found, r(d), q.pts)]
              /\ index' = With(ToSet(keys), key, x)
              /\ lru' = Append(keys, key)
              /\ entries' = entries \cup {entry}
           \/ /\ pool \cap Fitting(s) # {}
              /\ pixels' = [pixels EXCEPT ![x] = Blank]
              /\ index' = Kept(ToSet(rest))
              /\ \/ /\ old(d) \in ToSet(rest)
                    /\ lru' = Promoted(rest, old(d)) /\ entries' = entries \cup {other(old(d))}
                 \/ lru' = rest /\ entries' = entries
        BY Zenon DEF ServeBlocking, Rest, Enter
    <2>2. old(d).src = s
        BY DEF Key
    <2> HIDE DEF old, r, entry, other, x, keys, rest, pool, key
    <2> QED  BY <2>1, <2>2, Zenon
<1>3. \A t \in Interop : t # q.src => texture'[t] = texture[t]
    BY <1>2, ElsewhereKept
<1>4. \A y : LET e == SlotEntry(q, y)
             IN  /\ e.kind = "slot" /\ e.src = s /\ e.slot = y /\ e.picture = pixels'[y]
                 /\ Asked(e) = q
    BY SlotEntryOf
<1>5. x \in pool \cap Fitting(s) \/ pool \cap Fitting(s) = {}
    OBVIOUS
<1> HIDE DEF x, rest, keys, pool, key
<1>6. /\ Owned(pool, Kept(ToSet(rest)), rest) /\ ToSet(rest) \subseteq ToSet(lru)
      /\ pool \subseteq Slots
      /\ \A k \in ToSet(rest) : Kept(ToSet(rest))[k] = index[k] /\ index[k] \notin pool
    BY MadeRoom DEF rest, pool
<1>7. Later(rest, lru, Evictions(s)) /\ (Crowded \/ Unseen(Evictions(s)))
    BY <1>0, Remaining, SparedByEviction DEF rest
<1>8. PICK m \in Nat : Later(keys, lru, m) /\ (Crowded \/ Unseen(m))
    BY SparedByRoom DEF keys, rest
<1>9. ToSet(keys) \subseteq ToSet(rest)
    BY <1>6, KeysLeft DEF keys, Owned
\* entries and a cache that go together
<1>10. ASSUME NEW es, Entered(es), Tiered(index', lru'), Recent(entries', index', lru'),
              Crowded \/ Standing(entries', index', lru', pixels')
       PROVE  FrameInv'
    <2>1. /\ entries' = entries \cup es /\ \A e, d \in es : e = d
          /\ \A e \in es : /\ Asked(e) = q /\ e.src = q.src
                           /\ \/ e.kind = "slot" /\ e.slot \in Fitting(q.src)
                              \/ e.kind = "texture" /\ e.picture = texture'[q.src].picture
        BY <1>10
    <2> HIDE DEF Entered
    <2> QED  BY <1>3, <1>10, <2>1, EntryMade
\* the cache without what was evicted
<1>11. Recent(entries, Kept(ToSet(rest)), rest) /\ Tiered(Kept(ToSet(rest)), rest)
    <2>1. Recent(entries, Kept(ToSet(rest)), rest)
        BY <1>0, <1>6, <1>7, LaterRecent
    <2>2. Tiered(Kept(ToSet(rest)), rest)
        BY <1>0, <1>6 DEF Tiered
    <2> QED  BY <2>1, <2>2
<1>12. ASSUME ~Crowded, NEW e \in entries, e.kind = "slot"
       PROVE  /\ pixels[e.slot] = e.picture
              /\ \E k \in ToSet(rest) : index[k] = e.slot
              /\ \E k \in ToSet(keys) : index[k] = e.slot
    BY <1>0, <1>7, <1>8, <1>12, LaterStanding DEF Standing
<1>13. CASE index' = Kept(ToSet(rest)) /\ lru' = rest /\ UNCHANGED <<pixels, entries>>
    <2>1. Tiered(index', lru') /\ Recent(entries', index', lru')
        BY <1>11, <1>13
    <2>2. Crowded \/ Standing(entries', index', lru', pixels')
        BY <1>6, <1>12, <1>13 DEF Standing
    <2>3. Entered({})
        BY <1>13
    <2> HIDE DEF Entered
    <2> QED  BY <1>10, <2>1, <2>2, <2>3
<1>14. CASE /\ pool \cap Fitting(s) # {}
            /\ \E picture : pixels' = [pixels EXCEPT ![x] = picture]
            /\ index' = With(ToSet(keys), key, x)
            /\ lru' = Append(keys, key)
            /\ entries' = entries \cup {entry}
    <2>1. /\ x \in pool /\ x \in Slots /\ x \in Fitting(s)
          /\ \A y \in Slots : y # x => pixels'[y] = pixels[y]
        BY <1>0, <1>5, <1>6, <1>14
    <2>2. /\ entry.kind = "slot" /\ entry.src = s /\ entry.slot = x
          /\ entry.picture = pixels'[x] /\ Asked(entry) = q
        BY <1>4
    <2> HIDE DEF entry
    <2>3. /\ index'[key] = x /\ key \notin ToSet(keys)
          /\ \A k \in ToSet(keys) : index'[k] = index[k] /\ index[k] # x /\ index[k] \in Slots
        BY <1>0, <1>1, <1>6, <1>9, <1>14, <2>1 DEF With
    <2>4. /\ keys \in Seq(Keys) /\ Len(keys) \in Nat /\ lru' \in Seq(Keys)
          /\ Len(lru') = Len(keys) + 1
          /\ \A i \in 1 .. Len(keys) : lru'[i] = keys[i]
          /\ lru'[Len(keys) + 1] = key
        <3>1. keys \in Seq(Keys) /\ key \in Keys
            BY <1>1, <1>8, Requested DEF Later, Keys, FrameInv, Listed
        <3> QED  BY <1>14, <3>1, Members, AppendProperties
    <2>5. /\ key \in ToSet(lru') /\ ToSet(keys) \subseteq ToSet(lru')
          /\ \A k \in ToSet(lru') : k = key \/ k \in ToSet(keys)
        <3>1. Len(keys) + 1 \in 1 .. Len(lru') /\ \A i \in 1 .. Len(keys) : i \in 1 .. Len(lru')
            BY <2>4
        <3>2. \A i \in 1 .. Len(lru') : i \in 1 .. Len(keys) \/ i = Len(keys) + 1
            BY <2>4
        <3>3. \A k \in ToSet(lru') : k = key \/ k \in ToSet(keys)
            BY <2>4, <3>2, Members
        <3>4. \A k \in ToSet(keys) : k \in ToSet(lru')
            BY <2>4, <3>1, Members
        <3> QED  BY <2>4, <3>1, <3>3, <3>4, Members
    <2>6. Tiered(index', lru')
        BY <1>0, <1>1, <1>6, <1>9, <2>1, <2>3, <2>5 DEF Tiered
    <2>7. Recent(entries', index', lru')
        <3> SUFFICES ASSUME NEW i \in 1 .. Len(lru'), NEW j \in 1 .. Len(lru'), i < j,
                            Shown(entries', index'[lru'[i]])
                     PROVE  Shown(entries', index'[lru'[j]])
            BY DEF Recent
        <3>1. CASE j = Len(keys) + 1
            <4>1. index'[lru'[j]] = entry.slot
                BY <2>2, <2>3, <2>4, <3>1
            <4> QED  BY <1>14, <2>2, <4>1 DEF Shown
        <3>2. CASE j # Len(keys) + 1
            <4>1. i \in 1 .. Len(keys) /\ j \in 1 .. Len(keys)
                BY <2>4, <3>2
            <4>2. /\ index'[lru'[i]] = index[keys[i]] /\ index[keys[i]] # x
                  /\ index'[lru'[j]] = index[keys[j]]
                BY <2>3, <2>4, <4>1, Members
            <4>3. Shown(entries, index[keys[i]])
                BY <1>14, <2>2, <4>2 DEF Shown
            <4>4. Recent(entries, index, keys)
                BY <1>0, <1>8, LaterRecent
            <4>5. Shown(entries, index[keys[j]])
                BY <4>1, <4>3, <4>4 DEF Recent
            <4> QED  BY <1>14, <4>2, <4>5 DEF Shown
        <3> QED  BY <3>1, <3>2
    <2>8. ASSUME ~Crowded  PROVE Standing(entries', index', lru', pixels')
        <3> SUFFICES ASSUME NEW e \in entries', e.kind = "slot"
                     PROVE  /\ pixels'[e.slot] = e.picture
                            /\ \E k \in ToSet(lru') : index'[k] = e.slot
            BY DEF Standing
        <3>1. CASE e = entry
            BY <2>2, <2>3, <2>5, <3>1
        <3>2. CASE e \in entries
            <4>1. PICK k \in ToSet(keys) : index[k] = e.slot
                BY <1>12, <2>8, <3>2
            <4>2. pixels[e.slot] = e.picture
                BY <1>12, <2>8, <3>2
            <4>3. e.slot # x /\ e.slot \in Slots /\ index'[k] = e.slot
                BY <2>3, <4>1
            <4> QED  BY <2>1, <2>5, <4>1, <4>2, <4>3
        <3> QED  BY <1>14, <3>1, <3>2
    <2>9. Entered({entry})
        BY <1>14, <2>1, <2>2
    <2> HIDE DEF Entered
    <2> QED  BY <1>10, <2>6, <2>7, <2>8, <2>9
<1>15. CASE /\ pool \cap Fitting(s) # {}
            /\ pixels' = [pixels EXCEPT ![x] = Blank]
            /\ index' = Kept(ToSet(rest))
            /\ \/ \E k : /\ k \in ToSet(rest) /\ k.src = s
                         /\ lru' = Promoted(rest, k) /\ entries' = entries \cup {other(k)}
               \/ lru' = rest /\ entries' = entries
    <2>1. /\ \A y \in Slots : y # x => pixels'[y] = pixels[y]
          /\ \A k \in ToSet(rest) : /\ index'[k] = index[k] /\ index[k] # x
                                    /\ index[k] \in Slots /\ index[k] \in Fitting(k.src)
        BY <1>0, <1>5, <1>6, <1>15 DEF Tiered
    <2>2. ASSUME ~Crowded, NEW e \in entries, e.kind = "slot"
          PROVE  pixels'[e.slot] = e.picture /\ \E k \in ToSet(rest) : index'[k] = e.slot
        <3>1. PICK k \in ToSet(rest) : index[k] = e.slot
            BY <1>12, <2>2
        <3> QED  BY <1>12, <2>1, <2>2, <3>1
    <2>3. CASE lru' = rest /\ entries' = entries
        <3>1. Tiered(index', lru') /\ Recent(entries', index', lru')
            BY <1>11, <1>15, <2>3
        <3>2. Crowded \/ Standing(entries', index', lru', pixels')
            BY <2>2, <2>3 DEF Standing
        <3>3. Entered({})
            BY <2>3
        <3> HIDE DEF Entered
        <3> QED  BY <1>10, <3>1, <3>2, <3>3
    <2>4. ASSUME NEW k \in ToSet(rest), k.src = s,
                 lru' = Promoted(rest, k), entries' = entries \cup {other(k)}
          PROVE  FrameInv'
        <3> DEFINE e == other(k)
        <3>1. /\ e.kind = "slot" /\ e.src = s /\ e.slot = index[k]
              /\ e.picture = pixels'[index[k]] /\ Asked(e) = q
            BY <1>4
        <3> HIDE DEF other
        <3>2. ToSet(lru') = ToSet(rest)
            BY <1>6, <2>4, Promoting
        <3>3. Tiered(index', lru')
            BY <1>11, <1>15, <3>2 DEF Tiered
        <3>4. Recent(entries', index', lru')
            <4>1. e.slot = Kept(ToSet(rest))[k]
                BY <1>6, <3>1
            <4>2. Recent(entries \cup {e}, Kept(ToSet(rest)), Promoted(rest, k))
                BY <1>6, <1>11, <3>1, <4>1, PromotedRecent
            <4> QED  BY <1>15, <2>4, <4>2
        <3>5. ASSUME ~Crowded  PROVE Standing(entries', index', lru', pixels')
            <4> SUFFICES ASSUME NEW d \in entries', d.kind = "slot"
                         PROVE  /\ pixels'[d.slot] = d.picture
                                /\ \E j \in ToSet(rest) : index'[j] = d.slot
                BY <3>2 DEF Standing
            <4>1. CASE d \in entries
                BY <2>2, <3>5, <4>1
            <4>2. CASE d = e
                BY <2>1, <3>1, <4>2
            <4> QED  BY <2>4, <4>1, <4>2
        <3>6. Entered({e})
            BY <2>1, <2>4, <3>1
        <3> HIDE DEF Entered
        <3> QED  BY <1>10, <3>3, <3>4, <3>5, <3>6
    <2> QED  BY <1>15, <2>3, <2>4
<1> QED  BY <1>2, <1>13, <1>14, <1>15

LEMMA FrameBegins == Init => FrameInv
<1> SUFFICES ASSUME Init  PROVE FrameInv
    OBVIOUS
<1>1. /\ clips = {} /\ entries = {} /\ todo = {}
      /\ index = <<>> /\ lru = <<>>
    BY DEF Init
<1>2. lru \in Seq(Keys) /\ Len(lru) = 0
    BY <1>1
<1>3. ToSet(lru) = {} /\ \A i \in 1 .. Len(lru) : FALSE
    <2>1. ToSet(lru) = {}
        BY <1>2, NoMembers
    <2>2. \A i \in 1 .. Len(lru) : FALSE
        BY <1>2
    <2> QED  BY <2>1, <2>2
<1>4. IsFiniteSet(clips)
    BY <1>1, FS_EmptySet
<1>5. Listed(entries, todo) /\ Sampled(entries, texture) /\ clips \subseteq Keys
    BY <1>1 DEF Listed, Sampled
<1>6. Tiered(index, lru) /\ Recent(entries, index, lru) /\ Standing(entries, index, lru, pixels)
    <2> HIDE DEF Init
    <2> QED  BY <1>1, <1>3 DEF Tiered, Recent, Standing
<1> QED  BY <1>1, <1>4, <1>5, <1>6 DEF FrameInv

\* With no entries there is nothing to keep but the tiers.
LEMMA NoEntries ==
    ASSUME entries' = {}, todo' \subseteq clips', clips' \subseteq Keys, IsFiniteSet(clips'),
           Tiered(index', lru')
    PROVE  FrameInv'
BY DEF FrameInv, Listed, Tiered, Recent, Shown, Standing, Sampled

LEMMA FrameKept ==
    ASSUME FrameInv, UNCHANGED <<composing, clips, todo, entries, index, lru, pixels>>,
           entries = {} \/ texture' = texture
    PROVE  FrameInv'
<1>1. Sampled(entries, texture)'
    BY DEF FrameInv, Sampled
<1>2. Listed(entries, todo)' /\ Tiered(index, lru)' /\ Recent(entries, index, lru)'
    BY DEF FrameInv, Listed, Tiered, Recent
<1>3. (Crowded \/ Standing(entries, index, lru, pixels))'
    BY DEF FrameInv, Crowded, Standing
<1> QED  BY <1>1, <1>2, <1>3 DEF FrameInv

LEMMA FrameStep ==
    ASSUME IInv, FrameInv, [Next]_vars
    PROVE  FrameInv'
<1>0. Tiered(index, lru) /\ IsFiniteSet({})
    BY FS_EmptySet DEF FrameInv
<1>1. ASSUME NEW layout \in Layouts, ScheduleFrame(layout)  PROVE FrameInv'
    <2>1. /\ entries' = {} /\ todo' = layout /\ clips' = layout
          /\ index' = index /\ lru' = lru
        BY <1>1 DEF ScheduleFrame, ioVars
    <2>2. layout \subseteq Keys /\ IsFiniteSet(layout)
        BY PreviewAssumption DEF Keys
    <2> QED  BY <1>0, <2>1, <2>2, NoEntries
<1>2. ASSUME NEW q \in todo, ServeClip(q)  PROVE FrameInv'
    <2>1. /\ composing /\ todo' = todo \ {q} /\ UNCHANGED <<composing, clips>>
          /\ ServeResident(q) \/ ServeInterop(q) \/ ServeCached(q) \/ ServeBlocking(q)
        BY <1>2 DEF ServeClip
    <2>2. CASE ServeResident(q)
        BY <2>1, <2>2, TextureMade DEF ServeResident, ioVars, Enter
    <2>3. CASE ServeInterop(q)
        <3>1. /\ UNCHANGED <<index, lru, pixels>> /\ entries' = entries \cup {TextureEntry(q)}
              /\ \E t : texture' = [texture EXCEPT ![q.src] = t]
            BY <2>3 DEF ServeInterop, Enter
        <3>2. \A s \in Interop : s # q.src => texture'[s] = texture[s]
            BY <3>1 DEF IInv, Domains
        <3> QED  BY <2>1, <3>1, <3>2, TextureMade
    <2>4. CASE ServeCached(q)
        BY <2>1, <2>4, CachedEntry
    <2>5. CASE ServeBlocking(q)
        BY <2>1, <2>5, BlockingEntry
    <2> QED  BY <2>1, <2>2, <2>3, <2>4, <2>5
<1>3. CASE Submit
    <2>1. /\ entries' = {} /\ clips' = {} /\ todo' = {} /\ index' = index /\ lru' = lru
        BY <1>3 DEF Submit
    <2> QED  BY <1>0, <2>1, NoEntries
<1>4. CASE GpuFinishes
    BY <1>4, FrameKept DEF GpuFinishes, ioVars
<1>5. CASE Reset
    <2>1. /\ entries' = {} /\ UNCHANGED <<clips, todo>> /\ lru' = <<>> /\ index' = <<>>
        BY <1>5 DEF Reset, FrameInv
    <2>2. ToSet(lru') = {}
        <3>1. lru' \in Seq(Keys) /\ Len(lru') = 0
            BY <2>1
        <3> QED  BY <3>1, NoMembers
    <2>3. Tiered(index', lru')
        BY <2>2 DEF Tiered
    <2> QED  BY <2>1, <2>3, NoEntries DEF FrameInv, Listed
<1>6. CASE UNCHANGED vars
    BY <1>6, FrameKept DEF vars, ioVars
<1> QED  BY <1>1, <1>2, <1>3, <1>4, <1>5, <1>6 DEF Next

-----------------------------------------------------------------------------
(* The theorems *)

\* The inductive invariant holds throughout every behaviour.
THEOREM Invariance == Spec => []IInv
<1>1. Init => IInv
    BY Initially
<1>2. IInv /\ [Next]_vars => IInv'
    <2> SUFFICES ASSUME IInv, [Next]_vars  PROVE IInv'
        OBVIOUS
    <2>1. CASE \E layout \in Layouts : ScheduleFrame(layout)
        BY <2>1, Scheduling
    <2>2. CASE \E q \in todo : ServeClip(q)
        <3>1. PICK q \in todo : ServeClip(q)
            BY <2>2
        <3>2. /\ todo' = todo \ {q} /\ UNCHANGED <<project, queue, frames>>
              /\ ServeResident(q) \/ ServeInterop(q) \/ ServeCached(q) \/ ServeBlocking(q)
            BY <3>1 DEF ServeClip
        <3> QED  BY <3>2, ServingResident, ServingInterop, ServingCached, ServingBlocking
    <2>3. CASE Submit
        BY <2>3, Submitting
    <2>4. CASE GpuFinishes
        BY <2>4, Finishing
    <2>5. CASE Reset
        BY <2>5, Resetting
    <2>6. CASE UNCHANGED vars
        BY <2>6, Stuttering
    <2> QED  BY <2>1, <2>2, <2>3, <2>4, <2>5, <2>6 DEF Next
<1> QED  BY <1>1, <1>2, PTL DEF Spec

\* No slot of the pool is lost or lent twice, whatever is evicted, promoted,
\* decoded in vain or dropped with its project: each is free or behind one key
\* of the cache, and the LRU list and the index hold the same keys.
THEOREM SlotsKept == Spec => []SlotsConserved
<1>1. IInv => SlotsConserved
    <2> SUFFICES ASSUME IInv  PROVE SlotsConserved
        OBVIOUS
    <2>1. Owned(free, index, lru) /\ DOMAIN index = ToSet(lru)
        BY Cached DEF IInv
    <2>2. Len(lru) = Cardinality(ToSet(lru))
        BY <2>1, Counting
    <2> QED  BY <2>1, <2>2 DEF SlotsConserved, Owned
<1> QED  BY <1>1, Invariance, PTL

\* Whatever the rate of a file, whichever of its frames do not decode and
\* wherever reading it fails: what the cache or a texture shows for a time is
\* of that source and the project that is open, never earlier than the time,
\* and the first frame from it on that decodes, unless the reader had gone past
\* that one. Frame 0 alone may stand in for what the decoder still holds back.
THEOREM PicturesTrue == Spec => []PicturesAreTrue
<1>1. IInv => PicturesAreTrue
    BY DEF IInv
<1> QED  BY <1>1, Invariance, PTL

\* However far the GPU lags behind, the textures a submission samples keep
\* what they showed when it was made until it is finished.
THEOREM Untorn == Spec => []TexturesUntorn
<1>1. IInv => TexturesUntorn
    <2> SUFFICES ASSUME IInv, NEW i \in DOMAIN queue, NEW s \in DOMAIN queue[i].reads
                 PROVE  texture[s].picture = queue[i].reads[s]
        BY DEF TexturesUntorn
    <2>1. i \in 1 .. Len(queue)
        BY Members DEF IInv, Domains
    <2> QED  BY <2>1 DEF IInv, Sampling
<1> QED  BY <1>1, Invariance, PTL

\* The clips of one frame do not take the pictures from one another: what a
\* clip was served from a slot is in the slot, and what it was served from a
\* texture in the texture, when the frame is submitted. But for a frame too
\* crowded for the cache or a tier of its slots, and for a source that is shown
\* at two times and has one pair of textures.
THEOREM ServedAsDecoded == Spec => []FrameIsAsDecoded
<1>1. Init => FrameInv
    BY FrameBegins
<1>2. IInv /\ FrameInv /\ [Next]_vars => FrameInv'
    BY FrameStep
<1>3. FrameInv => FrameIsAsDecoded
    <2> SUFFICES ASSUME FrameInv, NEW e \in entries
                 PROVE  \/ e.kind = "slot" /\ (Crowded \/ pixels[e.slot] = e.picture)
                        \/ e.kind = "texture"
                             /\ \/ texture[e.src].picture = e.picture
                                \/ \E d \in clips : d.src = e.src /\ d.pts # e.pts
        BY DEF FrameIsAsDecoded
    <2>1. e.kind = "slot" \/ e.kind = "texture"
        BY DEF FrameInv, Listed
    <2> QED  BY <2>1 DEF FrameInv, Standing, Sampled
<1> QED  BY <1>1, <1>2, <1>3, Invariance, PTL DEF Spec

=============================================================================
