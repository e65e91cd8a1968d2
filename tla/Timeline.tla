------------------------------ MODULE Timeline ------------------------------
(***************************************************************************)
(* The clip store of the timeline (timeline/store.rs), its mutations       *)
(* (timeline/mutation.rs), its keyframes (timeline/keyframe.rs) and its    *)
(* queries (timeline/query.rs), as operators on values. The columns of the *)
(* store are one sequence of clip records in the order of the columns.     *)
(*                                                                         *)
(* A clip's opacity, transform, effects, volume and the like are one field *)
(* "look": every mutation copies them together. Keyframes are pairs of a   *)
(* clip and a time: one parameter, values left out.                        *)
(*                                                                         *)
(* A mutation returns [ok, s, id]: whether it succeeded, the store as it   *)
(* leaves it (an error in the middle leaves what was done so far), and the *)
(* id it hands back.                                                       *)
(***************************************************************************)
EXTENDS Integers, Sequences, FiniteSets, SequencesExt

CONSTANT SpeedUnit      \* the speed of a clip at 1x (10_000 in the source)

ASSUME SpeedUnitAssumption == SpeedUnit \in Nat \ {0}

EmptyStore == [clips |-> <<>>, keys |-> {}, nextId |-> 0]

Done(s, id) == [ok |-> TRUE, s |-> s, id |-> id]
Fail(s) == [ok |-> FALSE, s |-> s, id |-> -1]

Ids(s) == {s.clips[i].id : i \in DOMAIN s.clips}
IndexOf(s, id) == CHOOSE i \in DOMAIN s.clips : s.clips[i].id = id
ClipOf(s, id) == s.clips[IndexOf(s, id)]

\* The members of a sequence at some of its indices, in order.
Picked(ps, at) ==
    LET pick[n \in 0 .. Len(ps)] ==
          IF n = 0 THEN <<>>
          ELSE IF n \in at THEN Append(pick[n - 1], ps[n])
          ELSE pick[n - 1]
    IN pick[Len(ps)]

OnTrack(s, t) == Picked(s.clips, {i \in DOMAIN s.clips : s.clips[i].track = t})

-----------------------------------------------------------------------------
(* Values *)

RoundDiv(a, d) ==
    IF a >= 0 THEN (a + d \div 2) \div d ELSE -((d \div 2 - a) \div d)

\* The source time that lies `offset` into a clip played at `speed`.
SpeedScale(offset, speed) == RoundDiv(offset * speed, SpeedUnit)

Duration(c) == c.ptsOut - c.ptsIn

-----------------------------------------------------------------------------
(* Keyframes *)

RemoveKeys(keys, id) == {k \in keys : k.clip # id}

CopyKeys(keys, from, to, a, b) ==
    keys \cup {[clip |-> to, pts |-> k.pts] :
                 k \in {q \in keys : q.clip = from /\ a <= q.pts /\ q.pts <= b}}

TrimKeys(keys, id, a, b) ==
    {k \in keys : k.clip # id \/ (a <= k.pts /\ k.pts <= b)}

-----------------------------------------------------------------------------
(* Single mutations *)

\* The mutant pushes the clip behind the last one.
MutInsertClip(s, p) ==
    IF p.ptsIn >= p.ptsOut
    THEN Fail(s)
    ELSE Done([s EXCEPT !.clips = Append(@, [p EXCEPT !.id = s.nextId]), !.nextId = @ + 1],
              s.nextId)

\* Sorted insertion after the clips that start no later; the id is fresh.
InsertClip(s, p) ==
    IF p.ptsIn >= p.ptsOut
    THEN Fail(s)
    ELSE LET before == {i \in DOMAIN s.clips : s.clips[i].ptsIn <= p.ptsIn}
         IN Done([s EXCEPT !.clips = InsertAt(@, Cardinality(before) + 1,
                                              [p EXCEPT !.id = s.nextId]),
                           !.nextId = @ + 1],
                 s.nextId)

\* The mutant forgets the keyframes of the clip it removes.
MutRemoveClip(s, id) ==
    IF id \notin Ids(s)
    THEN Fail(s)
    ELSE Done([s EXCEPT !.clips = RemoveAt(@, IndexOf(s, id))], id)

RemoveClip(s, id) ==
    IF id \notin Ids(s)
    THEN Fail(s)
    ELSE Done([s EXCEPT !.clips = RemoveAt(@, IndexOf(s, id)),
                        !.keys = RemoveKeys(@, id)], id)

\* A run of insertions or removals that `?` cuts short at the first error.
InsertAll(r, ps) ==
    FoldLeft(LAMBDA acc, p : IF acc.ok THEN InsertClip(acc.s, p) ELSE acc, r, ps)
RemoveAll(r, ids) ==
    FoldLeft(LAMBDA acc, id : IF acc.ok THEN RemoveClip(acc.s, id) ELSE acc, r, ids)

\* What stays of clip c when [a, b) is taken out of it. Source time advances
\* with timeline time here, whatever the speed of the clip.
Remains(c, a, b) ==
    (IF c.ptsIn < a THEN <<[c EXCEPT !.ptsOut = a, !.fadeOut = 0]>> ELSE <<>>)
    \o (IF c.ptsOut > b
        THEN <<[c EXCEPT !.ptsIn = b, !.sourceIn = @ + (b - c.ptsIn), !.fadeIn = 0]>>
        ELSE <<>>)

InsertClipOverwrite(s, p) ==
    IF p.ptsIn >= p.ptsOut
    THEN Fail(s)
    ELSE LET Under(c) == c.track = p.track /\ c.ptsIn < p.ptsOut /\ c.ptsOut > p.ptsIn
             under == Picked(s.clips, {i \in DOMAIN s.clips : Under(s.clips[i])})
             room == FoldLeft(LAMBDA r, c : InsertAll(RemoveClip(r.s, c.id),
                                                      Remains(c, p.ptsIn, p.ptsOut)),
                              Done(s, -1), under)
         IN InsertClip(room.s, p)

\* The in-point moves, and the source in-point with it.
TrimClipIn(s, id, newIn) ==
    IF id \notin Ids(s)
    THEN Fail(s)
    ELSE LET c == ClipOf(s, id)
             src == c.sourceIn + (newIn - c.ptsIn)
             r == InsertClip(s, [c EXCEPT !.ptsIn = newIn, !.sourceIn = src])
         IN IF newIn >= c.ptsOut \/ src < 0
            THEN Fail(s)
            ELSE Done(RemoveClip([r.s EXCEPT !.keys = CopyKeys(@, id, r.id, newIn, c.ptsOut)],
                                 id).s, r.id)

TrimClipOut(s, id, newOut) ==
    IF id \notin Ids(s) \/ newOut <= ClipOf(s, id).ptsIn
    THEN Fail(s)
    ELSE Done([s EXCEPT !.clips[IndexOf(s, id)].ptsOut = newOut,
                        !.keys = TrimKeys(@, id, ClipOf(s, id).ptsIn, newOut)], id)

\* What follows a cut of c at pts. The mutant takes the clip to play at 1x.
MutTailOf(c, pts) ==
    [c EXCEPT !.ptsIn = pts, !.fadeIn = 0, !.sourceIn = @ + (pts - c.ptsIn)]
TailOf(c, pts) ==
    [c EXCEPT !.ptsIn = pts, !.fadeIn = 0,
              !.sourceIn = @ + SpeedScale(pts - c.ptsIn, c.speed)]

SplitClip(s, id, pts) ==
    IF id \notin Ids(s)
    THEN Fail(s)
    ELSE LET c == ClipOf(s, id)
             i == IndexOf(s, id)
             r == InsertClip([s EXCEPT !.clips[i].ptsOut = pts, !.clips[i].fadeOut = 0],
                             TailOf(c, pts))
         IN IF pts <= c.ptsIn \/ pts >= c.ptsOut
            THEN Fail(s)
            ELSE Done([r.s EXCEPT !.keys =
                          TrimKeys(CopyKeys(@, id, r.id, pts, c.ptsOut), id, c.ptsIn, pts)],
                      r.id)

DuplicateClip(s, id) ==
    IF id \notin Ids(s)
    THEN Fail(s)
    ELSE LET c == ClipOf(s, id)
         IN InsertClipOverwrite(s, [c EXCEPT !.ptsIn = c.ptsOut,
                                             !.ptsOut = c.ptsOut + Duration(c)])

\* A new speed keeps the source range: the clip's length changes in place.
SetSpeedAt(s, i, speed) ==
    LET c == s.clips[i]
    IN IF speed = c.speed
       THEN s
       ELSE [s EXCEPT !.clips[i].ptsOut = c.ptsIn + RoundDiv(Duration(c) * c.speed, speed),
                      !.clips[i].speed = speed]

-----------------------------------------------------------------------------
(* Ripple edits: what comes later on the track makes room, or closes a gap *)

\* Sorted by start; clips that start together stay in their order.
ByStart(ps) ==
    FoldLeft(LAMBDA acc, p :
        InsertAt(acc, Cardinality({i \in DOMAIN acc : acc[i].ptsIn <= p.ptsIn}) + 1, p),
        <<>>, ps)

MoveBy(c, delta) == [c EXCEPT !.ptsIn = @ + delta, !.ptsOut = @ + delta]
IdSeq(ps) == [n \in DOMAIN ps |-> ps[n].id]

RippleRemoveClip(s, id) ==
    IF id \notin Ids(s)
    THEN Fail(s)
    ELSE LET c == ClipOf(s, id)
             later == Picked(s.clips, {i \in DOMAIN s.clips :
                                /\ s.clips[i].track = c.track /\ s.clips[i].ptsIn >= c.ptsOut})
             back == [n \in DOMAIN later |-> MoveBy(later[n], -Duration(c))]
         IN InsertAll(RemoveAll(RemoveClip(s, id), IdSeq(later)), ByStart(back))

\* Clips of the same source and start on other tracks follow in every shift.
LinkedTo(s, c) ==
    LET Linked(d) == d.src = c.src /\ d.ptsIn = c.ptsIn /\ d.track # c.track
    IN Picked(s.clips, {i \in DOMAIN s.clips : Linked(s.clips[i])})

\* Which clips of the track are cut at `at` and which are pushed, and how far:
\* `boundary` is where the next clip may start at the earliest.
RipplePlan(s, track, at, length) ==
    FoldLeft(LAMBDA acc, c :
        IF c.ptsOut <= at THEN acc
        ELSE IF c.ptsIn < at
        THEN [acc EXCEPT !.cut = Append(@, [clip |-> c, to |-> acc.boundary]),
                         !.boundary = @ + (c.ptsOut - at)]
        ELSE IF c.ptsIn < acc.boundary
        THEN [acc EXCEPT !.push = Append(@, [clip |-> c, by |-> acc.boundary - c.ptsIn]),
                         !.boundary = c.ptsOut + (acc.boundary - c.ptsIn)]
        ELSE [acc EXCEPT !.boundary = c.ptsOut],
        [cut |-> <<>>, push |-> <<>>, boundary |-> at + length], OnTrack(s, track))

WithLinked(s, moves) ==
    FoldLeft(LAMBDA acc, m :
        LET linked == LinkedTo(s, m.clip)
        IN acc \o [k \in DOMAIN linked |-> [m EXCEPT !.clip = linked[k]]], moves, moves)

\* The two halves of a clip cut at `at`, the second pushed to m.to. The mutant
\* starts the second at the source time of the first.
MutHalves(m, at) ==
    <<[m.clip EXCEPT !.ptsOut = at, !.fadeOut = 0],
      [m.clip EXCEPT !.ptsIn = m.to, !.ptsOut = m.to + (m.clip.ptsOut - at), !.fadeIn = 0]>>
Halves(m, at) ==
    <<[m.clip EXCEPT !.ptsOut = at, !.fadeOut = 0],
      [m.clip EXCEPT !.ptsIn = m.to, !.ptsOut = m.to + (m.clip.ptsOut - at),
                     !.sourceIn = @ + (at - m.clip.ptsIn), !.fadeIn = 0]>>

InsertClipRipple(s, p) ==
    IF p.ptsIn >= p.ptsOut
    THEN Fail(s)
    ELSE LET at == p.ptsIn
             plan == RipplePlan(s, p.track, at, Duration(p))
             cut == WithLinked(s, plan.cut)
             push == WithLinked(s, plan.push)
             halves == FoldLeft(LAMBDA acc, m : acc \o Halves(m, at), <<>>, cut)
             pushed == [n \in DOMAIN push |-> MoveBy(push[n].clip, push[n].by)]
             taken == [n \in DOMAIN cut |-> cut[n].clip.id]
                      \o [n \in DOMAIN push |-> push[n].clip.id]
         IN InsertAll(RemoveAll(Done(s, -1), taken), halves \o ByStart(pushed) \o <<p>>)

MoveClipRipple(s, id, newIn) ==
    IF id \notin Ids(s)
    THEN Fail(s)
    ELSE LET c == ClipOf(s, id)
             gone == RippleRemoveClip(s, id)
         IN IF gone.ok THEN InsertClipRipple(gone.s, MoveBy(c, newIn - c.ptsIn)) ELSE gone

-----------------------------------------------------------------------------
(* Queries *)

\* The clips under a time, each with the source time to decode.
QueryActive(s, pts) ==
    {[track |-> c.track, src |-> c.src, look |-> c.look,
      sourcePts |-> SpeedScale(pts - c.ptsIn, c.speed) + c.sourceIn] :
        c \in {s.clips[i] : i \in {j \in DOMAIN s.clips :
                  s.clips[j].ptsIn <= pts /\ s.clips[j].ptsOut > pts}}}

EndOf(s) == LET outs == {s.clips[i].ptsOut : i \in DOMAIN s.clips}
            IN IF outs = {} THEN 0 ELSE CHOOSE m \in outs : \A o \in outs : o <= m

=============================================================================
