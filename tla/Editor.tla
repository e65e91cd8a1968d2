------------------------------- MODULE Editor -------------------------------
(***************************************************************************)
(* An editing session: the project (project.rs) over the clip store of     *)
(* Timeline, the undo history (ui/history.rs), and the panels that edit    *)
(* through them: the timeline (ui/layout/timeline.rs), the viewport        *)
(* (viewport.rs), the inspector and its keyframe editor (inspector.rs,     *)
(* keyframe_editor.rs), and the frame loop that draws them (ui/app.rs).    *)
(*                                                                         *)
(* One action is one command of the user with everything the frame does    *)
(* for it. A drag takes several: it starts, it may write while it lasts,   *)
(* and it ends; the keyboard stays live in between. The playhead, which    *)
(* the user may put anywhere, is chosen where a command reads it.          *)
(***************************************************************************)
EXTENDS Timeline

CONSTANTS
    Loaded,         \* projects a session may start from
    Sources,        \* media that can be dropped on the timeline
    MediaTicks,     \* [Sources -> the length of a dropped clip]
    Frames,         \* frames the pointer or the playhead may be at
    FrameTicks,     \* project ticks per frame, for each frame rate offered
    Speeds,         \* speeds the inspector offers
    Looks,          \* values of one field of a clip's look
    MaxTracks,      \* bound: tracks (255 in the source)
    MaxHistory,     \* undo entries kept (100 in the source)
    MaxEdits        \* bound: commands of the session

\* A clip as commands pass it, with an id or not yet; a track; a project.
ClipType ==
    [id : Int, track : Nat, src : Sources, ptsIn : Int, ptsOut : Int, sourceIn : Nat,
     speed : Speeds \cup {SpeedUnit}, fadeIn : Nat, fadeOut : Nat, layer : Nat \X Nat,
     look : Looks \X Looks]
TrackType == [kind : {"video", "audio"}, mute : BOOLEAN, solo : BOOLEAN, gain : Looks]
KeyType == [clip : Nat, pts : Int]

IsProject(p) ==
    /\ p \in [frame : FrameTicks, tracks : Seq(TrackType),
              store : [clips : Seq(ClipType), keys : SUBSET KeyType, nextId : Nat]]
    /\ \A i \in DOMAIN p.store.clips :
         p.store.clips[i].id \in Nat /\ p.store.clips[i].track \in DOMAIN p.tracks

\* The columns are sorted by start and an id names one clip, handed out once.
Ordered(st) ==
    /\ \A i, j \in DOMAIN st.clips : i < j => st.clips[i].ptsIn <= st.clips[j].ptsIn
    /\ \A i, j \in DOMAIN st.clips : i # j => st.clips[i].id # st.clips[j].id
    /\ \A i \in DOMAIN st.clips : st.clips[i].id < st.nextId

\* Every keyframe belongs to a clip.
Owned(st) == \A k \in st.keys : k.clip \in Ids(st)

\* A project file is what an earlier session saved.
ASSUME LoadedAssumption ==
    \A p \in Loaded : IsProject(p) /\ Ordered(p.store) /\ Owned(p.store)

ASSUME EditorAssumption ==
    /\ MediaTicks \in [Sources -> Nat \ {0}]
    /\ Frames \subseteq Nat
    /\ FrameTicks \subseteq Nat \ {0} /\ FrameTicks # {}
    /\ Speeds \subseteq Nat \ {0} /\ 0 \in Looks
    /\ MaxTracks \in Nat /\ MaxHistory \in Nat \ {0, 1} /\ MaxEdits \in Nat

VARIABLES
    project,    \* [tracks, store, frame]: what a snapshot captures; frame is
                \* the length of a frame in ticks, standing for the settings
    undo,       \* HistoryState::undo_stack
    redo,       \* HistoryState::redo_stack
    selected,   \* TimelineState::selected_clip: an index, 0 when None
    gesture,    \* the drag in progress
    shown,      \* InspectorState: the index and the look it was loaded from
    edits,      \* commands so far
    last        \* history variable: what the last step was, for the properties

vars == <<project, undo, redo, selected, gesture, shown, edits, last>>

\* start is a history field: the project as the drag began.
NoGesture == [kind |-> "none", clip |-> -1, idx |-> 0, start |-> <<>>]
Gestures == {"move", "left", "right", "transform", "gain"}

s == project.store
tracks == project.tracks
Clip(i) == s.clips[i]

Track(kind) == [kind |-> kind, mute |-> FALSE, solo |-> FALSE, gain |-> 0]
TrackIds == DOMAIN tracks
NewClip(t, src, at) ==
    [id |-> -1, track |-> t, src |-> src, ptsIn |-> at, ptsOut |-> at + MediaTicks[src],
     sourceIn |-> 0, speed |-> SpeedUnit, fadeIn |-> 0, fadeOut |-> 0, layer |-> <<0, 0>>,
     look |-> <<0, 0>>]

-----------------------------------------------------------------------------
(* Project: layers and commands *)

\* Layers of a track follow the order of its clips.
ReindexTrackLayerOrder(st, t) ==
    [st EXCEPT !.clips =
        [i \in DOMAIN @ |->
            IF @[i].track # t THEN @[i]
            ELSE [@[i] EXCEPT !.layer =
                    <<t, Cardinality({j \in 1..(i - 1) : st.clips[j].track = t})>>]]]

Reindexed(r, t) == IF r.ok THEN [r EXCEPT !.s = ReindexTrackLayerOrder(@, t)] ELSE r

NextLayerOrder(st, t) ==
    LET used == {c.layer[2] : c \in ToSet(OnTrack(st, t))}
    IN <<t, CHOOSE n \in 0..Cardinality(used) :
                n \notin used /\ \A m \in 0..(n - 1) : m \in used>>

ProjectInsertRipple(st, p) == Reindexed(InsertClipRipple(st, p), p.track)

ProjectMoveClip(st, id, newIn) ==
    IF id \notin Ids(st) THEN Fail(st)
    ELSE Reindexed(MoveClipRipple(st, id, newIn), ClipOf(st, id).track)

MoveClipToTrack(st, id, t, newIn) ==
    IF id \notin Ids(st) THEN Fail(st)
    ELSE LET c == ClipOf(st, id)
             gone == Reindexed(RippleRemoveClip(st, id), c.track)
             placed == [MoveBy(c, newIn - c.ptsIn) EXCEPT !.track = t,
                                                         !.layer = NextLayerOrder(st, t)]
         IN IF gone.ok THEN Reindexed(InsertClipRipple(gone.s, placed), t) ELSE gone

\* The other half of a video and audio pair: same source and start, one on a
\* video track and the other not; the first in the store; -1 for none.
FindLinkedClip(st, ts, id) ==
    LET c == ClipOf(st, id)
        IsVideo(t) == ts[t].kind = "video"
        other == {i \in DOMAIN st.clips :
                    LET d == st.clips[i]
                    IN /\ d.id # id /\ d.src = c.src /\ d.ptsIn = c.ptsIn
                       /\ IsVideo(d.track) # IsVideo(c.track)}
    IN IF id \notin Ids(st) \/ other = {} THEN -1
       ELSE st.clips[CHOOSE i \in other : \A j \in other : i <= j].id

\* A command on a clip and then on its linked clip; errors are dropped.
WithPartner(st, id, partner, Op(_, _)) ==
    LET one == Op(st, id).s
    IN IF partner = -1 THEN one ELSE Op(one, partner).s

-----------------------------------------------------------------------------
(* History and the frame loop *)

\* A new project, or one just loaded from its file.
Init ==
    /\ project \in Loaded
    /\ undo = <<>> /\ redo = <<>>
    /\ selected = 0
    /\ gesture = NoGesture
    /\ shown = [idx |-> 0, look |-> <<0, 0>>]
    /\ edits = 0
    /\ last = "start"

\* The mutant keeps every entry.
MutCapped(stack) == stack

\* push_undo: the oldest entry goes when there are too many.
Capped(stack) ==
    IF Len(stack) > MaxHistory
    THEN SubSeq(stack, Len(stack) - MaxHistory + 1, Len(stack)) ELSE stack

\* The snapshots of a command, taken before it mutates; redo is given up.
Record(snapshots) ==
    /\ undo' = Capped(undo \o snapshots)
    /\ redo' = <<>>

\* An index past the end panics where a panel reads the clip: the inspector
\* for the selection, the ghost and the resize handle for a drag.
Panicked == \/ selected > Len(s.clips)
            \/ gesture.kind \in {"move", "left", "right"} /\ gesture.idx > Len(s.clips)

\* What every command starts from, and what it is to the properties.
Command(name) ==
    /\ ~Panicked
    /\ edits < MaxEdits
    /\ edits' = edits + 1
    /\ last' = name

\* The inspector loads its sliders when the selected index changes.
InspectorSync ==
    shown' = IF selected' = shown.idx \/ selected' > Len(project'.store.clips) THEN shown
             ELSE [idx |-> selected',
                   look |-> IF selected' = 0 THEN <<0, 0>>
                            ELSE project'.store.clips[selected'].look]

Store(st) == project' = [project EXCEPT !.store = st]
Pts(f) == f * project.frame
Idle == gesture.kind = "none"

\* clear_interaction: undo and redo end every drag but that of a fader, which
\* then goes on without a snapshot.
ClearInteraction ==
    gesture' = IF gesture.kind = "gain" THEN [gesture EXCEPT !.start = <<>>] ELSE NoGesture

\* The mutant leaves the drag in progress alive.
MutUndo ==
    /\ Command("undo")
    /\ undo # <<>>
    /\ project' = Last(undo)
    /\ undo' = Front(undo)
    /\ redo' = Append(redo, project)
    /\ UNCHANGED <<selected, gesture>>
    /\ InspectorSync

Undo ==
    /\ Command("undo")
    /\ undo # <<>>
    /\ project' = Last(undo)
    /\ undo' = Front(undo)
    /\ redo' = Append(redo, project)
    /\ selected' = 0 /\ ClearInteraction
    /\ InspectorSync

Redo ==
    /\ ~Panicked /\ last' = "redo" /\ UNCHANGED edits
    /\ redo # <<>>
    /\ project' = Last(redo)
    /\ redo' = Front(redo)
    /\ undo' = Append(undo, project)
    /\ selected' = 0 /\ ClearInteraction
    /\ InspectorSync

\* The combo boxes of the top bar; the clips keep their ticks.
ChangeSettings(f) ==
    /\ Command("settings") /\ Idle
    /\ f # project.frame
    /\ project' = [project EXCEPT !.frame = f]
    /\ Record(<<project>>)
    /\ UNCHANGED <<selected, gesture, shown>>

-----------------------------------------------------------------------------
(* Timeline panel: selection, tracks, commands on clips *)

\* A click on a clip, in the timeline or the viewport, or on an empty lane.
Select(i) ==
    /\ ~Panicked /\ Idle
    /\ selected' = i /\ i # selected
    /\ last' = "select"
    /\ UNCHANGED <<project, undo, redo, gesture, edits>>
    /\ InspectorSync

TrackMutation(newTracks) ==
    /\ Command("track") /\ Idle
    /\ project' = [project EXCEPT !.tracks = newTracks]
    /\ Record(<<project>>)
    /\ UNCHANGED <<selected, gesture, shown>>

ToggleMute(t) == TrackMutation([tracks EXCEPT ![t].mute = ~@])
ToggleSolo(t) == TrackMutation([tracks EXCEPT ![t].solo = ~@])
AddTrack(kind) == Len(tracks) < MaxTracks /\ TrackMutation(Append(tracks, Track(kind)))

\* A click on the fader of a track sets the gain and records nothing. The second
\* click of a double click does so again; then that is recorded and the gain reset.
WithGain(t, v) == [project EXCEPT !.tracks[t].gain = v]

ClickGain(t, v) ==
    /\ Command("click") /\ Idle
    /\ project' = WithGain(t, v)
    /\ UNCHANGED <<undo, redo, selected, gesture, shown>>

DoubleClickGain(t, v) ==
    /\ Command("click") /\ Idle
    /\ project' = WithGain(t, 0)
    /\ Record(<<WithGain(t, v)>>)
    /\ UNCHANGED <<selected, gesture, shown>>

\* A medium dropped on a lane. The selection stays at its index.
DropMedia(t, src, f) ==
    LET r == ProjectInsertRipple(s, NewClip(t, src, Pts(f)))
    IN /\ Command(IF r.ok THEN "drop" ELSE "failed drop") /\ Idle
       /\ Record(<<project>>)
       /\ Store(r.s)
       /\ UNCHANGED <<selected, gesture>>
       /\ InspectorSync

\* Deleting a clip takes its sound along, deleting a sound only itself.
PartnerToDelete(id) ==
    IF tracks[ClipOf(s, id).track].kind = "audio" THEN -1 ELSE FindLinkedClip(s, tracks, id)

Deleted(id, ripple) ==
    LET Op(st, c) == IF ripple THEN RippleRemoveClip(st, c) ELSE RemoveClip(st, c)
    IN WithPartner(s, id, PartnerToDelete(id), Op)

\* From the menu of a clip.
DeleteClip(id, ripple) ==
    /\ Command("delete") /\ Idle
    /\ Record(<<project>>)
    /\ Store(Deleted(id, ripple))
    /\ selected' = 0 /\ gesture' = gesture
    /\ InspectorSync

\* With the key, which works during a drag and leaves the drag as it is.
DeleteKey(ripple) ==
    /\ Command("delete")
    /\ selected # 0
    /\ Record(<<project>>)
    /\ Store(Deleted(Clip(selected).id, ripple))
    /\ selected' = 0 /\ gesture' = gesture
    /\ InspectorSync

\* With the cross in the viewport: the clip alone.
ViewportDelete ==
    /\ Command("delete") /\ Idle
    /\ selected # 0 /\ tracks[Clip(selected).track].kind = "video"
    /\ Record(<<project>>)
    /\ Store(RemoveClip(s, Clip(selected).id).s)
    /\ selected' = 0 /\ gesture' = gesture
    /\ InspectorSync

Duplicate(id) ==
    /\ Command("duplicate") /\ Idle
    /\ Record(<<project>>)
    /\ Store(WithPartner(s, id, FindLinkedClip(s, tracks, id), DuplicateClip))
    /\ selected' = 0 /\ gesture' = gesture
    /\ InspectorSync

\* At a playhead inside the clip: from the menu, or with the key for the
\* selected clip, which works during a drag.
Split(id, f) ==
    LET Op(st, c) == SplitClip(st, c, Pts(f))
    IN /\ Command("split")
       /\ Idle \/ (selected # 0 /\ Clip(selected).id = id)
       /\ Clip(IndexOf(s, id)).ptsIn < Pts(f) /\ Pts(f) < Clip(IndexOf(s, id)).ptsOut
       /\ Record(<<project>>)
       /\ Store(WithPartner(s, id, FindLinkedClip(s, tracks, id), Op))
       /\ selected' = 0 /\ gesture' = gesture
       /\ InspectorSync

-----------------------------------------------------------------------------
(* Drags *)

StartGesture(kind, i) ==
    /\ ~Panicked /\ Idle /\ edits < MaxEdits
    /\ gesture' = [kind |-> kind, clip |-> Clip(i).id, idx |-> i, start |-> <<project>>]
    /\ last' = "grab"

\* On the timeline: the body of a clip or one of its edges.
GrabClip(kind, i) ==
    /\ StartGesture(kind, i)
    /\ selected' = i
    /\ UNCHANGED <<project, undo, redo, edits>>
    /\ InspectorSync

\* Released over a lane: the clip goes there, its partner as far in time.
DropClip(t, f) ==
    LET id == gesture.clip
        here == id \in Ids(s)
        r == IF here /\ ClipOf(s, id).track = t
             THEN ProjectMoveClip(s, id, Pts(f)) ELSE MoveClipToTrack(s, id, t, Pts(f))
        partner == FindLinkedClip(s, tracks, id)
        moved == IF r.ok /\ partner \in Ids(r.s)
                 THEN ProjectMoveClip(r.s, partner,
                        ClipOf(r.s, partner).ptsIn + Pts(f) - ClipOf(s, id).ptsIn).s
                 ELSE r.s
    IN /\ gesture.kind = "move"
       /\ Command("move")
       /\ Record(<<project>>)
       /\ Store(moved)
       /\ selected' = IF ~r.ok THEN selected
                      ELSE IF r.id \in Ids(moved) THEN IndexOf(moved, r.id) ELSE 0
       /\ gesture' = NoGesture
       /\ InspectorSync

\* Released with an edge at a frame: no shorter than a frame. A clip that went
\* away during the drag leaves nothing to do.
DropEdge(f) ==
    LET id == gesture.clip
        c == ClipOf(s, id)
        In(st, x) == TrimClipIn(st, x, IF Pts(f) < c.ptsOut - project.frame
                                       THEN Pts(f) ELSE c.ptsOut - project.frame)
        Out(st, x) == TrimClipOut(st, x, IF Pts(f) > c.ptsIn + project.frame
                                         THEN Pts(f) ELSE c.ptsIn + project.frame)
        partner == FindLinkedClip(s, tracks, id)
    IN /\ gesture.kind \in {"left", "right"}
       /\ Command("resize")
       /\ IF id \in Ids(s)
          THEN /\ Record(<<project>>)
               /\ \/ gesture.kind = "left" /\ Store(WithPartner(s, id, partner, In))
                  \/ gesture.kind = "right" /\ Store(WithPartner(s, id, partner, Out))
          ELSE UNCHANGED <<project, undo, redo>>
       /\ gesture' = NoGesture
       /\ selected' = selected
       /\ InspectorSync

\* In the viewport or on a gain slider: recorded as it starts.
GrabTransform ==
    /\ selected # 0 /\ StartGesture("transform", selected)
    /\ tracks[Clip(selected).track].kind = "video"
    /\ Record(<<project>>)
    /\ UNCHANGED <<project, selected, shown, edits>>

GrabGain(t) ==
    /\ ~Panicked /\ Idle /\ edits < MaxEdits
    /\ gesture' = [kind |-> "gain", clip |-> -1, idx |-> t, start |-> <<project>>]
    /\ last' = "grab"
    /\ Record(<<project>>)
    /\ UNCHANGED <<project, selected, shown, edits>>

\* Each frame of the drag writes the clip while it is the selected one.
DragTransform(v) ==
    /\ Command("drag")
    /\ gesture.kind = "transform"
    /\ selected # 0 /\ Clip(selected).id = gesture.clip
    /\ Store([s EXCEPT !.clips[selected].look[1] = v])
    /\ UNCHANGED <<undo, redo, selected, gesture, shown>>

DragGain(v) ==
    /\ Command("drag")
    /\ gesture.kind = "gain"
    /\ project' = WithGain(gesture.idx, v)
    /\ UNCHANGED <<undo, redo, selected, gesture, shown>>

\* Released where nothing is to be done.
Release ==
    /\ ~Panicked /\ ~Idle
    /\ gesture' = NoGesture
    /\ last' = "release"
    /\ UNCHANGED <<project, undo, redo, selected, shown, edits>>

\* An effect dropped on a clip of the timeline, which selects the clip. The
\* inspector follows the effects of the clip it already shows.
DropEffect(i, v) ==
    /\ Command("effect") /\ Idle
    /\ Record(<<project>>)
    /\ Store([s EXCEPT !.clips[i].look[2] = v])
    /\ selected' = i /\ gesture' = gesture
    /\ shown' = IF i = shown.idx THEN [shown EXCEPT !.look[2] = v]
                ELSE [idx |-> i, look |-> project'.store.clips[i].look]

-----------------------------------------------------------------------------
(* Inspector, for the selected clip *)

HasKeys(st, id) == \E k \in st.keys : k.clip = id

\* A slider writes its group of the look as the inspector shows it: 1 is the
\* transform, 2 the effects. With keyframes it sets one at the playhead first,
\* and records twice.
EditLook(field, v, f) ==
    LET id == Clip(selected).id
        keyed == IF HasKeys(s, id)
                 THEN [s EXCEPT !.keys = @ \cup {[clip |-> id, pts |-> Pts(f)]}] ELSE s
    IN /\ Command("look") /\ Idle
       /\ selected # 0 /\ v # shown.look[field]
       /\ Record(IF HasKeys(s, id)
                 THEN <<project, [project EXCEPT !.store = keyed]>> ELSE <<project>>)
       /\ Store([keyed EXCEPT !.clips[selected].look[field] = v])
       /\ shown' = [shown EXCEPT !.look[field] = v]
       /\ UNCHANGED <<selected, gesture>>

\* The diamond beside a slider counts as a change of the slider too: the group
\* is written as the inspector has it, also when a drag in the viewport has
\* moved the clip since.
ToggleKeyframe(field, f) ==
    LET k == [clip |-> Clip(selected).id, pts |-> Pts(f)]
        keyed == [s EXCEPT !.keys = IF k \in @ THEN @ \ {k} ELSE @ \cup {k}]
    IN /\ Command("keyframe") /\ Idle
       /\ selected # 0
       /\ Record(<<project, [project EXCEPT !.store = keyed]>>)
       /\ Store([keyed EXCEPT !.clips[selected].look[field] = shown.look[field]])
       /\ UNCHANGED <<selected, gesture, shown>>

\* The bin in the list of keyframes.
RemoveKeyframe(k) ==
    /\ Command("keyframe") /\ Idle
    /\ selected # 0 /\ k.clip = Clip(selected).id
    /\ Record(<<project>>)
    /\ Store([s EXCEPT !.keys = @ \ {k}])
    /\ UNCHANGED <<selected, gesture, shown>>

\* The speed of the clip, and of its partner.
SetSpeed(v) ==
    LET id == Clip(selected).id
        one == SetSpeedAt(s, selected, v)
        partner == FindLinkedClip(one, tracks, id)
    IN /\ Command("speed") /\ Idle
       /\ selected # 0
       /\ Record(<<project>>)
       /\ Store(IF partner = -1 THEN one ELSE SetSpeedAt(one, IndexOf(one, partner), v))
       /\ UNCHANGED <<selected, gesture, shown>>

-----------------------------------------------------------------------------
ClipCommand ==
    \E id \in Ids(s) :
        \/ \E ripple \in BOOLEAN : DeleteClip(id, ripple)
        \/ Duplicate(id)
        \/ \E f \in Frames : Split(id, f)

InspectorCommand ==
    \/ \E field \in 1..2, v \in Looks, f \in Frames : EditLook(field, v, f)
    \/ \E field \in 1..2, f \in Frames : ToggleKeyframe(field, f)
    \/ \E k \in s.keys : RemoveKeyframe(k)
    \/ \E v \in Speeds : SetSpeed(v)

Drag ==
    \/ \E kind \in {"move", "left", "right"}, i \in DOMAIN s.clips : GrabClip(kind, i)
    \/ \E t \in TrackIds, f \in Frames : DropClip(t, f)
    \/ \E f \in Frames : DropEdge(f)
    \/ GrabTransform
    \/ \E t \in TrackIds : GrabGain(t)
    \/ \E v \in Looks : DragTransform(v) \/ DragGain(v)
    \/ Release

Next ==
    \/ Undo \/ Redo
    \/ \E f \in FrameTicks : ChangeSettings(f)
    \/ \E i \in 0..Len(s.clips) : Select(i)
    \/ \E t \in TrackIds : ToggleMute(t) \/ ToggleSolo(t)
    \/ \E t \in TrackIds, v \in Looks : ClickGain(t, v) \/ DoubleClickGain(t, v)
    \/ \E kind \in {"video", "audio"} : AddTrack(kind)
    \/ \E t \in TrackIds, src \in Sources, f \in Frames : DropMedia(t, src, f)
    \/ \E i \in DOMAIN s.clips, v \in Looks : DropEffect(i, v)
    \/ ClipCommand
    \/ \E ripple \in BOOLEAN : DeleteKey(ripple)
    \/ ViewportDelete
    \/ InspectorCommand
    \/ Drag

Spec == Init /\ [][Next]_vars

-----------------------------------------------------------------------------
(* Properties *)

\* Types of the variables.
TypeOK ==
    /\ IsProject(project)
    /\ Len(undo) <= MaxHistory /\ Len(redo) <= MaxHistory
    /\ selected \in Nat
    /\ gesture.kind \in Gestures \cup {"none"}
    /\ shown \in [idx : Nat, look : Looks \X Looks]
    /\ edits \in 0..MaxEdits

\* The columns stay sorted by start, which partition_point of the queries and
\* of every insertion relies on, and an id names one clip, handed out once.
StoreOrdered == Ordered(s)

\* No keyframe outlives its clip: ids come back after an undo, and a keyframe
\* left behind would then animate another clip.
KeyframesOwned == Owned(s)

\* The same clips' media play at a time, each at the same place of its source, up
\* to a tick of rounding, with the same base look.
SamePlaying(st1, st2, pts) ==
    LET Covers(x, y) ==
            \A c \in QueryActive(x, pts) : \E d \in QueryActive(y, pts) :
                /\ c.track = d.track /\ c.src = d.src /\ c.look = d.look
                /\ c.sourcePts - d.sourcePts \in -1..1
    IN Covers(st1, st2) /\ Covers(st2, st1)

\* After a split the same media play at every time, from the same place of their
\* source and with the same base look, at any speed, for the clip and its partner:
\* the tail starts at the source time the head stops at. Keyframes and fades are
\* not compared, and a split does change them: each half keeps the keys inside it
\* (keyframe.rs 357), so between two keys the animation may differ, and a fade
\* longer than the half it stays with is cut short.
SplitPlaysOn ==
    [][last' = "split" =>
         \A pts \in 0..EndOf(s) : SamePlaying(s, project'.store, pts)]_vars

\* How many clips of a track show a tick of a source (at 1x).
Showing(st, t, src, tick) ==
    Cardinality({i \in DOMAIN st.clips :
        LET c == st.clips[i]
        IN /\ c.track = t /\ c.src = src
           /\ c.sourceIn <= tick /\ tick < c.sourceIn + Duration(c)})

\* An insertion that succeeds pushes and cuts, and loses or repeats nothing:
\* every tick of every source is shown as often as before on each track, and
\* once more for the new clip.
InsertionLosesNothing ==
    [][last' = "drop" /\ (\A i \in DOMAIN s.clips : Clip(i).speed = SpeedUnit) =>
         \E t \in TrackIds, src \in Sources :
              \A u \in TrackIds, m \in Sources, tick \in 0..(EndOf(s) + EndOf(project'.store)) :
                 Showing(project'.store, u, m, tick) =
                    Showing(s, u, m, tick)
                    + (IF u = t /\ m = src /\ tick < MediaTicks[m] THEN 1 ELSE 0)]_vars

\* Every change of the project can be undone: the state before it is on the
\* undo stack, pushed by the change itself or at the start of the drag that
\* makes it; an undo or redo keeps the state it leaves on the other stack. Not
\* so for a fader that is still held when something is undone, nor for a click on
\* a fader, which changes that one gain and no stack keeps the gain before it.
EditsAreUndoable ==
    [][project' # project =>
         \/ last' = "undo" /\ Last(redo') = project
         \/ last' = "redo" /\ Last(undo') = project
         \/ last' = "drag" /\ (gesture.start = <<>> \/ gesture.start[1] \in ToSet(undo))
         \/ last' = "click" /\ \E t \in TrackIds : project' = WithGain(t, project'.tracks[t].gain)
         \/ \E n \in {Len(undo'), Len(undo') - 1} \cap DOMAIN undo' : undo'[n] = project]_vars

=============================================================================
