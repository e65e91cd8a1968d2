------------------------------ MODULE MCEditor ------------------------------
(***************************************************************************)
(* Small instances of Editor for TLC. A project file may hold anything     *)
(* that earlier sessions made, so the session starts from projects built   *)
(* with the commands: empty, a clip with its sound, the same cut in two    *)
(* with a keyframe, at double speed, and under a shorter copy on a third   *)
(* track.                                                                  *)
(***************************************************************************)
EXTENDS Editor

MCMedia == [m \in Sources |-> 4]

Pair == LET src == CHOOSE m \in Sources : TRUE
        IN ProjectInsertRipple(ProjectInsertRipple(EmptyStore, NewClip(1, src, 0)).s,
                               NewClip(2, src, 0)).s
Cut == LET st == SplitClip(SplitClip(Pair, 0, 2).s, 1, 2).s
       IN [st EXCEPT !.keys = {[clip |-> 0, pts |-> 0], [clip |-> 0, pts |-> 2]}]
Fast == SetSpeedAt(SetSpeedAt(Pair, 1, 2 * SpeedUnit), 2, 2 * SpeedUnit)
Stacked == LET src == CHOOSE m \in Sources : TRUE
               st == ProjectInsertRipple(Pair, NewClip(3, src, 0))
           IN TrimClipOut(st.s, st.id, 1).s

TwoTracks == <<Track("video"), Track("audio")>>
MCLoaded == {[frame |-> 2, tracks |-> TwoTracks, store |-> st] :
                 st \in {EmptyStore, Pair, Cut, Fast}}
            \cup {[frame |-> 2, tracks |-> Append(TwoTracks, Track("video")), store |-> Stacked]}
=============================================================================
