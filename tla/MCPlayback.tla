----------------------------- MODULE MCPlayback -----------------------------
(* The instance of Playback that TLC checks: two overlapping clips, and a   *)
(* last frame without sound.                                                *)
EXTENDS Playback

Starts == [c \in Clips |-> IF c = "voice" THEN 0 ELSE 1]
Ends == [c \in Clips |-> IF c = "voice" THEN 2 ELSE 3]
=============================================================================
