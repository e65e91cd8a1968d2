--------------------------- MODULE ExportContract ---------------------------
(***************************************************************************)
(* What an export promises its caller, without threads, queues or codecs:  *)
(* the container grows by the next video or audio frame, is sealed once,   *)
(* and one verdict is given after that. "done" is said only of a complete  *)
(* file, "cancelled" only after a cancellation.                            *)
(***************************************************************************)
EXTENDS Integers, Sequences

CONSTANTS TotalFrames, AudioFrames

VARIABLES video, audio, sealed, cancelled, verdict

contractVars == <<video, audio, sealed, cancelled, verdict>>

(* The first n frames, in order. *)
FirstFrames(n) == [i \in 1 .. n |-> i - 1]

CInit ==
    /\ video = <<>> /\ audio = <<>>
    /\ sealed = FALSE /\ cancelled = FALSE
    /\ verdict = <<>>

CWriteVideo ==
    /\ ~sealed /\ Len(video) < TotalFrames
    /\ video' = Append(video, Len(video))
    /\ UNCHANGED <<audio, sealed, cancelled, verdict>>

CWriteAudio ==
    /\ ~sealed /\ Len(audio) < AudioFrames
    /\ audio' = Append(audio, Len(audio))
    /\ UNCHANGED <<video, sealed, cancelled, verdict>>

CSeal ==
    /\ ~sealed
    /\ sealed' = TRUE
    /\ UNCHANGED <<video, audio, cancelled, verdict>>

CCancel ==
    /\ cancelled' = TRUE
    /\ UNCHANGED <<video, audio, sealed, verdict>>

CVerdict ==
    /\ sealed /\ verdict = <<>>
    /\ \/ /\ verdict' = <<"done">>
          /\ video = FirstFrames(TotalFrames) /\ audio = FirstFrames(AudioFrames)
       \/ verdict' = <<"cancelled">> /\ cancelled
       \/ verdict' = <<"failed">>
    /\ UNCHANGED <<video, audio, sealed, cancelled>>

CNext == CWriteVideo \/ CWriteAudio \/ CSeal \/ CCancel \/ CVerdict

CSpec == CInit /\ [][CNext]_contractVars
=============================================================================
