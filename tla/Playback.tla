------------------------------ MODULE Playback ------------------------------
(***************************************************************************)
(* Playback in the editor (ui/app.rs): the frame loop that moves the       *)
(* playhead, starts and stops a decoder per audible clip and sets the       *)
(* audio clock; the device callback that advances it (audio/output_stream,  *)
(* sync/master_clock). The UI takes the lock of the mixer list to change    *)
(* it; a callback that finds it taken plays silence and does not count.     *)
(*                                                                         *)
(* Time is counted in ticks, a callback of the device to each tick and      *)
(* TicksPerFrame ticks to a frame. What a ring holds is AudioRing's.        *)
(***************************************************************************)
EXTENDS Integers, FiniteSets

CONSTANTS
    Clips,          \* clips with an audio stream
    From, To,       \* first frame of a clip, and the frame after its last
    Length,         \* duration_frames
    TicksPerFrame,
    Leap,           \* frames: a longer step forward is a seek (2 seconds)
    MaxStall,       \* bound: ticks between two passes of the frame loop
    Tunings         \* what a clip's volume, pan, fades, speed and bounds may be

ASSUME PlaybackAssumption ==
    /\ Length \in Nat \ {0} /\ TicksPerFrame \in Nat \ {0} /\ Leap \in Nat
    /\ MaxStall \in Nat \ {0}
    /\ From \in [Clips -> 0 .. Length - 1]
    /\ To \in [Clips -> 1 .. Length]

VARIABLES
    playhead, playing,      \* TimelineState
    elapsed,                \* ticks since last_tick
    last, wasPlaying,       \* last_playhead, audio_was_playing
    audible, tune,          \* clips on active tracks; their parameters
    decoders,               \* active_audio_decoders: the parameters they run with
    doomed, wanted, target, \* what this frame has to stop, to start, to seek to
    lock,                   \* who holds the mixer list
    rings, running,         \* per clip: rings in the list, threads not told to stop
    device, streaming, clock,
    stall,                  \* ticks since the last pass
    unheard                 \* history: edits since the playhead last moved

userVars == <<playhead, playing, elapsed, last, wasPlaying, audible, tune>>
syncVars == <<decoders, doomed, wanted, target, lock, rings, running>>
deviceVars == <<device, streaming, clock>>
boundVars == <<stall, unheard>>
vars == <<userVars, syncVars, deviceVars, boundVars>>

None == "none"
ASSUME TuningsAssumption == None \notin Tunings

NoTarget == -1
Frames == 0 .. Length
End == Length * TicksPerFrame   \* bound: later readings of a clock all wrap

Decoding == {c \in Clips : decoders[c] # None}
Under(frame) == {c \in Clips : From[c] <= frame /\ frame < To[c]}

\* The UI thread is between two frames.
BetweenFrames == doomed = {} /\ wanted = {} /\ target = NoTarget /\ lock = None

Init ==
    /\ playhead = 0 /\ playing = FALSE /\ elapsed = 0
    /\ last = -1 /\ wasPlaying = FALSE
    /\ audible = Clips /\ tune \in [Clips -> Tunings]
    /\ decoders = [c \in Clips |-> None]
    /\ doomed = {} /\ wanted = {} /\ target = NoTarget /\ lock = None
    /\ rings = [c \in Clips |-> 0] /\ running = [c \in Clips |-> 0]
    /\ device \in BOOLEAN /\ streaming = device /\ clock = 0 /\ stall = 0
    /\ unheard = FALSE

-----------------------------------------------------------------------------
(* The user, at the start of a frame *)

NoInput == UNCHANGED <<audible, tune>>

\* Mute, solo, a track switched off or on; a clip's parameters.
Edit ==
    \/ \E c \in Clips : audible' = (audible \ {c}) \cup ({c} \ audible) /\ UNCHANGED tune
    \/ \E c \in Clips, t \in Tunings : tune' = [tune EXCEPT ![c] = t] /\ UNCHANGED audible

-----------------------------------------------------------------------------
(* advance_playhead, from the playhead the user left *)

\* last_tick moves only when a frame is due, and only on the wall clock.
MutRemaining(byClock, due, since) == IF byClock THEN since ELSE 0
Remaining(byClock, due, since) == IF ~byClock /\ due > 0 THEN 0 ELSE since

Advance(from, on, just, since) ==
    LET byClock == Decoding # {} /\ ~just
        due == since \div TicksPerFrame
        next == IF byClock THEN clock \div TicksPerFrame ELSE from + due
        wraps == next >= Length
    IN IF ~on THEN playhead' = from /\ elapsed' = since /\ UNCHANGED clock
       ELSE /\ playhead' = IF wraps THEN 0 ELSE next
            /\ elapsed' = IF wraps THEN 0 ELSE Remaining(byClock, due, since)
            /\ clock' = IF wraps THEN 0 ELSE clock

\* The stream is started and paused with the transport.
Transport(on) ==
    /\ wasPlaying' = on
    /\ streaming' = IF on # wasPlaying THEN device /\ on ELSE streaming

\* A running decoder is replaced when its parameters changed.
MutOutdated(c) == FALSE
Outdated(c) == decoders[c] # tune'[c]

\* A decoder that is replaced is stopped first. The mutant only starts the new.
MutToStop(desired, restart) == Decoding \ desired
ToStop(desired, restart) == (Decoding \ desired) \cup (Decoding \cap restart)

\* When the playhead moved or play was pressed, the decoders are brought in
\* line with the clips under it.
Follow(on, just) ==
    LET moved == playhead' # last \/ just
        force == just \/ playhead' - last \notin 0 .. Leap
        desired == audible' \cap Under(playhead')
        restart == {c \in desired : c \notin Decoding \/ force \/ Outdated(c)}
    IN /\ last' = playhead'
       /\ unheard' = (~moved /\ (unheard \/ <<audible, tune>>' # <<audible, tune>>))
       /\ IF on
          THEN IF moved
               THEN /\ doomed' = ToStop(desired, restart)
                    /\ wanted' = restart
                    /\ target' = IF force THEN playhead' ELSE NoTarget
               ELSE UNCHANGED <<doomed, wanted, target>>
          ELSE /\ doomed' = Decoding /\ wanted' = {}
               /\ target' = IF moved \/ Decoding # {} THEN playhead' ELSE NoTarget

\* One pass of the frame loop up to the decoders.
Pass(from, on, since) ==
    LET just == on /\ ~wasPlaying
    IN /\ BetweenFrames
       /\ playing' = on
       /\ Advance(from, on, just, since)
       /\ Transport(on)
       /\ Follow(on, just)
       /\ stall' = 0
       /\ UNCHANGED <<decoders, lock, rings, running, device>>

Idle == NoInput /\ Pass(playhead, playing, elapsed)
Change == Edit /\ Pass(playhead, playing, elapsed)
Toggle == NoInput /\ Pass(playhead, ~playing, 0)
Scrub == NoInput /\ \E f \in Frames : Pass(f, FALSE, elapsed)

\* stop_playback, before another project is opened: the stream goes on.
StopPlayback ==
    /\ BetweenFrames
    /\ playing' = FALSE /\ wasPlaying' = FALSE
    /\ doomed' = Decoding /\ target' = playhead
    /\ UNCHANGED <<playhead, elapsed, last, audible, tune, decoders, wanted, lock, rings,
                   running, deviceVars, boundVars>>

-----------------------------------------------------------------------------
(* Decoders and the mixer list *)

\* stop_audio_decoder: tell the thread, then take its ring out of the list.
StopDecoder(c) ==
    /\ lock = None /\ c \in doomed
    /\ decoders' = [decoders EXCEPT ![c] = None]
    /\ running' = [running EXCEPT ![c] = @ - 1]
    /\ lock' = "stop" /\ doomed' = doomed \ {c}
    /\ rings' = [rings EXCEPT ![c] = @ - 1]
    /\ UNCHANGED <<userVars, wanted, target, deviceVars, boundVars>>

\* A fresh ring goes into the list, then its thread is spawned.
StartDecoder(c) ==
    /\ lock = None /\ c \in wanted \ doomed
    /\ lock' = "start" /\ wanted' = wanted \ {c}
    /\ rings' = [rings EXCEPT ![c] = @ + 1]
    /\ running' = [running EXCEPT ![c] = @ + 1]
    /\ decoders' = [decoders EXCEPT ![c] = tune[c]]
    /\ UNCHANGED <<userVars, doomed, target, deviceVars, boundVars>>

Unlock ==
    /\ lock # None /\ lock' = None
    /\ UNCHANGED <<userVars, decoders, doomed, wanted, target, rings, running, deviceVars, boundVars>>

\* MasterClock::seek, after all of that.
SeekClock ==
    /\ lock = None /\ doomed = {} /\ wanted = {} /\ target # NoTarget
    /\ clock' = target * TicksPerFrame /\ target' = NoTarget
    /\ UNCHANGED <<userVars, decoders, doomed, wanted, lock, rings, running, device, streaming, boundVars>>

-----------------------------------------------------------------------------
(* The device and time *)

Later(ticks) == IF ticks < End THEN ticks + 1 ELSE End

TimePasses ==
    /\ stall < MaxStall /\ stall' = stall + 1
    /\ elapsed' = Later(elapsed)
    /\ UNCHANGED <<playhead, playing, last, wasPlaying, audible, tune, syncVars, device, streaming,
                   unheard>>

\* audio_callback: try_lock, advance the clock, mix.
Callback == streaming /\ lock = None /\ TimePasses /\ clock' = Later(clock)

\* No stream, or a callback that found the list locked.
Silence == (~streaming \/ lock # None) /\ TimePasses /\ UNCHANGED clock

-----------------------------------------------------------------------------

Frame == Idle \/ Change \/ Toggle \/ Scrub \/ StopPlayback
Work ==
    \/ \E c \in Clips : StopDecoder(c) \/ StartDecoder(c)
    \/ Unlock \/ SeekClock

Next == Frame \/ Work \/ Callback \/ Silence

\* The frame loop runs; the device keeps calling back, and finds the list free
\* again and again; time passes.
Fairness == WF_vars(Frame) /\ WF_vars(Work) /\ SF_vars(Callback) /\ WF_vars(Silence)

Spec == Init /\ [][Next]_vars
FairSpec == Spec /\ Fairness

-----------------------------------------------------------------------------
(* Properties *)

\* Between two frames the map of decoders, the threads that were not told to
\* stop and the rings the callback mixes are the same clips, each once: no
\* thread is forgotten, no ring plays on after its clip, none twice. While
\* paused there are none.
OneVoiceEach ==
    BetweenFrames =>
        /\ \A c \in Clips :
             /\ rings[c] = Cardinality({c} \cap Decoding)
             /\ running[c] = Cardinality({c} \cap Decoding)
        /\ ~playing => Decoding = {}

Right(c) ==
    decoders[c] = IF c \in audible \cap Under(playhead) THEN tune[c] ELSE None

\* What plays is what the user set: once the playhead has moved after an edit
\* each audible clip under it, and no other, has a decoder with its parameters.
EditsAreHeard ==
    BetweenFrames /\ playing /\ ~unheard => \A c \in Clips : Right(c)

\* With an audio device the picture never stands still while playing, be it
\* driven by the audio clock or by the wall clock.
PlayheadMoves ==
    \A f \in Frames : device /\ playing /\ playhead = f ~> ~playing \/ playhead # f
=============================================================================
