-------------------------- MODULE Playback_proofs ---------------------------
(***************************************************************************)
(* For every set of clips, wherever they lie, however they are edited and  *)
(* however long the frame loop stalls: each audible clip under the         *)
(* playhead has one decoder, one thread and one ring, with the parameters  *)
(* the user last set, and no other clip has any.                           *)
(***************************************************************************)
EXTENDS Playback, FiniteSetTheorems, TLAPS

-----------------------------------------------------------------------------
(* The inductive invariant *)

Domains ==
    /\ playing \in BOOLEAN /\ unheard \in BOOLEAN
    /\ tune \in [Clips -> Tunings] /\ decoders \in [Clips -> Tunings \cup {None}]
    /\ rings \in [Clips -> Int] /\ running \in [Clips -> Int]

\* The map of decoders, the threads and the rings change together, also while
\* the frame still has decoders to stop and to start.
OneEach ==
    \A c \in Clips : /\ rings[c] = Cardinality({c} \cap Decoding)
                     /\ running[c] = Cardinality({c} \cap Decoding)

\* A clip to be started does not run, or is to be stopped first.
Lists ==
    /\ doomed \subseteq Decoding /\ wanted \subseteq Clips
    /\ wanted \cap Decoding \subseteq doomed

\* What the frame loop remembers of the last pass.
Remembered ==
    /\ wasPlaying = playing
    /\ playing => last = playhead

PausedStops == ~playing => wanted = {} /\ doomed = Decoding

\* The decoder of a clip once the frame has done its work.
Planned(c) ==
    IF c \in wanted THEN tune[c] ELSE IF c \in doomed THEN None ELSE decoders[c]

PlansAreRight ==
    playing /\ ~unheard =>
        \A c \in Clips :
            Planned(c) = IF c \in audible \cap Under(playhead) THEN tune[c] ELSE None

IInv ==
    /\ Domains /\ OneEach /\ Lists /\ Remembered /\ PausedStops /\ PlansAreRight

-----------------------------------------------------------------------------
(* Counting one clip *)

\* A clip counts once among those it is in, and not at all among the others.
LEMMA OneOrNone ==
    ASSUME NEW c, NEW S
    PROVE  /\ c \in S => Cardinality({c} \cap S) = 1
           /\ c \notin S => Cardinality({c} \cap S) = 0
<1>1. ASSUME c \in S  PROVE Cardinality({c} \cap S) = 1
    <2>1. {c} \cap S = {c}
        BY <1>1
    <2> QED  BY <2>1, FS_Singleton
<1>2. ASSUME c \notin S  PROVE Cardinality({c} \cap S) = 0
    <2>1. {c} \cap S = {}
        BY <1>2
    <2> QED  BY <2>1, FS_EmptySet
<1> QED  BY <1>1, <1>2

-----------------------------------------------------------------------------
(* Steps *)

LEMMA InitHolds == Init => IInv
<1> SUFFICES ASSUME Init  PROVE IInv
    OBVIOUS
<1>1. Decoding = {}
    BY DEF Init, Decoding
<1>2. Domains
    <2>1. playing \in BOOLEAN /\ unheard \in BOOLEAN /\ tune \in [Clips -> Tunings]
        BY DEF Init
    <2>2. decoders \in [Clips -> Tunings \cup {None}]
        BY DEF Init
    <2>3. rings \in [Clips -> Int] /\ running \in [Clips -> Int]
        BY DEF Init
    <2> QED  BY <2>1, <2>2, <2>3 DEF Domains
<1>3. OneEach
    <2>1. \A c \in Clips : c \notin Decoding
        BY <1>1
    <2>2. \A c \in Clips : Cardinality({c} \cap Decoding) = 0
        BY <2>1, OneOrNone
    <2>3. \A c \in Clips : rings[c] = 0 /\ running[c] = 0
        BY DEF Init
    <2> QED  BY <2>2, <2>3 DEF OneEach
<1>4. Lists /\ Remembered /\ PausedStops /\ PlansAreRight
    BY <1>1 DEF Init, Lists, Remembered, PausedStops, PlansAreRight
<1> QED  BY <1>2, <1>3, <1>4 DEF IInv

\* A pass of the frame loop plans for the clips under the new playhead; when
\* nothing moved, the last plan stands.
LEMMA PassHolds ==
    ASSUME IInv, NEW from, NEW on \in BOOLEAN, NEW since, Pass(from, on, since),
           NoInput \/ Edit
    PROVE  IInv'
<1> DEFINE just == on /\ ~wasPlaying
           moved == playhead' # last \/ just
           force == just \/ playhead' - last \notin 0 .. Leap
           desired == audible' \cap Under(playhead')
           restart == {c \in desired : c \notin Decoding \/ force \/ Outdated(c)}
<1>1. /\ doomed = {} /\ wanted = {}
      /\ playing' = on /\ wasPlaying' = on /\ last' = playhead'
      /\ UNCHANGED <<decoders, rings, running>>
      /\ unheard' = (~moved /\ (unheard \/ <<audible, tune>>' # <<audible, tune>>))
    BY DEF Pass, BetweenFrames, Transport, Follow
<1>2. Decoding' = Decoding /\ Decoding \subseteq Clips
    BY <1>1 DEF Decoding
<1>3. tune' \in [Clips -> Tunings]
    BY DEF NoInput, Edit, IInv, Domains
<1>4. Domains'
    BY <1>1, <1>3 DEF IInv, Domains
<1>5. OneEach'
    BY <1>1, <1>2 DEF IInv, OneEach
<1>6. CASE ~on
    <2>1. doomed' = Decoding /\ wanted' = {}
        BY <1>6 DEF Pass, Follow
    <2> QED
        BY <1>1, <1>2, <1>4, <1>5, <1>6, <2>1
        DEF IInv, Lists, Remembered, PausedStops, PlansAreRight
<1>7. CASE on /\ ~moved
    <2>1. doomed' = {} /\ wanted' = {}
        BY <1>1, <1>7 DEF Pass, Follow
    <2>2. playing /\ playhead' = playhead
        BY <1>7 DEF IInv, Remembered
    <2>3. PlansAreRight'
        <3> SUFFICES ASSUME ~unheard', NEW c \in Clips
                     PROVE  Planned(c)' = IF c \in audible' \cap Under(playhead')
                                          THEN tune'[c] ELSE None
            BY DEF PlansAreRight
        <3>1. ~unheard /\ UNCHANGED <<audible, tune>>
            BY <1>1, <1>7
        <3>2. Planned(c)' = Planned(c)
            BY <1>1, <2>1, <3>1 DEF Planned
        <3> QED  BY <2>2, <3>1, <3>2 DEF IInv, PlansAreRight, Under
    <2> QED
        BY <1>1, <1>2, <1>4, <1>5, <1>7, <2>1, <2>3 DEF IInv, Lists, Remembered, PausedStops
<1>8. CASE on /\ moved
    <2>1. doomed' = ToStop(desired, restart) /\ wanted' = restart
        BY <1>8 DEF Pass, Follow
    <2>2. desired \subseteq Clips /\ restart \subseteq desired
        BY DEF Under
    <2> HIDE DEF desired
    <2>3. PlansAreRight'
        <3> SUFFICES ASSUME NEW c \in Clips
                     PROVE  Planned(c)' = IF c \in desired THEN tune'[c] ELSE None
            BY DEF PlansAreRight, desired
        <3>1. CASE c \in restart
            BY <2>1, <2>2, <3>1 DEF Planned
        <3>2. CASE c \in desired \ restart
            <4>1. decoders[c] = tune'[c] /\ c \notin wanted' /\ c \notin doomed'
                BY <2>1, <3>2 DEF ToStop, Outdated
            <4> QED  BY <1>1, <3>2, <4>1 DEF Planned
        <3>3. CASE c \notin desired
            <4>1. c \notin wanted' /\ (c \in Decoding => c \in doomed')
                BY <2>1, <2>2, <3>3 DEF ToStop
            <4>2. c \notin Decoding => decoders[c] = None
                BY DEF Decoding
            <4> QED  BY <1>1, <3>3, <4>1, <4>2 DEF Planned
        <3> QED  BY <3>1, <3>2, <3>3
    <2>4. Lists'
        BY <1>2, <2>1, <2>2 DEF Lists, ToStop
    <2> QED
        BY <1>1, <1>4, <1>5, <1>8, <2>3, <2>4 DEF IInv, Remembered, PausedStops
<1> QED  BY <1>6, <1>7, <1>8

LEMMA StopPlaybackHolds ==
    ASSUME IInv, StopPlayback  PROVE IInv'
<1>1. /\ playing' = FALSE /\ wasPlaying' = FALSE /\ doomed' = Decoding /\ wanted = {}
      /\ UNCHANGED <<tune, decoders, wanted, rings, running, unheard>>
    BY DEF StopPlayback, BetweenFrames, boundVars
<1>2. Decoding' = Decoding
    BY <1>1 DEF Decoding
<1> QED
    BY <1>1, <1>2
    DEF IInv, Domains, OneEach, Lists, Remembered, PausedStops, PlansAreRight

LEMMA StopHolds ==
    ASSUME IInv, NEW c \in Clips, StopDecoder(c)  PROVE IInv'
<1>1. /\ c \in doomed /\ doomed' = doomed \ {c} /\ wanted' = wanted
      /\ decoders' = [decoders EXCEPT ![c] = None]
      /\ rings' = [rings EXCEPT ![c] = @ - 1] /\ running' = [running EXCEPT ![c] = @ - 1]
      /\ UNCHANGED <<playhead, playing, last, wasPlaying, audible, tune, unheard>>
    BY DEF StopDecoder, userVars, boundVars
<1>2. c \in Decoding /\ Decoding' = Decoding \ {c}
    BY <1>1 DEF IInv, Domains, Lists, Decoding
<1>3. Domains'
    BY <1>1 DEF IInv, Domains
<1>4. OneEach'
    <2> SUFFICES ASSUME NEW d \in Clips
                 PROVE  /\ rings'[d] = Cardinality({d} \cap Decoding')
                        /\ running'[d] = Cardinality({d} \cap Decoding')
        BY DEF OneEach
    <2>1. rings[d] = Cardinality({d} \cap Decoding) /\ running[d] = Cardinality({d} \cap Decoding)
        BY DEF IInv, OneEach
    <2>2. CASE d = c
        BY <1>1, <1>2, <2>1, <2>2, OneOrNone DEF IInv, Domains
    <2>3. CASE d # c
        <3>1. {d} \cap Decoding' = {d} \cap Decoding
            BY <1>2, <2>3
        <3> QED  BY <1>1, <2>1, <2>3, <3>1 DEF IInv, Domains
    <2> QED  BY <2>2, <2>3
<1>5. Lists' /\ Remembered' /\ PausedStops'
    BY <1>1, <1>2 DEF IInv, Lists, Remembered, PausedStops
<1>6. \A d \in Clips : Planned(d)' = Planned(d)
    BY <1>1 DEF IInv, Domains, Planned
<1>7. PlansAreRight'
    BY <1>1, <1>6 DEF IInv, PlansAreRight, Under
<1> QED  BY <1>3, <1>4, <1>5, <1>7 DEF IInv

LEMMA StartHolds ==
    ASSUME IInv, NEW c \in Clips, StartDecoder(c)  PROVE IInv'
<1>1. /\ c \in wanted \ doomed /\ wanted' = wanted \ {c} /\ doomed' = doomed
      /\ decoders' = [decoders EXCEPT ![c] = tune[c]]
      /\ rings' = [rings EXCEPT ![c] = @ + 1] /\ running' = [running EXCEPT ![c] = @ + 1]
      /\ UNCHANGED <<playhead, playing, last, wasPlaying, audible, tune, unheard>>
    BY DEF StartDecoder, userVars, boundVars
<1>2. tune[c] \in Tunings /\ tune[c] # None
    BY TuningsAssumption DEF IInv, Domains
<1>3. c \notin Decoding /\ Decoding' = Decoding \cup {c}
    BY <1>1, <1>2 DEF IInv, Domains, Lists, Decoding
<1>4. Domains'
    BY <1>1, <1>2 DEF IInv, Domains
<1>5. OneEach'
    <2> SUFFICES ASSUME NEW d \in Clips
                 PROVE  /\ rings'[d] = Cardinality({d} \cap Decoding')
                        /\ running'[d] = Cardinality({d} \cap Decoding')
        BY DEF OneEach
    <2>1. rings[d] = Cardinality({d} \cap Decoding) /\ running[d] = Cardinality({d} \cap Decoding)
        BY DEF IInv, OneEach
    <2>2. CASE d = c
        BY <1>1, <1>3, <2>1, <2>2, OneOrNone DEF IInv, Domains
    <2>3. CASE d # c
        <3>1. {d} \cap Decoding' = {d} \cap Decoding
            BY <1>3, <2>3
        <3> QED  BY <1>1, <2>1, <2>3, <3>1 DEF IInv, Domains
    <2> QED  BY <2>2, <2>3
<1>6. playing
    BY <1>1 DEF IInv, PausedStops
<1>7. Lists' /\ Remembered' /\ PausedStops'
    BY <1>1, <1>3, <1>6 DEF IInv, Lists, Remembered, PausedStops
<1>8. \A d \in Clips : Planned(d)' = Planned(d)
    BY <1>1 DEF IInv, Domains, Planned
<1>9. PlansAreRight'
    BY <1>1, <1>8 DEF IInv, PlansAreRight, Under
<1> QED  BY <1>4, <1>5, <1>7, <1>9 DEF IInv

\* Nothing else touches what the invariant is about.
LEMMA OtherStepsHold ==
    ASSUME IInv,
           UNCHANGED <<playhead, playing, last, wasPlaying, audible, tune, decoders, doomed, wanted,
                       rings, running, unheard>>
    PROVE  IInv'
<1>1. Decoding' = Decoding
    BY DEF Decoding
<1>2. \A c \in Clips : Planned(c)' = Planned(c)
    BY DEF Planned
<1> QED
    BY <1>1, <1>2
    DEF IInv, Domains, OneEach, Lists, Remembered, PausedStops, PlansAreRight, Under

LEMMA NextHolds ==
    ASSUME IInv, [Next]_vars  PROVE IInv'
<1>1. playing \in BOOLEAN
    BY DEF IInv, Domains
<1>2. CASE Idle \/ Change
    BY <1>1, <1>2, PassHolds DEF Idle, Change
<1>3. CASE Toggle \/ Scrub
    BY <1>1, <1>3, PassHolds DEF Toggle, Scrub
<1>4. CASE StopPlayback
    BY <1>4, StopPlaybackHolds
<1>5. CASE \E c \in Clips : StopDecoder(c) \/ StartDecoder(c)
    BY <1>5, StopHolds, StartHolds
<1>6. CASE Unlock \/ SeekClock \/ Callback \/ Silence \/ UNCHANGED vars
    BY <1>6, OtherStepsHold
    DEF Unlock, SeekClock, Callback, Silence, TimePasses, vars, userVars, syncVars, boundVars
<1> QED  BY <1>2, <1>3, <1>4, <1>5, <1>6 DEF Next, Frame, Work

-----------------------------------------------------------------------------
(* The theorems *)

THEOREM Invariance == Spec => []IInv
BY InitHolds, NextHolds, PTL DEF Spec

\* OneVoiceEach (app.rs, stop_audio_decoder and the loop that starts decoders):
\* however passes, locks and callbacks interleave, no thread and no ring is
\* forgotten, none is there twice, and none is left while paused.
THEOREM OneVoice == Spec => []OneVoiceEach
<1>1. IInv => OneVoiceEach
    BY DEF IInv, OneEach, PausedStops, OneVoiceEach, BetweenFrames
<1> QED  BY <1>1, Invariance, PTL

\* EditsAreHeard (app.rs, what is restarted when the playhead moved): for every
\* layout of clips and every history of edits, what plays is what the user set.
THEOREM EditsHeard == Spec => []EditsAreHeard
<1>1. IInv => EditsAreHeard
    BY DEF IInv, PlansAreRight, Planned, EditsAreHeard, Right, BetweenFrames
<1> QED  BY <1>1, Invariance, PTL
=============================================================================
