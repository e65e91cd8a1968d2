--------------------------- MODULE ExportPipeline ---------------------------
(***************************************************************************)
(* An export on the CPU encoder path: ExportEngine::start and the three    *)
(* threads it spawns.                                                      *)
(*                                                                         *)
(*   ve-export-dispatch  renders the segments, reads frame i-1 back while  *)
(*                       frame i renders, pushes it to the encoder queue,  *)
(*                       joins the two workers, finalises the muxer and    *)
(*                       reports the one terminal phase;                   *)
(*   ve-encoder          pops frames, feeds the video codec, muxes the     *)
(*                       packets that come out;                            *)
(*   ve-audio-enc        mixes the clips, then encodes and muxes the       *)
(*                       program buffer.                                   *)
(*                                                                         *)
(* A frame's pixels are abstracted to the index of the frame they were     *)
(* rendered for, a packet to what it encodes.                              *)
(***************************************************************************)
EXTENDS Integers, Sequences, ExportSegments

CONSTANTS
    TotalFrames,    \* job.total_frames()
    RenderThreads,  \* job.render_threads
    QueueDepth,     \* QUEUE_DEPTH, 8 in the source
    AudioFrames,    \* AAC frames in the program buffer
    AudioClips,     \* audible, unmuted clips that overlap the export range
    MaxPauses,      \* bound: how often the user pauses
    Faults          \* which calls may fail

FaultKinds == {"spawn", "render", "stale", "encode", "drain", "videoMux",
               "audio", "audioMux", "trailer"}

ASSUME ExportAssumption ==
    /\ TotalFrames \in Nat \ {0}
    /\ RenderThreads \in Nat \ {0}
    /\ QueueDepth \in Nat \ {0}
    /\ AudioFrames \in Nat
    /\ AudioClips \in Nat
    /\ MaxPauses \in Nat
    /\ Faults \subseteq FaultKinds

VARIABLES
    cancel, pause, pauses,            \* ExportControl, and the pauses so far
    spc,                              \* where start() is
    dpc, seg, frame, pending,         \* the dispatch thread
    slots, active, framesDone, renderErr,
    queue,                            \* EncoderQueue
    vpc, vheld, vout, vthen, vmuxErr, \* the video worker and its codec
    apc, aclip, amixed, aframe,       \* the audio worker and its codec
    aheld, aout, athen, amuxErr,
    muxVideo, muxAudio, finalised, trailer,  \* the shared Muxer
    terminal                          \* terminal phases reported so far

controlVars == <<cancel, pause, pauses>>
dispatchVars == <<dpc, seg, frame, pending, slots, active, framesDone, renderErr>>
videoVars == <<vpc, vheld, vout, vthen, vmuxErr>>
audioVars == <<apc, aclip, amixed, aframe, aheld, aout, athen, amuxErr>>
muxVars == <<muxVideo, muxAudio, finalised, trailer>>
vars == <<controlVars, spc, dispatchVars, queue, videoVars, audioVars,
          muxVars, terminal>>

NoFrame == -1
Frames == 0 .. TotalFrames - 1

(* QueueItem. "at" is the frame index of a frame and, for a marker, the    *)
(* index of the frame that would come next; the code carries it only for   *)
(* frames. "data" stands for RawFrame::data.                               *)
FrameItem(f, d) == [kind |-> "frame", at |-> f, data |-> d]
SegmentDone(next) == [kind |-> "segmentDone", at |-> next, data |-> NoFrame]
AllDone(next) == [kind |-> "allDone", at |-> next, data |-> NoFrame]

SegEnd(i) == SegmentEnd(TotalFrames, RenderThreads, i)
HasSeg(i) == IsSegment(TotalFrames, RenderThreads, i)

Init ==
    /\ cancel = FALSE /\ pause = FALSE /\ pauses = 0
    /\ spc = "spawnVideo"
    /\ dpc = "unspawned" /\ seg = 0 /\ frame = 0 /\ pending = NoFrame
    /\ slots = [s \in {0, 1} |-> NoFrame] /\ active = 0
    /\ framesDone = 0 /\ renderErr = FALSE
    /\ queue = <<>>
    /\ vpc = "unspawned" /\ vheld = <<>> /\ vout = <<>> /\ vthen = "pop"
    /\ vmuxErr = FALSE
    /\ apc = "unspawned" /\ aclip = 0 /\ amixed = 0 /\ aframe = 0
    /\ aheld = <<>> /\ aout = <<>> /\ athen = "encode" /\ amuxErr = FALSE
    /\ muxVideo = <<>> /\ muxAudio = <<>> /\ finalised = FALSE
    /\ trailer = "none"
    /\ terminal = <<>>

-----------------------------------------------------------------------------
(* The caller's side: start() and the ExportControl it hands out.          *)

SpawnVideo ==
    /\ spc = "spawnVideo"
    /\ \/ spc' = "spawnAudio" /\ vpc' = "pop"
       \/ "spawn" \in Faults /\ spc' = "failed" /\ vpc' = vpc
    /\ UNCHANGED <<controlVars, dispatchVars, queue, vheld, vout, vthen, vmuxErr,
                   audioVars, muxVars, terminal>>

SpawnAudio ==
    /\ spc = "spawnAudio"
    /\ \/ spc' = "spawnDispatch" /\ apc' = "mix"
       \/ "spawn" \in Faults /\ spc' = "failed" /\ apc' = apc
    /\ UNCHANGED <<controlVars, dispatchVars, queue, videoVars, aclip, amixed,
                   aframe, aheld, aout, athen, amuxErr, muxVars, terminal>>

(* Only a spawned dispatch thread joins the workers: when its own spawn    *)
(* fails they are left behind.                                             *)
SpawnDispatch ==
    /\ spc = "spawnDispatch"
    /\ \/ spc' = "started" /\ dpc' = "segment"
       \/ "spawn" \in Faults /\ spc' = "failed" /\ dpc' = dpc
    /\ UNCHANGED <<controlVars, seg, frame, pending, slots, active, framesDone,
                   renderErr, queue, videoVars, audioVars, muxVars, terminal>>

Start == SpawnVideo \/ SpawnAudio \/ SpawnDispatch

(* The receiver, and with it the control, exists once start() returned.    *)
Cancel ==
    /\ spc = "started" /\ ~cancel
    /\ cancel' = TRUE
    /\ UNCHANGED <<pause, pauses, spc, dispatchVars, queue, videoVars, audioVars,
                   muxVars, terminal>>

Pause ==
    /\ spc = "started" /\ ~pause /\ pauses < MaxPauses
    /\ pause' = TRUE /\ pauses' = pauses + 1
    /\ UNCHANGED <<cancel, spc, dispatchVars, queue, videoVars, audioVars,
                   muxVars, terminal>>

Resume ==
    /\ spc = "started" /\ pause
    /\ pause' = FALSE
    /\ UNCHANGED <<cancel, pauses, spc, dispatchVars, queue, videoVars, audioVars,
                   muxVars, terminal>>

User == Cancel \/ Pause \/ Resume

-----------------------------------------------------------------------------
(* The dispatch thread.                                                    *)

(* The loop ends, whatever the reason, in queue.finish().                  *)
MutReleaseOnlyOnSuccess == IF cancel THEN "joinVideo" ELSE "finish"
AfterLoop == "finish"

BeginSegment ==
    /\ dpc = "segment" /\ ~cancel /\ HasSeg(seg)
    /\ frame' = SegmentStart(TotalFrames, RenderThreads, seg)
    /\ pending' = NoFrame /\ active' = 0
    /\ dpc' = "frame"
    /\ UNCHANGED <<controlVars, spc, seg, slots, framesDone, renderErr, queue,
                   videoVars, audioVars, muxVars, terminal>>

LeaveSegments ==
    /\ dpc = "segment" /\ (cancel \/ ~HasSeg(seg))
    /\ dpc' = AfterLoop
    /\ UNCHANGED <<controlVars, spc, seg, frame, pending, slots, active,
                   framesDone, renderErr, queue, videoVars, audioVars, muxVars,
                   terminal>>

(* Cancellation is looked at before every frame and in every turn of the   *)
(* pause loop; a cancelled segment returns Ok and drops its pending        *)
(* readback.                                                               *)
MutDeafWhilePaused == dpc = "frame" /\ cancel
SeesCancel == cancel

CheckCancel ==
    /\ dpc \in {"frame", "paused"}
    /\ dpc' = IF SeesCancel THEN "after" ELSE "pause"
    /\ UNCHANGED <<controlVars, spc, seg, frame, pending, slots, active,
                   framesDone, renderErr, queue, videoVars, audioVars, muxVars,
                   terminal>>

CheckPause ==
    /\ dpc = "pause"
    /\ dpc' = CASE pause -> "paused"
                [] ~pause /\ frame < SegEnd(seg) -> "render"
                [] ~pause /\ frame >= SegEnd(seg) -> "readback"
    /\ UNCHANGED <<controlVars, spc, seg, frame, pending, slots, active,
                   framesDone, renderErr, queue, videoVars, audioVars, muxVars,
                   terminal>>

(* The graph runs and the copy into the active readback slot is recorded;  *)
(* without a FINAL_COLOR target the copy is skipped with a log line.       *)
RenderFrame ==
    /\ dpc = "render"
    /\ \/ slots' = [slots EXCEPT ![active] = frame]
       \/ "stale" \in Faults /\ slots' = slots
    /\ dpc' = "readback"
    /\ UNCHANGED <<controlVars, spc, seg, frame, pending, active, framesDone,
                   renderErr, queue, videoVars, audioVars, muxVars, terminal>>

(* A frame below the end becomes the pending one and the slots swap; after *)
(* the last one the loop ends.                                             *)
NextFrame ==
    IF frame < SegEnd(seg)
    THEN /\ pending' = frame /\ active' = 1 - active /\ frame' = frame + 1
         /\ dpc' = "frame"
    ELSE /\ pending' = NoFrame /\ dpc' = "segmentDone"
         /\ UNCHANGED <<active, frame>>

NothingPending ==
    /\ dpc = "readback" /\ pending = NoFrame
    /\ NextFrame
    /\ UNCHANGED <<controlVars, spc, seg, slots, framesDone, renderErr, queue,
                   videoVars, audioVars, muxVars, terminal>>

(* map_strip_unmap of the other slot, then a push that blocks while the    *)
(* channel is full.                                                        *)
MutReadActiveSlot == active
PreviousSlot == 1 - active

PushPending ==
    /\ dpc = "readback" /\ pending # NoFrame
    /\ Len(queue) < QueueDepth
    /\ queue' = Append(queue, FrameItem(pending, slots[PreviousSlot]))
    /\ framesDone' = framesDone + 1
    /\ NextFrame
    /\ UNCHANGED <<controlVars, spc, seg, slots, renderErr, videoVars, audioVars,
                   muxVars, terminal>>

(* ensure_graph, map_strip_unmap or a panic: caught, the loop is left.     *)
RenderFails ==
    /\ "render" \in Faults
    /\ \/ dpc = "render"
       \/ dpc = "readback" /\ pending # NoFrame
    /\ renderErr' = TRUE /\ dpc' = AfterLoop
    /\ UNCHANGED <<controlVars, spc, seg, frame, pending, slots, active,
                   framesDone, queue, videoVars, audioVars, muxVars, terminal>>

PushSegmentDone ==
    /\ dpc = "segmentDone" /\ Len(queue) < QueueDepth
    /\ queue' = Append(queue, SegmentDone(framesDone))
    /\ dpc' = "after"
    /\ UNCHANGED <<controlVars, spc, seg, frame, pending, slots, active,
                   framesDone, renderErr, videoVars, audioVars, muxVars, terminal>>

AfterSegment ==
    /\ dpc = "after"
    /\ IF cancel THEN dpc' = AfterLoop /\ seg' = seg
                 ELSE dpc' = "segment" /\ seg' = seg + 1
    /\ UNCHANGED <<controlVars, spc, frame, pending, slots, active, framesDone,
                   renderErr, queue, videoVars, audioVars, muxVars, terminal>>

(* queue.finish(): a blocking send as well.                                *)
Finish ==
    /\ dpc = "finish" /\ Len(queue) < QueueDepth
    /\ queue' = Append(queue, AllDone(framesDone))
    /\ dpc' = "joinVideo"
    /\ UNCHANGED <<controlVars, spc, seg, frame, pending, slots, active,
                   framesDone, renderErr, videoVars, audioVars, muxVars, terminal>>

VideoStopped == vpc \in {"ok", "err"}
MutAudioNotJoined == TRUE
AudioStopped == apc \in {"ok", "err"}

Join ==
    /\ \/ dpc = "joinVideo" /\ VideoStopped /\ dpc' = "joinAudio"
       \/ dpc = "joinAudio" /\ AudioStopped /\ dpc' = "finalise"
    /\ UNCHANGED <<controlVars, spc, seg, frame, pending, slots, active,
                   framesDone, renderErr, queue, videoVars, audioVars, muxVars,
                   terminal>>

FinaliseSync ==
    /\ dpc = "finalise"
    /\ finalised' = TRUE
    /\ \/ trailer' = "written"
       \/ "trailer" \in Faults /\ trailer' = "failed"
    /\ dpc' = "report"
    /\ UNCHANGED <<controlVars, spc, seg, frame, pending, slots, active,
                   framesDone, renderErr, queue, videoVars, audioVars, muxVideo,
                   muxAudio, terminal>>

MutIgnoreAudioError == renderErr \/ vpc = "err" \/ trailer = "failed"
FirstError == renderErr \/ vpc = "err" \/ apc = "err" \/ trailer = "failed"

Report ==
    /\ dpc = "report"
    /\ terminal' = Append(terminal, CASE FirstError -> "failed"
                                      [] ~FirstError /\ cancel -> "cancelled"
                                      [] ~FirstError /\ ~cancel -> "done")
    /\ dpc' = "exit"
    /\ UNCHANGED <<controlVars, spc, seg, frame, pending, slots, active,
                   framesDone, renderErr, queue, videoVars, audioVars, muxVars>>

Dispatch ==
    \/ BeginSegment \/ LeaveSegments \/ CheckCancel \/ CheckPause
    \/ RenderFrame \/ NothingPending \/ PushPending \/ RenderFails
    \/ PushSegmentDone \/ AfterSegment \/ Finish \/ Join
    \/ FinaliseSync \/ Report

-----------------------------------------------------------------------------
(* The video worker. A codec keeps some frames back: every call hands out  *)
(* any prefix of what it holds, oldest first.                              *)

Emit(all, k) ==
    /\ vout' = SubSeq(all, 1, k)
    /\ vheld' = SubSeq(all, k + 1, Len(all))
    /\ vpc' = "write"

Pops(kind) ==
    /\ vpc = "pop" /\ queue # <<>> /\ Head(queue).kind = kind
    /\ queue' = Tail(queue)

EncodeFrame ==
    /\ Pops("frame")
    /\ \/ \E k \in 0 .. Len(vheld) + 1 : Emit(Append(vheld, Head(queue).data), k)
          /\ vthen' = "pop"
       \/ "encode" \in Faults /\ (\E k \in 0 .. Len(vheld) : Emit(vheld, k))
          /\ vthen' = "err"
    /\ UNCHANGED <<controlVars, spc, dispatchVars, vmuxErr, audioVars, muxVars,
                   terminal>>

SkipMarker ==
    /\ Pops("segmentDone")
    /\ UNCHANGED <<controlVars, spc, dispatchVars, videoVars, audioVars, muxVars,
                   terminal>>

(* A drain ends at the first negative return, an error as well as the end  *)
(* of the stream.                                                          *)
MutNoDrain(held) == {0}
Drained(held) == IF "drain" \in Faults THEN 0 .. Len(held) ELSE {Len(held)}

FlushVideo ==
    /\ Pops("allDone")
    /\ \E k \in Drained(vheld) : Emit(vheld, k)
    /\ vthen' = "ok"
    /\ UNCHANGED <<controlVars, spc, dispatchVars, vmuxErr, audioVars, muxVars,
                   terminal>>

(* The packet sink: after its first failure it ignores the other packets.  *)
WriteVideo ==
    /\ vpc = "write" /\ vout # <<>>
    /\ vout' = Tail(vout)
    /\ \/ vmuxErr /\ UNCHANGED <<muxVideo, vmuxErr>>
       \/ ~vmuxErr /\ ~finalised /\ muxVideo' = Append(muxVideo, Head(vout))
          /\ vmuxErr' = vmuxErr
       \/ ~vmuxErr /\ (finalised \/ "videoMux" \in Faults) /\ vmuxErr' = TRUE
          /\ muxVideo' = muxVideo
    /\ UNCHANGED <<controlVars, spc, dispatchVars, queue, vpc, vheld, vthen,
                   audioVars, muxAudio, finalised, trailer, terminal>>

VideoCallDone ==
    /\ vpc = "write" /\ vout = <<>>
    /\ vpc' = IF vmuxErr THEN "err" ELSE vthen
    /\ UNCHANGED <<controlVars, spc, dispatchVars, queue, vheld, vout, vthen,
                   vmuxErr, audioVars, muxVars, terminal>>

EncoderThread ==
    EncodeFrame \/ SkipMarker \/ FlushVideo \/ WriteVideo \/ VideoCallDone

-----------------------------------------------------------------------------
(* The audio worker.                                                       *)

OpenClip ==
    /\ apc = "mix" /\ aclip < AudioClips
    /\ apc' = IF cancel THEN "ok" ELSE "clip"
    /\ UNCHANGED <<controlVars, spc, dispatchVars, queue, videoVars, aclip, amixed,
                   aframe, aheld, aout, athen, amuxErr, muxVars, terminal>>

(* Decode, resample and mix one clip; a cancellation seen in the decode    *)
(* loop leaves the clip partly mixed.                                      *)
MixClip ==
    /\ apc = "clip"
    /\ \/ apc' = "mix" /\ aclip' = aclip + 1 /\ amixed' = amixed + 1
       \/ cancel /\ apc' = "mix" /\ aclip' = aclip + 1 /\ amixed' = amixed
       \/ "audio" \in Faults /\ apc' = "err" /\ UNCHANGED <<aclip, amixed>>
    /\ UNCHANGED <<controlVars, spc, dispatchVars, queue, videoVars, aframe,
                   aheld, aout, athen, amuxErr, muxVars, terminal>>

MixDone ==
    /\ apc = "mix" /\ aclip = AudioClips
    /\ apc' = "encode"
    /\ UNCHANGED <<controlVars, spc, dispatchVars, queue, videoVars, aclip, amixed,
                   aframe, aheld, aout, athen, amuxErr, muxVars, terminal>>

EmitAudio(all, k) ==
    /\ aout' = SubSeq(all, 1, k)
    /\ aheld' = SubSeq(all, k + 1, Len(all))
    /\ apc' = "write"

EncodePcmChunk ==
    /\ apc = "encode" /\ aframe < AudioFrames /\ ~cancel
    /\ \E k \in 0 .. Len(aheld) + 1 : EmitAudio(Append(aheld, aframe), k)
    /\ aframe' = aframe + 1 /\ athen' = "encode"
    /\ UNCHANGED <<controlVars, spc, dispatchVars, queue, videoVars, aclip, amixed,
                   amuxErr, muxVars, terminal>>

(* A cancelled encode loop returns Ok, whatever the sink recorded.         *)
StopEncoding ==
    /\ apc = "encode" /\ aframe < AudioFrames
    /\ \/ cancel /\ apc' = "ok"
       \/ ~cancel /\ "audio" \in Faults /\ apc' = "err"
    /\ UNCHANGED <<controlVars, spc, dispatchVars, queue, videoVars, aclip, amixed,
                   aframe, aheld, aout, athen, amuxErr, muxVars, terminal>>

EncodeAll ==
    /\ apc = "encode" /\ aframe = AudioFrames
    /\ \E k \in Drained(aheld) : EmitAudio(aheld, k)
    /\ athen' = "ok"
    /\ UNCHANGED <<controlVars, spc, dispatchVars, queue, videoVars, aclip, amixed,
                   aframe, amuxErr, muxVars, terminal>>

WriteAudio ==
    /\ apc = "write" /\ aout # <<>>
    /\ aout' = Tail(aout)
    /\ \/ amuxErr /\ UNCHANGED <<muxAudio, amuxErr>>
       \/ ~amuxErr /\ ~finalised /\ muxAudio' = Append(muxAudio, Head(aout))
          /\ amuxErr' = amuxErr
       \/ ~amuxErr /\ (finalised \/ "audioMux" \in Faults) /\ amuxErr' = TRUE
          /\ muxAudio' = muxAudio
    /\ UNCHANGED <<controlVars, spc, dispatchVars, queue, videoVars, apc, aclip,
                   amixed, aframe, aheld, athen, muxVideo, finalised, trailer,
                   terminal>>

(* Only the flush looks at the recorded mux error.                         *)
AudioCallDone ==
    /\ apc = "write" /\ aout = <<>>
    /\ apc' = IF athen = "ok" /\ amuxErr THEN "err" ELSE athen
    /\ UNCHANGED <<controlVars, spc, dispatchVars, queue, videoVars, aclip, amixed,
                   aframe, aheld, aout, athen, amuxErr, muxVars, terminal>>

AudioThread ==
    \/ OpenClip \/ MixClip \/ MixDone \/ EncodePcmChunk \/ StopEncoding \/ EncodeAll
    \/ WriteAudio \/ AudioCallDone

-----------------------------------------------------------------------------
Next == Start \/ User \/ Dispatch \/ EncoderThread \/ AudioThread

(* Every thread that can run keeps running; the user owes nothing.         *)
Fairness ==
    /\ WF_vars(Start)
    /\ WF_vars(Dispatch)
    /\ WF_vars(EncoderThread)
    /\ WF_vars(AudioThread)

Spec == Init /\ [][Next]_vars
FairSpec == Spec /\ Fairness

-----------------------------------------------------------------------------
(* Properties.                                                             *)

VideoPcs == {"unspawned", "pop", "write", "ok", "err"}
AudioPcs == {"unspawned", "mix", "clip", "encode", "write", "ok", "err"}
DispatchPcs == {"unspawned", "segment", "frame", "pause", "paused", "render",
                "readback", "segmentDone", "after", "finish", "joinVideo",
                "joinAudio", "finalise", "report", "exit"}
Pixels == Frames \cup {NoFrame}
Items == [kind : {"frame", "segmentDone", "allDone"}, at : 0 .. TotalFrames,
          data : Pixels]

ControlOK ==
    /\ cancel \in BOOLEAN /\ pause \in BOOLEAN /\ pauses \in 0 .. MaxPauses
    /\ spc \in {"spawnVideo", "spawnAudio", "spawnDispatch", "started", "failed"}

DispatchOK ==
    /\ dpc \in DispatchPcs /\ seg \in Nat /\ frame \in 0 .. TotalFrames
    /\ pending \in Pixels /\ slots \in [{0, 1} -> Pixels] /\ active \in {0, 1}
    /\ framesDone \in 0 .. TotalFrames /\ renderErr \in BOOLEAN

QueueOK == queue \in Seq(Items) /\ Len(queue) <= QueueDepth

VideoOK ==
    /\ vpc \in VideoPcs /\ vheld \in Seq(Pixels) /\ vout \in Seq(Pixels)
    /\ vthen \in {"pop", "ok", "err"} /\ vmuxErr \in BOOLEAN

AudioOK ==
    /\ apc \in AudioPcs /\ aclip \in 0 .. AudioClips /\ amixed \in 0 .. AudioClips
    /\ aframe \in 0 .. AudioFrames /\ aheld \in Seq(Nat) /\ aout \in Seq(Nat)
    /\ athen \in {"encode", "ok"} /\ amuxErr \in BOOLEAN

MuxOK ==
    /\ muxVideo \in Seq(Pixels) /\ muxAudio \in Seq(Nat)
    /\ finalised \in BOOLEAN /\ trailer \in {"none", "written", "failed"}
    /\ terminal \in {<<>>, <<"done">>, <<"cancelled">>, <<"failed">>}

(* Every variable stays in its domain; in particular no frame index leaves *)
(* the export's range, the queue never holds more than its depth and at    *)
(* most one terminal phase is reported.                                    *)
TypeOK == ControlOK /\ DispatchOK /\ QueueOK /\ VideoOK /\ AudioOK /\ MuxOK

(* The muxer is finalised only after both workers returned, so no packet   *)
(* ever meets a finalised muxer (engine.rs, "every producer is stopped and *)
(* joined before the muxer is finalized once").                            *)
FinaliseAfterProducers == finalised => {vpc, apc} \subseteq {"ok", "err"}

(* The one terminal phase tells the truth: no worker, render or trailer    *)
(* failure hides behind "done" or "cancelled", and "cancelled" is only     *)
(* reported when the user asked for it.                                    *)
TruthfulTerminal ==
    /\ terminal # <<>> => dpc = "exit" /\ Len(terminal) = 1
    /\ terminal \in {<<"done">>, <<"cancelled">>} =>
           /\ ~renderErr /\ vpc = "ok" /\ apc = "ok" /\ trailer = "written"
    /\ terminal = <<"cancelled">> => cancel

QueuedFrames == {i \in DOMAIN queue : queue[i].kind = "frame"}

FirstFrames(n) == [i \in 1 .. n |-> i - 1]

(* Done is reported only when the dispatch thread has handed every frame   *)
(* of the job to the encoder, however the frames divide over the segments. *)
DoneCountsEveryFrame == terminal = <<"done">> => framesDone = TotalFrames

(* As long as the video worker has met no error, the frames in the file,   *)
(* in the packets being written, in the codec and in the queue are, in     *)
(* this order, exactly the frames the dispatch thread has counted, each    *)
(* with its own pixels: the double-buffered readback, the queue and the    *)
(* two prefix-emitting drains lose, repeat and reorder nothing.            *)
VideoConserved ==
    vpc # "err" /\ vthen # "err" /\ ~vmuxErr =>
        LET out == muxVideo \o vout \o vheld
        IN  /\ out = FirstFrames(Len(out)) /\ Len(out) <= framesDone
            /\ {queue[i].data : i \in QueuedFrames} = Len(out) .. framesDone - 1
            /\ \A i, j \in QueuedFrames : i < j => queue[i].data < queue[j].data

(* A worker that returned normally has left nothing behind: the queue is   *)
(* empty, the codec drained, and the file holds every counted frame. This  *)
(* is what makes a cancelled export's file match the count it reports. An  *)
(* export that is done has mixed every audible clip to its end.            *)
NothingLeftBehind ==
    /\ terminal \in {<<"done">>, <<"cancelled">>} =>
           queue = <<>> /\ vheld = <<>> /\ muxVideo = FirstFrames(framesDone)
    /\ terminal = <<"done">> => amixed = AudioClips

Ended == terminal # <<>> \/ spc = "failed"

(* An export that is not left paused for ever ends with a terminal phase,  *)
(* also when rendering or a worker fails (engine.rs: the encoder "must     *)
(* always be released, including render errors, cancellation, and panics").*)
EventuallyTerminal == <>[](~pause \/ cancel) => <>Ended

(* A cancellation ends the export even when it is paused.                  *)
CancelEnds == cancel ~> Ended

Contract == INSTANCE ExportContract WITH
                video <- muxVideo, audio <- muxAudio, sealed <- finalised,
                cancelled <- cancel, verdict <- terminal

(* The threads together keep the contract of an export.                    *)
KeepsContract == Contract!CSpec
=============================================================================
