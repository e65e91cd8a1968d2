--------------------------- MODULE NvencPipeline ----------------------------
(***************************************************************************)
(* An export on the zero-copy NVENC path. The dispatch thread renders      *)
(* frame n into slot n % SlotCount, hands a rendered slot to NVENC once    *)
(* the GPU has finished with it, and takes packets back in submission      *)
(* order; the GPU and NVENC run on their own between the two waits. The    *)
(* muxer is written by the dispatch thread only (its audio side, and the   *)
(* audio worker, are those of ExportPipeline).                             *)
(*                                                                         *)
(* The pixels in a slot are abstracted to the frame they were rendered     *)
(* for, a packet to its timestamp and the pixels it encodes. B-frames are  *)
(* off (reorder_disabled): output order is submission order.               *)
(***************************************************************************)
EXTENDS Integers, Sequences, ExportSegments

CONSTANTS
    TotalFrames,    \* job.total_frames()
    RenderThreads,  \* job.render_threads
    SlotCount,      \* EncodeInterop::slot_count(), 4 in the source
    MaxPauses,      \* bound: how often the user pauses
    Faults          \* which calls may fail

FaultKinds == {"render", "submit", "lock", "wedged", "eos", "mux", "handOff",
               "stale", "audio", "trailer"}

ASSUME NvencAssumption ==
    /\ TotalFrames \in Nat \ {0}
    /\ RenderThreads \in Nat \ {0}
    /\ SlotCount \in Nat /\ SlotCount >= 2
    /\ MaxPauses \in Nat
    /\ Faults \subseteq FaultKinds

VARIABLES
    cancel, pause, pauses,     \* ExportControl, and the pauses so far
    async,                     \* is_async: the session has completion events
    dpc, then,                 \* the dispatch thread; where muxing returns to
    seg, frame, framesDone,
    inflight,                  \* rendered or rendering, not yet given to NVENC
    gpuQueue,                  \* submissions the GPU has not executed yet
    slotData,                  \* the pixels in each slot's NV12 buffer
    pending, poisoned, eosSent,\* EncodeInterop
    got,                       \* packets taken from NVENC, not yet muxed
    error,                     \* first_error
    muxVideo, finalised, trailer,
    terminal

controlVars == <<cancel, pause, pauses, async>>
loopVars == <<seg, frame, framesDone>>
nvencVars == <<pending, poisoned, eosSent>>
muxVars == <<muxVideo, finalised, trailer>>
vars == <<controlVars, dpc, then, loopVars, inflight, gpuQueue, slotData,
          nvencVars, got, error, muxVars, terminal>>

NoFrame == -1
Slots == 0 .. SlotCount - 1
Pixels == 0 .. TotalFrames - 1 \cup {NoFrame}

SlotOf(f) == f % SlotCount

(* gpu_lookahead: slot_count.saturating_sub(2).max(1) *)
MutLookahead == SlotCount
Lookahead == IF SlotCount - 2 > 1 THEN SlotCount - 2 ELSE 1

SegEnd == SegmentEnd(TotalFrames, RenderThreads, seg)
HasSeg == IsSegment(TotalFrames, RenderThreads, seg)

(* Whether a call that is only logged when it fails does its work.         *)
Succeeds(call) == IF call \in Faults THEN BOOLEAN ELSE {TRUE}

Init ==
    /\ cancel = FALSE /\ pause = FALSE /\ pauses = 0 /\ async \in BOOLEAN
    /\ dpc = "segment" /\ then = "render"
    /\ seg = 0 /\ frame = 0 /\ framesDone = 0
    /\ inflight = <<>> /\ gpuQueue = <<>>
    /\ slotData = [s \in Slots |-> NoFrame]
    /\ pending = <<>> /\ poisoned = FALSE /\ eosSent = FALSE
    /\ got = <<>> /\ error = FALSE
    /\ muxVideo = <<>> /\ finalised = FALSE /\ trailer = "none"
    /\ terminal = <<>>

-----------------------------------------------------------------------------
(* The user.                                                               *)

Cancel ==
    /\ ~cancel /\ cancel' = TRUE
    /\ UNCHANGED <<pause, pauses, async, dpc, then, loopVars, inflight, gpuQueue,
                   slotData, nvencVars, got, error, muxVars, terminal>>

Pause ==
    /\ ~pause /\ pauses < MaxPauses
    /\ pause' = TRUE /\ pauses' = pauses + 1
    /\ UNCHANGED <<cancel, async, dpc, then, loopVars, inflight, gpuQueue, slotData,
                   nvencVars, got, error, muxVars, terminal>>

Resume ==
    /\ pause /\ pause' = FALSE
    /\ UNCHANGED <<cancel, pauses, async, dpc, then, loopVars, inflight, gpuQueue,
                   slotData, nvencVars, got, error, muxVars, terminal>>

User == Cancel \/ Pause \/ Resume

-----------------------------------------------------------------------------
(* The hardware: the GPU executes submissions in order, NVENC encodes the  *)
(* pictures it accepted in order.                                          *)

GpuExecutes ==
    /\ gpuQueue # <<>>
    /\ gpuQueue' = Tail(gpuQueue)
    /\ \E drawn \in Succeeds("stale") :
          slotData' = IF drawn
                      THEN [slotData EXCEPT ![SlotOf(Head(gpuQueue))] = Head(gpuQueue)]
                      ELSE slotData
    /\ UNCHANGED <<controlVars, dpc, then, loopVars, inflight, nvencVars, got,
                   error, muxVars, terminal>>

NvencEncodes ==
    /\ \E i \in DOMAIN pending :
          /\ ~pending[i].ready /\ \A j \in 1 .. i - 1 : pending[j].ready
          /\ pending' = [pending EXCEPT ![i].ready = TRUE,
                                        ![i].data = slotData[pending[i].slot]]
    /\ UNCHANGED <<controlVars, dpc, then, loopVars, inflight, gpuQueue, slotData,
                   poisoned, eosSent, got, error, muxVars, terminal>>

-----------------------------------------------------------------------------
(* The frame loop of render_segment.                                       *)

BeginSegment ==
    /\ dpc = "segment" /\ ~cancel /\ HasSeg
    /\ frame' = SegmentStart(TotalFrames, RenderThreads, seg)
    /\ dpc' = "frame"
    /\ UNCHANGED <<controlVars, then, seg, framesDone, inflight, gpuQueue, slotData,
                   nvencVars, got, error, muxVars, terminal>>

(* queue.finish() cannot block here: nothing else was ever queued. A       *)
(* failed loop has dropped the renderer and with it the encoder.           *)
EndOfLoop ==
    /\ dpc = "segment" /\ (cancel \/ ~HasSeg)
    /\ dpc' = "flush"
    /\ UNCHANGED <<controlVars, then, loopVars, inflight, gpuQueue, slotData,
                   nvencVars, got, error, muxVars, terminal>>

(* A cancelled segment returns Ok; what it had rendered ahead is dropped.  *)
MutDeafWhilePaused == dpc = "frame" /\ cancel
SeesCancel == cancel

CheckCancel ==
    /\ \/ dpc = "frame" /\ frame < SegEnd
       \/ dpc = "paused"
    /\ IF SeesCancel THEN dpc' = "after" /\ inflight' = <<>>
                     ELSE dpc' = "pause" /\ inflight' = inflight
    /\ UNCHANGED <<controlVars, then, loopVars, gpuQueue, slotData, nvencVars, got,
                   error, muxVars, terminal>>

CheckPause ==
    /\ dpc = "pause"
    /\ dpc' = IF pause THEN "paused" ELSE "reclaim"
    /\ UNCHANGED <<controlVars, then, loopVars, inflight, gpuQueue, slotData,
                   nvencVars, got, error, muxVars, terminal>>

MutNeverBusy(slot) == FALSE
Busy(slot) == \E i \in DOMAIN pending : pending[i].slot = slot

(* take_oldest_output: wait for the oldest picture's event, lock, copy,    *)
(* unlock. A timeout or a failed lock poisons the session and the packets  *)
(* collected by the same call are dropped with the error.                  *)
TakeOldest ==
    /\ pending # <<>> /\ Head(pending).ready
    /\ pending' = Tail(pending)
    /\ got' = Append(got, [pts |-> Head(pending).pts, data |-> Head(pending).data])

TakeFails ==
    /\ pending # <<>>
    /\ \/ "lock" \in Faults /\ Head(pending).ready
       \/ "wedged" \in Faults /\ async /\ ~Head(pending).ready

(* poison(), and the error that leaves the render loop; dropping the       *)
(* renderer destroys the session.                                          *)
Poison ==
    /\ poisoned' = TRUE /\ pending' = <<>> /\ got' = <<>> /\ error' = TRUE
    /\ inflight' = <<>>
    /\ dpc' = "joinAudio"

(* reclaim_slot before a frame is recorded. encode_frame calls it again,   *)
(* for a slot that this call has freed: that one finds nothing to do.      *)
Reclaim ==
    /\ dpc = "reclaim" /\ Busy(SlotOf(frame))
    /\ \/ TakeOldest /\ UNCHANGED <<dpc, poisoned, error, inflight>>
       \/ TakeFails /\ Poison
    /\ UNCHANGED <<controlVars, then, loopVars, gpuQueue, slotData, eosSent,
                   muxVars, terminal>>

(* The packets that reclaiming gave are muxed; the mutant discards them.   *)
MutDiscarded == <<>>
ReclaimedPackets == got

Reclaimed ==
    /\ dpc = "reclaim" /\ ~Busy(SlotOf(frame))
    /\ got' = ReclaimedPackets
    /\ dpc' = "mux" /\ then' = "render"
    /\ UNCHANGED <<controlVars, loopVars, inflight, gpuQueue, slotData, nvencVars,
                   error, muxVars, terminal>>

Render ==
    /\ dpc = "render"
    /\ gpuQueue' = Append(gpuQueue, frame)
    /\ inflight' = Append(inflight, frame)
    /\ frame' = frame + 1
    /\ dpc' = IF Len(inflight') > Lookahead THEN "wait" ELSE "frame"
    /\ UNCHANGED <<controlVars, then, seg, framesDone, slotData, nvencVars, got,
                   error, muxVars, terminal>>

(* poll(WaitForSubmissionIndex) for the oldest render in flight.           *)
MutNoGpuWait(f) == TRUE
GpuFinished(f) == \A i \in DOMAIN gpuQueue : gpuQueue[i] # f

WaitForGpu ==
    /\ dpc = "wait" /\ GpuFinished(Head(inflight))
    /\ dpc' = "submit"
    /\ UNCHANGED <<controlVars, then, loopVars, inflight, gpuQueue, slotData,
                   nvencVars, got, error, muxVars, terminal>>

(* encode_frame: map the slot's input and submit the picture.              *)
SubmitPicture ==
    /\ dpc = "submit" /\ ~Busy(SlotOf(Head(inflight)))
    /\ \/ /\ pending' = Append(pending, [pts |-> Head(inflight),
                                         slot |-> SlotOf(Head(inflight)),
                                         ready |-> FALSE, data |-> NoFrame])
          /\ inflight' = Tail(inflight)
          /\ dpc' = "collect"
          /\ UNCHANGED <<poisoned, got, error>>
       \/ "submit" \in Faults /\ Poison
    /\ UNCHANGED <<controlVars, then, loopVars, gpuQueue, slotData, eosSent,
                   muxVars, terminal>>

(* drain_completed: whatever is ready now, oldest first.                   *)
HeadIsReady == async /\ pending # <<>> /\ Head(pending).ready

Collect ==
    /\ dpc = "collect" /\ HeadIsReady
    /\ \/ TakeOldest /\ UNCHANGED <<dpc, poisoned, error, inflight>>
       \/ TakeFails /\ Poison
    /\ UNCHANGED <<controlVars, then, loopVars, gpuQueue, slotData, eosSent,
                   muxVars, terminal>>

Collected ==
    /\ dpc = "collect" /\ ~HeadIsReady
    /\ dpc' = "mux" /\ then' = "submitted"
    /\ UNCHANGED <<controlVars, loopVars, inflight, gpuQueue, slotData, nvencVars,
                   got, error, muxVars, terminal>>

Submitted ==
    /\ dpc = "submitted"
    /\ framesDone' = framesDone + 1
    /\ dpc' = IF Len(inflight) > Lookahead THEN "wait" ELSE "frame"
    /\ UNCHANGED <<controlVars, then, seg, frame, inflight, gpuQueue, slotData,
                   nvencVars, got, error, muxVars, terminal>>

(* After the segment's last frame: submit what is left, then return.       *)
DrainSegment ==
    /\ dpc = "frame" /\ frame >= SegEnd
    /\ dpc' = IF inflight # <<>> THEN "wait" ELSE "after"
    /\ UNCHANGED <<controlVars, then, loopVars, inflight, gpuQueue, slotData,
                   nvencVars, got, error, muxVars, terminal>>

AfterSegment ==
    /\ dpc = "after"
    /\ dpc' = "segment" /\ seg' = IF cancel THEN seg ELSE seg + 1
    /\ UNCHANGED <<controlVars, then, frame, framesDone, inflight, gpuQueue,
                   slotData, nvencVars, got, error, muxVars, terminal>>

-----------------------------------------------------------------------------
(* The end of the export.                                                  *)

(* EncodeInterop::flush: an end-of-stream picture, then every output.      *)
FlushNvenc ==
    /\ dpc = "flush" /\ ~eosSent
    /\ \/ eosSent' = TRUE /\ UNCHANGED <<dpc, poisoned, pending, got, error, inflight>>
       \/ "eos" \in Faults /\ eosSent' = TRUE /\ Poison
    /\ UNCHANGED <<controlVars, then, loopVars, gpuQueue, slotData, muxVars, terminal>>

MutFlushNothing == dpc = "flush" /\ eosSent
Flushed == dpc = "flush" /\ eosSent /\ pending = <<>>

FlushTakes ==
    /\ dpc = "flush" /\ eosSent
    /\ \/ TakeOldest /\ UNCHANGED <<dpc, poisoned, error, inflight>>
       \/ TakeFails /\ Poison
    /\ UNCHANGED <<controlVars, then, loopVars, gpuQueue, slotData, eosSent,
                   muxVars, terminal>>

FlushDone ==
    /\ Flushed
    /\ dpc' = "mux" /\ then' = "joinAudio"
    /\ UNCHANGED <<controlVars, loopVars, inflight, gpuQueue, slotData, nvencVars,
                   got, error, muxVars, terminal>>

(* mux_nvenc_packets logs a failed write and carries on; the sink of the   *)
(* final flush records it as the export's error and skips the rest.        *)
MuxPacket ==
    /\ dpc = "mux" /\ got # <<>>
    /\ got' = Tail(got)
    /\ \E written \in Succeeds("mux") :
          IF written /\ ~(then = "joinAudio" /\ error)
          THEN muxVideo' = Append(muxVideo, Head(got)) /\ error' = error
          ELSE muxVideo' = muxVideo /\ error' = (error \/ then = "joinAudio")
    /\ UNCHANGED <<controlVars, dpc, then, loopVars, inflight, gpuQueue, slotData,
                   nvencVars, finalised, trailer, terminal>>

(* What else leaves the render loop: a frame whose graph does not compile  *)
(* (a panic of the loop is the same), or a packet that cannot be allocated, *)
(* the one muxing error it sees. The session is destroyed with the renderer. *)
LoopFails ==
    /\ \/ dpc = "render" /\ "render" \in Faults
       \/ dpc = "mux" /\ got # <<>> /\ "handOff" \in Faults
    /\ got' = <<>> /\ error' = TRUE /\ dpc' = "joinAudio"
    /\ inflight' = <<>> /\ pending' = <<>>
    /\ UNCHANGED <<controlVars, then, loopVars, gpuQueue, slotData, poisoned,
                   eosSent, muxVars, terminal>>

MuxDone ==
    /\ dpc = "mux" /\ got = <<>>
    /\ dpc' = then
    /\ UNCHANGED <<controlVars, then, loopVars, inflight, gpuQueue, slotData,
                   nvencVars, got, error, muxVars, terminal>>

JoinAudio ==
    /\ dpc = "joinAudio"
    /\ \/ error' = error
       \/ "audio" \in Faults /\ error' = TRUE
    /\ dpc' = "finalise"
    /\ UNCHANGED <<controlVars, then, loopVars, inflight, gpuQueue, slotData,
                   nvencVars, got, muxVars, terminal>>

FinaliseSync ==
    /\ dpc = "finalise"
    /\ finalised' = TRUE
    /\ \/ trailer' = "written" /\ error' = error
       \/ "trailer" \in Faults /\ trailer' = "failed" /\ error' = TRUE
    /\ dpc' = "report"
    /\ UNCHANGED <<controlVars, then, loopVars, inflight, gpuQueue, slotData,
                   nvencVars, got, muxVideo, terminal>>

MutReportCancelFirst == IF cancel THEN "cancelled" ELSE IF error THEN "failed" ELSE "done"
Verdict == IF error THEN "failed" ELSE IF cancel THEN "cancelled" ELSE "done"

Report ==
    /\ dpc = "report"
    /\ terminal' = Append(terminal, Verdict)
    /\ dpc' = "exit"
    /\ UNCHANGED <<controlVars, then, loopVars, inflight, gpuQueue, slotData,
                   nvencVars, got, error, muxVars>>

Dispatch ==
    \/ BeginSegment \/ EndOfLoop \/ CheckCancel \/ CheckPause
    \/ Reclaim \/ Reclaimed \/ Render \/ WaitForGpu \/ SubmitPicture
    \/ Collect \/ Collected \/ Submitted \/ DrainSegment \/ AfterSegment
    \/ FlushNvenc \/ FlushTakes \/ FlushDone
    \/ MuxPacket \/ LoopFails \/ MuxDone
    \/ JoinAudio \/ FinaliseSync \/ Report

Next == User \/ GpuExecutes \/ NvencEncodes \/ Dispatch

(* The dispatch thread keeps running, the GPU executes what it was given,  *)
(* and NVENC finishes what it accepted.                                    *)
Fairness ==
    /\ WF_vars(Dispatch)
    /\ WF_vars(GpuExecutes)
    /\ WF_vars(NvencEncodes)

Spec == Init /\ [][Next]_vars
FairSpec == Spec /\ Fairness

-----------------------------------------------------------------------------
(* Properties.                                                             *)

DispatchPcs == {"segment", "frame", "pause", "paused", "reclaim", "render",
                "wait", "submit", "collect", "submitted", "mux", "after",
                "flush", "joinAudio", "finalise", "report", "exit"}
Pictures == [pts : 0 .. TotalFrames - 1, slot : Slots, ready : BOOLEAN,
             data : Pixels]
Packets == [pts : 0 .. TotalFrames - 1, data : Pixels]

(* Every variable stays in its domain; in particular NVENC never holds     *)
(* more pictures than there are slots.                                     *)
TypeOK ==
    /\ cancel \in BOOLEAN /\ pause \in BOOLEAN /\ pauses \in 0 .. MaxPauses
    /\ async \in BOOLEAN
    /\ dpc \in DispatchPcs /\ then \in {"render", "submitted", "joinAudio"}
    /\ seg \in Nat /\ frame \in 0 .. TotalFrames /\ framesDone \in 0 .. TotalFrames
    /\ inflight \in Seq(0 .. TotalFrames - 1) /\ Len(inflight) <= Lookahead + 1
    /\ gpuQueue \in Seq(0 .. TotalFrames - 1)
    /\ slotData \in [Slots -> Pixels]
    /\ pending \in Seq(Pictures) /\ Len(pending) <= SlotCount
    /\ poisoned \in BOOLEAN /\ eosSent \in BOOLEAN
    /\ got \in Seq(Packets) /\ error \in BOOLEAN
    /\ muxVideo \in Seq(Packets)
    /\ finalised \in BOOLEAN /\ trailer \in {"none", "written", "failed"}
    /\ terminal \in {<<>>, <<"done">>, <<"cancelled">>, <<"failed">>}

(* A slot has one owner: the GPU never has a submission outstanding for a  *)
(* slot that NVENC still reads from, no slot holds two pictures, and the   *)
(* slot about to be rendered into is not one still waiting in flight       *)
(* (renderer.rs, "Keeping this strictly below slot_count guarantees...").  *)
SlotExclusive ==
    /\ \A i \in DOMAIN pending :
           /\ \A g \in DOMAIN gpuQueue : SlotOf(gpuQueue[g]) # pending[i].slot
           /\ \A j \in DOMAIN pending : pending[j].slot = pending[i].slot => i = j
    /\ dpc = "render" =>
           /\ ~Busy(SlotOf(frame))
           /\ \A i \in DOMAIN inflight : SlotOf(inflight[i]) # SlotOf(frame)

(* Every packet carries the pixels of the frame its timestamp names, so no *)
(* picture was read too early or after its slot was rendered into again.   *)
PacketsCarryTheirFrame ==
    /\ \A i \in DOMAIN got : got[i].data = got[i].pts
    /\ \A i \in DOMAIN muxVideo : muxVideo[i].data = muxVideo[i].pts

Timestamps(s) == [i \in DOMAIN s |-> s[i].pts]
FirstFrames(n) == [i \in 1 .. n |-> i - 1]

(* Without an error, the file, the packets in hand and the pictures in     *)
(* NVENC are exactly the frames submitted so far, in order: drains and     *)
(* reclaims neither lose nor reorder a packet, and the renders in flight   *)
(* are the frames that come next.                                          *)
FramesConserved ==
    ~error =>
        LET out == Timestamps(muxVideo) \o Timestamps(got) \o Timestamps(pending)
        IN  out \o inflight = FirstFrames(Len(out) + Len(inflight))

(* Done means that every frame handed to the encoder reached the           *)
(* container, and that all of them were handed over                        *)
(* (export_validation.rs: "every frame handed to the encoder must reach    *)
(* the container").                                                        *)
DoneIsComplete ==
    terminal = <<"done">> => Timestamps(muxVideo) = FirstFrames(TotalFrames)

(* A poisoned session, a failed audio worker or trailer always ends in     *)
(* "failed": a session in trouble never passes for a finished export.      *)
TroubleIsReported ==
    terminal # <<>> /\ (poisoned \/ error \/ trailer = "failed") =>
        terminal = <<"failed">>

(* An export that is not left paused for ever ends, also when NVENC wedges *)
(* or rejects a picture.                                                   *)
EventuallyTerminal == <>[](~pause \/ cancel) => <>(terminal # <<>>)

Contract == INSTANCE ExportContract WITH
                AudioFrames <- 0, audio <- <<>>, video <- Timestamps(muxVideo),
                sealed <- finalised, cancelled <- cancel, verdict <- terminal

(* The NVENC path keeps the contract of an export, for its video.          *)
KeepsContract == Contract!CSpec
=============================================================================
