----------------------- MODULE ExportPipeline_proofs ------------------------
(***************************************************************************)
(* Proofs about ExportPipeline for every export: every number of frames,   *)
(* render threads, audio frames and clips, every queue depth and every set *)
(* of faults.                                                              *)
(***************************************************************************)
EXTENDS ExportPipeline, SequenceTheorems, TLAPS

-----------------------------------------------------------------------------
(* The partition: whatever the export and the number of render threads,    *)
(* segments are non-empty, follow each other without a gap or an overlap,  *)
(* and the last one ends at the last frame.                                *)

(* Rounding up: the quotient covers the dividend.                          *)
LEMMA DivCeilCovers ==
    ASSUME NEW a \in Nat \ {0}, NEW b \in Nat \ {0}
    PROVE  /\ DivCeil(a, b) \in Nat \ {0}
           /\ b * DivCeil(a, b) >= a
<1> DEFINE q == (a + b - 1) \div b
<1>1. /\ q \in Int
      /\ b * q <= a + b - 1
      /\ a + b - 1 < b * q + b
  BY SMT
<1>2. b * q >= a
  BY <1>1, SMT
<1>3. q > 0
  BY <1>1, <1>2, SMT
<1> QED
  BY <1>1, <1>2, <1>3 DEF DivCeil

LEMMA SegmentSizePositive ==
    ASSUME NEW total \in Nat \ {0}, NEW threads \in Nat \ {0}
    PROVE  /\ SegmentCap(total, threads) \in Nat \ {0}
           /\ SegmentSize(total, threads) \in Nat \ {0}
           /\ SegmentCap(total, threads) * SegmentSize(total, threads) >= total
<1>1. SegmentCap(total, threads) \in Nat \ {0}
  BY DEF SegmentCap
<1> QED
  BY <1>1, DivCeilCovers DEF SegmentSize

LEMMA FirstSegment ==
    ASSUME NEW total \in Nat \ {0}, NEW threads \in Nat \ {0}
    PROVE  /\ IsSegment(total, threads, 0)
           /\ SegmentStart(total, threads, 0) = 0
<1>1. 0 * SegmentSize(total, threads) = 0
  BY SegmentSizePositive, SMT
<1> QED
  BY <1>1, SegmentSizePositive DEF IsSegment, SegmentStart

(* Every segment lies inside the export and holds at least one frame.      *)
THEOREM SegmentInRange ==
    ASSUME NEW total \in Nat \ {0}, NEW threads \in Nat \ {0}, NEW i \in Nat,
           IsSegment(total, threads, i)
    PROVE  /\ SegmentStart(total, threads, i) \in 0 .. total - 1
           /\ SegmentEnd(total, threads, i) \in 1 .. total
           /\ SegmentStart(total, threads, i) < SegmentEnd(total, threads, i)
<1> DEFINE size == SegmentSize(total, threads)
<1>1. size \in Nat \ {0}
  BY SegmentSizePositive
<1>2. i * size \in Nat
  BY <1>1, SMT
<1> HIDE DEF size
<1>3. i * size < total
  BY DEF IsSegment, SegmentStart, size
<1> QED
  BY <1>1, <1>2, <1>3 DEF SegmentStart, SegmentEnd, size

(* Each segment but the first starts where the one before it ends.         *)
THEOREM SegmentsContiguous ==
    ASSUME NEW total \in Nat \ {0}, NEW threads \in Nat \ {0}, NEW i \in Nat,
           IsSegment(total, threads, i + 1)
    PROVE  SegmentEnd(total, threads, i) = SegmentStart(total, threads, i + 1)
<1> DEFINE size == SegmentSize(total, threads)
<1>1. size \in Nat \ {0}
  BY SegmentSizePositive
<1>2. /\ i * size \in Nat
      /\ (i + 1) * size = i * size + size
  BY <1>1, SMT
<1> HIDE DEF size
<1>3. (i + 1) * size < total
  BY DEF IsSegment, SegmentStart, size
<1> QED
  BY <1>1, <1>2, <1>3 DEF SegmentStart, SegmentEnd, size

(* Where there is no further segment, the last one has reached the last    *)
(* frame.                                                                  *)
THEOREM SegmentsCover ==
    ASSUME NEW total \in Nat \ {0}, NEW threads \in Nat \ {0}, NEW i \in Nat,
           IsSegment(total, threads, i), ~IsSegment(total, threads, i + 1)
    PROVE  SegmentEnd(total, threads, i) = total
<1> DEFINE size == SegmentSize(total, threads)
           cap == SegmentCap(total, threads)
<1>1. /\ size \in Nat \ {0}
      /\ cap \in Nat \ {0}
      /\ cap * size >= total
  BY SegmentSizePositive
<1>2. /\ i * size \in Nat
      /\ (i + 1) * size = i * size + size
  BY <1>1, SMT
<1> HIDE DEF size, cap
<1>3. i < cap /\ (i + 1 >= cap \/ (i + 1) * size >= total)
  BY <1>1 DEF IsSegment, SegmentStart, size, cap
<1>4. i + 1 = cap => (i + 1) * size >= total
  BY <1>1
<1>5. i * size + size >= total
  BY <1>1, <1>2, <1>3, <1>4
<1> QED
  BY <1>1, <1>2, <1>5 DEF IsSegment, SegmentStart, SegmentEnd, size, cap

-----------------------------------------------------------------------------
(* The inductive invariant.                                                *)

(* The dispatch thread runs only once start() spawned it.                  *)
Lifecycle == dpc # "unspawned" => spc = "started"

InSegment == {"frame", "pause", "paused", "render", "readback"}
LoopLeft == {"finish", "joinVideo", "joinAudio", "finalise", "report", "exit"}

(* Between two segments the counted frames are those of the segments       *)
(* rendered so far.                                                        *)
AtBoundary ==
    IF seg = 0 THEN framesDone = 0
               ELSE HasSeg(seg - 1) /\ framesDone = SegEnd(seg - 1)

(* Inside a segment the counted frames are those before the pending one.   *)
WithinSegment ==
    /\ HasSeg(seg) /\ frame <= SegEnd(seg)
    /\ pending = NoFrame => frame = framesDone
    /\ pending # NoFrame => pending = framesDone /\ frame = framesDone + 1

(* Where the dispatch thread is decides what it has counted.               *)
Counting ==
    /\ dpc \in {"unspawned", "segment"} => cancel \/ AtBoundary
    /\ dpc \in InSegment => WithinSegment
    /\ dpc = "render" => frame < SegEnd(seg)
    /\ dpc = "segmentDone" => HasSeg(seg) /\ framesDone = SegEnd(seg)
    /\ dpc = "after" => cancel \/ (HasSeg(seg) /\ framesDone = SegEnd(seg))
    /\ dpc \in LoopLeft => cancel \/ renderErr \/ framesDone = TotalFrames

(* What each join and the finalisation have established by then.           *)
Joining ==
    /\ dpc \in {"joinAudio", "finalise", "report", "exit"} => VideoStopped
    /\ dpc \in {"finalise", "report", "exit"} => AudioStopped
    /\ finalised => dpc \in {"report", "exit"}
    /\ dpc \in {"report", "exit"} => trailer # "none"

Reported ==
    /\ dpc # "exit" => terminal = <<>>
    /\ terminal \in {<<"done">>, <<"cancelled">>} => ~FirstError
    /\ terminal = <<"done">> => framesDone = TotalFrames
    /\ terminal = <<"cancelled">> => cancel

(* A clip being mixed is one of the clips, and each is mixed once.         *)
Mixing ==
    /\ amixed <= aclip
    /\ apc = "clip" => aclip < AudioClips

IInv == TypeOK /\ Lifecycle /\ Counting /\ Joining /\ Reported /\ Mixing

-----------------------------------------------------------------------------
(* Lemmas.                                                                 *)

LEMMA SplitTyped ==
    ASSUME NEW S, NEW s \in Seq(S), NEW k \in 0 .. Len(s)
    PROVE  /\ SubSeq(s, 1, k) \in Seq(S)
           /\ SubSeq(s, k + 1, Len(s)) \in Seq(S)
<1>1. \A i \in 1 .. Len(s) : s[i] \in S
  OBVIOUS
<1>2. SubSeq(s, 1, k) \in Seq(S)
  BY <1>1, SubSeqProperties
<1>3. SubSeq(s, k + 1, Len(s)) \in Seq(S)
  BY <1>1, SubSeqProperties
<1> QED
  BY <1>2, <1>3

(* The bounds of the segment the dispatch thread is in.                    *)
LEMMA SegmentBounds ==
    ASSUME ExportAssumption, NEW i \in Nat
    PROVE  /\ HasSeg(0) /\ SegmentStart(TotalFrames, RenderThreads, 0) = 0
           /\ HasSeg(i) => /\ SegmentStart(TotalFrames, RenderThreads, i) \in Frames
                           /\ SegEnd(i) \in 1 .. TotalFrames
                           /\ SegmentStart(TotalFrames, RenderThreads, i) < SegEnd(i)
           /\ HasSeg(i + 1) =>
                  SegEnd(i) = SegmentStart(TotalFrames, RenderThreads, i + 1)
           /\ HasSeg(i) /\ ~HasSeg(i + 1) => SegEnd(i) = TotalFrames
<1>1. TotalFrames \in Nat \ {0} /\ RenderThreads \in Nat \ {0}
  BY DEF ExportAssumption
<1>2. HasSeg(i) => /\ SegmentStart(TotalFrames, RenderThreads, i) \in Frames
                   /\ SegEnd(i) \in 1 .. TotalFrames
                   /\ SegmentStart(TotalFrames, RenderThreads, i) < SegEnd(i)
  BY <1>1, SegmentInRange DEF HasSeg, SegEnd, Frames
<1>3. HasSeg(i + 1) => SegEnd(i) = SegmentStart(TotalFrames, RenderThreads, i + 1)
  BY <1>1, SegmentsContiguous DEF HasSeg, SegEnd
<1>4. HasSeg(i) /\ ~HasSeg(i + 1) => SegEnd(i) = TotalFrames
  BY <1>1, SegmentsCover DEF HasSeg, SegEnd
<1>5. HasSeg(0) /\ SegmentStart(TotalFrames, RenderThreads, 0) = 0
  BY <1>1, FirstSegment DEF HasSeg
<1> QED
  BY <1>2, <1>3, <1>4, <1>5

LEMMA Initially == ASSUME ExportAssumption PROVE Init => IInv
  BY DEF ExportAssumption, Init, IInv, TypeOK, ControlOK, DispatchOK, QueueOK, VideoOK,
         AudioOK, MuxOK, Lifecycle, Counting, AtBoundary, Joining, Reported, Mixing,
         VideoPcs, AudioPcs, DispatchPcs, Pixels, NoFrame, InSegment, LoopLeft
-----------------------------------------------------------------------------
(* Every thread's steps preserve the invariant: first what the thread does *)
(* not touch, then, per action, the parts it can disturb.                  *)

LEMMA StartStep == ASSUME ExportAssumption, IInv, Start PROVE IInv'
<1>1. /\ UNCHANGED <<controlVars, seg, frame, pending, slots, active, framesDone,
                     renderErr, queue, vheld, vout, vthen, vmuxErr, muxVars, terminal>>
      /\ UNCHANGED <<aclip, amixed, aframe, aheld, aout, athen, amuxErr>>
      /\ dpc = "unspawned"
  BY DEF Start, SpawnVideo, SpawnAudio, SpawnDispatch, dispatchVars, videoVars,
         audioVars, IInv, Lifecycle
<1>2. TypeOK'
  BY <1>1 DEF Start, SpawnVideo, SpawnAudio, SpawnDispatch, IInv, TypeOK, ControlOK,
         DispatchOK, QueueOK, VideoOK, AudioOK, MuxOK, controlVars, dispatchVars,
         videoVars, audioVars, muxVars, VideoPcs, AudioPcs, DispatchPcs
<1>3. dpc' \in {"unspawned", "segment"} /\ Lifecycle'
  BY <1>1 DEF Start, SpawnVideo, SpawnAudio, SpawnDispatch, dispatchVars, Lifecycle
<1>4. Counting' /\ Joining' /\ Reported'
  BY <1>1, <1>3 DEF IInv, Counting, AtBoundary, HasSeg, SegEnd, Joining, Reported,
         controlVars, muxVars, InSegment, LoopLeft
<1>5. Mixing'
  BY <1>1 DEF Start, SpawnVideo, SpawnAudio, SpawnDispatch, IInv, Mixing, audioVars
<1> QED
  BY <1>2, <1>3, <1>4, <1>5 DEF IInv

LEMMA UserStep == ASSUME ExportAssumption, IInv, User PROVE IInv'
<1>1. /\ UNCHANGED <<spc, dispatchVars, queue, videoVars, audioVars, muxVars, terminal>>
      /\ cancel' \in BOOLEAN /\ pause' \in BOOLEAN /\ pauses' \in 0 .. MaxPauses
      /\ cancel => cancel'
  <2> USE DEF IInv, TypeOK, ControlOK, ExportAssumption
  <2>1. CASE Cancel
    BY <2>1 DEF Cancel
  <2>2. CASE Pause
    BY <2>2 DEF Pause
  <2>3. CASE Resume
    BY <2>3 DEF Resume
  <2> QED
    BY <2>1, <2>2, <2>3 DEF User
<1>2. TypeOK'
  BY <1>1 DEF IInv, TypeOK, ControlOK, DispatchOK, QueueOK, VideoOK, AudioOK, MuxOK,
         dispatchVars, videoVars, audioVars, muxVars
<1>3. Counting' /\ Reported'
  BY <1>1 DEF IInv, Counting, AtBoundary, WithinSegment, HasSeg, SegEnd, Reported,
         FirstError, dispatchVars, videoVars, audioVars, muxVars
<1>4. Lifecycle' /\ Joining' /\ Mixing'
  BY <1>1 DEF IInv, Lifecycle, Joining, Mixing, VideoStopped, AudioStopped,
         dispatchVars, videoVars, audioVars, muxVars
<1> QED
  BY <1>2, <1>3, <1>4 DEF IInv

LEMMA EncoderStep == ASSUME ExportAssumption, IInv, EncoderThread PROVE IInv'
<1> USE DEF Pops, Emit
<1>1. /\ UNCHANGED <<controlVars, spc, dispatchVars, audioVars, terminal, muxAudio,
                     finalised, trailer>>
      /\ ~VideoStopped
  BY DEF EncoderThread, EncodeFrame, SkipMarker, FlushVideo, WriteVideo, VideoCallDone,
         muxVars, VideoStopped
<1>2. Lifecycle' /\ Counting' /\ Mixing'
  BY <1>1 DEF IInv, Lifecycle, Counting, AtBoundary, WithinSegment, HasSeg, SegEnd,
         Mixing, controlVars, dispatchVars, audioVars
<1>3. Joining' /\ Reported'
  BY <1>1 DEF IInv, Joining, Reported, FirstError, AudioStopped, controlVars,
         dispatchVars, audioVars
<1>4. ControlOK' /\ DispatchOK' /\ AudioOK'
  BY <1>1 DEF IInv, TypeOK, ControlOK, DispatchOK, AudioOK, controlVars, dispatchVars,
         audioVars
<1>5. QueueOK' /\ VideoOK' /\ muxVideo' \in Seq(Pixels)
  <2> USE DEF IInv, TypeOK, QueueOK, VideoOK, MuxOK
  <2>1. CASE EncodeFrame
    <3>1. /\ Head(queue) \in Items
          /\ queue' \in Seq(Items) /\ Len(queue') <= QueueDepth
      BY <2>1, HeadTailProperties DEF EncodeFrame, ExportAssumption
    <3>2. Head(queue).data \in Pixels
      BY <3>1 DEF Items
    <3>3. Append(vheld, Head(queue).data) \in Seq(Pixels)
      BY <3>2
    <3>4. vheld' \in Seq(Pixels) /\ vout' \in Seq(Pixels)
      <4>1. CASE \E k \in 0 .. Len(vheld) + 1 :
                     Emit(Append(vheld, Head(queue).data), k)
        BY <3>3, <4>1, SplitTyped
      <4>2. CASE \E k \in 0 .. Len(vheld) : Emit(vheld, k)
        BY <4>2, SplitTyped
      <4> QED
        BY <2>1, <4>1, <4>2 DEF EncodeFrame
    <3>5. vpc' \in VideoPcs /\ vthen' \in {"pop", "err"} /\ vmuxErr' = vmuxErr
          /\ muxVideo' = muxVideo
      BY <2>1 DEF EncodeFrame, VideoPcs, muxVars
    <3> QED
      BY <3>1, <3>4, <3>5
  <2>2. CASE SkipMarker
    BY <2>2, HeadTailProperties DEF SkipMarker, videoVars, muxVars, ExportAssumption
  <2>3. CASE FlushVideo
    <3>1. queue' \in Seq(Items) /\ Len(queue') <= QueueDepth
      BY <2>3, HeadTailProperties DEF FlushVideo, ExportAssumption
    <3>2. \E k \in 0 .. Len(vheld) : Emit(vheld, k)
      BY <2>3 DEF FlushVideo, Drained
    <3>3. vheld' \in Seq(Pixels) /\ vout' \in Seq(Pixels)
      BY <3>2, SplitTyped
    <3> QED
      BY <2>3, <3>1, <3>2, <3>3 DEF FlushVideo, VideoPcs, muxVars
  <2>4. CASE WriteVideo
    <3>1. vout' \in Seq(Pixels) /\ Head(vout) \in Pixels
      BY <2>4, HeadTailProperties DEF WriteVideo
    <3>2. Append(muxVideo, Head(vout)) \in Seq(Pixels)
      BY <3>1
    <3>3. /\ muxVideo' \in {muxVideo, Append(muxVideo, Head(vout))}
          /\ vmuxErr' \in BOOLEAN
          /\ UNCHANGED <<queue, vpc, vheld, vthen>>
      BY <2>4 DEF WriteVideo
    <3> QED
      BY <3>1, <3>2, <3>3
  <2>5. CASE VideoCallDone
    BY <2>5 DEF VideoCallDone, VideoPcs, muxVars
  <2> QED
    BY <2>1, <2>2, <2>3, <2>4, <2>5 DEF EncoderThread
<1>6. MuxOK'
  BY <1>1, <1>5 DEF IInv, TypeOK, MuxOK
<1> QED
  BY <1>2, <1>3, <1>4, <1>5, <1>6 DEF IInv, TypeOK

LEMMA AudioStep == ASSUME ExportAssumption, IInv, AudioThread PROVE IInv'
<1> USE DEF EmitAudio
<1>1. /\ UNCHANGED <<controlVars, spc, dispatchVars, queue, videoVars, terminal,
                     muxVideo, finalised, trailer>>
      /\ ~AudioStopped
  BY DEF AudioThread, OpenClip, MixClip, MixDone, EncodePcmChunk, StopEncoding,
         EncodeAll, WriteAudio, AudioCallDone, muxVars, AudioStopped
<1>2. Lifecycle' /\ Counting'
  BY <1>1 DEF IInv, Lifecycle, Counting, AtBoundary, WithinSegment, HasSeg, SegEnd,
         controlVars, dispatchVars
<1>3. Joining' /\ Reported'
  BY <1>1 DEF IInv, Joining, Reported, FirstError, VideoStopped, controlVars,
         dispatchVars, videoVars
<1>4. ControlOK' /\ DispatchOK' /\ QueueOK' /\ VideoOK'
  BY <1>1 DEF IInv, TypeOK, ControlOK, DispatchOK, QueueOK, VideoOK, controlVars,
         dispatchVars, videoVars
<1>5. /\ apc' \in AudioPcs /\ athen' \in {"encode", "ok"} /\ amuxErr' \in BOOLEAN
      /\ aclip' \in 0 .. AudioClips /\ amixed' \in 0 .. AudioClips
      /\ aframe' \in 0 .. AudioFrames
      /\ Mixing'
  <2> USE DEF IInv, TypeOK, AudioOK, Mixing, AudioPcs, ExportAssumption
  <2>1. CASE OpenClip
    BY <2>1 DEF OpenClip
  <2>2. CASE MixClip
    BY <2>2 DEF MixClip
  <2>3. CASE MixDone
    BY <2>3 DEF MixDone
  <2>4. CASE EncodePcmChunk
    BY <2>4 DEF EncodePcmChunk
  <2>5. CASE StopEncoding
    BY <2>5 DEF StopEncoding
  <2>6. CASE EncodeAll
    BY <2>6 DEF EncodeAll
  <2>7. CASE WriteAudio
    BY <2>7 DEF WriteAudio
  <2>8. CASE AudioCallDone
    BY <2>8 DEF AudioCallDone
  <2> QED
    BY <2>1, <2>2, <2>3, <2>4, <2>5, <2>6, <2>7, <2>8 DEF AudioThread
<1>6. aheld' \in Seq(Nat) /\ aout' \in Seq(Nat) /\ muxAudio' \in Seq(Nat)
  <2>1. /\ aheld \in Seq(Nat) /\ aout \in Seq(Nat) /\ muxAudio \in Seq(Nat)
        /\ aframe \in Nat
    BY DEF IInv, TypeOK, AudioOK, MuxOK, ExportAssumption
  <2>2. CASE UNCHANGED <<aheld, aout, muxAudio>>
    BY <2>1, <2>2
  <2>3. CASE EncodePcmChunk
    <3>1. PICK k \in 0 .. Len(aheld) + 1 : EmitAudio(Append(aheld, aframe), k)
      BY <2>3 DEF EncodePcmChunk
    <3>2. Append(aheld, aframe) \in Seq(Nat) /\ k \in 0 .. Len(Append(aheld, aframe))
      BY <2>1
    <3> QED
      BY <2>1, <2>3, <3>1, <3>2, SplitTyped DEF EncodePcmChunk, muxVars
  <2>4. CASE EncodeAll
    <3>1. Drained(aheld) \subseteq 0 .. Len(aheld)
      BY <2>1 DEF Drained
    <3>2. PICK k \in 0 .. Len(aheld) : EmitAudio(aheld, k)
      BY <2>4, <3>1 DEF EncodeAll
    <3> QED
      BY <2>1, <2>4, <3>2, SplitTyped DEF EncodeAll, muxVars
  <2>5. CASE WriteAudio
    <3>1. aout' \in Seq(Nat) /\ Head(aout) \in Nat
      BY <2>1, <2>5, HeadTailProperties DEF WriteAudio
    <3>2. Append(muxAudio, Head(aout)) \in Seq(Nat)
      BY <2>1, <3>1
    <3>3. muxAudio' \in {muxAudio, Append(muxAudio, Head(aout))} /\ aheld' = aheld
      BY <2>5 DEF WriteAudio
    <3> QED
      BY <2>1, <3>1, <3>2, <3>3
  <2> QED
    BY <2>2, <2>3, <2>4, <2>5 DEF AudioThread, OpenClip, MixClip, MixDone, StopEncoding,
         AudioCallDone, muxVars
<1>7. AudioOK' /\ MuxOK' /\ Mixing'
  BY <1>1, <1>5, <1>6 DEF IInv, TypeOK, AudioOK, MuxOK
<1> QED
  BY <1>2, <1>3, <1>4, <1>7 DEF IInv, TypeOK

LEMMA DispatchStep == ASSUME ExportAssumption, IInv, Dispatch PROVE IInv'
<1> DEFINE Control == <<controlVars, spc, videoVars, audioVars, muxVideo, muxAudio>>
<1>1. UNCHANGED Control /\ dpc # "unspawned"
  BY DEF Dispatch, BeginSegment, LeaveSegments, CheckCancel, CheckPause, RenderFrame,
         NothingPending, PushPending, NextFrame, RenderFails, PushSegmentDone,
         AfterSegment, Finish, Join, FinaliseSync, Report, muxVars, AfterLoop
<1>2. Lifecycle' /\ ControlOK' /\ VideoOK' /\ AudioOK' /\ Mixing'
  BY <1>1 DEF IInv, TypeOK, Lifecycle, ControlOK, VideoOK, AudioOK, Mixing, controlVars,
         videoVars, audioVars
<1>3. /\ VideoStopped' = VideoStopped
      /\ AudioStopped' = AudioStopped
      /\ cancel' = cancel
  BY <1>1 DEF VideoStopped, AudioStopped, controlVars, videoVars, audioVars
<1> DEFINE Rest == DispatchOK /\ QueueOK /\ MuxOK /\ Counting /\ Joining /\ Reported
<1>4. Rest'
  <2> USE DEF IInv, TypeOK, AfterLoop
  <2>1. ASSUME dpc' \notin {"finalise", "report", "exit"},
               dpc \notin {"joinVideo", "joinAudio", "finalise", "report", "exit"},
               dpc' \notin {"joinAudio"},
               UNCHANGED <<muxVars, terminal>>
        PROVE  MuxOK' /\ Joining' /\ Reported'
    <3>1. terminal = <<>> /\ ~finalised
      BY <2>1 DEF Joining, Reported
    <3>2. /\ terminal' = <<>> /\ ~finalised'
          /\ terminal' \notin {<<"done">>, <<"cancelled">>}
      BY <2>1, <3>1 DEF muxVars
    <3>3. MuxOK'
      BY <2>1 DEF MuxOK, muxVars
    <3>4. Joining'
      BY <2>1, <3>2 DEF Joining
    <3>5. Reported'
      BY <3>2 DEF Reported
    <3> QED
      BY <3>3, <3>4, <3>5
  <2> USE DEF DispatchOK, DispatchPcs, Counting, InSegment, LoopLeft
  <2>2. CASE BeginSegment
    <3>1. AtBoundary
      BY <2>2 DEF BeginSegment
    <3>2. /\ SegmentStart(TotalFrames, RenderThreads, seg) \in Frames
          /\ SegmentStart(TotalFrames, RenderThreads, seg) < SegEnd(seg)
      BY <2>2, SegmentBounds DEF BeginSegment
    <3>3. SegmentStart(TotalFrames, RenderThreads, seg) = framesDone
      <4>1. CASE seg = 0
        BY <3>1, <4>1, SegmentBounds DEF AtBoundary
      <4>2. CASE seg # 0
        <5>1. seg - 1 \in Nat /\ (seg - 1) + 1 = seg
          BY <4>2
        <5> QED
          BY <2>2, <3>1, <4>2, <5>1, SegmentBounds DEF AtBoundary, BeginSegment
      <4> QED
        BY <4>1, <4>2
    <3>4. DispatchOK' /\ QueueOK'
      BY <2>2, <3>2 DEF BeginSegment, QueueOK, Frames, Pixels
    <3>5. SegEnd(seg) \in Int
      BY <2>2, SegmentBounds DEF BeginSegment
    <3>6. WithinSegment'
      BY <2>2, <3>2, <3>3, <3>5 DEF BeginSegment, WithinSegment, HasSeg, SegEnd, Frames
    <3>7. Counting'
      BY <2>2, <3>6 DEF BeginSegment
    <3> QED
      BY <2>1, <2>2, <3>4, <3>7 DEF BeginSegment
  <2>3. CASE LeaveSegments
    <3>1. ~cancel => framesDone = TotalFrames
      <4>1. SUFFICES ASSUME ~cancel PROVE framesDone = TotalFrames
        OBVIOUS
      <4>2. AtBoundary /\ ~HasSeg(seg)
        BY <2>3, <4>1 DEF LeaveSegments
      <4>3. seg # 0
        BY <4>2, SegmentBounds
      <4>4. seg - 1 \in Nat /\ (seg - 1) + 1 = seg
        BY <4>3
      <4> QED
        BY <4>2, <4>3, <4>4, SegmentBounds DEF AtBoundary
    <3>2. DispatchOK' /\ QueueOK' /\ Counting'
      BY <2>3, <3>1, <1>3 DEF LeaveSegments, QueueOK
    <3> QED
      BY <2>1, <2>3, <3>2 DEF LeaveSegments
  <2>4. CASE CheckCancel
    <3>1. DispatchOK' /\ QueueOK' /\ Counting'
      BY <2>4, <1>3 DEF CheckCancel, SeesCancel, QueueOK, WithinSegment, HasSeg, SegEnd
    <3> QED
      BY <2>1, <2>4, <3>1 DEF CheckCancel
  <2>5. CASE CheckPause
    <3>1. dpc' \in {"paused", "render", "readback"}
          /\ (dpc' = "render" => frame < SegEnd(seg))
      <4>1. pause \in BOOLEAN /\ frame \in Int /\ SegEnd(seg) \in Int
        BY <2>5, SegmentBounds DEF CheckPause, ControlOK, WithinSegment
      <4> QED
        BY <2>5, <4>1 DEF CheckPause
    <3>2. DispatchOK' /\ QueueOK' /\ Counting'
      BY <2>5, <3>1 DEF CheckPause, QueueOK, WithinSegment, HasSeg, SegEnd
    <3> QED
      BY <2>1, <2>5, <3>1, <3>2 DEF CheckPause
  <2>6. CASE RenderFrame
    <3>1. frame \in Frames
      BY <2>6, SegmentBounds, ExportAssumption
         DEF RenderFrame, WithinSegment, Frames, ExportAssumption
    <3>2. slots' \in [{0, 1} -> Pixels]
      BY <2>6, <3>1 DEF RenderFrame, Pixels
    <3>3. DispatchOK' /\ QueueOK' /\ Counting'
      BY <2>6, <3>2 DEF RenderFrame, QueueOK, WithinSegment, HasSeg, SegEnd
    <3> QED
      BY <2>1, <2>6, <3>3 DEF RenderFrame
  <2>7. CASE NothingPending
    <3>1. WithinSegment /\ pending = NoFrame /\ frame = framesDone
      BY <2>7 DEF NothingPending, WithinSegment
    <3>2. SegEnd(seg) \in 1 .. TotalFrames
      BY <3>1, SegmentBounds DEF WithinSegment
    <3>3. DispatchOK' /\ QueueOK'
      BY <2>7, <3>1, <3>2, ExportAssumption
         DEF NothingPending, NextFrame, QueueOK, ExportAssumption, Frames, Pixels
    <3>4. Counting'
      BY <2>7, <3>1, <3>2, ExportAssumption
         DEF NothingPending, NextFrame, WithinSegment, HasSeg, SegEnd, NoFrame,
             ExportAssumption
    <3> QED
      BY <2>1, <2>7, <3>3, <3>4 DEF NothingPending, NextFrame
  <2>8. CASE PushPending
    <3>1. /\ WithinSegment /\ pending = framesDone /\ frame = framesDone + 1
          /\ pending \in Frames
      BY <2>8 DEF PushPending, WithinSegment, Pixels
    <3>2. SegEnd(seg) \in 1 .. TotalFrames
      BY <3>1, SegmentBounds DEF WithinSegment
    <3>3. FrameItem(pending, slots[PreviousSlot]) \in Items
      BY <3>1 DEF FrameItem, Items, PreviousSlot, Frames
    <3>4. QueueOK'
      BY <2>8, <3>3, ExportAssumption DEF PushPending, QueueOK, ExportAssumption
    <3>5. DispatchOK'
      BY <2>8, <3>1, <3>2, ExportAssumption
         DEF PushPending, NextFrame, ExportAssumption, Frames, Pixels
    <3>6. Counting'
      BY <2>8, <3>1, <3>2, ExportAssumption
         DEF PushPending, NextFrame, WithinSegment, HasSeg, SegEnd, NoFrame,
             ExportAssumption, Frames
    <3> QED
      BY <2>1, <2>8, <3>4, <3>5, <3>6 DEF PushPending, NextFrame
  <2>9. CASE RenderFails
    <3>1. DispatchOK' /\ QueueOK' /\ Counting'
      BY <2>9 DEF RenderFails, QueueOK
    <3> QED
      BY <2>1, <2>9, <3>1 DEF RenderFails
  <2>10. CASE PushSegmentDone
    <3>1. SegmentDone(framesDone) \in Items
      BY DEF SegmentDone, Items, Pixels
    <3>2. QueueOK'
      BY <2>10, <3>1, ExportAssumption DEF PushSegmentDone, QueueOK, ExportAssumption
    <3>3. DispatchOK' /\ Counting'
      BY <2>10 DEF PushSegmentDone, HasSeg, SegEnd
    <3> QED
      BY <2>1, <2>10, <3>2, <3>3 DEF PushSegmentDone
  <2>11. CASE AfterSegment
    <3>1. DispatchOK' /\ QueueOK'
      BY <2>11 DEF AfterSegment, QueueOK
    <3>2. Counting'
      <4>1. CASE cancel
        BY <2>11, <4>1, <1>3 DEF AfterSegment
      <4>2. CASE ~cancel
        <5>1. seg' = seg + 1 /\ seg' # 0 /\ seg' - 1 = seg /\ dpc' = "segment"
          BY <2>11, <4>2 DEF AfterSegment
        <5>2. AtBoundary'
          BY <2>11, <4>2, <5>1 DEF AfterSegment, AtBoundary, HasSeg, SegEnd
        <5> QED
          BY <5>1, <5>2
      <4> QED
        BY <4>1, <4>2
    <3> QED
      BY <2>1, <2>11, <3>1, <3>2 DEF AfterSegment
  <2>12. CASE Finish
    <3>1. AllDone(framesDone) \in Items
      BY DEF AllDone, Items, Pixels
    <3>2. QueueOK'
      BY <2>12, <3>1, ExportAssumption DEF Finish, QueueOK, ExportAssumption
    <3>3. DispatchOK' /\ Counting'
      BY <2>12, <1>3 DEF Finish
    <3> QED
      BY <2>1, <2>12, <3>2, <3>3 DEF Finish
  <2>13. CASE Join
    <3>1. DispatchOK' /\ QueueOK' /\ MuxOK' /\ Counting'
      BY <2>13, <1>3 DEF Join, QueueOK, MuxOK, muxVars
    <3>2. Joining' /\ Reported'
      BY <2>13, <1>3 DEF Join, Joining, Reported, muxVars
    <3> QED
      BY <3>1, <3>2
  <2>14. CASE FinaliseSync
    <3>1. DispatchOK' /\ QueueOK' /\ MuxOK' /\ Counting'
      BY <2>14, <1>3 DEF FinaliseSync, QueueOK, MuxOK
    <3>2. Joining' /\ Reported'
      BY <2>14, <1>3 DEF FinaliseSync, Joining, Reported
    <3> QED
      BY <3>1, <3>2
  <2>15. CASE Report
    <3>1. /\ terminal = <<>>
          /\ FirstError' = FirstError
          /\ UNCHANGED <<framesDone, renderErr>>
      BY <1>1, <2>15 DEF Report, Reported, FirstError, muxVars, videoVars, audioVars
    <3>2. /\ terminal' \in {<<"done">>, <<"cancelled">>, <<"failed">>}
          /\ terminal' \in {<<"done">>, <<"cancelled">>} => ~FirstError
          /\ terminal' = <<"done">> => ~cancel
          /\ terminal' = <<"cancelled">> => cancel
      <4>1. FirstError \in BOOLEAN /\ cancel \in BOOLEAN
        BY DEF FirstError, ControlOK
      <4> QED
        BY <2>15, <3>1, <4>1 DEF Report
    <3>3. DispatchOK' /\ QueueOK' /\ MuxOK' /\ Counting'
      BY <2>15, <3>2, <1>3 DEF Report, QueueOK, MuxOK, muxVars
    <3>4. Joining'
      BY <2>15, <1>3 DEF Report, Joining, muxVars
    <3>5. Reported'
      BY <2>15, <3>1, <3>2, <1>3 DEF Report, Reported, FirstError
    <3> QED
      BY <3>3, <3>4, <3>5
  <2> QED
    BY <2>2, <2>3, <2>4, <2>5, <2>6, <2>7, <2>8, <2>9, <2>10, <2>11, <2>12, <2>13,
       <2>14, <2>15 DEF Dispatch
<1> QED
  BY <1>2, <1>4 DEF IInv, TypeOK

LEMMA Stutter == ASSUME IInv, UNCHANGED vars PROVE IInv'
<1>1. TypeOK'
  BY DEF IInv, TypeOK, ControlOK, DispatchOK, QueueOK, VideoOK, AudioOK, MuxOK, vars,
         controlVars, dispatchVars, videoVars, audioVars, muxVars
<1>2. Lifecycle' /\ Counting' /\ Joining' /\ Reported' /\ Mixing'
  BY DEF IInv, Lifecycle, Counting, AtBoundary, WithinSegment, HasSeg, SegEnd, Joining,
         Reported, FirstError, VideoStopped, AudioStopped, Mixing, vars, controlVars,
         dispatchVars, videoVars, audioVars, muxVars
<1> QED
  BY <1>1, <1>2 DEF IInv

-----------------------------------------------------------------------------
(* Theorems.                                                               *)

(* The inductive invariant holds in every reachable state of an export.    *)
THEOREM Invariance == Spec => []IInv
<1>1. Init => IInv
  BY Initially, ExportAssumption
<1>2. IInv /\ [Next]_vars => IInv'
  BY StartStep, UserStep, DispatchStep, EncoderStep, AudioStep, Stutter,
     ExportAssumption DEF Next
<1> QED
  BY <1>1, <1>2, PTL DEF Spec

(* Every variable stays in its domain: frame indices inside the export's   *)
(* range, the encoder queue within its depth, one terminal phase at most.  *)
THEOREM TypeCorrect == Spec => []TypeOK
<1>1. IInv => TypeOK
  BY DEF IInv
<1> QED
  BY <1>1, Invariance, PTL

(* The muxer is finalised only when both workers have returned, whatever   *)
(* failed and whenever the user cancelled.                                 *)
THEOREM FinaliseIsLast == Spec => []FinaliseAfterProducers
<1>1. IInv => FinaliseAfterProducers
  BY DEF IInv, Joining, FinaliseAfterProducers, VideoStopped, AudioStopped
<1> QED
  BY <1>1, Invariance, PTL

(* No failure of rendering, of a worker or of the trailer is reported as   *)
(* "done" or "cancelled", and only a cancelled export as "cancelled".      *)
THEOREM TerminalIsTruthful == Spec => []TruthfulTerminal
<1>1. IInv => TruthfulTerminal
  <2>1. SUFFICES ASSUME IInv PROVE TruthfulTerminal
    OBVIOUS
  <2>2. terminal # <<>> => dpc = "exit" /\ Len(terminal) = 1
    BY <2>1 DEF IInv, TypeOK, MuxOK, Reported
  <2>3. ASSUME terminal \in {<<"done">>, <<"cancelled">>}
        PROVE  ~renderErr /\ vpc = "ok" /\ apc = "ok" /\ trailer = "written"
    <3>1. terminal # <<>>
      BY <2>3
    <3>2. VideoStopped /\ AudioStopped /\ trailer \in {"written", "failed"}
      BY <2>1, <2>2, <3>1 DEF IInv, TypeOK, MuxOK, Joining
    <3>3. ~FirstError
      BY <2>1, <2>3 DEF IInv, Reported
    <3> QED
      BY <3>2, <3>3 DEF FirstError, VideoStopped, AudioStopped
  <2>4. terminal = <<"cancelled">> => cancel
    BY <2>1 DEF IInv, Reported
  <2> QED
    BY <2>2, <2>3, <2>4 DEF TruthfulTerminal
<1> QED
  BY <1>1, Invariance, PTL

(* "done" is reported only after every frame of the job was handed to the  *)
(* encoder: for every number of frames and of render threads the segments  *)
(* cover the export and none is skipped or rendered twice.                 *)
THEOREM DoneCounts == Spec => []DoneCountsEveryFrame
<1>1. IInv => DoneCountsEveryFrame
  BY DEF IInv, Reported, DoneCountsEveryFrame
<1> QED
  BY <1>1, Invariance, PTL

-----------------------------------------------------------------------------
(* Sequences that count.                                                   *)

(* s holds the numbers from n on, in order.                                *)
Counts(s, n) == \A i \in 1 .. Len(s) : s[i] = n + i - 1

LEMMA CountsTail ==
    ASSUME NEW s \in Seq(Int), NEW n \in Int, Counts(s, n), s # <<>>
    PROVE  /\ Head(s) = n /\ Tail(s) \in Seq(Int) /\ Len(Tail(s)) = Len(s) - 1
           /\ Len(s) > 0 /\ Counts(Tail(s), n + 1)
<1>1. Len(s) \in Nat /\ Len(s) > 0
  BY EmptySeq, LenProperties
<1>2. /\ Head(s) = s[1] /\ Tail(s) \in Seq(Int) /\ Len(Tail(s)) = Len(s) - 1
      /\ \A i \in 1 .. Len(s) - 1 : Tail(s)[i] = s[i + 1]
  BY <1>1, HeadTailProperties
<1>3. Head(s) = n
  BY <1>1, <1>2 DEF Counts
<1>4. Counts(Tail(s), n + 1)
  BY <1>1, <1>2 DEF Counts
<1> QED
  BY <1>1, <1>2, <1>3, <1>4

LEMMA CountsAppend ==
    ASSUME NEW s \in Seq(Int), NEW n \in Int, Counts(s, n)
    PROVE  /\ Append(s, n + Len(s)) \in Seq(Int)
           /\ Len(Append(s, n + Len(s))) = Len(s) + 1
           /\ Counts(Append(s, n + Len(s)), n)
<1> DEFINE e == n + Len(s)
<1>1. Len(s) \in Nat /\ e \in Int
  BY LenProperties
<1>2. /\ Append(s, e) \in Seq(Int) /\ Len(Append(s, e)) = Len(s) + 1
      /\ \A i \in 1 .. Len(s) : Append(s, e)[i] = s[i]
      /\ Append(s, e)[Len(s) + 1] = e
  BY <1>1, AppendProperties
<1>3. ASSUME NEW i \in 1 .. Len(s) + 1  PROVE Append(s, e)[i] = n + i - 1
  <2>1. CASE i = Len(s) + 1
    BY <1>1, <1>2, <2>1
  <2>2. CASE i \in 1 .. Len(s)
    BY <1>2, <2>2 DEF Counts
  <2> QED
    BY <1>1, <2>1, <2>2
<1> QED
  BY <1>2, <1>3 DEF Counts

LEMMA CountsSplit ==
    ASSUME NEW s \in Seq(Int), NEW n \in Int, Counts(s, n), NEW k \in 0 .. Len(s)
    PROVE  /\ SubSeq(s, 1, k) \in Seq(Int) /\ Len(SubSeq(s, 1, k)) = k
           /\ SubSeq(s, k + 1, Len(s)) \in Seq(Int) /\ Len(SubSeq(s, k + 1, Len(s))) = Len(s) - k
           /\ Counts(SubSeq(s, 1, k), n) /\ Counts(SubSeq(s, k + 1, Len(s)), n + k)
<1>1. Len(s) \in Nat /\ \A i \in 1 .. Len(s) : s[i] \in Int
  BY LenProperties, ElementOfSeq
<1>2. /\ SubSeq(s, 1, k) \in Seq(Int) /\ Len(SubSeq(s, 1, k)) = k
      /\ \A i \in 1 .. k : SubSeq(s, 1, k)[i] = s[i]
  <2>1. \A i \in 1 .. k : s[i] \in Int
    BY <1>1
  <2>2. /\ SubSeq(s, 1, k) \in Seq(Int)
        /\ Len(SubSeq(s, 1, k)) = IF 1 <= k THEN k - 1 + 1 ELSE 0
        /\ \A i \in 1 .. k - 1 + 1 : SubSeq(s, 1, k)[i] = s[1 + i - 1]
    BY <2>1, SubSeqProperties
  <2> QED
    BY <2>2
<1>3. /\ SubSeq(s, k + 1, Len(s)) \in Seq(Int) /\ Len(SubSeq(s, k + 1, Len(s))) = Len(s) - k
      /\ \A i \in 1 .. Len(s) - k : SubSeq(s, k + 1, Len(s))[i] = s[k + i]
  <2>1. k + 1 \in Int /\ \A i \in k + 1 .. Len(s) : s[i] \in Int
    BY <1>1
  <2>2. /\ SubSeq(s, k + 1, Len(s)) \in Seq(Int)
        /\ Len(SubSeq(s, k + 1, Len(s))) =
              IF k + 1 <= Len(s) THEN Len(s) - (k + 1) + 1 ELSE 0
        /\ \A i \in 1 .. Len(s) - (k + 1) + 1 :
              SubSeq(s, k + 1, Len(s))[i] = s[(k + 1) + i - 1]
    BY <1>1, <2>1, SubSeqProperties
  <2> QED
    BY <1>1, <2>2
<1>4. Counts(SubSeq(s, 1, k), n)
  BY <1>1, <1>2 DEF Counts
<1>5. Counts(SubSeq(s, k + 1, Len(s)), n + k)
  <2>1. ASSUME NEW i \in 1 .. Len(s) - k
        PROVE  SubSeq(s, k + 1, Len(s))[i] = (n + k) + i - 1
    <3>1. k + i \in 1 .. Len(s)
      BY <1>1
    <3>2. s[k + i] = n + (k + i) - 1
      BY <3>1 DEF Counts
    <3> QED
      BY <1>1, <1>3, <3>2
  <2> QED
    BY <1>3, <2>1 DEF Counts
<1> QED
  BY <1>2, <1>3, <1>4, <1>5

LEMMA CountsConcat ==
    ASSUME NEW s \in Seq(Int), NEW t \in Seq(Int), Counts(s, 0), Counts(t, Len(s))
    PROVE  /\ s \o t \in Seq(Int) /\ Len(s \o t) = Len(s) + Len(t) /\ Counts(s \o t, 0)
<1>1. Len(s) \in Nat /\ Len(t) \in Nat
  BY LenProperties
<1>2. /\ s \o t \in Seq(Int) /\ Len(s \o t) = Len(s) + Len(t)
      /\ \A i \in 1 .. Len(s) + Len(t) :
            (s \o t)[i] = IF i <= Len(s) THEN s[i] ELSE t[i - Len(s)]
  BY ConcatProperties
<1>3. ASSUME NEW i \in 1 .. Len(s) + Len(t)  PROVE (s \o t)[i] = 0 + i - 1
  <2>1. CASE i <= Len(s)
    BY <1>1, <1>2, <1>3, <2>1 DEF Counts
  <2>2. CASE i > Len(s)
    <3>1. i - Len(s) \in 1 .. Len(t) /\ (s \o t)[i] = t[i - Len(s)]
      BY <1>1, <1>2, <1>3, <2>2
    <3>2. t[i - Len(s)] = Len(s) + (i - Len(s)) - 1
      BY <3>1 DEF Counts
    <3> QED
      BY <1>1, <1>3, <3>1, <3>2
  <2> QED
    BY <1>1, <1>3, <2>1, <2>2
<1> QED
  BY <1>2, <1>3 DEF Counts

LEMMA CountsFirst ==
    ASSUME NEW s \in Seq(Int), Counts(s, 0)
    PROVE  s = FirstFrames(Len(s))
<1>1. Len(s) \in Nat
  BY LenProperties
<1>2. /\ FirstFrames(Len(s)) \in Seq(Int) /\ Len(FirstFrames(Len(s))) = Len(s)
      /\ \A i \in 1 .. Len(s) : FirstFrames(Len(s))[i] = i - 1
  BY <1>1 DEF FirstFrames
<1>3. \A i \in 1 .. Len(s) : s[i] = i - 1
  BY DEF Counts
<1> HIDE DEF FirstFrames
<1> QED
  BY <1>2, <1>3, SeqEqual

-----------------------------------------------------------------------------
(* The frames in a queue of frames and markers.                            *)

FramesOf(q) == {i \in 1 .. Len(q) : q[i].kind = "frame"}
DataOf(q) == {q[i].data : i \in FramesOf(q)}
Rising(q) == \A i, j \in FramesOf(q) : i < j => q[i].data < q[j].data

LEMMA TailOf ==
    ASSUME NEW q \in Seq(Items), q # <<>>
    PROVE  /\ Len(q) \in Nat /\ Len(q) > 0 /\ Head(q) = q[1]
           /\ Tail(q) \in Seq(Items) /\ Len(Tail(q)) = Len(q) - 1
           /\ \A i \in 1 .. Len(q) - 1 : Tail(q)[i] = q[i + 1]
           /\ \A i \in 1 .. Len(q) : q[i] \in Items /\ q[i].data \in Int
<1>1. Len(q) \in Nat /\ Len(q) > 0
  BY EmptySeq, LenProperties
<1>2. \A i \in 1 .. Len(q) : q[i] \in Items
  BY ElementOfSeq
<1>3. \A i \in 1 .. Len(q) : q[i].data \in Int
  BY <1>2 DEF Items, Pixels, Frames, NoFrame
<1> QED
  BY <1>1, <1>2, <1>3, HeadTailProperties

(* Popping the oldest frame takes the smallest number away ...             *)
LEMMA PopFrame ==
    ASSUME NEW q \in Seq(Items), NEW c \in Int, NEW d \in Int, q # <<>>,
           Head(q).kind = "frame", DataOf(q) = c .. d, Rising(q)
    PROVE  Head(q).data = c /\ DataOf(Tail(q)) = c + 1 .. d /\ Rising(Tail(q))
<1>1. /\ Len(q) \in Nat /\ Len(q) > 0 /\ Head(q) = q[1]
      /\ Len(Tail(q)) = Len(q) - 1
      /\ \A i \in 1 .. Len(q) - 1 : Tail(q)[i] = q[i + 1]
      /\ \A i \in 1 .. Len(q) : q[i].data \in Int
  BY TailOf
<1>2. 1 \in FramesOf(q) /\ \A i \in FramesOf(q) : i \in 1 .. Len(q) /\ q[i].data \in c .. d
  BY <1>1 DEF FramesOf, DataOf
<1>3. q[1].data \in c .. d /\ c \in c .. d
  BY <1>2
<1>4. PICK m \in FramesOf(q) : q[m].data = c
  BY <1>3 DEF DataOf
<1>5. q[1].data = c
  <2>1. SUFFICES ASSUME q[1].data # c  PROVE FALSE
    OBVIOUS
  <2>2. 1 < m
    BY <1>1, <1>2, <1>4, <2>1
  <2>3. q[1].data < q[m].data
    BY <1>2, <1>4, <2>2 DEF Rising
  <2> QED
    BY <1>3, <1>4, <2>3
<1>6. \A i : i \in FramesOf(Tail(q)) <=> i \in 1 .. Len(q) - 1 /\ i + 1 \in FramesOf(q)
  BY <1>1 DEF FramesOf
<1>7. \A i \in FramesOf(Tail(q)) : i \in Nat /\ i + 1 \in FramesOf(q) /\ Tail(q)[i] = q[i + 1]
  BY <1>1, <1>6
<1>8. Rising(Tail(q))
  <2>1. SUFFICES ASSUME NEW i \in FramesOf(Tail(q)), NEW j \in FramesOf(Tail(q)), i < j
                 PROVE  Tail(q)[i].data < Tail(q)[j].data
    BY DEF Rising
  <2>2. i + 1 < j + 1 /\ i + 1 \in FramesOf(q) /\ j + 1 \in FramesOf(q)
    BY <1>7, <2>1
  <2> QED
    BY <1>7, <2>2 DEF Rising
<1>9. DataOf(Tail(q)) \subseteq c + 1 .. d
  <2>1. SUFFICES ASSUME NEW i \in FramesOf(Tail(q))  PROVE Tail(q)[i].data \in c + 1 .. d
    BY DEF DataOf
  <2>2. i + 1 \in FramesOf(q) /\ 1 < i + 1 /\ Tail(q)[i] = q[i + 1]
    BY <1>1, <1>6, <1>7
  <2>3. q[1].data < q[i + 1].data /\ q[i + 1].data \in c .. d
    BY <1>2, <2>2 DEF Rising
  <2> DEFINE e == q[i + 1].data
  <2>4. e \in c .. d /\ c < e /\ Tail(q)[i].data = e
    BY <1>5, <2>2, <2>3
  <2> HIDE DEF e
  <2>5. e \in c + 1 .. d
    BY <2>4
  <2> QED
    BY <2>4, <2>5
<1>10. c + 1 .. d \subseteq DataOf(Tail(q))
  <2>1. SUFFICES ASSUME NEW n \in c + 1 .. d  PROVE n \in DataOf(Tail(q))
    OBVIOUS
  <2>2. n \in DataOf(q) /\ n # c
    OBVIOUS
  <2>3. PICK i \in FramesOf(q) : q[i].data = n
    BY <2>2 DEF DataOf
  <2>4. i # 1 /\ i \in 1 .. Len(q)
    BY <1>2, <1>5, <2>2, <2>3
  <2>5. i - 1 \in 1 .. Len(q) - 1 /\ (i - 1) + 1 = i
    BY <1>1, <2>4
  <2>6. i - 1 \in FramesOf(Tail(q)) /\ Tail(q)[i - 1] = q[i]
    BY <1>1, <1>6, <2>3, <2>5
  <2> QED
    BY <2>3, <2>6 DEF DataOf
<1> QED
  BY <1>1, <1>5, <1>8, <1>9, <1>10

(* ... and popping a marker takes nothing.                                 *)
LEMMA PopMarker ==
    ASSUME NEW q \in Seq(Items), q # <<>>, Head(q).kind # "frame", Rising(q)
    PROVE  DataOf(Tail(q)) = DataOf(q) /\ Rising(Tail(q))
<1>1. /\ Len(q) \in Nat /\ Len(q) > 0 /\ Head(q) = q[1]
      /\ Len(Tail(q)) = Len(q) - 1
      /\ \A i \in 1 .. Len(q) - 1 : Tail(q)[i] = q[i + 1]
  BY TailOf
<1>2. \A i : i \in FramesOf(Tail(q)) <=> i \in 1 .. Len(q) - 1 /\ i + 1 \in FramesOf(q)
  BY <1>1 DEF FramesOf
<1>3. \A i \in FramesOf(Tail(q)) : i \in Nat /\ i + 1 \in FramesOf(q) /\ Tail(q)[i] = q[i + 1]
  BY <1>1, <1>2
<1>4. Rising(Tail(q))
  <2>1. SUFFICES ASSUME NEW i \in FramesOf(Tail(q)), NEW j \in FramesOf(Tail(q)), i < j
                 PROVE  Tail(q)[i].data < Tail(q)[j].data
    BY DEF Rising
  <2>2. i + 1 < j + 1 /\ i + 1 \in FramesOf(q) /\ j + 1 \in FramesOf(q)
    BY <1>3, <2>1
  <2> QED
    BY <1>3, <2>2 DEF Rising
<1>5. DataOf(Tail(q)) \subseteq DataOf(q)
  BY <1>3 DEF DataOf
<1>6. DataOf(q) \subseteq DataOf(Tail(q))
  <2>1. SUFFICES ASSUME NEW i \in FramesOf(q)  PROVE q[i].data \in DataOf(Tail(q))
    BY DEF DataOf
  <2>2. i \in 1 .. Len(q) /\ i # 1
    BY <1>1 DEF FramesOf
  <2>3. i - 1 \in 1 .. Len(q) - 1 /\ (i - 1) + 1 = i
    BY <1>1, <2>2
  <2>4. i - 1 \in FramesOf(Tail(q)) /\ Tail(q)[i - 1] = q[i]
    BY <1>1, <1>2, <2>3
  <2> QED
    BY <2>4 DEF DataOf
<1> QED
  BY <1>4, <1>5, <1>6

(* Pushing the next frame adds the next number.                            *)
LEMMA PushFrame ==
    ASSUME NEW q \in Seq(Items), NEW c \in Int, NEW d \in Int, NEW item \in Items, c <= d,
           item.kind = "frame", item.data = d, DataOf(q) = c .. d - 1, Rising(q)
    PROVE  DataOf(Append(q, item)) = c .. d /\ Rising(Append(q, item))
<1> DEFINE p == Append(q, item)
<1>1. /\ Len(q) \in Nat /\ Len(p) = Len(q) + 1
      /\ \A i \in 1 .. Len(q) : p[i] = q[i]
      /\ p[Len(q) + 1] = item
  BY AppendProperties, LenProperties
<1> HIDE DEF p
<1>2. \A i : i \in FramesOf(p) <=> i \in FramesOf(q) \/ i = Len(q) + 1
  BY <1>1 DEF FramesOf
<1>3. \A i \in FramesOf(q) : i \in 1 .. Len(q) /\ p[i] = q[i] /\ q[i].data \in c .. d - 1
  BY <1>1 DEF FramesOf, DataOf
<1>4. Rising(p)
  <2>1. SUFFICES ASSUME NEW i \in FramesOf(p), NEW j \in FramesOf(p), i < j
                 PROVE  p[i].data < p[j].data
    BY DEF Rising
  <2>2. i \in FramesOf(q)
    BY <1>1, <1>2, <1>3, <2>1
  <2>3. CASE j \in FramesOf(q)
    BY <1>3, <2>1, <2>2, <2>3 DEF Rising
  <2>4. CASE j = Len(q) + 1
    <3> DEFINE e == q[i].data
    <3>1. e \in c .. d - 1 /\ p[i].data = e /\ p[j].data = d
      BY <1>1, <1>3, <2>2, <2>4
    <3> HIDE DEF e
    <3>2. e < d
      BY <3>1
    <3> QED
      BY <3>1, <3>2
  <2> QED
    BY <1>2, <2>3, <2>4
<1>5. DataOf(p) = DataOf(q) \cup {d}
  BY <1>1, <1>2, <1>3 DEF DataOf
<1> QED
  BY <1>4, <1>5 DEF p

LEMMA PushMarker ==
    ASSUME NEW q \in Seq(Items), NEW item \in Items, item.kind # "frame", Rising(q)
    PROVE  DataOf(Append(q, item)) = DataOf(q) /\ Rising(Append(q, item))
<1> DEFINE p == Append(q, item)
<1>1. /\ Len(q) \in Nat /\ Len(p) = Len(q) + 1
      /\ \A i \in 1 .. Len(q) : p[i] = q[i]
      /\ p[Len(q) + 1] = item
  BY AppendProperties, LenProperties
<1> HIDE DEF p
<1>2. FramesOf(p) = FramesOf(q)
  BY <1>1 DEF FramesOf
<1>3. \A i \in FramesOf(q) : p[i] = q[i]
  BY <1>1 DEF FramesOf
<1>4. DataOf(p) = DataOf(q)
  BY <1>2, <1>3 DEF DataOf
<1>5. Rising(p)
  BY <1>2, <1>3 DEF Rising
<1> QED
  BY <1>4, <1>5 DEF p
-----------------------------------------------------------------------------
(* What is in flight between the threads. Three more invariants, on top of *)
(* IInv: where the workers stand, what the audio worker has done, and      *)
(* (when no render leaves its readback slot stale) which frames are where. *)

(* A thread that start() has not reached yet has done nothing.             *)
Spawned ==
    /\ spc = "spawnVideo" => vpc = "unspawned"
    /\ spc \in {"spawnVideo", "spawnAudio"} => apc = "unspawned"

(* Between two calls of the codec no packet is waiting to be written.      *)
VideoRests ==
    /\ vpc \in {"unspawned", "pop"} => vthen = "pop" /\ Len(vout) = 0 /\ ~vmuxErr
    /\ vpc = "ok" => vthen = "ok" /\ Len(vout) = 0 /\ ~vmuxErr

AfterFinish == {"joinVideo", "joinAudio", "finalise", "report", "exit"}

(* The marker of the end is the last item ever pushed; once it is popped   *)
(* the queue is empty and, unless a drain failed, the codec too.           *)
Markers ==
    /\ \A i \in 1 .. Len(queue) :
           queue[i].kind = "allDone" => i = Len(queue) /\ dpc \in AfterFinish
    /\ vthen = "ok" => /\ Len(queue) = 0 /\ dpc \in AfterFinish
                       /\ vpc \in {"write", "ok", "err"}
                       /\ "drain" \notin Faults => Len(vheld) = 0

Sealed == dpc \in {"report", "exit"} => finalised

(* Only a cancellation leaves a clip unmixed or partly mixed.              *)
Mixed ==
    /\ ~cancel => amixed = aclip
    /\ ~cancel /\ apc \in {"encode", "write", "ok"} => aclip = AudioClips

(* As long as no audio packet was refused, the file, the packets being     *)
(* written and the codec hold the frames encoded so far, in order.         *)
AudioInOrder ==
    /\ Counts(muxAudio, 0)
    /\ ~amuxErr => /\ Counts(aout, Len(muxAudio))
                   /\ Counts(aheld, Len(muxAudio) + Len(aout))
                   /\ Len(muxAudio) + Len(aout) + Len(aheld) = aframe

AudioRests ==
    /\ apc # "write" => Len(aout) = 0
    /\ athen = "ok" => /\ aframe = AudioFrames /\ apc \in {"write", "ok", "err"}
                       /\ "drain" \notin Faults => Len(aheld) = 0
    /\ apc = "ok" /\ ~cancel => athen = "ok" /\ ~amuxErr

DoneMixedAll == terminal = <<"done">> => amixed = AudioClips

VideoInv == Spawned /\ VideoRests /\ Markers /\ Sealed
AudioInv == Spawned /\ Mixed /\ AudioInOrder /\ AudioRests /\ DoneMixedAll

(* The readback slot that is not being rendered into holds the pending     *)
(* frame, and the other one the frame just rendered.                       *)
ReadbackRight ==
    /\ dpc \in InSegment /\ pending # NoFrame => slots[1 - active] = pending
    /\ dpc = "readback" /\ frame < SegEnd(seg) => slots[active] = frame

(* How many frames the codec has been fed, as long as no packet is lost.   *)
Coded == Len(muxVideo) + Len(vout) + Len(vheld)

(* The frames are, oldest first, in the file, in the packets being written,*)
(* in the codec and in the queue.                                          *)
InFlight ==
    /\ Counts(muxVideo, 0)
    /\ ~vmuxErr => /\ Counts(vout, Len(muxVideo))
                   /\ Counts(vheld, Len(muxVideo) + Len(vout))
                   /\ Coded <= framesDone
    /\ vpc # "err" /\ vthen # "err" /\ ~vmuxErr =>
           DataOf(queue) = Coded .. framesDone - 1 /\ Rising(queue)

FrameInv == VideoInv /\ ReadbackRight /\ InFlight

LEMMA TypedLengths ==
    ASSUME ExportAssumption, IInv
    PROVE  /\ muxVideo \in Seq(Int) /\ vout \in Seq(Int) /\ vheld \in Seq(Int)
           /\ muxAudio \in Seq(Int) /\ aout \in Seq(Int) /\ aheld \in Seq(Int)
           /\ Len(muxVideo) \in Nat /\ Len(vout) \in Nat /\ Len(vheld) \in Nat
           /\ Len(muxAudio) \in Nat /\ Len(aout) \in Nat /\ Len(aheld) \in Nat
           /\ queue \in Seq(Items) /\ Len(queue) \in Nat
           /\ Coded \in Nat /\ framesDone \in 0 .. TotalFrames
           /\ aframe \in 0 .. AudioFrames /\ TotalFrames \in Nat /\ AudioFrames \in Nat
           /\ cancel \in BOOLEAN /\ vmuxErr \in BOOLEAN /\ amuxErr \in BOOLEAN
           /\ finalised \in BOOLEAN
<1>1. Pixels \subseteq Int /\ Nat \subseteq Int /\ TotalFrames \in Nat /\ AudioFrames \in Nat
  BY DEF Pixels, Frames, NoFrame, ExportAssumption
<1>2. /\ muxVideo \in Seq(Pixels) /\ vout \in Seq(Pixels) /\ vheld \in Seq(Pixels)
      /\ muxAudio \in Seq(Nat) /\ aout \in Seq(Nat) /\ aheld \in Seq(Nat)
      /\ queue \in Seq(Items)
  BY DEF IInv, TypeOK, VideoOK, AudioOK, MuxOK, QueueOK
<1>3. /\ muxVideo \in Seq(Int) /\ vout \in Seq(Int) /\ vheld \in Seq(Int)
      /\ muxAudio \in Seq(Int) /\ aout \in Seq(Int) /\ aheld \in Seq(Int)
  BY <1>1, <1>2, SeqMonotonic
<1>4. /\ Len(muxVideo) \in Nat /\ Len(vout) \in Nat /\ Len(vheld) \in Nat
      /\ Len(muxAudio) \in Nat /\ Len(aout) \in Nat /\ Len(aheld) \in Nat
      /\ Len(queue) \in Nat
  BY <1>2, LenProperties
<1>5. /\ framesDone \in 0 .. TotalFrames /\ aframe \in 0 .. AudioFrames
      /\ cancel \in BOOLEAN /\ vmuxErr \in BOOLEAN /\ amuxErr \in BOOLEAN
      /\ finalised \in BOOLEAN
  BY DEF IInv, TypeOK, DispatchOK, AudioOK, VideoOK, ControlOK, MuxOK
<1>6. Coded \in Nat
  BY <1>4 DEF Coded
<1> QED
  BY <1>1, <1>2, <1>3, <1>4, <1>5, <1>6

LEMMA InFlightInitially ==
    ASSUME ExportAssumption, Init
    PROVE  VideoInv /\ AudioInv /\ FrameInv
<1>1. /\ Len(muxVideo) = 0 /\ Len(vout) = 0 /\ Len(vheld) = 0 /\ Len(queue) = 0
      /\ Len(muxAudio) = 0 /\ Len(aout) = 0 /\ Len(aheld) = 0
  BY DEF Init
<1>2. VideoInv
  BY <1>1 DEF Init, VideoInv, Spawned, VideoRests, Markers, Sealed
<1>3. AudioInv
  <2>1. Spawned /\ Mixed /\ AudioRests /\ DoneMixedAll
    BY <1>1 DEF Init, Spawned, Mixed, AudioRests, DoneMixedAll
  <2>2. AudioInOrder
    BY <1>1 DEF Init, AudioInOrder, Counts
  <2> QED
    BY <2>1, <2>2 DEF AudioInv
<1>4. ReadbackRight
  BY DEF Init, ReadbackRight, InSegment
<1>5. InFlight
  <2>1. Coded = 0 /\ framesDone = 0 /\ 0 .. framesDone - 1 = {}
    BY <1>1 DEF Init, Coded
  <2>2. FramesOf(queue) = {}
    BY <1>1 DEF FramesOf
  <2>3. DataOf(queue) = {} /\ Rising(queue)
    BY <2>2 DEF DataOf, Rising
  <2> QED
    BY <1>1, <2>1, <2>3 DEF InFlight, Counts
<1> QED
  BY <1>2, <1>3, <1>4, <1>5 DEF FrameInv
-----------------------------------------------------------------------------
(* The audio worker.                                                       *)

(* A call of the codec hands out a prefix of the frames it counted.        *)
LEMMA AudioEmits ==
    ASSUME ExportAssumption, IInv, AudioInOrder, Len(aout) = 0, NEW all \in Seq(Int),
           NEW k \in 0 .. Len(all), EmitAudio(all, k), ~amuxErr => Counts(all, Len(muxAudio)),
           UNCHANGED <<muxAudio, amuxErr>>
    PROVE  /\ Counts(muxAudio', 0)
           /\ Len(aheld') = Len(all) - k /\ Len(all) \in Nat
           /\ ~amuxErr' => /\ Counts(aout', Len(muxAudio'))
                           /\ Counts(aheld', Len(muxAudio') + Len(aout'))
                           /\ Len(muxAudio') + Len(aout') + Len(aheld')
                                 = Len(muxAudio) + Len(all)
<1>1. Len(muxAudio) \in Nat /\ Len(muxAudio) \in Int /\ Len(all) \in Nat
  BY TypedLengths, LenProperties
<1>2. aout' = SubSeq(all, 1, k) /\ aheld' = SubSeq(all, k + 1, Len(all))
  BY DEF EmitAudio
<1>3. Len(aheld') = Len(all) - k /\ Len(aout') = k
  <2>2. \A i \in 1 .. Len(all) : all[i] \in Int
    BY ElementOfSeq
  <2>3. Len(SubSeq(all, 1, k)) = IF 1 <= k THEN k - 1 + 1 ELSE 0
    <3>1. \A i \in 1 .. k : all[i] \in Int
      BY <1>1, <2>2
    <3> QED
      BY <3>1, SubSeqProperties
  <2>4. Len(SubSeq(all, k + 1, Len(all))) =
            IF k + 1 <= Len(all) THEN Len(all) - (k + 1) + 1 ELSE 0
    <3>1. k + 1 \in Int /\ \A i \in k + 1 .. Len(all) : all[i] \in Int
      BY <1>1, <2>2
    <3> QED
      BY <1>1, <3>1, SubSeqProperties
  <2> QED
    BY <1>1, <1>2, <2>3, <2>4
<1>4. ASSUME ~amuxErr
      PROVE  Counts(aout', Len(muxAudio)) /\ Counts(aheld', Len(muxAudio) + k)
  BY <1>1, <1>2, <1>4, CountsSplit
<1> QED
  BY <1>1, <1>3, <1>4 DEF AudioInOrder

LEMMA AudioKeepsOrder ==
    ASSUME ExportAssumption, IInv, AudioInv, AudioThread
    PROVE  AudioInOrder' /\ AudioRests'
<1>1. /\ AudioInOrder /\ AudioRests
      /\ muxAudio \in Seq(Int) /\ aout \in Seq(Int) /\ aheld \in Seq(Int)
      /\ Len(muxAudio) \in Nat /\ Len(aout) \in Nat /\ Len(aheld) \in Nat
      /\ aframe \in 0 .. AudioFrames /\ AudioFrames \in Nat /\ amuxErr \in BOOLEAN
  BY TypedLengths DEF AudioInv
<1>2. athen \in {"encode", "ok"}
  BY DEF IInv, TypeOK, AudioOK
<1>3. CASE UNCHANGED <<muxAudio, aout, aheld, aframe, amuxErr, athen, cancel>>
           /\ apc \in {"mix", "clip", "encode"} /\ apc' # "write"
           /\ (apc' = "ok" => cancel)
  <2>1. athen # "ok" /\ Len(aout) = 0
    BY <1>1, <1>3 DEF AudioRests
  <2>2. AudioInOrder'
    BY <1>1, <1>3 DEF AudioInOrder, Counts
  <2>3. AudioRests'
    BY <1>3, <2>1 DEF AudioRests
  <2> QED
    BY <2>2, <2>3
<1>4. CASE EncodePcmChunk
  <2>1. PICK k \in 0 .. Len(aheld) + 1 : EmitAudio(Append(aheld, aframe), k)
    BY <1>4 DEF EncodePcmChunk
  <2> DEFINE all == Append(aheld, aframe)
  <2>2. all \in Seq(Int) /\ Len(all) = Len(aheld) + 1
    <3>1. aframe \in Int
      BY <1>1
    <3> QED
      BY <1>1, <3>1, AppendProperties
  <2>3. Len(aout) = 0 /\ UNCHANGED <<muxAudio, amuxErr>> /\ aframe' = aframe + 1
        /\ athen' = "encode" /\ apc' = "write"
    BY <1>1, <1>4, <2>1 DEF EncodePcmChunk, AudioRests, muxVars, EmitAudio
  <2>4. ASSUME ~amuxErr
        PROVE  Counts(all, Len(muxAudio)) /\ aframe = Len(muxAudio) + Len(aheld)
    <3>1. Counts(aheld, Len(muxAudio) + 0) /\ aframe = Len(muxAudio) + Len(aheld)
      BY <1>1, <2>3, <2>4 DEF AudioInOrder
    <3>2. Counts(aheld, Len(muxAudio)) /\ Len(muxAudio) \in Int
      BY <1>1, <3>1
    <3> QED
      BY <1>1, <3>1, <3>2, CountsAppend
  <2> HIDE DEF all
  <2>5. k \in 0 .. Len(all) /\ EmitAudio(all, k)
    BY <2>1, <2>2 DEF all
  <2>6. /\ Counts(muxAudio', 0)
        /\ ~amuxErr' => /\ Counts(aout', Len(muxAudio'))
                        /\ Counts(aheld', Len(muxAudio') + Len(aout'))
                        /\ Len(muxAudio') + Len(aout') + Len(aheld')
                              = Len(muxAudio) + Len(all)
    BY <1>1, <2>2, <2>3, <2>4, <2>5, AudioEmits
  <2>7. ~amuxErr => Len(muxAudio) + Len(all) = aframe'
    BY <1>1, <2>2, <2>3, <2>4
  <2>8. AudioInOrder'
    BY <2>3, <2>6, <2>7 DEF AudioInOrder
  <2>9. AudioRests'
    BY <2>3 DEF AudioRests
  <2> QED
    BY <2>8, <2>9
<1>5. CASE EncodeAll
  <2>1. PICK k \in Drained(aheld) : EmitAudio(aheld, k)
    BY <1>5 DEF EncodeAll
  <2>2. k \in 0 .. Len(aheld) /\ ("drain" \notin Faults => k = Len(aheld))
    BY <1>1, <2>1 DEF Drained
  <2>3. Len(aout) = 0 /\ UNCHANGED <<muxAudio, amuxErr, aframe>>
        /\ athen' = "ok" /\ apc' = "write" /\ aframe = AudioFrames
    BY <1>1, <1>5, <2>1 DEF EncodeAll, AudioRests, muxVars, EmitAudio
  <2>4. ~amuxErr => Counts(aheld, Len(muxAudio)) /\ aframe = Len(muxAudio) + Len(aheld)
    BY <1>1, <2>3 DEF AudioInOrder
  <2>5. /\ Counts(muxAudio', 0) /\ Len(aheld') = Len(aheld) - k
        /\ ~amuxErr' => /\ Counts(aout', Len(muxAudio'))
                        /\ Counts(aheld', Len(muxAudio') + Len(aout'))
                        /\ Len(muxAudio') + Len(aout') + Len(aheld')
                              = Len(muxAudio) + Len(aheld)
    BY <1>1, <2>1, <2>2, <2>3, <2>4, AudioEmits
  <2>6. AudioInOrder'
    BY <2>3, <2>4, <2>5 DEF AudioInOrder
  <2>7. AudioRests'
    BY <1>1, <2>2, <2>3, <2>5 DEF AudioRests
  <2> QED
    BY <2>6, <2>7
<1>6. CASE WriteAudio
  <2>1. /\ apc = "write" /\ aout # <<>> /\ aout' = Tail(aout)
        /\ UNCHANGED <<apc, aheld, athen, aframe, cancel>>
    BY <1>6 DEF WriteAudio, controlVars
  <2>2. AudioRests'
    BY <1>1, <2>1 DEF AudioRests
  <2>3. CASE amuxErr'
    <3>1. muxAudio' = muxAudio
      BY <1>1, <1>6, <2>3 DEF WriteAudio
    <3> QED
      BY <1>1, <2>2, <2>3, <3>1 DEF AudioInOrder
  <2>4. CASE ~amuxErr'
    <3>1. ~amuxErr /\ muxAudio' = Append(muxAudio, Head(aout))
      BY <1>1, <1>6, <2>4 DEF WriteAudio
    <3>2. /\ Counts(aout, Len(muxAudio)) /\ Counts(aheld, Len(muxAudio) + Len(aout))
          /\ Len(muxAudio) + Len(aout) + Len(aheld) = aframe
          /\ Counts(muxAudio, 0)
      BY <1>1, <3>1 DEF AudioInOrder
    <3>3. /\ Head(aout) = Len(muxAudio) /\ Len(Tail(aout)) = Len(aout) - 1
          /\ Counts(Tail(aout), Len(muxAudio) + 1)
      BY <1>1, <2>1, <3>2, CountsTail
    <3>4. muxAudio' = Append(muxAudio, 0 + Len(muxAudio))
      BY <1>1, <3>1, <3>3
    <3>5. Len(muxAudio') = Len(muxAudio) + 1 /\ Counts(muxAudio', 0)
      BY <1>1, <3>2, <3>4, CountsAppend
    <3>6. Len(muxAudio') + Len(aout') = Len(muxAudio) + Len(aout)
      BY <1>1, <2>1, <3>3, <3>5
    <3>7. Counts(aout', Len(muxAudio')) /\ Counts(aheld', Len(muxAudio') + Len(aout'))
      BY <2>1, <3>2, <3>3, <3>5, <3>6
    <3> QED
      BY <2>1, <2>2, <3>2, <3>5, <3>6, <3>7 DEF AudioInOrder
  <2> QED
    BY <2>3, <2>4
<1>7. CASE AudioCallDone
  <2>1. /\ apc = "write" /\ Len(aout) = 0
        /\ UNCHANGED <<muxAudio, aout, aheld, aframe, amuxErr, athen, cancel>>
        /\ apc' = IF athen = "ok" /\ amuxErr THEN "err" ELSE athen
    BY <1>7 DEF AudioCallDone, controlVars, muxVars
  <2>2. AudioInOrder'
    BY <1>1, <2>1 DEF AudioInOrder, Counts
  <2>3. apc' \in {"encode", "ok", "err"} /\ (athen = "ok" => apc' # "encode")
        /\ (apc' = "ok" => athen = "ok" /\ ~amuxErr)
    BY <1>2, <2>1
  <2>4. AudioRests'
    BY <1>1, <2>1, <2>3 DEF AudioRests
  <2> QED
    BY <2>2, <2>4
<1>8. CASE OpenClip \/ MixClip \/ MixDone \/ StopEncoding
  BY <1>3, <1>8 DEF OpenClip, MixClip, MixDone, StopEncoding, controlVars, muxVars
<1> QED
  BY <1>4, <1>5, <1>6, <1>7, <1>8 DEF AudioThread

LEMMA AudioKeepsAudio ==
    ASSUME ExportAssumption, IInv, AudioInv, AudioThread  PROVE AudioInv'
<1> USE DEF EmitAudio
<1>1. /\ UNCHANGED <<cancel, spc, terminal>> /\ ~AudioStopped /\ apc # "unspawned"
  BY DEF AudioThread, OpenClip, MixClip, MixDone, EncodePcmChunk, StopEncoding,
         EncodeAll, WriteAudio, AudioCallDone, AudioStopped, controlVars
<1>2. Spawned'
  BY <1>1 DEF AudioInv, Spawned, AudioThread, OpenClip, MixClip, MixDone, EncodePcmChunk,
              StopEncoding, EncodeAll, WriteAudio, AudioCallDone, videoVars
<1>3. DoneMixedAll'
  <2>1. terminal # <<"done">>
    BY <1>1 DEF IInv, Joining, Reported
  <2> QED
    BY <1>1, <2>1 DEF DoneMixedAll
<1>4. Mixed'
  <2>1. Mixed /\ aclip \in Int /\ amixed \in Int /\ cancel \in BOOLEAN
    BY TypedLengths DEF AudioInv, IInv, TypeOK, AudioOK
  <2>2. CASE MixClip
    BY <1>1, <2>1, <2>2 DEF MixClip, Mixed
  <2>3. CASE OpenClip \/ MixDone
    BY <1>1, <2>1, <2>3 DEF OpenClip, MixDone, Mixed
  <2>4. CASE EncodePcmChunk \/ StopEncoding \/ EncodeAll \/ WriteAudio
    BY <1>1, <2>1, <2>4 DEF EncodePcmChunk, StopEncoding, EncodeAll, WriteAudio, Mixed
  <2>5. CASE AudioCallDone
    BY <1>1, <2>1, <2>5 DEF AudioCallDone, Mixed
  <2> QED
    BY <2>2, <2>3, <2>4, <2>5 DEF AudioThread
<1> QED
  BY <1>2, <1>3, <1>4, AudioKeepsOrder DEF AudioInv

(* The other threads leave the audio worker alone.                         *)
LEMMA OthersKeepAudio ==
    ASSUME ExportAssumption, IInv, AudioInv,
           Start \/ User \/ Dispatch \/ EncoderThread \/ UNCHANGED vars
    PROVE  AudioInv'
<1>1. AudioInOrder /\ AudioRests /\ Mixed /\ Spawned /\ DoneMixedAll
  BY DEF AudioInv
<1>2. ASSUME UNCHANGED <<audioVars, muxAudio>>, cancel => cancel'
      PROVE  AudioInOrder' /\ AudioRests' /\ Mixed'
  <2>2. AudioInOrder'
    BY <1>1, <1>2 DEF AudioInOrder, Counts, audioVars
  <2>3. AudioRests' /\ Mixed'
    BY <1>1, <1>2 DEF AudioRests, Mixed, audioVars
  <2> QED
    BY <2>2, <2>3
<1>3. CASE Start
  <2>1. UNCHANGED <<aclip, amixed, aframe, aheld, aout, athen, amuxErr, muxAudio,
                    terminal, cancel>>
    BY <1>3 DEF Start, SpawnVideo, SpawnAudio, SpawnDispatch, controlVars, audioVars,
                muxVars
  <2>2. apc' = apc \/ (apc = "unspawned" /\ apc' = "mix")
    BY <1>1, <1>3 DEF Start, SpawnVideo, SpawnAudio, SpawnDispatch, audioVars, Spawned
  <2>3. Spawned'
    BY <1>1, <1>3 DEF Start, SpawnVideo, SpawnAudio, SpawnDispatch, Spawned, audioVars,
                      videoVars
  <2>4. AudioInOrder'
    BY <1>1, <2>1 DEF AudioInOrder, Counts
  <2>5. AudioRests' /\ Mixed' /\ DoneMixedAll'
    BY <1>1, <2>1, <2>2 DEF AudioRests, Mixed, DoneMixedAll
  <2> QED
    BY <2>3, <2>4, <2>5 DEF AudioInv
<1>4. CASE User
  <2>1. UNCHANGED <<spc, audioVars, videoVars, muxAudio, terminal>> /\ (cancel => cancel')
    BY <1>4 DEF User, Cancel, Pause, Resume, muxVars
  <2>2. Spawned' /\ DoneMixedAll'
    BY <1>1, <2>1 DEF Spawned, DoneMixedAll, audioVars, videoVars
  <2> QED
    BY <1>2, <2>1, <2>2 DEF AudioInv
<1>5. CASE EncoderThread
  <2>1. UNCHANGED <<spc, audioVars, muxAudio, terminal, cancel>>
        /\ (spc = "spawnVideo" => FALSE)
    BY <1>1, <1>5 DEF EncoderThread, EncodeFrame, SkipMarker, FlushVideo, WriteVideo,
           VideoCallDone, Pops, Spawned, muxVars, controlVars
  <2>2. Spawned' /\ DoneMixedAll'
    BY <1>1, <2>1 DEF Spawned, DoneMixedAll, audioVars
  <2> QED
    BY <1>2, <2>1, <2>2 DEF AudioInv
<1>6. CASE Dispatch
  <2>1. UNCHANGED <<spc, audioVars, videoVars, muxAudio, cancel>>
    BY <1>6 DEF Dispatch, BeginSegment, LeaveSegments, CheckCancel, CheckPause, RenderFrame,
           NothingPending, PushPending, RenderFails, PushSegmentDone, AfterSegment, Finish,
           Join, FinaliseSync, Report, muxVars, controlVars
  <2>2. Spawned'
    BY <1>1, <2>1 DEF Spawned, audioVars, videoVars
  <2>3. DoneMixedAll'
    <3>1. CASE Report
      <4>1. SUFFICES ASSUME terminal' = <<"done">>  PROVE amixed' = AudioClips
        BY DEF DoneMixedAll
      <4>2. terminal = <<>> /\ AudioStopped
        BY <3>1 DEF Report, IInv, Reported, Joining
      <4>3. FirstError \in BOOLEAN /\ cancel \in BOOLEAN
        BY TypedLengths DEF FirstError, IInv, TypeOK, DispatchOK
      <4>4. ~FirstError /\ ~cancel
        BY <3>1, <4>1, <4>2, <4>3 DEF Report
      <4>5. apc = "ok"
        BY <4>2, <4>4 DEF FirstError, AudioStopped
      <4> QED
        BY <1>1, <2>1, <4>4, <4>5 DEF Mixed, audioVars
    <3>2. CASE terminal' = terminal
      BY <1>1, <2>1, <3>2 DEF DoneMixedAll, audioVars
    <3> QED
      BY <1>6, <3>1, <3>2 DEF Dispatch, BeginSegment, LeaveSegments, CheckCancel, CheckPause,
           RenderFrame, NothingPending, PushPending, RenderFails, PushSegmentDone,
           AfterSegment, Finish, Join, FinaliseSync
  <2> QED
    BY <1>2, <2>1, <2>2, <2>3 DEF AudioInv
<1>7. CASE UNCHANGED vars
  <2>1. UNCHANGED <<spc, audioVars, videoVars, muxAudio, terminal, cancel>>
    BY <1>7 DEF vars, muxVars, controlVars
  <2>2. Spawned' /\ DoneMixedAll'
    BY <1>1, <2>1 DEF Spawned, DoneMixedAll, audioVars, videoVars
  <2> QED
    BY <1>2, <2>1, <2>2 DEF AudioInv
<1> QED
  BY <1>3, <1>4, <1>5, <1>6, <1>7
-----------------------------------------------------------------------------
(* The video worker and the queue.                                         *)

LEMMA EncoderKeepsVideo ==
    ASSUME ExportAssumption, IInv, VideoInv, EncoderThread  PROVE VideoInv'
<1>1. /\ Spawned /\ VideoRests /\ Markers /\ Sealed
      /\ vheld \in Seq(Int) /\ vout \in Seq(Int) /\ Len(vheld) \in Nat /\ Len(vout) \in Nat
      /\ queue \in Seq(Items) /\ Len(queue) \in Nat /\ vmuxErr \in BOOLEAN
  BY TypedLengths DEF VideoInv
<1>2. UNCHANGED <<spc, dpc, apc, finalised>> /\ vpc # "unspawned"
  BY DEF EncoderThread, EncodeFrame, SkipMarker, FlushVideo, WriteVideo, VideoCallDone,
         Pops, dispatchVars, audioVars, muxVars
<1>3. Spawned' /\ Sealed'
  BY <1>1, <1>2 DEF Spawned, Sealed
<1>4. ASSUME NEW kind, Pops(kind)
      PROVE  /\ vpc = "pop" /\ vthen = "pop" /\ queue # <<>> /\ queue[1].kind = kind
             /\ \A i \in 1 .. Len(queue') : queue'[i].kind = "allDone" =>
                    i = Len(queue') /\ dpc \in AfterFinish
             /\ kind = "allDone" => Len(queue') = 0 /\ dpc \in AfterFinish
  <2>1. vpc = "pop" /\ queue # <<>> /\ Head(queue).kind = kind /\ queue' = Tail(queue)
    BY <1>4 DEF Pops
  <2>2. /\ Len(queue) > 0 /\ Head(queue) = queue[1] /\ Len(queue') = Len(queue) - 1
        /\ \A i \in 1 .. Len(queue) - 1 : queue'[i] = queue[i + 1]
    BY <1>1, <2>1, TailOf
  <2>3. ASSUME NEW i \in 1 .. Len(queue'), queue'[i].kind = "allDone"
        PROVE  i = Len(queue') /\ dpc \in AfterFinish
    <3>1. i \in 1 .. Len(queue) - 1 /\ i + 1 \in 1 .. Len(queue)
      BY <1>1, <2>2
    <3>2. queue[i + 1].kind = "allDone"
      BY <2>2, <2>3, <3>1
    <3>3. i + 1 = Len(queue) /\ dpc \in AfterFinish
      BY <1>1, <3>1, <3>2 DEF Markers
    <3> QED
      BY <1>1, <2>2, <3>1, <3>3
  <2>4. 1 \in 1 .. Len(queue) /\ queue[1].kind = kind
    BY <1>1, <2>1, <2>2
  <2>5. kind = "allDone" => 1 = Len(queue) /\ dpc \in AfterFinish
    BY <1>1, <2>4 DEF Markers
  <2>6. kind = "allDone" => Len(queue') = 0 /\ dpc \in AfterFinish
    <3>1. ASSUME 1 = Len(queue)  PROVE Len(queue') = 0
      <4>1. Len(queue') = Len(queue) - 1
        BY <2>2
      <4> QED
        BY <3>1, <4>1
    <3> QED
      BY <2>5, <3>1
  <2>7. vthen = "pop"
    BY <1>1, <2>1 DEF VideoRests
  <2> QED
    BY <2>1, <2>3, <2>4, <2>6, <2>7
<1>5. CASE EncodeFrame
  <2>1. vpc' = "write" /\ vthen' \in {"pop", "err"} /\ Pops("frame")
    BY <1>5 DEF EncodeFrame, Emit
  <2> QED
    BY <1>2, <1>3, <1>4, <2>1 DEF VideoInv, VideoRests, Markers
<1>6. CASE SkipMarker
  <2>1. UNCHANGED <<vpc, vheld, vout, vthen, vmuxErr>> /\ Pops("segmentDone")
    BY <1>6 DEF SkipMarker, videoVars
  <2> QED
    BY <1>1, <1>2, <1>3, <1>4, <2>1 DEF VideoInv, VideoRests, Markers
<1>7. CASE FlushVideo
  <2>1. PICK k \in Drained(vheld) : Emit(vheld, k)
    BY <1>7 DEF FlushVideo
  <2>2. k \in 0 .. Len(vheld) /\ ("drain" \notin Faults => k = Len(vheld))
    BY <1>1, <2>1 DEF Drained
  <2>3. vpc' = "write" /\ vthen' = "ok" /\ Pops("allDone")
        /\ vheld' = SubSeq(vheld, k + 1, Len(vheld))
    BY <1>7, <2>1 DEF FlushVideo, Emit
  <2>4. \A i \in 1 .. Len(vheld) : vheld[i] \in Int
    BY <1>1, ElementOfSeq
  <2>5. "drain" \notin Faults => Len(vheld') = 0
    <3>1. SUFFICES ASSUME "drain" \notin Faults  PROVE Len(vheld') = 0
      OBVIOUS
    <3>2. k = Len(vheld) /\ k + 1 \in Int /\ \A i \in k + 1 .. Len(vheld) : vheld[i] \in Int
      BY <1>1, <2>2, <2>4, <3>1
    <3>3. Len(SubSeq(vheld, k + 1, Len(vheld))) =
              IF k + 1 <= Len(vheld) THEN Len(vheld) - (k + 1) + 1 ELSE 0
      BY <1>1, <3>2, SubSeqProperties
    <3> QED
      BY <1>1, <2>3, <3>2, <3>3
  <2> QED
    BY <1>2, <1>3, <1>4, <2>3, <2>5 DEF VideoInv, VideoRests, Markers
<1>8. CASE WriteVideo
  <2>1. vpc = "write" /\ UNCHANGED <<vpc, vheld, vthen, queue>>
    BY <1>8 DEF WriteVideo
  <2> QED
    BY <1>1, <1>2, <1>3, <2>1 DEF VideoInv, VideoRests, Markers
<1>9. CASE VideoCallDone
  <2>1. /\ vpc = "write" /\ Len(vout) = 0 /\ UNCHANGED <<vheld, vout, vthen, vmuxErr, queue>>
        /\ vpc' = IF vmuxErr THEN "err" ELSE vthen
        /\ vthen \in {"pop", "ok", "err"}
    BY <1>9 DEF VideoCallDone, IInv, TypeOK, VideoOK
  <2>2. /\ vpc' \in {"pop", "ok", "err"}
        /\ vpc' \in {"pop", "ok"} => vthen = vpc' /\ ~vmuxErr
        /\ vthen = "ok" => vpc' # "pop"
    BY <2>1
  <2> QED
    BY <1>1, <1>2, <1>3, <2>1, <2>2 DEF VideoInv, VideoRests, Markers
<1> QED
  BY <1>5, <1>6, <1>7, <1>8, <1>9 DEF EncoderThread

(* The dispatch thread pushes at the end of the queue, and nothing after   *)
(* the marker of the end.                                                  *)
LEMMA DispatchPushes ==
    ASSUME ExportAssumption, IInv, Dispatch
    PROVE  \/ queue' = queue
           \/ /\ dpc = "readback" /\ pending # NoFrame /\ framesDone' = framesDone + 1
              /\ queue' = Append(queue, FrameItem(pending, slots[1 - active]))
              /\ dpc' \notin AfterFinish /\ FrameItem(pending, slots[1 - active]) \in Items
              /\ pending = framesDone
           \/ /\ dpc = "segmentDone" /\ dpc' \notin AfterFinish /\ framesDone' = framesDone
              /\ queue' = Append(queue, SegmentDone(framesDone))
              /\ SegmentDone(framesDone) \in Items
           \/ /\ dpc = "finish" /\ dpc' \in AfterFinish /\ framesDone' = framesDone
              /\ queue' = Append(queue, AllDone(framesDone))
              /\ AllDone(framesDone) \in Items
<1>1. CASE PushPending
  <2>1. dpc = "readback" /\ pending # NoFrame
    BY <1>1 DEF PushPending
  <2>2. pending = framesDone
    BY <2>1 DEF IInv, Counting, InSegment, WithinSegment
  <2>3. FrameItem(pending, slots[1 - active]) \in Items
    <3>1. pending \in Frames /\ slots \in [{0, 1} -> Pixels] /\ active \in {0, 1}
      BY <2>1 DEF IInv, TypeOK, DispatchOK, Pixels
    <3>2. pending \in 0 .. TotalFrames /\ slots[1 - active] \in Pixels
      BY <3>1 DEF Frames, ExportAssumption
    <3> QED
      BY <3>2 DEF FrameItem, Items
  <2> QED
    BY <1>1, <2>1, <2>2, <2>3 DEF PushPending, PreviousSlot, NextFrame, AfterFinish
<1>2. CASE PushSegmentDone
  <2>1. SegmentDone(framesDone) \in Items
    BY DEF SegmentDone, Items, Pixels, IInv, TypeOK, DispatchOK
  <2> QED
    BY <1>2, <2>1 DEF PushSegmentDone, AfterFinish
<1>3. CASE Finish
  <2>1. AllDone(framesDone) \in Items
    BY DEF AllDone, Items, Pixels, IInv, TypeOK, DispatchOK
  <2> QED
    BY <1>3, <2>1 DEF Finish, AfterFinish
<1> QED
  BY <1>1, <1>2, <1>3 DEF Dispatch, BeginSegment, LeaveSegments, CheckCancel, CheckPause,
     RenderFrame, NothingPending, RenderFails, AfterSegment, Join, FinaliseSync, Report

(* Where the pause loop is left for.                                       *)
LEMMA PauseLoop ==
    ASSUME ExportAssumption, IInv, CheckPause
    PROVE  /\ dpc' \in {"paused", "render", "readback"}
           /\ dpc' = "readback" => frame >= SegEnd(seg)
           /\ frame \in Int /\ SegEnd(seg) \in Int
<1>1. WithinSegment /\ seg \in Nat /\ frame \in Int /\ pause \in BOOLEAN
  BY DEF CheckPause, IInv, Counting, InSegment, TypeOK, ControlOK, DispatchOK
<1>2. SegEnd(seg) \in Int
  BY <1>1, SegmentBounds DEF WithinSegment
<1> QED
  BY <1>1, <1>2 DEF CheckPause

LEMMA DispatchKeepsVideo ==
    ASSUME ExportAssumption, IInv, VideoInv, Dispatch  PROVE VideoInv'
<1>1. /\ Spawned /\ VideoRests /\ Markers /\ Sealed
      /\ queue \in Seq(Items) /\ Len(queue) \in Nat
  BY TypedLengths DEF VideoInv
<1>2. UNCHANGED <<spc, apc, vpc, vheld, vout, vthen, vmuxErr>>
  BY DEF Dispatch, BeginSegment, LeaveSegments, CheckCancel, CheckPause, RenderFrame,
         NothingPending, PushPending, RenderFails, PushSegmentDone, AfterSegment, Finish,
         Join, FinaliseSync, Report, audioVars, videoVars
<1>3. Spawned' /\ VideoRests'
  BY <1>1, <1>2 DEF Spawned, VideoRests
<1>4. Sealed'
  <2>1. CASE CheckPause
    BY <2>1, PauseLoop DEF Sealed
  <2>2. CASE ~CheckPause
    BY <1>1, <2>2 DEF Sealed, Dispatch, BeginSegment, LeaveSegments, CheckCancel,
           RenderFrame, NothingPending, NextFrame, PushPending, RenderFails,
           PushSegmentDone, AfterSegment, Finish, Join, FinaliseSync, Report, AfterLoop,
           muxVars
  <2> QED
    BY <2>1, <2>2
<1>5. dpc \in AfterFinish => dpc' \in AfterFinish /\ dpc # "readback"
                             /\ dpc # "segmentDone" /\ dpc # "finish"
  BY DEF Dispatch, BeginSegment, LeaveSegments, CheckCancel, CheckPause,
         RenderFrame, NothingPending, NextFrame, PushPending, RenderFails, PushSegmentDone,
         AfterSegment, Finish, Join, FinaliseSync, Report, AfterLoop, AfterFinish
<1>6. ASSUME NEW item \in Items, queue' = Append(queue, item), dpc \notin AfterFinish,
             item.kind = "allDone" => dpc' \in AfterFinish
      PROVE  Markers'
  <2>1. /\ Len(queue') = Len(queue) + 1
        /\ \A i \in 1 .. Len(queue) : queue'[i] = queue[i]
        /\ queue'[Len(queue) + 1] = item
    BY <1>1, <1>6, AppendProperties
  <2>2. vthen # "ok" /\ \A i \in 1 .. Len(queue) : queue[i].kind # "allDone"
    BY <1>1, <1>6 DEF Markers
  <2>3. ASSUME NEW i \in 1 .. Len(queue'), queue'[i].kind = "allDone"
        PROVE  i = Len(queue') /\ dpc' \in AfterFinish
    <3>1. i \notin 1 .. Len(queue)
      BY <2>1, <2>2, <2>3
    <3>2. i = Len(queue) + 1
      BY <1>1, <2>1, <3>1
    <3> QED
      BY <1>6, <2>1, <2>3, <3>2
  <2> QED
    BY <1>2, <2>2, <2>3 DEF Markers
<1>7. Markers'
  <2>1. CASE queue' = queue
    BY <1>1, <1>2, <1>5, <2>1 DEF Markers
  <2>2. CASE queue' # queue
    BY <1>5, <1>6, <2>2, DispatchPushes DEF FrameItem, SegmentDone, AllDone
  <2> QED
    BY <2>1, <2>2
<1> QED
  BY <1>3, <1>4, <1>7 DEF VideoInv

LEMMA OthersKeepVideo ==
    ASSUME ExportAssumption, IInv, VideoInv, Start \/ User \/ AudioThread \/ UNCHANGED vars
    PROVE  VideoInv'
<1>1. Spawned /\ VideoRests /\ Markers /\ Sealed
  BY DEF VideoInv
<1>2. UNCHANGED <<queue, vheld, vout, vthen, vmuxErr, finalised>>
  BY DEF Start, SpawnVideo, SpawnAudio, SpawnDispatch, User, Cancel, Pause, Resume,
         AudioThread, OpenClip, MixClip, MixDone, EncodePcmChunk, StopEncoding, EncodeAll,
         WriteAudio, AudioCallDone, vars, videoVars, muxVars
<1>3. /\ dpc' = dpc \/ (dpc = "unspawned" /\ dpc' = "segment")
      /\ vpc' = vpc \/ (vpc = "unspawned" /\ vpc' = "pop")
  BY <1>1 DEF Spawned, Lifecycle, IInv, Start, SpawnVideo, SpawnAudio, SpawnDispatch, User,
         Cancel, Pause, Resume, AudioThread, OpenClip, MixClip, MixDone, EncodePcmChunk,
         StopEncoding, EncodeAll, WriteAudio, AudioCallDone, vars, videoVars, dispatchVars
<1>4. VideoRests' /\ Sealed' /\ Markers'
  BY <1>1, <1>2, <1>3 DEF VideoRests, Sealed, Markers, AfterFinish
<1>5. Spawned'
  BY <1>1 DEF Spawned, Start, SpawnVideo, SpawnAudio, SpawnDispatch, User, Cancel, Pause,
         Resume, AudioThread, OpenClip, MixClip, MixDone, EncodePcmChunk, EmitAudio,
         StopEncoding, EncodeAll, WriteAudio, AudioCallDone, vars, videoVars, audioVars
<1> QED
  BY <1>4, <1>5 DEF VideoInv
-----------------------------------------------------------------------------
(* The frames in flight.                                                   *)

(* A call of the video codec, fed nothing or one frame, hands out a prefix *)
(* of what it then holds.                                                  *)
LEMMA VideoEmits ==
    ASSUME ExportAssumption, IInv, Len(vout) = 0, NEW all \in Seq(Int),
           NEW k \in 0 .. Len(all), Emit(all, k), Counts(muxVideo, 0),
           Counts(all, Len(muxVideo)), muxVideo' = muxVideo
    PROVE  /\ Counts(muxVideo', 0) /\ Counts(vout', Len(muxVideo'))
           /\ Counts(vheld', Len(muxVideo') + Len(vout'))
           /\ Coded' = Len(muxVideo) + Len(all)
<1>1. Len(muxVideo) \in Nat /\ Len(muxVideo) \in Int /\ Len(all) \in Nat
  BY TypedLengths, LenProperties
<1>2. vout' = SubSeq(all, 1, k) /\ vheld' = SubSeq(all, k + 1, Len(all))
  BY DEF Emit
<1>3. /\ Len(vout') = k /\ Len(vheld') = Len(all) - k
      /\ Counts(vout', Len(muxVideo)) /\ Counts(vheld', Len(muxVideo) + k)
  BY <1>1, <1>2, CountsSplit
<1>4. Coded' = Len(muxVideo) + Len(all)
  BY <1>1, <1>3 DEF Coded
<1> QED
  BY <1>3, <1>4

LEMMA EncoderKeepsFrames ==
    ASSUME ExportAssumption, IInv, FrameInv, EncoderThread  PROVE InFlight'
<1>1. /\ VideoRests /\ InFlight /\ Coded \in Nat /\ framesDone \in Int
      /\ muxVideo \in Seq(Int) /\ vout \in Seq(Int) /\ vheld \in Seq(Int)
      /\ Len(muxVideo) \in Nat /\ Len(vout) \in Nat /\ Len(vheld) \in Nat
      /\ queue \in Seq(Items) /\ vmuxErr \in BOOLEAN /\ Counts(muxVideo, 0)
  BY TypedLengths DEF FrameInv, VideoInv, InFlight
<1>2. framesDone' = framesDone
  BY DEF EncoderThread, EncodeFrame, SkipMarker, FlushVideo, WriteVideo, VideoCallDone,
         dispatchVars
<1>3. ASSUME NEW kind, Pops(kind)
      PROVE  /\ vpc = "pop" /\ vthen = "pop" /\ Len(vout) = 0 /\ ~vmuxErr
             /\ Counts(vheld, Len(muxVideo)) /\ Coded = Len(muxVideo) + Len(vheld)
             /\ Coded <= framesDone
             /\ queue # <<>> /\ Head(queue).kind = kind /\ queue' = Tail(queue)
             /\ DataOf(queue) = Coded .. framesDone - 1 /\ Rising(queue)
  <2>1. vpc = "pop" /\ queue # <<>> /\ Head(queue).kind = kind /\ queue' = Tail(queue)
    BY <1>3 DEF Pops
  <2>2. vthen = "pop" /\ Len(vout) = 0 /\ ~vmuxErr
    BY <1>1, <2>1 DEF VideoRests
  <2>3. /\ Counts(vheld, Len(muxVideo) + Len(vout)) /\ Coded <= framesDone
        /\ DataOf(queue) = Coded .. framesDone - 1 /\ Rising(queue)
    BY <1>1, <2>1, <2>2 DEF InFlight
  <2>4. Len(muxVideo) + Len(vout) = Len(muxVideo) /\ Coded = Len(muxVideo) + Len(vheld)
    BY <1>1, <2>2 DEF Coded
  <2> QED
    BY <2>1, <2>2, <2>3, <2>4
<1>4. CASE EncodeFrame
  <2> DEFINE c == Coded
             all == Append(vheld, c)
             d == framesDone - 1
  <2>1. Pops("frame") /\ UNCHANGED <<muxVideo, vmuxErr>>
    BY <1>4 DEF EncodeFrame, muxVars
  <2>2. /\ Len(vout) = 0 /\ ~vmuxErr /\ Counts(vheld, Len(muxVideo))
        /\ c = Len(muxVideo) + Len(vheld) /\ c <= framesDone
        /\ queue # <<>> /\ Head(queue).kind = "frame" /\ queue' = Tail(queue)
        /\ DataOf(queue) = c .. d /\ Rising(queue)
    BY <1>3, <2>1
  <2>3. c \in Int /\ d \in Int
    BY <1>1
  <2> HIDE DEF c, d
  <2>4. Head(queue).data = c /\ DataOf(queue') = c + 1 .. d /\ Rising(queue') /\ c <= d
    <3>1. Head(queue).data = c /\ DataOf(Tail(queue)) = c + 1 .. d /\ Rising(Tail(queue))
      BY <1>1, <2>2, <2>3, PopFrame
    <3>2. c \in DataOf(queue)
      <4>1. 1 \in 1 .. Len(queue) /\ Head(queue) = queue[1]
        BY <1>1, <2>2, TailOf
      <4>2. 1 \in FramesOf(queue) /\ queue[1].data = c
        BY <2>2, <3>1, <4>1 DEF FramesOf
      <4> QED
        BY <4>2 DEF DataOf
    <3> QED
      BY <2>2, <2>3, <3>1, <3>2
  <2>5. CASE \E k \in 0 .. Len(vheld) + 1 : Emit(Append(vheld, Head(queue).data), k)
    <3>1. PICK k \in 0 .. Len(vheld) + 1 : Emit(all, k)
      BY <2>4, <2>5
    <3>2. all \in Seq(Int) /\ Len(all) = Len(vheld) + 1 /\ Counts(all, Len(muxVideo))
      <4>1. Len(muxVideo) \in Int
        BY <1>1
      <4> QED
        BY <1>1, <2>2, <4>1, CountsAppend
    <3> HIDE DEF all
    <3>3. k \in 0 .. Len(all)
      BY <3>1, <3>2
    <3>4. /\ Counts(muxVideo', 0) /\ Counts(vout', Len(muxVideo'))
          /\ Counts(vheld', Len(muxVideo') + Len(vout'))
          /\ Coded' = Len(muxVideo) + Len(all)
      BY <1>1, <2>1, <2>2, <3>1, <3>2, <3>3, VideoEmits
    <3>5. Coded' = c + 1
      BY <1>1, <2>2, <3>2, <3>4
    <3>6. Coded' <= framesDone' /\ Coded' .. framesDone' - 1 = c + 1 .. d
      BY <1>1, <1>2, <2>3, <2>4, <3>5 DEF d
    <3> QED
      BY <2>1, <2>4, <3>4, <3>6 DEF InFlight
  <2>6. CASE \E k \in 0 .. Len(vheld) : Emit(vheld, k) /\ vthen' = "err"
    <3>1. PICK k \in 0 .. Len(vheld) : Emit(vheld, k)
      BY <2>6
    <3>2. /\ Counts(muxVideo', 0) /\ Counts(vout', Len(muxVideo'))
          /\ Counts(vheld', Len(muxVideo') + Len(vout'))
          /\ Coded' = Len(muxVideo) + Len(vheld)
      BY <1>1, <2>1, <2>2, <3>1, VideoEmits
    <3>3. Coded' <= framesDone' /\ vthen' = "err"
      BY <1>2, <2>2, <2>6, <3>2
    <3> QED
      BY <3>2, <3>3 DEF InFlight
  <2> QED
    BY <1>4, <2>5, <2>6 DEF EncodeFrame
<1>5. CASE SkipMarker
  <2>1. Pops("segmentDone") /\ UNCHANGED <<vpc, vheld, vout, vthen, vmuxErr, muxVideo>>
    BY <1>5 DEF SkipMarker, videoVars, muxVars
  <2>2. DataOf(queue') = DataOf(queue) /\ Rising(queue')
    <3>1. /\ queue # <<>> /\ Head(queue).kind # "frame" /\ queue' = Tail(queue)
          /\ Rising(queue)
      BY <1>3, <2>1
    <3> QED
      BY <1>1, <3>1, PopMarker
  <2>3. Coded' = Coded
    BY <2>1 DEF Coded
  <2> QED
    BY <1>1, <1>2, <1>3, <2>1, <2>2, <2>3 DEF InFlight, Counts
<1>6. CASE FlushVideo
  <2>1. Pops("allDone") /\ UNCHANGED <<vmuxErr, muxVideo>>
    BY <1>6 DEF FlushVideo, muxVars
  <2>2. /\ Len(vout) = 0 /\ Counts(vheld, Len(muxVideo)) /\ Coded = Len(muxVideo) + Len(vheld)
        /\ DataOf(queue) = Coded .. framesDone - 1 /\ Coded <= framesDone
    BY <1>3, <2>1
  <2>3. DataOf(queue') = DataOf(queue) /\ Rising(queue')
    <3>1. /\ queue # <<>> /\ Head(queue).kind # "frame" /\ queue' = Tail(queue)
          /\ Rising(queue)
      BY <1>3, <2>1
    <3> QED
      BY <1>1, <3>1, PopMarker
  <2>4. PICK k \in Drained(vheld) : Emit(vheld, k)
    BY <1>6 DEF FlushVideo
  <2>5. k \in 0 .. Len(vheld)
    BY <1>1, <2>4 DEF Drained
  <2>6. /\ Counts(muxVideo', 0) /\ Counts(vout', Len(muxVideo'))
        /\ Counts(vheld', Len(muxVideo') + Len(vout'))
        /\ Coded' = Len(muxVideo) + Len(vheld)
    BY <1>1, <2>1, <2>2, <2>4, <2>5, VideoEmits
  <2>7. Coded' = Coded
    BY <2>2, <2>6
  <2> QED
    BY <1>2, <2>2, <2>3, <2>6, <2>7 DEF InFlight
<1>7. CASE WriteVideo
  <2>1. /\ vout # <<>> /\ vout' = Tail(vout)
        /\ UNCHANGED <<queue, vpc, vheld, vthen>>
    BY <1>7 DEF WriteVideo
  <2>2. CASE vmuxErr'
    <3>1. muxVideo' = muxVideo
      BY <1>1, <1>7, <2>2 DEF WriteVideo
    <3> QED
      BY <1>1, <2>2, <3>1 DEF InFlight
  <2>3. CASE ~vmuxErr'
    <3>1. ~vmuxErr /\ muxVideo' = Append(muxVideo, Head(vout))
      BY <1>1, <1>7, <2>3 DEF WriteVideo
    <3>2. /\ Counts(vout, Len(muxVideo)) /\ Counts(vheld, Len(muxVideo) + Len(vout))
          /\ Coded <= framesDone
      BY <1>1, <3>1 DEF InFlight
    <3>3. /\ Head(vout) = Len(muxVideo) /\ Len(Tail(vout)) = Len(vout) - 1
          /\ Counts(Tail(vout), Len(muxVideo) + 1)
      BY <1>1, <2>1, <3>2, CountsTail
    <3>4. muxVideo' = Append(muxVideo, 0 + Len(muxVideo))
      BY <1>1, <3>1, <3>3
    <3>5. Len(muxVideo') = Len(muxVideo) + 1 /\ Counts(muxVideo', 0)
      BY <1>1, <3>4, CountsAppend
    <3>6. Len(muxVideo') + Len(vout') = Len(muxVideo) + Len(vout)
      BY <1>1, <2>1, <3>3, <3>5
    <3>7. Counts(vout', Len(muxVideo')) /\ Counts(vheld', Len(muxVideo') + Len(vout'))
      BY <2>1, <3>2, <3>3, <3>5, <3>6
    <3>8. Coded' = Coded
      BY <2>1, <3>6 DEF Coded
    <3> QED
      BY <1>1, <1>2, <2>1, <3>1, <3>2, <3>5, <3>7, <3>8 DEF InFlight
  <2> QED
    BY <2>2, <2>3
<1>8. CASE VideoCallDone
  <2>1. /\ vpc = "write" /\ UNCHANGED <<queue, vheld, vout, vthen, vmuxErr, muxVideo>>
    BY <1>8 DEF VideoCallDone, muxVars
  <2>2. Coded' = Coded
    BY <2>1 DEF Coded
  <2> QED
    BY <1>1, <1>2, <2>1, <2>2 DEF InFlight, Counts
<1> QED
  BY <1>4, <1>5, <1>6, <1>7, <1>8 DEF EncoderThread

LEMMA DispatchKeepsFrames ==
    ASSUME ExportAssumption, IInv, FrameInv, Dispatch  PROVE InFlight'
<1>1. /\ ReadbackRight /\ InFlight /\ Coded \in Int /\ framesDone \in Int
      /\ queue \in Seq(Items)
  BY TypedLengths DEF FrameInv
<1>2. UNCHANGED <<vpc, vheld, vout, vthen, vmuxErr, muxVideo>> /\ Coded' = Coded
  BY DEF Dispatch, BeginSegment, LeaveSegments, CheckCancel, CheckPause, RenderFrame,
         NothingPending, PushPending, RenderFails, PushSegmentDone, AfterSegment, Finish,
         Join, FinaliseSync, Report, videoVars, muxVars, Coded
<1>3. CASE queue' = queue /\ framesDone' = framesDone
  BY <1>1, <1>2, <1>3 DEF InFlight, Counts
<1>4. CASE /\ dpc = "readback" /\ pending # NoFrame /\ framesDone' = framesDone + 1
           /\ queue' = Append(queue, FrameItem(pending, slots[1 - active]))
           /\ FrameItem(pending, slots[1 - active]) \in Items /\ pending = framesDone
  <2> DEFINE item == FrameItem(pending, slots[1 - active])
  <2>1. slots[1 - active] = pending
    BY <1>1, <1>4 DEF ReadbackRight, InSegment
  <2>2. item \in Items /\ item.kind = "frame" /\ item.data = framesDone
    BY <1>4, <2>1 DEF FrameItem
  <2> HIDE DEF item
  <2>3. queue' = Append(queue, item)
    BY <1>4 DEF item
  <2>4. Counts(muxVideo', 0)
        /\ (~vmuxErr' => /\ Counts(vout', Len(muxVideo'))
                         /\ Counts(vheld', Len(muxVideo') + Len(vout'))
                         /\ Coded' <= framesDone')
    BY <1>1, <1>2, <1>4 DEF InFlight
  <2>5. ASSUME vpc' # "err", vthen' # "err", ~vmuxErr'
        PROVE  DataOf(queue') = Coded' .. framesDone' - 1 /\ Rising(queue')
    <3>1. Coded <= framesDone /\ DataOf(queue) = Coded .. framesDone - 1 /\ Rising(queue)
      BY <1>1, <1>2, <2>5 DEF InFlight
    <3>2. DataOf(queue') = Coded .. framesDone /\ Rising(queue')
      BY <1>1, <2>2, <2>3, <3>1, PushFrame
    <3>3. framesDone' - 1 = framesDone
      BY <1>1, <1>4
    <3> QED
      BY <1>2, <3>2, <3>3
  <2> QED
    BY <2>4, <2>5 DEF InFlight
<1>5. ASSUME NEW item \in Items, queue' = Append(queue, item), item.kind # "frame",
             framesDone' = framesDone
      PROVE  InFlight'
  <2>1. Rising(queue) => DataOf(queue') = DataOf(queue) /\ Rising(queue')
    BY <1>1, <1>5, PushMarker
  <2> QED
    BY <1>1, <1>2, <1>5, <2>1 DEF InFlight, Counts
<1>6. SegmentDone(framesDone).kind # "frame" /\ AllDone(framesDone).kind # "frame"
  BY DEF SegmentDone, AllDone
<1>7. queue' = queue => framesDone' = framesDone
  <2>1. CASE PushPending
    <3>1. queue' = Append(queue, FrameItem(pending, slots[PreviousSlot]))
      BY <2>1 DEF PushPending
    <3>2. FrameItem(pending, slots[PreviousSlot]) \in Items
      BY <2>1, <3>1, DispatchPushes DEF PreviousSlot, PushPending
    <3>3. Len(queue') = Len(queue) + 1 /\ Len(queue) \in Nat
      BY <1>1, <3>1, <3>2, AppendProperties, LenProperties
    <3> QED
      BY <3>3
  <2> QED
    BY <2>1 DEF Dispatch, BeginSegment, LeaveSegments, CheckCancel, CheckPause,
           RenderFrame, NothingPending, RenderFails, PushSegmentDone,
           AfterSegment, Finish, Join, FinaliseSync, Report
<1> QED
  BY <1>3, <1>4, <1>5, <1>6, <1>7, DispatchPushes

LEMMA DispatchKeepsReadback ==
    ASSUME ExportAssumption, "stale" \notin Faults, IInv, ReadbackRight, Dispatch
    PROVE  ReadbackRight'
<1>1. /\ slots \in [{0, 1} -> Pixels] /\ active \in {0, 1} /\ pending \in Pixels
      /\ frame \in Int
  BY DEF IInv, TypeOK, DispatchOK
<1> USE DEF InSegment
<1>2. CASE dpc' \notin InSegment
  BY <1>2 DEF ReadbackRight
<1>3. CASE BeginSegment
  BY <1>3 DEF BeginSegment, ReadbackRight
<1>4. CASE CheckCancel
  BY <1>4 DEF CheckCancel, ReadbackRight
<1>5. CASE CheckPause
  <2>1. dpc = "pause" /\ UNCHANGED <<slots, active, pending, frame, seg>>
    BY <1>5 DEF CheckPause
  <2>2. SegEnd(seg)' = SegEnd(seg)
    BY <2>1 DEF SegEnd
  <2>3. ~(dpc' = "readback" /\ frame < SegEnd(seg))
    BY <1>5, PauseLoop
  <2> QED
    BY <2>1, <2>2, <2>3 DEF ReadbackRight
<1>6. CASE RenderFrame
  <2>1. slots' = [slots EXCEPT ![active] = frame] /\ dpc = "render"
        /\ UNCHANGED <<active, pending, frame>>
    BY <1>6 DEF RenderFrame
  <2>2. slots'[active] = frame /\ slots'[1 - active] = slots[1 - active]
    BY <1>1, <2>1
  <2> QED
    BY <2>1, <2>2 DEF ReadbackRight
<1>7. CASE NothingPending \/ PushPending
  <2>1. dpc = "readback" /\ slots' = slots /\ NextFrame
    BY <1>7 DEF NothingPending, PushPending
  <2>2. CASE frame < SegEnd(seg)
    <3>1. /\ pending' = frame /\ active' = 1 - active /\ dpc' = "frame"
      BY <2>1, <2>2 DEF NextFrame
    <3>2. slots[active] = frame
      BY <2>1, <2>2 DEF ReadbackRight
    <3>3. 1 - active' = active
      BY <1>1, <3>1
    <3> QED
      BY <2>1, <3>1, <3>2, <3>3 DEF ReadbackRight
  <2>3. CASE ~(frame < SegEnd(seg))
    <3>1. dpc' = "segmentDone"
      BY <2>1, <2>3 DEF NextFrame
    <3> QED
      BY <1>2, <3>1
  <2> QED
    BY <2>2, <2>3
<1> QED
  BY <1>2, <1>3, <1>4, <1>5, <1>6, <1>7
     DEF Dispatch, LeaveSegments, RenderFails, PushSegmentDone, AfterSegment, Finish, Join,
         FinaliseSync, Report, AfterLoop

LEMMA OthersKeepFrames ==
    ASSUME ExportAssumption, IInv, FrameInv, Start \/ User \/ AudioThread \/ UNCHANGED vars
    PROVE  InFlight' /\ ReadbackRight'
<1>1. InFlight /\ ReadbackRight /\ Spawned
  BY DEF FrameInv, VideoInv
<1>2. /\ UNCHANGED <<queue, vheld, vout, vthen, vmuxErr, muxVideo, framesDone>>
      /\ UNCHANGED <<pending, slots, active, frame, seg>>
  BY DEF Start, SpawnVideo, SpawnAudio, SpawnDispatch, User, Cancel, Pause, Resume,
         AudioThread, OpenClip, MixClip, MixDone, EncodePcmChunk, StopEncoding, EncodeAll,
         WriteAudio, AudioCallDone, vars, videoVars, muxVars, dispatchVars
<1>3. /\ dpc' = dpc \/ dpc' = "segment"
      /\ vpc' = vpc \/ vpc = "unspawned"
  BY <1>1 DEF Spawned, Start, SpawnVideo, SpawnAudio, SpawnDispatch, User,
         Cancel, Pause, Resume, AudioThread, OpenClip, MixClip, MixDone, EncodePcmChunk,
         StopEncoding, EncodeAll, WriteAudio, AudioCallDone, vars, videoVars, dispatchVars
<1>4. SegEnd(seg)' = SegEnd(seg) /\ Coded' = Coded
  BY <1>2 DEF SegEnd, Coded
<1>5. ReadbackRight'
  BY <1>1, <1>2, <1>3, <1>4 DEF ReadbackRight, InSegment
<1>6. InFlight'
  BY <1>1, <1>2, <1>3, <1>4 DEF InFlight, Counts
<1> QED
  BY <1>5, <1>6

LEMMA EncoderKeepsReadback ==
    ASSUME ReadbackRight, EncoderThread  PROVE ReadbackRight'
  BY DEF ReadbackRight, InSegment, SegEnd, EncoderThread, EncodeFrame, SkipMarker, FlushVideo,
         WriteVideo, VideoCallDone, dispatchVars
-----------------------------------------------------------------------------
(* What follows: the conservation of the frames and the contract.          *)

LEMMA FramesInvariance ==
    ASSUME "stale" \notin Faults  PROVE Spec => [](IInv /\ AudioInv /\ FrameInv)
<1> DEFINE All == IInv /\ AudioInv /\ FrameInv
<1>1. Init => All
  BY Initially, InFlightInitially, ExportAssumption
<1>2. All /\ [Next]_vars => All'
  <2>1. SUFFICES ASSUME IInv, AudioInv, FrameInv, [Next]_vars  PROVE All'
    OBVIOUS
  <2>2. VideoInv /\ ReadbackRight
    BY <2>1 DEF FrameInv
  <2>3. IInv'
    BY <2>1, StartStep, UserStep, DispatchStep, EncoderStep, AudioStep, Stutter,
       ExportAssumption DEF Next
  <2>4. AudioInv'
    BY <2>1, AudioKeepsAudio, OthersKeepAudio, ExportAssumption DEF Next
  <2>5. VideoInv'
    BY <2>1, <2>2, EncoderKeepsVideo, DispatchKeepsVideo, OthersKeepVideo,
       ExportAssumption DEF Next
  <2>6. InFlight'
    BY <2>1, EncoderKeepsFrames, DispatchKeepsFrames, OthersKeepFrames,
       ExportAssumption DEF Next
  <2>7. ReadbackRight'
    BY <2>1, <2>2, EncoderKeepsReadback, DispatchKeepsReadback, OthersKeepFrames,
       ExportAssumption DEF Next
  <2> QED
    BY <2>3, <2>4, <2>5, <2>6, <2>7 DEF FrameInv
<1> QED
  BY <1>1, <1>2, PTL DEF Spec

(* Without a worker error the frames in the file, in the packets being     *)
(* written, in the codec and in the queue are, in this order, the frames   *)
(* counted so far, each with its own pixels: for every number of frames,   *)
(* threads and queue places and every set of faults, as long as a frame    *)
(* that was rendered reaches its readback slot (the copy that is skipped   *)
(* without a FINAL_COLOR target is the one thing that breaks this).        *)
THEOREM VideoIsConserved ==
    ASSUME "stale" \notin Faults  PROVE Spec => []VideoConserved
<1>1. IInv /\ FrameInv => VideoConserved
  <2>1. SUFFICES ASSUME IInv, FrameInv, vpc # "err", vthen # "err", ~vmuxErr
                 PROVE  LET out == muxVideo \o vout \o vheld
                        IN  /\ out = FirstFrames(Len(out)) /\ Len(out) <= framesDone
                            /\ {queue[i].data : i \in QueuedFrames}
                                  = Len(out) .. framesDone - 1
                            /\ \A i, j \in QueuedFrames :
                                   i < j => queue[i].data < queue[j].data
    BY DEF VideoConserved
  <2>2. /\ muxVideo \in Seq(Int) /\ vout \in Seq(Int) /\ vheld \in Seq(Int)
        /\ Len(muxVideo) \in Nat /\ Len(vout) \in Nat /\ Len(vheld) \in Nat
        /\ queue \in Seq(Items)
    BY <2>1, TypedLengths, ExportAssumption
  <2>3. /\ Counts(muxVideo, 0) /\ Counts(vout, Len(muxVideo))
        /\ Counts(vheld, Len(muxVideo) + Len(vout)) /\ Coded <= framesDone
        /\ DataOf(queue) = Coded .. framesDone - 1 /\ Rising(queue)
    BY <2>1 DEF FrameInv, InFlight
  <2> DEFINE written == muxVideo \o vout
             out == written \o vheld
  <2>4. /\ written \in Seq(Int) /\ Len(written) = Len(muxVideo) + Len(vout)
        /\ Counts(written, 0)
    BY <2>2, <2>3, CountsConcat
  <2> HIDE DEF written
  <2>5. out \in Seq(Int) /\ Len(out) = Len(written) + Len(vheld) /\ Counts(out, 0)
    BY <2>2, <2>3, <2>4, CountsConcat
  <2> HIDE DEF out
  <2>6. Len(out) = Coded
    BY <2>4, <2>5 DEF Coded
  <2>7. out = FirstFrames(Len(out))
    BY <2>5, CountsFirst
  <2>8. QueuedFrames = FramesOf(queue)
    <3>1. DOMAIN queue = 1 .. Len(queue)
      BY <2>2, LenProperties
    <3> QED
      BY <3>1 DEF QueuedFrames, FramesOf
  <2> QED
    BY <2>3, <2>6, <2>7, <2>8 DEF DataOf, Rising, out, written
<1> QED
  BY <1>1, FramesInvariance, PTL

(* At the end of an export without a worker error the file is complete.    *)
LEMMA FileComplete ==
    ASSUME ExportAssumption, "drain" \notin Faults, IInv, FrameInv, vpc = "ok"
    PROVE  /\ queue = <<>> /\ vheld = <<>> /\ muxVideo = FirstFrames(framesDone)
           /\ Len(muxVideo) = framesDone
<1>1. /\ muxVideo \in Seq(Int) /\ vheld \in Seq(Int) /\ queue \in Seq(Items)
      /\ Len(muxVideo) \in Nat /\ framesDone \in Int
  BY TypedLengths
<1>2. vthen = "ok" /\ Len(vout) = 0 /\ ~vmuxErr
  BY DEF FrameInv, VideoInv, VideoRests
<1>3. Len(queue) = 0 /\ Len(vheld) = 0
  BY <1>2 DEF FrameInv, VideoInv, Markers
<1>4. queue = <<>> /\ vheld = <<>>
  BY <1>1, <1>3, EmptySeq
<1>5. Coded = Len(muxVideo)
  BY <1>1, <1>2, <1>3 DEF Coded
<1>6. /\ Counts(muxVideo, 0) /\ Coded <= framesDone
      /\ DataOf(queue) = Coded .. framesDone - 1
  BY <1>2 DEF FrameInv, InFlight
<1>7. DataOf(queue) = {}
  <2>1. FramesOf(queue) = {}
    BY <1>3 DEF FramesOf
  <2> QED
    BY <2>1 DEF DataOf
<1>8. Len(muxVideo) = framesDone
  <2>1. Len(muxVideo) .. framesDone - 1 = {} /\ Len(muxVideo) <= framesDone
    BY <1>5, <1>6, <1>7
  <2> DEFINE n == Len(muxVideo)
  <2>2. n \in Int /\ framesDone \in Int /\ n .. framesDone - 1 = {} /\ n <= framesDone
    BY <1>1, <2>1
  <2> HIDE DEF n
  <2>3. n \notin n .. framesDone - 1
    BY <2>2
  <2>4. n = framesDone
    BY <2>2, <2>3
  <2> QED
    BY <2>4 DEF n
<1>9. muxVideo = FirstFrames(Len(muxVideo))
  BY <1>1, <1>6, CountsFirst
<1> QED
  BY <1>4, <1>8, <1>9

(* An export that is reported done or cancelled has left nothing in the    *)
(* queue or in the codec, its file holds every frame it counts, and one    *)
(* that is done has mixed every audible clip: as long as, besides, a drain *)
(* that fails is not taken for the end of the stream.                      *)
THEOREM NothingIsLeft ==
    ASSUME "stale" \notin Faults, "drain" \notin Faults
    PROVE  Spec => []NothingLeftBehind
<1>1. IInv /\ AudioInv /\ FrameInv => NothingLeftBehind
  <2>1. SUFFICES ASSUME IInv, AudioInv, FrameInv  PROVE NothingLeftBehind
    OBVIOUS
  <2>2. ASSUME terminal \in {<<"done">>, <<"cancelled">>}
        PROVE  queue = <<>> /\ vheld = <<>> /\ muxVideo = FirstFrames(framesDone)
    <3>1. terminal # <<>>
      BY <2>2
    <3>2. VideoStopped /\ ~FirstError
      BY <2>1, <2>2, <3>1 DEF IInv, Joining, Reported
    <3>3. vpc = "ok"
      BY <3>2 DEF VideoStopped, FirstError
    <3> QED
      BY <2>1, <3>3, FileComplete, ExportAssumption
  <2>3. terminal = <<"done">> => amixed = AudioClips
    BY <2>1 DEF AudioInv, DoneMixedAll
  <2> QED
    BY <2>2, <2>3 DEF NothingLeftBehind
<1> QED
  BY <1>1, FramesInvariance, PTL

-----------------------------------------------------------------------------
(* The threads implement the contract of an export.                        *)

LEMMA ContractInitially == ASSUME Init PROVE Contract!CInit
  BY DEF Init, Contract!CInit

(* A video packet that reaches the muxer is the next frame of the file.    *)
LEMMA WritesNextFrame ==
    ASSUME ExportAssumption, IInv, FrameInv, WriteVideo, muxVideo' # muxVideo
    PROVE  Contract!CWriteVideo
<1>1. /\ muxVideo \in Seq(Int) /\ vout \in Seq(Int)
      /\ Len(muxVideo) \in Nat /\ Len(vout) \in Nat /\ Len(vheld) \in Nat
      /\ framesDone \in 0 .. TotalFrames /\ TotalFrames \in Nat
  BY TypedLengths
<1>2. /\ ~vmuxErr /\ ~finalised /\ muxVideo' = Append(muxVideo, Head(vout)) /\ vout # <<>>
      /\ UNCHANGED <<muxAudio, finalised, cancel, terminal>>
  BY DEF WriteVideo, controlVars
<1>3. Counts(vout, Len(muxVideo)) /\ Coded <= framesDone
  BY <1>2 DEF FrameInv, InFlight
<1>4. Head(vout) = Len(muxVideo) /\ Len(vout) > 0
  BY <1>1, <1>2, <1>3, CountsTail
<1>5. Len(muxVideo) < TotalFrames
  BY <1>1, <1>3, <1>4 DEF Coded
<1> QED
  BY <1>2, <1>4, <1>5 DEF Contract!CWriteVideo

LEMMA WritesNextAudio ==
    ASSUME ExportAssumption, IInv, AudioInv, WriteAudio, muxAudio' # muxAudio
    PROVE  Contract!CWriteAudio
<1>1. /\ muxAudio \in Seq(Int) /\ aout \in Seq(Int)
      /\ Len(muxAudio) \in Nat /\ Len(aout) \in Nat /\ Len(aheld) \in Nat
      /\ aframe \in 0 .. AudioFrames /\ AudioFrames \in Nat
  BY TypedLengths
<1>2. /\ ~amuxErr /\ ~finalised /\ muxAudio' = Append(muxAudio, Head(aout)) /\ aout # <<>>
      /\ UNCHANGED <<muxVideo, finalised, cancel, terminal>>
  BY DEF WriteAudio, controlVars
<1>3. /\ Counts(aout, Len(muxAudio))
      /\ Len(muxAudio) + Len(aout) + Len(aheld) = aframe
  BY <1>2 DEF AudioInv, AudioInOrder
<1>4. Head(aout) = Len(muxAudio) /\ Len(aout) > 0
  BY <1>1, <1>2, <1>3, CountsTail
<1>5. Len(muxAudio) < AudioFrames
  BY <1>1, <1>3, <1>4
<1> QED
  BY <1>2, <1>4, <1>5 DEF Contract!CWriteAudio

(* What is reported is the verdict the contract allows.                    *)
LEMMA ReportsVerdict ==
    ASSUME ExportAssumption, "drain" \notin Faults, IInv, AudioInv, FrameInv, Report
    PROVE  Contract!CVerdict
<1>1. dpc = "report" /\ UNCHANGED <<muxVideo, muxAudio, finalised, cancel>>
  BY DEF Report, muxVars, controlVars
<1>2. finalised /\ terminal = <<>> /\ VideoStopped /\ AudioStopped
  BY <1>1 DEF IInv, Joining, Reported, FrameInv, VideoInv, Sealed
<1>3. FirstError \in BOOLEAN /\ cancel \in BOOLEAN
  BY TypedLengths DEF FirstError, IInv, TypeOK, DispatchOK
<1>4. /\ terminal' \in {<<"done">>, <<"cancelled">>, <<"failed">>}
      /\ terminal' = <<"done">> => ~FirstError /\ ~cancel
      /\ terminal' = <<"cancelled">> => cancel
  BY <1>2, <1>3 DEF Report
<1>5. ASSUME ~FirstError, ~cancel
      PROVE  /\ muxVideo = Contract!FirstFrames(TotalFrames)
             /\ muxAudio = Contract!FirstFrames(AudioFrames)
  <2>1. vpc = "ok" /\ apc = "ok" /\ ~renderErr
    BY <1>2, <1>5 DEF FirstError, VideoStopped, AudioStopped
  <2>2. framesDone = TotalFrames
    BY <1>1, <1>5, <2>1 DEF IInv, Counting, LoopLeft
  <2>3. muxVideo = FirstFrames(TotalFrames)
    BY <2>1, <2>2, FileComplete
  <2>4. athen = "ok" /\ ~amuxErr /\ Len(aout) = 0 /\ Len(aheld) = 0 /\ aframe = AudioFrames
    BY <1>5, <2>1 DEF AudioInv, AudioRests
  <2>5. /\ Counts(muxAudio, 0) /\ Len(muxAudio) + Len(aout) + Len(aheld) = aframe
        /\ muxAudio \in Seq(Int) /\ Len(muxAudio) \in Nat
    BY <2>4, TypedLengths DEF AudioInv, AudioInOrder
  <2>6. Len(muxAudio) = AudioFrames
    BY <2>4, <2>5
  <2>7. muxAudio = FirstFrames(AudioFrames)
    BY <2>5, <2>6, CountsFirst
  <2> QED
    BY <2>3, <2>7 DEF FirstFrames, Contract!FirstFrames
<1> QED
  BY <1>1, <1>2, <1>4, <1>5 DEF Contract!CVerdict

(* Every step of the three threads, of start() and of the user is a step   *)
(* of the contract or leaves what the contract speaks of alone: the file   *)
(* grows frame by frame, is sealed once, and is called done only when it   *)
(* is complete.                                                            *)
THEOREM ContractKept ==
    ASSUME "stale" \notin Faults, "drain" \notin Faults
    PROVE  Spec => KeepsContract
<1>1. ASSUME IInv, AudioInv, FrameInv, [Next]_vars
      PROVE  [Contract!CNext]_Contract!contractVars
  <2>1. ASSUME UNCHANGED <<muxVideo, muxAudio, finalised, cancel, terminal>>
        PROVE  UNCHANGED Contract!contractVars
    BY <2>1 DEF Contract!contractVars
  <2>2. CASE Start \/ Pause \/ Resume \/ UNCHANGED vars
    BY <2>1, <2>2 DEF Start, SpawnVideo, SpawnAudio, SpawnDispatch, Pause, Resume, vars,
                      muxVars, controlVars
  <2>3. CASE Cancel
    BY <2>3 DEF Cancel, muxVars, Contract!CNext, Contract!CCancel
  <2>4. CASE Dispatch /\ ~FinaliseSync /\ ~Report
    BY <2>1, <2>4 DEF Dispatch, BeginSegment, LeaveSegments, CheckCancel, CheckPause,
           RenderFrame, NothingPending, PushPending, RenderFails, PushSegmentDone,
           AfterSegment, Finish, Join, muxVars, controlVars
  <2>5. CASE FinaliseSync
    <3>1. ~finalised
      BY <1>1, <2>5 DEF FinaliseSync, IInv, Joining
    <3> QED
      BY <2>5, <3>1 DEF FinaliseSync, controlVars, Contract!CNext, Contract!CSeal
  <2>6. CASE Report
    BY <1>1, <2>6, ReportsVerdict, ExportAssumption DEF Contract!CNext
  <2>7. CASE EncoderThread
    <3>1. CASE muxVideo' = muxVideo
      BY <2>1, <2>7, <3>1 DEF EncoderThread, EncodeFrame, SkipMarker, FlushVideo,
             WriteVideo, VideoCallDone, muxVars, controlVars
    <3>2. CASE muxVideo' # muxVideo
      <4>1. WriteVideo
        BY <2>7, <3>2 DEF EncoderThread, EncodeFrame, SkipMarker, FlushVideo,
               VideoCallDone, muxVars
      <4> QED
        BY <1>1, <3>2, <4>1, WritesNextFrame, ExportAssumption DEF Contract!CNext
    <3> QED
      BY <3>1, <3>2
  <2>8. CASE AudioThread
    <3>1. CASE muxAudio' = muxAudio
      BY <2>1, <2>8, <3>1 DEF AudioThread, OpenClip, MixClip, MixDone, EncodePcmChunk,
             StopEncoding, EncodeAll, WriteAudio, AudioCallDone, muxVars, controlVars
    <3>2. CASE muxAudio' # muxAudio
      <4>1. WriteAudio
        BY <2>8, <3>2 DEF AudioThread, OpenClip, MixClip, MixDone, EncodePcmChunk,
               StopEncoding, EncodeAll, AudioCallDone, muxVars
      <4> QED
        BY <1>1, <3>2, <4>1, WritesNextAudio, ExportAssumption DEF Contract!CNext
    <3> QED
      BY <3>1, <3>2
  <2> QED
    BY <1>1, <2>2, <2>3, <2>4, <2>5, <2>6, <2>7, <2>8 DEF Next, User
<1> QED
  BY FramesInvariance, ContractInitially, <1>1, PTL
     DEF Spec, KeepsContract, Contract!CSpec
=============================================================================
