------------------------ MODULE NvencPipeline_proofs ------------------------
(***************************************************************************)
(* The zero-copy export for every number of frames, threads and slots: the *)
(* slots never have two owners, a session in trouble is reported, and, as  *)
(* long as no packet is refused by the muxer, the export keeps the         *)
(* contract of ExportContract.                                             *)
(***************************************************************************)
EXTENDS NvencPipeline, SequenceTheorems, TLAPS

-----------------------------------------------------------------------------
(* The partition, as in the proofs of the CPU export *)

\* Rounding up: the quotient covers the dividend.
LEMMA DivCeilCovers ==
    ASSUME NEW a \in Nat \ {0}, NEW b \in Nat \ {0}
    PROVE  /\ DivCeil(a, b) \in Nat \ {0}
           /\ b * DivCeil(a, b) >= a
<1> DEFINE q == (a + b - 1) \div b
<1>1. /\ q \in Int
      /\ b * q <= a + b - 1
      /\ a + b - 1 < b * q + b
    BY SMT
<1>2. b * q >= a
    BY <1>1, SMT
<1>3. q > 0
    BY <1>1, <1>2, SMT
<1> QED  BY <1>1, <1>2, <1>3 DEF DivCeil

LEMMA SegmentSizePositive ==
    ASSUME NEW total \in Nat \ {0}, NEW threads \in Nat \ {0}
    PROVE  /\ SegmentCap(total, threads) \in Nat \ {0}
           /\ SegmentSize(total, threads) \in Nat \ {0}
           /\ SegmentCap(total, threads) * SegmentSize(total, threads) >= total
<1>1. SegmentCap(total, threads) \in Nat \ {0}
    BY DEF SegmentCap
<1> QED  BY <1>1, DivCeilCovers DEF SegmentSize

LEMMA FirstSegment ==
    ASSUME NEW total \in Nat \ {0}, NEW threads \in Nat \ {0}
    PROVE  /\ IsSegment(total, threads, 0)
           /\ SegmentStart(total, threads, 0) = 0
<1>1. 0 * SegmentSize(total, threads) = 0
    BY SegmentSizePositive, SMT
<1> QED  BY <1>1, SegmentSizePositive DEF IsSegment, SegmentStart

\* Every segment lies inside the export and holds at least one frame.
LEMMA SegmentInRange ==
    ASSUME NEW total \in Nat \ {0}, NEW threads \in Nat \ {0}, NEW i \in Nat,
           IsSegment(total, threads, i)
    PROVE  /\ SegmentStart(total, threads, i) \in 0 .. total - 1
           /\ SegmentEnd(total, threads, i) \in 1 .. total
           /\ SegmentStart(total, threads, i) < SegmentEnd(total, threads, i)
<1> DEFINE size == SegmentSize(total, threads)
<1>1. size \in Nat \ {0}
    BY SegmentSizePositive
<1>2. i * size \in Nat
    BY <1>1, SMT
<1> HIDE DEF size
<1>3. i * size < total
    BY DEF IsSegment, SegmentStart, size
<1> QED  BY <1>1, <1>2, <1>3 DEF SegmentStart, SegmentEnd, size

\* Each segment but the first starts where the one before it ends.
LEMMA SegmentsContiguous ==
    ASSUME NEW total \in Nat \ {0}, NEW threads \in Nat \ {0}, NEW i \in Nat,
           IsSegment(total, threads, i + 1)
    PROVE  SegmentEnd(total, threads, i) = SegmentStart(total, threads, i + 1)
<1> DEFINE size == SegmentSize(total, threads)
<1>1. size \in Nat \ {0}
    BY SegmentSizePositive
<1>2. /\ i * size \in Nat
      /\ (i + 1) * size = i * size + size
    BY <1>1, SMT
<1> HIDE DEF size
<1>3. (i + 1) * size < total
    BY DEF IsSegment, SegmentStart, size
<1> QED  BY <1>1, <1>2, <1>3 DEF SegmentStart, SegmentEnd, size

\* Where there is no further segment, the last one has reached the last
\* frame.
LEMMA SegmentsCover ==
    ASSUME NEW total \in Nat \ {0}, NEW threads \in Nat \ {0}, NEW i \in Nat,
           IsSegment(total, threads, i), ~IsSegment(total, threads, i + 1)
    PROVE  SegmentEnd(total, threads, i) = total
<1> DEFINE size == SegmentSize(total, threads)
           cap == SegmentCap(total, threads)
<1>1. /\ size \in Nat \ {0}
      /\ cap \in Nat \ {0}
      /\ cap * size >= total
    BY SegmentSizePositive
<1>2. /\ i * size \in Nat
      /\ (i + 1) * size = i * size + size
    BY <1>1, SMT
<1> HIDE DEF size, cap
<1>3. i < cap /\ (i + 1 >= cap \/ (i + 1) * size >= total)
    BY <1>1 DEF IsSegment, SegmentStart, size, cap
<1>4. i + 1 = cap => (i + 1) * size >= total
    BY <1>1
<1>5. i * size + size >= total
    BY <1>1, <1>2, <1>3, <1>4
<1> QED  BY <1>1, <1>2, <1>5 DEF IsSegment, SegmentStart, SegmentEnd, size, cap

-----------------------------------------------------------------------------
(* Where the dispatch thread is *)

MuxesFor(place) == dpc = "mux" /\ then = place

\* The next frame of the segment is due.
Due == dpc \in {"pause", "paused", "reclaim", "render"} \/ MuxesFor("render")

\* A picture was submitted that framesDone does not count yet.
JustSubmitted == dpc \in {"collect", "submitted"} \/ MuxesFor("submitted")

Looping == dpc \in {"frame", "wait", "submit"} \/ Due \/ JustSubmitted

Ending == dpc \in {"joinAudio", "finalise", "report", "exit"}

\* No render was dropped: the frames given to the GPU are all accounted for.
Unbroken == Looping \/ (dpc \in {"after", "segment"} /\ ~cancel)

-----------------------------------------------------------------------------
(* The inductive invariant, whatever fails *)

\* What TypeOK says of the variables the other parts do not bound.
Domains ==
    /\ cancel \in BOOLEAN /\ pause \in BOOLEAN /\ pauses \in 0 .. MaxPauses
    /\ async \in BOOLEAN
    /\ dpc \in DispatchPcs /\ then \in {"render", "submitted", "joinAudio"}
    /\ seg \in Nat /\ frame \in 0 .. TotalFrames /\ framesDone \in Nat
    /\ inflight \in Seq(0 .. TotalFrames - 1)
    /\ gpuQueue \in Seq(0 .. TotalFrames - 1)
    /\ slotData \in [Slots -> Pixels]
    /\ pending \in Seq(Pictures)
    /\ poisoned \in BOOLEAN /\ eosSent \in BOOLEAN
    /\ got \in Seq(Packets) /\ error \in BOOLEAN
    /\ muxVideo \in Seq(Packets)

\* The loop is in its segment, and leaves it at the next one's first frame.
Position ==
    /\ Looping => HasSeg /\ frame <= SegEnd
    /\ Due => frame < SegEnd
    /\ dpc = "after" /\ ~cancel => HasSeg /\ frame = SegEnd
    /\ dpc = "segment" /\ ~cancel =>
          frame = IF HasSeg THEN SegmentStart(TotalFrames, RenderThreads, seg) ELSE TotalFrames
    /\ ~(Looping \/ dpc \in {"after", "segment"}) /\ ~cancel /\ ~error => frame = TotalFrames

\* How far rendering runs ahead of the encoder.
Ahead ==
    /\ ~Looping => inflight = <<>>
    /\ Len(inflight) <= Lookahead \/ (dpc \in {"wait", "submit"} /\ Len(inflight) = Lookahead + 1)
    /\ dpc \in {"wait", "submit"} => inflight # <<>>
    /\ framesDone <= frame
    /\ Unbroken => framesDone + Len(inflight) = IF JustSubmitted THEN frame - 1 ELSE frame
    /\ Unbroken => Len(gpuQueue) <= Len(inflight)
    /\ dpc = "submit" => Len(gpuQueue) < Len(inflight)

\* The GPU, the renders in flight and NVENC hold runs of consecutive frames up
\* to the last one rendered; those of NVENC and of the GPU do not overlap, and
\* together they fit into the slots.
Window ==
    /\ \A g \in 1 .. Len(gpuQueue) : gpuQueue[g] = frame - Len(gpuQueue) + g - 1
    /\ \A i \in 1 .. Len(inflight) : inflight[i] = frame - Len(inflight) + i - 1
    /\ \A i \in 1 .. Len(pending) : /\ pending[i].pts = pending[1].pts + i - 1
                                    /\ pending[i].slot = SlotOf(pending[i].pts)
    /\ Len(pending) > 0 =>
         /\ pending[1].pts + Len(pending) + Len(gpuQueue) <= frame
         /\ frame - pending[1].pts <= SlotCount
         /\ Unbroken => pending[1].pts + Len(pending) + Len(inflight) = frame
         /\ dpc = "render" \/ MuxesFor("render") => frame - pending[1].pts < SlotCount

Verdicts ==
    /\ poisoned => error /\ Ending
    /\ Ending => (Len(pending) = 0 /\ Len(got) = 0)
    /\ MuxesFor("joinAudio") => Len(pending) = 0
    /\ finalised \in BOOLEAN /\ (finalised <=> dpc \in {"report", "exit"})
    /\ trailer = IF ~finalised THEN "none" ELSE IF error THEN trailer ELSE "written"
    /\ trailer \in {"none", "written", "failed"}
    /\ terminal = <<>> <=> dpc # "exit"
    /\ terminal \in {<<>>, <<"done">>, <<"cancelled">>, <<"failed">>}
    /\ terminal # <<>> => (error <=> terminal = <<"failed">>)

IInv == Domains /\ Position /\ Ahead /\ Window /\ Verdicts

-----------------------------------------------------------------------------
(* The part that needs every render to draw *)

\* A picture that was not read yet is still in its slot, and so is a render
\* the GPU has finished.
Drawn ==
    /\ \A i \in 1 .. Len(pending) :
         IF pending[i].ready THEN pending[i].data = pending[i].pts
         ELSE slotData[SlotOf(pending[i].pts)] = pending[i].pts
    /\ \A i \in 1 .. Len(inflight) :
         inflight[i] < frame - Len(gpuQueue) => slotData[SlotOf(inflight[i])] = inflight[i]
    /\ \A i \in 1 .. Len(got) : got[i].data = got[i].pts
    /\ \A i \in 1 .. Len(muxVideo) : muxVideo[i].data = muxVideo[i].pts

-----------------------------------------------------------------------------
(* The part that needs every packet to be written *)

\* The file, the packets in hand and the pictures in NVENC are the first frames.
Conserved ==
    /\ error => Ending
    /\ \A i \in 1 .. Len(muxVideo) : muxVideo[i].pts = i - 1
    /\ ~error =>
         /\ \A i \in 1 .. Len(got) : got[i].pts = Len(muxVideo) + i - 1
         /\ \A i \in 1 .. Len(pending) :
              pending[i].pts = Len(muxVideo) + Len(got) + i - 1
         /\ \A i \in 1 .. Len(inflight) :
              inflight[i] = Len(muxVideo) + Len(got) + Len(pending) + i - 1
         /\ Len(muxVideo) + Len(got) + Len(pending) <= frame
         /\ Unbroken \/ ~cancel =>
              Len(muxVideo) + Len(got) + Len(pending) + Len(inflight) = frame
    /\ error => Len(muxVideo) <= frame

-----------------------------------------------------------------------------
(* What the steps do to the queues *)

\* A queue that lost its head, and one that got a new last element.
LEMMA Popped ==
    ASSUME NEW S, NEW s \in Seq(S), s # <<>>
    PROVE  /\ Len(s) \in Nat /\ Len(s) > 0 /\ Head(s) = s[1] /\ s[1] \in S
           /\ Tail(s) \in Seq(S) /\ Len(Tail(s)) = Len(s) - 1
           /\ \A i \in 1 .. Len(s) - 1 : Tail(s)[i] = s[i + 1]
<1>1. Len(s) \in Nat /\ Len(s) > 0
    BY EmptySeq, LenProperties
<1> QED  BY <1>1, HeadTailProperties, ElementOfSeq

LEMMA Pushed ==
    ASSUME NEW S, NEW s \in Seq(S), NEW e \in S
    PROVE  /\ Append(s, e) \in Seq(S) /\ Len(Append(s, e)) = Len(s) + 1
           /\ \A i \in 1 .. Len(s) : Append(s, e)[i] = s[i]
           /\ Append(s, e)[Len(s) + 1] = e
BY AppendProperties

LEMMA Nothing ==
    ASSUME NEW S
    PROVE  <<>> \in Seq(S) /\ Len(<<>>) = 0
BY EmptySeq

LEMMA Lengths ==
    ASSUME Domains
    PROVE  /\ Len(inflight) \in Nat /\ Len(gpuQueue) \in Nat /\ Len(pending) \in Nat
           /\ Len(got) \in Nat /\ Len(muxVideo) \in Nat
           /\ inflight = <<>> <=> Len(inflight) = 0
           /\ gpuQueue = <<>> <=> Len(gpuQueue) = 0
           /\ pending = <<>> <=> Len(pending) = 0
           /\ got = <<>> <=> Len(got) = 0
BY EmptySeq, LenProperties DEF Domains

\* The pictures and packets in the queues.
LEMMA Elements ==
    ASSUME Domains
    PROVE  /\ \A i \in 1 .. Len(pending) :
                 /\ pending[i] \in Pictures /\ pending[i].pts \in 0 .. TotalFrames - 1
                 /\ pending[i].slot \in Slots /\ pending[i].ready \in BOOLEAN
                 /\ pending[i].data \in Pixels
           /\ \A i \in 1 .. Len(got) : got[i] \in Packets /\ got[i].pts \in 0 .. TotalFrames - 1
           /\ \A i \in 1 .. Len(inflight) : inflight[i] \in 0 .. TotalFrames - 1
           /\ \A i \in 1 .. Len(gpuQueue) : gpuQueue[i] \in 0 .. TotalFrames - 1
<1>1. \A i \in 1 .. Len(pending) : pending[i] \in Pictures
    BY ElementOfSeq DEF Domains
<1>2. \A i \in 1 .. Len(got) : got[i] \in Packets
    BY ElementOfSeq DEF Domains
<1>3. \A i \in 1 .. Len(inflight) : inflight[i] \in 0 .. TotalFrames - 1
    BY ElementOfSeq DEF Domains
<1>4. \A i \in 1 .. Len(gpuQueue) : gpuQueue[i] \in 0 .. TotalFrames - 1
    BY ElementOfSeq DEF Domains
<1> QED  BY <1>1, <1>2, <1>3, <1>4 DEF Pictures, Packets

LEMMA LookaheadFits ==
    /\ Lookahead \in Nat \ {0} /\ Lookahead < SlotCount
BY NvencAssumption DEF Lookahead

LEMMA TakeEffect ==
    ASSUME Domains, TakeOldest
    PROVE  /\ Len(pending) > 0 /\ pending[1].ready
           /\ pending' \in Seq(Pictures) /\ Len(pending') = Len(pending) - 1
           /\ \A i \in 1 .. Len(pending) - 1 : pending'[i] = pending[i + 1]
           /\ got' \in Seq(Packets) /\ Len(got') = Len(got) + 1
           /\ \A i \in 1 .. Len(got) : got'[i] = got[i]
           /\ got'[Len(got) + 1] = [pts |-> pending[1].pts, data |-> pending[1].data]
<1> DEFINE packet == [pts |-> pending[1].pts, data |-> pending[1].data]
<1>1. pending \in Seq(Pictures) /\ pending # <<>> /\ got \in Seq(Packets)
    BY DEF Domains, TakeOldest
<1>2. Len(pending) > 0 /\ Len(pending) \in Nat /\ Head(pending) = pending[1]
    BY <1>1, Popped
<1>3. packet \in Packets
    BY <1>2, Elements DEF Packets
<1>4. pending' = Tail(pending) /\ got' = Append(got, packet) /\ pending[1].ready
    BY <1>2 DEF TakeOldest
<1>5. /\ Tail(pending) \in Seq(Pictures) /\ Len(Tail(pending)) = Len(pending) - 1
      /\ \A i \in 1 .. Len(pending) - 1 : Tail(pending)[i] = pending[i + 1]
    BY <1>1, Popped
<1>6. /\ Append(got, packet) \in Seq(Packets) /\ Len(Append(got, packet)) = Len(got) + 1
      /\ \A i \in 1 .. Len(got) : Append(got, packet)[i] = got[i]
      /\ Append(got, packet)[Len(got) + 1] = packet
    BY <1>1, <1>3, Pushed
<1> QED  BY <1>2, <1>4, <1>5, <1>6

LEMMA GpuEffect ==
    ASSUME Domains, GpuExecutes
    PROVE  /\ Len(gpuQueue) > 0
           /\ gpuQueue' \in Seq(0 .. TotalFrames - 1) /\ Len(gpuQueue') = Len(gpuQueue) - 1
           /\ \A g \in 1 .. Len(gpuQueue) - 1 : gpuQueue'[g] = gpuQueue[g + 1]
           /\ \/ slotData' = slotData /\ "stale" \in Faults
              \/ slotData' = [slotData EXCEPT ![SlotOf(gpuQueue[1])] = gpuQueue[1]]
<1>1. gpuQueue \in Seq(0 .. TotalFrames - 1) /\ gpuQueue # <<>> /\ gpuQueue' = Tail(gpuQueue)
    BY DEF Domains, GpuExecutes
<1>2. Head(gpuQueue) = gpuQueue[1]
    BY <1>1, Popped
<1>3. \/ slotData' = slotData /\ "stale" \in Faults
      \/ slotData' = [slotData EXCEPT ![SlotOf(gpuQueue[1])] = gpuQueue[1]]
    BY <1>2 DEF GpuExecutes, Succeeds
<1> QED  BY <1>1, <1>3, Popped

LEMMA EncodeEffect ==
    ASSUME Domains, NvencEncodes
    PROVE  /\ pending' \in Seq(Pictures) /\ Len(pending') = Len(pending)
           /\ \A i \in 1 .. Len(pending) :
                 /\ pending'[i].pts = pending[i].pts /\ pending'[i].slot = pending[i].slot
                 /\ \/ pending'[i].ready = pending[i].ready /\ pending'[i].data = pending[i].data
                    \/ ~pending[i].ready /\ pending'[i].data = slotData[pending[i].slot]
<1>1. pending \in Seq(Pictures) /\ DOMAIN pending = 1 .. Len(pending) /\ Len(pending) \in Nat
    BY LenProperties DEF Domains
<1>2. PICK k \in 1 .. Len(pending) :
          /\ ~pending[k].ready
          /\ pending' = [pending EXCEPT ![k].ready = TRUE, ![k].data = slotData[pending[k].slot]]
    BY <1>1 DEF NvencEncodes
<1> DEFINE picture == [[pending[k] EXCEPT !.ready = TRUE] EXCEPT !.data = slotData[pending[k].slot]]
<1>3. pending[k] \in Pictures /\ slotData[pending[k].slot] \in Pixels
    BY <1>1, Elements DEF Domains
<1>4. picture \in Pictures /\ picture.pts = pending[k].pts /\ picture.slot = pending[k].slot
      /\ picture.data = slotData[pending[k].slot]
    BY <1>3 DEF Pictures
<1>5. pending' = [pending EXCEPT ![k] = picture]
    BY <1>1, <1>2
<1> HIDE DEF picture
<1>6. pending' \in Seq(Pictures) /\ Len(pending') = Len(pending)
    BY <1>1, <1>4, <1>5
<1> QED  BY <1>1, <1>2, <1>4, <1>5, <1>6

LEMMA RenderEffect ==
    ASSUME Domains, Position, Render
    PROVE  /\ frame < TotalFrames /\ frame' = frame + 1
           /\ gpuQueue' \in Seq(0 .. TotalFrames - 1) /\ Len(gpuQueue') = Len(gpuQueue) + 1
           /\ \A g \in 1 .. Len(gpuQueue) : gpuQueue'[g] = gpuQueue[g]
           /\ gpuQueue'[Len(gpuQueue) + 1] = frame
           /\ inflight' \in Seq(0 .. TotalFrames - 1) /\ Len(inflight') = Len(inflight) + 1
           /\ \A i \in 1 .. Len(inflight) : inflight'[i] = inflight[i]
           /\ inflight'[Len(inflight) + 1] = frame
<1>1. frame < SegEnd /\ HasSeg /\ frame \in Nat /\ seg \in Nat
    BY DEF Render, Position, Due, Looping, Domains
<1>2. frame \in 0 .. TotalFrames - 1
    BY <1>1, NvencAssumption, SegmentInRange DEF SegEnd, HasSeg
<1>3. gpuQueue \in Seq(0 .. TotalFrames - 1) /\ inflight \in Seq(0 .. TotalFrames - 1)
    BY DEF Domains
<1> QED  BY <1>2, <1>3, Pushed, NvencAssumption DEF Render

LEMMA SubmitEffect ==
    ASSUME Domains, Ahead, SubmitPicture, dpc' # "joinAudio"
    PROVE  /\ Len(inflight) > 0
           /\ \A i \in 1 .. Len(pending) : pending[i].slot # SlotOf(inflight[1])
           /\ pending' \in Seq(Pictures) /\ Len(pending') = Len(pending) + 1
           /\ \A i \in 1 .. Len(pending) : pending'[i] = pending[i]
           /\ pending'[Len(pending) + 1] =
                 [pts |-> inflight[1], slot |-> SlotOf(inflight[1]), ready |-> FALSE,
                  data |-> NoFrame]
           /\ inflight' \in Seq(0 .. TotalFrames - 1) /\ Len(inflight') = Len(inflight) - 1
           /\ \A i \in 1 .. Len(inflight) - 1 : inflight'[i] = inflight[i + 1]
           /\ dpc' = "collect" /\ UNCHANGED <<poisoned, got, error>>
<1> DEFINE picture == [pts |-> inflight[1], slot |-> SlotOf(inflight[1]), ready |-> FALSE,
                       data |-> NoFrame]
<1>1. /\ inflight \in Seq(0 .. TotalFrames - 1) /\ inflight # <<>>
      /\ pending \in Seq(Pictures) /\ DOMAIN pending = 1 .. Len(pending)
    BY LenProperties DEF Domains, Ahead, SubmitPicture
<1>2. Head(inflight) = inflight[1] /\ inflight[1] \in 0 .. TotalFrames - 1
    BY <1>1, Popped
<1>3. SlotOf(inflight[1]) \in Slots
    BY <1>2, NvencAssumption DEF SlotOf, Slots
<1>4. picture \in Pictures
    BY <1>2, <1>3 DEF Pictures, Pixels
<1>5. /\ pending' = Append(pending, picture) /\ inflight' = Tail(inflight)
      /\ dpc' = "collect" /\ UNCHANGED <<poisoned, got, error>>
    BY <1>2 DEF SubmitPicture, Poison
<1>6. \A i \in 1 .. Len(pending) : pending[i].slot # SlotOf(inflight[1])
    BY <1>1, <1>2 DEF SubmitPicture, Busy
<1> HIDE DEF picture
<1>7. /\ Append(pending, picture) \in Seq(Pictures)
      /\ Len(Append(pending, picture)) = Len(pending) + 1
      /\ \A i \in 1 .. Len(pending) : Append(pending, picture)[i] = pending[i]
      /\ Append(pending, picture)[Len(pending) + 1] = picture
    BY <1>1, <1>4, Pushed
<1>8. /\ Len(inflight) > 0
      /\ Tail(inflight) \in Seq(0 .. TotalFrames - 1) /\ Len(Tail(inflight)) = Len(inflight) - 1
      /\ \A i \in 1 .. Len(inflight) - 1 : Tail(inflight)[i] = inflight[i + 1]
    BY <1>1, Popped
<1> QED  BY <1>5, <1>6, <1>7, <1>8 DEF picture

LEMMA MuxEffect ==
    ASSUME Domains, MuxPacket
    PROVE  /\ Len(got) > 0
           /\ got' \in Seq(Packets) /\ Len(got') = Len(got) - 1
           /\ \A i \in 1 .. Len(got) - 1 : got'[i] = got[i + 1]
           /\ \/ /\ muxVideo' \in Seq(Packets) /\ Len(muxVideo') = Len(muxVideo) + 1
                 /\ \A i \in 1 .. Len(muxVideo) : muxVideo'[i] = muxVideo[i]
                 /\ muxVideo'[Len(muxVideo) + 1] = got[1]
                 /\ error' = error
              \/ /\ muxVideo' = muxVideo
                 /\ error' = (error \/ then = "joinAudio")
                 /\ "mux" \in Faults \/ (then = "joinAudio" /\ error)
<1>1. got \in Seq(Packets) /\ got # <<>> /\ muxVideo \in Seq(Packets) /\ got' = Tail(got)
    BY DEF Domains, MuxPacket
<1>2. Head(got) = got[1] /\ got[1] \in Packets
    BY <1>1, Popped
<1>3. \/ muxVideo' = Append(muxVideo, got[1]) /\ error' = error
      \/ /\ muxVideo' = muxVideo
         /\ error' = (error \/ then = "joinAudio")
         /\ "mux" \in Faults \/ (then = "joinAudio" /\ error)
    BY <1>2 DEF MuxPacket, Succeeds
<1>4. /\ Append(muxVideo, got[1]) \in Seq(Packets)
      /\ Len(Append(muxVideo, got[1])) = Len(muxVideo) + 1
      /\ \A i \in 1 .. Len(muxVideo) : Append(muxVideo, got[1])[i] = muxVideo[i]
      /\ Append(muxVideo, got[1])[Len(muxVideo) + 1] = got[1]
    BY <1>1, <1>2, Pushed
<1> QED  BY <1>1, <1>3, <1>4, Popped

\* The steps that only move the dispatch thread or the user's wishes.
Moves ==
    \/ User \/ EndOfLoop \/ CheckPause \/ Reclaimed \/ WaitForGpu \/ Collected
    \/ DrainSegment \/ FlushDone \/ MuxDone
    \/ BeginSegment \/ Submitted \/ AfterSegment \/ JoinAudio \/ FinaliseSync \/ Report
    \/ (FlushNvenc /\ ~Poison) \/ (CheckCancel /\ ~SeesCancel)

\* The steps that leave the render loop with an error.
Fails ==
    /\ Poison \/ LoopFails
    /\ dpc \in {"reclaim", "render", "submit", "collect", "flush", "mux"}
    /\ UNCHANGED <<controlVars, then, loopVars, gpuQueue, slotData, muxVars, terminal>>
    /\ eosSent' \in BOOLEAN

Takes ==
    /\ TakeOldest
    /\ dpc \in {"reclaim", "collect"} \/ (dpc = "flush" /\ eosSent)
    /\ UNCHANGED <<controlVars, dpc, then, loopVars, inflight, gpuQueue, slotData, poisoned, eosSent,
                   error, muxVars, terminal>>

LEMMA NextSteps ==
    ASSUME Domains, [Next]_vars
    PROVE  \/ Moves \/ Fails \/ Takes
           \/ (CheckCancel /\ SeesCancel)
           \/ GpuExecutes \/ NvencEncodes \/ Render \/ (SubmitPicture /\ dpc' # "joinAudio")
           \/ MuxPacket \/ UNCHANGED vars
<1>1. eosSent \in BOOLEAN
    BY DEF Domains
<1>2. CASE Reclaim
    BY <1>1, <1>2 DEF Reclaim, Takes, Fails
<1>3. CASE Collect
    BY <1>1, <1>3 DEF Collect, Takes, Fails
<1>4. CASE FlushTakes
    BY <1>1, <1>4 DEF FlushTakes, Takes, Fails
<1>5. CASE SubmitPicture
    BY <1>1, <1>5 DEF SubmitPicture, Fails, Poison
<1>6. CASE FlushNvenc
    BY <1>1, <1>6 DEF FlushNvenc, Fails, Moves
<1>7. CASE LoopFails
    BY <1>1, <1>7 DEF LoopFails, Fails
<1> QED
    BY <1>2, <1>3, <1>4, <1>5, <1>6, <1>7 DEF Next, Dispatch, Moves

LEMMA MovesEffect ==
    ASSUME Domains, Moves
    PROVE  UNCHANGED <<inflight, gpuQueue, slotData, pending, got, muxVideo, poisoned, async>>
<1>1. CASE User
    BY <1>1 DEF User, Cancel, Pause, Resume, nvencVars, muxVars
<1>2. CASE FlushNvenc /\ ~Poison
    BY <1>2 DEF FlushNvenc, muxVars, controlVars
<1>3. CASE CheckCancel /\ ~SeesCancel
    BY <1>3 DEF CheckCancel, nvencVars, muxVars, controlVars
<1>4. CASE Reclaimed
    BY <1>4 DEF Reclaimed, ReclaimedPackets, nvencVars, muxVars, controlVars
<1> QED
    BY <1>1, <1>2, <1>3, <1>4
    DEF Moves, EndOfLoop, CheckPause, WaitForGpu, Collected, DrainSegment, FlushDone, MuxDone,
        BeginSegment, Submitted, AfterSegment, JoinAudio, FinaliseSync, Report, controlVars,
        nvencVars, muxVars

-----------------------------------------------------------------------------
(* The domains *)

LEMMA NextKeepsDomains ==
    ASSUME Domains, Position, Ahead, [Next]_vars  PROVE Domains'
<1> USE NvencAssumption
<1>1. CASE Moves
    <2>1. /\ slotData' \in [Slots -> Pixels] /\ pending' \in Seq(Pictures)
          /\ got' \in Seq(Packets) /\ muxVideo' \in Seq(Packets)
          /\ inflight' \in Seq(0 .. TotalFrames - 1) /\ gpuQueue' \in Seq(0 .. TotalFrames - 1)
          /\ poisoned' \in BOOLEAN /\ async' \in BOOLEAN
        BY <1>1, MovesEffect DEF Domains
    <2>2. CASE User
        <3>1. cancel' \in BOOLEAN /\ pause' \in BOOLEAN
            BY <2>2 DEF User, Cancel, Pause, Resume, Domains
        <3>2. pauses' \in 0 .. MaxPauses
            BY <2>2 DEF User, Cancel, Pause, Resume, Domains
        <3>3. UNCHANGED <<dpc, then, seg, frame, framesDone, eosSent, error>>
            BY <2>2 DEF User, Cancel, Pause, Resume, loopVars, nvencVars
        <3> QED  BY <2>1, <3>1, <3>2, <3>3 DEF Domains
    <2>3. CASE EndOfLoop \/ CheckPause \/ Reclaimed \/ WaitForGpu \/ Collected \/ DrainSegment
               \/ FlushDone \/ MuxDone \/ FinaliseSync \/ Report
        <3>1. UNCHANGED <<cancel, pause, pauses, seg, frame, framesDone, eosSent>>
            BY <2>3
            DEF EndOfLoop, CheckPause, Reclaimed, WaitForGpu, Collected, DrainSegment, FlushDone,
                MuxDone, FinaliseSync, Report, controlVars, loopVars, nvencVars
        <3>2. dpc' \in DispatchPcs /\ then' \in {"render", "submitted", "joinAudio"}
            BY <2>3
            DEF EndOfLoop, CheckPause, Reclaimed, WaitForGpu, Collected, DrainSegment, FlushDone,
                MuxDone, FinaliseSync, Report, Domains, DispatchPcs
        <3>3. error' \in BOOLEAN
            BY <2>3
            DEF EndOfLoop, CheckPause, Reclaimed, WaitForGpu, Collected, DrainSegment, FlushDone,
                MuxDone, FinaliseSync, Report, Domains
        <3> QED  BY <2>1, <3>1, <3>2, <3>3 DEF Domains
    <2>4. CASE BeginSegment
        <3>1. SegmentStart(TotalFrames, RenderThreads, seg) \in 0 .. TotalFrames
            BY <2>4, SegmentInRange DEF BeginSegment, HasSeg, Domains
        <3> QED
            BY <2>1, <2>4, <3>1 DEF BeginSegment, Domains, DispatchPcs, controlVars, nvencVars
    <2>5. CASE Submitted \/ AfterSegment
        <3>1. UNCHANGED <<cancel, pause, pauses, then, frame, eosSent, error>>
            BY <2>5 DEF Submitted, AfterSegment, controlVars, nvencVars
        <3>2. framesDone' \in Nat /\ seg' \in Nat
            BY <2>5 DEF Submitted, AfterSegment, Domains
        <3>3. dpc' \in DispatchPcs
            BY <2>5 DEF Submitted, AfterSegment, DispatchPcs
        <3> QED  BY <2>1, <3>1, <3>2, <3>3 DEF Domains
    <2>6. CASE JoinAudio
        BY <2>1, <2>6 DEF JoinAudio, Domains, DispatchPcs, controlVars, loopVars, nvencVars
    <2>7. CASE (FlushNvenc /\ ~Poison) \/ (CheckCancel /\ ~SeesCancel)
        BY <2>1, <2>7
        DEF FlushNvenc, CheckCancel, Domains, DispatchPcs, controlVars, loopVars, nvencVars
    <2> QED  BY <1>1, <2>2, <2>3, <2>4, <2>5, <2>6, <2>7 DEF Moves
<1>2. CASE Fails
    BY <1>2, Nothing
    DEF Fails, Poison, LoopFails, Domains, DispatchPcs, controlVars, loopVars, muxVars
<1>3. CASE Takes
    BY <1>3, TakeEffect DEF Takes, Domains, controlVars, loopVars, muxVars
<1>4. CASE CheckCancel /\ SeesCancel
    BY <1>4, Nothing
    DEF CheckCancel, Domains, DispatchPcs, controlVars, loopVars, nvencVars, muxVars
<1>5. CASE GpuExecutes
    <2>1. slotData' \in [Slots -> Pixels]
        <3>1. Head(gpuQueue) \in Pixels
            BY <1>5, Popped DEF GpuExecutes, Domains, Pixels
        <3> QED  BY <1>5, <3>1 DEF GpuExecutes, Domains
    <2>2. gpuQueue' \in Seq(0 .. TotalFrames - 1)
        BY <1>5, GpuEffect
    <2> QED
        BY <1>5, <2>1, <2>2 DEF GpuExecutes, Domains, controlVars, loopVars, nvencVars, muxVars
<1>6. CASE NvencEncodes
    BY <1>6, EncodeEffect
    DEF NvencEncodes, Domains, controlVars, loopVars, muxVars
<1>7. CASE Render
    <2>1. /\ frame' \in 0 .. TotalFrames
          /\ gpuQueue' \in Seq(0 .. TotalFrames - 1) /\ inflight' \in Seq(0 .. TotalFrames - 1)
        <3>1. /\ frame < TotalFrames /\ frame' = frame + 1
              /\ gpuQueue' \in Seq(0 .. TotalFrames - 1) /\ inflight' \in Seq(0 .. TotalFrames - 1)
            BY <1>7, RenderEffect
        <3>2. frame \in 0 .. TotalFrames /\ TotalFrames \in Nat
            BY NvencAssumption DEF Domains
        <3>3. frame + 1 \in 0 .. TotalFrames
            BY <3>1, <3>2
        <3> QED  BY <3>1, <3>3
    <2> QED
        BY <1>7, <2>1 DEF Render, Domains, DispatchPcs, controlVars, nvencVars, muxVars
<1>8. CASE SubmitPicture /\ dpc' # "joinAudio"
    <2>1. /\ pending' \in Seq(Pictures) /\ inflight' \in Seq(0 .. TotalFrames - 1)
          /\ dpc' = "collect" /\ UNCHANGED <<poisoned, got, error>>
        BY <1>8, SubmitEffect
    <2> QED
        BY <1>8, <2>1 DEF SubmitPicture, Domains, DispatchPcs, controlVars, loopVars, muxVars
<1>9. CASE MuxPacket
    <2>1. got' \in Seq(Packets) /\ muxVideo' \in Seq(Packets) /\ error' \in BOOLEAN
        BY <1>9, MuxEffect DEF Domains
    <2> QED
        BY <1>9, <2>1 DEF MuxPacket, Domains, controlVars, loopVars, nvencVars
<1>10. CASE UNCHANGED vars
    BY <1>10 DEF vars, Domains, controlVars, loopVars, nvencVars, muxVars
<1> QED
    BY <1>1, <1>2, <1>3, <1>4, <1>5, <1>6, <1>7, <1>8, <1>9, <1>10, NextSteps

-----------------------------------------------------------------------------
(* The position in the segments *)

\* The bounds of the current segment are numbers.
LEMMA SegmentBounds ==
    ASSUME Domains, HasSeg
    PROVE  /\ SegEnd \in 1 .. TotalFrames
           /\ SegmentStart(TotalFrames, RenderThreads, seg) \in 0 .. TotalFrames - 1
           /\ SegmentStart(TotalFrames, RenderThreads, seg) < SegEnd
BY SegmentInRange, NvencAssumption DEF Domains, HasSeg, SegEnd

LEMMA NextKeepsPosition ==
    ASSUME Domains, Position, [Next]_vars  PROVE Position'
<1>0. frame \in Nat /\ error \in BOOLEAN /\ cancel \in BOOLEAN /\ (HasSeg => SegEnd \in Nat)
    BY SegmentBounds DEF Domains
<1>1. ASSUME UNCHANGED <<dpc, then, seg, frame>>, cancel => cancel', error => error'
      PROVE  Position'
    BY <1>0, <1>1
    DEF Position, Looping, Due, JustSubmitted, MuxesFor, HasSeg, SegEnd
<1>2. CASE User
    BY <1>1, <1>2 DEF User, Cancel, Pause, Resume, loopVars
<1>3. CASE BeginSegment
    <2>1. /\ HasSeg /\ dpc' = "frame" /\ UNCHANGED seg
          /\ frame' = SegmentStart(TotalFrames, RenderThreads, seg)
        BY <1>3 DEF BeginSegment
    <2>2. frame' <= SegEnd
        BY <2>1, SegmentBounds
    <2> QED
        BY <2>1, <2>2
        DEF Position, Looping, Due, JustSubmitted, MuxesFor, HasSeg, SegEnd
<1>4. CASE AfterSegment
    <2>1. /\ dpc = "after" /\ dpc' = "segment" /\ UNCHANGED <<cancel, frame>>
          /\ ~cancel => seg' = seg + 1
        BY <1>4 DEF AfterSegment, controlVars
    <2>2. CASE cancel
        BY <2>1, <2>2 DEF Position, Looping, Due, JustSubmitted, MuxesFor
    <2>3. CASE ~cancel
        <3>1. HasSeg /\ frame = SegEnd /\ seg' = seg + 1 /\ seg \in Nat
            BY <2>1, <2>3 DEF Position, Domains
        <3>2. frame = IF HasSeg' THEN SegmentStart(TotalFrames, RenderThreads, seg')
                      ELSE TotalFrames
            BY <3>1, NvencAssumption, SegmentsContiguous, SegmentsCover DEF HasSeg, SegEnd
        <3> QED
            BY <2>1, <3>2 DEF Position, Looping, Due, JustSubmitted, MuxesFor, HasSeg
    <2> QED  BY <2>2, <2>3
<1>5. CASE Render
    BY <1>0, <1>5 DEF Render, Position, Looping, Due, JustSubmitted, MuxesFor, HasSeg, SegEnd
<1>6. CASE EndOfLoop
    BY <1>6
    DEF EndOfLoop, controlVars, loopVars, Position, Looping, Due, JustSubmitted, MuxesFor
<1>7. CASE DrainSegment
    BY <1>0, <1>7
    DEF DrainSegment, loopVars, controlVars, Position, Looping, Due, JustSubmitted, MuxesFor, HasSeg,
        SegEnd
<1>8. CASE CheckCancel
    BY <1>8
    DEF CheckCancel, SeesCancel, loopVars, controlVars, Position, Looping, Due, JustSubmitted,
        MuxesFor, HasSeg, SegEnd
<1>9. CASE CheckPause \/ Reclaimed \/ WaitForGpu \/ Collected \/ MuxDone \/ Submitted
           \/ (SubmitPicture /\ dpc' # "joinAudio")
    <2>1. UNCHANGED <<seg, frame, cancel, error>>
        BY <1>9, SubmitEffect
        DEF CheckPause, Reclaimed, WaitForGpu, Collected, MuxDone, Submitted, SubmitPicture, Poison,
            loopVars, controlVars
    <2>2. /\ Looping \/ (dpc = "mux" /\ then = "joinAudio" /\ dpc' = "joinAudio")
          /\ Looping => Looping' /\ (Due' => Due)
        BY <1>9
        DEF CheckPause, Reclaimed, WaitForGpu, Collected, MuxDone, Submitted, SubmitPicture, Poison,
            Looping, Due, JustSubmitted, MuxesFor, Domains
    <2>3. Looping' => dpc' \notin {"after", "segment"}
        BY DEF Looping, Due, JustSubmitted, MuxesFor
    <2> QED
        BY <2>1, <2>2, <2>3
        DEF Position, Looping, Due, JustSubmitted, MuxesFor, HasSeg, SegEnd
<1>10. CASE FlushDone \/ JoinAudio \/ FinaliseSync \/ Report \/ (FlushNvenc /\ ~Poison)
    <2>1. /\ UNCHANGED <<frame, cancel>> /\ (error => error')
          /\ dpc \in {"flush", "joinAudio", "finalise", "report"}
          /\ \/ dpc' \in {"flush", "joinAudio", "finalise", "report", "exit"}
             \/ dpc' = "mux" /\ then' = "joinAudio"
        BY <1>10
        DEF FlushDone, Flushed, JoinAudio, FinaliseSync, Report, FlushNvenc, loopVars, controlVars
    <2> QED
        BY <1>0, <2>1 DEF Position, Looping, Due, JustSubmitted, MuxesFor
<1>11. CASE Fails
    BY <1>11
    DEF Fails, Poison, LoopFails, Position, Looping, Due, JustSubmitted, MuxesFor
<1>12. CASE Takes \/ GpuExecutes \/ NvencEncodes \/ MuxPacket
    <2>1. UNCHANGED <<dpc, then, seg, frame, cancel>>
        BY <1>12 DEF Takes, GpuExecutes, NvencEncodes, MuxPacket, loopVars, controlVars
    <2>2. error => error'
        BY <1>12, MuxEffect DEF Takes, GpuExecutes, NvencEncodes
    <2> QED  BY <1>1, <2>1, <2>2
<1>13. CASE UNCHANGED vars
    BY <1>1, <1>13 DEF vars, loopVars, controlVars
<1> QED
    BY <1>2, <1>3, <1>4, <1>5, <1>6, <1>7, <1>8, <1>9, <1>10, <1>11, <1>12, <1>13, NextSteps
    DEF Moves

-----------------------------------------------------------------------------
(* How far rendering is ahead *)

LEMMA NextKeepsAhead ==
    ASSUME Domains, Position, Ahead, Window, [Next]_vars  PROVE Ahead'
<1>0. /\ Len(inflight) \in Nat /\ Len(gpuQueue) \in Nat /\ Lookahead \in Nat
      /\ frame \in Nat /\ framesDone \in Nat
      /\ inflight = <<>> <=> Len(inflight) = 0
    BY Lengths, LookaheadFits DEF Domains
<1>1. ASSUME UNCHANGED <<dpc, then, frame, framesDone, inflight>>, cancel => cancel',
             Len(gpuQueue') <= Len(gpuQueue), Len(gpuQueue') \in Nat
      PROVE  Ahead'
    BY <1>0, <1>1
    DEF Ahead, Unbroken, Looping, Due, JustSubmitted, MuxesFor
<1>2. CASE User \/ NvencEncodes \/ Takes \/ MuxPacket \/ UNCHANGED vars
    <2>1. UNCHANGED <<dpc, then, frame, framesDone, inflight, gpuQueue>> /\ (cancel => cancel')
        <3>1. CASE User
            BY <3>1 DEF User, Cancel, Pause, Resume, loopVars
        <3>2. CASE NvencEncodes
            BY <3>2 DEF NvencEncodes, loopVars, controlVars
        <3>3. CASE Takes
            BY <3>3 DEF Takes, loopVars, controlVars
        <3>4. CASE MuxPacket
            BY <3>4 DEF MuxPacket, loopVars, controlVars
        <3>5. CASE UNCHANGED vars
            BY <3>5 DEF vars, loopVars, controlVars
        <3> QED  BY <1>2, <3>1, <3>2, <3>3, <3>4, <3>5
    <2> QED  BY <1>0, <1>1, <2>1
<1>3. CASE GpuExecutes
    BY <1>0, <1>1, <1>3, GpuEffect DEF GpuExecutes, loopVars, controlVars
<1>4. CASE Moves /\ ~User
    <2>1. UNCHANGED <<inflight, gpuQueue>>
        BY <1>4, MovesEffect
    <2>2. CASE BeginSegment
        <3>1. /\ dpc = "segment" /\ ~cancel /\ HasSeg /\ dpc' = "frame"
              /\ frame' = SegmentStart(TotalFrames, RenderThreads, seg)
              /\ framesDone' = framesDone
            BY <2>2 DEF BeginSegment
        <3>2. frame' = frame
            BY <3>1 DEF Position
        <3> QED
            BY <1>0, <2>1, <3>1, <3>2
            DEF Ahead, Unbroken, Looping, Due, JustSubmitted, MuxesFor
    <2>3. CASE Submitted
        <3>1. /\ dpc = "submitted" /\ framesDone' = framesDone + 1 /\ frame' = frame
              /\ dpc' = "frame"
            BY <1>0, <2>3 DEF Submitted, Ahead
        <3> QED
            BY <1>0, <2>1, <3>1 DEF Ahead, Unbroken, Looping, Due, JustSubmitted, MuxesFor
    <2>4. CASE DrainSegment
        <3>1. /\ dpc = "frame" /\ UNCHANGED <<frame, framesDone>>
              /\ dpc' = IF inflight # <<>> THEN "wait" ELSE "after"
            BY <2>4 DEF DrainSegment, loopVars
        <3> QED
            BY <1>0, <2>1, <3>1 DEF Ahead, Unbroken, Looping, Due, JustSubmitted, MuxesFor
    <2>5. CASE WaitForGpu
        <3>1. /\ dpc = "wait" /\ dpc' = "submit" /\ UNCHANGED <<frame, framesDone>>
              /\ GpuFinished(Head(inflight)) /\ inflight # <<>>
            BY <2>5 DEF WaitForGpu, loopVars, Ahead
        <3>2. Head(inflight) = inflight[1] /\ Len(inflight) > 0
            BY <1>0, <3>1, Popped DEF Domains
        <3>3. inflight[1] = frame - Len(inflight)
            BY <1>0, <3>2 DEF Window
        <3>4. Len(gpuQueue) < Len(inflight)
            <4> SUFFICES ASSUME Len(gpuQueue) = Len(inflight)  PROVE FALSE
                BY <1>0, <3>1 DEF Ahead, Unbroken, Looping
            <4>1. gpuQueue[1] = inflight[1] /\ 1 \in 1 .. Len(gpuQueue)
                BY <1>0, <3>2, <3>3 DEF Window
            <4>2. DOMAIN gpuQueue = 1 .. Len(gpuQueue)
                BY LenProperties DEF Domains
            <4> QED  BY <3>1, <3>2, <4>1, <4>2 DEF GpuFinished
        <3> QED
            BY <1>0, <2>1, <3>1, <3>4 DEF Ahead, Unbroken, Looping, Due, JustSubmitted, MuxesFor
    <2>6. CASE CheckPause \/ Reclaimed \/ Collected \/ MuxDone \/ (CheckCancel /\ ~SeesCancel)
        <3>1. UNCHANGED <<frame, framesDone>>
            BY <2>6 DEF CheckPause, Reclaimed, Collected, MuxDone, CheckCancel, loopVars
        <3>2. /\ dpc' \notin {"wait", "submit"} /\ dpc \notin {"wait", "submit"}
              /\ Unbroken' => Unbroken /\ Looping /\ (JustSubmitted' <=> JustSubmitted)
              /\ ~Looping' => ~Looping
            BY <2>6
            DEF CheckPause, Reclaimed, Collected, MuxDone, CheckCancel, Domains, Unbroken, Looping,
                Due, JustSubmitted, MuxesFor
        <3> QED  BY <1>0, <2>1, <3>1, <3>2 DEF Ahead
    <2>7. CASE AfterSegment
        <3>1. UNCHANGED <<frame, framesDone, cancel>> /\ dpc = "after" /\ dpc' = "segment"
            BY <2>7 DEF AfterSegment, controlVars
        <3> QED
            BY <1>0, <2>1, <3>1 DEF Ahead, Unbroken, Looping, Due, JustSubmitted, MuxesFor
    <2>8. CASE EndOfLoop \/ FlushDone \/ JoinAudio \/ FinaliseSync \/ Report
               \/ (FlushNvenc /\ ~Poison)
        <3>1. /\ UNCHANGED <<frame, framesDone>>
              /\ dpc \in {"segment", "flush", "joinAudio", "finalise", "report"}
              /\ \/ dpc' \in {"flush", "joinAudio", "finalise", "report", "exit"}
                 \/ dpc' = "mux" /\ then' = "joinAudio"
            BY <2>8
            DEF EndOfLoop, FlushDone, Flushed, JoinAudio, FinaliseSync, Report, FlushNvenc, loopVars
        <3>2. ~Looping /\ ~Looping' /\ ~Unbroken'
            BY <3>1 DEF Unbroken, Looping, Due, JustSubmitted, MuxesFor
        <3> QED
            BY <1>0, <2>1, <3>1, <3>2 DEF Ahead, Looping
    <2> QED  BY <1>4, <2>2, <2>3, <2>4, <2>5, <2>6, <2>7, <2>8 DEF Moves
<1>5. CASE Fails \/ (CheckCancel /\ SeesCancel)
    <2>1. /\ inflight' = <<>> /\ UNCHANGED <<frame, framesDone>>
          /\ dpc' = "joinAudio" \/ (dpc' = "after" /\ cancel')
        BY <1>5 DEF Fails, Poison, LoopFails, CheckCancel, SeesCancel, loopVars, controlVars
    <2>2. Len(inflight') = 0
        BY <2>1, Nothing
    <2> QED
        BY <1>0, <2>1, <2>2 DEF Ahead, Unbroken, Looping, Due, JustSubmitted, MuxesFor
<1>6. CASE Render
    <2>1. /\ dpc = "render" /\ dpc' = IF Len(inflight') > Lookahead THEN "wait" ELSE "frame"
          /\ framesDone' = framesDone /\ frame' = frame + 1
          /\ Len(inflight') = Len(inflight) + 1 /\ Len(gpuQueue') = Len(gpuQueue) + 1
          /\ inflight' # <<>>
        BY <1>0, <1>6, RenderEffect, Nothing DEF Render
    <2> QED
        BY <1>0, <2>1
        DEF Ahead, Unbroken, Looping, Due, JustSubmitted, MuxesFor
<1>7. CASE SubmitPicture /\ dpc' # "joinAudio"
    <2>1. /\ dpc = "submit" /\ dpc' = "collect" /\ UNCHANGED <<frame, framesDone, gpuQueue>>
          /\ Len(inflight') = Len(inflight) - 1
        BY <1>7, SubmitEffect DEF SubmitPicture, loopVars
    <2> QED
        BY <1>0, <2>1
        DEF Ahead, Unbroken, Looping, Due, JustSubmitted, MuxesFor
<1> QED  BY <1>2, <1>3, <1>4, <1>5, <1>6, <1>7, NextSteps

-----------------------------------------------------------------------------
(* The slots *)

\* The only multiple of n between -n and n is 0.
LEMMA Multiple ==
    ASSUME NEW n \in Nat \ {0}, NEW k \in Int, n * k < n, -n < n * k
    PROVE  k = 0
<1>1. CASE k <= -1
    <2>1. n * k <= -n
        BY <1>1
    <2> QED  BY <2>1
<1>2. CASE k >= 1
    <2>1. n * k >= n
        BY <1>2
    <2> QED  BY <2>1
<1> QED  BY <1>1, <1>2

LEMMA Divided ==
    ASSUME NEW n \in Nat \ {0}, NEW a \in Nat
    PROVE  a \div n \in Int /\ a % n \in 0 .. n - 1 /\ a = n * (a \div n) + (a % n)
OBVIOUS

\* Frames less than SlotCount apart have different slots, and frames SlotCount
\* apart have the same.
LEMMA SlotsApart ==
    ASSUME NEW a \in Nat, NEW b \in Nat, a < b, b - a < SlotCount
    PROVE  SlotOf(a) # SlotOf(b)
<1> DEFINE n == SlotCount
           k == (b \div n) - (a \div n)
<1>0. n \in Nat \ {0}
    BY NvencAssumption
<1> HIDE DEF n
<1>1. /\ a \div n \in Int /\ a % n \in Int /\ a = n * (a \div n) + (a % n)
      /\ b \div n \in Int /\ b % n \in Int /\ b = n * (b \div n) + (b % n)
    BY <1>0, Divided
<1>2. k \in Int /\ n * k = n * (b \div n) - n * (a \div n)
    BY <1>0, <1>1
<1> SUFFICES ASSUME a % n = b % n  PROVE FALSE
    BY DEF SlotOf, n
<1>3. n * k = b - a /\ b - a < n
    BY <1>0, <1>1, <1>2 DEF n
<1> HIDE DEF k
<1>4. k = 0
    BY <1>0, <1>2, <1>3, Multiple
<1> QED  BY <1>0, <1>3, <1>4

LEMMA SlotsRepeat ==
    ASSUME NEW a \in Nat
    PROVE  SlotOf(a + SlotCount) = SlotOf(a)
<1> DEFINE n == SlotCount
           b == a + n
           k == (b \div n) - (a \div n) - 1
<1>0. n \in Nat \ {0}
    BY NvencAssumption
<1> HIDE DEF n
<1>1. /\ a \div n \in Int /\ a % n \in 0 .. n - 1 /\ a = n * (a \div n) + (a % n)
      /\ b \div n \in Int /\ b % n \in 0 .. n - 1 /\ b = n * (b \div n) + (b % n)
    BY <1>0, Divided
<1>2. k \in Int /\ n * k = n * (b \div n) - n * (a \div n) - n
    BY <1>0, <1>1
<1>3. n * k = (a % n) - (b % n)
    BY <1>0, <1>1, <1>2
<1> HIDE DEF k
<1>4. k = 0
    BY <1>0, <1>1, <1>2, <1>3, Multiple
<1>5. (a % n) - (b % n) = 0
    BY <1>0, <1>3, <1>4
<1>6. a % n = b % n
    BY <1>0, <1>1, <1>5
<1> QED  BY <1>6 DEF SlotOf, n

-----------------------------------------------------------------------------
(* The runs of frames *)

\* The slot of the next frame is free.
Admitted == dpc = "render" \/ MuxesFor("render")

LEMMA NextKeepsWindow ==
    ASSUME Domains, Position, Ahead, Window, [Next]_vars  PROVE Window'
<1>0. /\ Len(inflight) \in Nat /\ Len(gpuQueue) \in Nat /\ Len(pending) \in Nat
      /\ Lookahead + 1 <= SlotCount /\ Lookahead \in Nat /\ SlotCount \in Nat /\ frame \in Nat
      /\ \A i \in 1 .. Len(pending) : pending[i].pts \in Nat
      /\ Len(pending) > 0 => pending[1].pts \in Nat
    BY Lengths, LookaheadFits, Elements, NvencAssumption DEF Domains
<1> DEFINE first == pending[1].pts
<1>a. Len(pending) > 0 =>
         /\ first \in Nat /\ first + Len(pending) + Len(gpuQueue) <= frame
         /\ frame - first <= SlotCount
         /\ Unbroken => first + Len(pending) + Len(inflight) = frame
         /\ Admitted => frame - first < SlotCount
    BY <1>0 DEF Window, Admitted
<1>b. \A i \in 1 .. Len(pending) : pending[i].pts = first + i - 1 /\ pending[i].slot = SlotOf(pending[i].pts)
    BY DEF Window
<1>c. \A i \in 1 .. Len(inflight) : inflight[i] = frame - Len(inflight) + i - 1
    BY DEF Window
<1>d. \A g \in 1 .. Len(gpuQueue) : gpuQueue[g] = frame - Len(gpuQueue) + g - 1
    BY DEF Window
<1> HIDE DEF first
<1>1. ASSUME UNCHANGED <<frame, inflight, gpuQueue, pending>>, Unbroken' => Unbroken,
             Admitted' /\ Len(pending) > 0 => frame - pending[1].pts < SlotCount
      PROVE  Window'
    BY <1>1, <1>a DEF Window, Admitted, first
<1>2. CASE Moves
    <2>1. UNCHANGED <<inflight, gpuQueue, pending>>
        BY <1>2, MovesEffect
    <2>2. CASE User
        <3>1. UNCHANGED <<frame, dpc, then>> /\ (cancel => cancel')
            BY <2>2 DEF User, Cancel, Pause, Resume, loopVars
        <3> QED
            BY <1>1, <2>1, <3>1
            DEF Window, Admitted, Unbroken, Looping, Due, JustSubmitted, MuxesFor
    <2>3. CASE BeginSegment
        <3>1. frame' = frame /\ Unbroken /\ ~Admitted'
            BY <2>3 DEF BeginSegment, Position, Unbroken, Admitted, MuxesFor
        <3> QED  BY <1>1, <2>1, <3>1
    <2>4. CASE Reclaimed
        <3>1. frame' = frame /\ dpc = "reclaim"
            BY <2>4 DEF Reclaimed, loopVars
        <3>2. ASSUME Len(pending) > 0  PROVE frame - pending[1].pts < SlotCount
            <4>1. 1 \in 1 .. Len(pending) /\ DOMAIN pending = 1 .. Len(pending)
                BY <1>0, <3>2, LenProperties DEF Domains
            <4>2. SlotOf(pending[1].pts) # SlotOf(frame)
                BY <2>4, <4>1 DEF Reclaimed, Busy, Window
            <4>3. frame # pending[1].pts + SlotCount
                BY <1>0, <3>2, <4>2, SlotsRepeat
            <4>4. first \in Nat /\ frame - first <= SlotCount /\ frame # first + SlotCount
                BY <1>a, <3>2, <4>3 DEF first
            <4>5. frame - first < SlotCount
                BY <1>0, <4>4
            <4> QED  BY <4>5 DEF first
        <3> QED
            BY <1>1, <2>1, <3>1, <3>2 DEF Unbroken, Looping, Due
    <2>5. CASE CheckPause \/ WaitForGpu \/ Collected \/ Submitted \/ MuxDone \/ DrainSegment
               \/ AfterSegment \/ (CheckCancel /\ ~SeesCancel)
        <3>1. frame' = frame
            BY <2>5
            DEF CheckPause, WaitForGpu, Collected, Submitted, MuxDone, DrainSegment, AfterSegment,
                CheckCancel, loopVars
        <3>2. (Unbroken' => Unbroken) /\ (Admitted' => Admitted)
            BY <2>5
            DEF CheckPause, WaitForGpu, Collected, Submitted, MuxDone, DrainSegment, AfterSegment,
                CheckCancel, SeesCancel, controlVars, Unbroken, Looping, Due, JustSubmitted,
                MuxesFor, Admitted, Domains
        <3> QED  BY <1>1, <2>1, <3>1, <3>2 DEF Window, Admitted
    <2>6. CASE EndOfLoop \/ FlushDone \/ JoinAudio \/ FinaliseSync \/ Report
               \/ (FlushNvenc /\ ~Poison)
        <3>1. /\ frame' = frame
              /\ \/ dpc' \in {"flush", "joinAudio", "finalise", "report", "exit"}
                 \/ dpc' = "mux" /\ then' = "joinAudio"
            BY <2>6
            DEF EndOfLoop, FlushDone, Flushed, JoinAudio, FinaliseSync, Report, FlushNvenc, loopVars
        <3>2. ~Unbroken' /\ ~Admitted'
            BY <3>1 DEF Unbroken, Looping, Due, JustSubmitted, MuxesFor, Admitted
        <3> QED  BY <1>1, <2>1, <3>1, <3>2
    <2> QED  BY <1>2, <2>2, <2>3, <2>4, <2>5, <2>6 DEF Moves
<1>3. CASE Fails
    <2>1. /\ Len(pending') = 0 /\ Len(inflight') = 0
          /\ UNCHANGED <<frame, gpuQueue>>
        BY <1>3, Nothing DEF Fails, Poison, LoopFails, loopVars
    <2> QED  BY <1>0, <2>1 DEF Window
<1>4. CASE CheckCancel /\ SeesCancel
    <2>1. /\ Len(inflight') = 0 /\ UNCHANGED <<frame, gpuQueue, pending>>
          /\ dpc' = "after" /\ cancel'
        BY <1>4, Nothing DEF CheckCancel, SeesCancel, loopVars, nvencVars, controlVars
    <2>2. ~Unbroken' /\ ~Admitted'
        BY <2>1 DEF Unbroken, Looping, Due, JustSubmitted, MuxesFor, Admitted
    <2> QED  BY <1>0, <2>1, <2>2 DEF Window, Admitted
<1>5. CASE Takes
    <2>1. UNCHANGED <<frame, inflight, gpuQueue, dpc, then, cancel>>
        BY <1>5 DEF Takes, loopVars, controlVars
    <2>2. /\ Len(pending) > 0 /\ Len(pending') = Len(pending) - 1
          /\ \A i \in 1 .. Len(pending) - 1 : pending'[i] = pending[i + 1]
        BY <1>5, TakeEffect DEF Takes
    <2>3. \A i \in 1 .. Len(pending') : /\ pending'[i].pts = first + i
                                        /\ pending'[i].slot = SlotOf(pending'[i].pts)
        <3> SUFFICES ASSUME NEW i \in 1 .. Len(pending')
                     PROVE  /\ pending'[i].pts = first + i
                            /\ pending'[i].slot = SlotOf(pending'[i].pts)
            OBVIOUS
        <3>1. pending'[i] = pending[i + 1] /\ i + 1 \in 1 .. Len(pending)
            BY <1>0, <2>2
        <3>2. pending[i + 1].pts = first + i /\ pending[i + 1].slot = SlotOf(pending[i + 1].pts)
            BY <1>0, <1>a, <1>b, <2>2, <3>1
        <3> QED  BY <3>1, <3>2
    <2>4. Len(pending') > 0 => pending'[1].pts = first + 1
        BY <1>0, <2>2, <2>3
    <2>5. \A i \in 1 .. Len(pending') : /\ pending'[i].pts = pending'[1].pts + i - 1
                                        /\ pending'[i].slot = SlotOf(pending'[i].pts)
        <3>1. ASSUME NEW i \in 1 .. Len(pending')
              PROVE  first + i = (first + 1) + i - 1 /\ Len(pending') > 0
            BY <1>0, <1>a, <2>2
        <3> QED  BY <2>3, <2>4, <3>1
    <2>6. Unbroken' = Unbroken /\ Admitted' = Admitted
        BY <2>1 DEF Unbroken, Looping, Due, JustSubmitted, MuxesFor, Admitted
    <2>7. Len(pending') > 0 =>
             /\ pending'[1].pts + Len(pending') + Len(gpuQueue) <= frame
             /\ frame - pending'[1].pts <= SlotCount
             /\ Unbroken => pending'[1].pts + Len(pending') + Len(inflight) = frame
             /\ Admitted => frame - pending'[1].pts < SlotCount
        <3> SUFFICES ASSUME Len(pending') > 0
                     PROVE  /\ pending'[1].pts + Len(pending') + Len(gpuQueue) <= frame
                            /\ frame - pending'[1].pts <= SlotCount
                            /\ Unbroken => pending'[1].pts + Len(pending') + Len(inflight) = frame
                            /\ Admitted => frame - pending'[1].pts < SlotCount
            OBVIOUS
        <3>1. /\ Len(inflight) \in Nat /\ Len(gpuQueue) \in Nat /\ Len(pending) \in Nat
              /\ SlotCount \in Nat /\ frame \in Nat /\ first \in Nat
            BY <1>0, <1>a, <2>2
        <3>2. pending'[1].pts = first + 1 /\ Len(pending') = Len(pending) - 1
            BY <2>2, <2>4
        <3>3. /\ (first + 1) + (Len(pending) - 1) + Len(gpuQueue) <= frame
              /\ frame - (first + 1) < SlotCount
            BY <1>a, <2>2, <3>1
        <3>4. Unbroken => (first + 1) + (Len(pending) - 1) + Len(inflight) = frame
            <4>1. Unbroken => first + Len(pending) + Len(inflight) = frame
                BY <1>a, <2>2
            <4>2. (first + 1) + (Len(pending) - 1) + Len(inflight)
                     = first + Len(pending) + Len(inflight)
                BY <3>1
            <4> QED  BY <4>1, <4>2
        <3>5. frame - (first + 1) <= SlotCount
            BY <3>1, <3>3
        <3> QED  BY <3>2, <3>3, <3>4, <3>5
    <2>8. /\ \A g \in 1 .. Len(gpuQueue) : gpuQueue[g] = frame - Len(gpuQueue) + g - 1
          /\ \A i \in 1 .. Len(inflight) : inflight[i] = frame - Len(inflight) + i - 1
        BY DEF Window
    <2> QED  BY <2>1, <2>5, <2>6, <2>7, <2>8 DEF Window, Admitted
<1>6. CASE GpuExecutes
    <2>1. UNCHANGED <<frame, inflight, pending, dpc, then, cancel>>
        BY <1>6 DEF GpuExecutes, loopVars, nvencVars, controlVars
    <2>2. /\ Len(gpuQueue') = Len(gpuQueue) - 1 /\ Len(gpuQueue) > 0
          /\ \A g \in 1 .. Len(gpuQueue) - 1 : gpuQueue'[g] = gpuQueue[g + 1]
        BY <1>6, GpuEffect
    <2>3. ASSUME NEW g \in 1 .. Len(gpuQueue')
          PROVE  gpuQueue'[g] = frame - Len(gpuQueue') + g - 1
        <3>1. g \in 1 .. Len(gpuQueue) - 1 /\ g + 1 \in 1 .. Len(gpuQueue)
            BY <1>0, <2>2
        <3>2. gpuQueue'[g] = frame - Len(gpuQueue) + (g + 1) - 1
            BY <1>d, <2>2, <3>1
        <3> QED  BY <1>0, <2>2, <3>1, <3>2
    <2>4. Len(pending) > 0 => pending[1].pts + Len(pending) + Len(gpuQueue') <= frame
        BY <1>0, <2>2 DEF Window
    <2> QED
        BY <2>1, <2>3, <2>4 DEF Window, Unbroken, Looping, Due, JustSubmitted, MuxesFor
<1>7. CASE NvencEncodes
    <2>1. UNCHANGED <<frame, inflight, gpuQueue, dpc, then, cancel>>
        BY <1>7 DEF NvencEncodes, loopVars, controlVars
    <2>2. /\ Len(pending') = Len(pending)
          /\ \A i \in 1 .. Len(pending) : /\ pending'[i].pts = pending[i].pts
                                          /\ pending'[i].slot = pending[i].slot
        BY <1>7, EncodeEffect
    <2>3. Len(pending) > 0 => pending'[1].pts = pending[1].pts
        BY <1>0, <2>2
    <2>4. \A i \in 1 .. Len(pending') : /\ pending'[i].pts = pending'[1].pts + i - 1
                                        /\ pending'[i].slot = SlotOf(pending'[i].pts)
        BY <1>0, <1>b, <2>2, <2>3 DEF first
    <2> QED
        BY <2>1, <2>2, <2>3, <2>4 DEF Window, Unbroken, Looping, Due, JustSubmitted, MuxesFor
<1>8. CASE Render
    <2>1. UNCHANGED pending /\ dpc = "render" /\ frame' = frame + 1 /\ ~Admitted'
        BY <1>8 DEF Render, nvencVars, Admitted, MuxesFor
    <2>2. /\ Len(gpuQueue') = Len(gpuQueue) + 1
          /\ \A g \in 1 .. Len(gpuQueue) : gpuQueue'[g] = gpuQueue[g]
          /\ gpuQueue'[Len(gpuQueue) + 1] = frame
          /\ Len(inflight') = Len(inflight) + 1
          /\ \A i \in 1 .. Len(inflight) : inflight'[i] = inflight[i]
          /\ inflight'[Len(inflight) + 1] = frame
        BY <1>8, RenderEffect
    <2>3. ASSUME NEW g \in 1 .. Len(gpuQueue')
          PROVE  gpuQueue'[g] = frame' - Len(gpuQueue') + g - 1
        <3>1. CASE g = Len(gpuQueue) + 1
            BY <1>0, <2>1, <2>2, <3>1
        <3>2. CASE g # Len(gpuQueue) + 1
            <4>1. g \in 1 .. Len(gpuQueue)
                BY <1>0, <2>2, <3>2
            <4>2. gpuQueue'[g] = frame - Len(gpuQueue) + g - 1
                BY <1>d, <2>2, <4>1
            <4> QED  BY <1>0, <2>1, <2>2, <4>1, <4>2
        <3> QED  BY <3>1, <3>2
    <2>4. ASSUME NEW i \in 1 .. Len(inflight')
          PROVE  inflight'[i] = frame' - Len(inflight') + i - 1
        <3>1. CASE i = Len(inflight) + 1
            BY <1>0, <2>1, <2>2, <3>1
        <3>2. CASE i # Len(inflight) + 1
            <4>1. i \in 1 .. Len(inflight)
                BY <1>0, <2>2, <3>2
            <4>2. inflight'[i] = frame - Len(inflight) + i - 1
                BY <1>c, <2>2, <4>1
            <4> QED  BY <1>0, <2>1, <2>2, <4>1, <4>2
        <3> QED  BY <3>1, <3>2
    <2>5. Len(pending) > 0 =>
             /\ first + Len(pending) + Len(gpuQueue') <= frame'
             /\ frame' - first <= SlotCount
             /\ first + Len(pending) + Len(inflight') = frame'
        <3> SUFFICES ASSUME Len(pending) > 0
                     PROVE  /\ first + Len(pending) + Len(gpuQueue') <= frame'
                            /\ frame' - first <= SlotCount
                            /\ first + Len(pending) + Len(inflight') = frame'
            OBVIOUS
        <3>1. Unbroken /\ Admitted
            BY <2>1 DEF Unbroken, Looping, Due, Admitted
        <3>2. /\ first \in Nat /\ first + Len(pending) + Len(gpuQueue) <= frame
              /\ first + Len(pending) + Len(inflight) = frame
              /\ frame - first < SlotCount
            BY <1>a, <3>1
        <3>3. /\ frame' = frame + 1 /\ Len(gpuQueue') = Len(gpuQueue) + 1
              /\ Len(inflight') = Len(inflight) + 1
            BY <2>1, <2>2
        <3> QED  BY <1>0, <3>2, <3>3
    <2> QED
        BY <1>b, <2>1, <2>3, <2>4, <2>5 DEF Window, Admitted, first
<1>9. CASE SubmitPicture /\ dpc' # "joinAudio"
    <2>1. UNCHANGED <<frame, gpuQueue>> /\ dpc = "submit" /\ ~Admitted'
        BY <1>9, SubmitEffect DEF SubmitPicture, loopVars, Admitted, MuxesFor
    <2>2. /\ Len(inflight) > 0
          /\ Len(pending') = Len(pending) + 1
          /\ \A i \in 1 .. Len(pending) : pending'[i] = pending[i]
          /\ pending'[Len(pending) + 1] = [pts |-> inflight[1], slot |-> SlotOf(inflight[1]),
                                           ready |-> FALSE, data |-> NoFrame]
          /\ Len(inflight') = Len(inflight) - 1
          /\ \A i \in 1 .. Len(inflight) - 1 : inflight'[i] = inflight[i + 1]
        BY <1>9, SubmitEffect
    <2>3. inflight[1] = frame - Len(inflight)
        BY <1>0, <2>2 DEF Window
    <2>4. /\ Len(gpuQueue) < Len(inflight) /\ Len(inflight) <= Lookahead + 1
          /\ Len(pending) > 0 => /\ first + Len(pending) + Len(inflight) = frame
                                 /\ frame - first <= SlotCount
        BY <1>0, <1>a, <2>1 DEF Ahead, Unbroken, Looping
    <2>5. \A i \in 1 .. Len(inflight') : inflight'[i] = frame - Len(inflight') + i - 1
        BY <1>0, <2>2 DEF Window
    <2>6. pending'[1].pts = frame - Len(inflight) - Len(pending)
        <3>1. CASE Len(pending) = 0
            BY <1>0, <2>2, <2>3, <3>1
        <3>2. CASE Len(pending) > 0
            <4>1. pending'[1] = pending[1]
                BY <1>0, <2>2, <3>2
            <4>2. pending'[1].pts = first
                BY <4>1 DEF first
            <4> QED  BY <1>0, <1>a, <2>4, <3>2, <4>2
        <3> QED  BY <1>0, <3>1, <3>2
    <2>7. \A i \in 1 .. Len(pending') : /\ pending'[i].pts = pending'[1].pts + i - 1
                                        /\ pending'[i].slot = SlotOf(pending'[i].pts)
        <3> SUFFICES ASSUME NEW i \in 1 .. Len(pending')
                     PROVE  /\ pending'[i].pts = pending'[1].pts + i - 1
                            /\ pending'[i].slot = SlotOf(pending'[i].pts)
            OBVIOUS
        <3>1. CASE i = Len(pending) + 1
            BY <1>0, <2>2, <2>3, <2>6, <3>1
        <3>2. CASE i \in 1 .. Len(pending)
            <4>1. pending'[i] = pending[i] /\ Len(pending) > 0
                BY <1>0, <2>2, <3>2
            <4>2. pending[i].pts = first + i - 1 /\ pending[i].slot = SlotOf(pending[i].pts)
                BY <1>b, <3>2
            <4>3. first = pending'[1].pts
                BY <1>0, <1>a, <2>4, <2>6, <4>1
            <4> QED  BY <4>1, <4>2, <4>3
        <3> QED  BY <1>0, <2>2, <3>1, <3>2
    <2>8. /\ pending'[1].pts + Len(pending') + Len(gpuQueue) <= frame
          /\ frame - pending'[1].pts <= SlotCount
          /\ pending'[1].pts + Len(pending') + Len(inflight') = frame
        <3>1. frame - pending'[1].pts <= SlotCount
            BY <1>0, <1>a, <2>4, <2>6
        <3> QED  BY <1>0, <2>2, <2>4, <2>6, <3>1
    <2>9. \A g \in 1 .. Len(gpuQueue) : gpuQueue[g] = frame - Len(gpuQueue) + g - 1
        BY DEF Window
    <2> QED
        BY <2>1, <2>5, <2>7, <2>8, <2>9 DEF Window, Admitted
<1>10. CASE MuxPacket \/ UNCHANGED vars
    <2>1. UNCHANGED <<frame, inflight, gpuQueue, pending, dpc, then, cancel>>
        <3>1. CASE MuxPacket
            BY <3>1 DEF MuxPacket, loopVars, nvencVars, controlVars
        <3>2. CASE UNCHANGED vars
            BY <3>2 DEF vars, loopVars, nvencVars, controlVars
        <3> QED  BY <1>10, <3>1, <3>2
    <2> QED
        BY <2>1 DEF Window, Unbroken, Looping, Due, JustSubmitted, MuxesFor
<1> QED
    BY <1>2, <1>3, <1>4, <1>5, <1>6, <1>7, <1>8, <1>9, <1>10, NextSteps

-----------------------------------------------------------------------------
(* The end of the export *)

LEMMA NextKeepsVerdicts ==
    ASSUME Domains, Verdicts, [Next]_vars  PROVE Verdicts'
<1>0. /\ Len(pending) \in Nat /\ Len(got) \in Nat
      /\ pending = <<>> <=> Len(pending) = 0
      /\ got = <<>> <=> Len(got) = 0
    BY Lengths
<1>1. ASSUME UNCHANGED <<poisoned, error, finalised, trailer, terminal>>,
             Ending' <=> Ending, dpc' \in {"report", "exit"} <=> dpc \in {"report", "exit"},
             dpc' = "exit" <=> dpc = "exit", Ending => Len(pending') = 0 /\ Len(got') = 0,
             MuxesFor("joinAudio")' => Len(pending') = 0
      PROVE  Verdicts'
    BY <1>1 DEF Verdicts
<1>2. CASE User
    BY <1>1, <1>2
    DEF User, Cancel, Pause, Resume, nvencVars, muxVars, Ending, MuxesFor, Verdicts
<1>3. CASE GpuExecutes
    BY <1>1, <1>3 DEF GpuExecutes, nvencVars, muxVars, Ending, MuxesFor, Verdicts
<1>4. CASE NvencEncodes
    BY <1>1, <1>4, EncodeEffect DEF NvencEncodes, muxVars, Ending, MuxesFor, Verdicts
<1>5. CASE Takes
    BY <1>1, <1>5 DEF Takes, muxVars, Ending, MuxesFor
<1>6. CASE Fails
    <2>1. /\ Len(pending') = 0 /\ Len(got') = 0 /\ error' = TRUE /\ dpc' = "joinAudio"
          /\ dpc \notin {"report", "exit", "joinAudio"}
          /\ UNCHANGED <<finalised, trailer, terminal>>
        BY <1>6, Nothing DEF Fails, Poison, LoopFails, muxVars
    <2> QED  BY <2>1 DEF Verdicts, Ending, MuxesFor
<1>7. CASE MuxPacket
    <2>1. /\ dpc = "mux" /\ dpc' = "mux" /\ error' \in BOOLEAN
          /\ UNCHANGED <<pending, poisoned, then, finalised, trailer, terminal>>
        BY <1>7, MuxEffect DEF MuxPacket, nvencVars, Domains
    <2> QED  BY <2>1 DEF Verdicts, Ending, MuxesFor
<1>8. CASE BeginSegment \/ EndOfLoop \/ CheckCancel \/ CheckPause \/ Reclaimed \/ Render \/ WaitForGpu
           \/ (SubmitPicture /\ dpc' # "joinAudio") \/ Collected \/ Submitted \/ DrainSegment
           \/ AfterSegment \/ (FlushNvenc /\ ~Poison)
    <2>1. UNCHANGED <<poisoned, error, finalised, trailer, terminal>>
        BY <1>8
        DEF BeginSegment, EndOfLoop, CheckCancel, CheckPause, Reclaimed, Render, WaitForGpu,
            SubmitPicture, Poison, Collected, Submitted, DrainSegment, AfterSegment, FlushNvenc,
            nvencVars, muxVars
    <2>2. ~Ending /\ ~Ending' /\ ~MuxesFor("joinAudio")'
        BY <1>8
        DEF BeginSegment, EndOfLoop, CheckCancel, CheckPause, Reclaimed, Render, WaitForGpu,
            SubmitPicture, Poison, Collected, Submitted, DrainSegment, AfterSegment, FlushNvenc,
            Ending, MuxesFor
    <2> QED  BY <1>1, <2>1, <2>2 DEF Ending
<1>9. CASE FlushDone
    BY <1>0, <1>1, <1>9 DEF FlushDone, Flushed, nvencVars, muxVars, Ending, MuxesFor
<1>10. CASE MuxDone
    <2>1. /\ UNCHANGED <<poisoned, error, finalised, trailer, terminal, pending, got>>
          /\ dpc = "mux" /\ got = <<>> /\ dpc' = then
        BY <1>10 DEF MuxDone, nvencVars, muxVars
    <2>2. dpc' \in {"render", "submitted", "joinAudio"}
        BY <2>1 DEF Domains
    <2> QED  BY <1>0, <2>1, <2>2 DEF Verdicts, Ending, MuxesFor
<1>11. CASE JoinAudio
    <2>1. /\ UNCHANGED <<poisoned, finalised, trailer, terminal, pending, got>>
          /\ dpc = "joinAudio" /\ dpc' = "finalise" /\ (error => error')
        BY <1>11 DEF JoinAudio, nvencVars, muxVars
    <2> QED  BY <2>1 DEF Verdicts, Ending, MuxesFor
<1>12. CASE FinaliseSync
    <2>1. /\ UNCHANGED <<poisoned, terminal, pending, got>>
          /\ dpc = "finalise" /\ dpc' = "report" /\ finalised' = TRUE
          /\ \/ trailer' = "written" /\ error' = error
             \/ trailer' = "failed" /\ error' = TRUE
        BY <1>12 DEF FinaliseSync, nvencVars
    <2> QED  BY <2>1 DEF Verdicts, Ending, MuxesFor
<1>13. CASE Report
    <2>1. /\ UNCHANGED <<poisoned, error, finalised, trailer, pending, got>>
          /\ dpc = "report" /\ dpc' = "exit"
        BY <1>13 DEF Report, nvencVars, muxVars
    <2>2. terminal' = <<Verdict>>
        BY <1>13 DEF Report, Verdicts
    <2>3. /\ terminal' # <<>>
          /\ terminal' \in {<<"done">>, <<"cancelled">>, <<"failed">>}
          /\ error <=> terminal' = <<"failed">>
        BY <2>2 DEF Verdict, Domains
    <2>4. /\ poisoned' => error' /\ Ending'
          /\ Ending' => (Len(pending') = 0 /\ Len(got') = 0)
          /\ MuxesFor("joinAudio")' => Len(pending') = 0
          /\ finalised' \in BOOLEAN /\ (finalised' <=> dpc' \in {"report", "exit"})
          /\ trailer' = IF ~finalised' THEN "none" ELSE IF error' THEN trailer' ELSE "written"
          /\ trailer' \in {"none", "written", "failed"}
        BY <2>1 DEF Verdicts, Ending, MuxesFor
    <2> QED  BY <2>1, <2>3, <2>4 DEF Verdicts
<1>14. CASE UNCHANGED vars
    BY <1>1, <1>14 DEF vars, nvencVars, muxVars, Ending, MuxesFor, Verdicts
<1> QED
    BY <1>2, <1>3, <1>4, <1>5, <1>6, <1>7, <1>8, <1>9, <1>10, <1>11, <1>12, <1>13, <1>14, NextSteps
    DEF Moves

-----------------------------------------------------------------------------
(* The theorems, whatever fails *)

LEMMA InitHolds == Init => IInv
<1> SUFFICES ASSUME Init  PROVE IInv
    OBVIOUS
<1>1. /\ inflight = <<>> /\ gpuQueue = <<>> /\ pending = <<>> /\ got = <<>> /\ muxVideo = <<>>
      /\ terminal = <<>> /\ dpc = "segment" /\ then = "render" /\ seg = 0 /\ frame = 0
      /\ framesDone = 0
    BY DEF Init
<1>2. Len(inflight) = 0 /\ Len(gpuQueue) = 0 /\ Len(pending) = 0 /\ Len(got) = 0
    BY <1>1, Nothing
<1>3. /\ inflight \in Seq(0 .. TotalFrames - 1) /\ gpuQueue \in Seq(0 .. TotalFrames - 1)
      /\ pending \in Seq(Pictures) /\ got \in Seq(Packets) /\ muxVideo \in Seq(Packets)
    BY <1>1, Nothing
<1>4. slotData \in [Slots -> Pixels]
    BY DEF Init, Pixels
<1>5. /\ cancel = FALSE /\ pause = FALSE /\ pauses = 0 /\ async \in BOOLEAN
      /\ poisoned = FALSE /\ eosSent = FALSE /\ error = FALSE /\ finalised = FALSE
      /\ trailer = "none"
    BY DEF Init
<1>6. Domains
    <2>1. /\ cancel \in BOOLEAN /\ pause \in BOOLEAN /\ async \in BOOLEAN
          /\ poisoned \in BOOLEAN /\ eosSent \in BOOLEAN /\ error \in BOOLEAN
        BY <1>5
    <2>2. pauses \in 0 .. MaxPauses /\ seg \in Nat /\ frame \in 0 .. TotalFrames /\ framesDone \in Nat
        BY <1>1, <1>5, NvencAssumption
    <2>3. dpc \in DispatchPcs /\ then \in {"render", "submitted", "joinAudio"}
        BY <1>1 DEF DispatchPcs
    <2> QED  BY <1>3, <1>4, <2>1, <2>2, <2>3 DEF Domains
<1>7. Position
    <2>1. HasSeg /\ frame = SegmentStart(TotalFrames, RenderThreads, seg)
        BY <1>1, FirstSegment, NvencAssumption DEF HasSeg
    <2> QED  BY <1>1, <2>1 DEF Position, Looping, Due, JustSubmitted, MuxesFor
<1>8. Ahead
    BY <1>1, <1>2, LookaheadFits DEF Ahead, Unbroken, Looping, Due, JustSubmitted, MuxesFor
<1>9. Window
    BY <1>2 DEF Window
<1>10. Verdicts
    BY <1>1, <1>2, <1>5 DEF Verdicts, Ending, MuxesFor
<1> QED  BY <1>6, <1>7, <1>8, <1>9, <1>10 DEF IInv

(* The inductive invariant holds in every reachable state: rendering runs  *)
(* at most Lookahead frames ahead, and what the GPU and NVENC hold fits    *)
(* into the slots.                                                         *)
THEOREM Invariance == Spec => []IInv
<1>1. IInv /\ [Next]_vars => IInv'
    BY NextKeepsDomains, NextKeepsPosition, NextKeepsAhead, NextKeepsWindow, NextKeepsVerdicts
    DEF IInv
<1> QED  BY InitHolds, <1>1, PTL DEF Spec

(* Every variable stays in its domain: NVENC never holds more pictures     *)
(* than there are slots, and no frame is counted twice.                    *)
THEOREM TypeCorrect == Spec => []TypeOK
<1>1. IInv => TypeOK
    <2> SUFFICES ASSUME IInv  PROVE TypeOK
        OBVIOUS
    <2>0. /\ Len(inflight) \in Nat /\ Len(gpuQueue) \in Nat /\ Len(pending) \in Nat
          /\ Lookahead \in Nat /\ SlotCount \in Nat /\ TotalFrames \in Nat
          /\ Len(pending) > 0 => pending[1].pts \in Nat
        BY Lengths, LookaheadFits, Elements, NvencAssumption DEF IInv
    <2>1. framesDone \in 0 .. TotalFrames
        BY NvencAssumption DEF IInv, Ahead, Domains
    <2>2. Len(inflight) <= Lookahead + 1
        BY <2>0 DEF IInv, Ahead
    <2>3. Len(pending) <= SlotCount
        <3>1. CASE Len(pending) = 0
            BY <2>0, <3>1
        <3>2. CASE Len(pending) > 0
            <4> DEFINE first == pending[1].pts
            <4>1. first \in Nat /\ frame \in Nat
                BY <2>0, <3>2 DEF IInv, Domains
            <4>2. first + Len(pending) + Len(gpuQueue) <= frame /\ frame - first <= SlotCount
                BY <3>2 DEF IInv, Window
            <4> HIDE DEF first
            <4> QED  BY <2>0, <4>1, <4>2
        <3> QED  BY <2>0, <3>1, <3>2
    <2>4. Domains /\ finalised \in BOOLEAN /\ trailer \in {"none", "written", "failed"}
          /\ terminal \in {<<>>, <<"done">>, <<"cancelled">>, <<"failed">>}
        BY DEF IInv, Verdicts
    <2> QED  BY <2>1, <2>2, <2>3, <2>4 DEF TypeOK, Domains
<1> QED  BY Invariance, <1>1, PTL

(* A poisoned session, a failed audio worker or a failed trailer never     *)
(* passes for a finished export, whatever else fails (export_engine.rs,    *)
(* the order in which the result is reported).                             *)
THEOREM TroubleReported == Spec => []TroubleIsReported
<1>1. IInv => TroubleIsReported
    BY DEF IInv, Verdicts, TroubleIsReported
<1> QED  BY Invariance, <1>1, PTL

(* A slot never has two owners: the GPU has no submission outstanding for  *)
(* a slot that NVENC reads, no slot holds two pictures, and the slot       *)
(* rendered into next is free (encode_interop.rs, the slot ring).          *)
THEOREM SlotsExclusive == Spec => []SlotExclusive
<1>1. IInv => SlotExclusive
    <2> SUFFICES ASSUME IInv  PROVE SlotExclusive
        OBVIOUS
    <2> DEFINE first == pending[1].pts
    <2>0. /\ Len(inflight) \in Nat /\ Len(gpuQueue) \in Nat /\ Len(pending) \in Nat
          /\ DOMAIN inflight = 1 .. Len(inflight) /\ DOMAIN gpuQueue = 1 .. Len(gpuQueue)
          /\ DOMAIN pending = 1 .. Len(pending)
          /\ SlotCount \in Nat /\ frame \in Nat /\ Lookahead \in Nat /\ Lookahead < SlotCount
          /\ Len(pending) > 0 => first \in Nat
        BY Lengths, LenProperties, LookaheadFits, Elements, NvencAssumption DEF IInv, Domains
    <2>1. \A i \in 1 .. Len(pending) :
             pending[i].pts = first + i - 1 /\ pending[i].slot = SlotOf(pending[i].pts)
        BY DEF IInv, Window
    <2>2. Len(pending) > 0 =>
             /\ first + Len(pending) + Len(gpuQueue) <= frame
             /\ frame - first <= SlotCount
             /\ dpc = "render" => frame - first < SlotCount
        BY DEF IInv, Window
    <2>3. /\ \A g \in 1 .. Len(gpuQueue) : gpuQueue[g] = frame - Len(gpuQueue) + g - 1
          /\ \A i \in 1 .. Len(inflight) : inflight[i] = frame - Len(inflight) + i - 1
        BY DEF IInv, Window
    <2>4. /\ \A g \in 1 .. Len(gpuQueue) : gpuQueue[g] \in Nat
          /\ \A i \in 1 .. Len(inflight) : inflight[i] \in Nat
          /\ \A i \in 1 .. Len(pending) : pending[i].pts \in Nat
        BY Elements DEF IInv
    <2> HIDE DEF first
    <2>5. ASSUME NEW i \in 1 .. Len(pending), NEW g \in 1 .. Len(gpuQueue)
          PROVE  SlotOf(gpuQueue[g]) # pending[i].slot
        <3>1. pending[i].pts < gpuQueue[g] /\ gpuQueue[g] - pending[i].pts < SlotCount
            <4>1. /\ i \in Nat /\ i >= 1 /\ i <= Len(pending)
                  /\ g \in Nat /\ g >= 1 /\ g <= Len(gpuQueue) /\ Len(pending) > 0
                BY <2>0, <2>5
            <4>2. /\ first \in Nat /\ first + Len(pending) + Len(gpuQueue) <= frame
                  /\ frame - first <= SlotCount
                BY <2>0, <2>2, <4>1
            <4>3. pending[i].pts = first + i - 1 /\ gpuQueue[g] = frame - Len(gpuQueue) + g - 1
                BY <2>1, <2>3, <2>5
            <4>4. /\ first + i - 1 < frame - Len(gpuQueue) + g - 1
                  /\ (frame - Len(gpuQueue) + g - 1) - (first + i - 1) < SlotCount
                BY <2>0, <4>1, <4>2
            <4> QED  BY <4>3, <4>4
        <3> QED  BY <2>1, <2>4, <3>1, SlotsApart
    <2>6. ASSUME NEW i \in 1 .. Len(pending), NEW j \in 1 .. Len(pending), i < j
          PROVE  pending[j].slot # pending[i].slot
        <3>1. pending[i].pts < pending[j].pts /\ pending[j].pts - pending[i].pts < SlotCount
            BY <2>0, <2>1, <2>2, <2>6
        <3> QED  BY <2>1, <2>4, <3>1, SlotsApart
    <2>7. ASSUME dpc = "render", NEW i \in 1 .. Len(pending)
          PROVE  pending[i].slot # SlotOf(frame)
        <3>1. pending[i].pts < frame /\ frame - pending[i].pts < SlotCount
            BY <2>0, <2>1, <2>2, <2>7
        <3> QED  BY <2>0, <2>1, <2>4, <3>1, SlotsApart
    <2>8. ASSUME dpc = "render", NEW i \in 1 .. Len(inflight)
          PROVE  SlotOf(inflight[i]) # SlotOf(frame)
        <3>1. Len(inflight) <= Lookahead
            BY <2>0, <2>8 DEF IInv, Ahead
        <3>2. inflight[i] < frame /\ frame - inflight[i] < SlotCount
            BY <2>0, <2>3, <3>1
        <3> QED  BY <2>0, <2>4, <3>2, SlotsApart
    <2>9. \A i, j \in 1 .. Len(pending) : pending[j].slot = pending[i].slot => i = j
        BY <2>0, <2>6
    <2> QED  BY <2>0, <2>5, <2>7, <2>8, <2>9 DEF SlotExclusive, Busy
<1> QED  BY Invariance, <1>1, PTL

-----------------------------------------------------------------------------
(* Pixels and timestamps *)

LEMMA NextKeepsFrame ==
    ASSUME Position, Moves  PROVE frame' = frame
<1>1. CASE BeginSegment
    BY <1>1 DEF BeginSegment, Position
<1> QED
    BY <1>1
    DEF Moves, User, Cancel, Pause, Resume, EndOfLoop, CheckPause, Reclaimed, WaitForGpu, Collected,
        DrainSegment, FlushDone, MuxDone, Submitted, AfterSegment, JoinAudio, FinaliseSync, Report,
        FlushNvenc, CheckCancel, loopVars

\* A render that the GPU executes goes to a slot that no picture and no
\* finished render occupies.
LEMMA GpuKeepsDrawn ==
    ASSUME IInv, "stale" \notin Faults, Drawn, GpuExecutes  PROVE Drawn'
<1> DEFINE f == gpuQueue[1]
<1>0. /\ Len(inflight) \in Nat /\ Len(gpuQueue) \in Nat /\ Len(pending) \in Nat
      /\ SlotCount \in Nat /\ frame \in Nat /\ Lookahead + 1 <= SlotCount /\ Lookahead \in Nat
      /\ \A i \in 1 .. Len(pending) : pending[i].pts \in Nat
      /\ \A i \in 1 .. Len(inflight) : inflight[i] \in Nat
      /\ \A g \in 1 .. Len(gpuQueue) : gpuQueue[g] \in Nat
    BY Lengths, LookaheadFits, Elements, NvencAssumption DEF IInv, Domains
<1>1. /\ UNCHANGED <<frame, inflight, pending, got, muxVideo>>
      /\ Len(gpuQueue) > 0 /\ Len(gpuQueue') = Len(gpuQueue) - 1
      /\ slotData' = [slotData EXCEPT ![SlotOf(f)] = f]
    BY GpuEffect DEF GpuExecutes, IInv, loopVars, nvencVars, muxVars
<1>2. f \in Nat /\ f = frame - Len(gpuQueue)
    BY <1>0, <1>1 DEF IInv, Window
<1> HIDE DEF f
<1>3. \A x \in Nat : /\ SlotOf(x) \in Slots
                     /\ SlotOf(x) # SlotOf(f) => slotData'[SlotOf(x)] = slotData[SlotOf(x)]
    <2>1. \A x \in Nat : SlotOf(x) \in Slots
        BY NvencAssumption DEF SlotOf, Slots
    <2> QED  BY <1>1, <2>1 DEF IInv, Domains
<1>4. slotData'[SlotOf(f)] = f
    BY <1>1, <1>2, <1>3 DEF IInv, Domains
<1>5. ASSUME NEW i \in 1 .. Len(pending), ~pending[i].ready
      PROVE  slotData'[SlotOf(pending[i].pts)] = pending[i].pts
    <2>1. /\ pending[1].pts \in Nat /\ pending[i].pts = pending[1].pts + i - 1
          /\ pending[1].pts + Len(pending) + Len(gpuQueue) <= frame
          /\ frame - pending[1].pts <= SlotCount
        BY <1>0, <1>5 DEF IInv, Window
    <2>2. pending[i].pts \in Nat /\ pending[i].pts < f /\ f - pending[i].pts < SlotCount
        <3>1. /\ i \in Nat /\ i >= 1 /\ i <= Len(pending) /\ Len(pending) \in Nat
              /\ Len(gpuQueue) \in Nat /\ Len(gpuQueue) > 0 /\ frame \in Nat /\ SlotCount \in Nat
            BY <1>0, <1>1, <1>5
        <3> QED  BY <1>2, <2>1, <3>1
    <2>3. SlotOf(pending[i].pts) # SlotOf(f)
        BY <1>2, <2>2, SlotsApart
    <2> QED  BY <1>3, <1>5, <2>2, <2>3 DEF Drawn
<1>6. ASSUME NEW i \in 1 .. Len(inflight), inflight[i] < frame - Len(gpuQueue')
      PROVE  slotData'[SlotOf(inflight[i])] = inflight[i]
    <2>1. inflight[i] \in Nat /\ inflight[i] = frame - Len(inflight) + i - 1
        BY <1>0, <1>6 DEF IInv, Window
    <2>2. Len(inflight) <= Lookahead + 1
        BY <1>0 DEF IInv, Ahead
    <2>3. CASE inflight[i] = f
        BY <1>4, <2>3
    <2>4. CASE inflight[i] # f
        <3>1. inflight[i] < f
            <4>1. frame - Len(gpuQueue') = f + 1
                BY <1>0, <1>1, <1>2
            <4> QED  BY <1>2, <1>6, <2>1, <2>4, <4>1
        <3>2. f - inflight[i] < SlotCount
            <4>1. i >= 1 /\ i \in Nat
                BY <1>0, <1>6
            <4>2. f - inflight[i] <= Len(inflight) - Len(gpuQueue)
                BY <1>0, <1>2, <2>1, <4>1
            <4> QED  BY <1>0, <1>1, <1>2, <2>1, <2>2, <4>2
        <3>3. SlotOf(inflight[i]) # SlotOf(f)
            BY <1>2, <2>1, <3>1, <3>2, SlotsApart
        <3>4. slotData[SlotOf(inflight[i])] = inflight[i]
            BY <1>2, <3>1 DEF Drawn
        <3> QED  BY <1>3, <2>1, <3>3, <3>4
    <2> QED  BY <2>3, <2>4
<1> QED  BY <1>1, <1>5, <1>6 DEF Drawn

LEMMA NextKeepsDrawn ==
    ASSUME IInv, "stale" \notin Faults, Drawn, [Next]_vars  PROVE Drawn'
<1>0. /\ Len(inflight) \in Nat /\ Len(gpuQueue) \in Nat /\ Len(pending) \in Nat
      /\ Len(got) \in Nat /\ Len(muxVideo) \in Nat
      /\ Domains /\ frame \in Nat
    BY Lengths DEF IInv, Domains
<1>1. CASE Moves
    BY <1>1, MovesEffect, NextKeepsFrame DEF IInv, Drawn
<1>2. CASE Fails
    <2>1. Len(pending') = 0 /\ Len(inflight') = 0 /\ Len(got') = 0 /\ UNCHANGED muxVideo
        BY <1>2, Nothing DEF Fails, Poison, LoopFails, muxVars
    <2> QED  BY <2>1 DEF Drawn
<1>3. CASE CheckCancel /\ SeesCancel
    <2>1. Len(inflight') = 0 /\ UNCHANGED <<pending, slotData, got, muxVideo>>
        BY <1>3, Nothing DEF CheckCancel, SeesCancel, nvencVars, muxVars
    <2> QED  BY <2>1 DEF Drawn
<1>4. CASE GpuExecutes
    BY <1>4, GpuKeepsDrawn
<1>5. CASE Takes
    <2>1. UNCHANGED <<frame, inflight, gpuQueue, slotData, muxVideo>>
        BY <1>5 DEF Takes, loopVars, muxVars
    <2>2. /\ Len(pending) > 0 /\ pending[1].ready /\ Len(pending') = Len(pending) - 1
          /\ \A i \in 1 .. Len(pending) - 1 : pending'[i] = pending[i + 1]
          /\ Len(got') = Len(got) + 1
          /\ \A i \in 1 .. Len(got) : got'[i] = got[i]
          /\ got'[Len(got) + 1] = [pts |-> pending[1].pts, data |-> pending[1].data]
        BY <1>0, <1>5, TakeEffect DEF Takes
    <2>3. pending[1].data = pending[1].pts
        BY <1>0, <2>2 DEF Drawn
    <2>4. \A i \in 1 .. Len(got') : got'[i].data = got'[i].pts
        <3> SUFFICES ASSUME NEW i \in 1 .. Len(got')  PROVE got'[i].data = got'[i].pts
            OBVIOUS
        <3>1. CASE i = Len(got) + 1
            BY <2>2, <2>3, <3>1
        <3>2. CASE i \in 1 .. Len(got)
            BY <2>2, <3>2 DEF Drawn
        <3> QED  BY <1>0, <2>2, <3>1, <3>2
    <2>5. \A i \in 1 .. Len(pending') :
             IF pending'[i].ready THEN pending'[i].data = pending'[i].pts
             ELSE slotData[SlotOf(pending'[i].pts)] = pending'[i].pts
        <3> SUFFICES ASSUME NEW i \in 1 .. Len(pending')
                     PROVE  IF pending'[i].ready THEN pending'[i].data = pending'[i].pts
                            ELSE slotData[SlotOf(pending'[i].pts)] = pending'[i].pts
            OBVIOUS
        <3>1. pending'[i] = pending[i + 1] /\ i + 1 \in 1 .. Len(pending)
            BY <1>0, <2>2
        <3> QED  BY <3>1 DEF Drawn
    <2> QED  BY <2>1, <2>4, <2>5 DEF Drawn
<1>6. CASE NvencEncodes
    <2>1. UNCHANGED <<frame, inflight, gpuQueue, slotData, got, muxVideo>>
        BY <1>6 DEF NvencEncodes, loopVars, muxVars
    <2>2. /\ Len(pending') = Len(pending)
          /\ \A i \in 1 .. Len(pending) :
                /\ pending'[i].pts = pending[i].pts
                /\ \/ pending'[i].ready = pending[i].ready /\ pending'[i].data = pending[i].data
                   \/ ~pending[i].ready /\ pending'[i].data = slotData[pending[i].slot]
        BY <1>0, <1>6, EncodeEffect
    <2>3. \A i \in 1 .. Len(pending) : pending[i].slot = SlotOf(pending[i].pts)
        BY DEF IInv, Window
    <2>4. ASSUME NEW i \in 1 .. Len(pending)
          PROVE  IF pending'[i].ready THEN pending'[i].data = pending'[i].pts
                 ELSE slotData[SlotOf(pending'[i].pts)] = pending'[i].pts
        <3>1. IF pending[i].ready THEN pending[i].data = pending[i].pts
              ELSE slotData[SlotOf(pending[i].pts)] = pending[i].pts
            BY DEF Drawn
        <3> QED  BY <2>2, <2>3, <3>1
    <2> QED  BY <2>1, <2>2, <2>4 DEF Drawn
<1>7. CASE Render
    <2>1. UNCHANGED <<pending, slotData, got, muxVideo>> /\ frame' = frame + 1
        BY <1>7 DEF Render, nvencVars, muxVars
    <2>2. /\ Len(gpuQueue') = Len(gpuQueue) + 1
          /\ Len(inflight') = Len(inflight) + 1
          /\ \A i \in 1 .. Len(inflight) : inflight'[i] = inflight[i]
          /\ inflight'[Len(inflight) + 1] = frame
        BY <1>0, <1>7, RenderEffect DEF IInv
    <2>3. ASSUME NEW i \in 1 .. Len(inflight'), inflight'[i] < frame' - Len(gpuQueue')
          PROVE  slotData[SlotOf(inflight'[i])] = inflight'[i]
        <3>1. frame' - Len(gpuQueue') = frame - Len(gpuQueue)
            BY <1>0, <2>1, <2>2
        <3>2. i # Len(inflight) + 1
            BY <1>0, <2>2, <2>3, <3>1
        <3>3. i \in 1 .. Len(inflight) /\ inflight'[i] = inflight[i]
            BY <1>0, <2>2, <3>2
        <3> QED  BY <2>3, <3>1, <3>3 DEF Drawn
    <2> QED  BY <2>1, <2>3 DEF Drawn
<1>8. CASE SubmitPicture /\ dpc' # "joinAudio"
    <2>1. UNCHANGED <<frame, gpuQueue, slotData, muxVideo>> /\ dpc = "submit"
        BY <1>8 DEF SubmitPicture, loopVars, muxVars
    <2>2. /\ Len(inflight) > 0 /\ Len(pending') = Len(pending) + 1
          /\ \A i \in 1 .. Len(pending) : pending'[i] = pending[i]
          /\ pending'[Len(pending) + 1] =
                [pts |-> inflight[1], slot |-> SlotOf(inflight[1]), ready |-> FALSE,
                 data |-> NoFrame]
          /\ Len(inflight') = Len(inflight) - 1
          /\ \A i \in 1 .. Len(inflight) - 1 : inflight'[i] = inflight[i + 1]
          /\ UNCHANGED got
        BY <1>0, <1>8, SubmitEffect DEF IInv
    <2>3. slotData[SlotOf(inflight[1])] = inflight[1]
        <3>1. inflight[1] = frame - Len(inflight) /\ Len(gpuQueue) < Len(inflight)
            <4>1. 1 \in 1 .. Len(inflight)
                BY <1>0, <2>2
            <4>2. inflight[1] = frame - Len(inflight) + 1 - 1
                BY <4>1 DEF IInv, Window
            <4>3. inflight[1] = frame - Len(inflight)
                BY <1>0, <4>2
            <4>4. Len(gpuQueue) < Len(inflight)
                BY <1>0, <2>1, <2>2 DEF IInv, Ahead
            <4> QED  BY <4>3, <4>4
        <3>2. inflight[1] < frame - Len(gpuQueue)
            BY <1>0, <3>1
        <3> QED  BY <1>0, <2>2, <3>2 DEF Drawn
    <2>4. ASSUME NEW i \in 1 .. Len(pending')
          PROVE  IF pending'[i].ready THEN pending'[i].data = pending'[i].pts
                 ELSE slotData[SlotOf(pending'[i].pts)] = pending'[i].pts
        <3>1. CASE i = Len(pending) + 1
            BY <2>2, <2>3, <3>1
        <3>2. CASE i \in 1 .. Len(pending)
            BY <2>2, <3>2 DEF Drawn
        <3> QED  BY <1>0, <2>2, <3>1, <3>2
    <2>5. ASSUME NEW i \in 1 .. Len(inflight'), inflight'[i] < frame - Len(gpuQueue)
          PROVE  slotData[SlotOf(inflight'[i])] = inflight'[i]
        <3>1. inflight'[i] = inflight[i + 1] /\ i + 1 \in 1 .. Len(inflight)
            BY <1>0, <2>2
        <3> QED  BY <2>5, <3>1 DEF Drawn
    <2> QED  BY <2>1, <2>2, <2>4, <2>5 DEF Drawn
<1>9. CASE MuxPacket
    <2>1. UNCHANGED <<frame, inflight, gpuQueue, pending, slotData>>
        BY <1>9 DEF MuxPacket, loopVars, nvencVars
    <2>2. /\ Len(got) > 0 /\ Len(got') = Len(got) - 1
          /\ \A i \in 1 .. Len(got) - 1 : got'[i] = got[i + 1]
          /\ \/ /\ Len(muxVideo') = Len(muxVideo) + 1
                /\ \A i \in 1 .. Len(muxVideo) : muxVideo'[i] = muxVideo[i]
                /\ muxVideo'[Len(muxVideo) + 1] = got[1]
             \/ UNCHANGED muxVideo
        BY <1>0, <1>9, MuxEffect
    <2>3. got[1].data = got[1].pts
        BY <1>0, <2>2 DEF Drawn
    <2>4. \A i \in 1 .. Len(got') : got'[i].data = got'[i].pts
        <3> SUFFICES ASSUME NEW i \in 1 .. Len(got')  PROVE got'[i].data = got'[i].pts
            OBVIOUS
        <3>1. got'[i] = got[i + 1] /\ i + 1 \in 1 .. Len(got)
            BY <1>0, <2>2
        <3> QED  BY <3>1 DEF Drawn
    <2>5. \A i \in 1 .. Len(muxVideo') : muxVideo'[i].data = muxVideo'[i].pts
        <3> SUFFICES ASSUME NEW i \in 1 .. Len(muxVideo')
                     PROVE  muxVideo'[i].data = muxVideo'[i].pts
            OBVIOUS
        <3>1. CASE UNCHANGED muxVideo
            BY <3>1 DEF Drawn
        <3>2. CASE ~UNCHANGED muxVideo /\ i = Len(muxVideo) + 1
            BY <2>2, <2>3, <3>2
        <3>3. CASE ~UNCHANGED muxVideo /\ i \in 1 .. Len(muxVideo)
            BY <2>2, <3>3 DEF Drawn
        <3> QED  BY <1>0, <2>2, <3>1, <3>2, <3>3
    <2> QED  BY <2>1, <2>4, <2>5 DEF Drawn
<1>10. CASE UNCHANGED vars
    BY <1>10 DEF vars, loopVars, nvencVars, muxVars, Drawn
<1> QED
    BY <1>0, <1>1, <1>2, <1>3, <1>4, <1>5, <1>6, <1>7, <1>8, <1>9, <1>10, NextSteps

(* Unless a submission is executed without drawing, every packet carries   *)
(* the pixels of the frame its timestamp names: no slot is read before its *)
(* render has finished, nor after it was rendered into again.              *)
THEOREM PacketsTrue ==
    ASSUME "stale" \notin Faults
    PROVE  Spec => []PacketsCarryTheirFrame
<1>1. Init => Drawn
    <2> SUFFICES ASSUME Init  PROVE Drawn
        OBVIOUS
    <2>1. Len(pending) = 0 /\ Len(inflight) = 0 /\ Len(got) = 0 /\ Len(muxVideo) = 0
        BY Nothing DEF Init
    <2> QED  BY <2>1 DEF Drawn
<1>2. IInv /\ Drawn /\ [Next]_vars => Drawn'
    BY NextKeepsDrawn
<1>3. IInv /\ Drawn => PacketsCarryTheirFrame
    BY LenProperties DEF IInv, Domains, Drawn, PacketsCarryTheirFrame
<1> QED  BY Invariance, <1>1, <1>2, <1>3, PTL DEF Spec

-----------------------------------------------------------------------------
(* No frame is lost *)

\* How many frames the encoder was given: those in the file, those in hand, and
\* those NVENC has.
Given == Len(muxVideo) + Len(got) + Len(pending)

LEMMA NextKeepsConserved ==
    ASSUME IInv, "mux" \notin Faults, Conserved, [Next]_vars  PROVE Conserved'
<1>0. /\ Len(inflight) \in Nat /\ Len(pending) \in Nat /\ Len(got) \in Nat
      /\ Len(muxVideo) \in Nat /\ frame \in Nat /\ error \in BOOLEAN /\ Domains
    BY Lengths DEF IInv, Domains
<1>a. error => Ending
    BY DEF Conserved
<1>b. \A i \in 1 .. Len(muxVideo) : muxVideo[i].pts = i - 1
    BY DEF Conserved
<1>c. ~error => /\ \A i \in 1 .. Len(got) : got[i].pts = Len(muxVideo) + i - 1
                /\ \A i \in 1 .. Len(pending) : pending[i].pts = Len(muxVideo) + Len(got) + i - 1
                /\ \A i \in 1 .. Len(inflight) : inflight[i] = Given + i - 1
                /\ Given <= frame
                /\ Unbroken \/ ~cancel => Given + Len(inflight) = frame
    BY DEF Conserved, Given
<1>d. Len(muxVideo) <= frame
    BY <1>0, <1>c DEF Conserved, Given
<1>1. ASSUME UNCHANGED <<frame, error, inflight, pending, got, muxVideo>>, Ending => Ending',
             Unbroken' \/ ~cancel' => Unbroken \/ ~cancel
      PROVE  Conserved'
    BY <1>1 DEF Conserved
<1>2. CASE Moves
    <2>1. UNCHANGED <<frame, inflight, pending, got, muxVideo>>
        BY <1>0, <1>2, MovesEffect, NextKeepsFrame DEF IInv
    <2>2. Ending => Ending'
        BY <1>2
        DEF Moves, User, Cancel, Pause, Resume, EndOfLoop, CheckPause, Reclaimed, WaitForGpu,
            Collected, DrainSegment, FlushDone, Flushed, MuxDone, BeginSegment, Submitted,
            AfterSegment, JoinAudio, FinaliseSync, Report, FlushNvenc, CheckCancel, Ending
    <2>3. CASE User
        <3>1. UNCHANGED <<error, dpc, then>> /\ (cancel => cancel')
            BY <2>3 DEF User, Cancel, Pause, Resume
        <3> QED
            BY <1>1, <2>1, <2>2, <3>1 DEF Unbroken, Looping, Due, JustSubmitted, MuxesFor
    <2>4. CASE JoinAudio \/ FinaliseSync
        <3>1. Ending' /\ (error' = error \/ error' = TRUE) /\ UNCHANGED cancel /\ ~Unbroken'
            BY <2>4
            DEF JoinAudio, FinaliseSync, Ending, controlVars, Unbroken, Looping, Due, JustSubmitted,
                MuxesFor
        <3>2. CASE error' = error
            BY <1>1, <2>1, <2>2, <3>1, <3>2
        <3>3. CASE error' = TRUE
            BY <1>b, <1>d, <2>1, <3>1, <3>3 DEF Conserved
        <3> QED  BY <3>1, <3>2, <3>3
    <2>5. CASE ~User /\ ~JoinAudio /\ ~FinaliseSync
        <3>1. UNCHANGED <<error, cancel>>
            BY <1>2, <2>5
            DEF Moves, EndOfLoop, CheckPause, Reclaimed, WaitForGpu, Collected, DrainSegment,
                FlushDone, MuxDone, BeginSegment, Submitted, AfterSegment, Report, FlushNvenc,
                CheckCancel, controlVars
        <3>2. Unbroken' => Unbroken \/ ~cancel
            BY <1>0, <1>2, <2>5
            DEF Moves, EndOfLoop, CheckPause, Reclaimed, WaitForGpu, Collected, DrainSegment,
                FlushDone, Flushed, MuxDone, BeginSegment, Submitted, AfterSegment, Report,
                FlushNvenc, CheckCancel, SeesCancel, controlVars, Unbroken, Looping, Due,
                JustSubmitted, MuxesFor, Domains
        <3> QED  BY <1>1, <2>1, <2>2, <3>1, <3>2
    <2> QED  BY <2>3, <2>4, <2>5
<1>3. CASE Fails
    <2>1. UNCHANGED <<frame, muxVideo>> /\ error' = TRUE /\ Ending'
        BY <1>3 DEF Fails, Poison, LoopFails, loopVars, muxVars, Ending
    <2> QED  BY <1>b, <1>d, <2>1 DEF Conserved
<1>4. CASE CheckCancel /\ SeesCancel
    <2>1. /\ UNCHANGED <<frame, error, pending, got, muxVideo>> /\ Len(inflight') = 0
          /\ dpc \in {"frame", "paused"} /\ dpc' = "after" /\ cancel'
        BY <1>4, Nothing
        DEF CheckCancel, SeesCancel, loopVars, nvencVars, muxVars, controlVars
    <2>2. ~Ending /\ ~Unbroken'
        BY <2>1 DEF Ending, Unbroken, Looping, Due, JustSubmitted, MuxesFor
    <2> QED  BY <1>a, <1>b, <1>c, <2>1, <2>2 DEF Conserved, Given
<1>5. CASE GpuExecutes
    <2>1. UNCHANGED <<frame, error, inflight, pending, got, muxVideo, dpc, then, cancel>>
        BY <1>5 DEF GpuExecutes, loopVars, nvencVars, muxVars, controlVars
    <2> QED  BY <1>1, <2>1 DEF Ending, Unbroken, Looping, Due, JustSubmitted, MuxesFor
<1>6. CASE NvencEncodes
    <2>1. UNCHANGED <<frame, error, inflight, got, muxVideo, dpc, then, cancel>>
        BY <1>6 DEF NvencEncodes, loopVars, muxVars, controlVars
    <2>2. /\ Len(pending') = Len(pending)
          /\ \A i \in 1 .. Len(pending) : pending'[i].pts = pending[i].pts
        BY <1>0, <1>6, EncodeEffect
    <2>3. /\ Ending' = Ending /\ Unbroken' = Unbroken
        BY <2>1 DEF Ending, Unbroken, Looping, Due, JustSubmitted, MuxesFor
    <2> QED  BY <2>1, <2>2, <2>3 DEF Conserved
<1>7. CASE Takes
    <2>1. /\ UNCHANGED <<frame, error, inflight, muxVideo, dpc, then, cancel>>
          /\ dpc \in {"reclaim", "collect", "flush"}
        BY <1>7 DEF Takes, loopVars, muxVars, controlVars
    <2>2. ~error /\ ~Ending' /\ (Unbroken' => Unbroken)
        BY <1>a, <2>1 DEF Ending, Unbroken, Looping, Due, JustSubmitted, MuxesFor
    <2>3. /\ Len(pending) > 0 /\ Len(pending') = Len(pending) - 1
          /\ \A i \in 1 .. Len(pending) - 1 : pending'[i] = pending[i + 1]
          /\ Len(got') = Len(got) + 1
          /\ \A i \in 1 .. Len(got) : got'[i] = got[i]
          /\ got'[Len(got) + 1] = [pts |-> pending[1].pts, data |-> pending[1].data]
        BY <1>0, <1>7, TakeEffect DEF Takes
    <2>4. \A i \in 1 .. Len(got') : got'[i].pts = Len(muxVideo) + i - 1
        <3> SUFFICES ASSUME NEW i \in 1 .. Len(got')  PROVE got'[i].pts = Len(muxVideo) + i - 1
            OBVIOUS
        <3>1. CASE i = Len(got) + 1
            <4>1. got'[i].pts = pending[1].pts
                BY <2>3, <3>1
            <4>2. pending[1].pts = Len(muxVideo) + Len(got) + 1 - 1
                BY <1>0, <1>c, <2>2, <2>3
            <4> QED  BY <1>0, <3>1, <4>1, <4>2
        <3>2. CASE i \in 1 .. Len(got)
            BY <1>c, <2>2, <2>3, <3>2
        <3> QED  BY <1>0, <2>3, <3>1, <3>2
    <2>5. \A i \in 1 .. Len(pending') : pending'[i].pts = Len(muxVideo) + Len(got') + i - 1
        <3> SUFFICES ASSUME NEW i \in 1 .. Len(pending')
                     PROVE  pending'[i].pts = Len(muxVideo) + Len(got') + i - 1
            OBVIOUS
        <3>1. pending'[i] = pending[i + 1] /\ i + 1 \in 1 .. Len(pending) /\ i \in Nat
            BY <1>0, <2>3
        <3>2. pending[i + 1].pts = Len(muxVideo) + Len(got) + (i + 1) - 1
            BY <1>c, <2>2, <3>1
        <3> QED  BY <1>0, <2>3, <3>1, <3>2
    <2>6. Given' = Given
        BY <1>0, <2>1, <2>3 DEF Given
    <2> QED
        BY <1>b, <1>c, <2>1, <2>2, <2>4, <2>5, <2>6 DEF Conserved, Given
<1>8. CASE Render
    <2>1. UNCHANGED <<error, pending, got, muxVideo, cancel>> /\ frame' = frame + 1 /\ dpc = "render"
        BY <1>8 DEF Render, nvencVars, muxVars, controlVars
    <2>2. ~error /\ Unbroken
        BY <1>a, <2>1 DEF Ending, Unbroken, Looping, Due
    <2>3. /\ Len(inflight') = Len(inflight) + 1
          /\ \A i \in 1 .. Len(inflight) : inflight'[i] = inflight[i]
          /\ inflight'[Len(inflight) + 1] = frame
        BY <1>0, <1>8, RenderEffect DEF IInv
    <2>4. Given \in Nat /\ Given + Len(inflight) = frame /\ Given' = Given
        BY <1>0, <1>c, <2>1, <2>2 DEF Given
    <2>5. \A i \in 1 .. Len(inflight') : inflight'[i] = Given + i - 1
        <3> SUFFICES ASSUME NEW i \in 1 .. Len(inflight')  PROVE inflight'[i] = Given + i - 1
            OBVIOUS
        <3>1. CASE i = Len(inflight) + 1
            BY <1>0, <2>3, <2>4, <3>1
        <3>2. CASE i \in 1 .. Len(inflight)
            BY <1>c, <2>2, <2>3, <3>2
        <3> QED  BY <1>0, <2>3, <3>1, <3>2
    <2>6. Given' <= frame' /\ Given' + Len(inflight') = frame'
        BY <1>0, <2>1, <2>3, <2>4
    <2>7. /\ \A i \in 1 .. Len(got) : got[i].pts = Len(muxVideo) + i - 1
          /\ \A i \in 1 .. Len(pending) : pending[i].pts = Len(muxVideo) + Len(got) + i - 1
        BY <1>c, <2>2
    <2> QED  BY <1>b, <2>1, <2>2, <2>4, <2>5, <2>6, <2>7 DEF Conserved, Given
<1>9. CASE SubmitPicture /\ dpc' # "joinAudio"
    <2>1. UNCHANGED <<frame, muxVideo, cancel>> /\ dpc = "submit"
        BY <1>9 DEF SubmitPicture, loopVars, muxVars, controlVars
    <2>2. ~error /\ Unbroken
        BY <1>a, <2>1 DEF Ending, Unbroken, Looping
    <2>3. /\ Len(inflight) > 0 /\ Len(pending') = Len(pending) + 1
          /\ \A i \in 1 .. Len(pending) : pending'[i] = pending[i]
          /\ pending'[Len(pending) + 1] =
                [pts |-> inflight[1], slot |-> SlotOf(inflight[1]), ready |-> FALSE,
                 data |-> NoFrame]
          /\ Len(inflight') = Len(inflight) - 1
          /\ \A i \in 1 .. Len(inflight) - 1 : inflight'[i] = inflight[i + 1]
          /\ UNCHANGED <<got, error>>
        BY <1>0, <1>9, SubmitEffect DEF IInv
    <2>4. Given \in Nat /\ Given + Len(inflight) = frame /\ Given' = Given + 1
        BY <1>0, <1>c, <2>1, <2>2, <2>3 DEF Given
    <2>5. \A i \in 1 .. Len(inflight') : inflight'[i] = Given' + i - 1
        <3> SUFFICES ASSUME NEW i \in 1 .. Len(inflight')  PROVE inflight'[i] = Given' + i - 1
            OBVIOUS
        <3>1. inflight'[i] = inflight[i + 1] /\ i + 1 \in 1 .. Len(inflight) /\ i \in Nat
            BY <1>0, <2>3
        <3>2. inflight[i + 1] = Given + (i + 1) - 1
            BY <1>c, <2>2, <3>1
        <3> QED  BY <2>4, <3>1, <3>2
    <2>6. \A i \in 1 .. Len(pending') : pending'[i].pts = Len(muxVideo) + Len(got) + i - 1
        <3> SUFFICES ASSUME NEW i \in 1 .. Len(pending')
                     PROVE  pending'[i].pts = Len(muxVideo) + Len(got) + i - 1
            OBVIOUS
        <3>1. CASE i = Len(pending) + 1
            <4>1. pending'[i].pts = inflight[1] /\ inflight[1] = Given + 1 - 1
                BY <1>0, <1>c, <2>2, <2>3, <3>1
            <4> QED  BY <1>0, <3>1, <4>1 DEF Given
        <3>2. CASE i \in 1 .. Len(pending)
            BY <1>c, <2>2, <2>3, <3>2
        <3> QED  BY <1>0, <2>3, <3>1, <3>2
    <2>7. Given' <= frame /\ Given' + Len(inflight') = frame
        <3>1. /\ Given' = Given + 1 /\ Len(inflight') = Len(inflight) - 1 /\ Len(inflight) > 0
              /\ Given + Len(inflight) = frame /\ Given \in Nat /\ Len(inflight) \in Nat
            BY <1>0, <2>3, <2>4
        <3>2. Given' + Len(inflight') = frame
            BY <3>1
        <3>3. Given' <= frame
            BY <3>1
        <3> QED  BY <3>2, <3>3
    <2>8. \A i \in 1 .. Len(got) : got[i].pts = Len(muxVideo) + i - 1
        BY <1>c, <2>2
    <2> QED  BY <1>b, <2>1, <2>2, <2>3, <2>5, <2>6, <2>7, <2>8 DEF Conserved, Given
<1>10. CASE MuxPacket
    <2>1. /\ UNCHANGED <<frame, inflight, pending, dpc, then, cancel>> /\ dpc = "mux"
        BY <1>10 DEF MuxPacket, loopVars, nvencVars, controlVars
    <2>2. ~error /\ ~Ending' /\ Unbroken' = Unbroken
        BY <1>a, <2>1 DEF Ending, Unbroken, Looping, Due, JustSubmitted, MuxesFor
    <2>3. /\ Len(got) > 0 /\ Len(got') = Len(got) - 1
          /\ \A i \in 1 .. Len(got) - 1 : got'[i] = got[i + 1]
          /\ Len(muxVideo') = Len(muxVideo) + 1
          /\ \A i \in 1 .. Len(muxVideo) : muxVideo'[i] = muxVideo[i]
          /\ muxVideo'[Len(muxVideo) + 1] = got[1]
          /\ error' = error
        BY <1>0, <1>10, <2>2, MuxEffect
    <2>4. \A i \in 1 .. Len(muxVideo') : muxVideo'[i].pts = i - 1
        <3> SUFFICES ASSUME NEW i \in 1 .. Len(muxVideo')  PROVE muxVideo'[i].pts = i - 1
            OBVIOUS
        <3>1. CASE i = Len(muxVideo) + 1
            <4>1. muxVideo'[i].pts = got[1].pts /\ got[1].pts = Len(muxVideo) + 1 - 1
                BY <1>0, <1>c, <2>2, <2>3, <3>1
            <4> QED  BY <1>0, <3>1, <4>1
        <3>2. CASE i \in 1 .. Len(muxVideo)
            BY <1>b, <2>3, <3>2
        <3> QED  BY <1>0, <2>3, <3>1, <3>2
    <2>5. \A i \in 1 .. Len(got') : got'[i].pts = Len(muxVideo') + i - 1
        <3> SUFFICES ASSUME NEW i \in 1 .. Len(got')  PROVE got'[i].pts = Len(muxVideo') + i - 1
            OBVIOUS
        <3>1. got'[i] = got[i + 1] /\ i + 1 \in 1 .. Len(got) /\ i \in Nat
            BY <1>0, <2>3
        <3>2. got[i + 1].pts = Len(muxVideo) + (i + 1) - 1
            BY <1>c, <2>2, <3>1
        <3> QED  BY <1>0, <2>3, <3>1, <3>2
    <2>6. Given' = Given /\ Len(muxVideo') + Len(got') = Len(muxVideo) + Len(got)
        BY <1>0, <2>1, <2>3 DEF Given
    <2> QED
        BY <1>c, <2>1, <2>2, <2>3, <2>4, <2>5, <2>6 DEF Conserved, Given
<1>11. CASE UNCHANGED vars
    BY <1>1, <1>11
    DEF vars, loopVars, nvencVars, muxVars, controlVars, Ending, Unbroken, Looping, Due,
        JustSubmitted, MuxesFor
<1> QED
    BY <1>0, <1>2, <1>3, <1>4, <1>5, <1>6, <1>7, <1>8, <1>9, <1>10, <1>11, NextSteps

LEMMA TimestampsOf ==
    ASSUME NEW S, NEW s \in Seq(S), \A i \in 1 .. Len(s) : s[i].pts \in Int
    PROVE  /\ Timestamps(s) \in Seq(Int) /\ Len(Timestamps(s)) = Len(s)
           /\ \A i \in 1 .. Len(s) : Timestamps(s)[i] = s[i].pts
<1>1. Len(s) \in Nat /\ DOMAIN s = 1 .. Len(s)
    BY LenProperties
<1>2. Timestamps(s) = [i \in 1 .. Len(s) |-> s[i].pts]
    BY <1>1 DEF Timestamps
<1> QED  BY <1>1, <1>2

LEMMA FirstFramesAre ==
    ASSUME NEW n \in Nat
    PROVE  /\ FirstFrames(n) \in Seq(Int) /\ Len(FirstFrames(n)) = n
           /\ \A i \in 1 .. n : FirstFrames(n)[i] = i - 1
BY DEF FirstFrames

\* A sequence that counts from 0, continued by one that counts on, counts.
LEMMA CountsOn ==
    ASSUME NEW s \in Seq(Int), NEW t \in Seq(Int),
           \A i \in 1 .. Len(s) : s[i] = i - 1,
           \A i \in 1 .. Len(t) : t[i] = Len(s) + i - 1
    PROVE  /\ s \o t \in Seq(Int) /\ Len(s \o t) = Len(s) + Len(t)
           /\ \A i \in 1 .. Len(s \o t) : (s \o t)[i] = i - 1
<1>1. Len(s) \in Nat /\ Len(t) \in Nat
    BY LenProperties
<1>2. /\ s \o t \in Seq(Int) /\ Len(s \o t) = Len(s) + Len(t)
      /\ \A i \in 1 .. Len(s) + Len(t) :
            (s \o t)[i] = IF i <= Len(s) THEN s[i] ELSE t[i - Len(s)]
    BY ConcatProperties
<1>3. ASSUME NEW i \in 1 .. Len(s \o t)  PROVE (s \o t)[i] = i - 1
    <2>1. CASE i <= Len(s)
        BY <1>1, <1>2, <1>3, <2>1
    <2>2. CASE i > Len(s)
        <3>1. i - Len(s) \in 1 .. Len(t)
            BY <1>1, <1>2, <1>3, <2>2
        <3>2. (s \o t)[i] = t[i - Len(s)]
            BY <1>1, <1>2, <1>3, <2>2
        <3> QED  BY <1>1, <1>2, <1>3, <3>1, <3>2
    <2> QED  BY <1>1, <1>2, <1>3, <2>1, <2>2
<1> QED  BY <1>2, <1>3

LEMMA ConservedMeans ==
    ASSUME IInv, Conserved, ~error
    PROVE  LET out == Timestamps(muxVideo) \o Timestamps(got) \o Timestamps(pending)
           IN  out \o inflight = FirstFrames(Len(out) + Len(inflight))
<1> DEFINE m == Timestamps(muxVideo)
           g == Timestamps(got)
           p == Timestamps(pending)
           out == m \o g \o p
<1>1. /\ muxVideo \in Seq(Packets) /\ got \in Seq(Packets) /\ pending \in Seq(Pictures)
      /\ inflight \in Seq(Int) /\ Len(inflight) \in Nat /\ Len(pending) \in Nat
      /\ Len(got) \in Nat /\ Len(muxVideo) \in Nat
    <2>0. inflight \in Seq(0 .. TotalFrames - 1) /\ 0 .. TotalFrames - 1 \subseteq Int
        BY DEF IInv, Domains
    <2>1. inflight \in Seq(Int)
        BY <2>0, SeqMonotonic
    <2> QED  BY <2>1, Lengths DEF IInv, Domains
<1>2. /\ \A i \in 1 .. Len(muxVideo) : muxVideo[i].pts = i - 1
      /\ \A i \in 1 .. Len(got) : got[i].pts = Len(muxVideo) + i - 1
      /\ \A i \in 1 .. Len(pending) : pending[i].pts = Len(muxVideo) + Len(got) + i - 1
      /\ \A i \in 1 .. Len(inflight) : inflight[i] = Len(muxVideo) + Len(got) + Len(pending) + i - 1
    BY DEF Conserved
<1>3. /\ m \in Seq(Int) /\ Len(m) = Len(muxVideo)
      /\ \A i \in 1 .. Len(m) : m[i] = i - 1
    <2>1. \A i \in 1 .. Len(muxVideo) : muxVideo[i].pts \in Int
        BY <1>1, <1>2
    <2> QED  BY <1>1, <1>2, <2>1, TimestampsOf
<1>4. /\ g \in Seq(Int) /\ Len(g) = Len(got)
      /\ \A i \in 1 .. Len(g) : g[i] = Len(m) + i - 1
    <2>1. \A i \in 1 .. Len(got) : got[i].pts \in Int
        BY <1>1, <1>2
    <2> QED  BY <1>1, <1>2, <1>3, <2>1, TimestampsOf
<1>5. /\ p \in Seq(Int) /\ Len(p) = Len(pending)
      /\ \A i \in 1 .. Len(p) : p[i] = Len(m) + Len(g) + i - 1
    <2>1. \A i \in 1 .. Len(pending) : pending[i].pts \in Int
        BY <1>1, <1>2
    <2> QED  BY <1>1, <1>2, <1>3, <1>4, <2>1, TimestampsOf
<1>6. \A i \in 1 .. Len(inflight) : inflight[i] = Len(m) + Len(g) + Len(p) + i - 1
    BY <1>2, <1>3, <1>4, <1>5
<1> HIDE DEF m, g, p
<1>7. /\ m \o g \in Seq(Int) /\ Len(m \o g) = Len(m) + Len(g)
      /\ \A i \in 1 .. Len(m \o g) : (m \o g)[i] = i - 1
    BY <1>3, <1>4, CountsOn
<1>8. /\ out \in Seq(Int) /\ Len(out) = Len(m) + Len(g) + Len(p)
      /\ \A i \in 1 .. Len(out) : out[i] = i - 1
    <2> DEFINE mg == m \o g
    <2>1. \A i \in 1 .. Len(p) : p[i] = Len(mg) + i - 1
        BY <1>5, <1>7
    <2>2. mg \in Seq(Int) /\ \A i \in 1 .. Len(mg) : mg[i] = i - 1
        BY <1>7
    <2> HIDE DEF mg
    <2>3. /\ mg \o p \in Seq(Int) /\ Len(mg \o p) = Len(mg) + Len(p)
          /\ \A i \in 1 .. Len(mg \o p) : (mg \o p)[i] = i - 1
        BY <1>5, <2>1, <2>2, CountsOn
    <2> QED  BY <1>7, <2>3 DEF mg
<1> HIDE DEF out
<1>9. /\ out \o inflight \in Seq(Int) /\ Len(out \o inflight) = Len(out) + Len(inflight)
      /\ \A i \in 1 .. Len(out \o inflight) : (out \o inflight)[i] = i - 1
    <2>1. \A i \in 1 .. Len(inflight) : inflight[i] = Len(out) + i - 1
        BY <1>6, <1>8
    <2> QED  BY <1>1, <1>8, <2>1, CountsOn
<1>10. Len(out) + Len(inflight) \in Nat
    BY <1>1, <1>3, <1>4, <1>5, <1>8
<1>11. out \o inflight = FirstFrames(Len(out) + Len(inflight))
    <2> DEFINE all == out \o inflight
               n == Len(out) + Len(inflight)
    <2>1. all \in Seq(Int) /\ Len(all) = n /\ \A i \in 1 .. n : all[i] = i - 1
        BY <1>9
    <2>2. /\ FirstFrames(n) \in Seq(Int) /\ Len(FirstFrames(n)) = n
          /\ \A i \in 1 .. n : FirstFrames(n)[i] = i - 1
        BY <1>10, FirstFramesAre
    <2> HIDE DEF all, n
    <2>3. all = FirstFrames(n)
        BY <2>1, <2>2, SeqEqual
    <2> QED  BY <2>3 DEF all, n
<1> QED  BY <1>11 DEF m, g, p, out

LEMMA InitConserves == Init => Conserved
<1> SUFFICES ASSUME Init  PROVE Conserved
    OBVIOUS
<1>1. /\ Len(muxVideo) = 0 /\ Len(got) = 0 /\ Len(pending) = 0 /\ Len(inflight) = 0
      /\ error = FALSE /\ frame = 0
    BY Nothing DEF Init
<1> QED  BY <1>1 DEF Conserved

(* While nothing fails, the file, the packets in hand, the pictures in     *)
(* NVENC and the renders in flight are the first frames, each once and in  *)
(* order, provided the muxer refuses no packet: a refusal in the frame     *)
(* loop is only logged (mux_nvenc_packets).                                *)
THEOREM NoFrameLost ==
    ASSUME "mux" \notin Faults
    PROVE  Spec => []FramesConserved
<1>1. IInv /\ Conserved /\ [Next]_vars => Conserved'
    BY NextKeepsConserved
<1>2. IInv /\ Conserved => FramesConserved
    BY ConservedMeans DEF FramesConserved
<1> QED  BY Invariance, InitConserves, <1>1, <1>2, PTL DEF Spec

-----------------------------------------------------------------------------
(* The contract of an export *)

LEMMA InitContract == Init => Contract!CInit
<1> SUFFICES ASSUME Init  PROVE Contract!CInit
    OBVIOUS
<1>1. muxVideo = <<>> /\ finalised = FALSE /\ cancel = FALSE /\ terminal = <<>>
    BY DEF Init
<1>2. Timestamps(<<>>) = <<>>
    BY DEF Timestamps
<1> QED  BY <1>1, <1>2 DEF Contract!CInit

\* A written packet is the container's next frame.
LEMMA MuxWrites ==
    ASSUME IInv, "mux" \notin Faults, Conserved, MuxPacket
    PROVE  Contract!CWriteVideo
<1>0. /\ Len(pending) \in Nat /\ Len(got) \in Nat /\ Len(muxVideo) \in Nat /\ Domains
      /\ frame \in 0 .. TotalFrames /\ TotalFrames \in Nat
    BY Lengths, NvencAssumption DEF IInv, Domains
<1>1. ~error /\ ~finalised /\ UNCHANGED <<cancel, finalised, terminal>>
    BY DEF IInv, Verdicts, Conserved, MuxPacket, Ending, controlVars
<1>2. /\ Len(got) > 0
      /\ muxVideo' \in Seq(Packets) /\ Len(muxVideo') = Len(muxVideo) + 1
      /\ \A i \in 1 .. Len(muxVideo) : muxVideo'[i] = muxVideo[i]
      /\ muxVideo'[Len(muxVideo) + 1] = got[1]
    BY <1>0, <1>1, MuxEffect
<1>3. /\ \A i \in 1 .. Len(muxVideo) : muxVideo[i].pts = i - 1
      /\ got[1].pts = Len(muxVideo)
      /\ Len(muxVideo) + Len(got) + Len(pending) <= frame
    <2>1. /\ \A i \in 1 .. Len(muxVideo) : muxVideo[i].pts = i - 1
          /\ \A i \in 1 .. Len(got) : got[i].pts = Len(muxVideo) + i - 1
          /\ Len(muxVideo) + Len(got) + Len(pending) <= frame
        BY <1>1 DEF Conserved
    <2>2. got[1].pts = Len(muxVideo) + 1 - 1
        BY <1>0, <1>2, <2>1
    <2> QED  BY <1>0, <2>1, <2>2
<1>4. \A i \in 1 .. Len(muxVideo') : muxVideo'[i].pts = i - 1
    <2> SUFFICES ASSUME NEW i \in 1 .. Len(muxVideo')  PROVE muxVideo'[i].pts = i - 1
        OBVIOUS
    <2>1. CASE i = Len(muxVideo) + 1
        BY <1>0, <1>2, <1>3, <2>1
    <2>2. CASE i \in 1 .. Len(muxVideo)
        BY <1>2, <1>3, <2>2
    <2> QED  BY <1>0, <1>2, <2>1, <2>2
<1> DEFINE video == Timestamps(muxVideo)
<1>5. /\ video \in Seq(Int) /\ Len(video) = Len(muxVideo)
      /\ \A i \in 1 .. Len(muxVideo) : video[i] = i - 1
    <2>1. \A i \in 1 .. Len(muxVideo) : muxVideo[i].pts \in Int
        BY <1>0, <1>3
    <2> QED  BY <1>0, <1>3, <2>1, TimestampsOf DEF Domains
<1>6. /\ Timestamps(muxVideo') \in Seq(Int) /\ Len(Timestamps(muxVideo')) = Len(muxVideo')
      /\ \A i \in 1 .. Len(muxVideo') : Timestamps(muxVideo')[i] = i - 1
    <2>1. \A i \in 1 .. Len(muxVideo') : muxVideo'[i].pts \in Int
        BY <1>4
    <2> QED  BY <1>2, <1>4, <2>1, TimestampsOf
<1>7. video' = Timestamps(muxVideo')
    OBVIOUS
<1> HIDE DEF video
<1>8. Len(video) \in Int /\ Len(video) < TotalFrames
    BY <1>0, <1>2, <1>3, <1>5
<1>9. /\ Append(video, Len(video)) \in Seq(Int) /\ Len(Append(video, Len(video))) = Len(video) + 1
      /\ \A i \in 1 .. Len(video) : Append(video, Len(video))[i] = video[i]
      /\ Append(video, Len(video))[Len(video) + 1] = Len(video)
    BY <1>5, <1>8, Pushed
<1>10. \A i \in 1 .. Len(muxVideo') : Append(video, Len(video))[i] = i - 1
    <2> SUFFICES ASSUME NEW i \in 1 .. Len(muxVideo')
                 PROVE  Append(video, Len(video))[i] = i - 1
        OBVIOUS
    <2>1. CASE i = Len(muxVideo) + 1
        BY <1>0, <1>5, <1>9, <2>1
    <2>2. CASE i \in 1 .. Len(muxVideo)
        BY <1>5, <1>9, <2>2
    <2>3. i = Len(muxVideo) + 1 \/ i \in 1 .. Len(muxVideo)
        BY <1>0, <1>2
    <2> QED  BY <2>1, <2>2, <2>3
<1>11. video' = Append(video, Len(video))
    <2> DEFINE new == Timestamps(muxVideo')
               longer == Append(video, Len(video))
    <2>1. /\ new \in Seq(Int) /\ longer \in Seq(Int) /\ Len(new) = Len(longer)
          /\ \A i \in 1 .. Len(new) : new[i] = longer[i]
        BY <1>2, <1>5, <1>6, <1>9, <1>10
    <2> HIDE DEF new, longer
    <2>2. new = longer
        BY <2>1, SeqEqual
    <2> QED  BY <1>7, <2>2 DEF new, longer
<1>12. /\ Timestamps(muxVideo') = Append(Timestamps(muxVideo), Len(Timestamps(muxVideo)))
       /\ Len(Timestamps(muxVideo)) < TotalFrames
    BY <1>7, <1>8, <1>11 DEF video
<1> QED  BY <1>1, <1>12 DEF Contract!CWriteVideo

\* The verdict is earned: done means that every frame is in the container.
LEMMA ReportsVerdict ==
    ASSUME IInv, Conserved, Report  PROVE Contract!CVerdict
<1>1. /\ dpc = "report" /\ finalised /\ terminal = <<>> /\ terminal' = <<Verdict>>
      /\ UNCHANGED <<muxVideo, finalised, cancel>>
    BY DEF IInv, Verdicts, Report, controlVars, muxVars
<1>2. Timestamps(muxVideo)' = Timestamps(muxVideo)
    BY <1>1
<1>3. CASE error
    BY <1>1, <1>2, <1>3 DEF Verdict, Contract!CVerdict
<1>4. CASE ~error /\ cancel
    BY <1>1, <1>2, <1>4 DEF Verdict, Contract!CVerdict
<1>5. CASE ~error /\ ~cancel
    <2>1. frame = TotalFrames /\ Len(pending) = 0 /\ Len(got) = 0 /\ Len(inflight) = 0
        <3>1. ~Looping /\ Ending /\ dpc \notin {"after", "segment"}
            BY <1>1 DEF Looping, Due, JustSubmitted, MuxesFor, Ending
        <3>2. frame = TotalFrames
            BY <1>5, <3>1 DEF IInv, Position
        <3>3. Len(pending) = 0 /\ Len(got) = 0
            BY <3>1 DEF IInv, Verdicts
        <3>4. Len(inflight) = 0
            BY <3>1, Nothing DEF IInv, Ahead
        <3> QED  BY <3>2, <3>3, <3>4
    <2>2. Len(muxVideo) = TotalFrames /\ TotalFrames \in Nat
        <3>1. Len(muxVideo) + Len(got) + Len(pending) + Len(inflight) = frame
            BY <1>5 DEF Conserved
        <3>2. Len(muxVideo) \in Nat /\ TotalFrames \in Nat
            BY Lengths, NvencAssumption DEF IInv
        <3> QED  BY <2>1, <3>1, <3>2
    <2>3. /\ muxVideo \in Seq(Packets)
          /\ \A i \in 1 .. Len(muxVideo) : muxVideo[i].pts = i - 1 /\ muxVideo[i].pts \in Int
        <3>1. muxVideo \in Seq(Packets)
            BY DEF IInv, Domains
        <3>2. \A i \in 1 .. Len(muxVideo) : muxVideo[i].pts = i - 1
            BY DEF Conserved
        <3> QED  BY <2>2, <3>1, <3>2
    <2>4. /\ Timestamps(muxVideo) \in Seq(Int) /\ Len(Timestamps(muxVideo)) = TotalFrames
          /\ \A i \in 1 .. TotalFrames : Timestamps(muxVideo)[i] = i - 1
        BY <2>2, <2>3, TimestampsOf
    <2>5. Timestamps(muxVideo) = FirstFrames(TotalFrames)
        <3> DEFINE video == Timestamps(muxVideo)
                   all == FirstFrames(TotalFrames)
        <3>1. /\ all \in Seq(Int) /\ Len(all) = TotalFrames
              /\ \A i \in 1 .. TotalFrames : all[i] = i - 1
            BY <2>2, FirstFramesAre
        <3>2. video \in Seq(Int) /\ Len(video) = Len(all) /\ \A i \in 1 .. Len(video) : video[i] = all[i]
            BY <2>4, <3>1
        <3> HIDE DEF video, all
        <3>3. video = all
            BY <3>1, <3>2, SeqEqual
        <3> QED  BY <3>3 DEF video, all
    <2>6. /\ Timestamps(muxVideo) = Contract!FirstFrames(TotalFrames)
          /\ <<>> = Contract!FirstFrames(0)
        BY <2>5 DEF FirstFrames, Contract!FirstFrames
    <2>7. terminal' = <<"done">>
        BY <1>1, <1>5 DEF Verdict
    <2> QED  BY <1>1, <1>2, <2>6, <2>7 DEF Contract!CVerdict
<1> QED  BY <1>3, <1>4, <1>5 DEF IInv, Domains

(* The zero-copy export keeps the contract of ExportContract, whatever     *)
(* fails and whenever it is cancelled, as long as the muxer refuses no     *)
(* packet: frames go into the container one by one and in order, nothing   *)
(* after it is sealed, and "done" is said of a complete video only.        *)
THEOREM ContractKept ==
    ASSUME "mux" \notin Faults
    PROVE  Spec => KeepsContract
<1>1. ASSUME IInv, Conserved, [Next]_vars  PROVE [Contract!CNext]_Contract!contractVars
    <2>0. Domains
        BY <1>1 DEF IInv
    <2>1. ASSUME UNCHANGED <<muxVideo, finalised, cancel, terminal>>
          PROVE  UNCHANGED Contract!contractVars
        BY <2>1 DEF Contract!contractVars
    <2>2. CASE Cancel
        BY <2>2 DEF Cancel, muxVars, Contract!CNext, Contract!CCancel
    <2>3. CASE MuxPacket
        BY <1>1, <2>3, MuxWrites DEF Contract!CNext
    <2>4. CASE FinaliseSync
        <3>1. ~finalised /\ finalised' = TRUE /\ UNCHANGED <<muxVideo, cancel, terminal>>
            BY <1>1, <2>4 DEF FinaliseSync, IInv, Verdicts, controlVars
        <3> QED  BY <3>1 DEF Contract!CNext, Contract!CSeal
    <2>5. CASE Report
        BY <1>1, <2>5, ReportsVerdict DEF Contract!CNext
    <2>6. CASE Moves /\ ~Cancel /\ ~FinaliseSync /\ ~Report
        BY <2>1, <2>6
        DEF Moves, User, Pause, Resume, EndOfLoop, CheckPause, Reclaimed, WaitForGpu, Collected,
            DrainSegment, FlushDone, MuxDone, BeginSegment, Submitted, AfterSegment, JoinAudio,
            FlushNvenc, CheckCancel, controlVars, muxVars
    <2>7. CASE Fails \/ Takes \/ (CheckCancel /\ SeesCancel)
        BY <2>1, <2>7 DEF Fails, Takes, CheckCancel, controlVars, muxVars
    <2>8. CASE GpuExecutes \/ NvencEncodes \/ Render \/ SubmitPicture \/ UNCHANGED vars
        BY <2>1, <2>8
        DEF GpuExecutes, NvencEncodes, Render, SubmitPicture, vars, controlVars, muxVars
    <2> QED
        BY <1>1, <2>0, <2>2, <2>3, <2>4, <2>5, <2>6, <2>7, <2>8, NextSteps
<1>2. IInv /\ Conserved /\ [Next]_vars => Conserved'
    BY NextKeepsConserved
<1> QED
    BY Invariance, InitConserves, InitContract, <1>1, <1>2, PTL
    DEF Spec, KeepsContract, Contract!CSpec
=============================================================================
