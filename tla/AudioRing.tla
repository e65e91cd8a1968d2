----------------------------- MODULE AudioRing ------------------------------
(***************************************************************************)
(* The ring buffer between one AudioDecoder thread and the audio callback: *)
(* AudioRingBuffer, the loop of AudioDecoder::run that fills it and the    *)
(* read the callback drains it with. The copies are not atomic: they touch *)
(* one sample per step, so the two threads overlap as they do in memory.   *)
(*                                                                         *)
(* A sample is abstracted to the position it was written at. Positions are *)
(* machine words: they run modulo Modulus, a multiple of Capacity, as      *)
(* usize runs modulo 2^64.                                                 *)
(***************************************************************************)
EXTENDS Integers, Sequences

CONSTANTS
    Capacity,   \* samples in the ring, a power of two (32768 in the source)
    Modulus,    \* 2^64 in the source
    Threshold,  \* free samples the decoder waits for, RING_TARGET_SAMPLES / 4
    MaxChunk,   \* the most samples one decoded packet yields
    MaxTail,    \* the most samples the resampler keeps back
    ReadLen,    \* samples the callback asks for
    MaxSeeks    \* bound: seek requests, the one the decoder starts with included

ASSUME RingAssumption ==
    /\ Capacity \in Nat /\ Capacity > 1
    /\ Modulus \in Nat /\ Modulus > Capacity /\ Modulus % Capacity = 0
    /\ Threshold \in Nat
    /\ MaxChunk \in Nat \ {0} /\ MaxTail \in Nat /\ ReadLen \in Nat \ {0}
    /\ MaxSeeks \in Nat \ {0}

VARIABLES
    data,               \* the sample storage
    writePos, readPos,  \* write_pos, read_pos
    ppc, then,          \* the decoder; where its write returns to
    want, n, done,      \* what it wants to write, may, has
    tail, over,         \* what the resampler keeps back; the clip has ended
    lost,               \* samples counted in samples_written, never in the ring
    seekReq, seeks,
    cpc, m, base, out   \* the callback: samples to read, from where, read

producerVars == <<ppc, then, want, n, done, tail, over, lost>>
consumerVars == <<cpc, m, base, out>>
vars == <<data, writePos, readPos, producerVars, seekReq, seeks, consumerVars>>

NoSample == -1
Positions == 0 .. Modulus - 1

(* Word arithmetic: fetch_add and wrapping_sub; "& mask" is "% Capacity".  *)
Plus(p, k) == IF p + k < Modulus THEN p + k ELSE p + k - Modulus
Minus(p, q) == IF p >= q THEN p - q ELSE p - q + Modulus
Index(p) == p % Capacity

AtMost(a, b) == IF a < b THEN a ELSE b

AvailableRead == Minus(writePos, readPos)
MutForgetUnread == Capacity - 1
AvailableWrite == Minus(Capacity - 1, AvailableRead)

Init ==
    /\ data = [i \in 0 .. Capacity - 1 |-> NoSample]
    /\ writePos = 0 /\ readPos = 0
    /\ ppc = "unspawned" /\ then = "loop" /\ want = 0 /\ n = 0 /\ done = 0
    /\ tail = 0 /\ over = FALSE /\ lost = 0
    /\ seekReq = FALSE /\ seeks = 0
    /\ cpc = "idle" /\ m = 0 /\ base = 0 /\ out = <<>>

-----------------------------------------------------------------------------
(* The ring is registered with the callback, then the decoder thread is    *)
(* spawned with a seek request pending; the user may make others later.    *)
RequestSeek ==
    /\ seeks < MaxSeeks
    /\ seekReq' = TRUE /\ seeks' = seeks + 1
    /\ ppc' = IF ppc = "unspawned" THEN "loop" ELSE ppc
    /\ UNCHANGED <<data, writePos, readPos, then, want, n, done, tail, over, lost,
                   consumerVars>>

(* flush_swr pushes what the resampler kept back, whatever room there is,  *)
(* up to the clip's out point; past it, or with nothing to be had from the *)
(* resampler, it pushes nothing and the rest stays where it is.            *)
FlushResampler ==
    \/ ~over /\ want' \in 0 .. tail /\ tail' = 0
    \/ want' = 0 /\ tail' = tail

TakeSeek ==
    /\ ppc = "loop" /\ seekReq
    /\ seekReq' = FALSE
    /\ FlushResampler /\ then' = "clear"
    /\ ppc' = "write"
    /\ UNCHANGED <<data, writePos, readPos, n, done, over, lost, seeks, consumerVars>>

(* clear(): discard what is unread, from the decoder thread. The clip      *)
(* plays on from the target, which may lie past the out point; when the    *)
(* seek fails it stays where it was.                                       *)
Clear ==
    /\ ppc = "clear"
    /\ readPos' = writePos
    /\ ppc' = "loop" /\ over' \in BOOLEAN
    /\ UNCHANGED <<data, writePos, then, want, n, done, tail, lost, seekReq, seeks,
                   consumerVars>>

(* At the clip's out point the decoder waits for a seek, with too little   *)
(* room it sleeps and looks again; otherwise it takes a packet.            *)
MutWholeRing == AvailableWrite >= Capacity
EnoughRoom == AvailableWrite >= Threshold

TakePacket ==
    /\ ppc = "loop" /\ ~seekReq /\ ~over /\ EnoughRoom
    /\ ppc' = "decode"
    /\ UNCHANGED <<data, writePos, readPos, then, want, n, done, tail, over, lost,
                   seekReq, seeks, consumerVars>>

(* The frames of a packet are resampled and pushed, here in one write; its *)
(* samples may reach the clip's out point.                                 *)
DecodePacket ==
    /\ ppc = "decode"
    /\ over' \in BOOLEAN
    /\ want' \in 1 .. MaxChunk /\ tail' \in 0 .. MaxTail
    /\ ppc' = "write" /\ then' = "loop"
    /\ UNCHANGED <<data, writePos, readPos, n, done, lost, seekReq, seeks,
                   consumerVars>>

(* Nothing to push: the demuxer, the codec or the resampler failed, or has *)
(* no samples to give yet.                                                 *)
NoSamples ==
    /\ ppc = "decode"
    /\ tail' \in 0 .. MaxTail
    /\ ppc' = "loop"
    /\ UNCHANGED <<data, writePos, readPos, then, want, n, done, over, lost, seekReq,
                   seeks, consumerVars>>

(* The stream ends before the out point: no packet comes until a seek.     *)
EndOfClip ==
    /\ ppc = "decode"
    /\ over' = TRUE
    /\ FlushResampler /\ then' = "loop"
    /\ ppc' = "write"
    /\ UNCHANGED <<data, writePos, readPos, n, done, lost, seekReq, seeks,
                   consumerVars>>

(* write(): what does not fit is left out, and the caller counts it all    *)
(* the same. What a seek flushes is about to be discarded anyway.          *)
BeginWrite ==
    /\ ppc = "write"
    /\ n' = AtMost(want, AvailableWrite)
    /\ lost' = IF then = "clear" THEN lost ELSE lost + want - n'
    /\ done' = 0
    /\ ppc' = IF n' = 0 THEN then ELSE "copy"
    /\ UNCHANGED <<data, writePos, readPos, then, want, tail, over, seekReq, seeks,
                   consumerVars>>

CopyIn ==
    /\ ppc = "copy" /\ done < n
    /\ data' = [data EXCEPT ![Index(Plus(writePos, done))] = Plus(writePos, done)]
    /\ done' = done + 1
    /\ UNCHANGED <<writePos, readPos, ppc, then, want, n, tail, over, lost, seekReq,
                   seeks, consumerVars>>

MutPublishWanted == Plus(writePos, want + 1)
Published == Plus(writePos, n)

Publish ==
    /\ ppc = "copy" /\ done = n
    /\ writePos' = Published
    /\ ppc' = then
    /\ UNCHANGED <<data, readPos, then, want, n, done, tail, over, lost, seekReq,
                   seeks, consumerVars>>

Decoder ==
    \/ TakeSeek \/ Clear \/ TakePacket
    \/ DecodePacket \/ NoSamples \/ EndOfClip
    \/ BeginWrite \/ CopyIn \/ Publish

-----------------------------------------------------------------------------
(* The callback: read(). An empty ring is an underrun, filled with silence.*)
ToRead == AtMost(ReadLen, AvailableRead)

BeginRead ==
    /\ cpc = "idle" /\ ToRead > 0
    /\ m' = ToRead
    /\ cpc' = "base"
    /\ UNCHANGED <<data, writePos, readPos, producerVars, seekReq, seeks, base, out>>

LoadBase ==
    /\ cpc = "base"
    /\ base' = readPos /\ out' = <<>>
    /\ cpc' = "copy"
    /\ UNCHANGED <<data, writePos, readPos, producerVars, seekReq, seeks, m>>

CopyOut ==
    /\ cpc = "copy" /\ Len(out) < m
    /\ out' = Append(out, data[Index(Plus(base, Len(out)))])
    /\ UNCHANGED <<data, writePos, readPos, producerVars, seekReq, seeks, cpc, m, base>>

Released == Plus(readPos, m)

EndRead ==
    /\ cpc = "copy" /\ Len(out) = m
    /\ readPos' = Released
    /\ cpc' = "idle"
    /\ UNCHANGED <<data, writePos, producerVars, seekReq, seeks, m, base, out>>

Callback == BeginRead \/ LoadBase \/ CopyOut \/ EndRead

Next == RequestSeek \/ Decoder \/ Callback

(* The decoder thread and the audio device both keep running.              *)
Fairness == WF_vars(Decoder) /\ WF_vars(Callback)

Spec == Init /\ [][Next]_vars
FairSpec == Spec /\ Fairness

-----------------------------------------------------------------------------
(* Properties.                                                             *)

(* Every variable stays in its domain; in particular a copy never runs     *)
(* past the ring.                                                          *)
TypeOK ==
    /\ data \in [0 .. Capacity - 1 -> Positions \cup {NoSample}]
    /\ writePos \in Positions /\ readPos \in Positions
    /\ ppc \in {"unspawned", "loop", "clear", "decode", "write", "copy"}
    /\ then \in {"loop", "clear"} /\ tail \in 0 .. MaxTail /\ over \in BOOLEAN
    /\ want \in Nat /\ n \in 0 .. Capacity - 1 /\ done \in 0 .. n
    /\ lost \in Nat
    /\ seekReq \in BOOLEAN /\ seeks \in 0 .. MaxSeeks
    /\ cpc \in {"idle", "base", "copy"}
    /\ m \in 0 .. ReadLen /\ base \in Positions
    /\ out \in Seq(Positions) /\ (cpc = "copy" => Len(out) <= m)

Writing == IF ppc = "copy" THEN {Index(Plus(writePos, k)) : k \in 0 .. n - 1} ELSE {}
Reading == IF cpc = "copy" THEN {Index(Plus(base, k)) : k \in 0 .. m - 1} ELSE {}

(* The decoder and the callback never access the same indices at the same  *)
(* time (ring_buffer.rs, the SAFETY comment of write).                     *)
NoOverlap == Writing \cap Reading = {}

(* A read returns the samples written at its positions: none stale, none   *)
(* overwritten while it was copied, in order. And every sample the decoder *)
(* counts is in the ring: the free room it waits for covers what a packet  *)
(* can yield, so no write is cut short.                                    *)
ReadsWhatWasWritten ==
    /\ \A i \in DOMAIN out : out[i] = Plus(base, i - 1)
    /\ MaxChunk <= Threshold /\ MaxTail <= Threshold => lost = 0

(* Packet after packet is taken and from some point on none yields.        *)
Silent == []<>(ppc = "decode") /\ <>[](ppc # "write")

(* While the clip plays, and unless its packets have stopped yielding      *)
(* samples, the sound goes on: the decoder never ends up waiting for room  *)
(* that no read will free, nor the callback for samples that never come.   *)
(* And it is heard to its end: once it is over the ring runs empty, unless *)
(* a seek starts it again.                                                 *)
SoundGoesOn ==
    /\ Silent \/ ((ppc = "loop" /\ ~over) ~> (cpc = "copy" \/ over))
    /\ over ~> (AvailableRead = 0 \/ ~over)
=============================================================================
