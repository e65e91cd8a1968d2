----------------------------- MODULE MediaReader -----------------------------
(***************************************************************************)
(* One media file as the IO layer reads it: the demuxer and the decoder of *)
(* a source (io/demuxer.rs, io/decoder.rs) with the position IoLayer keeps *)
(* beside them (last_decoded_pts in io/io_layer.rs), as operators on       *)
(* values.                                                                 *)
(*                                                                         *)
(* Frames are numbered in the order they come out, and packets like them.  *)
(* Their time stamps need not be even, so a request may lie between two of *)
(* them, and a damaged frame never comes out. The decoder gives frame f    *)
(* out when it is fed packet f + Delay; the last Delay frames only come    *)
(* out of a drain.                                                         *)
(***************************************************************************)
EXTENDS Integers, FiniteSets, FiniteSetsExt

CONSTANTS
    Sources,
    Length,         \* [Sources -> frames in the file]
    Pts,            \* [Sources -> [frames -> time stamps]], with gaps where
                    \* the frame rate varies
    Intact,         \* [Sources -> frames that decode]
    Keyframes,      \* [Sources -> frames a seek can land on]
    Delay,          \* [Sources -> frames the decoder holds back]
    FarAhead,       \* a request further ahead seeks (5 s in the source)
    MaxPackets,     \* packets read for one request (600 in the source)
    Unreadable      \* [Sources -> packets that reading may fail at]

AllFrames(s) == 0..(Length[s] - 1)

ASSUME MediaAssumption ==
    /\ Length \in [Sources -> Nat \ {0}]
    /\ \A s \in Sources :
         /\ Pts[s] \in [AllFrames(s) -> Nat] /\ Pts[s][0] = 0
         /\ \A f, g \in AllFrames(s) : f < g => Pts[s][f] < Pts[s][g]
         /\ Intact[s] \subseteq AllFrames(s)
         /\ 0 \in Keyframes[s] /\ Keyframes[s] \subseteq AllFrames(s)
    /\ Delay \in [Sources -> Nat] /\ Unreadable \in [Sources -> SUBSET Nat]
    /\ FarAhead \in Nat /\ MaxPackets \in Nat \ {0}

NoFrame == -1

\* in: the packet read next; out: the frame that comes out next; end: where the
\* input of the decoder was closed, if it was; last: the request served last.
\* from and upTo are history fields: requests from..upTo are for frames the
\* reader has gone past since it served the first of them.
Opened == [in |-> 0, out |-> 0, end |-> NoFrame, last |-> NoFrame,
           from |-> NoFrame, upTo |-> NoFrame]

NeedSeek(r, n) == r.last = NoFrame \/ n < r.last \/ n - r.last > FarAhead

Landing(s, n) == Max({k \in Keyframes[s] : Pts[s][k] <= n})

\* The demuxer goes to the keyframe before the target, the decoder is flushed
\* and takes packets again. The mutant discards the frame it lands on.
MutSeek(s, r, n) ==
    [r EXCEPT !.in = Landing(s, n), !.out = Landing(s, n) + 1, !.end = NoFrame, !.upTo = NoFrame]
Seek(s, r, n) ==
    [r EXCEPT !.in = Landing(s, n), !.out = Landing(s, n), !.end = NoFrame, !.upTo = NoFrame]

\* Before it reads for a request the reader seeks, or stays where it is.
Positioned(s, r, n) == IF NeedSeek(r, n) THEN Seek(s, r, n) ELSE r

\* It stays, although the frame has gone by.
Behind(r, n) == r.from <= n /\ n <= r.upTo

\* Frame f was served for request n.
Served(s, r, n, f) == [r EXCEPT !.last = n, !.from = n, !.upTo = Pts[s][f]]

\* The reader moved, but the frame it was asked for is not recorded as read.
Unserved(s, r) ==
    [r EXCEPT !.upTo = IF r.out = 0 THEN @ ELSE Max({@, Pts[s][r.out - 1]})]

\* A time stamp of 0 counts as missing, and that of the packet is taken.
Stamp(s, f) == IF f = 0 THEN Pts[s][Delay[s]] ELSE Pts[s][f]

\* Where reading may stop: at the end of the file, at the bound, or at a packet
\* that cannot be read.
Halts(s, r) ==
    LET bound == Min({Length[s], r.in + MaxPackets})
    IN {bound} \cup {p \in Unreadable[s] : r.in <= p /\ p < bound}

\* The frames that come out before reading stops. A decoder whose input is
\* closed refuses every packet.
Ready(s, r, halt) ==
    IF r.end # NoFrame THEN {} ELSE {f \in Intact[s] : r.out <= f /\ f + Delay[s] < halt}

After(s, r, f) == [r EXCEPT !.in = f + Delay[s] + 1, !.out = f + 1]

Passed(s, r, halt) ==
    [r EXCEPT !.in = halt, !.out = IF r.end # NoFrame THEN @ ELSE Max({@, halt - Delay[s]})]

\* Packets are fed until a frame comes out that is stamped no earlier than n.
\* dry: no packet could be read before the bound was reached.
ReadForward(s, r, n, halt) ==
    LET good == {f \in Ready(s, r, halt) : Stamp(s, f) >= n}
    IN IF good # {}
       THEN [found |-> Min(good), dry |-> FALSE, r |-> After(s, r, Min(good))]
       ELSE [found |-> NoFrame, dry |-> halt - r.in < MaxPackets, r |-> Passed(s, r, halt)]

\* The packets the decoder has taken.
Fed(r) == IF r.end = NoFrame THEN r.in ELSE r.end

\* Giving out what it holds, the decoder may stop at a damaged frame.
Stops(s, r) == {Fed(r)} \cup {f \in r.out..(Fed(r) - 1) : f \notin Intact[s]}

\* Its input is closed, and it gives out what it holds until a frame is stamped
\* no earlier than n.
Drain(s, r, n, stop) ==
    LET good == {f \in Intact[s] : r.out <= f /\ f < stop /\ Pts[s][f] >= n}
    IN [found |-> IF good # {} THEN Min(good) ELSE NoFrame, dry |-> TRUE,
        r |-> [r EXCEPT !.end = Fed(r),
                        !.out = IF good # {} THEN Min(good) + 1 ELSE Min({stop + 1, Fed(r)})]]

\* What decode_blocking may find: it drains when there was no packet to read,
\* and not when it reached the bound.
Outcomes(s, r, n) ==
    LET ahead == {ReadForward(s, r, n, halt) : halt \in Halts(s, r)}
        dry == {a \in ahead : a.found = NoFrame /\ a.dry}
    IN (ahead \ dry) \cup UNION {{Drain(s, a.r, n, stop) : stop \in Stops(s, a.r)} : a \in dry}

=============================================================================
