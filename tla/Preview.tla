------------------------------- MODULE Preview -------------------------------
(***************************************************************************)
(* How a frame of the preview comes to be: the frame loop (ui/app.rs), the *)
(* scheduler (scheduler/frame_scheduler.rs), the IO layer with its slot    *)
(* pool and frame cache (io/io_layer.rs, slot_pool.rs, frame_cache.rs) and *)
(* the textures NVDEC decodes into (io/interop_decode.rs).                 *)
(*                                                                         *)
(* The UI thread serves the clips under the playhead one by one, uploads   *)
(* what lies in slots and submits the frame; the GPU finishes submissions  *)
(* in order, whenever. Pictures are records of what they show.             *)
(***************************************************************************)
EXTENDS MediaReader, Sequences, SequencesExt

CONSTANTS
    Interop,        \* sources NVDEC decodes into textures
    Slots,          \* staging buffers of the pool
    TierOf,         \* [Slots \cup Sources -> tier]; a source larger than every
                    \* tier has one of its own without slots
    Capacity,       \* entries of the frame cache
    Layouts,        \* what may lie under the playhead: sets of requests
    CopyMayFail,    \* whether a copy into a texture may fail
    MaxFrames,      \* bound: frames
    MaxProjects     \* bound: projects opened

ASSUME PreviewAssumption ==
    /\ Interop \subseteq Sources
    /\ Capacity \in Nat \ {0}
    /\ \A layout \in Layouts :
         /\ layout \subseteq [src : Sources, pts : Nat]
         /\ IsFiniteSet(layout)
    /\ CopyMayFail \in BOOLEAN /\ MaxFrames \in Nat /\ MaxProjects \in Nat

VARIABLES
    project,    \* how many projects were opened: their sources share ids
    reader,     \* IoLayer: demuxers, decoders, last_decoded_pts
    texture,    \* InteropDecodeTargets, per source: held, picture, lastRead
    free,       \* FrameSlotPool::free_list of all tiers
    index,      \* FrameCache::index, keys to slots
    lru,        \* FrameCache::lru, the least recently used key first
    pixels,     \* what each slot holds
    composing,  \* whether a frame is between schedule and submit
    clips,      \* UiApp::active_clips: the clips of the frame
    todo,       \* clips of the frame not served yet
    entries,    \* FrameState::clips
    queue,      \* submissions the GPU has not finished
    frames      \* frames so far; the index of a submission

ioVars == <<reader, texture, free, index, lru, pixels>>
vars == <<project, ioVars, composing, clips, todo, entries, queue, frames>>

Blank == [src |-> "none", frame |-> NoFrame, project |-> 0, sure |-> FALSE]
NoTexture == [held |-> NoFrame, picture |-> Blank, lastRead |-> 0]

\* A picture decoded for request n by reader r; sure: the reader was not past it.
Picture(s, f, r, n) == [src |-> s, frame |-> f, project |-> project, sure |-> ~Behind(r, n)]

Init ==
    /\ project = 1
    /\ reader = [s \in Sources |-> Opened]
    /\ texture = [s \in Interop |-> NoTexture]
    /\ free = Slots
    /\ index = <<>> /\ lru = <<>>
    /\ pixels = [x \in Slots |-> Blank]
    /\ composing = FALSE
    /\ clips = {} /\ todo = {} /\ entries = {}
    /\ queue = <<>>
    /\ frames = 0

-----------------------------------------------------------------------------
(* Slot pool and frame cache *)

Key(s, n) == [src |-> s, pts |-> n]

Fitting(s) == {x \in Slots : TierOf[x] = TierOf[s]}

\* The pool with the first e entries of the cache evicted.
FreeAfter(e) == free \cup {index[lru[i]] : i \in 1..e}

\* evict_one until a slot fits, or until nothing is left to evict. The mutant
\* empties the cache.
MutEvictions(s) ==
    IF free \cap Fitting(s) # {} THEN 0 ELSE Len(lru)
Evictions(s) ==
    LET enough == {e \in 0..Len(lru) : FreeAfter(e) \cap Fitting(s) # {}}
    IN IF enough = {} THEN Len(lru) ELSE Min(enough)

Kept(keys) == [k \in keys |-> index[k]]
With(keys, key, x) == [k \in keys \cup {key} |-> IF k = key THEN x ELSE index[k]]

\* promote: the key becomes the one used last.
Promoted(keys, k) ==
    LET i == CHOOSE j \in DOMAIN keys : keys[j] = k
    IN Append(RemoveAt(keys, i), k)

\* insert pushes the key used longest ago out of a full cache.
WithRoom(keys) == IF Len(keys) >= Capacity THEN Tail(keys) ELSE keys

\* The slots that insert gives back. The mutant forgets to.
MutReleased(keys) == {}
Released(keys) == IF Len(keys) >= Capacity THEN {index[Head(keys)]} ELSE {}

-----------------------------------------------------------------------------
(* Serving a clip *)

Finished(submission) == \A i \in DOMAIN queue : queue[i].id # submission

Enter(entry) == entries' = entries \cup {entry}

SlotEntry(q, x) == [kind |-> "slot", src |-> q.src, pts |-> q.pts, slot |-> x,
                    picture |-> pixels'[x]]
TextureEntry(q) == [kind |-> "texture", src |-> q.src, pts |-> q.pts, slot |-> "none",
                    picture |-> texture'[q.src].picture]

\* The reader as decode_interop has it before it feeds a packet.
Start(q) == Positioned(q.src, reader[q.src], q.pts)

\* The textures are written with the first packet that is fed, after what last
\* read them is finished. The mutant does not wait.
MutMayWrite(q) == TRUE
MayWrite(q) == Finished(texture[q.src].lastRead)

\* held_frame
ServeResident(q) ==
    /\ q.src \in Interop
    /\ texture[q.src].held = q.pts
    /\ UNCHANGED ioVars
    /\ Enter(TextureEntry(q))

\* decode_interop finds the frame on the way and marks it held.
ServeInterop(q) ==
    /\ q.src \in Interop
    /\ texture[q.src].held # q.pts
    /\ MayWrite(q)
    /\ \E halt \in Halts(q.src, Start(q)) :
         LET res == ReadForward(q.src, Start(q), q.pts, halt)
         IN /\ res.found # NoFrame
            /\ reader' = [reader EXCEPT ![q.src] = Served(q.src, res.r, q.pts, res.found)]
            /\ texture' = [texture EXCEPT ![q.src] =
                 [held |-> q.pts, picture |-> Picture(q.src, res.found, Start(q), q.pts),
                  lastRead |-> 0]]
    /\ UNCHANGED <<free, index, lru, pixels>>
    /\ Enter(TextureEntry(q))

\* Without a frame decode_interop leaves the reader where the packets ran out,
\* could not be read or reached the bound; a decoder whose input is closed
\* refuses the first one read.
InVain(q) ==
    LET p == Start(q)
    IN IF p.end # NoFrame
       THEN {[p EXCEPT !.in = Min({@ + 1, halt})] : halt \in Halts(q.src, p)}
       ELSE {Passed(q.src, p, halt) : halt \in
               {h \in Halts(q.src, p) : ReadForward(q.src, p, q.pts, h).found = NoFrame}}

\* Or it gives up at a frame on the way: one that does not decode, or one whose
\* copy into the texture fails.
GivenUpAt(q) ==
    LET p == Start(q)
        bound == Max(Halts(q.src, p))
        good == {g \in Ready(q.src, p, bound) : Stamp(q.src, g) >= q.pts}
    IN {f \in AllFrames(q.src) :
          /\ CopyMayFail \/ f \notin Intact[q.src]
          /\ p.end = NoFrame /\ p.out <= f /\ f + Delay[q.src] < bound
          /\ \A g \in good : f <= g}

\* The textures hold nothing once a packet was fed; a seek alone makes them
\* forget what they hold.
Spoilt(picture) == [held |-> NoFrame, picture |-> picture, lastRead |-> 0]

PassedBy(q, r) ==
    LET passed == {f \in Intact[q.src] : Start(q).out <= f /\ f < r.out}
    IN IF passed = {} THEN texture[q.src].picture
       ELSE [Blank EXCEPT !.src = q.src, !.frame = Max(passed), !.project = project]

LeftBehind(q, r) ==
    IF r.in > Start(q).in THEN [texture EXCEPT ![q.src] = Spoilt(PassedBy(q, r))]
    ELSE IF NeedSeek(reader[q.src], q.pts) THEN [texture EXCEPT ![q.src].held = NoFrame]
    ELSE texture

\* What decode_blocking finds when decode_interop was no help.
Declined(q) ==
    IF q.src \notin Interop THEN {[reader |-> reader[q.src], texture |-> texture]}
    ELSE {[reader |-> Unserved(q.src, r), texture |-> LeftBehind(q, r)] :
            r \in {v \in InVain(q) : v.in > Start(q).in => MayWrite(q)}}
         \cup {[reader |-> Unserved(q.src, After(q.src, Start(q), f)),
                texture |-> [texture EXCEPT ![q.src] = Spoilt(Blank)]] :
                 f \in {g \in GivenUpAt(q) : MayWrite(q)}}

Falls(q) == q.src \in Interop => texture[q.src].held # q.pts

\* cache.touch. What decode_interop read in vain stays read.
ServeCached(q) ==
    /\ Falls(q)
    /\ Key(q.src, q.pts) \in DOMAIN index
    /\ \E d \in Declined(q) :
         /\ reader' = [reader EXCEPT ![q.src] = d.reader]
         /\ texture' = d.texture
    /\ lru' = Promoted(lru, Key(q.src, q.pts))
    /\ UNCHANGED <<free, index, pixels>>
    /\ Enter(SlotEntry(q, index[Key(q.src, q.pts)]))

\* decode_blocking with a slot: the entry that makes room goes, the picture is
\* decoded into it, and the key of the request names it from then on. With no
\* frame found the slot goes back, and the frame served last stands in for it.
ServeBlocking(q) ==
    /\ Falls(q)
    /\ Key(q.src, q.pts) \notin DOMAIN index
    /\ \E d \in Declined(q) : \E res \in Outcomes(q.src, Positioned(q.src, d.reader, q.pts), q.pts) :
         LET r == Positioned(q.src, d.reader, q.pts)
             e == Evictions(q.src)
             pool == FreeAfter(e)
             rest == SubSeq(lru, e + 1, Len(lru))
             x == CHOOSE y \in pool \cap Fitting(q.src) : TRUE
             key == Key(q.src, q.pts)
             old == Key(q.src, r.last)
             keys == WithRoom(rest)
         IN /\ texture' = d.texture
            /\ IF pool \cap Fitting(q.src) = {}
               THEN /\ reader' = [reader EXCEPT ![q.src] = Unserved(q.src, r)]
                    /\ free' = pool /\ index' = Kept(ToSet(rest)) /\ lru' = rest
                    /\ UNCHANGED <<pixels, entries>>
               ELSE IF res.found # NoFrame
               THEN /\ reader' = [reader EXCEPT ![q.src] = Served(q.src, res.r, q.pts, res.found)]
                    /\ pixels' = [pixels EXCEPT ![x] = Picture(q.src, res.found, r, q.pts)]
                    /\ free' = (pool \ {x}) \cup Released(rest)
                    /\ index' = With(ToSet(keys), key, x)
                    /\ lru' = Append(keys, key)
                    /\ Enter(SlotEntry(q, x))
               ELSE /\ reader' = [reader EXCEPT ![q.src] = Unserved(q.src, res.r)]
                    /\ pixels' = [pixels EXCEPT ![x] = Blank]
                    /\ free' = pool /\ index' = Kept(ToSet(rest))
                    /\ IF old \in ToSet(rest)
                       THEN /\ lru' = Promoted(rest, old)
                            /\ Enter(SlotEntry(q, index[old]))
                       ELSE lru' = rest /\ UNCHANGED entries

-----------------------------------------------------------------------------
(* The frame loop and the GPU *)

\* schedule_frame: the clips under the playhead, wherever it is.
ScheduleFrame(layout) ==
    /\ ~composing /\ frames < MaxFrames
    /\ composing' = TRUE
    /\ clips' = layout /\ todo' = layout /\ entries' = {}
    /\ UNCHANGED <<project, ioVars, queue, frames>>

ServeClip(q) ==
    /\ composing /\ q \in todo
    /\ todo' = todo \ {q}
    /\ ServeResident(q) \/ ServeInterop(q) \/ ServeCached(q) \/ ServeBlocking(q)
    /\ UNCHANGED <<project, composing, clips, queue, frames>>

\* The slots are copied, the graph is submitted, and every texture it samples
\* is stamped with the submission.
Stamped(shown, id) ==
    [s \in Interop |-> IF s \in shown THEN [texture[s] EXCEPT !.lastRead = id] ELSE texture[s]]

Submit ==
    LET shown == {e.src : e \in {x \in entries : x.kind = "texture"}}
    IN /\ composing /\ todo = {}
       /\ composing' = FALSE
       /\ frames' = frames + 1
       /\ queue' = Append(queue, [id |-> frames + 1,
                                  reads |-> [s \in shown |-> texture[s].picture]])
       /\ texture' = Stamped(shown, frames + 1)
       /\ clips' = {} /\ entries' = {}
       /\ UNCHANGED <<project, reader, free, index, lru, pixels, todo>>

GpuFinishes ==
    /\ queue # <<>>
    /\ queue' = Tail(queue)
    /\ UNCHANGED <<project, ioVars, composing, clips, todo, entries, frames>>

\* reset_for_new_project. Textures that a submission reads live until it is
\* finished, but the sources get new ones.
Reset ==
    /\ ~composing /\ project < MaxProjects
    /\ project' = project + 1
    /\ reader' = [s \in Sources |-> Opened]
    /\ texture' = [s \in Interop |-> NoTexture]
    /\ index' = <<>> /\ lru' = <<>>
    /\ free' = Slots
    /\ queue' = [i \in DOMAIN queue |-> [queue[i] EXCEPT !.reads = <<>>]]
    /\ UNCHANGED <<pixels, composing, clips, todo, entries, frames>>

Next ==
    \/ \E layout \in Layouts : ScheduleFrame(layout)
    \/ \E q \in todo : ServeClip(q)
    \/ Submit
    \/ GpuFinishes
    \/ Reset

Spec == Init /\ [][Next]_vars

-----------------------------------------------------------------------------
(* Properties *)

\* Every slot of the pool is in one place: free, or behind one key of the
\* cache; the LRU list and the index hold the same keys. A slot lost is one
\* the preview never gets back, one held twice shows one clip in another.
SlotsConserved ==
    /\ free \cup {index[k] : k \in DOMAIN index} = Slots
    /\ \A k \in DOMAIN index : index[k] \notin free
    /\ \A k, j \in DOMAIN index : k # j => index[k] # index[j]
    /\ ToSet(lru) = DOMAIN index /\ Len(lru) = Cardinality(DOMAIN index)
    /\ Len(lru) <= Capacity

\* A picture is of the source and the project its label says, and of the time:
\* it is never earlier than asked for, and it is the first frame that decodes at
\* that time or after, unless the reader had gone past that one. It does not go
\* back for a time between the request it served last and the frame it has got
\* to: when that request is made again, when it was for a gap between two frames
\* of variable rate or for a damaged frame and so got a later one, when
\* decode_interop lost a frame, or when the reader moved and no slot was to be
\* had. Frame 0, whose stamp counts as missing, may stand in for a frame
\* that the decoder still holds back.
TrueTo(picture, s, n) ==
    /\ picture.src = s /\ picture.project = project
    /\ \/ picture.frame = 0 /\ Delay[s] < Length[s] /\ n <= Pts[s][Delay[s]]
       \/ /\ picture.frame \in Intact[s] /\ Pts[s][picture.frame] >= n
          /\ picture.sure => \A f \in Intact[s] : f < picture.frame => Pts[s][f] < n

PicturesAreTrue ==
    /\ \A k \in DOMAIN index : TrueTo(pixels[index[k]], k.src, k.pts)
    /\ \A s \in Interop : texture[s].held # NoFrame => TrueTo(texture[s].picture, s, texture[s].held)

\* What a clip was served is still there when the frame is submitted, whatever
\* the clips after it needed. Not so for a source shown at two times at once
\* in one pair of textures, nor in a frame with more clips than slots or cache
\* entries, or with a source larger than every slot.
Crowded ==
    \/ Cardinality(clips) > Capacity
    \/ \E q \in clips : Cardinality({p \in clips : TierOf[p.src] = TierOf[q.src]})
                         > Cardinality(Fitting(q.src))

FrameIsAsDecoded ==
    \A e \in entries :
        \/ e.kind = "slot" /\ (Crowded \/ pixels[e.slot] = e.picture)
        \/ e.kind = "texture"
             /\ \/ texture[e.src].picture = e.picture
                \/ \E d \in clips : d.src = e.src /\ d.pts # e.pts

\* NVDEC never writes textures that a submission still reads: they show what
\* they showed when the frame was submitted until the GPU is done with it.
TexturesUntorn ==
    \A i \in DOMAIN queue : \A s \in DOMAIN queue[i].reads :
        texture[s].picture = queue[i].reads[s]

=============================================================================
