# A verification project for Nexir

Nexir is a GPU video editor written in Rust: a core library (`src/`), an egui
front end (`ui/`) and a C shim over FFmpeg. This directory holds TLA+
specifications of what the editor does between the user and the pixels, the TLC
configurations that check them on small instances, and TLAPS proofs of part of
what they promise for every size of instance. `PROJECT.json` maps every
definition to the source lines it stands for.

## The system

| part | state | operations | talks to |
|---|---|---|---|
| export engine (`export/engine.rs`, `queue.rs`, `progress.rs`, `partitioner.rs`, `muxer.rs`) | encoder queue, control flags, first error, muxer | `start`, three threads, `cancel`/`pause`/`resume` | renderer, codecs, muxer, UI (progress channel) |
| export renderer (`export/renderer.rs`, `readback.rs`) | readback slots or frames in flight, cached graph | `render_segment`, `ensure_graph` | scheduler, render graph, queue or NVENC |
| codecs (`video_encoder.rs`, `audio_encoder.rs`) | packets held back | `encode_frame`, `flush`, `encode_pcm_chunk`, `encode_all` | packet sinks of the workers |
| NVENC (`interop/encode_interop.rs`) | pending pictures, slots, poisoned, EOS | `encode_frame`, `reclaim_slot`, `drain_completed`, `flush` | GPU driver |
| audio playback (`audio/`) | ring per clip, decoder threads, bus list | decode loop, seek, device callback | master clock, demuxer |
| transport (`ui/app.rs`, `sync/master_clock.rs`) | playhead, decoders, clock | play, pause, scrub, follow the timeline | audio, timeline |
| timeline (`timeline/`, `project.rs`) | clip store, tracks, keyframes, links | insert, overwrite, ripple, trim, split, move, query | panels, scheduler |
| panels and history (`ui/layout/`, `ui/history.rs`) | selection, drag in progress, undo stacks | commands, drags, undo, redo | project |
| IO layer and scheduler (`io/`, `scheduler/`) | demuxers and decoders per source, frame cache, slot pool, interop textures | decode, evict, reset, `schedule_frame` | preview, export, GPU |
| render graph (`render/`) | compiled graph, resources | compile, execute | GPU |
| autosave (`autosave.rs`, `ui/autosave.rs`, `project_file.rs`) | snapshot slot, wake channel, change token, files | tick, flush, delete, worker, shutdown | UI commands, file system |
| self update, colour, profiling, benchmarks | not modelled | | |

What is hard in this code: an export runs on three threads that share a queue
and a muxer, each of which may fail, be cancelled or paused at any point; the
NVENC path hands the same four surfaces back and forth between two devices; the
audio ring is lock free, and decoders come and go while the device calls back;
staging slots wander between a pool and a cache while a frame is being put
together; NVDEC writes textures the GPU may still read; the order of a render
graph comes out of hash sets; drags write to the project for many frames while
the keyboard stays live; the autosave file is written by a worker, deleted by
the UI, and compared by time stamps after a crash. `PROJECT.json` lists the
hazards line by line.

## Modules

| module | models | uses |
|---|---|---|
| `ExportSegments` | `SegmentPartitioner::partition` as operators | |
| `ExportContract` | what an export promises its caller | |
| `ExportPipeline` | the CPU export: `start`, dispatch, encoder and audio threads, queue, muxer, control | `ExportSegments`; implements `ExportContract` |
| `NvencPipeline` | the NVENC export: dispatch thread, GPU, encoder session | `ExportSegments`; implements `ExportContract` |
| `AudioRing` | ring buffer, decoder loop, callback read | |
| `Playback` | frame loop, transport, decoders, mixer list, master clock, callback | |
| `Autosave` | autosave worker, coordinator, project commands, files, crash and restart | |
| `Timeline` | the clip store, its mutations, keyframes and queries as operators | |
| `Editor` | an editing session: project, history, panels, drags | `Timeline` |
| `MediaReader` | demuxer and decoder of a file, and the position kept beside them | |
| `Preview` | a preview frame: scheduler, IO layer, cache, pool, textures, GPU | `MediaReader` |
| `RenderGraph` | graph compiler and the execution of a frame | |
| `FrameGraph` | the graphs that preview and export build, their uploads and cache | `RenderGraph` |
| `MC...` | values of the constants for TLC | the module named |
| `ExportPipeline_proofs`, `NvencPipeline_proofs`, `AudioRing_proofs`, `Playback_proofs`, `Autosave_proofs`, `Editor_proofs`, `Preview_proofs`, `FrameGraph_proofs` | theorems | the module named |

**ExportPipeline.** Each thread has a program counter (`dpc`, `vpc`, `apc`), and
an action is what the thread does between two points where another thread can
see the difference: a look at the control flags, a send or receive on the
queue, a write to the muxer, a join. `AfterLoop`, `SeesCancel`, `PreviousSlot`,
`FirstError` and the like name the one decision of the source that a property
hangs on. A frame's pixels are the index of the frame they were rendered for;
`slots` are the two readback buffers, so a wrong slot shows as a wrong index. A
codec holds a sequence of frames back and hands out any prefix of it on each
call. `Faults` says which calls may fail: spawning, rendering, encoding, a
drain that ends early, muxing, the audio chain, the trailer, and a frame without
FINAL_COLOR ("stale"). A panic of the render loop is the same as an error
(`catch_unwind`). Progress updates before the last are left out: nobody reads
them but the progress bar.

**NvencPipeline.** The dispatch thread alone, with two devices: `GpuExecutes`
runs submissions in order, `NvencEncodes` finishes pictures in order and reads
the slot's pixels at that moment, so that an early hand-over or a slot rendered
into too soon shows in the packet. The three calls that return packets
(`reclaim_slot`, `encode_frame`, `flush`) collect into `got` and mux through one
action, `then` saying where they return to. `LoopFails` is what else ends the
loop: a frame whose graph does not compile, a panic, a packet that cannot be
allocated. `async` is `is_async`, found when
the session is opened. The audio worker is reduced to its result, since it is
the one of ExportPipeline.

**AudioRing.** One sample per copy step, so the two threads overlap as their
`memcpy`s do. Positions wrap at `Modulus`, a multiple of the capacity, as
`usize` does. The decoder's loop has the seek (flush of the resampler, `clear`),
the out point (`over`, looked at before the room), the wait for room, and a
packet: `DecodePacket` is one with samples, `NoSamples` one without, be it an
error of the demuxer, the codec or the resampler or a codec that has nothing to
give yet, and `EndOfClip` is the end of the stream. Samples may take the clip to
its out point or not, so `over` is any value after them. A packet is written in
one call of `write`; a decoder that yields several frames for a packet writes
them one after the other, which only lets the callback in earlier. A packet may
yield nothing for ever (the code logs the error and takes the next), and then no
sound can go on: `SoundGoesOn` excuses just that (`Silent`). A clip seeks
once, before anything is read: in the editor every later seek stops the decoder
and starts another with a ring of its own (`needs_restart`, `app.rs` 842-848,
includes `force_seek`), so the branch that would send a seek to a running one
(`app.rs` 914-919) is never taken.

**Playback.** Time is counted in ticks, one callback of the device to each. A
`Pass` is a frame of the UI up to the point where it knows which decoders to
stop and start; `StopDecoder`, `StartDecoder`, `Unlock` and `SeekClock` are the
rest of it, with the device and the clock between any two of them. `lock` is the
mutex of the mixer list: a callback that finds it taken is `Silence` and does not
count. A decoder is in three places (`decoders`, the UI's map; `rings`, the list
the callback mixes; `running`, threads that were not told to stop), and what the
properties ask is that they agree. `tune` is everything a decoder is started
with.

**Timeline, Editor.** The columns of the store are one sequence of records;
fields that every mutation copies together are one field `look`; a mutation
returns whether it succeeded, the store as it left it, and an id. In `Editor` an
action is one command with everything the frame does for it: the mutation of the
clip and of its linked partner, layer bookkeeping, the selection, the undo
entry. A drag is several actions (grab, frames that write, release), and the
commands of the keyboard may come between them. `shown` is what the inspector
loaded, which it writes back on an edit. An index out of range (`Panicked`) ends
the session. A fader is moved by a drag (`GrabGain`, `DragGain`), by a click and by
a double click. `last` only labels steps for the properties.

**MediaReader, Preview.** Frames are numbered in the order they come out, and
`Pts` are their time stamps, in units of the project: a file of variable frame
rate has gaps, and a request may lie in one, as the quantising of
`frame_scheduler.rs` 351-360 makes it. Frames that are not `Intact` do not decode,
and reading may fail at the packets that are `Unreadable`. The reader is the pair
of demuxer and decoder: `in` is the next packet, `out` the next frame that comes
out, `end` where the decoder's input was closed by a drain, `last` the
`last_decoded_pts` of the IO layer. The loops that feed packets until a frame
appears are in closed form: frame f comes out with packet f + Delay, and `Halts`
says where reading may stop before it does, at the end, at a packet that cannot
be read, or at the bound of `MaxPackets`, which does not drain. What a decoder
gives out on a drain may stop at a damaged frame (`Stops`). `ServeClip` is `process_island` for one clip, through the textures
(held, decoded, declined), the cache, and a blocking decode into a slot, with
eviction and promotion of the LRU list; `Submit` uploads and submits, and
`GpuFinishes` is whenever the GPU likes, in order. A picture is a record of what
was really decoded; a key or label says what it should be. `from` and `upTo`
are history fields of a reader: the time it served last, and the latest time
among the frames that have come out. A request between the two does not seek,
although its frame has gone by, and its picture is not `sure`; every other is.

**RenderGraph, FrameGraph.** A node is the sets of resources it reads, writes,
creates and imports. The edges are those of `compile`; `Cyclic` says in closed
form what Kahn's algorithm reports, and since the source puts edges into
`HashSet`s and maps, a frame may record any node that is `Ready`. `content` is
which node wrote a resource last, `seen` what each node read. `FrameGraph`
builds the nodes that the preview (anew for each frame) and the export (while
`Signature` is unchanged, keeping uploads in staging buffers) build from the
scheduled clips, and `Made` follows what a layer of the composite shows back to
what was decoded and the passes it went through.

**Autosave.** One action per command of the UI, each ending in the frame's tick
(`TickAfter`); the worker's `recv_timeout`, `take` and the three steps of
`write_atomic`; the files with their contents, "torn" while truncated, and
whether they are newer than the project file. Saving is two steps, because
`std::fs::write` truncates first. `Crash` may come between any two steps and
leaves the files as they are. `pushed`, `written`, `failed`, `answered` and
`flushed` are history variables for the properties. Contents are numbers that
edits raise; an undo is an edit like another, as it is for the change token.
`EditUnrecorded` is a change that leaves the token alone because no history entry
records it: a click on a fader, or what a drag writes after its start.

## Runs

| run | instance | what it shows |
|---|---|---|
| `export_backpressure` | 3 frames in 2 segments, queue of 2, 2 audio frames, 1 clip, 1 pause, all reported faults | frames are conserved through readback, queue, codec and file; a good end left nothing behind; the contract holds |
| `export_faults` | 3 frames in 2 segments, queue of 8, 1 clip, 1 pause, all faults | sealing comes last, the verdict is true, the export ends, a cancellation ends it even when paused |
| `export_stalled` (violation) | 9 frames, queue of 8, an encoder that may fail | the export hangs in a send |
| `nvenc_session` | 9 frames in 2 segments, 4 slots, 1 pause, session faults, with and without events | slots are exclusive, packets carry their frame, the tail is flushed, trouble is reported, the export ends, the contract holds |
| `nvenc_muxlost` (violation) | 3 frames, the muxer may refuse a packet | Done is reported of an incomplete file |
| `ring_playing` | ring of 8, words of 24, packets up to 3 and packets without samples, tail up to 2, reads of 2 | no overlap, no stale or lost sample, the sound goes on to the clip's end unless packets stop yielding |
| `playback_session` | 2 overlapping clips, 4 frames of 2 ticks, a stall of up to 2 ticks, 2 tunings, with and without a device | map, threads and rings agree; an edit reaches the sound; the picture does not stand still |
| `autosave_recovery` | 2 edits, 2 switches, 1 save, 1 restart, one file, all faults | newest snapshot wins, never torn, work at rest is recoverable, shutdown returns |
| `autosave_flush` (violation) | 2 edits, 1 switch | a flush skips unsaved work |
| `editor_session` | 5 starting projects, 2 commands, 3 frames, 2 frame rates, 3 speeds, 3 tracks, 2 undo entries | the store stays sorted, keyframes die with their clip, a split plays on, an insertion loses nothing, every change but a click on a fader can be undone |
| `preview_frames` | 4 sources (one by NVDEC with a gap and an unreadable packet, one with a damaged frame, one too large), 3 packets per request, 4 slots in 2 tiers, cache of 3, 3 frames, 2 projects | no slot lost or shared, pictures are the first from their time on unless the reader had gone past it, and survive until they are submitted and read |
| `frames_drawn` | all graphs of up to 3 nodes over 2 resources; 3 frames out of 13 | the order of a graph never shows; each layer shows its clip as it is now |

Every property of a passing run has a mutant (`Mut...` beside the definition it
replaces): a bug of the kind the code could have, that the run must notice.

**Bounds, and why they are enough.** Two segments of unequal length show the
partition, the swap of slots across a segment boundary and a last segment that
is shorter. A queue of two fills with one frame and one marker; a queue of eight
never fills with the at most six items of `export_faults`, which keeps the known
hang (`export_stalled`) out of the liveness check. Nine frames use each of the
four slots twice, across two segments. The ring is scaled with the proportions
of the source (capacity 32768, threshold 6144, reads of 2048) and wraps both
the ring and the word. Two edits are what it takes for tokens of two histories
to meet; two switches leave and come back. An editing session starts from
projects that were themselves made with the commands (a clip with its sound, the
pair cut in two with a keyframe, at double speed, and under a shorter copy on a
third track), so that two commands meet a long history: a cut and an insertion
into a tail, a drag with an undo inside it (selecting, grabbing, releasing, undo
and redo are free). Three
frames of the preview fill the cache of three, evict from it and come back; the
four slots are two in each of two tiers, so that promotion and pressure of one
tier on another happen. Of the 13 layouts four ask the source with stamps 0, 1,
3, 4 for its times one by one, the gap at 2 included, and one asks for the time
of the damaged frame; three packets per request end before the file of four does. Two clips of the playback overlap in one frame, follow
each other in the next and leave the last silent. User actions are bounded by
`MaxPauses`, `MaxEdits`, `MaxSwitches`, `MaxSaves`, `MaxLaunches`, `MaxSeeks`,
`MaxFrames`, `MaxProjects`; undo by `MaxHistory`, tracks by `MaxTracks`, ticks
between two frames by `MaxStall`. Deadlock is not checked where a system stops by
itself: an export that has reported, an editor that is down or has used up its
commands, a clip that is over, a preview with its frames drawn. `frames_drawn`
stops after its frames, too; `playback_session` never stops, and there it is
checked.

**Fairness.** Weak fairness of each thread (a spawned thread keeps running), of
the GPU and of NVENC (a device finishes what it accepted, or the wait times out,
which is a fault), and in the editor of the frame loop (ticks, the end of a save,
the join). In `Playback` the frame loop and its work are weakly fair (the event
loop redraws), time passes (`Silence`), and the callback is strongly fair: the
UI holds the lock for an instant once in a while, the device calls back
thousands of times, so a callback that finds it free comes again and again.
The user owes nothing: liveness of an export assumes only that it is not left
paused for ever, unless it is cancelled.

## What was found

Three runs show the code doing other than a comment or a test says:

1. A failed encoder worker leaves the receiver alive in the shared
   `Arc<EncoderQueue>`; once the queue is full, `push` and `finish` block for
   ever and the export never ends (`export_stalled`).
2. `mux_nvenc_packets` logs a failed write and the export is reported as done
   (`nvenc_muxlost`).
3. The change token restarts with each project, the last pushed token does not;
   when they are equal, `flush` pushes nothing (`autosave_flush`).

The rest was noticed while modelling. The models do what the code does, and
where a property would fail for it, the property says so in its comment; no run
is spent on these.

*Autosave.* The tokens of finding 3 meet in the tick as well: while the recovery
dialog is open (it blocks nothing, against `app.rs` 990) a save deletes the
autosave that is offered, an edit brings the token back to that of the last
push, and a Restore that then fails to load leaves the edit unnoticed. It takes
three edits, two saves and an open. `Excused` therefore excuses what the answer
to the dialog left, until the next edit.
A change that no history entry records does not move the token: it is neither
autosaved nor pushed by a flush until something recorded follows. The loss is
excused in the same way.

*Editing.* A ripple insertion or move over stacked clips of one source with
unequal lengths fails midway: the clips taken out are lost and `selected` may be
out of range. A clip deleted by key during its drag leaves `drag.orig_idx` stale
(`timeline.rs` 1373), a clip deleted in the viewport leaves `active_clips` stale
(`app.rs` 780); both index past the end. A speed change can round a duration to
zero (`store.rs` 322 against the invariant at 36), and frames to time may
truncate at NTSC rates, which only a loaded file can have. Trimming in, ripple
and overwrite cuts take source time for timeline time at other speeds than 1x.
Ripple edits drop the keyframes of the clips they move. A split leaves each half
the keys inside it (`keyframe.rs` 357-388): between the last key before the cut
and the first after it the animation becomes still on both sides, and a fade
longer than its half is cut short. `SplitPlaysOn` therefore compares media,
source time and base look, and neither keys nor fades. A click on a fader sets
the gain with no undo entry (`timeline.rs` 696-702: `clicked()` sends SetGain, only
`drag_started()` records): no undo takes it back, and the redo stack stays, so a redo
may put back a project without it. A double click records the gain its own first
clicks set, not the one before them. A fader that is held over an undo writes what
no entry records; a keyframe toggle records twice. An
error of the second of two linked moves is dropped.

*Preview.* `last_decoded_pts` is the time that was asked for, not that of the frame
that was served, and a frame found is the first with a stamp no earlier than the
target. A request between that time and the stamp does not seek
(`io_layer.rs` 257-265), though the frame has gone by: it gets a later one, which is
cached under its key. That happens when the frame that was read last is asked for
again after its eviction; in a gap of a variable frame rate, where the first request
gets the frame after the gap and a second one in the gap the frame after that;
and around a damaged frame, which is skipped without a word (362). A copy into a
texture that fails, a request past the end and one that
`decode_interop` reads for in vain, before the cache or no slot at all answers it,
move the reader and leave `last_decoded_pts` (157-228), with the same effect. All
last until the next seek. The excuse of `PicturesAreTrue` once lacked the last case;
the proof of its invariant failed there, and a run with five frames showed why.
A packet that cannot be read is taken for the end of the file (357-359): the decoder
is drained in the middle, and then refuses packets until a seek flushes it. The bound
of 600 packets does not drain. Frame 0, whose stamp counts as missing, takes the
stamp of a later packet. One source shown at two times in one frame shares one pair of
textures, and a request past its end spoils what the first clip was served while
it leaves no entry of its own: `FrameIsAsDecoded` excused only what had an entry
until its proof asked which clips a frame has, hence `clips` and the layout of
times 1 and 4. A source larger than every slot empties the cache.

*Drawing.* A still that does not load leaves no texture behind while the clips
are counted on: those above it show the next one's picture, and alone it ends in a
panic (`composite.rs` 389). An export treats a text clip as video, and its signature
does not tell them apart. Preview composites at most 8 clips.

*Playback.* While the audio clock drives the playhead, `last_tick` is not
updated, so the picture jumps ahead when the last audible clip ends. Changes of
pitch restart no decoder. The clock counts callbacks whether or not a ring had
samples for them. An autosave written after a save offers what was saved.

## Proofs

All theorems hold for every value of the constants that satisfies the module's
assumption (at least one frame, one render thread, a queue of depth one; any
number of audio frames, clips, pauses, slots, project files; any set of faults;
any loaded projects that an earlier session may have saved, of any number of
clips and tracks; a history of two entries or more; any set of graphs, and of
frames of any length, with any effects on their clips). Where a theorem needs that some call does not fail, it says
so by a hypothesis on `Faults`; the hypotheses are the faults the run of the
property leaves out, too, and each is a fault under which the property is
false, as the comments of the properties say.

`ExportPipeline_proofs` first shows that segments are non-empty and in range
(`SegmentInRange`), contiguous (`SegmentsContiguous`) and cover the job
(`SegmentsCover`), from one lemma on rounded-up division;
`NvencPipeline_proofs` has the same facts as lemmas.

It then shows `Spec => []IInv` (`Invariance`) and from it
`TypeCorrect`, `FinaliseIsLast`, `TerminalIsTruthful` and `DoneCounts`. None of
these is inductive by itself. `IInv` adds to the type invariant
- `Lifecycle`: the dispatch thread runs only once `start` has spawned it;
- `Counting`: at each point of the dispatch loop, `framesDone`, `frame`,
  `pending` and the bounds of the current segment agree, so that leaving the
  last segment means every frame was counted (this is where the three theorems
  about segments are used);
- `Joining`: past a join the joined worker has stopped, and a worker that
  stopped never runs again;
- `Reported`: the terminal phase is the one the errors of that moment call for;
- `Mixing`: a clip being mixed is one of the clips.

The proof has one lemma per thread (`StartStep`, `UserStep`, `EncoderStep`,
`AudioStep`, `DispatchStep`), in each of them one step per action.

On top of it stand three more invariants, for what is in flight between the
threads. `VideoInv`: no packet waits between two calls of the codec, nothing is
pushed after the marker of the end, and once that is popped the queue is empty
and, unless a drain failed, the codec drained. `AudioInv`: the same for the
audio worker, whose packets and held frames count on from those in the file, and
only a cancellation leaves clips unmixed. `FrameInv`: the readback slot that is
not being rendered into holds the pending frame (`ReadbackRight`, which needs
that no render is "stale"), hence each frame pushed carries its own pixels, and
file, packets, codec and queue hold the counted frames one after the other
(`InFlight`). They give `VideoIsConserved`, and with "drain" excluded
`NothingIsLeft` and `ContractKept`, the refinement of `ExportContract`: each
step of the three threads is a step of the contract or a stutter. The lemmas
about sequences that count (`CountsTail`, `CountsAppend`, `CountsSplit`,
`CountsConcat`) and about the frames in a queue that also holds markers
(`PopFrame`, `PopMarker`, `PushFrame`, `PushMarker`) carry the induction. The
properties speak of the indices of the queued frames and not of a filtered
queue, since the prover cannot unfold a recursive `SelectSeq`.

`NvencPipeline_proofs` has `IInv` of five parts: `Domains`; `Position`, where
in its segment the loop is; `Ahead`, how far rendering runs ahead of the
encoder; `Window`, that the frames with the GPU, in flight and in NVENC are runs
of consecutive numbers that together fit the slots; and `Verdicts`, which errors
are reported. From it follow `TypeCorrect`, `TroubleReported` and
`SlotsExclusive`, whatever fails: two frames less than `SlotCount` apart do not
share a slot (`Frame % SlotCount`, by the lemmas on remainders). With "stale"
excluded, `Drawn` (a picture not yet read is still in its slot) is invariant, and
with it `PacketsTrue`. With "mux" excluded, `Conserved` is, and with it
`NoFrameLost` and `ContractKept`, the refinement of `ExportContract`; that "mux"
cannot be allowed is what `nvenc_muxlost` shows.

`AudioRing_proofs` assumes the one seek a clip starts with (`MaxSeeks = 1`, as in
the run; a second one could clear the ring under a read, and the code above
never makes it). `IInv`: what is unread and what is being written fit the ring,
what is being read is unread (`Bounded`); until the first seek is done the ring
is empty, so `clear` discards nothing a read may hold (`StartsEmpty`); every
position from the reader's up to where the decoder is copying holds its own
sample (`Written`); and a write never wants more than the room there is, since the room that was found
before a packet was taken is still there when it is decoded (`NothingLost`). `SidesApart` and `SamplesHeard` follow from it. The lemma that
carries them is `IndicesApart`: less than the capacity apart, two positions have
different indices, also across the wrap of the word, because the capacity
divides the modulus.

`Playback_proofs`: map, threads and rings change together, also in the middle
of a frame's work (`OneEach`), a clip to be started does not run or is to be
stopped first (`Lists`), and what each clip's decoder will be once the work is
done is what it should be (`PlansAreRight`, over `Planned`). `OneVoice` and
`EditsHeard` are what is left of these when the work is done.

`Autosave_proofs`: `NeverTorn` and `TypeCorrect` are nearly inductive.
`NewestReachesDisk` needs `Newest` (the newest snapshot is in the slot, else in
the worker's hands, else on disk) and `LastDrain` (the worker's last drain comes
after the last push). `WorkIsRecoverable` needs `KeptAtRest`: what the
coordinator does not consider dirty is saved, or is the newest snapshot, which
is on its way to an autosave that will be offered (`WillBeOffered`, over the
ages of the files). Its proof failed at first, for the reason given above under
*Autosave*.

`Editor_proofs`: the inductive invariant `EInv` says that the project and every
snapshot in the history is one of `Projects`: typed, sorted with each id handed
out once (`Ordered`), and with no keyframe of a clip that is gone (`Owned`). It
has to say so of the snapshots because an undo makes any of them the project. To
it belong that undo and redo together fit the history, and `HeldUndoable`: the
project as it was when a drag began is on top of the history, or just below the
entry of a key command that left nothing selected. A drag that writes frame after
frame and records nothing rests on that; a click on a fader rests on nothing, and
`ChangesUndoable` only says of it that it changes one gain. Each
mutation of the store has a lemma that it keeps `Ordered` and `Owned`, whether it
succeeds or fails midway (`InsertKeeps`, `SplitKeeps`, `MoveRippleKeeps` ...), and
each action one that it keeps `EInv` and is `Undoable`; `EditorTypes`,
`OrderKept`, `KeyframesKept` and `ChangesUndoable` follow. A mutation that works
through a list of clips is a fold, and nothing is known of the function a fold
is defined by until there is one: `FoldExists` and `RunExists` show that there is
by a smallest counterexample, after which `FoldKeeps` carries what each step
keeps to the end. `LoadedAssumption` is what makes the first state such a
project: a file is what an earlier session saved, and a file edited by hand
could be anything.

`SplitsPlayOn` compares what plays before and after a cut without the indices,
which a cut shifts: `Shelf` is the set of clips, `CutIn` says that one is
replaced by its two halves, and `SidesAlike` that at any time the half that is
there is `Alike` the whole: same source and base look, and a source position that
differs by the one tick that rounding two parts apart may cost (`RoundedParts`).
A clip and its linked partner are cut one after the other, at the same point,
so the second cut leaves what the first made alone (`TwoCuts`).

`InsertionsLoseNothing` counts: `All` is how many members of a sequence are in a
set, here the clips that show a tick (`Hits`), and putting one in, taking one out
and joining two sequences count as they should (`AllPut`, `AllTake`, `AllConcat`;
`TallyShifted` carries a difference past the place where it arose). An insertion
that succeeds took each clip it cuts or pushes out once, because an id names one
clip (`RemoveAllHeld`), and put each of what it `Arranged` in once
(`InsertAllHeld`): the halves, which share out what their clip shows
(`HalvesHit`), the shifted clips, which show what they did (`ShiftedHit`), and the
new one (`RippleHeld`). A linked clip that ends before the cut would leave an empty
half, and one that is moved twice would be taken out twice: the store refuses
either, and the insertion has failed. The theorem does not need the property's
hypothesis on speeds.

`Preview_proofs`: `IInv` says that pool, index and list share out the slots
(`Owned`); that the reader of each source is `Tracked`, i.e. is inside the file,
holds back no more packets than its delay (`Placed`), and every frame that has come
out of it has a time no later than `upTo`; that keys and labels are true; and that what a
submission reads is in the texture, stamped with it or with a later submission
(`Sampling`). The last is why waiting for the one stamp a texture has is enough for
all submissions before it. `Positioning` is the heart of `PicturesTrue`: before a
request is read for, either it lies in what the reader has gone past (`Behind`), or
what has come out is all earlier than it (`Clear`), whether the reader sought or
stayed. It holds for any time stamps that increase, any set of damaged frames and
any packets at which reading may fail. `ReadingForward` and `Draining` (`Reading`)
carry it to the frame that is found, `Recorded` and `Forgotten` carry `Tracked` on
from there, `Dropping`, `Adding`, `Promoting`
and `Inserting` carry `Owned` through the cache, for lists of any length;
`Declining` collects what an attempt at the textures may leave behind.
`SlotsKept`, `PicturesTrue` and `Untorn` follow. `ServedAsDecoded` needs a second
invariant, `FrameInv`: entries are of different clips that were served
(`Listed`), a slot is of the tier of the key it is behind (`Tiered`), what the
frame shows was used later than everything else in the LRU list (`Recent`), and
unless the frame is crowded it is still there (`Standing`). To evict what is shown,
every slot of the tier would have to be shown already, by fewer clips than the
tier has slots; to push it out of the cache, every entry would (`Numbered`,
`SparedByEviction`, `SparedByRoom`). This is where the two bounds of `Crowded`
come from.

`FrameGraph_proofs` first shows `GraphSpec => []RunsAsAdded` (`OrderNeverShows`): a
graph that compiled runs to its end, and no order the hash sets could produce
changes what any node reads. `IInv` says that the graph was `Accepted` (without
cycles), that what a recorded node waits for was recorded (`Closed`), that the
writers of a resource are recorded in the order of addition (`InTurn`), that a
resource holds what the last of them wrote (`Holds`), and that every node so far
read what it should (`ReadAsAdded`). The core is what the edges mean: the latest
writer before a reader or a writer has an edge to it (`LatestWriterFirst`,
`WritersInTurn`), a writer after a reader has to wait for it, and a graph
without cycles has no node that reads only what later nodes write
(`NoBackwardReads`). Progress is that a first unrecorded node exists in an
order without cycles (`FirstExists`).

The theorem above holds for graphs from anywhere; `OrderNeverShowsInFrames` is
the same for those that are built for frames, and rests on the builders being
`Sound`: each node they add writes ids of its own, taken from a counter, and
reads what earlier nodes wrote or what NVDEC left in textures (`AddSound`,
`ThenSound`, `PlanesSound`). A build is a run over the clips (`BuiltRun`,
`IsBuild`). The graph that comes of it is `Neat`, i.e. each resource has one
writer, and only the textures of the frame are imported; each clip has an upload
node of its own (`UploadsDiffer`) and its own texture (`TextureOf`).

`FramesShowTimeline` adds `FrameInv`: graph, textures and uploads are those that
would be built for the frame that is drawn now, and staging holds this frame's
pictures (`OfFrame`). For a graph that is kept this is the question whether the
signature leaves nothing out, and `SameGraph` answers it: two frames of the same
signature build the same graph. What a node made (`Made`) is a recursive function
over the graph; it exists since nodes read only what nodes below them wrote
(`MadeIs`). Along a clip's nodes the picture is then followed from its planes
(`OpensMade`) through the mapping of its colours (`MappedMade`) and its effects
(`ChainMade`: the export keeps passes that change nothing, the preview leaves
them out, and both give `Effective`) to its layer (`ClipMade`, `LayerShows`).
That a panic needs every clip to be lost follows from `TexturesBound`: what a
graph imports is bound by the frame.

Only model-checked: every liveness property, which is out of the prover's reach, as
is ENABLED. Also out of reach are RECURSIVE operators and the library's induction
theorems over an operator; no module that is proved about uses the former, and in
place of the latter the proofs argue by the smallest counterexample (`Upto`,
`FirstExists`, `FoldExists`).

## Not modelled

- Pixel, sample and colour arithmetic, container and codec formats, text
  layout, shaders: floating point and foreign libraries. Time stamps of a stream
are in units of the project, so the rounding between time bases is not modelled,
and a stream starts at 0.
- A seek of a media file that fails: the request is given up before it reads.
- Drawing and hit testing of the panels, the media pool, export settings, the
  waveform cache, relinking and probing of files.
- What the library offers and the editor never calls: `move_clip`, slip, slide,
  roll, `duplicate_clip_to`, `batch_move_clips` and the setters of the timeline;
  `PlaybackEngine`; `DriftCorrector`, `PresentationDecider`, `SyncProbe`; the
  prefetch worker (it is spawned, and nothing sends to it); the export's decode
  worker; `effect_chain.rs`; a second seek of a ring that is being read.
- The pool of transient textures, surfaces that are outdated, shader
  compilation that fails: they end a frame, not a state.
- The updater: a download and the replacement of the running program.
- Benchmarks, probes and profiling: a quarter of all lines (`src/bin`,
  `examples`, `profiling`). With the drawing of the panels, the render nodes,
  the colour code and the bindings to drivers they are more than half, which is
  why the map names a modest share of the lines and yet most of the control of
  the parts above.

## Plan

1. `SelfUpdate`: status machine and restart, with the frame loop.
