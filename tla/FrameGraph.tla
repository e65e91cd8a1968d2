----------------------------- MODULE FrameGraph ------------------------------
(***************************************************************************)
(* From the clips of a frame to the picture: the graph the preview builds   *)
(* anew for every frame (ui/app.rs, compile_export_graph) and the one the  *)
(* export builds and keeps while its signature stays the same              *)
(* (export/renderer.rs, ensure_graph), compiled and run by RenderGraph.     *)
(*                                                                         *)
(* A picture is what it was decoded from and the passes it went through.   *)
(***************************************************************************)
EXTENDS RenderGraph, SequencesExt

CONSTANTS
    Frames,         \* what may be scheduled: sequences of clips, bottom first
    Missing,        \* sources of stills that do not load
    MapsStills,     \* whether a still needs mapping into the export's colours
    MaxFrames       \* bound: frames

\* A clip has a source, a kind, a colour, effects, and may be decoded into
\* textures. An effect is 0: off, 1: on with values that change nothing, 2 or
\* more: on.
Passes == <<"color", "blurH", "blurV", "sharpen", "vignette", "chroma">>
EffectOf(pass) == IF pass \in {"blurH", "blurV"} THEN "blur" ELSE pass

ASSUME FrameAssumption ==
    /\ \A f \in Frames : f \in Seq(ToSet(f))
    /\ \A f \in Frames : \A i \in DOMAIN f :
         /\ f[i].kind \in {"video", "still", "text"} /\ f[i].colour \in {"sdr", "hdr"}
         /\ f[i].interop \in BOOLEAN /\ (f[i].interop => f[i].kind = "video")
         /\ \A p \in ToSet(Passes) : f[i].effects[EffectOf(p)] \in Nat
    /\ MapsStills \in BOOLEAN /\ MaxFrames \in Nat

VARIABLES
    builder,    \* "preview", "export", or "custom": a graph from elsewhere
    frame,      \* FrameState::clips
    scheduled,  \* whether that frame is still to be drawn
    signature,  \* ExportRenderer::cached_sig
    inputs,     \* CompositeNode::input_textures
    uploads,    \* upload_indices: the upload node of each clip, 0 for none
    staged,     \* what the upload nodes' staging buffers hold
    frames      \* frames so far: tells one from the other

frameVars == <<builder, frame, scheduled, signature, inputs, uploads, staged, frames>>
vars == <<graphVars, frameVars>>

Garbage == [of |-> "garbage", at |-> 0, through |-> <<>>]
Decoded(clip, n) == [of |-> clip.src, at |-> IF clip.kind = "video" THEN n ELSE 0,
                     through |-> <<>>]

-----------------------------------------------------------------------------
(* Building *)

\* interop_y_id, interop_uv_id and interop_id_counter_start, clips from 1.
InteropPlanes(i) == <<2 * i, 2 * i + 1>>
CounterStart(n) == 2 + 2 * n

Node(does, from, to, imports, param) ==
    [does |-> does, from |-> from, param |-> param, reads |-> ToSet(from),
     writes |-> ToSet(to), creates |-> ToSet(to), imports |-> imports, clash |-> FALSE]

\* What a builder has so far: its nodes, the id counter, the current texture.
Add(b, node) == [b EXCEPT !.nodes = Append(@, node)]

\* One more pass from the current texture into the next id.
Then(b, does, param) ==
    [Add(b, Node(does, <<b.cur>>, <<b.next>>, {}, param)) EXCEPT !.cur = b.next, !.next = @ + 1]

EffectChain(b, clip, least) ==
    FoldLeft(LAMBDA c, p : IF clip.effects[EffectOf(p)] >= least
                           THEN Then(c, p, clip.effects[EffectOf(p)]) ELSE c, b, Passes)

\* The planes of a video clip, its upload node unless NVDEC left them in
\* textures; then the conversion of the planes into `to`.
Planes(b, i, clip) ==
    LET y == IF clip.interop THEN InteropPlanes(i) ELSE <<b.next, b.next + 1>>
        up == IF clip.interop THEN b
              ELSE [Add(b, Node("upload", <<>>, y, {}, 0)) EXCEPT !.next = @ + 2]
    IN [up |-> up, planes |-> y]

Conversion(clip) == IF clip.colour = "hdr" THEN "hdrToRgb" ELSE "sdrToRgb"
Convert(b, clip, planes, to) ==
    [Add(b, Node(Conversion(clip), planes, <<to>>, IF clip.interop THEN ToSet(planes) ELSE {}, 0))
        EXCEPT !.cur = to]

Pushed(b, node) ==
    [b EXCEPT !.inputs = Append(@, b.cur), !.uploads = Append(@, node)]

UploadNode(b, clip) == IF clip.interop THEN 0 ELSE Len(b.nodes)

\* The preview: text, stills and videos; what changes nothing is left out.
PreviewClip(b, i, clip) ==
    IF clip.kind = "still" /\ clip.src \in Missing THEN [b EXCEPT !.uploads = Append(@, 0)]
    ELSE IF clip.kind # "video"
    THEN Pushed(EffectChain([Add(b, Node(clip.kind, <<>>, <<b.next>>, {}, clip.src))
                                EXCEPT !.cur = b.next, !.next = @ + 1], clip, 2), 0)
    ELSE LET p == Planes(b, i, clip)
             rgb == Convert([p.up EXCEPT !.next = @ + 1], clip, p.planes, p.up.next)
             mapped == IF clip.colour = "hdr" THEN Then(rgb, "tone", 0) ELSE rgb
         IN Pushed(EffectChain(mapped, clip, 2), UploadNode(p.up, clip))

\* The export: it knows no text, and the id of the result comes first.
ExportClip(b, i, clip) ==
    LET rgba == b.next
        c == [b EXCEPT !.next = @ + 1]
        still == [Add(c, Node("still", <<>>, <<rgba>>, {}, clip.src)) EXCEPT !.cur = rgba]
        p == Planes(c, i, clip)
        rgb == Convert(p.up, clip, p.planes, rgba)
        Mapped(d, maps) == IF maps THEN Then(d, "tone", 0) ELSE d
    IN IF clip.kind # "still"
       THEN Pushed(EffectChain(Mapped(rgb, MapsStills \/ clip.colour = "hdr"), clip, 1),
                   UploadNode(p.up, clip))
       ELSE IF clip.src \in Missing THEN [c EXCEPT !.uploads = Append(@, 0)]
       ELSE Pushed(EffectChain(Mapped(still, MapsStills), clip, 1), 0)

Built(f, Clip(_, _, _)) ==
    LET empty == [nodes |-> <<>>, next |-> CounterStart(Len(f)), cur |-> 0,
                  inputs |-> <<>>, uploads |-> <<>>]
        b == FoldLeft(LAMBDA c, i : Clip(c, i, f[i]), empty, [i \in DOMAIN f |-> i])
    IN Add(b, [Node("composite", Append(b.inputs, FinalColor), <<FinalColor>>, {}, 0)
                EXCEPT !.from = b.inputs])

-----------------------------------------------------------------------------
(* Drawing *)

\* ExportRenderer::signature. The mutant leaves the way of decoding out.
MutSignature(f) ==
    [i \in DOMAIN f |-> [src |-> f[i].src, meta |-> f[i].colour, still |-> f[i].kind = "still",
                         effects |-> f[i].effects]]
Signature(f) ==
    [i \in DOMAIN f |-> [src |-> f[i].src, meta |-> f[i].colour, still |-> f[i].kind = "still",
                         interop |-> f[i].interop, effects |-> f[i].effects]]

\* The texture slot of a clip; a placeholder names the first slot of all.
SlotOf(clip) == IF clip.kind = "video" THEN Decoded(clip, frames + 1) ELSE Garbage

\* upload_frame_data, after the graph is built or kept.
Staged(f, ups) ==
    [n \in {ups[i] : i \in DOMAIN ups} \ {0} |->
        SlotOf(f[CHOOSE i \in DOMAIN f : ups[i] = n])]

Scheduled(f) ==
    /\ ~scheduled /\ status \in {"none", "ready"} /\ frames < MaxFrames
    /\ frame' = f /\ scheduled' = TRUE /\ frames' = frames + 1
    /\ UNCHANGED builder

\* compile_export_graph. An empty frame only clears the preview.
PreviewFrame(f) ==
    LET b == Built(f, PreviewClip)
    IN /\ builder = "preview" /\ f # <<>>
       /\ Scheduled(f)
       /\ Compile(b.nodes)
       /\ inputs' = b.inputs /\ uploads' = b.uploads
       /\ staged' = Staged(f, b.uploads)
       /\ UNCHANGED signature

\* ensure_graph: the graph of the frame before serves again if nothing it was
\* built from has changed.
ExportFrame(f) ==
    LET b == Built(f, ExportClip)
        kept == status # "none" /\ signature = Signature(f)
    IN /\ builder = "export"
       /\ Scheduled(f)
       /\ IF kept THEN UNCHANGED <<graphVars, inputs, uploads>>
          ELSE Compile(b.nodes) /\ inputs' = b.inputs /\ uploads' = b.uploads
       /\ signature' = Signature(f)
       /\ staged' = Staged(f, uploads')

CustomGraph ==
    /\ builder = "custom" /\ status = "none"
    /\ \E g \in Shapes : Compile(g)
    /\ scheduled' = TRUE
    /\ UNCHANGED <<builder, frame, signature, inputs, uploads, staged, frames>>

\* resolve_resources panics when a frame leaves an import unbound, the
\* composite when there are clips and no texture.
Bound == UNION {ToSet(InteropPlanes(i)) : i \in {j \in DOMAIN frame : frame[j].interop}}
Panics ==
    builder # "custom" /\ (~(Imported(graph) \subseteq Bound) \/ (inputs = <<>> /\ frame # <<>>))

Begin == scheduled /\ ~Panics /\ BeginFrame /\ UNCHANGED frameVars

Panic ==
    /\ scheduled /\ Panics /\ status = "ready"
    /\ status' = "panicked"
    /\ UNCHANGED <<graph, done, content, seen, frameVars>>

RecordNode(n) == Record(n) /\ UNCHANGED frameVars

End ==
    /\ EndFrame
    /\ scheduled' = FALSE
    /\ UNCHANGED <<builder, frame, signature, inputs, uploads, staged, frames>>

Init ==
    /\ GraphInit
    /\ builder \in {"preview", "export", "custom"}
    /\ frame = <<>> /\ scheduled = FALSE /\ signature = <<>>
    /\ inputs = <<>> /\ uploads = <<>> /\ staged = <<>> /\ frames = 0

Next ==
    \/ \E f \in Frames : PreviewFrame(f) \/ ExportFrame(f)
    \/ CustomGraph
    \/ Begin
    \/ \E n \in DOMAIN graph : RecordNode(n)
    \/ End
    \/ Panic

Spec == Init /\ [][Next]_vars

-----------------------------------------------------------------------------
(* Properties *)

\* What node n read from resource r: what a node before it made of it, or
\* the planes that the frame binds.
Made[n \in DOMAIN graph] ==
    LET ReadFrom(r) ==
            IF seen[n][r] # 0 THEN Made[seen[n][r]]
            ELSE IF r \in Bound
            THEN Decoded(frame[CHOOSE i \in DOMAIN frame : r \in ToSet(InteropPlanes(i))], frames)
            ELSE Garbage
        node == graph[n]
        Through(picture) ==
            IF node.param = 1 THEN picture
            ELSE [picture EXCEPT !.through = Append(@, <<node.does, node.param>>)]
    IN CASE node.does = "upload" -> staged[n]
         [] node.does \in {"still", "text"} -> [of |-> node.param, at |-> 0, through |-> <<>>]
         [] node.does \in {"sdrToRgb", "hdrToRgb"} ->
              IF ReadFrom(node.from[1]) = ReadFrom(node.from[2])
              THEN Through(ReadFrom(node.from[1])) ELSE Garbage
         [] OTHER -> Through(ReadFrom(node.from[1]))

\* Layer i of the composite samples texture i; those beyond the last are
\* padded with the first.
Layer(i) ==
    LET composite == Len(graph)
        r == IF i <= Len(inputs) THEN inputs[i] ELSE inputs[1]
    IN Made[seen[composite][r]]

\* The passes of the effects that are on, after those in `before`.
Effective(clip, before) ==
    FoldLeft(LAMBDA acc, p : IF clip.effects[EffectOf(p)] >= 2
                             THEN Append(acc, <<p, clip.effects[EffectOf(p)]>>) ELSE acc,
             before, Passes)

\* What the timeline says of a clip.
Wanted(clip) ==
    LET mapped == CASE clip.kind = "video" ->
                         <<<<Conversion(clip), 0>>>>
                           \o (IF clip.colour = "hdr" \/ (builder = "export" /\ MapsStills)
                               THEN <<<<"tone", 0>>>> ELSE <<>>)
                    [] clip.kind = "still" ->
                         (IF builder = "export" /\ MapsStills THEN <<<<"tone", 0>>>> ELSE <<>>)
                    [] OTHER -> <<>>
    IN [Decoded(clip, frames) EXCEPT !.through = Effective(clip, mapped)]

\* Every layer of a finished frame shows its clip as it is in this frame, with
\* the effects it has now, in the preview as in the export, whether the graph
\* is new or kept, whatever the order of its nodes. Not so from the first
\* still on that did not load (the textures move up by one, and with none left
\* the composite panics), and for text in an export.
FrameShowsTimeline ==
    /\ status = "panicked" =>
         \A i \in DOMAIN frame : frame[i].kind = "still" /\ frame[i].src \in Missing
    /\ (status = "running" /\ builder # "custom" /\ done = DOMAIN graph) =>
         \A i \in DOMAIN frame :
            \/ \E j \in 1..i : frame[j].kind = "still" /\ frame[j].src \in Missing
            \/ builder = "export" /\ frame[i].kind = "text"
            \/ Layer(i) = Wanted(frame[i])
=============================================================================
