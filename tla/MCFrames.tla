------------------------------ MODULE MCFrames -------------------------------
(***************************************************************************)
(* A small instance of FrameGraph for TLC: frames of up to three clips, and   *)
(* every graph of up to three nodes over two resources.                     *)
(***************************************************************************)
EXTENDS FrameGraph

CONSTANTS film, show, png, gone, title

Off == [color |-> 0, blur |-> 0, sharpen |-> 0, vignette |-> 0, chroma |-> 0]
ClipOf(src, kind, interop, colour, effects) ==
    [src |-> src, kind |-> kind, interop |-> interop, colour |-> colour, effects |-> effects]

Plain(s) == ClipOf(s, "video", FALSE, "sdr", Off)
Decodes(s) == ClipOf(s, "video", TRUE, "sdr", Off)
Graded == ClipOf(film, "video", FALSE, "sdr", [Off EXCEPT !.color = 2, !.sharpen = 1])
Regraded == ClipOf(film, "video", FALSE, "sdr", [Off EXCEPT !.color = 3, !.blur = 2])
Bright == ClipOf(show, "video", TRUE, "hdr", [Off EXCEPT !.vignette = 2, !.chroma = 2])
Still(s) == ClipOf(s, "still", FALSE, "sdr", [Off EXCEPT !.color = 1])
Title == ClipOf(title, "text", FALSE, "sdr", Off)

MCFrameSet ==
    {<<>>, <<Plain(film), Plain(show)>>, <<Decodes(film), Plain(show)>>, <<Plain(film), Decodes(show)>>,
     <<Graded, Still(png)>>, <<Regraded>>, <<Bright, Plain(show)>>, <<Plain(show), Bright>>,
     <<Still(gone), Plain(film)>>, <<Still(gone)>>, <<Plain(film), Title>>,
     <<Decodes(film), Still(png), Bright>>, <<Plain(show), Still(gone), Graded>>}

MCNode == [reads : SUBSET {0, 2}, writes : SUBSET {0, 2}, creates : {{}}, imports : {{}},
           clash : {FALSE}]
Oddities ==
    LET plain == [reads |-> {2}, writes |-> {0}, creates |-> {}, imports |-> {}, clash |-> FALSE]
    IN {<<[plain EXCEPT !.clash = TRUE]>>, <<[plain EXCEPT !.imports = {2}]>>,
        <<[plain EXCEPT !.imports = {2}], [plain EXCEPT !.reads = {}, !.creates = {2}]>>,
        <<[plain EXCEPT !.imports = {2}, !.creates = {2}]>>}
MCShapes == UNION {[1..n -> MCNode] : n \in 0..3} \cup Oddities
=============================================================================
