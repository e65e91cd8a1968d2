------------------------------ MODULE MCNvenc -------------------------------
(***************************************************************************)
(* Small instances of NvencPipeline for TLC: the sets of calls that may    *)
(* fail.                                                                   *)
(***************************************************************************)
EXTENDS NvencPipeline

MuxFault == {"mux"}
SessionFaults == FaultKinds \ {"mux", "stale"}
=============================================================================
