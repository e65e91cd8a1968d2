------------------------------ MODULE MCExport ------------------------------
(***************************************************************************)
(* Small instances of ExportPipeline for TLC: the sets of calls that may   *)
(* fail.                                                                   *)
(***************************************************************************)
EXTENDS ExportPipeline

ReportedFaults == FaultKinds \ {"stale", "drain"}
OneEncodeFault == {"encode"}
=============================================================================
