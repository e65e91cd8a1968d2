------------------------------- MODULE MCRing -------------------------------
(***************************************************************************)
(* Small instances of AudioRing for TLC. The ring is scaled down with the  *)
(* proportions of the source: 32768 samples, a threshold of 6144, packets  *)
(* of about 2000, reads of 2048.                                           *)
(***************************************************************************)
EXTENDS AudioRing
=============================================================================
