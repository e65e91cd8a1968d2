----------------------------- MODULE MCAutosave -----------------------------
(* The instances of Autosave that TLC checks.                              *)
EXTENDS Autosave, FiniteSets

CONSTANTS film

OneFile == {film}
NoFaults == {}
EveryFault == {"autosave", "save"}
=============================================================================
