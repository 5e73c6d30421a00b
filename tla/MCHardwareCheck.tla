-------------------------- MODULE MCHardwareCheck --------------------------
(***************************************************************************)
(* TLC's instance of HardwareCheck.  The guest network is found off: the   *)
(* script only negates what it reads, and nothing else depends on it.      *)
(***************************************************************************)
EXTENDS HardwareCheck

MCStart == {f \in AllSettings : f["guest"] = "off"}
=============================================================================
