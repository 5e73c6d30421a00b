---------------------------- MODULE MCSmsCleanup ----------------------------
(* The instance of SmsCleanup that TLC checks: messages and slots are       *)
(* interchangeable.                                                         *)
EXTENDS SmsCleanup, TLC

Symmetry == Permutations(Messages) \cup Permutations(Indexes)
=============================================================================
