---------------------------- MODULE MCSmsEvents ----------------------------
(* The instance of SmsEvents that TLC checks: messages and slots are        *)
(* interchangeable.                                                         *)
EXTENDS SmsEvents, TLC

Symmetry == Permutations(Messages) \cup Permutations(Indexes)
=============================================================================
