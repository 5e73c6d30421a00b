---------------------------- MODULE SmsDelivery ----------------------------
(***************************************************************************)
(* What `huawei_router_5g_sms_received` promises an automation: since Home *)
(* Assistant started, an event per message at most once, oldest first, and *)
(* none for a message older than the newest one known.                     *)
(***************************************************************************)
EXTENDS Naturals, Sequences, SequencesExt, Functions

CONSTANT Messages

VARIABLES date,       \* date[m]: the time stamp of m, 0 until it arrives
          mark,       \* the newest date known, 0 before the first list
          announced   \* the messages announced since the start, in order

vars == <<date, mark, announced>>

Init ==
  /\ date = [m \in Messages |-> 0]
  /\ mark = 0
  /\ announced = <<>>

Receive(m) ==
  /\ date[m] = 0
  /\ date'[m] \in Nat \ {0}
  /\ date' = [date EXCEPT ![m] = date'[m]]
  /\ UNCHANGED <<mark, announced>>

(* The inbox found at the start is taken note of, and nobody is told.      *)
TakeNote(d) ==
  /\ mark = 0 /\ mark' = d
  /\ UNCHANGED <<date, announced>>

(* A batch: new messages only, in the order of their dates.                *)
Announce(batch) ==
  /\ mark # 0
  /\ announced' = announced \o batch
  /\ IsInjective(announced')
  /\ \A i \in DOMAIN batch :
       /\ date[batch[i]] >= mark
       /\ i > 1 => date[batch[i - 1]] <= date[batch[i]]
  /\ mark' = date[Last(batch)]
  /\ UNCHANGED date

(* A batch is what a step appends: no sequence is enumerated.              *)
Appended == SubSeq(announced', Len(announced) + 1, Len(announced'))

Next ==
  \/ \E m \in Messages : Receive(m)
  \/ TakeNote(mark')
  \/ Len(announced') > Len(announced) /\ Announce(Appended)

Spec == Init /\ [][Next]_vars
=============================================================================
