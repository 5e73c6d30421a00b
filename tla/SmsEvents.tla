----------------------------- MODULE SmsEvents -----------------------------
(***************************************************************************)
(* The events of `_check_new_sms` in coordinator.py.  A poll asks for the  *)
(* counters, then for the list of one inbox, and checks that list before   *)
(* another poll gets the API lock (ApiSession).  Nothing survives a        *)
(* restart of Home Assistant: a start is Init, and what was on the router  *)
(* by then arrives before the first list.                                  *)
(***************************************************************************)
EXTENDS SmsInbox

CONSTANT PollCount  \* read_count of a poll (20)

ASSUME PollAssumption == PollCount \in Nat \ {0}

VARIABLES
  poll,         \* how far the poll is and the list it holds
  lastStamp,    \* last_sms_timestamp, 0 for None
  firedHashes,  \* fired_sms_hashes
  announced,    \* history: the events fired, in order
  seen,         \* history: what the lists checked so far held
  old,          \* history: what had arrived before the first list checked
  baseline,     \* history: the list that set lastStamp
  behind,       \* history: what arrived with a date already passed
  hidden        \* history: what some list did not show

tracking == <<lastStamp, firedHashes, announced, seen, old, baseline>>
vars     == <<router, poll, tracking, behind, hidden>>

Idle == [at |-> "idle", box |-> "none", list |-> {}]

TypeOK ==
  /\ RouterTypeOK
  /\ poll \in [at   : {"idle", "counted", "listed"},
               box  : Boxes \cup {"none"},
               list : SUBSET Messages]
  /\ lastStamp \in Dates \cup {0}
  /\ firedHashes \subseteq Indexes \X {lastStamp}
  /\ announced \in Seq(Messages)
  /\ \A s \in {seen, old, baseline, behind, hidden} : s \subseteq Messages

Init ==
  /\ RouterInit
  /\ poll = Idle
  /\ lastStamp = 0 /\ firedHashes = {}
  /\ announced = <<>> /\ seen = {} /\ old = Messages /\ baseline = {}
  /\ behind = {} /\ hidden = {}

RouterMoves ==
  /\ \E m \in Messages : Arrive(m) \/ MarkRead(m) \/ DeleteSms(m)
  /\ behind' = behind \cup
       {m \in Messages : /\ date[m] = 0 /\ date'[m] # 0
                         /\ \E n \in Messages : date[n] > date'[m]}
  /\ UNCHANGED <<poll, tracking, hidden>>

(* `sms_count`, by which the list is asked of the SIM only if the device's *)
(* own inbox is empty; a failed count leaves the device's.                 *)
CountSms ==
  /\ poll.at = "idle"
  /\ \E b \in {"local"} \cup
        (IF Inbox("local") = {} /\ Inbox("sim") # {} THEN {"sim"} ELSE {}) :
       poll' = [at |-> "counted", box |-> b, list |-> {}]
  /\ UNCHANGED <<router, tracking, behind, hidden>>

ListSms ==
  /\ poll.at = "counted"
  /\ \E q \in Listings(poll.box, PollCount) :
       /\ poll' = [poll EXCEPT !.at = "listed", !.list = ToSet(q)]
       /\ hidden' = hidden \cup ((Inbox("local") \cup Inbox("sim")) \ ToSet(q))
  /\ UNCHANGED <<router, tracking, behind>>

(* The list is refused, or the poll fails after it.                        *)
PollFails ==
  /\ poll.at # "idle"
  /\ poll' = Idle
  /\ UNCHANGED <<router, tracking, behind, hidden>>

Hash(m) == <<index[m], date[m]>>

IsNewBySecond(m) == date[m] > lastStamp         \* mutant: one event a second
IsNewOrEqual(m) == date[m] >= lastStamp         \* mutant: no hashes
IsNew(m) ==
  \/ date[m] > lastStamp
  \/ date[m] = lastStamp /\ Hash(m) \notin firedHashes

Batches(list) ==
  {s \in SetToSeqs({m \in list : IsNew(m)}) :
     \A i, j \in DOMAIN s : i < j => date[s[i]] <= date[s[j]]}

(* The loop that fires a batch, by what it leaves: the last stamp is the   *)
(* newest, and a newer stamp than before starts a new set of hashes.       *)
HashesPileUp(batch) ==                          \* mutant: the set is never reset
  firedHashes \cup {Hash(m) : m \in ToSet(batch)}
Hashes(batch) ==
  LET stamp == date[Last(batch)] IN
    (IF stamp > lastStamp THEN {} ELSE firedHashes)
      \cup {Hash(m) : m \in {n \in ToSet(batch) : date[n] = stamp}}

Fire(batch) ==
  /\ announced' = announced \o batch
  /\ lastStamp' = date[Last(batch)]
  /\ firedHashes' = Hashes(batch)

(* `_check_new_sms`: the first list that holds anything is the baseline.   *)
SetBaseline(list) ==
  /\ \E m \in list : /\ \A n \in list : date[n] <= date[m]
                     /\ lastStamp' = date[m]
  /\ firedHashes' = {Hash(m) : m \in {n \in list : date[n] = lastStamp'}}
  /\ baseline' = list
  /\ UNCHANGED announced

FireNew(list) ==
  /\ \E batch \in Batches(list) :
       \/ batch = <<>> /\ UNCHANGED <<lastStamp, firedHashes, announced>>
       \/ batch # <<>> /\ Fire(batch)
  /\ UNCHANGED baseline

CheckNewSms ==
  /\ poll.at = "listed"
  /\ LET list == poll.list IN
       /\ \/ list = {} /\ UNCHANGED <<lastStamp, firedHashes, announced, baseline>>
          \/ list # {} /\ lastStamp = 0 /\ SetBaseline(list)
          \/ list # {} /\ lastStamp # 0 /\ FireNew(list)
       /\ seen' = seen \cup list
  /\ old' = old \ {m \in Messages : box[m] = "away"}
  /\ poll' = Idle
  /\ UNCHANGED <<router, behind, hidden>>

Next ==
  \/ RouterMoves
  \/ CountSms \/ ListSms \/ PollFails \/ CheckNewSms

Spec == Init /\ [][Next]_vars

-----------------------------------------------------------------------------
(* Safety properties.                                                      *)

(* The events are those of SmsDelivery: each message at most once, in the  *)
(* order of their dates and none older than one known, whatever arrives    *)
(* late, moves out of the list's window or is deleted between two polls.   *)
Delivery == INSTANCE SmsDelivery WITH mark <- lastStamp
Delivers == Delivery!Spec

(* The reused slot of the same second: the one hash for two messages.      *)
Clash(m) == \E n \in Messages \ {m} : Hash(n) = Hash(m)

(* No message is lost between two polls: one that a list has shown was     *)
(* announced, unless it was there before the first list, was part of the   *)
(* baseline, came with a date already passed, was hidden from an earlier   *)
(* list (beyond its end, or in the other inbox), or shares its slot and    *)
(* second with another.                                                    *)
NothingSkipped == \A m \in seen :
  \/ m \in ToSet(announced) \cup baseline \cup old \cup behind \cup hidden
  \/ Clash(m)
=============================================================================
