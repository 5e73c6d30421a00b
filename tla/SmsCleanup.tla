----------------------------- MODULE SmsCleanup -----------------------------
(***************************************************************************)
(* The service `delete_all_sms` of __init__.py: one listing of the inbox,  *)
(* then one deletion at a time by slot, while messages arrive, are read    *)
(* and are deleted by others.                                              *)
(***************************************************************************)
EXTENDS SmsInbox

CONSTANTS
  DeleteCount,  \* read_count of the service (50)
  MaxKeep       \* bound on keep_last

ASSUME CleanupAssumption == DeleteCount \in Nat \ {0} /\ MaxKeep \in Nat

VARIABLES
  todo,     \* sequence: the messages listed and still to be deleted
  meddled   \* history: others deleted since the listing

cleanupVars == <<router, todo, meddled>>

CleanupInit == RouterInit /\ todo = <<>> /\ meddled = FALSE

OthersMove ==
  /\ \/ /\ \E m \in Messages : Arrive(m) \/ MarkRead(m)
        /\ UNCHANGED meddled
     \/ /\ \E m \in Messages : DeleteSms(m)
        /\ meddled' = (todo # <<>>)
  /\ UNCHANGED todo

SkippedOneLess(q, keep) ==                      \* mutant: off by one
  IF keep > 0 THEN SubSeq(q, keep, Len(q)) ELSE q
Skipped(q, keep) == IF keep > 0 THEN SubSeq(q, keep + 1, Len(q)) ELSE q

DeleteAllLists(keep) ==
  /\ todo = <<>>
  /\ \E q \in Listings("local", DeleteCount) : todo' = Skipped(q, keep)
  /\ UNCHANGED <<router, meddled>>

(* The router empties the slot, whoever is in it by now, or does not: a    *)
(* deletion that its deadline gives up may or may not have been applied,   *)
(* and counts as done (ApiSession).  One that raises ends the service.     *)
Empties(i) ==
  box' = [m \in Messages |->
            IF box[m] = "local" /\ index[m] = i THEN "gone" ELSE box[m]]

DeleteAllStepsTwice ==                          \* mutant: a slot twice
  todo' \in {todo, Tail(todo), <<>>}
DeleteAllSteps == todo' \in {Tail(todo), <<>>}

DeleteAllDeletes ==
  /\ todo # <<>>
  /\ DeleteAllSteps
  /\ Empties(index[Head(todo)]) \/ UNCHANGED box
  /\ meddled' = (meddled /\ todo' # <<>>)
  /\ unread' = {m \in unread : box'[m] # "gone"}
  /\ UNCHANGED <<index, date>>

CleanupNext ==
  \/ OthersMove
  \/ \E keep \in 0..MaxKeep : DeleteAllLists(keep)
  \/ DeleteAllDeletes

CleanupSpec == CleanupInit /\ [][CleanupNext]_cleanupVars

-----------------------------------------------------------------------------
(* Safety properties.                                                      *)

(* The bulk deletion removes the messages it listed and none that took     *)
(* over a slot meanwhile, as long as nobody else deletes.                  *)
OnlyListedRemoved ==
  [][DeleteAllDeletes /\ ~meddled
       => \A m \in Messages : box'[m] # box[m] => m = Head(todo)]_cleanupVars

Newer(m) == {n \in Inbox("local") \ {m} : date[n] >= date[m]}

(* In an inbox that was read, keep_last spares the newest messages.        *)
NewestReadKept ==
  [][\A keep \in 0..MaxKeep :
       DeleteAllLists(keep) /\ Inbox("local") \cap unread = {}
         => \A m \in ToSet(todo') : Cardinality(Newer(m)) >= keep]_cleanupVars
=============================================================================
