------------------------------ MODULE SmsInbox ------------------------------
(***************************************************************************)
(* The router's SMS storage as the integration meets it: inboxes that      *)
(* change at any moment, and the listings it asks for.  A message has a    *)
(* slot of its inbox (`index`), reusable once the message is deleted, and  *)
(* the time stamp its service centre gave it (`date`), in any order.       *)
(***************************************************************************)
EXTENDS Naturals, Sequences, FiniteSets, SequencesExt, Functions

CONSTANTS
  Messages,
  Boxes,     \* the inboxes: of the device ("local"), of the SIM ("sim")
  Indexes,   \* the slots of an inbox
  Dates      \* time stamps

ASSUME InboxAssumption ==
  /\ IsFiniteSet(Messages)
  /\ "local" \in Boxes /\ Boxes \subseteq {"local", "sim"}
  /\ Dates \subseteq Nat \ {0}

VARIABLES
  box,          \* box[m]: the inbox that holds m, "away" or "gone"
  index, date,  \* index[m], date[m]: 0 until m arrives
  unread        \* the messages not marked as read

router == <<box, index, date, unread>>

RouterTypeOK ==
  /\ box \in [Messages -> Boxes \cup {"away", "gone"}]
  /\ index \in [Messages -> Indexes \cup {0}]
  /\ date \in [Messages -> Dates \cup {0}]
  /\ unread \subseteq {m \in Messages : box[m] \in Boxes}
  /\ \A m \in Messages : box[m] = "away" <=> date[m] = 0

RouterInit ==
  /\ box = [m \in Messages |-> "away"]
  /\ index = [m \in Messages |-> 0] /\ date = [m \in Messages |-> 0]
  /\ unread = {}

Inbox(b) == {m \in Messages : box[m] = b}

Arrive(m) ==
  /\ box[m] = "away"
  /\ \E b \in Boxes, i \in Indexes, d \in Dates :
       /\ \A n \in Inbox(b) : index[n] # i
       /\ box' = [box EXCEPT ![m] = b]
       /\ index' = [index EXCEPT ![m] = i]
       /\ date' = [date EXCEPT ![m] = d]
  /\ unread' = unread \cup {m}

MarkRead(m) ==
  /\ box[m] \in Boxes /\ m \in unread
  /\ unread' = unread \ {m}
  /\ UNCHANGED <<box, index, date>>

(* The service `delete_sms`, or the router's own pages.                    *)
DeleteSms(m) ==
  /\ box[m] \in Boxes
  /\ box' = [box EXCEPT ![m] = "gone"]
  /\ unread' = unread \ {m}
  /\ UNCHANGED <<index, date>>

(* `get_sms_list`: unread_preferred, then the newest date first; the first *)
(* n entries, in any order where those two say nothing.                    *)
ListedBefore(m, n) ==
  \/ m \in unread /\ n \notin unread
  \/ (m \in unread <=> n \in unread) /\ date[m] > date[n]

Listings(b, n) ==
  {SubSeq(q, 1, Min({n, Len(q)})) : q \in
     {s \in SetToSeqs(Inbox(b)) :
        \A i, j \in DOMAIN s : i < j => ~ListedBefore(s[j], s[i])}}
=============================================================================
