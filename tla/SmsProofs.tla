----------------------------- MODULE SmsProofs -----------------------------
(***************************************************************************)
(* Proofs about SmsEvents and SmsCleanup, the two users of the router's    *)
(* SMS storage, for any messages, slots and dates and for lists of any     *)
(* length.                                                                 *)
(***************************************************************************)
EXTENDS SmsEvents, SmsCleanup, FiniteSetTheorems, SequenceTheorems, TLAPS

-----------------------------------------------------------------------------
(* What a listing returns.                                                 *)

LEMMA MinOfTwo ==
  ASSUME NEW a \in Nat, NEW b \in Nat
  PROVE  Min({a, b}) = IF a <= b THEN a ELSE b
<1>1. \E x \in {a, b} : \A y \in {a, b} : x <= y
  OBVIOUS
<1>2. Min({a, b}) \in {a, b} /\ \A y \in {a, b} : Min({a, b}) <= y
  BY <1>1 DEF Min
<1>3. QED
  BY <1>2

(* A listing names messages of its inbox, each once, in the order of the   *)
(* list.                                                                   *)
LEMMA ListingIs ==
  ASSUME NEW b, NEW n \in Nat, NEW q \in Listings(b, n)
  PROVE  /\ q \in Seq(Inbox(b))
         /\ \A i, j \in DOMAIN q : i # j => q[i] # q[j]
         /\ \A i, j \in DOMAIN q : i < j => ~ListedBefore(q[j], q[i])
<1>1. IsFiniteSet(Inbox(b))
  BY FS_Subset, InboxAssumption DEF Inbox
<1> DEFINE D == 1..Cardinality(Inbox(b))
<1>2. Cardinality(Inbox(b)) \in Nat
  BY <1>1, FS_CardinalityType
<1>3. PICK s \in [D -> Inbox(b)] :
        /\ \A i, j \in D : i # j => s[i] # s[j]
        /\ \A i, j \in DOMAIN s : i < j => ~ListedBefore(s[j], s[i])
        /\ q = SubSeq(s, 1, Min({n, Len(s)}))
  BY DEF Listings, SetToSeqs
<1>4. s \in Seq(Inbox(b)) /\ Len(s) = Cardinality(Inbox(b)) /\ DOMAIN s = D
  BY <1>2, <1>3
<1>5. PICK k \in Nat : k <= Len(s) /\ q = SubSeq(s, 1, k)
  BY <1>2, <1>3, <1>4, MinOfTwo
<1>6. /\ q \in Seq(Inbox(b)) /\ Len(q) = k
      /\ \A i \in 1..k : q[i] = s[i] /\ i \in D
  BY <1>2, <1>4, <1>5, SubSeqProperties
<1>7. DOMAIN q = 1..k
  BY <1>6
<1>8. \A i, j \in DOMAIN q :
        /\ i # j => q[i] # q[j]
        /\ i < j => ~ListedBefore(q[j], q[i])
  <2> SUFFICES ASSUME NEW i \in DOMAIN q, NEW j \in DOMAIN q
               PROVE  /\ i # j => q[i] # q[j]
                      /\ i < j => ~ListedBefore(q[j], q[i])
    OBVIOUS
  <2>1. i \in D /\ j \in D /\ q[i] = s[i] /\ q[j] = s[j]
    BY <1>6, <1>7
  <2>2. i # j => s[i] # s[j]
    BY <1>3, <2>1
  <2>3. i < j => ~ListedBefore(s[j], s[i])
    BY <1>3, <1>4, <2>1
  <2>4. QED
    BY <2>1, <2>2, <2>3
<1>9. QED
  BY <1>6, <1>8

(* A sequence of a finite set names each of its members once.              *)
LEMMA SequenceOfSet ==
  ASSUME NEW S, IsFiniteSet(S), NEW s \in SetToSeqs(S)
  PROVE  /\ s \in Seq(S) /\ ToSet(s) = S
         /\ \A i, j \in DOMAIN s : s[i] = s[j] => i = j
<1> DEFINE D == 1..Cardinality(S)
<1>1. Cardinality(S) \in Nat /\ Cardinality(D) = Cardinality(S)
  BY FS_CardinalityType, FS_Interval
<1>2. s \in [D -> S] /\ \A i, j \in D : i # j => s[i] # s[j]
  BY DEF SetToSeqs
<1>3. s \in Injection(D, S)
  BY <1>2 DEF Injection, IsInjective
<1>4. s \in Surjection(D, S)
  BY <1>1, <1>3, FS_Injection
<1>5. s \in Seq(S) /\ DOMAIN s = D
  BY <1>1, <1>2
<1>6. ToSet(s) = S
  BY <1>2, <1>4, <1>5 DEF ToSet, Surjection
<1>7. QED
  BY <1>2, <1>5, <1>6

-----------------------------------------------------------------------------
(* The events.                                                             *)

(* What was announced or was part of the baseline.                         *)
Known == ToSet(announced) \cup baseline

(* The messages a poll may still come to check.                            *)
Around == {m \in Messages : box[m] \in Boxes} \cup poll.list

(* A message that has arrived has a slot.                                  *)
SlotTaken == \A m \in Messages : box[m] # "away" => index[m] \in Indexes

(* What was checked had arrived, and so had what is about to be.           *)
SeenArrived ==
  /\ Known \subseteq seen
  /\ \A m \in seen \cup poll.list : box[m] # "away"

(* The stamp is the newest date checked, or nothing is known yet.          *)
StampIsNewest ==
  /\ lastStamp # 0 => \E n \in seen : date[n] = lastStamp
  /\ \A m \in Known : date[m] <= lastStamp

(* The hashes are those of the known messages of that very second.         *)
HashesAreOfStamp ==
  /\ \A m \in Known : date[m] = lastStamp => Hash(m) \in firedHashes
  /\ \A h \in firedHashes : \E n \in Known : date[n] = lastStamp /\ Hash(n) = h

(* A message older than one that was checked, or is about to be, was part  *)
(* of a list as well, unless it came late or some list hid it.             *)
NoGap(checked) == \A n \in checked, m \in Around :
  date[m] < date[n] => m \in behind \cup hidden \cup checked

EventsInv ==
  /\ TypeOK
  /\ SlotTaken /\ SeenArrived /\ IsInjective(announced)
  /\ StampIsNewest /\ HashesAreOfStamp
  /\ NoGap(seen) /\ NoGap(poll.list)
  /\ NothingSkipped

(* A message that has arrived keeps its date and its slot, and its inbox   *)
(* until it is gone.                                                       *)
LEMMA ArrivedStays ==
  ASSUME TypeOK, RouterMoves, NEW m \in Messages, box[m] # "away"
  PROVE  date'[m] = date[m] /\ index'[m] = index[m] /\ box'[m] \in {box[m], "gone"}
BY InboxAssumption DEF RouterMoves, Arrive, MarkRead, DeleteSms, TypeOK, RouterTypeOK

LEMMA DatesAreNumbers ==
  ASSUME RouterTypeOK, NEW m \in Messages
  PROVE  date[m] \in Nat
<1>1. date[m] \in Dates \cup {0}
  BY DEF RouterTypeOK
<1>2. \A d \in Dates : d \in Nat
  BY InboxAssumption
<1>3. QED
  BY <1>1, <1>2

LEMMA RouterTypes ==
  ASSUME RouterTypeOK, NEW m \in Messages, Arrive(m) \/ MarkRead(m) \/ DeleteSms(m)
  PROVE  RouterTypeOK'
BY InboxAssumption DEF Arrive, MarkRead, DeleteSms, RouterTypeOK

(* Two messages of one slot and second remain so: NothingSkipped is not    *)
(* disturbed by the router.                                                *)
LEMMA RouterKeepsClash ==
  ASSUME TypeOK, RouterMoves, NEW m \in Messages, box[m] # "away", Clash(m)
  PROVE  Clash(m)'
<1>1. PICK n \in Messages \ {m} : Hash(n) = Hash(m)
  BY DEF Clash
<1>2. box[n] # "away"
  BY <1>1 DEF Hash, TypeOK, RouterTypeOK
<1>3. Hash(n)' = Hash(n) /\ Hash(m)' = Hash(m)
  BY <1>1, <1>2, ArrivedStays DEF Hash
<1>4. QED
  BY <1>1, <1>3 DEF Clash

LEMMA EventsInitInv == Init => EventsInv
<1> SUFFICES ASSUME Init PROVE EventsInv
  OBVIOUS
<1> USE DEF Init
<1>1. ToSet(announced) = {} /\ Known = {} /\ seen = {} /\ poll.list = {}
  BY DEF ToSet, Known, Idle
<1>2. TypeOK
  <2>1. RouterTypeOK
    BY InboxAssumption DEF RouterInit, RouterTypeOK
  <2>2. poll \in [at : {"idle", "counted", "listed"}, box : Boxes \cup {"none"},
                  list : SUBSET Messages]
    BY DEF Idle
  <2>3. announced \in Seq(Messages)
    OBVIOUS
  <2>4. QED
    BY <2>1, <2>2, <2>3 DEF TypeOK
<1>3. SlotTaken /\ SeenArrived /\ StampIsNewest /\ HashesAreOfStamp
  BY <1>1 DEF RouterInit, SlotTaken, SeenArrived, StampIsNewest, HashesAreOfStamp
<1>4. NoGap(seen) /\ NoGap(poll.list) /\ NothingSkipped
  BY <1>1 DEF NoGap, NothingSkipped
<1>5. IsInjective(announced)
  BY DEF IsInjective
<1>6. QED
  BY <1>2, <1>3, <1>4, <1>5 DEF EventsInv

LEMMA RouterMovesInv ==
  ASSUME EventsInv, RouterMoves
  PROVE  EventsInv'
<1>1. TypeOK /\ UNCHANGED <<poll, tracking, hidden>>
  BY DEF EventsInv, RouterMoves
<1>2. RouterTypeOK /\ RouterTypeOK'
  BY <1>1, RouterTypes DEF RouterMoves, TypeOK
<1>3. TypeOK'
  BY <1>1, <1>2 DEF RouterMoves, TypeOK, tracking
<1>4. \A m \in seen \cup poll.list :
        m \in Messages /\ box[m] # "away" /\ box'[m] # "away"
          /\ date'[m] = date[m] /\ Hash(m)' = Hash(m)
  BY <1>1, ArrivedStays DEF EventsInv, SeenArrived, TypeOK, Hash
<1>5. Known' = Known /\ Known \subseteq seen /\ seen' = seen /\ poll' = poll
  BY <1>1 DEF EventsInv, SeenArrived, tracking, Known
<1>6. SlotTaken' /\ SeenArrived'
  <2>1. SeenArrived'
    BY <1>4, <1>5 DEF SeenArrived
  <2>2. SlotTaken'
    BY <1>2 DEF RouterMoves, Arrive, MarkRead, DeleteSms, EventsInv, RouterTypeOK, SlotTaken
  <2>3. QED
    BY <2>1, <2>2
<1>7. StampIsNewest'
  BY <1>1, <1>4, <1>5 DEF EventsInv, StampIsNewest, tracking
<1>8. HashesAreOfStamp'
  BY <1>1, <1>4, <1>5 DEF EventsInv, HashesAreOfStamp, tracking
<1>9. IsInjective(announced')
  BY <1>1 DEF EventsInv, tracking
<1>10. ASSUME NEW checked, checked \subseteq seen \cup poll.list, NoGap(checked)
       PROVE  \A n \in checked, m \in Around' :
                date'[m] < date'[n] => m \in behind' \cup hidden \cup checked
  <2> SUFFICES ASSUME NEW n \in checked, NEW m \in Around', date'[m] < date'[n]
               PROVE  m \in behind' \cup hidden \cup checked
    OBVIOUS
  <2>1. n \in Messages /\ m \in Messages /\ date'[n] = date[n] /\ behind \subseteq behind'
    BY <1>1, <1>4, <1>10, <1>5 DEF Around, RouterMoves, TypeOK
  <2>2. CASE box[m] = "away"
    <3>1. date[m] = 0 /\ m \notin poll.list
      BY <1>2, <1>4, <2>1, <2>2 DEF RouterTypeOK
    <3>2. box'[m] \in Boxes
      BY <1>5, <3>1 DEF Around
    <3>3. date'[m] # 0
      BY <1>2, <2>1, <3>2, InboxAssumption DEF RouterTypeOK
    <3>4. QED
      BY <2>1, <3>1, <3>3 DEF RouterMoves
  <2>3. CASE box[m] # "away"
    <3>1. date'[m] = date[m]
      BY <1>1, <2>1, <2>3, ArrivedStays
    <3>2. m \in Around
      BY <1>1, <1>5, <2>1, <2>3, ArrivedStays, InboxAssumption DEF Around
    <3>3. QED
      BY <1>10, <2>1, <3>1, <3>2 DEF NoGap
  <2>4. QED
    BY <2>2, <2>3
<1>11. NoGap(seen)' /\ NoGap(poll.list)'
  BY <1>1, <1>5, <1>10 DEF EventsInv, NoGap
<1>12. NothingSkipped'
  <2> SUFFICES ASSUME NEW m \in seen
               PROVE  \/ m \in ToSet(announced) \cup baseline \cup old \cup behind' \cup hidden
                      \/ Clash(m)'
    BY <1>1 DEF NothingSkipped, tracking
  <2>1. \/ m \in ToSet(announced) \cup baseline \cup old \cup behind \cup hidden
        \/ Clash(m)
    BY DEF EventsInv, NothingSkipped
  <2>2. behind \subseteq behind'
    BY DEF RouterMoves
  <2>3. QED
    BY <1>1, <1>4, <2>1, <2>2, RouterKeepsClash
<1>13. QED
  BY <1>3, <1>6, <1>7, <1>8, <1>9, <1>11, <1>12 DEF EventsInv

LEMMA CountInv ==
  ASSUME EventsInv, CountSms
  PROVE  EventsInv'
<1>1. /\ poll' \in [at : {"counted"}, box : {"local", "sim"} \cap Boxes, list : {{}}]
      /\ UNCHANGED <<router, tracking, behind, hidden>>
  BY InboxAssumption DEF CountSms, Inbox, EventsInv, TypeOK, RouterTypeOK
<1>2. QED
  BY <1>1 DEF EventsInv, TypeOK, RouterTypeOK, SlotTaken, SeenArrived, Known,
     StampIsNewest, HashesAreOfStamp, NoGap, Around, NothingSkipped, Clash, Hash, router, tracking

LEMMA ListInv ==
  ASSUME EventsInv, ListSms
  PROVE  EventsInv'
<1>1. TypeOK /\ RouterTypeOK /\ UNCHANGED <<router, tracking, behind>>
  BY DEF EventsInv, TypeOK, ListSms
<1>2. PICK q \in Listings(poll.box, PollCount) :
        /\ poll' = [poll EXCEPT !.at = "listed", !.list = ToSet(q)]
        /\ hidden' = hidden \cup ((Inbox("local") \cup Inbox("sim")) \ ToSet(q))
  BY DEF ListSms
<1>3. ToSet(q) \subseteq Inbox(poll.box)
  BY ListingIs, PollAssumption DEF ToSet
<1>4. \A m \in ToSet(q) : m \in Messages /\ box[m] \in Boxes
  BY <1>1, <1>3, InboxAssumption DEF Inbox, EventsInv, TypeOK, RouterTypeOK
<1>5. /\ poll'.list = ToSet(q)
      /\ poll' \in [at : {"listed"}, box : Boxes \cup {"none"}, list : SUBSET Messages]
  BY <1>1, <1>2, <1>4 DEF TypeOK
<1>6. hidden' \subseteq Messages /\ hidden \subseteq hidden'
  BY <1>1, <1>2 DEF TypeOK, Inbox
<1>7. TypeOK'
  BY <1>1, <1>5, <1>6 DEF TypeOK, RouterTypeOK, router, tracking
<1>8. SlotTaken' /\ SeenArrived'
  BY <1>1, <1>4, <1>5, InboxAssumption
     DEF EventsInv, SlotTaken, SeenArrived, Known, router, tracking
<1>9. StampIsNewest' /\ HashesAreOfStamp' /\ IsInjective(announced')
  BY <1>1 DEF EventsInv, StampIsNewest, HashesAreOfStamp, Known, Hash, router, tracking
<1>10. Around' \subseteq {m \in Messages : box[m] \in Boxes}
  BY <1>1, <1>4, <1>5 DEF Around, router
<1>11. NoGap(seen)'
  BY <1>1, <1>6, <1>10 DEF EventsInv, NoGap, Around, router, tracking
<1>12. NoGap(poll.list)'
  <2>1. \A m \in Around' : m \in hidden' \cup poll'.list
    BY <1>2, <1>5, <1>10, InboxAssumption DEF Inbox
  <2>2. QED
    BY <2>1 DEF NoGap
<1>13. NothingSkipped'
  BY <1>1, <1>6 DEF EventsInv, NothingSkipped, Clash, Hash, router, tracking
<1>14. QED
  BY <1>7, <1>8, <1>9, <1>11, <1>12, <1>13 DEF EventsInv

LEMMA PollFailsInv ==
  ASSUME EventsInv, PollFails
  PROVE  EventsInv'
<1>1. poll' = Idle /\ poll'.list = {} /\ UNCHANGED <<router, tracking, behind, hidden>>
  BY DEF PollFails, Idle
<1>2. TypeOK'
  BY <1>1 DEF EventsInv, TypeOK, RouterTypeOK, Idle, router, tracking
<1>3. QED
  BY <1>1, <1>2 DEF EventsInv, SlotTaken, SeenArrived, Known, StampIsNewest,
     HashesAreOfStamp, NoGap, Around, NothingSkipped, Clash, Hash, router, tracking

(* The batch of a list: its new messages, each once, the oldest first.     *)
LEMMA BatchIs ==
  ASSUME TypeOK, NEW list \in SUBSET Messages, NEW batch \in Batches(list)
  PROVE  /\ batch \in Seq(list)
         /\ ToSet(batch) = {m \in list : IsNew(m)}
         /\ IsInjective(batch)
         /\ \A i, j \in DOMAIN batch : i < j => date[batch[i]] <= date[batch[j]]
         /\ batch # <<>> => /\ Last(batch) \in ToSet(batch)
                            /\ \A m \in ToSet(batch) : date[m] <= date[Last(batch)]
<1> DEFINE S == {m \in list : IsNew(m)}
<1>1. IsFiniteSet(S)
  BY FS_Subset, InboxAssumption
<1>2. batch \in SetToSeqs(S) /\ \A i, j \in DOMAIN batch : i < j => date[batch[i]] <= date[batch[j]]
  BY DEF Batches
<1>3. batch \in Seq(S) /\ ToSet(batch) = S /\ IsInjective(batch)
  BY <1>1, <1>2, SequenceOfSet DEF IsInjective
<1>4. batch \in Seq(list)
  BY <1>3
<1>5. ASSUME batch # <<>>
      PROVE  Last(batch) \in ToSet(batch) /\ \A m \in ToSet(batch) : date[m] <= date[Last(batch)]
  <2>1. Len(batch) \in DOMAIN batch /\ DOMAIN batch = 1..Len(batch) /\ Len(batch) \in Nat
    BY <1>4, <1>5
  <2>2. Last(batch) \in ToSet(batch)
    BY <2>1 DEF Last, ToSet
  <2>3. ASSUME NEW i \in DOMAIN batch PROVE date[batch[i]] <= date[Last(batch)]
    <3>1. batch[i] \in Messages
      BY <1>3
    <3>2. date[batch[i]] \in Nat
      BY <3>1, DatesAreNumbers DEF TypeOK
    <3>3. QED
      BY <1>2, <2>1, <3>2 DEF Last
  <2>4. QED
    BY <2>2, <2>3 DEF ToSet
<1>6. QED
  BY <1>2, <1>3, <1>4, <1>5

(* What the check of a list leaves: the same in each of its branches.      *)
Checked(list) ==
  /\ lastStamp' \in Dates \cup {0} /\ firedHashes' \subseteq Indexes \X {lastStamp'}
  /\ announced' \in Seq(Messages) /\ IsInjective(announced')
  /\ Known \subseteq Known' /\ Known' \subseteq Known \cup list /\ baseline' \subseteq Messages
  /\ lastStamp' # 0 => \E n \in seen \cup list : date[n] = lastStamp'
  /\ \A m \in Known' : date[m] <= lastStamp'
  /\ \A m \in Known' : date[m] = lastStamp' => Hash(m) \in firedHashes'
  /\ \A h \in firedHashes' : \E n \in Known' : date[n] = lastStamp' /\ Hash(n) = h
  /\ \A m \in list : \/ m \in Known'
                     \/ \E n \in Known : Hash(n) = Hash(m)
                     \/ lastStamp # 0 /\ date[m] < lastStamp

LEMMA BaselineChecked ==
  ASSUME EventsInv, NEW list, list = poll.list, lastStamp = 0, SetBaseline(list)
  PROVE  Checked(list)
<1>1. \A m \in seen \cup list :
        m \in Messages /\ date[m] \in Dates /\ Hash(m) \in Indexes \X {date[m]}
  BY DEF EventsInv, TypeOK, RouterTypeOK, SlotTaken, SeenArrived, Hash
<1>2. Known = {} /\ announced = <<>>
  <2>1. Known = {}
    <3>1. \A m \in Known : date[m] \in Dates /\ date[m] <= 0
      BY <1>1 DEF EventsInv, SeenArrived, StampIsNewest
    <3>2. \A d \in Dates : ~(d <= 0)
      BY InboxAssumption
    <3>3. QED
      BY <3>1, <3>2
  <2>2. announced \in Seq(Messages)
    BY DEF EventsInv, TypeOK
  <2>3. announced = <<>>
    <3>1. ToSet(announced) = {}
      BY <2>1 DEF Known
    <3>2. DOMAIN announced = {}
      BY <3>1 DEF ToSet
    <3>3. QED
      BY <2>2, <3>2
  <2>4. QED
    BY <2>1, <2>3
<1>3. PICK m \in list : lastStamp' = date[m] /\ \A n \in list : date[n] <= date[m]
  BY DEF SetBaseline
<1>4. /\ firedHashes' = {Hash(n) : n \in {k \in list : date[k] = lastStamp'}}
      /\ announced' = <<>> /\ baseline' = list
  BY <1>2 DEF SetBaseline
<1>5. Known' = list
  BY <1>4 DEF Known, ToSet
<1>6. announced' \in Seq(Messages) /\ IsInjective(announced')
  BY <1>4 DEF IsInjective
<1>7. lastStamp' \in Dates \cup {0} /\ firedHashes' \subseteq Indexes \X {lastStamp'}
  BY <1>1, <1>3, <1>4
<1>8. baseline' \subseteq Messages
  BY <1>1, <1>4
<1>9. QED
  BY <1>2, <1>3, <1>4, <1>5, <1>6, <1>7, <1>8 DEF Checked

(* A message whose event was fired is not new, so no batch repeats one.    *)
LEMMA KnownIsNotNew ==
  ASSUME EventsInv, NEW m \in Known
  PROVE  ~IsNew(m)
<1>1. date[m] <= lastStamp /\ (date[m] = lastStamp => Hash(m) \in firedHashes)
  BY DEF EventsInv, StampIsNewest, HashesAreOfStamp
<1>2. date[m] \in Nat /\ lastStamp \in Nat
  <2>1. m \in Messages
    BY DEF EventsInv, TypeOK, SeenArrived
  <2>2. lastStamp \in Dates \cup {0}
    BY DEF EventsInv, TypeOK
  <2>3. QED
    BY <2>1, <2>2, DatesAreNumbers, InboxAssumption DEF EventsInv, TypeOK
<1>3. QED
  BY <1>1, <1>2 DEF IsNew

LEMMA AnnouncedBatch ==
  ASSUME NEW s \in Seq(Messages), NEW t \in Seq(Messages),
         IsInjective(s), IsInjective(t), ToSet(s) \cap ToSet(t) = {}
  PROVE  /\ s \o t \in Seq(Messages) /\ IsInjective(s \o t)
         /\ ToSet(s \o t) = ToSet(s) \cup ToSet(t)
<1>1. /\ s \o t \in Seq(Messages) /\ DOMAIN (s \o t) = 1 .. Len(s) + Len(t)
      /\ \A i \in 1 .. Len(s) + Len(t) :
           (s \o t)[i] = IF i <= Len(s) THEN s[i] ELSE t[i - Len(s)]
  BY ConcatProperties
<1>2. \A i \in 1 .. Len(s) + Len(t) :
        IF i <= Len(s) THEN i \in DOMAIN s ELSE i - Len(s) \in DOMAIN t
  OBVIOUS
<1>3. \A i \in DOMAIN s : i \in 1 .. Len(s) + Len(t) /\ (s \o t)[i] = s[i]
  BY <1>1
<1>4. \A i \in DOMAIN t :
        Len(s) + i \in 1 .. Len(s) + Len(t) /\ (s \o t)[Len(s) + i] = t[i]
  BY <1>1
<1>5. ToSet(s \o t) = ToSet(s) \cup ToSet(t)
  <2>1. ASSUME NEW i \in DOMAIN (s \o t) PROVE (s \o t)[i] \in ToSet(s) \cup ToSet(t)
    BY <1>1, <1>2, <2>1 DEF ToSet
  <2>2. \A m \in ToSet(s) : m \in ToSet(s \o t)
    BY <1>1, <1>3 DEF ToSet
  <2>3. \A m \in ToSet(t) : m \in ToSet(s \o t)
    <3>1. ASSUME NEW i \in DOMAIN t PROVE t[i] \in ToSet(s \o t)
      <4>1. Len(s) + i \in DOMAIN (s \o t)
        BY <1>1, <1>4
      <4>2. QED
        BY <1>4, <4>1 DEF ToSet
    <3>2. QED
      BY <3>1 DEF ToSet
  <2>4. \A m \in ToSet(s \o t) : m \in ToSet(s) \cup ToSet(t)
    BY <2>1 DEF ToSet
  <2>5. QED
    BY <2>2, <2>3, <2>4
<1>6. ASSUME NEW i \in DOMAIN (s \o t), NEW j \in DOMAIN (s \o t), (s \o t)[i] = (s \o t)[j]
      PROVE  i = j
  <2>1. i \in 1 .. Len(s) + Len(t) /\ j \in 1 .. Len(s) + Len(t)
    BY <1>1
  <2>2. CASE i <= Len(s) /\ j <= Len(s)
    BY <1>1, <1>2, <1>6, <2>1, <2>2 DEF IsInjective
  <2>3. CASE ~(i <= Len(s)) /\ ~(j <= Len(s))
    <3>1. t[i - Len(s)] = t[j - Len(s)] /\ i - Len(s) \in DOMAIN t /\ j - Len(s) \in DOMAIN t
      BY <1>1, <1>2, <1>6, <2>1, <2>3
    <3>2. i - Len(s) = j - Len(s)
      BY <3>1 DEF IsInjective
    <3>3. QED
      BY <2>1, <3>2
  <2>4. ASSUME NEW k \in DOMAIN s, NEW l \in DOMAIN t PROVE s[k] # t[l]
    BY DEF ToSet
  <2>5. CASE i <= Len(s) /\ ~(j <= Len(s))
    BY <1>1, <1>2, <1>6, <2>1, <2>4, <2>5
  <2>6. CASE ~(i <= Len(s)) /\ j <= Len(s)
    BY <1>1, <1>2, <1>6, <2>1, <2>4, <2>6
  <2>7. QED
    BY <2>2, <2>3, <2>5, <2>6
<1>7. QED
  BY <1>1, <1>5, <1>6 DEF IsInjective

LEMMA FiredChecked ==
  ASSUME EventsInv, NEW list, list = poll.list, lastStamp # 0, FireNew(list)
  PROVE  Checked(list)
<1>1. /\ list \subseteq Messages /\ lastStamp \in Nat \ {0}
      /\ \A m \in seen \cup list :
           m \in Messages /\ date[m] \in Dates /\ date[m] \in Nat
             /\ Hash(m) \in Indexes \X {date[m]}
  BY InboxAssumption DEF EventsInv, TypeOK, RouterTypeOK, SlotTaken, SeenArrived, Hash
<1>2. PICK batch \in Batches(list) :
        \/ batch = <<>> /\ UNCHANGED <<lastStamp, firedHashes, announced>>
        \/ batch # <<>> /\ Fire(batch)
  BY DEF FireNew
<1>3. baseline' = baseline
  BY DEF FireNew
<1>4. /\ batch \in Seq(list) /\ ToSet(batch) = {m \in list : IsNew(m)} /\ IsInjective(batch)
      /\ batch # <<>> => /\ Last(batch) \in ToSet(batch)
                         /\ \A m \in ToSet(batch) : date[m] <= date[Last(batch)]
  BY <1>1, BatchIs DEF EventsInv
<1>5. ASSUME NEW m \in list, ~IsNew(m)
      PROVE  (\E n \in Known : Hash(n) = Hash(m)) \/ date[m] < lastStamp
  BY <1>1, <1>5 DEF IsNew, EventsInv, HashesAreOfStamp
<1>6. Known \subseteq seen /\ \A m \in Known : date[m] <= lastStamp
  BY DEF EventsInv, SeenArrived, StampIsNewest
<1>7. CASE batch = <<>>
  <2>1. UNCHANGED <<lastStamp, firedHashes, announced>> /\ Known' = Known
    BY <1>2, <1>3, <1>7 DEF Known, Fire
  <2>2. \A m \in list : ~IsNew(m)
    BY <1>4, <1>7 DEF ToSet
  <2>3. QED
    BY <1>1, <1>3, <1>5, <2>1, <2>2
       DEF Checked, EventsInv, TypeOK, StampIsNewest, HashesAreOfStamp
<1>8. CASE batch # <<>>
  <2> DEFINE stamp == date[Last(batch)]
  <2>1. /\ announced' = announced \o batch /\ lastStamp' = stamp
        /\ firedHashes' = (IF stamp > lastStamp THEN {} ELSE firedHashes)
                            \cup {Hash(m) : m \in {n \in ToSet(batch) : date[n] = stamp}}
    BY <1>2, <1>8 DEF Fire, Hashes
  <2>2. /\ Last(batch) \in ToSet(batch) /\ Last(batch) \in list
        /\ \A m \in ToSet(batch) : date[m] <= stamp /\ date[m] >= lastStamp
        /\ stamp \in Dates /\ stamp \in Nat /\ stamp >= lastStamp
    BY <1>1, <1>4, <1>8 DEF IsNew
  <2>3. /\ announced' \in Seq(Messages) /\ IsInjective(announced')
        /\ ToSet(announced') = ToSet(announced) \cup ToSet(batch)
    <3>1. batch \in Seq(Messages) /\ announced \in Seq(Messages) /\ IsInjective(announced)
      BY <1>1, <1>4 DEF EventsInv, TypeOK
    <3>2. ToSet(announced) \cap ToSet(batch) = {}
      BY <1>4, KnownIsNotNew DEF Known
    <3>3. QED
      BY <1>4, <2>1, <3>1, <3>2, AnnouncedBatch
  <2>4. Known' = Known \cup ToSet(batch) /\ ToSet(batch) \subseteq list
    BY <1>3, <1>4, <2>3 DEF Known
  <2>5. firedHashes' \subseteq Indexes \X {lastStamp'}
    <3>1. firedHashes \subseteq Indexes \X {lastStamp}
      BY DEF EventsInv, TypeOK
    <3>2. \A m \in ToSet(batch) : Hash(m) \in Indexes \X {date[m]}
      BY <1>1, <2>4
    <3>3. CASE stamp > lastStamp
      BY <2>1, <3>2, <3>3
    <3>4. CASE ~(stamp > lastStamp)
      <4>1. stamp = lastStamp
        BY <1>1, <2>2, <3>4
      <4>2. QED
        BY <2>1, <3>1, <3>2, <3>4, <4>1
    <3>5. QED
      BY <3>3, <3>4
  <2>6. \A m \in Known' : date[m] <= lastStamp'
    BY <1>1, <1>6, <2>1, <2>2, <2>4
  <2>7. ASSUME NEW m \in Known', date[m] = lastStamp'
        PROVE  Hash(m) \in firedHashes'
    <3>1. CASE m \in ToSet(batch)
      BY <2>1, <2>7, <3>1
    <3>2. CASE m \in Known
      <4>1. date[m] <= lastStamp /\ (date[m] = lastStamp => Hash(m) \in firedHashes)
        BY <1>6, <3>2 DEF EventsInv, HashesAreOfStamp
      <4>2. stamp = lastStamp /\ ~(stamp > lastStamp)
        BY <1>1, <2>1, <2>2, <2>7, <4>1
      <4>3. QED
        BY <2>1, <2>7, <4>1, <4>2
    <3>3. QED
      BY <2>4, <3>1, <3>2
  <2>8. ASSUME NEW h \in firedHashes'
        PROVE  \E n \in Known' : date[n] = lastStamp' /\ Hash(n) = h
    <3>1. CASE h \in {Hash(m) : m \in {n \in ToSet(batch) : date[n] = stamp}}
      BY <2>1, <2>4, <3>1
    <3>2. CASE h \notin {Hash(m) : m \in {n \in ToSet(batch) : date[n] = stamp}}
      <4>1. h \in firedHashes /\ stamp = lastStamp
        BY <1>1, <2>1, <2>2, <2>8, <3>2
      <4>2. QED
        BY <2>1, <2>4, <4>1 DEF EventsInv, HashesAreOfStamp
    <3>3. QED
      BY <3>1, <3>2
  <2>9. \A m \in list : \/ m \in Known'
                        \/ \E n \in Known : Hash(n) = Hash(m)
                        \/ lastStamp # 0 /\ date[m] < lastStamp
    BY <1>4, <1>5, <2>4
  <2>10. QED
    BY <1>3, <2>1, <2>2, <2>3, <2>4, <2>5, <2>6, <2>7, <2>8, <2>9
       DEF Checked, EventsInv, TypeOK
<1>9. QED
  BY <1>7, <1>8

LEMMA CheckInv ==
  ASSUME EventsInv, CheckNewSms
  PROVE  EventsInv'
<1> DEFINE list == poll.list
<1>1. /\ poll' = Idle /\ poll'.list = {} /\ seen' = seen \cup list
      /\ old' = old \ {m \in Messages : box[m] = "away"}
      /\ UNCHANGED <<router, behind, hidden>>
  BY DEF CheckNewSms, Idle
<1>2. Checked(list)
  <2>1. CASE list = {} /\ UNCHANGED <<lastStamp, firedHashes, announced, baseline>>
    BY <2>1 DEF Checked, EventsInv, TypeOK, Known, StampIsNewest, HashesAreOfStamp, Hash
  <2>2. CASE list # {} /\ lastStamp = 0 /\ SetBaseline(list)
    BY <2>2, BaselineChecked
  <2>3. CASE list # {} /\ lastStamp # 0 /\ FireNew(list)
    BY <2>3, FiredChecked
  <2>4. QED
    BY <2>1, <2>2, <2>3 DEF CheckNewSms
<1>3. TypeOK'
  BY <1>1, <1>2 DEF EventsInv, TypeOK, RouterTypeOK, Checked, Idle, router
<1>4. \A m \in Messages : /\ box'[m] = box[m] /\ date'[m] = date[m] /\ Hash(m)' = Hash(m)
  BY <1>1 DEF router, Hash
<1>5. seen \cup list \subseteq Messages /\ Known \subseteq seen /\ Known' \subseteq seen'
  BY <1>1, <1>2 DEF EventsInv, TypeOK, SeenArrived, Checked
<1>6. SlotTaken' /\ SeenArrived'
  BY <1>1, <1>4, <1>5 DEF EventsInv, SlotTaken, SeenArrived, router
<1>7. StampIsNewest' /\ HashesAreOfStamp' /\ IsInjective(announced')
  BY <1>1, <1>2, <1>4, <1>5 DEF StampIsNewest, HashesAreOfStamp, Checked, router, Hash
<1>8. Around' \subseteq Around
  BY <1>1 DEF Around, router
<1>9. NoGap(seen)' /\ NoGap(poll.list)'
  BY <1>1, <1>8 DEF EventsInv, NoGap, router
<1>10. ASSUME NEW m \in seen'
       PROVE  \/ m \in Known' \cup old' \cup behind \cup hidden
              \/ Clash(m)
  <2>1. CASE m \in seen
    <3>1. m \in Known \cup old \cup behind \cup hidden \/ Clash(m)
      BY <2>1 DEF EventsInv, NothingSkipped, Known
    <3>2. m \in old => m \in old'
      BY <1>1, <2>1 DEF EventsInv, SeenArrived
    <3>3. QED
      BY <1>2, <3>1, <3>2 DEF Checked
  <2>2. CASE m \in list /\ m \notin seen
    <3>1. \/ m \in Known'
          \/ \E n \in Known : Hash(n) = Hash(m)
          \/ lastStamp # 0 /\ date[m] < lastStamp
      BY <1>2, <2>2 DEF Checked
    <3>2. ASSUME NEW n \in Known, Hash(n) = Hash(m) PROVE Clash(m)
      BY <1>5, <2>2, <3>2 DEF Clash
    <3>3. ASSUME lastStamp # 0, date[m] < lastStamp PROVE m \in behind \cup hidden
      <4>1. PICK n \in seen : date[n] = lastStamp
        BY <3>3 DEF EventsInv, StampIsNewest
      <4>2. m \in Around
        BY <1>5, <2>2 DEF Around
      <4>3. QED
        BY <2>2, <3>3, <4>1, <4>2 DEF EventsInv, NoGap
    <3>4. QED
      BY <3>1, <3>2, <3>3
  <2>3. QED
    BY <1>1, <2>1, <2>2
<1>11. \A m \in seen' : Clash(m) => Clash(m)'
  BY <1>1, <1>4, <1>5 DEF Clash
<1>12. NothingSkipped'
  BY <1>1, <1>10, <1>11 DEF NothingSkipped, Known
<1>13. QED
  BY <1>3, <1>6, <1>7, <1>9, <1>12 DEF EventsInv

LEMMA EventsNextInv == EventsInv /\ [Next]_vars => EventsInv'
<1> SUFFICES ASSUME EventsInv, [Next]_vars PROVE EventsInv'
  OBVIOUS
<1>1. CASE UNCHANGED vars
  BY <1>1 DEF vars, router, tracking, EventsInv, TypeOK, RouterTypeOK, SlotTaken,
     SeenArrived, Known, StampIsNewest, HashesAreOfStamp, NoGap, Around,
     NothingSkipped, Clash, Hash
<1>2. QED
  BY <1>1, RouterMovesInv, CountInv, ListInv, PollFailsInv, CheckInv DEF Next

(* The types, with the hashes of one second only: those of the stamp.      *)
THEOREM EventsTypeCorrect == Spec => []TypeOK
<1>1. Spec => []EventsInv
  BY EventsInitInv, EventsNextInv, PTL DEF Spec
<1>2. EventsInv => TypeOK
  BY DEF EventsInv
<1>3. QED
  BY <1>1, <1>2, PTL

(* `_check_new_sms` compares with one stamp and the hashes of that second, *)
(* and yet no message a list shows is passed over in silence, but for the  *)
(* cases NothingSkipped names.                                             *)
THEOREM NothingSkippedHolds == Spec => []NothingSkipped
<1>1. Spec => []EventsInv
  BY EventsInitInv, EventsNextInv, PTL DEF Spec
<1>2. EventsInv => NothingSkipped
  BY DEF EventsInv
<1>3. QED
  BY <1>1, <1>2, PTL

-----------------------------------------------------------------------------
(* The refinement of SmsDelivery.                                          *)

LEMMA DeliveryInit == Init => Delivery!Init
BY DEF Init, RouterInit, Delivery!Init

(* A message received is one received; nothing else the router does shows. *)
LEMMA RouterMovesDeliver ==
  ASSUME EventsInv, RouterMoves
  PROVE  [Delivery!Next]_(Delivery!vars)
<1>1. UNCHANGED <<lastStamp, announced>>
  BY DEF RouterMoves, tracking
<1>2. PICK m \in Messages : Arrive(m) \/ MarkRead(m) \/ DeleteSms(m)
  BY DEF RouterMoves
<1>3. CASE Arrive(m)
  <2>1. PICK d \in Dates : date' = [date EXCEPT ![m] = d] /\ box[m] = "away"
    BY <1>3 DEF Arrive
  <2>2. date[m] = 0 /\ date'[m] = d /\ d \in Nat \ {0}
    BY <2>1, InboxAssumption DEF EventsInv, TypeOK, RouterTypeOK
  <2>3. Delivery!Receive(m)
    BY <1>1, <2>1, <2>2 DEF Delivery!Receive
  <2>4. QED
    BY <2>3 DEF Delivery!Next
<1>4. CASE MarkRead(m) \/ DeleteSms(m)
  BY <1>1, <1>4 DEF MarkRead, DeleteSms, Delivery!vars
<1>5. QED
  BY <1>2, <1>3, <1>4

(* What a batch appends is the batch.                                      *)
LEMMA AppendedIsBatch ==
  ASSUME NEW s \in Seq(Messages), NEW t \in Seq(Messages)
  PROVE  SubSeq(s \o t, Len(s) + 1, Len(s \o t)) = t
<1>1. /\ s \o t \in Seq(Messages) /\ Len(s \o t) = Len(s) + Len(t)
      /\ \A i \in 1 .. Len(s) + Len(t) :
           (s \o t)[i] = IF i <= Len(s) THEN s[i] ELSE t[i - Len(s)]
  BY ConcatProperties
<1> DEFINE u == SubSeq(s \o t, Len(s) + 1, Len(s) + Len(t))
<1>2. \A i \in Len(s) + 1 .. Len(s) + Len(t) : (s \o t)[i] \in Messages
  BY <1>1
<1>3. /\ u \in Seq(Messages)
      /\ Len(u) = IF Len(s) + 1 <= Len(s) + Len(t)
                    THEN Len(s) + Len(t) - (Len(s) + 1) + 1 ELSE 0
      /\ \A i \in 1 .. Len(s) + Len(t) - (Len(s) + 1) + 1 : u[i] = (s \o t)[Len(s) + 1 + i - 1]
  BY <1>2, SubSeqProperties
<1> HIDE DEF u
<1>4. Len(u) = Len(t)
  BY <1>3
<1>5. ASSUME NEW i \in 1 .. Len(t) PROVE u[i] = t[i]
  <2>1. /\ i \in 1 .. Len(s) + Len(t) - (Len(s) + 1) + 1
        /\ Len(s) + 1 + i - 1 = Len(s) + i /\ Len(s) + i - Len(s) = i
        /\ Len(s) + i \in 1 .. Len(s) + Len(t) /\ ~(Len(s) + i <= Len(s))
    OBVIOUS
  <2>2. u[i] = (s \o t)[Len(s) + i]
    BY <1>3, <2>1
  <2>3. QED
    BY <1>1, <2>1, <2>2
<1>6. u = t
  BY <1>3, <1>4, <1>5
<1>7. QED
  BY <1>1, <1>6 DEF u

LEMMA CheckDelivers ==
  ASSUME EventsInv, CheckNewSms
  PROVE  [Delivery!Next]_(Delivery!vars)
<1> DEFINE list == poll.list
<1>1. UNCHANGED date
  BY DEF CheckNewSms, router
<1>2. CASE UNCHANGED <<lastStamp, announced>>
  BY <1>1, <1>2 DEF Delivery!vars
<1>3. CASE list # {} /\ lastStamp = 0 /\ SetBaseline(list)
  BY <1>1, <1>3 DEF SetBaseline, Delivery!Next, Delivery!TakeNote
<1>4. CASE list # {} /\ lastStamp # 0 /\ FireNew(list)
  <2>1. PICK batch \in Batches(list) :
          \/ batch = <<>> /\ UNCHANGED <<lastStamp, firedHashes, announced>>
          \/ batch # <<>> /\ Fire(batch)
    BY <1>4 DEF FireNew
  <2>2. CASE batch = <<>> /\ UNCHANGED <<lastStamp, firedHashes, announced>>
    BY <1>2, <2>2
  <2>3. CASE batch # <<>> /\ Fire(batch)
    <3>1. announced' = announced \o batch /\ lastStamp' = date[Last(batch)]
      BY <2>3 DEF Fire
    <3>2. /\ list \in SUBSET Messages /\ announced \in Seq(Messages)
          /\ lastStamp \in Nat /\ \A m \in list : date[m] \in Nat
      BY DatesAreNumbers, InboxAssumption DEF EventsInv, TypeOK
    <3>3. /\ batch \in Seq(list) /\ ToSet(batch) = {m \in list : IsNew(m)}
          /\ \A i, j \in DOMAIN batch : i < j => date[batch[i]] <= date[batch[j]]
      BY <3>2, BatchIs DEF EventsInv
    <3>4. batch \in Seq(Messages)
      BY <3>2, <3>3
    <3>5. Delivery!Appended = batch
      BY <3>1, <3>2, <3>4, AppendedIsBatch DEF Delivery!Appended
    <3>6. Len(announced') > Len(announced)
      BY <2>3, <3>1, <3>2, <3>4, ConcatProperties
    <3>7. ASSUME NEW i \in DOMAIN batch
          PROVE  /\ date[batch[i]] >= lastStamp
                 /\ i > 1 => date[batch[i - 1]] <= date[batch[i]]
      <4>1. batch[i] \in list /\ IsNew(batch[i])
        BY <3>3 DEF ToSet
      <4>2. date[batch[i]] >= lastStamp
        BY <3>2, <4>1 DEF IsNew
      <4>3. i > 1 => i - 1 \in DOMAIN batch /\ i - 1 < i
        BY <3>3
      <4>4. QED
        BY <3>3, <4>2, <4>3
    <3>8. IsInjective(announced')
      BY <1>4, FiredChecked DEF Checked
    <3>9. Delivery!Announce(batch)
      BY <1>1, <1>4, <3>1, <3>7, <3>8
         DEF Delivery!Announce, IsInjective, Delivery!IsInjective, Last, Delivery!Last
    <3>10. QED
      BY <3>5, <3>6, <3>9 DEF Delivery!Next
  <2>4. QED
    BY <2>1, <2>2, <2>3
<1>5. QED
  BY <1>2, <1>3, <1>4 DEF CheckNewSms

(* The events implement SmsDelivery: each message at most once, in the     *)
(* order of the dates, whatever the router does between two polls.         *)
THEOREM EventsDeliver == Spec => Delivers
<1>1. Spec => []EventsInv
  BY EventsInitInv, EventsNextInv, PTL DEF Spec
<1>2. EventsInv /\ [Next]_vars => [Delivery!Next]_(Delivery!vars)
  <2> SUFFICES ASSUME EventsInv, [Next]_vars PROVE [Delivery!Next]_(Delivery!vars)
    OBVIOUS
  <2>1. CASE CountSms \/ ListSms \/ PollFails \/ UNCHANGED vars
    BY <2>1 DEF CountSms, ListSms, PollFails, vars, router, tracking, Delivery!vars
  <2>2. QED
    BY <2>1, RouterMovesDeliver, CheckDelivers DEF Next
<1>3. QED
  BY <1>1, <1>2, DeliveryInit, PTL DEF Spec, Delivers, Delivery!Spec

-----------------------------------------------------------------------------
(* The bulk deletion.                                                      *)

(* What is kept is the first of the list.                                  *)
LEMMA SkippedIs ==
  ASSUME NEW S, NEW q \in Seq(S), NEW keep \in Nat
  PROVE  /\ Skipped(q, keep) \in Seq(S)
         /\ \A i \in DOMAIN Skipped(q, keep) :
              keep + i \in DOMAIN q /\ Skipped(q, keep)[i] = q[keep + i]
<1>1. CASE keep = 0
  BY <1>1 DEF Skipped
<1>2. CASE keep > 0
  <2>1. \A i \in keep + 1 .. Len(q) : q[i] \in S
    BY <1>2
  <2>2. /\ SubSeq(q, keep + 1, Len(q)) \in Seq(S)
        /\ Len(SubSeq(q, keep + 1, Len(q)))
             = IF keep + 1 <= Len(q) THEN Len(q) - (keep + 1) + 1 ELSE 0
        /\ \A i \in 1 .. Len(q) - (keep + 1) + 1 :
             SubSeq(q, keep + 1, Len(q))[i] = q[keep + 1 + i - 1]
    BY <2>1, SubSeqProperties
  <2>3. QED
    BY <1>2, <2>2 DEF Skipped
<1>3. QED
  BY <1>1, <1>2

(* A slot holds one message.                                               *)
OneInSlot == \A m, n \in Messages :
  (box[m] \in Boxes /\ box[n] = box[m] /\ index[n] = index[m]) => m = n

(* What is still to be deleted is there, and named once: a slot that is    *)
(* about to be emptied has not changed hands.                              *)
StillThere == ~meddled =>
  /\ \A i, j \in DOMAIN todo : todo[i] = todo[j] => i = j
  /\ \A i \in DOMAIN todo : box[todo[i]] = "local"

CleanupTypeOK == RouterTypeOK /\ todo \in Seq(Messages) /\ meddled \in BOOLEAN

CleanupInv == CleanupTypeOK /\ OneInSlot /\ StillThere

-----------------------------------------------------------------------------
LEMMA CleanupInitInv == CleanupInit => CleanupInv
<1> SUFFICES ASSUME CleanupInit PROVE CleanupInv
  OBVIOUS
<1>1. RouterTypeOK /\ OneInSlot
  BY InboxAssumption DEF CleanupInit, RouterInit, RouterTypeOK, OneInSlot
<1>2. todo = <<>> /\ meddled = FALSE
  BY DEF CleanupInit
<1>3. StillThere
  BY <1>2 DEF StillThere
<1>4. todo \in Seq(Messages)
  BY <1>2
<1>5. QED
  BY <1>1, <1>2, <1>3, <1>4 DEF CleanupInv, CleanupTypeOK

LEMMA ArriveCleanup ==
  ASSUME CleanupInv, NEW m \in Messages, Arrive(m), UNCHANGED <<todo, meddled>>
  PROVE  CleanupInv'
<1>1. PICK b \in Boxes, i \in Indexes, d \in Dates :
        /\ \A n \in Inbox(b) : index[n] # i
        /\ box' = [box EXCEPT ![m] = b]
        /\ index' = [index EXCEPT ![m] = i]
        /\ date' = [date EXCEPT ![m] = d]
  BY DEF Arrive
<1>2. box[m] = "away" /\ unread' = unread \cup {m}
  BY DEF Arrive
<1>3. b \notin {"away", "gone"} /\ "away" \notin Boxes /\ d # 0
  BY InboxAssumption
<1>4. CleanupTypeOK'
  BY <1>1, <1>2, <1>3 DEF CleanupInv, CleanupTypeOK, RouterTypeOK
<1>5. OneInSlot'
  BY <1>1, <1>2, <1>3 DEF CleanupInv, CleanupTypeOK, RouterTypeOK, OneInSlot, Inbox
<1>6. StillThere'
  BY <1>1, <1>2 DEF CleanupInv, CleanupTypeOK, RouterTypeOK, StillThere
<1>7. QED
  BY <1>4, <1>5, <1>6 DEF CleanupInv

LEMMA MarkReadCleanup ==
  ASSUME CleanupInv, NEW m \in Messages, MarkRead(m), UNCHANGED <<todo, meddled>>
  PROVE  CleanupInv'
BY DEF MarkRead, CleanupInv, CleanupTypeOK, RouterTypeOK, OneInSlot, StillThere

LEMMA DeleteSmsCleanup ==
  ASSUME CleanupInv, NEW m \in Messages, DeleteSms(m), meddled' = (todo # <<>>), UNCHANGED todo
  PROVE  CleanupInv'
<1>1. CleanupTypeOK' /\ OneInSlot'
  BY InboxAssumption DEF DeleteSms, CleanupInv, CleanupTypeOK, RouterTypeOK, OneInSlot
<1>2. StillThere'
  <2>1. CASE todo = <<>>
    <3>1. todo' = <<>>
      BY <2>1
    <3>2. QED
      BY <3>1 DEF StillThere
  <2>2. CASE todo # <<>>
    BY <2>2 DEF StillThere
  <2>3. QED
    BY <2>1, <2>2
<1>3. QED
  BY <1>1, <1>2 DEF CleanupInv

LEMMA ListsInv ==
  ASSUME CleanupInv, NEW keep \in Nat, DeleteAllLists(keep)
  PROVE  CleanupInv'
<1>1. PICK q \in Listings("local", DeleteCount) : todo' = Skipped(q, keep)
  BY DEF DeleteAllLists
<1>2. /\ q \in Seq(Inbox("local"))
      /\ \A i, j \in DOMAIN q : i # j => q[i] # q[j]
  BY ListingIs, CleanupAssumption
<1>3. /\ todo' \in Seq(Inbox("local"))
      /\ \A i \in DOMAIN todo' : keep + i \in DOMAIN q /\ todo'[i] = q[keep + i]
  BY <1>1, <1>2, SkippedIs
<1>4. \A i \in DOMAIN todo' : i \in Nat /\ todo'[i] \in Inbox("local")
  BY <1>3
<1>5. todo' \in Seq(Messages)
  BY <1>3 DEF Inbox
<1>6. UNCHANGED <<router, meddled>>
  BY DEF DeleteAllLists
<1>7. StillThere'
  BY <1>2, <1>3, <1>4, <1>6 DEF StillThere, Inbox, router
<1>8. QED
  BY <1>5, <1>6, <1>7 DEF CleanupInv, CleanupTypeOK, RouterTypeOK, OneInSlot, router

(* Emptying the slot of a message that is there takes that message only.   *)
LEMMA EmptiesOne ==
  ASSUME CleanupInv, ~meddled, todo # <<>>,
         Empties(index[Head(todo)]) \/ UNCHANGED box,
         NEW m \in Messages, box'[m] # box[m]
  PROVE  m = Head(todo)
<1>1. Head(todo) \in Messages /\ Head(todo) = todo[1] /\ 1 \in DOMAIN todo
  BY DEF CleanupInv, CleanupTypeOK
<1>2. box[Head(todo)] = "local"
  BY <1>1 DEF CleanupInv, StillThere
<1>3. box[m] = "local" /\ index[m] = index[Head(todo)]
  BY DEF Empties
<1>4. QED
  BY <1>1, <1>2, <1>3, InboxAssumption DEF CleanupInv, OneInSlot

LEMMA DeletesInv ==
  ASSUME CleanupInv, DeleteAllDeletes
  PROVE  CleanupInv'
<1>1. todo \in Seq(Messages) /\ todo # <<>> /\ todo' \in {Tail(todo), <<>>}
  BY DEF DeleteAllDeletes, DeleteAllSteps, CleanupInv, CleanupTypeOK
<1>2. /\ Tail(todo) \in Seq(Messages)
      /\ \A i \in DOMAIN Tail(todo) : i + 1 \in DOMAIN todo /\ Tail(todo)[i] = todo[i + 1]
                                      /\ i \in Nat \ {0}
  BY <1>1, HeadTailProperties
<1>3. Head(todo) = todo[1] /\ 1 \in DOMAIN todo
  BY <1>1
<1>4. /\ box' \in [Messages -> Boxes \cup {"away", "gone"}]
      /\ \A m \in Messages : box'[m] = box[m] \/ (box[m] = "local" /\ box'[m] = "gone")
  BY DEF DeleteAllDeletes, Empties, CleanupInv, CleanupTypeOK, RouterTypeOK
<1>5. CleanupTypeOK'
  <2>1. todo' \in Seq(Messages)
    <3>1. <<>> \in Seq(Messages)
      OBVIOUS
    <3>2. QED
      BY <1>1, <1>2, <3>1
  <2>2. meddled' \in BOOLEAN
    BY DEF DeleteAllDeletes
  <2>3. /\ \A m \in unread' : m \in unread /\ box'[m] # "gone"
        /\ UNCHANGED <<index, date>>
    BY DEF DeleteAllDeletes
  <2>4. unread' \subseteq {m \in Messages : box'[m] \in Boxes}
    BY <1>4, <2>3 DEF CleanupInv, CleanupTypeOK, RouterTypeOK
  <2>5. \A m \in Messages : box'[m] = "away" <=> date'[m] = 0
    BY <1>4, <2>3, InboxAssumption DEF CleanupInv, CleanupTypeOK, RouterTypeOK
  <2>6. RouterTypeOK'
    BY <1>4, <2>3, <2>4, <2>5 DEF CleanupInv, CleanupTypeOK, RouterTypeOK
  <2>7. QED
    BY <2>1, <2>2, <2>6 DEF CleanupTypeOK
<1>6. OneInSlot'
  BY <1>4, InboxAssumption DEF DeleteAllDeletes, CleanupInv, CleanupTypeOK, RouterTypeOK, OneInSlot
<1>7. StillThere'
  <2>1. CASE todo' = <<>>
    BY <2>1 DEF StillThere
  <2>2. CASE todo' = Tail(todo)
    <3> SUFFICES ASSUME ~meddled'
                 PROVE  /\ \A i, j \in DOMAIN todo' : todo'[i] = todo'[j] => i = j
                        /\ \A i \in DOMAIN todo' : box'[todo'[i]] = "local"
      BY DEF StillThere
    <3>1. CASE todo' = <<>>
      BY <3>1
    <3>2. CASE todo' # <<>>
      <4>1. ~meddled
        BY <3>2 DEF DeleteAllDeletes, CleanupInv, CleanupTypeOK
      <4>2. /\ \A i, j \in DOMAIN todo : todo[i] = todo[j] => i = j
            /\ \A i \in DOMAIN todo : box[todo[i]] = "local"
        BY <4>1 DEF CleanupInv, StillThere
      <4>3. \A i \in DOMAIN todo' : todo'[i] \in Messages /\ todo'[i] # Head(todo)
        BY <1>2, <1>3, <2>2, <4>2
      <4>4. \A i \in DOMAIN todo' : box'[todo'[i]] = box[todo'[i]]
        BY <1>1, <4>1, <4>3, EmptiesOne DEF DeleteAllDeletes
      <4>5. QED
        BY <1>2, <2>2, <4>2, <4>4
    <3>3. QED
      BY <3>1, <3>2
  <2>3. QED
    BY <1>1, <2>1, <2>2
<1>8. QED
  BY <1>5, <1>6, <1>7 DEF CleanupInv

LEMMA CleanupNextInv == CleanupInv /\ [CleanupNext]_cleanupVars => CleanupInv'
<1> SUFFICES ASSUME CleanupInv, [CleanupNext]_cleanupVars PROVE CleanupInv'
  OBVIOUS
<1>1. CASE OthersMove
  BY <1>1, ArriveCleanup, MarkReadCleanup, DeleteSmsCleanup DEF OthersMove
<1>2. ASSUME NEW keep \in 0..MaxKeep, DeleteAllLists(keep) PROVE CleanupInv'
  BY <1>2, ListsInv, CleanupAssumption
<1>3. CASE DeleteAllDeletes
  BY <1>3, DeletesInv
<1>4. CASE UNCHANGED cleanupVars
  BY <1>4 DEF cleanupVars, router, CleanupInv, CleanupTypeOK, RouterTypeOK, OneInSlot, StillThere
<1>5. QED
  BY <1>1, <1>2, <1>3, <1>4 DEF CleanupNext

-----------------------------------------------------------------------------
(* The bulk deletion removes what it listed, whoever arrives in a freed    *)
(* slot, as long as nobody else deletes: `delete_all_sms` addresses slots. *)
THEOREM OnlyListedRemovedSafe == CleanupSpec => OnlyListedRemoved
<1>1. CleanupSpec => []CleanupInv
  BY CleanupInitInv, CleanupNextInv, PTL DEF CleanupSpec
<1>2. CleanupInv /\ [CleanupNext]_cleanupVars =>
        [DeleteAllDeletes /\ ~meddled
           => \A m \in Messages : box'[m] # box[m] => m = Head(todo)]_cleanupVars
  BY EmptiesOne DEF DeleteAllDeletes
<1>3. QED
  BY <1>1, <1>2, PTL DEF CleanupSpec, OnlyListedRemoved

-----------------------------------------------------------------------------
(* What is listed behind `keep` others of a read inbox has as many that    *)
(* are not older.                                                          *)
LEMMA KeptAreNewer ==
  ASSUME RouterTypeOK, Inbox("local") \cap unread = {},
         NEW n \in Nat, NEW q \in Listings("local", n), NEW keep \in Nat,
         NEW k \in DOMAIN q, k > keep
  PROVE  Cardinality(Newer(q[k])) >= keep
<1>1. /\ q \in Seq(Inbox("local"))
      /\ \A i, j \in DOMAIN q : i # j => q[i] # q[j]
      /\ \A i, j \in DOMAIN q : i < j => ~ListedBefore(q[j], q[i])
  BY ListingIs
<1>2. \A i \in 1..keep : i \in DOMAIN q /\ i < k /\ q[i] \in Inbox("local")
  BY <1>1
<1>3. \A m \in Inbox("local") : m \in Messages /\ m \notin unread /\ date[m] \in Nat
  BY InboxAssumption DEF Inbox, RouterTypeOK
<1>4. ASSUME NEW i \in 1..keep PROVE q[i] \in Newer(q[k])
  <2>1. q[k] \in Inbox("local") /\ q[i] \in Inbox("local") /\ q[i] # q[k]
    BY <1>1, <1>2
  <2>2. ~(date[q[k]] > date[q[i]])
    BY <1>1, <1>2, <1>3, <2>1 DEF ListedBefore
  <2>3. QED
    BY <1>3, <2>1, <2>2 DEF Newer
<1>5. IsFiniteSet(Newer(q[k]))
  BY FS_Subset, InboxAssumption DEF Newer, Inbox
<1> DEFINE first == [i \in 1..keep |-> q[i]]
<1>6. first \in Injection(1..keep, Newer(q[k]))
  BY <1>1, <1>2, <1>4 DEF Injection, IsInjective
<1>7. Cardinality(1..keep) <= Cardinality(Newer(q[k]))
  BY <1>5, <1>6, FS_Injection
<1>8. Cardinality(1..keep) = keep
  BY FS_Interval
<1>9. Cardinality(Newer(q[k])) \in Nat
  BY <1>5, FS_CardinalityType
<1>10. QED
  BY <1>7, <1>8, <1>9

(* `keep_last` spares the newest messages of an inbox that was read, since *)
(* the list it skips the first of is the newest first.                     *)
THEOREM NewestReadKeptSafe == CleanupSpec => NewestReadKept
<1>1. CleanupSpec => []CleanupInv
  BY CleanupInitInv, CleanupNextInv, PTL DEF CleanupSpec
<1>2. ASSUME CleanupInv, NEW keep \in 0..MaxKeep, DeleteAllLists(keep),
             Inbox("local") \cap unread = {}, NEW m \in ToSet(todo')
      PROVE  Cardinality(Newer(m)) >= keep
  <2>1. PICK q \in Listings("local", DeleteCount) : todo' = Skipped(q, keep)
    BY <1>2 DEF DeleteAllLists
  <2>2. q \in Seq(Inbox("local"))
    BY ListingIs, CleanupAssumption
  <2>3. /\ todo' \in Seq(Inbox("local")) /\ keep \in Nat
        /\ \A i \in DOMAIN todo' : keep + i \in DOMAIN q /\ todo'[i] = q[keep + i]
    BY <2>1, <2>2, SkippedIs, CleanupAssumption
  <2>4. PICK i \in DOMAIN todo' : m = todo'[i]
    BY DEF ToSet
  <2>5. m = q[keep + i] /\ keep + i \in DOMAIN q /\ keep + i > keep
    BY <2>3, <2>4
  <2>6. QED
    BY <1>2, <2>3, <2>5, KeptAreNewer, CleanupAssumption DEF CleanupInv, CleanupTypeOK
<1>3. CleanupInv /\ [CleanupNext]_cleanupVars =>
        [\A keep \in 0..MaxKeep :
           DeleteAllLists(keep) /\ Inbox("local") \cap unread = {}
             => \A m \in ToSet(todo') : Cardinality(Newer(m)) >= keep]_cleanupVars
  BY <1>2
<1>4. QED
  BY <1>1, <1>3, PTL DEF CleanupSpec, NewestReadKept
=============================================================================
