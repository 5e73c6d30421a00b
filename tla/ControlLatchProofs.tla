------------------------- MODULE ControlLatchProofs -------------------------
(***************************************************************************)
(* Proofs about ControlLatch, for any modes, calls and bounds.             *)
(***************************************************************************)
EXTENDS ControlLatch, TLAPS

(* The type invariant in parts: the router, the calls, what is published.  *)
Routers  == [switch : Positions, mode : Modes]
CallStep == {"write", "confirm", "again", "refresh"}
Asks(k)  == [step : CallStep, kind : {k}, want : Values(k)]

RouterTypeOK ==
  /\ router \in Routers
  /\ late \subseteq {"switch"} \X Positions \cup {"mode"} \X Modes

CallTypeOK == call \in [Calls -> {Idle} \cup Asks("switch") \cup Asks("mode")]

CountTypeOK == failures \in 0..MaxFailures /\ used \in 0..MaxCalls

DataTypeOK ==
  /\ loaded \in BOOLEAN /\ payload \in Payloads /\ latch \in Positions \cup {None}
  /\ paused \in BOOLEAN /\ forced \in BOOLEAN
  /\ fetched \in [held : BOOLEAN, paused : BOOLEAN, data : Payloads]
  /\ evidence \in Positions \cup {None}
  /\ overtaken \in BOOLEAN /\ republished \in BOOLEAN

(* The lock keeps a read-back from coming between a fetch and its          *)
(* publication, and what is published since the evidence is the evidence.  *)
LatchInv ==
  /\ ~overtaken
  /\ evidence # None /\ ~republished => latch = evidence

IInv == RouterTypeOK /\ CallTypeOK /\ CountTypeOK /\ DataTypeOK /\ LatchInv

LEMMA TypeSplit ==
  TypeOK <=> RouterTypeOK /\ CallTypeOK /\ CountTypeOK /\ DataTypeOK
BY DEF TypeOK, RouterTypeOK, CallTypeOK, CountTypeOK, DataTypeOK, Routers, Asks, CallStep, Values

-----------------------------------------------------------------------------
LEMMA BoundsType == MaxCalls \in Nat /\ MaxFailures \in Nat
BY LatchAssumption

LEMMA UseType ==
  ASSUME used \in 0..MaxCalls, Use
  PROVE  used' \in 0..MaxCalls
BY BoundsType DEF Use

LEMMA FailType ==
  ASSUME failures \in 0..MaxFailures, Fail
  PROVE  failures' \in 0..MaxFailures
BY BoundsType DEF Fail

LEMMA NoDataType == NoData \in Payloads
BY DEF NoData, Payloads, Controls

LEMMA WithType ==
  ASSUME router \in Routers, NEW k \in Controls, NEW v \in Values(k)
  PROVE  With(k, v) \in Routers
<1>1. CASE k = "switch"
  BY <1>1 DEF With, Routers, Values
<1>2. CASE k = "mode"
  BY <1>2 DEF With, Routers, Values
<1>3. QED
  BY <1>1, <1>2 DEF Controls

(* What an accepted or a given-up command does to the router.              *)
LEMMA AcceptedType ==
  ASSUME RouterTypeOK, NEW k \in Controls, NEW v \in Values(k), Accepted(k, v)
  PROVE  RouterTypeOK'
<1>1. With(k, v) \in Routers
  BY WithType DEF RouterTypeOK
<1>2. <<k, v>> \in {"switch"} \X Positions \cup {"mode"} \X Modes
  BY DEF Controls, Values
<1>3. QED
  BY <1>1, <1>2 DEF RouterTypeOK, Accepted

(* A call under way knows its control and a value of it; the steps it      *)
(* takes keep both.                                                        *)
LEMMA CallIs ==
  ASSUME CallTypeOK, NEW c \in Calls, call[c] # Idle
  PROVE  /\ call[c].kind \in Controls /\ call[c].want \in Values(call[c].kind)
         /\ call[c].step \in CallStep
BY DEF CallTypeOK, Asks, Controls

LEMMA GoesType ==
  ASSUME CallTypeOK, NEW c \in Calls, call[c] # Idle, NEW next \in CallStep, Goes(c, next)
  PROVE  CallTypeOK'
<1>1. [call[c] EXCEPT !.step = next] \in Asks("switch") \cup Asks("mode")
  BY DEF CallTypeOK, Asks
<1>2. call' = [call EXCEPT ![c] = [call[c] EXCEPT !.step = next]]
  BY DEF Goes
<1>3. QED
  BY <1>1, <1>2 DEF CallTypeOK

LEMMA EndsType ==
  ASSUME CallTypeOK, NEW c \in Calls, Ends(c)
  PROVE  CallTypeOK'
BY DEF CallTypeOK, Ends

LEMMA NotIdle ==
  ASSUME NEW c \in Calls, call[c].step \in CallStep
  PROVE  call[c] # Idle
BY DEF Idle, CallStep

-----------------------------------------------------------------------------
LEMMA InitInv == Init => IInv
<1> SUFFICES ASSUME Init PROVE IInv
  OBVIOUS
<1>1. RouterTypeOK /\ CallTypeOK
  BY DEF Init, RouterTypeOK, Routers, CallTypeOK
<1>2. CountTypeOK
  BY BoundsType DEF Init, CountTypeOK
<1>3. DataTypeOK /\ LatchInv
  BY NoDataType DEF Init, DataTypeOK, LatchInv, NoFetch
<1>4. QED
  BY <1>1, <1>2, <1>3 DEF IInv

(* A republished payload is latched, and is no evidence.                   *)
LEMMA RepublishInv ==
  ASSUME DataTypeOK, LatchInv, Republish
  PROVE  /\ LatchInv' /\ latch' \in Positions \cup {None}
         /\ republished' \in BOOLEAN /\ UNCHANGED <<payload, evidence, overtaken>>
BY DEF DataTypeOK, LatchInv, Republish, Remember, Payloads

LEMMA PollFromCacheInv ==
  ASSUME IInv, PollFromCache
  PROVE  IInv'
<1>1. RouterTypeOK' /\ CallTypeOK' /\ CountTypeOK'
  BY DEF IInv, PollFromCache, RouterTypeOK, CallTypeOK, CountTypeOK
<1>2. DataTypeOK' /\ LatchInv'
  BY RepublishInv DEF IInv, PollFromCache, DataTypeOK
<1>3. QED
  BY <1>1, <1>2 DEF IInv

LEMMA FetchReadsInv ==
  ASSUME IInv, FetchReads
  PROVE  IInv'
<1>1. RouterTypeOK' /\ CallTypeOK'
  BY DEF IInv, FetchReads, RouterTypeOK, CallTypeOK
<1>2. CountTypeOK'
  BY FailType DEF IInv, FetchReads, CountTypeOK
<1>3. \A data \in {router} \cup {[router EXCEPT ![k] = None] : k \in Controls} :
        data \in Payloads
  <2>1. router \in Payloads
    BY DEF IInv, RouterTypeOK, Routers, Payloads
  <2>2. [router EXCEPT !["switch"] = None] \in Payloads
    BY <2>1 DEF Payloads
  <2>3. [router EXCEPT !["mode"] = None] \in Payloads
    BY <2>1 DEF Payloads
  <2>4. QED
    BY <2>1, <2>2, <2>3 DEF Controls
<1>4. fetched' \in [held : BOOLEAN, paused : BOOLEAN, data : Payloads]
  BY <1>3 DEF IInv, DataTypeOK, FetchReads
<1>5. DataTypeOK' /\ LatchInv'
  BY <1>4 DEF IInv, FetchReads, DataTypeOK, LatchInv
<1>6. QED
  BY <1>1, <1>2, <1>5 DEF IInv

LEMMA FetchPublishesInv ==
  ASSUME IInv, FetchPublishes
  PROVE  IInv'
<1>1. RouterTypeOK' /\ CallTypeOK' /\ CountTypeOK'
  BY DEF IInv, FetchPublishes, RouterTypeOK, CallTypeOK, CountTypeOK
<1>2. fetched.data \in Payloads /\ fetched.data.switch \in Positions \cup {None}
  BY DEF IInv, DataTypeOK, Payloads
<1>3. DataTypeOK'
  BY <1>2, NoDataType DEF IInv, FetchPublishes, DataTypeOK, NoFetch, Remember
<1>4. LatchInv'
  BY DEF IInv, FetchPublishes, LatchInv, Remember
<1>5. QED
  BY <1>1, <1>3, <1>4 DEF IInv

LEMMA FetchFailsInv ==
  ASSUME IInv, FetchFails
  PROVE  IInv'
<1>1. RouterTypeOK' /\ CallTypeOK' /\ CountTypeOK'
  BY FailType DEF IInv, FetchFails, RouterTypeOK, CallTypeOK, CountTypeOK
<1>2. /\ fetched' \in [held : BOOLEAN, paused : BOOLEAN, data : Payloads]
      /\ loaded' \in BOOLEAN
  BY NoDataType DEF IInv, FetchFails, DataTypeOK, NoFetch
<1>3. CASE Republish
  BY <1>1, <1>2, <1>3, RepublishInv DEF IInv, FetchFails, DataTypeOK
<1>4. CASE UNCHANGED <<payload, latch, history>>
  BY <1>1, <1>2, <1>4 DEF IInv, FetchFails, DataTypeOK, LatchInv, history
<1>5. CASE Discard
  BY <1>1, <1>2, <1>5, NoDataType DEF IInv, FetchFails, Discard, DataTypeOK, LatchInv, history
<1>6. QED
  BY <1>3, <1>4, <1>5 DEF FetchFails

-----------------------------------------------------------------------------
(* A step of a call that leaves what is published alone.                   *)
LEMMA QuietStep ==
  ASSUME IInv, RouterTypeOK', CallTypeOK', CountTypeOK', forced' \in BOOLEAN,
         UNCHANGED <<loaded, payload, latch, paused, fetched, history>>
  PROVE  IInv'
BY DEF IInv, DataTypeOK, LatchInv, history

LEMMA TurnOrSelectInv ==
  ASSUME IInv, NEW c \in Calls, TurnOrSelect(c)
  PROVE  IInv'
<1>1. RouterTypeOK' /\ CountTypeOK' /\ forced' \in BOOLEAN
  BY UseType DEF IInv, TurnOrSelect, RouterTypeOK, CountTypeOK, DataTypeOK
<1>2. PICK k \in Controls : \E v \in Values(k) :
        call' = [call EXCEPT ![c] = [step |-> "write", kind |-> k, want |-> v]]
  BY DEF TurnOrSelect
<1>3. PICK v \in Values(k) :
        call' = [call EXCEPT ![c] = [step |-> "write", kind |-> k, want |-> v]]
  BY <1>2
<1>4. [step |-> "write", kind |-> k, want |-> v] \in Asks("switch") \cup Asks("mode")
  BY DEF Controls, Asks, CallStep
<1>5. CallTypeOK'
  BY <1>3, <1>4 DEF IInv, CallTypeOK
<1>6. QED
  BY <1>1, <1>5, QuietStep DEF TurnOrSelect

LEMMA WriteInv ==
  ASSUME IInv, NEW c \in Calls, Write(c)
  PROVE  IInv'
<1>1. call[c] # Idle
  BY NotIdle DEF Write, CallStep
<1>2. call[c].kind \in Controls /\ call[c].want \in Values(call[c].kind)
  BY <1>1, CallIs DEF IInv
<1>3. RouterTypeOK'
  <2>1. CASE Accepted(call[c].kind, call[c].want)
    BY <1>2, <2>1, AcceptedType DEF IInv
  <2>2. CASE UNCHANGED <<router, late>>
    BY <2>2 DEF IInv, RouterTypeOK
  <2>3. QED
    BY <2>1, <2>2 DEF Write
<1>4. CallTypeOK'
  <2>1. CASE Goes(c, "confirm")
    BY <1>1, <2>1, GoesType DEF IInv, CallStep
  <2>2. CASE Goes(c, "refresh")
    BY <1>1, <2>2, GoesType DEF IInv, CallStep
  <2>3. CASE Ends(c)
    BY <2>3, EndsType DEF IInv
  <2>4. QED
    BY <2>1, <2>2, <2>3 DEF Write
<1>5. CountTypeOK' /\ forced' \in BOOLEAN
  BY DEF IInv, Write, CountTypeOK, DataTypeOK
<1>6. QED
  BY <1>3, <1>4, <1>5, QuietStep DEF Write

(* The read-back that confirms is the one that stores evidence, and it     *)
(* holds the lock.                                                         *)
LEMMA ConfirmedInv ==
  ASSUME IInv, NEW c \in Calls, Confirmed(c)
  PROVE  IInv'
<1>1. call[c] # Idle
  BY NotIdle DEF Confirmed, CallStep
<1>2. RouterTypeOK' /\ CountTypeOK' /\ forced' \in BOOLEAN
  BY DEF IInv, Confirmed, RouterTypeOK, CountTypeOK, DataTypeOK
<1>3. CASE call[c].kind = "switch"
  <2>1. CallTypeOK'
    BY <1>3, EndsType DEF IInv, Confirmed
  <2>2. call[c].want \in Positions
    BY <1>1, <1>3, CallIs DEF IInv, Values
  <2>3. DataTypeOK' /\ LatchInv'
    BY <1>3, <2>2 DEF IInv, Confirmed, StoreConfirmed, LockFree, DataTypeOK, LatchInv
  <2>4. QED
    BY <1>2, <2>1, <2>3 DEF IInv
<1>4. CASE call[c].kind # "switch"
  <2>1. CallTypeOK'
    BY <1>1, <1>4, GoesType DEF IInv, Confirmed, CallStep
  <2>2. QED
    BY <1>2, <1>4, <2>1, QuietStep DEF Confirmed
<1>5. QED
  BY <1>3, <1>4

LEMMA DisagreesInv ==
  ASSUME IInv, NEW c \in Calls, Disagrees(c)
  PROVE  IInv'
<1>1. call[c] # Idle
  BY NotIdle DEF Disagrees, CallStep
<1>2. CallTypeOK'
  BY <1>1, GoesType, EndsType DEF IInv, Disagrees, CallStep
<1>3. RouterTypeOK' /\ CountTypeOK' /\ forced' \in BOOLEAN
  BY DEF IInv, Disagrees, RouterTypeOK, CountTypeOK, DataTypeOK
<1>4. QED
  BY <1>2, <1>3, QuietStep DEF Disagrees

LEMMA UnverifiedInv ==
  ASSUME IInv, NEW c \in Calls, Unverified(c)
  PROVE  IInv'
<1>1. call[c] # Idle
  BY NotIdle DEF Unverified, CallStep
<1>2. CallTypeOK'
  BY <1>1, GoesType, EndsType DEF IInv, Unverified, CallStep
<1>3. RouterTypeOK' /\ CountTypeOK' /\ forced' \in BOOLEAN
  BY FailType DEF IInv, Unverified, RouterTypeOK, CountTypeOK, DataTypeOK
<1>4. QED
  BY <1>2, <1>3, QuietStep DEF Unverified

LEMMA SelectRefreshesInv ==
  ASSUME IInv, NEW c \in Calls, SelectRefreshes(c)
  PROVE  IInv'
<1>1. CallTypeOK'
  BY EndsType DEF IInv, SelectRefreshes
<1>2. RouterTypeOK' /\ CountTypeOK' /\ forced' \in BOOLEAN
  BY DEF IInv, SelectRefreshes, RouterTypeOK, CountTypeOK
<1>3. QED
  BY <1>1, <1>2, QuietStep DEF SelectRefreshes

LEMMA SetPauseInv ==
  ASSUME IInv, SetPause
  PROVE  IInv'
<1>1. RouterTypeOK' /\ CallTypeOK' /\ CountTypeOK'
  BY UseType DEF IInv, SetPause, RouterTypeOK, CallTypeOK, CountTypeOK
<1>2. DataTypeOK' /\ LatchInv'
  BY DEF IInv, SetPause, DataTypeOK, LatchInv, history
<1>3. QED
  BY <1>1, <1>2 DEF IInv

LEMMA AppliesInv ==
  ASSUME IInv, Applies
  PROVE  IInv'
<1>1. PICK w \in late : router' = With(w[1], w[2]) /\ late' = late \ {w}
  BY DEF Applies
<1>2. w[1] \in Controls /\ w[2] \in Values(w[1])
  BY DEF IInv, RouterTypeOK, Controls, Values
<1>3. RouterTypeOK'
  BY <1>1, <1>2, WithType DEF IInv, RouterTypeOK
<1>4. CallTypeOK' /\ CountTypeOK' /\ forced' \in BOOLEAN
  BY DEF IInv, Applies, CallTypeOK, CountTypeOK, DataTypeOK
<1>5. QED
  BY <1>3, <1>4, QuietStep DEF Applies

LEMMA NextInv == IInv /\ [Next]_vars => IInv'
<1> SUFFICES ASSUME IInv, [Next]_vars PROVE IInv'
  OBVIOUS
<1>1. CASE Applies
  BY <1>1, AppliesInv
<1>2. CASE Polling
  BY <1>2, PollFromCacheInv, FetchReadsInv, FetchPublishesInv, FetchFailsInv DEF Polling
<1>3. CASE SetPause
  BY <1>3, SetPauseInv
<1>4. ASSUME NEW c \in Calls, TurnOrSelect(c) PROVE IInv'
  BY <1>4, TurnOrSelectInv
<1>5. ASSUME NEW c \in Calls, Call(c) PROVE IInv'
  BY <1>5, WriteInv, ConfirmedInv, DisagreesInv, UnverifiedInv, SelectRefreshesInv DEF Call
<1>6. CASE UNCHANGED vars
  BY <1>6 DEF IInv, RouterTypeOK, CallTypeOK, CountTypeOK, DataTypeOK, LatchInv, vars, history
<1>7. QED
  BY <1>1, <1>2, <1>3, <1>4, <1>5, <1>6 DEF Next

LEMMA InvHolds == IInv => TypeOK /\ EvidenceShown
BY TypeSplit DEF IInv, LatchInv, EvidenceShown, Shown

LEMMA SpecInv == Spec => []IInv
BY InitInv, NextInv, PTL DEF Spec

-----------------------------------------------------------------------------
(* Every variable keeps its type, for any modes, calls and bounds.         *)
THEOREM TypeCorrect == Spec => []TypeOK
BY SpecInv, InvHolds, PTL

(* The switch shows what the router last reported until an older payload   *)
(* is published again.                                                     *)
THEOREM EvidenceSafe == Spec => []EvidenceShown
BY SpecInv, InvHolds, PTL
=============================================================================
