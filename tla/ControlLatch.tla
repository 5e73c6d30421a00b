---------------------------- MODULE ControlLatch ----------------------------
(***************************************************************************)
(* What a control shows after it was used: switch.py (a switch latches the *)
(* last position it was sure of), select.py (the network mode shows the    *)
(* payload and asks for a refresh), helpers.py `confirm_write` and the     *)
(* polls that publish a payload over both.                                 *)
(*                                                                         *)
(* The API's lock orders commands, read-backs and fetches.  A fetch        *)
(* releases it and publishes without a suspension in between, and so does  *)
(* a read-back that confirms.                                              *)
(***************************************************************************)
EXTENDS Naturals, FiniteSets

CONSTANTS
  Modes,        \* network modes of the router
  Calls,        \* service calls that may be under way together
  MaxCalls,     \* bound: service calls and changes of the pause
  StrikeLimit,  \* failures through which a payload is held
  MaxFailures,  \* bound: reads the router fails or answers without the key
  MaxLate       \* bound: commands accepted and not yet applied

ASSUME LatchAssumption ==
  Modes # {} /\ StrikeLimit \in Nat /\ MaxCalls \in Nat /\ MaxFailures \in Nat /\ MaxLate \in Nat

None      == "none"
Positions == {"on", "off"}
Controls  == {"switch", "mode"}
Values(k) == IF k = "switch" THEN Positions ELSE Modes

Idle == [step |-> "idle", kind |-> None, want |-> None]

VARIABLES
  router,       \* what it holds, per control
  late,         \* commands it will apply yet
  failures,     \* so far
  loaded,       \* coordinator.data is not None
  payload,      \* what is in it, None where a key is missing
  latch,        \* _last_known of the switch
  paused,       \* polling is paused
  forced,       \* _force_refresh_once
  fetched,      \* what the poll that holds the lock has read; Idle without one
  call,         \* per service call: its step and what it wants
  used,         \* calls and pauses so far
  evidence,     \* history: the last position read from the router and reported
  overtaken,    \* history: evidence is younger than the fetch under way
  republished   \* history: a payload no younger than it was published after it

history == <<evidence, overtaken, republished>>
vars == <<router, late, failures, loaded, payload, latch, paused, forced, fetched, call, used,
          history>>

NoData == [k \in Controls |-> None]
NoFetch == [held |-> FALSE, paused |-> FALSE, data |-> NoData]
Payloads == [switch : Positions \cup {None}, mode : Modes \cup {None}]

Init ==
  /\ router \in [switch : Positions, mode : Modes]
  /\ late = {} /\ failures = 0
  /\ loaded = FALSE /\ payload = NoData /\ latch = None
  /\ paused \in BOOLEAN /\ forced = FALSE
  /\ fetched = NoFetch
  /\ call = [c \in Calls |-> Idle]
  /\ used = 0
  /\ evidence = None /\ overtaken = FALSE /\ republished = FALSE

LockFree == ~fetched.held
Use == used < MaxCalls /\ used' = used + 1
Fail == failures < MaxFailures /\ failures' = failures + 1

Shown == IF latch # None THEN latch ELSE payload.switch

-----------------------------------------------------------------------------
(* The router applies what it accepted, or what a given-up thread sent.    *)

With(k, v) == [router EXCEPT ![k] = v]

Applies ==
  /\ \E w \in late : router' = With(w[1], w[2]) /\ late' = late \ {w}
  /\ UNCHANGED <<failures, loaded, payload, latch, paused, forced, fetched, call, used, history>>

Accepted(k, v) ==
  \/ router' = With(k, v) /\ UNCHANGED late
  \/ Cardinality(late) < MaxLate /\ late' = late \cup {<<k, v>>} /\ UNCHANGED router

-----------------------------------------------------------------------------
(* `_handle_coordinator_update`: the payload's position is latched, if it  *)
(* has one, whatever brought the update.                                   *)

Remember(position) == latch' = IF position # None THEN position ELSE latch

(* A poll that fetches nothing, or fails: the payload there is already.    *)
Republish ==
  /\ Remember(payload.switch)
  /\ republished' = (republished \/ payload.switch # None)
  /\ UNCHANGED <<payload, evidence, overtaken>>

MustFetchOnce == ~loaded \/ forced   \* mutant: the cache is served unpaused too
MustFetch == ~paused \/ ~loaded \/ forced

(* `_async_update_data` while polling is paused.                           *)
PollFromCache ==
  /\ ~MustFetch
  /\ Republish
  /\ UNCHANGED <<router, late, failures, loaded, paused, forced, fetched, call, used>>

(* The fetch takes the lock and reads each key once.                       *)
FetchReads ==
  /\ LockFree /\ MustFetch
  /\ forced' = FALSE /\ overtaken' = FALSE
  /\ \E data \in {router} \cup {[router EXCEPT ![k] = None] : k \in Controls} :
       /\ fetched' = [held |-> TRUE, paused |-> paused, data |-> data]
       /\ IF data = router THEN UNCHANGED failures ELSE Fail
  /\ UNCHANGED <<router, late, loaded, payload, latch, paused, call, used, evidence, republished>>

FetchPublishes ==
  /\ fetched.held /\ fetched' = NoFetch
  /\ payload' = fetched.data /\ loaded' = TRUE
  /\ Remember(fetched.data.switch)
  /\ IF fetched.data.switch # None
     THEN /\ evidence' = IF overtaken THEN evidence ELSE fetched.data.switch
          /\ republished' = FALSE
     ELSE UNCHANGED <<evidence, republished>>
  /\ UNCHANGED <<router, late, failures, paused, forced, call, used, overtaken>>

(* Beyond the strike limit a forced fetch that fails under a pause takes   *)
(* the branch of a paused first run and publishes empty data.              *)
Discard ==
  /\ fetched.paused /\ failures >= StrikeLimit
  /\ payload' = NoData /\ UNCHANGED <<latch, history>>

(* Refused, timed out, disconnected: the old values are held, or nobody is *)
(* told of a failure after a failure.  A first poll that began paused      *)
(* starts with empty data.                                                 *)
FetchFails ==
  /\ fetched.held /\ fetched' = NoFetch
  /\ Fail
  /\ loaded' = (loaded \/ fetched.paused)
  /\ Republish \/ Discard \/ UNCHANGED <<payload, latch, history>>
  /\ UNCHANGED <<router, late, paused, forced, call, used>>

-----------------------------------------------------------------------------
(* Service calls.                                                          *)

Goes(c, next) == call' = [call EXCEPT ![c].step = next]
Ends(c)       == call' = [call EXCEPT ![c] = Idle]
At(c, k, s)   == call[c].kind = k /\ call[c].step = s

TurnOrSelect(c) ==
  /\ Use /\ call[c] = Idle
  /\ \E k \in Controls : \E v \in Values(k) :
       call' = [call EXCEPT ![c] = [step |-> "write", kind |-> k, want |-> v]]
  /\ UNCHANGED <<router, late, failures, loaded, payload, latch, paused, forced, fetched, history>>

(* The command: accepted (and for the mode perhaps answered with -1), or   *)
(* an error, after which it may take effect nevertheless.                  *)
Write(c) ==
  /\ call[c].step = "write" /\ LockFree
  /\ \/ /\ Accepted(call[c].kind, call[c].want)
        /\ \/ Goes(c, "confirm")
           \/ call[c].kind = "mode" /\ Goes(c, "refresh")
     \/ /\ call[c].kind = "mode" /\ Goes(c, "confirm") /\ UNCHANGED <<router, late>>
     \/ /\ Accepted(call[c].kind, call[c].want) \/ UNCHANGED <<router, late>>
        /\ Ends(c)
  /\ UNCHANGED <<failures, loaded, payload, latch, paused, forced, fetched, used, history>>

StoreNothing(c) ==   \* mutant: published without the latch
  UNCHANGED latch /\ evidence' = call[c].want /\ republished' = FALSE
                  /\ overtaken' = fetched.held

(* `_async_confirm` on True: stored, then published.                       *)
StoreConfirmed(c) ==
  /\ latch' = call[c].want
  /\ evidence' = call[c].want /\ republished' = FALSE /\ overtaken' = fetched.held

(* `confirm_write` on a read that agrees.                                  *)
Confirmed(c) ==
  /\ call[c].step \in {"confirm", "again"} /\ LockFree
  /\ router[call[c].kind] = call[c].want
  /\ IF call[c].kind = "switch"
     THEN Ends(c) /\ StoreConfirmed(c)
     ELSE Goes(c, "refresh") /\ UNCHANGED <<latch, history>>
  /\ UNCHANGED <<router, late, failures, loaded, payload, paused, forced, fetched, used>>

(* One that disagrees is read again, and then reported as refused.         *)
Disagrees(c) ==
  /\ call[c].step \in {"confirm", "again"} /\ LockFree
  /\ router[call[c].kind] # call[c].want
  /\ IF call[c].step = "confirm" THEN Goes(c, "again") ELSE Ends(c)
  /\ UNCHANGED <<router, late, failures, loaded, payload, latch, paused, forced, fetched, used,
                 history>>

(* One that fails or omits the key leaves the command unverified.          *)
Unverified(c) ==
  /\ call[c].step \in {"confirm", "again"} /\ Fail
  /\ IF call[c].kind = "switch" THEN Ends(c) ELSE Goes(c, "refresh")
  /\ UNCHANGED <<router, late, loaded, payload, latch, paused, forced, fetched, used, history>>

(* `async_select_option` forces a refresh through the pause.               *)
SelectRefreshes(c) ==
  /\ At(c, "mode", "refresh") /\ Ends(c)
  /\ forced' = TRUE
  /\ UNCHANGED <<router, late, failures, loaded, payload, latch, paused, fetched, used, history>>

(* The pause switch; resuming forces a refresh.                            *)
SetPause ==
  /\ Use /\ paused' = ~paused
  /\ forced' = (forced \/ paused)
  /\ UNCHANGED <<router, late, failures, loaded, payload, latch, fetched, call, history>>

-----------------------------------------------------------------------------
Polling == PollFromCache \/ FetchReads \/ FetchPublishes \/ FetchFails
Call(c) == Write(c) \/ Confirmed(c) \/ Disagrees(c) \/ Unverified(c) \/ SelectRefreshes(c)

Next ==
  \/ Applies \/ Polling \/ SetPause
  \/ \E c \in Calls : TurnOrSelect(c) \/ Call(c)

(* The interval's timer, the lock's turns, and a router that answers in    *)
(* the end (MaxFailures).                                                  *)
Fairness ==
  /\ WF_vars(Applies)
  /\ WF_vars(FetchReads) /\ WF_vars(FetchPublishes \/ FetchFails)
  /\ \A c \in Calls : SF_vars(Call(c))

Spec == Init /\ [][Next]_vars /\ Fairness

-----------------------------------------------------------------------------
TypeOK ==
  /\ router \in [switch : Positions, mode : Modes]
  /\ late \subseteq {"switch"} \X Positions \cup {"mode"} \X Modes
  /\ failures \in 0..MaxFailures
  /\ loaded \in BOOLEAN /\ payload \in Payloads /\ latch \in Positions \cup {None}
  /\ paused \in BOOLEAN /\ forced \in BOOLEAN
  /\ fetched \in [held : BOOLEAN, paused : BOOLEAN, data : Payloads]
  /\ call \in [Calls -> {Idle} \cup
                 [step : {"write", "confirm", "again", "refresh"}, kind : {"switch"},
                  want : Positions] \cup
                 [step : {"write", "confirm", "again", "refresh"}, kind : {"mode"},
                  want : Modes]]
  /\ used \in 0..MaxCalls
  /\ evidence \in Positions \cup {None}
  /\ overtaken \in BOOLEAN /\ republished \in BOOLEAN

(* "it also published the *old* value after a confirmed write"             *)
(* (switch.py:167-169) does not come back: the switch shows the position   *)
(* the router last reported, to a read-back or to a fetch, as long as no   *)
(* older payload is published again.                                       *)
EvidenceShown == (evidence # None /\ ~republished) => Shown = evidence

(* "left to the next poll" (switch.py:236-237): once nobody uses the controls, *)
(* what both show is what the router holds, unless polling stays paused.   *)
ControlsSettle ==
  <>[](~paused => (Shown = router.switch /\ payload.mode = router.mode))

(* "Once seeded, the latch governs: it is what a confirmed write writes    *)
(* into" (switch.py:211-212).                                              *)
ConfirmedHolds == evidence # None => Shown = evidence
=============================================================================
