------------------------------ MODULE PollCycle ------------------------------
(***************************************************************************)
(* The polls of one config entry: HuaweiRouter5GDataUpdateCoordinator of   *)
(* coordinator.py.  Home Assistant starts `_async_update_data` in two      *)
(* ways: from the coordinator's own timer, and from the debouncer behind   *)
(* `async_request_refresh`, which every user action reaches through        *)
(* `async_force_refresh`.  A timer poll does not hold the debouncer's      *)
(* lock, so the two may be in flight together and share every counter,     *)
(* latch and repair below.                                                 *)
(*                                                                         *)
(* A poll suspends only while it waits for `api.get_data` (first or second *)
(* attempt) and for `api.probe_liveness`; everything between two awaits is *)
(* one action.  What the data contain is the business of EndpointHealth:   *)
(* here a poll is served, refused (HuaweiAuthError), timed out or failed.  *)
(***************************************************************************)
EXTENDS Naturals

CONSTANTS
  FETCH_STRIKE_LIMIT,        \* failures during which held values are shown
  REPAIR_CONN_STRIKE_LIMIT,  \* failures after which conn_error is raised
  MaxFailures                \* consecutive_failures saturates here

ASSUME LimitsAssumption ==
  /\ FETCH_STRIKE_LIMIT \in Nat \ {0}
  /\ REPAIR_CONN_STRIKE_LIMIT \in Nat
  /\ FETCH_STRIKE_LIMIT <= REPAIR_CONN_STRIKE_LIMIT
  /\ MaxFailures \in Nat
  /\ MaxFailures > FETCH_STRIKE_LIMIT
  /\ MaxFailures >= REPAIR_CONN_STRIKE_LIMIT

VARIABLES
  pc,          \* pc[s]: where the poll of slot s is suspended
  wasPaused,   \* wasPaused[s]: `is_paused` as that poll read it
  timer,       \* the coordinator's next poll is scheduled
  cooldown,    \* the debouncer's cooldown timer
  forceOnce,   \* _force_refresh_once
  followUp,    \* _pending_refresh is set
  paused,      \* the CONF_STOP_POLLING option
  data,        \* self.data
  available,   \* last_update_success
  failures,    \* consecutive_failures
  probeDone,   \* _probe_done
  fault,       \* _fault_is_local: "local" True, "remote" False
  health,      \* health_snapshot
  connRepair,  \* the conn_error repair is raised
  authRepair,  \* the auth_failed repair is raised
  router,      \* the router: "up" once it answers every later poll
  updated,     \* last_update_success_time is set
  probes       \* history: liveness probes since the last recovery

flags   == <<timer, cooldown, forceOnce>>
outage  == <<failures, probeDone, fault, health, connRepair, authRepair>>
history == <<updated, probes>>
vars    == <<pc, wasPaused, flags, followUp, paused, data, available, outage,
             router, history>>

Slots  == {"timer", "request"}
Faults == {"unknown", "local", "remote"}

Verdict == [severity : {"unknown", "ok", "error"},
            issue    : {"none", "never_answered", "no_update", "uncomputed"},
            end      : {"none", "local", "remote", "refused"}]

TypeOK ==
  /\ pc \in [Slots -> {"idle", "fetching", "retrying", "probing"}]
  /\ wasPaused \in [Slots -> BOOLEAN]
  /\ timer \in BOOLEAN /\ cooldown \in {"off", "on", "again"}
  /\ forceOnce \in BOOLEAN /\ followUp \in BOOLEAN /\ paused \in BOOLEAN
  /\ data \in {"none", "empty", "fetched"} /\ available \in BOOLEAN
  /\ failures \in Nat /\ probeDone \in BOOLEAN /\ fault \in Faults
  /\ health \in Verdict
  /\ connRepair \in BOOLEAN /\ authRepair \in BOOLEAN
  /\ router \in {"unsteady", "up"}
  /\ updated \in BOOLEAN /\ probes \in Nat

InFlight(s) == pc[s] # "idle"

(* A fresh coordinator: setup's first refresh is the armed timer.          *)
Init ==
  /\ pc = [s \in Slots |-> "idle"]
  /\ wasPaused = [s \in Slots |-> FALSE]
  /\ timer = TRUE /\ cooldown = "off"
  /\ forceOnce = FALSE /\ followUp = FALSE
  /\ paused \in BOOLEAN
  /\ data = "none" /\ available = TRUE
  /\ failures = 0 /\ probeDone = FALSE /\ fault = "unknown"
  /\ health = [severity |-> "unknown", issue |-> "none", end |-> "none"]
  /\ connRepair = FALSE /\ authRepair = FALSE
  /\ router = "unsteady"
  /\ updated = FALSE /\ probes = 0

-----------------------------------------------------------------------------
(* The verdict of `_compute_health`, and `update_health`, which publishes  *)
(* it or, when computing it raised, an error of its own: on a served poll  *)
(* as on a failed one.                                                     *)

UncomputedVerdict ==
  [severity |-> "error", issue |-> "uncomputed", end |-> "none"]

UpdateHealth(verdict) == health' \in {verdict, UncomputedVerdict}

ServedVerdict == [severity |-> "ok", issue |-> "none", end |-> "none"]

FaultEndRaw(known, probed) == known     \* mutant: None not told apart

FaultEnd(known, probed) ==
  CASE known = "local"  -> "local"
    [] known = "remote" -> "remote"
    [] OTHER            -> IF probed THEN "refused" ELSE "none"

FailedVerdictEarly(n, coldStart, known, probed) ==   \* mutant: off by one
  [severity |-> IF coldStart \/ n + 1 >= FETCH_STRIKE_LIMIT
                THEN "error" ELSE "ok",
   issue    |-> "none",
   end      |-> FaultEnd(known, probed)]

FailedVerdict(n, coldStart, known, probed) ==
  [severity |-> IF coldStart \/ n >= FETCH_STRIKE_LIMIT THEN "error" ELSE "ok",
   issue    |-> CASE coldStart               -> "never_answered"
                  [] n >= FETCH_STRIKE_LIMIT -> "no_update"
                  [] OTHER                   -> "none",
   end      |-> FaultEnd(known, probed)]

-----------------------------------------------------------------------------
(* The end of a poll, as Home Assistant's DataUpdateCoordinator takes it:  *)
(* the outcome becomes last_update_success, the next poll is scheduled     *)
(* unless the credentials were refused, and a debounced poll starts the    *)
(* cooldown.                                                               *)

EndPollUnscheduled(s, success, authFailed) ==   \* mutant: a failure ends polling
  /\ pc' = [pc EXCEPT ![s] = "idle"]
  /\ wasPaused' = [wasPaused EXCEPT ![s] = FALSE]
  /\ available' = success
  /\ timer' = (timer \/ success)
  /\ cooldown' = IF s = "request" THEN "on" ELSE cooldown
  /\ UNCHANGED <<forceOnce, followUp, paused, router>>

EndPoll(s, success, authFailed) ==
  /\ pc' = [pc EXCEPT ![s] = "idle"]
  /\ wasPaused' = [wasPaused EXCEPT ![s] = FALSE]
  /\ available' = success
  /\ timer' = (timer \/ ~authFailed)
  /\ cooldown' = IF s = "request" THEN "on" ELSE cooldown
  /\ UNCHANGED <<forceOnce, followUp, paused, router>>

(* `return self.data` after a failure within the strike budget.            *)
MayHold(n) == data # "none" /\ n <= FETCH_STRIKE_LIMIT

HoldValues(s) ==
  /\ UpdateHealth(FailedVerdict(failures', FALSE, fault, probeDone))
  /\ EndPoll(s, TRUE, FALSE)
  /\ UNCHANGED <<data, probeDone, fault, connRepair, authRepair, history>>

(* The rest of `_async_report_unreachable` and the UpdateFailed after it,  *)
(* once the diagnosis is in.  The counter is read again here: a poll of    *)
(* the other slot may have changed it during the probe.                    *)
OutageDueAlways(n) == TRUE               \* mutant: the threshold is dropped
OutageDue(n) == n >= REPAIR_CONN_STRIKE_LIMIT

RaiseUpdateFailed(s) ==
  /\ connRepair' = (connRepair \/ OutageDue(failures'))
  /\ UpdateHealth(FailedVerdict(failures', data = "none", fault', probeDone'))
  /\ EndPoll(s, FALSE, FALSE)
  /\ UNCHANGED <<data, authRepair>>

StartProbeUnlatched(s) ==                \* mutant: the latch waits for the answer
  /\ ~probeDone
  /\ probes' = probes + 1
  /\ pc' = [pc EXCEPT ![s] = "probing"]
  /\ UNCHANGED <<wasPaused, flags, followUp, paused, data, available, probeDone,
                 fault, health, connRepair, authRepair, router, updated>>

(* `_async_diagnose_fault`: the latch is set before the probe is awaited.  *)
StartProbe(s) ==
  /\ ~probeDone
  /\ probeDone' = TRUE
  /\ probes' = probes + 1
  /\ pc' = [pc EXCEPT ![s] = "probing"]
  /\ UNCHANGED <<wasPaused, flags, followUp, paused, data, available, fault,
                 health, connRepair, authRepair, router, updated>>

ReportUnreachable(s) ==
  \/ StartProbe(s)
  \/ /\ probeDone
     /\ UNCHANGED <<probeDone, fault, history>>
     /\ RaiseUpdateFailed(s)

ProbeAnswers(s) ==
  /\ pc[s] = "probing"
  /\ fault' \in Faults                \* "unknown": a second session is refused
  /\ UNCHANGED <<failures, probeDone, updated, probes>>
  /\ RaiseUpdateFailed(s)

-----------------------------------------------------------------------------
(* The outcomes of `api.get_data`.                                         *)

Asking(s) == pc[s] \in {"fetching", "retrying"}

EndOutageKeepsRepair ==                  \* mutant: the repair is forgotten
  /\ probeDone' = FALSE /\ fault' = "unknown" /\ probes' = 0
  /\ UNCHANGED connRepair

(* An outage ends: the repair goes and the probe is armed again.           *)
EndOutage ==
  IF failures > 0
  THEN /\ connRepair' = FALSE /\ probeDone' = FALSE /\ fault' = "unknown"
       /\ probes' = 0
  ELSE UNCHANGED <<connRepair, probeDone, fault, probes>>

FetchServed(s) ==
  /\ Asking(s)
  /\ EndOutage
  /\ failures' = 0
  /\ data' = "fetched" /\ updated' = TRUE
  /\ UpdateHealth(ServedVerdict)
  /\ EndPoll(s, TRUE, FALSE)
  /\ UNCHANGED authRepair

(* The first HuaweiAuthError of a poll is retried at once.                 *)
FetchRetried(s) ==
  /\ pc[s] = "fetching" /\ router = "unsteady"
  /\ pc' = [pc EXCEPT ![s] = "retrying"]
  /\ UNCHANGED <<wasPaused, flags, followUp, paused, data, available, outage,
                 router, history>>

(* No comparison tells two counts from MaxFailures on apart, so the        *)
(* model's counter stays there; the failure itself is always handled.      *)
CountFailure ==
  /\ router = "unsteady"
  /\ failures' = IF failures < MaxFailures THEN failures + 1 ELSE failures

FetchRefused(s) ==
  /\ pc[s] = "retrying"
  /\ CountFailure
  /\ \/ MayHold(failures') /\ HoldValues(s)
     \/ /\ ~MayHold(failures')
        /\ authRepair' = TRUE
        /\ UpdateHealth(FailedVerdict(failures', data = "none", fault, probeDone))
        /\ EndPoll(s, FALSE, TRUE)
        /\ UNCHANGED <<data, probeDone, fault, connRepair, history>>

FetchTimedOut(s) ==
  /\ Asking(s)
  /\ CountFailure
  /\ \/ MayHold(failures') /\ HoldValues(s)
     \/ ~MayHold(failures') /\ ReportUnreachable(s)

(* `return {}`: the branch of a poll that began paused.                    *)
StartEmpty(s) ==
  /\ data' = "empty"
  /\ UpdateHealth(FailedVerdict(failures', TRUE, fault, probeDone))
  /\ EndPoll(s, TRUE, FALSE)
  /\ UNCHANGED <<probeDone, fault, connRepair, authRepair, history>>

FetchFailed(s) ==
  /\ Asking(s)
  /\ CountFailure
  /\ \/ MayHold(failures') /\ HoldValues(s)
     \/ ~MayHold(failures') /\ wasPaused[s] /\ StartEmpty(s)
     \/ ~MayHold(failures') /\ ~wasPaused[s] /\ ReportUnreachable(s)

-----------------------------------------------------------------------------
(* The start of a poll.  Home Assistant disarms the timer and the cooldown *)
(* first; `_async_update_data` then consumes the force flag.               *)

ServeFromCacheAlways(forced, isPaused) == isPaused /\ data # "none"   \* mutant
ServeFromCache(forced, isPaused) == isPaused /\ data # "none" /\ ~forced

BeginPoll(s, forced, isPaused) ==
  /\ ~InFlight(s)
  /\ forceOnce' = FALSE
  /\ \/ /\ ServeFromCache(forced, isPaused)
        /\ available' = TRUE /\ timer' = TRUE
        /\ cooldown' = IF s = "request" THEN "on" ELSE "off"
        /\ UNCHANGED <<pc, wasPaused>>
     \/ /\ ~ServeFromCache(forced, isPaused)
        /\ timer' = FALSE /\ cooldown' = "off"
        /\ pc' = [pc EXCEPT ![s] = "fetching"]
        /\ wasPaused' = [wasPaused EXCEPT ![s] = isPaused]
        /\ UNCHANGED available

TimerPoll ==
  /\ timer
  /\ BeginPoll("timer", forceOnce, paused)
  /\ UNCHANGED <<followUp, paused, data, outage, router, history>>

CooldownEnds ==
  /\ \/ /\ cooldown = "on"
        /\ cooldown' = "off"
        /\ UNCHANGED <<pc, wasPaused, timer, forceOnce, available>>
     \/ /\ cooldown = "again"
        /\ BeginPoll("request", forceOnce, paused)
  /\ UNCHANGED <<followUp, paused, data, outage, router, history>>

(* `async_force_refresh`: set the flag, ask the debouncer.  The debouncer  *)
(* runs the poll at once, or notes it for the end of the cooldown, or      *)
(* drops it because a debounced poll is already in flight.                 *)
ForceRefresh(isPaused) ==
  \/ /\ cooldown = "off" /\ ~InFlight("request")
     /\ BeginPoll("request", TRUE, isPaused)
  \/ /\ cooldown # "off"
     /\ cooldown' = "again" /\ forceOnce' = TRUE
     /\ UNCHANGED <<pc, wasPaused, timer, available>>
  \/ /\ cooldown = "off" /\ InFlight("request")
     /\ forceOnce' = TRUE
     /\ UNCHANGED <<pc, wasPaused, timer, cooldown, available>>

UserRefresh ==
  /\ ForceRefresh(paused)
  /\ UNCHANGED <<followUp, paused, data, outage, router, history>>

PausePolling ==
  /\ ~paused /\ paused' = TRUE
  /\ UNCHANGED <<pc, wasPaused, flags, followUp, data, available, outage,
                 router, history>>

ResumePolling ==
  /\ paused /\ paused' = FALSE
  /\ ForceRefresh(FALSE)
  /\ UNCHANGED <<followUp, data, outage, router, history>>

(* `async_schedule_refresh` after a disruptive button; a second press      *)
(* replaces the first.  With a short poll interval it declines: a stutter. *)
ScheduleFollowUp ==
  /\ ~followUp /\ followUp' = TRUE
  /\ UNCHANGED <<pc, wasPaused, flags, paused, data, available, outage,
                 router, history>>

FollowUpFires ==
  /\ followUp /\ followUp' = FALSE
  /\ ForceRefresh(paused)
  /\ UNCHANGED <<paused, data, outage, router, history>>

(* The interval slider's task is cancelled by the next nudge while it      *)
(* awaits the refresh it forced; the poll in flight is cancelled with it.  *)
SliderCancelsRefresh ==
  /\ InFlight("request")
  /\ EndPoll("request", available, FALSE)
  /\ UNCHANGED <<data, outage, history>>

RouterSettles ==
  /\ router = "unsteady" /\ router' = "up"
  /\ UNCHANGED <<pc, wasPaused, flags, followUp, paused, data, available,
                 outage, history>>

PollStep(s) ==
  \/ FetchServed(s) \/ FetchRetried(s) \/ FetchRefused(s)
  \/ FetchTimedOut(s) \/ FetchFailed(s) \/ ProbeAnswers(s)

Next ==
  \/ \E s \in Slots : PollStep(s)
  \/ TimerPoll \/ CooldownEnds
  \/ UserRefresh \/ PausePolling \/ ResumePolling
  \/ ScheduleFollowUp \/ FollowUpFires \/ SliderCancelsRefresh
  \/ RouterSettles

(* Every await of a poll is bounded by a timeout, and Home Assistant's     *)
(* timers fire.  Users, the router and the slider owe nothing.             *)
Fairness ==
  /\ \A s \in Slots : WF_vars(PollStep(s))
  /\ WF_vars(TimerPoll) /\ WF_vars(CooldownEnds) /\ WF_vars(FollowUpFires)

Spec == Init /\ [][Next]_vars /\ Fairness

-----------------------------------------------------------------------------
(* Safety properties.                                                      *)

(* The conn_error repair stands only while its outage does, however polls  *)
(* overlap: a poll that resumes from its probe after another one recovered *)
(* must not raise a card that no later poll would clear.                   *)
ConnRepairMeansOutage == connRepair => failures >= REPAIR_CONN_STRIKE_LIMIT

(* One login is all the router permits: between two recoveries it sees at  *)
(* most one liveness probe, and a healthy spell leaves the probe armed.    *)
OneProbePerOutage ==
  /\ probes <= 1
  /\ failures = 0 => ~probeDone

(* Integration Health says "error" only of a live outage, before the first *)
(* answer, or of a verdict `update_health` could not compute: a recovery   *)
(* by either slot withdraws the outage and no stale poll brings it back.   *)
ErrorVerdictIsCurrent ==
  health.severity = "error"
    => \/ health.issue = "uncomputed"
       \/ failures >= FETCH_STRIKE_LIMIT
       \/ ~updated

(* README, Repairs: the outage repair also turns Integration Health on.    *)
ConnRepairHasVerdict == connRepair => health.severity = "error"

(* The flag buys a fetch: no poll takes it and then answers from the cache *)
(* because polling is paused, whichever slot the flag reaches.             *)
ForceFlagBuysFetch ==
  [][forceOnce /\ ~forceOnce'
       => \E s \in Slots : pc[s] = "idle" /\ pc'[s] = "fetching"]_vars

-----------------------------------------------------------------------------
(* Liveness.                                                               *)

(* After refused credentials nothing is scheduled until a reauth reloads   *)
(* the entry or the user asks.                                             *)
Stopped == authRepair /\ ~timer /\ \A s \in Slots : ~InFlight(s)

(* A user action's force flag is always spent by some poll, even one the   *)
(* debouncer dropped, unless polling has stopped.                          *)
UserActionServed == forceOnce ~> (~forceOnce \/ Stopped)

(* A router that comes back for good is seen for good: every entity        *)
(* returns, the failure count is cleared, the outage repair and the        *)
(* verdict that named the outage go, and no poll left over from the outage *)
(* undoes it for ever; unless polling is paused, refused credentials       *)
(* stopped it, or the slider never rests.                                  *)
Restored ==
  /\ available /\ failures = 0 /\ ~connRepair
  /\ health \in {ServedVerdict, UncomputedVerdict}

RecoveryVisible ==
  /\ <>[](router = "up" /\ ~paused)
  /\ <>[][~SliderCancelsRefresh]_vars
  => <>[](Restored \/ Stopped)
=============================================================================
